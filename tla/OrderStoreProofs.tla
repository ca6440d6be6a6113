--------------------------- MODULE OrderStoreProofs ---------------------------
(***************************************************************************)
(* Proofs about OrderStore, for any set of uuids, any number of reloaders, *)
(* writes in flight, operations and restarts: the types, what the queue    *)
(* file and the memory say, the contract of a flushed reload, and that     *)
(* what is durable stays so.                                               *)
(***************************************************************************)
EXTENDS OrderStore, SequenceTheorems, TLAPS

(* A function on 1..Len(q) into S is a sequence as long as q.               *)
LEMMA PointwiseIsSeq ==
    ASSUME NEW S, NEW T, NEW q \in Seq(T), NEW f \in [1..Len(q) -> S]
    PROVE  f \in Seq(S) /\ Len(f) = Len(q)
<1>1. Len(q) \in Nat
  BY LenProperties
<1>2. f \in Seq(S)
  BY <1>1, SeqDef
<1>3. DOMAIN f = 1..Len(f) /\ Len(f) \in Nat
  BY <1>2, LenProperties
<1> QED
  BY <1>1, <1>2, <1>3

LEMMA QueueRefsType ==
    ASSUME queue \in Seq(Entry)
    PROVE  /\ \A u \in Uuids, v \in Uuids, r \in Row :
                  RedirectQueue(u, v, r) \in Seq(Entry) /\ Len(RedirectQueue(u, v, r)) = Len(queue)
           /\ \A us \in SUBSET Uuids :
                  DetachQueue(us) \in Seq(Entry) /\ Len(DetachQueue(us)) = Len(queue)
<1>1. \A i \in 1..Len(queue) : queue[i] \in Entry
  BY ElementOfSeq
<1>2. ASSUME NEW u \in Uuids, NEW v \in Uuids, NEW r \in Row
      PROVE  RedirectQueue(u, v, r) \in [1..Len(queue) -> Entry]
  BY <1>1, <1>2 DEF RedirectQueue, Entry, Named
<1>3. ASSUME NEW us \in SUBSET Uuids
      PROVE  DetachQueue(us) \in [1..Len(queue) -> Entry]
  BY <1>1, <1>3 DEF DetachQueue, Entry
<1> QED
  BY <1>2, <1>3, PointwiseIsSeq

LEMMA OnDiskType ==
    ASSUME NEW q \in Seq(Entry)
    PROVE  OnDisk(q) \in Seq(Entry)
<1>1. \A i \in 1..Len(q) : q[i] \in Entry
  BY ElementOfSeq
<1>2. OnDisk(q) \in [1..Len(q) -> Entry]
  BY <1>1 DEF OnDisk, Entry
<1> QED
  BY <1>2, PointwiseIsSeq

LEMMA WithoutType ==
    ASSUME NEW q \in Seq(Entry), NEW key
    PROVE  Without(q, key) \in Seq(Entry)
<1>1. Len(q) \in Nat /\ \A i \in 1..Len(q) : q[i] \in Entry
  BY LenProperties, ElementOfSeq
<1>2. CASE \E i \in 1..Len(q) : q[i].key = key
  <2> DEFINE i == CHOOSE j \in 1..Len(q) : q[j].key = key
  <2>1. i \in 1..Len(q)
    BY <1>2
  <2>4. Without(q, key) = SubSeq(q, 1, i - 1) \o SubSeq(q, i + 1, Len(q))
    BY <1>2 DEF Without
  <2> HIDE DEF i
  <2>2. SubSeq(q, 1, i - 1) \in Seq(Entry)
    <3>1. \A k \in 1..i - 1 : q[k] \in Entry
      BY <1>1, <2>1
    <3>2. 1 \in Int /\ i - 1 \in Int
      BY <2>1
    <3> QED
      BY <3>1, <3>2, SubSeqProperties
  <2>3. SubSeq(q, i + 1, Len(q)) \in Seq(Entry)
    <3>1. \A k \in i + 1..Len(q) : q[k] \in Entry
      BY <1>1, <2>1
    <3>2. i + 1 \in Int /\ Len(q) \in Int
      BY <1>1, <2>1
    <3> QED
      BY <3>1, <3>2, SubSeqProperties
  <2> QED
    BY <2>2, <2>3, <2>4, ConcatProperties
<1>3. CASE ~ \E i \in 1..Len(q) : q[i].key = key
  BY <1>3 DEF Without
<1> QED
  BY <1>2, <1>3

LEMMA UntriedType ==
    ASSUME queue \in Seq(Entry), sync.processed \in Nat, sync.processed <= Len(queue)
    PROVE  Untried \in Seq(Entry)
<1>1. Len(queue) \in Nat /\ \A i \in 1..Len(queue) : queue[i] \in Entry
  BY LenProperties, ElementOfSeq
<1> QED
  BY <1>1, SubSeqProperties DEF Untried

LEMMA NoValuesType ==
    /\ NoRow \in Row /\ Empty \in Table /\ NoTask \in Task
    /\ NoSync \in Sync /\ NoReload \in Reload
<1>1. NoRow \in Row
  BY StoreAssumption DEF NoRow, Row
<1>2. Empty \in Table
  BY <1>1 DEF Empty, Table
<1> QED
  BY <1>1, <1>2 DEF NoTask, Task, Write, NoSync, Sync, Replays, NoReload, Reload, Named

LEMMA TasksType ==
    ASSUME tasks \in [Slots -> Task]
    PROVE  /\ \A u \in Uuids, v \in Uuids, r \in Row :
                  RedirectTasks(u, v, r) \in [Slots -> Task]
           /\ \A us \in SUBSET Uuids : DetachTasks(us) \in [Slots -> Task]
           /\ \A u \in Uuids, v \in Uuids, r \in Row :
                  /\ UpsertTask(u, r) \in Task
                  /\ DeleteTask(u) \in Task
                  /\ ReplaceTask(u, v, r) \in Task
<1>1. ASSUME NEW u \in Uuids, NEW v \in Uuids, NEW r \in Row
      PROVE  RedirectTasks(u, v, r) \in [Slots -> Task]
  <2>1. ASSUME NEW s \in Slots
        PROVE  [tasks[s] EXCEPT !.uuid = v, !.row = r] \in Task
    BY <1>1, StoreAssumption DEF Task, Write, Named
  <2> QED
    BY <2>1 DEF RedirectTasks
<1>2. ASSUME NEW us \in SUBSET Uuids
      PROVE  DetachTasks(us) \in [Slots -> Task]
  <2>1. ASSUME NEW s \in Slots
        PROVE  [tasks[s] EXCEPT !.live = FALSE] \in Task
    BY DEF Task, Write
  <2> QED
    BY <2>1 DEF DetachTasks
<1>3. ASSUME NEW u \in Uuids, NEW v \in Uuids, NEW r \in Row
      PROVE  UpsertTask(u, r) \in Task /\ DeleteTask(u) \in Task /\ ReplaceTask(u, v, r) \in Task
  BY <1>3, NoValuesType, StoreAssumption
     DEF UpsertTask, DeleteTask, ReplaceTask, NoTask, Task, Write, Named
<1> QED
  BY <1>1, <1>2, <1>3

(* Every action keeps the types.                                            *)
LEMMA TypeStep ==
    ASSUME TypeOK, [Next]_vars
    PROVE  TypeOK'
<1> USE DEF TypeOK, proc, hist
<1>0. 1 \in 0..MaxVer /\ [ver |-> 1, req |-> FALSE] \in Row
  BY StoreAssumption DEF Row
<1>1. ASSUME NEW u \in Uuids, AddOrder(u)
      PROVE  TypeOK'
  BY <1>0, <1>1, TasksType, NoValuesType DEF AddOrder, Call, Spawn, Table, Overlapped
<1>2. ASSUME NEW u \in Uuids, NEW keepStatus \in BOOLEAN, UpdateOrder(u, keepStatus)
      PROVE  TypeOK'
  <2> DEFINE r == [ver |-> mem[u].ver + 1, req |-> mem[u].req /\ keepStatus]
  <2>1. r \in Row
    BY <1>2, StoreAssumption DEF UpdateOrder, Row, Table
  <2>2. RedirectQueue(u, u, r) \in Seq(Entry) /\ Len(RedirectQueue(u, u, r)) = Len(queue)
    BY <2>1, QueueRefsType
  <2>3. RedirectTasks(u, u, r) \in [Slots -> Task] /\ UpsertTask(u, r) \in Task
    BY <2>1, TasksType
  <2>4. mem' \in Table /\ tasks' \in [Slots -> Task] /\ dirty' \in SUBSET Uuids
    BY <1>2, <2>1, <2>3 DEF UpdateOrder, Spawn, Table, Overlapped
  <2>5. Call /\ queue' = RedirectQueue(u, u, r)
        /\ UNCHANGED <<db, file, qfile, sync, reload, anc, claimed>>
    BY <1>2 DEF UpdateOrder
  <2> QED
    BY <2>2, <2>4, <2>5 DEF Call
<1>3. ASSUME NEW old \in Uuids, NEW new \in Uuids, ReplaceOrderUuid(old, new)
      PROVE  TypeOK'
  <2> DEFINE r == [ver |-> mem[old].ver, req |-> FALSE]
  <2>1. r \in Row
    BY <1>3 DEF Row, Table
  <2>2. RedirectQueue(old, new, r) \in Seq(Entry) /\ Len(RedirectQueue(old, new, r)) = Len(queue)
    BY <2>1, QueueRefsType
  <2>3. RedirectTasks(old, new, r) \in [Slots -> Task] /\ ReplaceTask(old, new, r) \in Task
    BY <2>1, TasksType
  <2>4. mem' \in Table /\ tasks' \in [Slots -> Task] /\ dirty' \in SUBSET Uuids
    BY <1>3, <2>1, <2>3, NoValuesType DEF ReplaceOrderUuid, Spawn, Table, Overlapped
  <2>5. anc' \in [Uuids -> SUBSET Uuids] /\ claimed' \in SUBSET Uuids
    BY <1>3 DEF ReplaceOrderUuid, ClaimsWithout
  <2>6. Call /\ queue' = RedirectQueue(old, new, r)
        /\ UNCHANGED <<db, file, qfile, sync, reload>>
    BY <1>3 DEF ReplaceOrderUuid
  <2> QED
    BY <2>2, <2>4, <2>5, <2>6 DEF Call
<1>4. ASSUME NEW u \in Uuids, RemoveOrder(u)
      PROVE  TypeOK'
  <2>1. DetachQueue({u}) \in Seq(Entry) /\ Len(DetachQueue({u})) = Len(queue)
    BY QueueRefsType
  <2>2. DetachTasks({u}) \in [Slots -> Task] /\ DeleteTask(u) \in Task
    <3>1. NoRow \in Row
      BY NoValuesType
    <3> QED
      BY <3>1, TasksType
  <2>3. mem' \in Table /\ tasks' \in [Slots -> Task] /\ dirty' \in SUBSET Uuids
    BY <1>4, <2>2, NoValuesType DEF RemoveOrder, Spawn, Table, Overlapped
  <2>4. claimed' \in SUBSET Uuids
    BY <1>4 DEF RemoveOrder, ClaimsWithout
  <2>5. Call /\ queue' = DetachQueue({u})
        /\ UNCHANGED <<db, file, qfile, sync, reload, anc>>
    BY <1>4 DEF RemoveOrder
  <2> QED
    BY <2>1, <2>3, <2>4, <2>5 DEF Call
<1>5. ASSUME NEW user \in Users, NEW ok \in BOOLEAN, ClearUserOrders(user, ok)
      PROVE  TypeOK'
  <2> DEFINE us == {u \in Uuids : Owner[u] = user}
  <2>1. DetachQueue(us) \in Seq(Entry) /\ Len(DetachQueue(us)) = Len(queue)
    BY QueueRefsType
  <2>2. DetachTasks(us) \in [Slots -> Task]
    BY TasksType
  <2>3. db' \in Table /\ mem' \in Table
    BY <1>5, NoValuesType DEF ClearUserOrders, Table
  <2> QED
    BY <1>5, <2>1, <2>2, <2>3 DEF ClearUserOrders, Call, ClaimsWithout, Overlapped
<1>6. ASSUME NEW s \in Slots, TaskStep(s)
      PROVE  TypeOK'
  <2>1. tasks[s] \in Task /\ Touches(tasks[s]) \subseteq Uuids
    BY DEF Touches, Task, Write, Named
  <2>2. ASSUME Finish(s)
        PROVE  tasks' \in [Slots -> Task] /\ reload' \in [Reloaders -> Reload]
    BY <2>2, NoValuesType DEF Finish, Reload
  <2>3. CASE SendUpsert(s)
    BY <2>1, <2>3 DEF SendUpsert, Task, Write
  <2>4. CASE UpsertAnswered(s)
    <3>1. db' \in Table
      BY <2>1, <2>4 DEF UpsertAnswered, Set, Table, Task, Write, Named
    <3>2. tasks' \in [Slots -> Task] /\ reload' \in [Reloaders -> Reload]
      <4>1. CASE tasks[s].old = NoUuid
        BY <2>2, <2>4, <4>1 DEF UpsertAnswered
      <4>2. CASE tasks[s].old # NoUuid
        <5>1. [tasks EXCEPT ![s].phase = "delete"] \in [Slots -> Task]
          BY <2>1, <4>2 DEF Task, Write
        <5> QED
          BY <2>4, <4>2, <5>1 DEF UpsertAnswered
      <4> QED
        BY <4>1, <4>2
    <3> QED
      BY <2>4, <3>1, <3>2 DEF UpsertAnswered
  <2>5. ASSUME NEW applied \in BOOLEAN, UpsertFails(s, applied)
        PROVE  TypeOK'
    BY <2>1, <2>5 DEF UpsertFails, Fail, Set, Table, Task, Write, Named
  <2>6. CASE DeleteAnswered(s)
    <3>1. db' \in Table
      BY <2>1, <2>6, NoValuesType DEF DeleteAnswered, Set, Table, Task, Write, Named
    <3> QED
      BY <2>2, <2>6, <3>1 DEF DeleteAnswered
  <2>7. ASSUME NEW applied \in BOOLEAN, DeleteFails(s, applied)
        PROVE  TypeOK'
    BY <2>1, <2>7, NoValuesType DEF DeleteFails, Fail, Set, Table, Task, Write, Named
  <2>8. ASSUME NEW key \in Uuids, NEW delete \in BOOLEAN, NEW uuid \in Named, NEW row \in Row,
               NEW live \in BOOLEAN, Enqueue(key, delete, uuid, row, live)
        PROVE  /\ queue' \in Seq(Entry) /\ qfile' \in Seq(Entry)
               /\ dropped' \in SUBSET Named
               /\ sync.processed <= Len(queue') /\ ~sync.sending
               /\ UNCHANGED <<anc, claimed, dirty>>
    <3> DEFINE e == [key |-> key, delete |-> delete, uuid |-> uuid, row |-> row, live |-> live]
    <3>1. e \in Entry
      BY DEF Entry
    <3>2. Without(queue, key) \in Seq(Entry)
      BY WithoutType
    <3>3. queue' = Append(Without(queue, key), e)
      BY <2>8 DEF Enqueue
    <3>4. queue' \in Seq(Entry)
      BY <3>1, <3>2, <3>3, AppendProperties
    <3>5. qfile' \in Seq(Entry)
      BY <2>8, <3>4, OnDiskType DEF Enqueue
    <3>6. \A i \in 1..Len(qfile) : qfile[i] \in Entry
      BY ElementOfSeq
    <3>7. dropped' \in SUBSET Named
      BY <2>8, <3>6 DEF Enqueue, Overwritten, Entries, Entry
    <3>8. sync.processed <= Len(queue') /\ ~sync.sending
      <4>1. Len(queue') \in Nat
        BY <3>4, LenProperties
      <4> QED
        BY <2>8, <4>1 DEF Enqueue, Sync, Replays
    <3> QED
      BY <2>8, <3>4, <3>5, <3>7, <3>8 DEF Enqueue
  <2>9. CASE EnqueueUpsert(s)
    <3>1. /\ tasks[s].payUuid \in Uuids /\ tasks[s].uuid \in Named
          /\ tasks[s].row \in Row /\ tasks[s].live \in BOOLEAN
      BY <2>1, <2>9 DEF EnqueueUpsert, Task, Write, Named
    <3>2. Enqueue(tasks[s].payUuid, FALSE, tasks[s].uuid, tasks[s].row, tasks[s].live)
      BY <2>9 DEF EnqueueUpsert
    <3>3. tasks' \in [Slots -> Task] /\ reload' \in [Reloaders -> Reload]
      <4>1. CASE tasks[s].old = NoUuid
        BY <2>2, <2>9, <4>1 DEF EnqueueUpsert
      <4>2. CASE tasks[s].old # NoUuid
        <5>1. [tasks EXCEPT ![s].phase = "enqDelete"] \in [Slots -> Task]
          BY <2>1, <4>2 DEF Task, Write
        <5> QED
          BY <2>9, <4>2, <5>1 DEF EnqueueUpsert
      <4> QED
        BY <4>1, <4>2
    <3>4. /\ queue' \in Seq(Entry) /\ qfile' \in Seq(Entry)
          /\ dropped' \in SUBSET Named
          /\ sync.processed <= Len(queue') /\ ~sync.sending
          /\ UNCHANGED <<anc, claimed, dirty>>
      BY <2>8, <3>1, <3>2
    <3>5. UNCHANGED <<proc, mem, db, file, sync>>
      BY <2>9 DEF EnqueueUpsert
    <3> QED
      BY <3>3, <3>4, <3>5
  <2>10. CASE EnqueueDelete(s)
    <3>1. tasks[s].old \in Uuids /\ NoUuid \in Named /\ NoRow \in Row
      BY <2>1, <2>10, NoValuesType DEF EnqueueDelete, Task, Write, Named
    <3>2. Enqueue(tasks[s].old, TRUE, NoUuid, NoRow, FALSE)
      BY <2>10 DEF EnqueueDelete
    <3>3. tasks' \in [Slots -> Task] /\ reload' \in [Reloaders -> Reload]
      BY <2>2, <2>10 DEF EnqueueDelete
    <3>4. /\ queue' \in Seq(Entry) /\ qfile' \in Seq(Entry)
          /\ dropped' \in SUBSET Named
          /\ sync.processed <= Len(queue') /\ ~sync.sending
          /\ UNCHANGED <<anc, claimed, dirty>>
      BY <2>8, <3>1, <3>2
    <3>5. UNCHANGED <<proc, mem, db, file, sync>>
      BY <2>10 DEF EnqueueDelete
    <3> QED
      BY <3>3, <3>4, <3>5
  <2> QED
    BY <1>6, <2>3, <2>4, <2>5, <2>6, <2>7, <2>9, <2>10 DEF TaskStep
<1>7. CASE SyncStep
  <2>1. /\ Len(queue) \in Nat /\ Len(qfile) \in Nat
        /\ \A i \in 1..Len(queue) : queue[i] \in Entry
    BY LenProperties, ElementOfSeq
  <2>2. CASE LoadQueue
    <3>1. sync' \in Sync /\ sync'.processed = 0 /\ ~sync'.sending
      BY <2>2 DEF LoadQueue, Sync, Replays
    <3> QED
      BY <2>1, <2>2, <3>1 DEF LoadQueue
  <2>3. CASE StartProcess
    BY <2>1, <2>3, NoValuesType DEF StartProcess, NoSync, Sync, Replays
  <2>4. CASE SendQueued
    <3>1. sync.processed + 1 \in 1..Len(queue)
      BY <2>1, <2>4 DEF SendQueued, Sync, Replays
    <3>2. queue[sync.processed + 1] \in Entry
      BY <2>1, <3>1
    <3> QED
      BY <2>4, <3>1, <3>2 DEF SendQueued, Sync, Replays, Entry
  <2>5. ASSUME sync.phase = "run", sync.sending
        PROVE  Replay \in Table /\ sync.processed + 1 \in 1..Len(queue)
    <3>1. sync.processed + 1 \in 1..Len(queue)
      BY <2>1, <2>5 DEF Sync, Replays
    <3>2. queue[sync.processed + 1].key \in Uuids
      BY <2>1, <3>1 DEF Entry
    <3> QED
      BY <2>1, <3>1, <3>2, NoValuesType DEF Replay, Set, Table, Sync, Replays
  <2>6. ASSUME NEW refused \in BOOLEAN, QueuedDone(refused)
        PROVE  TypeOK'
    <3>1. sync.phase = "run" /\ sync.sending
      BY <2>6 DEF QueuedDone
    <3>2. sync' \in Sync /\ sync'.processed <= Len(queue) /\ ~sync'.sending
      <4>1. sync.processed + 1 \in Nat /\ sync.processed + 1 <= Len(queue)
        BY <2>1, <2>5, <3>1
      <4>2. sync' = [NoSync EXCEPT !.phase = "run", !.processed = sync.processed + 1]
        BY <2>6 DEF QueuedDone
      <4> QED
        BY <4>1, <4>2, NoValuesType DEF NoSync, Sync, Replays
    <3>3. db' \in Table /\ dropped' \in SUBSET Named
      BY <2>5, <2>6, <3>1 DEF QueuedDone, Sync, Replays
    <3> QED
      BY <2>6, <3>2, <3>3 DEF QueuedDone
  <2>7. ASSUME NEW applied \in BOOLEAN, QueuedFails(applied)
        PROVE  TypeOK'
    <3>1. sync.phase = "run" /\ sync.sending
      BY <2>7 DEF QueuedFails
    <3>2. sync' \in Sync /\ sync'.processed <= Len(queue) /\ ~sync'.sending
      BY <2>1, <2>7, <3>1, NoValuesType DEF QueuedFails, NoSync, Sync, Replays
    <3>3. db' \in Table
      BY <2>5, <2>7, <3>1 DEF QueuedFails
    <3> QED
      BY <2>7, <3>2, <3>3 DEF QueuedFails
  <2>8. CASE EndProcess
    <3>1. Untried \in Seq(Entry) /\ Len(Untried) \in Nat
      BY UntriedType, LenProperties DEF Sync, Replays
    <3>2. OnDisk(Untried) \in Seq(Entry)
      BY <3>1, OnDiskType
    <3>3. sync' \in Sync /\ sync'.processed = 0 /\ ~sync'.sending
      BY <2>8, NoValuesType DEF EndProcess, NoSync, Sync, Replays
    <3>4. qfile' \in Seq(Entry) /\ queue' = Untried
      BY <2>8, <3>2 DEF EndProcess
    <3> QED
      BY <2>8, <3>1, <3>3, <3>4 DEF EndProcess
  <2> QED
    BY <1>7, <2>2, <2>3, <2>4, <2>6, <2>7, <2>8 DEF SyncStep
<1>8. ASSUME NEW r \in Reloaders, ReloadStep(r)
      PROVE  TypeOK'
  <2>1. Busy \in SUBSET Slots /\ reload[r] \in Reload
    BY DEF Busy
  <2>2. CASE StartFlush(r)
    <3>1. [NoReload EXCEPT !.phase = "flush", !.wait = Busy] \in Reload
      BY <2>1, NoValuesType DEF Reload
    <3> QED
      BY <2>2, <3>1 DEF StartFlush, ReloadUnchanged
  <2>3. CASE TakeLock(r)
    BY <2>1, <2>3 DEF TakeLock, ReloadUnchanged, Reload
  <2>4. CASE Fetch(r)
    BY <2>1, <2>4 DEF Fetch, ReloadUnchanged, Reload
  <2>5. CASE FetchFails(r)
    BY <2>5, NoValuesType DEF FetchFails, ReloadUnchanged
  <2>6. CASE FinishReload(r)
    <3>1. DetachQueue(Uuids) \in Seq(Entry) /\ Len(DetachQueue(Uuids)) = Len(queue)
      BY QueueRefsType
    <3>2. DetachTasks(Uuids) \in [Slots -> Task]
      BY TasksType
    <3>3. mem' \in Table
      BY <2>1, <2>6 DEF FinishReload, Reload
    <3> QED
      BY <2>6, <3>1, <3>2, <3>3, NoValuesType DEF FinishReload, ReloadUnchanged
  <2> QED
    BY <1>8, <2>2, <2>3, <2>4, <2>5, <2>6 DEF ReloadStep
<1>9. CASE ReloadNow
  <2>1. DetachQueue(Uuids) \in Seq(Entry) /\ Len(DetachQueue(Uuids)) = Len(queue)
    BY QueueRefsType
  <2>2. DetachTasks(Uuids) \in [Slots -> Task]
    BY TasksType
  <2> QED
    BY <1>9, <2>1, <2>2 DEF ReloadNow, ReloadUnchanged
<1>10. CASE Crash
  <2>1. <<>> \in Seq(Entry) /\ Len(<<>>) = 0
    BY EmptySeq
  <2>2. NoSync.processed = 0 /\ NoSync.sending = FALSE
    BY DEF NoSync
  <2>3. /\ mem' \in Table /\ tasks' \in [Slots -> Task] /\ sync' \in Sync
        /\ reload' \in [Reloaders -> Reload] /\ up' \in BOOLEAN /\ crashes' \in Nat
    <3>1. crashes' \in Nat
      BY <1>10 DEF Crash
    <3>6. up' \in BOOLEAN
      BY <1>10 DEF Crash
    <3>2. mem' \in Table /\ sync' \in Sync
      BY <1>10, NoValuesType DEF Crash
    <3>3. tasks' \in [Slots -> Task]
      BY <1>10, NoValuesType DEF Crash
    <3>4. reload' \in [Reloaders -> Reload]
      BY <1>10, NoValuesType DEF Crash
    <3> QED
      BY <3>1, <3>2, <3>3, <3>4, <3>6
  <2>4. queue' \in Seq(Entry) /\ sync'.processed <= Len(queue') /\ ~sync'.sending
    BY <1>10, <2>1, <2>2 DEF Crash
  <2> QED
    BY <1>10, <2>3, <2>4 DEF Crash
<1>11. ASSUME NEW fromDb \in BOOLEAN, Boot(fromDb)
       PROVE  TypeOK'
  BY <1>11 DEF Boot
<1>12. ASSUME NEW u \in Uuids, ManagerReserve(u) \/ ManagerRequestCancel(u) \/ ManagerDelete(u)
       PROVE  TypeOK'
  <2>1. db' \in Table
    <3>1. CASE ManagerReserve(u)
      BY <1>0, <3>1 DEF ManagerReserve, Set, Table
    <3>2. CASE ManagerRequestCancel(u)
      <4>1. db[u] \in Row
        BY DEF Table
      <4>2. [db[u] EXCEPT !.req = TRUE] \in Row
        BY <4>1 DEF Row
      <4> QED
        BY <3>2, <4>2 DEF ManagerRequestCancel, Table
    <3>3. CASE ManagerDelete(u)
      BY <3>3, NoValuesType DEF ManagerDelete, Set, Table
    <3> QED
      BY <1>12, <3>1, <3>2, <3>3
  <2>2. anc' \in [Uuids -> SUBSET Uuids] /\ claimed' \in SUBSET Uuids /\ dirty' \in SUBSET Uuids
    BY <1>12 DEF ManagerReserve, ManagerRequestCancel, ManagerDelete, ClaimsWithout
  <2>3. ManagerCall
    BY <1>12 DEF ManagerReserve, ManagerRequestCancel, ManagerDelete
  <2> QED
    BY <2>1, <2>2, <2>3 DEF ManagerCall
<1>13. CASE UNCHANGED vars
  BY <1>13 DEF vars
<1> QED
  BY <1>1, <1>2, <1>3, <1>4, <1>5, <1>6, <1>7, <1>8, <1>9, <1>10, <1>11, <1>12, <1>13
     DEF Next, OrderStep

(* TypeOK holds in every state, whatever the constants: in particular a     *)
(* replay never counts more entries than the queue has (db_sync's lock      *)
(* keeps enqueue_task out), and a write about to be sent, queued or deleted *)
(* always names an order.                                                   *)
THEOREM TypeCorrect == Spec => []TypeOK
<1>1. Init => TypeOK
  <2>1. <<>> \in Seq(Entry) /\ Len(<<>>) = 0
    BY EmptySeq
  <2>2. NoSync.processed = 0 /\ NoSync.sending = FALSE
    BY DEF NoSync
  <2> QED
    BY <2>1, <2>2, NoValuesType DEF Init, TypeOK
<1>2. TypeOK /\ [Next]_vars => TypeOK'
  BY TypeStep
<1> QED
  BY <1>1, <1>2, PTL DEF Spec

(***************************************************************************)
(* The contract of a flushed reload: FlushContract is an invariant of      *)
(* OrderStore, and what a reload promises follows from it.                 *)
(***************************************************************************)
(* The tasks ts are the present ones with some references to one of the     *)
(* orders us redirected within us, or cut.                                  *)
HandedOn(ts, us) ==
    \A s \in Slots :
        /\ ts[s].phase = tasks[s].phase /\ ts[s].old = tasks[s].old
        /\ ts[s].payUuid = tasks[s].payUuid /\ ts[s].pay = tasks[s].pay
        /\ ts[s].live => tasks[s].live
        /\ \/ ts[s].uuid = tasks[s].uuid /\ ts[s].row = tasks[s].row
           \/ tasks[s].live /\ tasks[s].uuid \in us /\ ts[s].uuid \in us

(* A call that changes the orders us in the memory, hands the tasks ts on   *)
(* and spawns the one write t about them: add, update, replace and remove.  *)
LEMMA CallKeepsContract ==
    ASSUME TypeOK, FlushContract, up, up' = up,
           NEW us \in SUBSET Uuids, NEW ts \in [Slots -> Task], NEW t \in Task, NEW sl \in Slots,
           HandedOn(ts, us), ts[sl].phase = "free", tasks' = [ts EXCEPT ![sl] = t],
           Touches(t) = us, t.phase \in {"new", "sent", "delete"},
           t.phase = "new" => t.old = NoUuid /\ t.payUuid = NoUuid,
           t.old # NoUuid => ~t.live /\ t.payUuid = t.uuid /\ t.uuid # t.old,
           \A u \in us : WillAgree(t, u)',
           \A u \in Uuids \ us : mem'[u] = mem[u],
           \A i \in 1..Len(queue') : queue'[i].key \in dirty'
                                     /\ queue'[i].uuid \in dirty' \cup {NoUuid},
           dirty \cup Overlapped(us) \subseteq dirty',
           UNCHANGED <<db, qfile, sync, reload>>
    PROVE  FlushContract'
<1>1. TaskShapes'
  BY DEF FlushContract, TaskShapes, Busy, HandedOn
<1>2. NothingRunsWhenDown'
  BY DEF NothingRunsWhenDown
<1>3. us \cap InFlight # {} => us \subseteq dirty'
  BY DEF Overlapped
<1>4. ASSUME NEW s \in Slots, s # sl
      PROVE  Touches(tasks'[s]) \subseteq Touches(tasks[s])
                 \cup (IF Touches(tasks[s]) \cap us # {} THEN us ELSE {})
  BY <1>4, StoreAssumption DEF HandedOn, Touches, TypeOK, Task, Write, Named
<1>5. FailedWritesAreDirty'
  <2>1. ASSUME NEW s \in Slots, tasks'[s].phase \in {"enqUpsert", "enqDelete"}
        PROVE  Touches(tasks'[s]) \subseteq dirty'
    <3>1. s # sl /\ tasks[s].phase \in {"enqUpsert", "enqDelete"} /\ s \in Busy
      BY <2>1 DEF Busy, HandedOn
    <3>2. Touches(tasks[s]) \subseteq dirty /\ Touches(tasks[s]) \subseteq InFlight
      BY <3>1 DEF FlushContract, FailedWritesAreDirty, InFlight
    <3> QED
      BY <1>3, <1>4, <3>1, <3>2
  <2> QED
    BY <2>1 DEF FlushContract, FailedWritesAreDirty
<1>6. ASSUME NEW u \in Uuids \ dirty', u \in us
      PROVE  CleanOrder(u)'
  <2>1. us \cap InFlight = {} /\ \A r \in Reloaders : reload[r].phase = "idle"
    BY <1>6 DEF Overlapped
  <2>2. \A s \in Slots : s # sl /\ tasks'[s].phase # "free" => u \notin Touches(tasks'[s])
    <3>1. ASSUME NEW s \in Slots, s # sl, tasks'[s].phase # "free"
          PROVE  u \notin Touches(tasks'[s])
      <4>1. s \in Busy
        BY <3>1 DEF Busy, HandedOn
      <4>2. Touches(tasks[s]) \cap us = {}
        BY <2>1, <4>1 DEF InFlight
      <4> QED
        BY <1>4, <1>6, <3>1, <4>2
    <3> QED
      BY <3>1
  <2>3. Writers(u)' = {sl}
    BY <1>6, <2>2 DEF Writers, Busy, Touches
  <2>4. WillAgree(tasks[sl], u)'
    BY <1>6 DEF WillAgree
  <2>5. \A r \in Reloaders : WillKeep(reload[r], u)'
    BY <2>1 DEF WillKeep
  <2> QED
    BY <2>3, <2>4, <2>5 DEF CleanOrder
<1>7. ASSUME NEW u \in Uuids \ dirty', u \notin us
      PROVE  CleanOrder(u)'
  <2>1. CleanOrder(u)
    BY <1>7 DEF FlushContract
  <2>2. Writers(u)' = Writers(u)
    BY <1>7 DEF HandedOn, Writers, Busy, Touches, TypeOK
  <2>3. ASSUME NEW s \in Writers(u)
        PROVE  WillAgree(tasks[s], u)'
    <3>1. s \in Slots /\ s # sl /\ WillAgree(tasks[s], u)
      BY <2>1 DEF CleanOrder, HandedOn, Writers, Busy
    <3>2. mem'[u] = mem[u] /\ db'[u] = db[u]
      BY <1>7
    <3> QED
      BY <1>7, <3>1, <3>2 DEF HandedOn, WillAgree
  <2>4. \A r \in Reloaders : WillKeep(reload[r], u)'
    BY <1>7, <2>1, <2>2 DEF CleanOrder, WillKeep
  <2> QED
    BY <1>7, <2>1, <2>2, <2>3, <2>4 DEF CleanOrder
<1> QED
  BY <1>1, <1>2, <1>5, <1>6, <1>7 DEF FlushContract

(* Handing a queue on changes no key, and redirects or keeps each uuid.     *)
LEMMA QueueRefs ==
    ASSUME TypeOK
    PROVE  /\ \A u \in Uuids, v \in Uuids, r \in Row : \A i \in 1..Len(queue) :
                  /\ RedirectQueue(u, v, r)[i].key = queue[i].key
                  /\ \/ RedirectQueue(u, v, r)[i].uuid = queue[i].uuid
                     \/ queue[i].uuid = u /\ RedirectQueue(u, v, r)[i].uuid = v
           /\ \A us \in SUBSET Uuids : \A i \in 1..Len(queue) :
                  /\ DetachQueue(us)[i].key = queue[i].key
                  /\ DetachQueue(us)[i].uuid = queue[i].uuid
<1>1. \A i \in 1..Len(queue) : queue[i] \in Entry
  BY ElementOfSeq DEF TypeOK
<1>2. ASSUME NEW u \in Uuids, NEW v \in Uuids, NEW r \in Row, NEW i \in 1..Len(queue)
      PROVE  /\ RedirectQueue(u, v, r)[i].key = queue[i].key
             /\ \/ RedirectQueue(u, v, r)[i].uuid = queue[i].uuid
                \/ queue[i].uuid = u /\ RedirectQueue(u, v, r)[i].uuid = v
  BY <1>1, <1>2 DEF RedirectQueue, Entry
<1>3. ASSUME NEW us \in SUBSET Uuids, NEW i \in 1..Len(queue)
      PROVE  DetachQueue(us)[i].key = queue[i].key /\ DetachQueue(us)[i].uuid = queue[i].uuid
  BY <1>1, <1>3 DEF DetachQueue, Entry
<1> QED
  BY <1>2, <1>3

(* A step that leaves the writes about u, their order and u's two rows      *)
(* alone keeps u's part of the contract.                                    *)
LEMMA CleanFrame ==
    ASSUME NEW u \in Uuids, CleanOrder(u), up' = up, mem'[u] = mem[u], db'[u] = db[u],
           Writers(u)' = Writers(u),
           \A s \in Writers(u) : /\ tasks'[s].phase = tasks[s].phase
                                 /\ tasks'[s].uuid = tasks[s].uuid
                                 /\ tasks'[s].row = tasks[s].row
                                 /\ tasks'[s].old = tasks[s].old
                                 /\ tasks'[s].payUuid = tasks[s].payUuid
                                 /\ tasks'[s].pay = tasks[s].pay,
           \A r \in Reloaders : WillKeep(reload[r], u)'
    PROVE  CleanOrder(u)'
  BY DEF CleanOrder, WillAgree

LEMMA OrderStepKeepsContract ==
    ASSUME TypeOK, FlushContract,
           NEW u \in Uuids, OrderStep(u)
    PROVE  FlushContract'
<1>1. \A s \in Slots : tasks[s] \in Write
  BY DEF TypeOK, Task
<1>2. CASE AddOrder(u)
  <2> DEFINE r == [ver |-> 1, req |-> FALSE]
             t == UpsertTask(u, r)
  <2>1. PICK sl \in Slots : tasks[sl].phase = "free" /\ tasks' = [tasks EXCEPT ![sl] = t]
    BY <1>2 DEF AddOrder, Spawn
  <2>2. /\ t.phase = "new" /\ t.uuid = u /\ t.row = r /\ t.old = NoUuid /\ t.payUuid = NoUuid
        /\ Touches(t) = {u}
    BY StoreAssumption DEF UpsertTask, NoTask, Touches
  <2>3. mem' = [mem EXCEPT ![u] = r] /\ dirty' = dirty \cup Overlapped({u})
        /\ UNCHANGED <<db, qfile, sync, reload, queue, up>> /\ up
    BY <1>2 DEF AddOrder, Call
  <2>4. t \in Task
    <3>1. r \in Row
      BY StoreAssumption DEF Row
    <3> QED
      BY <3>1, TasksType DEF TypeOK
  <2>5. mem'[u] = r /\ \A v \in Uuids \ {u} : mem'[v] = mem[v]
    BY <2>3 DEF TypeOK, Table
  <2>6. WillAgree(t, u)'
    BY <2>2, <2>5 DEF WillAgree
  <2>7. \A i \in 1..Len(queue') : queue'[i].key \in dirty' /\ queue'[i].uuid \in dirty' \cup {NoUuid}
    BY <2>3 DEF FlushContract, FailedWritesAreDirty
  <2>8. HandedOn(tasks, {u})
    BY DEF HandedOn
  <2> HIDE DEF t, r
  <2> QED
    BY <2>1, <2>2, <2>3, <2>4, <2>5, <2>6, <2>7, <2>8, CallKeepsContract
       DEF TypeOK
<1>3. ASSUME NEW keepStatus \in BOOLEAN, UpdateOrder(u, keepStatus)
      PROVE  FlushContract'
  <2>4. PICK r \in Row : r = [ver |-> mem[u].ver + 1, req |-> mem[u].req /\ keepStatus]
    <3>1. [ver |-> mem[u].ver + 1, req |-> mem[u].req /\ keepStatus] \in Row
      BY <1>3, StoreAssumption DEF UpdateOrder, TypeOK, Table, Row
    <3> QED
      BY <3>1
  <2>7. PICK t \in Task, ts \in [Slots -> Task] :
            t = UpsertTask(u, r) /\ ts = RedirectTasks(u, u, r)
    BY TasksType DEF TypeOK
  <2>1. PICK sl \in Slots : ts[sl].phase = "free" /\ tasks' = [ts EXCEPT ![sl] = t]
    BY <1>3, <2>4, <2>7 DEF UpdateOrder, Spawn
  <2>2. /\ t.phase = "new" /\ t.uuid = u /\ t.row = r /\ t.old = NoUuid /\ t.payUuid = NoUuid
        /\ Touches(t) = {u}
    BY <2>7, StoreAssumption DEF UpsertTask, NoTask, Touches
  <2>3. /\ mem' = [mem EXCEPT ![u] = r] /\ dirty' = dirty \cup Overlapped({u})
        /\ queue' = RedirectQueue(u, u, r)
        /\ UNCHANGED <<db, qfile, sync, reload, up>> /\ up
    BY <1>3, <2>4 DEF UpdateOrder, Call
  <2>5. mem'[u] = r /\ \A v \in Uuids \ {u} : mem'[v] = mem[v]
    BY <2>3 DEF TypeOK, Table
  <2>6. WillAgree(t, u)'
    BY <2>2, <2>5 DEF WillAgree
  <2>8. HandedOn(ts, {u})
    BY <1>1, <2>7 DEF HandedOn, RedirectTasks, Write
  <2>9. \A i \in 1..Len(queue') : queue'[i].key \in dirty' /\ queue'[i].uuid \in dirty' \cup {NoUuid}
    <3>1. Len(queue') = Len(queue)
      BY <2>3, QueueRefsType DEF TypeOK
    <3>2. \A i \in 1..Len(queue) : queue'[i].key = queue[i].key /\ queue'[i].uuid = queue[i].uuid
      BY <2>3, QueueRefs
    <3> QED
      BY <2>3, <3>1, <3>2 DEF FlushContract, FailedWritesAreDirty
  <2> QED
    BY ZenonT(30), <2>1, <2>2, <2>3, <2>5, <2>6, <2>7, <2>8, <2>9, CallKeepsContract
<1>4. ASSUME NEW new \in Uuids, ReplaceOrderUuid(u, new)
      PROVE  FlushContract'
  <2> DEFINE us == {u, new}
  <2>4. PICK r \in Row : r = [ver |-> mem[u].ver, req |-> FALSE]
    BY DEF TypeOK, Table, Row
  <2>7. PICK t \in Task, ts \in [Slots -> Task] :
            t = ReplaceTask(u, new, r) /\ ts = RedirectTasks(u, new, r)
    BY TasksType DEF TypeOK
  <2>1. PICK sl \in Slots : ts[sl].phase = "free" /\ tasks' = [ts EXCEPT ![sl] = t]
    BY <1>4, <2>4, <2>7 DEF ReplaceOrderUuid, Spawn
  <2>2. /\ t.phase = "sent" /\ t.uuid = new /\ t.old = u /\ t.payUuid = new /\ t.pay = r
        /\ t.live = FALSE /\ Touches(t) = us /\ new # u
    BY <1>4, <2>7, StoreAssumption DEF ReplaceTask, NoTask, Touches, ReplaceOrderUuid
  <2>3. /\ mem' = [mem EXCEPT ![u] = NoRow, ![new] = r]
        /\ dirty' = dirty \cup Overlapped(us) \cup (IF u \in dirty THEN {new} ELSE {})
        /\ queue' = RedirectQueue(u, new, r)
        /\ UNCHANGED <<db, qfile, sync, reload, up>> /\ up
    BY <1>4, <2>4 DEF ReplaceOrderUuid, Call
  <2>5. mem'[u] = NoRow /\ mem'[new] = r /\ \A v \in Uuids \ us : mem'[v] = mem[v]
    BY <2>2, <2>3 DEF TypeOK, Table
  <2>6. \A v \in us : WillAgree(t, v)'
    BY <2>2, <2>5 DEF WillAgree
  <2>8. HandedOn(ts, us)
    BY <1>1, <2>7 DEF HandedOn, RedirectTasks, Write
  <2>9. \A i \in 1..Len(queue') : queue'[i].key \in dirty' /\ queue'[i].uuid \in dirty' \cup {NoUuid}
    <3>1. Len(queue') = Len(queue)
      BY <2>3, QueueRefsType DEF TypeOK
    <3>2. \A i \in 1..Len(queue) : /\ queue'[i].key = queue[i].key
                                   /\ \/ queue'[i].uuid = queue[i].uuid
                                      \/ queue[i].uuid = u /\ queue'[i].uuid = new
      BY <2>3, QueueRefs
    <3> QED
      BY <2>3, <3>1, <3>2, StoreAssumption DEF FlushContract, FailedWritesAreDirty
  <2>10. us \in SUBSET Uuids
    OBVIOUS
  <2> HIDE DEF us
  <2> QED
    BY <2>1, <2>2, <2>3, <2>5, <2>6, <2>7, <2>8, <2>9, <2>10, CallKeepsContract
<1>5. CASE RemoveOrder(u)
  <2>6. PICK t \in Task, ts \in [Slots -> Task] : t = DeleteTask(u) /\ ts = DetachTasks({u})
    <3>1. NoRow \in Row
      BY NoValuesType
    <3> QED
      BY <3>1, TasksType DEF TypeOK
  <2>1. PICK sl \in Slots : ts[sl].phase = "free" /\ tasks' = [ts EXCEPT ![sl] = t]
    BY <1>5, <2>6 DEF RemoveOrder, Spawn
  <2>2. /\ t.phase = "delete" /\ t.uuid = NoUuid /\ t.old = u /\ t.payUuid = NoUuid
        /\ t.live = FALSE /\ Touches(t) = {u} /\ NoUuid # u
    BY <2>6, StoreAssumption DEF DeleteTask, NoTask, Touches
  <2>3. /\ mem' = [mem EXCEPT ![u] = NoRow] /\ dirty' = dirty \cup Overlapped({u})
        /\ queue' = DetachQueue({u})
        /\ UNCHANGED <<db, qfile, sync, reload, up>> /\ up
    BY <1>5 DEF RemoveOrder, Call
  <2>4. mem'[u] = NoRow /\ \A v \in Uuids \ {u} : mem'[v] = mem[v]
    BY <2>3 DEF TypeOK, Table
  <2>5. WillAgree(t, u)'
    BY <2>2, <2>4 DEF WillAgree
  <2>7. HandedOn(ts, {u})
    BY <1>1, <2>6 DEF HandedOn, DetachTasks, Write
  <2>8. \A i \in 1..Len(queue') : queue'[i].key \in dirty' /\ queue'[i].uuid \in dirty' \cup {NoUuid}
    <3>1. Len(queue') = Len(queue)
      BY <2>3, QueueRefsType DEF TypeOK
    <3>2. \A i \in 1..Len(queue) : queue'[i].key = queue[i].key /\ queue'[i].uuid = queue[i].uuid
      BY <2>3, QueueRefs
    <3> QED
      BY <2>3, <3>1, <3>2 DEF FlushContract, FailedWritesAreDirty
  <2> QED
    <3>1. /\ t.phase \in {"new", "sent", "delete"} /\ t.phase # "new"
          /\ ~t.live /\ t.payUuid = t.uuid /\ t.uuid # t.old
      BY <2>2
    <3>2. dirty \cup Overlapped({u}) \subseteq dirty' /\ \A v \in {u} : WillAgree(t, v)'
      BY <2>3, <2>5
    <3> QED
      BY ZenonT(30), <2>1, <2>2, <2>3, <2>4, <2>6, <2>7, <2>8, <3>1, <3>2, CallKeepsContract
<1>6. CASE ManagerReserve(u) \/ ManagerRequestCancel(u) \/ ManagerDelete(u)
  <2>1. /\ UNCHANGED <<up, mem, tasks, queue, qfile, sync, reload>>
        /\ dirty' = dirty \cup {u}
        /\ \A v \in Uuids \ {u} : db'[v] = db[v]
    BY <1>6 DEF ManagerReserve, ManagerRequestCancel, ManagerDelete, ManagerCall, Set, TypeOK, Table
  <2>2. TaskShapes' /\ NothingRunsWhenDown'
    BY <2>1 DEF FlushContract, TaskShapes, NothingRunsWhenDown, Busy
  <2>3. FailedWritesAreDirty'
    BY <2>1 DEF FlushContract, FailedWritesAreDirty
  <2>4. ASSUME NEW v \in Uuids \ dirty'
        PROVE  CleanOrder(v)'
    <3>1. CleanOrder(v) /\ db'[v] = db[v] /\ mem'[v] = mem[v]
      BY <2>1, <2>4 DEF FlushContract
    <3>2. Writers(v)' = Writers(v)
      BY <2>1 DEF Writers, Busy
    <3>3. \A r \in Reloaders : WillKeep(reload[r], v)'
      BY <2>1, <3>1, <3>2 DEF CleanOrder, WillKeep
    <3> QED
      BY <2>1, <3>1, <3>2, <3>3, CleanFrame
  <2> QED
    BY <2>2, <2>3, <2>4 DEF FlushContract
<1> QED
  BY <1>2, <1>3, <1>4, <1>5, <1>6 DEF OrderStep

(* Cutting references (us may be all orders) is no change for the contract. *)
LEMMA DetachKeeps ==
    ASSUME TypeOK, FlushContract, NEW us \in SUBSET Uuids,
           tasks' = DetachTasks(us), queue' = DetachQueue(us),
           dirty \subseteq dirty', UNCHANGED <<qfile, sync>>
    PROVE  /\ TaskShapes' /\ FailedWritesAreDirty'
           /\ \A u : Writers(u)' = Writers(u)
           /\ \A s \in Slots : /\ tasks'[s].phase = tasks[s].phase
                               /\ tasks'[s].uuid = tasks[s].uuid
                               /\ tasks'[s].row = tasks[s].row
                               /\ tasks'[s].old = tasks[s].old
                               /\ tasks'[s].payUuid = tasks[s].payUuid
                               /\ tasks'[s].pay = tasks[s].pay
<1>1. \A s \in Slots : tasks[s] \in Write
  BY DEF TypeOK, Task
<1>2. \A s \in Slots : /\ tasks'[s].phase = tasks[s].phase
                      /\ tasks'[s].uuid = tasks[s].uuid
                      /\ tasks'[s].row = tasks[s].row
                      /\ tasks'[s].old = tasks[s].old
                      /\ tasks'[s].payUuid = tasks[s].payUuid
                      /\ tasks'[s].pay = tasks[s].pay
  BY <1>1 DEF DetachTasks, Write
<1>7. \A s \in Slots : tasks[s].live = FALSE => tasks'[s].live = FALSE
  BY <1>1 DEF DetachTasks, Write
<1>3. \A u : Writers(u)' = Writers(u)
  BY <1>2 DEF Writers, Busy, Touches
<1>4. TaskShapes'
  <2>1. ASSUME NEW s \in Slots, tasks'[s].phase # "free", tasks'[s].old # NoUuid
        PROVE  tasks'[s].live = FALSE /\ tasks'[s].payUuid = tasks'[s].uuid
               /\ tasks'[s].uuid # tasks'[s].old
    <3>1. tasks[s].live = FALSE /\ tasks[s].payUuid = tasks[s].uuid /\ tasks[s].uuid # tasks[s].old
      BY <1>1, <1>2, <2>1 DEF FlushContract, TaskShapes, Busy, Write
    <3> QED
      BY <1>2, <1>7, <3>1
  <2>2. \A s \in Slots : tasks'[s].phase = "new" => tasks'[s].old = NoUuid /\ tasks'[s].payUuid = NoUuid
    BY <1>2 DEF FlushContract, TaskShapes, Busy
  <2> QED
    BY <2>1, <2>2 DEF TaskShapes, Busy
<1>5. Len(queue') = Len(queue)
      /\ \A i \in 1..Len(queue) : queue'[i].key = queue[i].key /\ queue'[i].uuid = queue[i].uuid
  BY QueueRefsType, QueueRefs DEF TypeOK
<1>6. FailedWritesAreDirty'
  <2>1. \A s \in Slots : tasks'[s].phase \in {"enqUpsert", "enqDelete"} =>
                            Touches(tasks'[s]) \subseteq dirty'
    BY <1>2 DEF FlushContract, FailedWritesAreDirty, Touches
  <2> QED
    BY <1>5, <2>1 DEF FlushContract, FailedWritesAreDirty
<1> QED
  BY <1>2, <1>3, <1>4, <1>6

LEMMA ClearKeepsContract ==
    ASSUME TypeOK, FlushContract, NEW user \in Users, NEW ok \in BOOLEAN,
           ClearUserOrders(user, ok)
    PROVE  FlushContract'
<1> DEFINE us == {u \in Uuids : Owner[u] = user}
<1>1. /\ up /\ up' = up /\ UNCHANGED <<qfile, sync, reload>>
      /\ tasks' = DetachTasks(us) /\ queue' = DetachQueue(us)
      /\ dirty' = dirty \cup (IF ok THEN Overlapped(us) ELSE us)
  BY DEF ClearUserOrders, Call
<1>2. /\ \A u \in us : mem'[u] = NoRow /\ (ok => db'[u] = NoRow)
      /\ \A u \in Uuids \ us : mem'[u] = mem[u] /\ db'[u] = db[u]
  BY DEF ClearUserOrders
<1>3. dirty \subseteq dirty' /\ us \in SUBSET Uuids
  BY <1>1
<1> HIDE DEF us
<1>4. /\ TaskShapes' /\ FailedWritesAreDirty'
      /\ \A u : Writers(u)' = Writers(u)
      /\ \A s \in Slots : /\ tasks'[s].phase = tasks[s].phase
                          /\ tasks'[s].uuid = tasks[s].uuid
                          /\ tasks'[s].row = tasks[s].row
                          /\ tasks'[s].old = tasks[s].old
                          /\ tasks'[s].payUuid = tasks[s].payUuid
                          /\ tasks'[s].pay = tasks[s].pay
  BY <1>1, <1>3, DetachKeeps
<1>5. NothingRunsWhenDown'
  BY <1>1 DEF NothingRunsWhenDown
<1>6. ASSUME NEW u \in Uuids \ dirty', u \in us
      PROVE  CleanOrder(u)'
  <2>1. ok /\ us \cap InFlight = {} /\ \A r \in Reloaders : reload[r].phase = "idle"
    BY <1>1, <1>6 DEF Overlapped
  <2>2. Writers(u)' = {}
    BY <1>4, <1>6, <2>1 DEF Writers, InFlight
  <2> QED
    BY <1>1, <1>2, <1>6, <2>1, <2>2 DEF CleanOrder, WillKeep
<1>7. ASSUME NEW u \in Uuids \ dirty', u \notin us
      PROVE  CleanOrder(u)'
  <2>1. CleanOrder(u) /\ mem'[u] = mem[u] /\ db'[u] = db[u]
    BY <1>1, <1>2, <1>7 DEF FlushContract
  <2>2. \A r \in Reloaders : WillKeep(reload[r], u)'
    BY <1>1, <1>4, <2>1 DEF CleanOrder, WillKeep
  <2>3. Writers(u) \subseteq Slots
    BY DEF Writers, Busy
  <2> QED
    BY <1>1, <1>4, <2>1, <2>2, <2>3, CleanFrame
<1> QED
  BY <1>4, <1>5, <1>6, <1>7 DEF FlushContract

LEMMA ReloadKeepsContract ==
    ASSUME TypeOK, FlushContract,
           ReloadNow \/ \E r \in Reloaders : ReloadStep(r)
    PROVE  FlushContract'
<1>1. UNCHANGED <<up, db, qfile, sync>> /\ up /\ dirty \subseteq dirty'
  BY DEF ReloadNow, ReloadStep, StartFlush, TakeLock, Fetch, FetchFails, FinishReload,
         ReloadUnchanged, proc
<1>2. NothingRunsWhenDown'
  BY <1>1 DEF NothingRunsWhenDown
<1>3. ASSUME UNCHANGED <<mem, tasks, queue, dirty>>,
             \A u \in Uuids \ dirty, r \in Reloaders : CleanOrder(u) => WillKeep(reload'[r], u)
      PROVE  FlushContract'
  <2>1. TaskShapes' /\ FailedWritesAreDirty' /\ \A u : Writers(u)' = Writers(u)
    BY <1>1, <1>3 DEF FlushContract, TaskShapes, FailedWritesAreDirty, Busy, Writers
  <2>2. ASSUME NEW u \in Uuids \ dirty
        PROVE  CleanOrder(u)'
    <3>1. CleanOrder(u) /\ \A r \in Reloaders : WillKeep(reload[r], u)'
      BY <1>3, <2>1, <2>2 DEF FlushContract, WillKeep
    <3> QED
      BY <1>1, <1>3, <2>1, <3>1, CleanFrame
  <2> QED
    BY <1>2, <1>3, <2>1, <2>2 DEF FlushContract
<1>4. ASSUME NEW r \in Reloaders, StartFlush(r) \/ TakeLock(r) \/ Fetch(r) \/ FetchFails(r)
      PROVE  FlushContract'
  <2>1. ASSUME NEW u \in Uuids \ dirty, NEW r2 \in Reloaders, CleanOrder(u)
        PROVE  WillKeep(reload'[r2], u)
    <3>1. CASE r2 # r
      BY <1>4, <2>1, <3>1
         DEF StartFlush, TakeLock, Fetch, FetchFails, TypeOK, CleanOrder
    <3>2. CASE r2 = r /\ StartFlush(r)
      <4>1. reload'[r].phase = "flush" /\ reload'[r].wait = Busy
        BY <3>2 DEF StartFlush, TypeOK, NoReload
      <4> QED
        BY <3>2, <4>1 DEF WillKeep, Writers
    <3>3. CASE r2 = r /\ TakeLock(r)
      <4>1. reload'[r].phase = "fetch" /\ reload[r].phase = "flush" /\ reload[r].wait = {}
        BY <3>3 DEF TakeLock, TypeOK, Reload
      <4> QED
        BY <2>1, <3>3, <4>1 DEF CleanOrder, WillKeep
    <3>4. CASE r2 = r /\ Fetch(r)
      <4>1. reload'[r].phase = "got" /\ reload[r].phase = "fetch" /\ reload'[r].rows = db
        BY <3>4 DEF Fetch, TypeOK, Reload
      <4>2. Writers(u) = {} /\ mem[u] = db[u]
        BY <1>1, <2>1, <4>1 DEF CleanOrder, WillKeep
      <4> QED
        BY <3>4, <4>1, <4>2 DEF WillKeep
    <3>5. CASE r2 = r /\ FetchFails(r)
      <4>1. reload'[r].phase = "idle"
        BY <3>5 DEF FetchFails, TypeOK, NoReload
      <4> QED
        BY <3>5, <4>1 DEF WillKeep
    <3> QED
      BY <1>4, <3>1, <3>2, <3>3, <3>4, <3>5
  <2>2. UNCHANGED <<mem, tasks, queue, dirty>>
    BY <1>4 DEF StartFlush, TakeLock, Fetch, FetchFails
  <2> QED
    BY <1>3, <2>1, <2>2
<1>5. ASSUME ReloadNow \/ \E r \in Reloaders : FinishReload(r)
      PROVE  FlushContract'
  <2>1. tasks' = DetachTasks(Uuids) /\ queue' = DetachQueue(Uuids)
    BY <1>5 DEF ReloadNow, FinishReload
  <2>2. /\ TaskShapes' /\ FailedWritesAreDirty'
        /\ \A u : Writers(u)' = Writers(u)
        /\ \A s \in Slots : /\ tasks'[s].phase = tasks[s].phase
                            /\ tasks'[s].uuid = tasks[s].uuid
                            /\ tasks'[s].row = tasks[s].row
                            /\ tasks'[s].old = tasks[s].old
                            /\ tasks'[s].payUuid = tasks[s].payUuid
                            /\ tasks'[s].pay = tasks[s].pay
    BY <1>1, <2>1, DetachKeeps
  <2>3. ASSUME NEW u \in Uuids \ dirty'
        PROVE  CleanOrder(u)'
    <3>1. CleanOrder(u) /\ db'[u] = db[u]
      BY <1>1, <2>3 DEF FlushContract
    <3>2. mem'[u] = mem[u]
      <4>1. CASE ReloadNow
        BY <2>3, <4>1 DEF ReloadNow
      <4>2. ASSUME NEW r \in Reloaders, FinishReload(r)
            PROVE  mem'[u] = mem[u]
        BY <3>1, <4>2 DEF FinishReload, CleanOrder, WillKeep
      <4> QED
        BY <1>5, <4>1, <4>2
    <3>3. \A r \in Reloaders : reload'[r] = reload[r] \/ reload'[r].phase = "idle"
      <4>1. CASE ReloadNow
        BY <4>1 DEF ReloadNow
      <4>2. ASSUME NEW r \in Reloaders, FinishReload(r)
            PROVE  \A r2 \in Reloaders : reload'[r2] = reload[r2] \/ reload'[r2].phase = "idle"
        BY <4>2 DEF FinishReload, TypeOK, NoReload
      <4> QED
        BY <1>5, <4>1, <4>2
    <3>4. \A r \in Reloaders : WillKeep(reload[r], u)'
      BY <2>2, <3>1, <3>2, <3>3 DEF CleanOrder, WillKeep
    <3>5. Writers(u) \subseteq Slots
      BY DEF Writers, Busy
    <3> QED
      BY <1>1, <2>2, <3>1, <3>2, <3>4, <3>5, CleanFrame
  <2> QED
    BY <1>2, <2>2, <2>3 DEF FlushContract
<1> QED
  BY <1>4, <1>5 DEF ReloadStep

(* A write in flight of a clean order is its only one: a step of task s     *)
(* disturbs no clean order but those s is about.                            *)
LEMMA TaskStepFrame ==
    ASSUME TypeOK, FlushContract, NEW s \in Slots, up, up' = up, UNCHANGED mem,
           \A s2 \in Slots \ {s} : tasks'[s2] = tasks[s2],
           tasks[s].phase # "free",
           \A v \in Uuids \ Touches(tasks[s]) : db'[v] = db[v],
           dirty \subseteq dirty',
           Touches(tasks'[s]) \subseteq Touches(tasks[s]) \cup dirty',
           \A r \in Reloaders : /\ reload'[r].phase = reload[r].phase
                                /\ reload'[r].rows = reload[r].rows
                                /\ \/ reload'[r].wait = reload[r].wait
                                   \/ tasks'[s].phase = "free" /\ reload'[r].wait = reload[r].wait \ {s},
           NEW u \in Uuids \ dirty',
           u \in Touches(tasks[s]) =>
               IF tasks'[s].phase # "free" /\ u \in Touches(tasks'[s])
               THEN WillAgree(tasks[s], u)'
               ELSE mem[u] = db'[u]
    PROVE  CleanOrder(u)'
<1>1. CleanOrder(u) /\ s \in Busy
  BY DEF FlushContract, Busy
<1>2. Writers(u)' \subseteq Writers(u) /\ Writers(u) \subseteq Writers(u)' \cup {s}
  BY <1>1 DEF Writers, Busy
<1>3. \A r \in Reloaders : WillKeep(reload[r], u)'
  <2>1. ASSUME NEW r \in Reloaders, reload'[r].phase = "flush"
        PROVE  Writers(u)' \subseteq reload'[r].wait
    <3>1. Writers(u) \subseteq reload[r].wait
      BY <1>1, <2>1 DEF CleanOrder, WillKeep
    <3> QED
      BY <1>2, <3>1 DEF Writers, Busy
  <2> QED
    BY <1>1, <1>2, <2>1 DEF CleanOrder, WillKeep
<1>4. CASE u \in Touches(tasks[s])
  <2>1. Writers(u) = {s}
    BY <1>1, <1>4 DEF CleanOrder, Writers
  <2>2. CASE s \in Writers(u)'
    <3>1. WillAgree(tasks[s], u)' /\ Writers(u)' = {s}
      BY <1>2, <1>4, <2>1, <2>2 DEF Writers, Busy
    <3> QED
      BY <1>3, <3>1 DEF CleanOrder
  <2>3. CASE s \notin Writers(u)'
    <3>1. Writers(u)' = {} /\ mem'[u] = db'[u]
      BY <1>2, <1>4, <2>1, <2>3 DEF Writers, Busy
    <3> QED
      BY <1>3, <3>1 DEF CleanOrder
  <2> QED
    BY <2>2, <2>3
<1>5. CASE u \notin Touches(tasks[s])
  <2>1. s \notin Writers(u) /\ Writers(u) \subseteq Slots
    BY <1>5 DEF Writers, Busy
  <2>2. Writers(u)' = Writers(u) /\ db'[u] = db[u] /\ mem'[u] = mem[u]
    BY <1>2, <1>5, <2>1
  <2> QED
    BY <1>1, <1>3, <2>1, <2>2, CleanFrame
<1> QED
  BY <1>4, <1>5

(* Writing the queue to its file cuts references and nothing else.          *)
LEMMA OnDiskKeeps ==
    ASSUME NEW q \in Seq(Entry)
    PROVE  /\ Len(OnDisk(q)) = Len(q)
           /\ \A i \in 1..Len(q) : OnDisk(q)[i].key = q[i].key /\ OnDisk(q)[i].uuid = q[i].uuid
<1>1. \A i \in 1..Len(q) : q[i] \in Entry
  BY ElementOfSeq
<1>2. OnDisk(q) \in [1..Len(q) -> Entry]
  BY <1>1 DEF OnDisk, Entry
<1>3. Len(OnDisk(q)) = Len(q)
  BY <1>2, PointwiseIsSeq
<1>4. \A i \in 1..Len(q) : OnDisk(q)[i].key = q[i].key /\ OnDisk(q)[i].uuid = q[i].uuid
  BY <1>1 DEF OnDisk, Entry
<1> QED
  BY <1>3, <1>4

(* The queue after enqueue_task holds entries it held and the new one.      *)
LEMMA EnqueueEntries ==
    ASSUME TypeOK, NEW e \in Entry, NEW key,
           \A i \in 1..Len(queue) : queue[i].key \in dirty /\ queue[i].uuid \in dirty \cup {NoUuid},
           e.key \in dirty, e.uuid \in dirty \cup {NoUuid},
           queue' = Append(Without(queue, key), e), qfile' = OnDisk(queue')
    PROVE  /\ \A i \in 1..Len(queue') : queue'[i].key \in dirty
                                         /\ queue'[i].uuid \in dirty \cup {NoUuid}
           /\ \A i \in 1..Len(qfile') : qfile'[i].key \in dirty
                                         /\ qfile'[i].uuid \in dirty \cup {NoUuid}
<1> DEFINE w == Without(queue, key)
<1>1. queue \in Seq(Entry) /\ Len(queue) \in Nat /\ \A i \in 1..Len(queue) : queue[i] \in Entry
  BY LenProperties, ElementOfSeq DEF TypeOK
<1>2. w \in Seq(Entry) /\ Len(w) \in Nat
  BY <1>1, WithoutType, LenProperties
<1>3. \A i \in 1..Len(w) : \E j \in 1..Len(queue) : w[i] = queue[j]
  <2>1. CASE \E i \in 1..Len(queue) : queue[i].key = key
    <3> DEFINE k  == CHOOSE j \in 1..Len(queue) : queue[j].key = key
               s1 == SubSeq(queue, 1, k - 1)
               s2 == SubSeq(queue, k + 1, Len(queue))
    <3>1. k \in 1..Len(queue)
      BY <2>1
    <3>2. w = s1 \o s2
      BY <2>1 DEF Without
    <3> HIDE DEF k
    <3>3. /\ s1 \in Seq(Entry) /\ Len(s1) = k - 1
          /\ \A i \in 1..k - 1 : s1[i] = queue[i]
      <4>1. \A i \in 1..k - 1 : queue[i] \in Entry
        BY <1>1, <3>1
      <4>2. 1 \in Int /\ k - 1 \in Int /\ k \in Nat /\ k >= 1
        BY <1>1, <3>1
      <4>3. /\ s1 \in Seq(Entry) /\ Len(s1) = (IF 1 <= k - 1 THEN k - 1 - 1 + 1 ELSE 0)
            /\ \A i \in 1..k - 1 - 1 + 1 : s1[i] = queue[1 + i - 1]
        BY <4>1, <4>2, SubSeqProperties
      <4> QED
        BY <4>2, <4>3
    <3>4. /\ s2 \in Seq(Entry) /\ Len(s2) = Len(queue) - k
          /\ \A i \in 1..Len(queue) - k : s2[i] = queue[k + i]
      <4>1. \A i \in k + 1..Len(queue) : queue[i] \in Entry
        BY <1>1, <3>1
      <4>2. k + 1 \in Int /\ Len(queue) \in Int /\ k \in Nat /\ k >= 1 /\ k <= Len(queue)
        BY <1>1, <3>1
      <4>3. /\ s2 \in Seq(Entry)
            /\ Len(s2) = (IF k + 1 <= Len(queue) THEN Len(queue) - (k + 1) + 1 ELSE 0)
            /\ \A i \in 1..Len(queue) - (k + 1) + 1 : s2[i] = queue[k + 1 + i - 1]
        BY <4>1, <4>2, SubSeqProperties
      <4> QED
        BY <4>2, <4>3
    <3> HIDE DEF s1, s2, w
    <3>5. Len(w) = Len(s1) + Len(s2)
          /\ \A i \in 1..Len(s1) + Len(s2) : w[i] = IF i <= Len(s1) THEN s1[i] ELSE s2[i - Len(s1)]
      <4>1. /\ Len(s1 \o s2) = Len(s1) + Len(s2)
            /\ \A i \in 1..Len(s1) + Len(s2) :
                   (s1 \o s2)[i] = IF i <= Len(s1) THEN s1[i] ELSE s2[i - Len(s1)]
        BY <3>3, <3>4, ConcatProperties
      <4> QED
        BY <3>2, <4>1
    <3>6. ASSUME NEW i \in 1..Len(w)
          PROVE  \E j \in 1..Len(queue) : w[i] = queue[j]
      <4>1. CASE i <= k - 1
        BY <1>1, <3>1, <3>3, <3>4, <3>5, <3>6, <4>1
      <4>2. CASE ~(i <= k - 1)
        <5>1. i - (k - 1) \in 1..Len(queue) - k /\ i + 1 \in 1..Len(queue)
              /\ k + (i - (k - 1)) = i + 1
          BY <1>1, <3>1, <3>3, <3>4, <3>5, <3>6, <4>2
        <5>2. w[i] = queue[i + 1]
          BY <1>1, <3>1, <3>3, <3>4, <3>5, <3>6, <4>2, <5>1
        <5> QED
          BY <5>1, <5>2
      <4> QED
        BY <4>1, <4>2
    <3> QED
      BY <3>6
  <2>2. CASE ~ \E i \in 1..Len(queue) : queue[i].key = key
    BY <2>2 DEF Without
  <2> QED
    BY <2>1, <2>2
<1>4. queue' = Append(w, e)
  OBVIOUS
<1> HIDE DEF w
<1>5. /\ queue' \in Seq(Entry) /\ Len(queue') = Len(w) + 1 /\ queue'[Len(w) + 1] = e
      /\ \A i \in 1..Len(w) : queue'[i] = w[i]
  BY <1>2, <1>4, AppendProperties
<1>6. \A i \in 1..Len(queue') : queue'[i] \in Entry /\ queue'[i].key \in dirty
                                /\ queue'[i].uuid \in dirty \cup {NoUuid}
  <2>1. ASSUME NEW i \in 1..Len(queue')
        PROVE  queue'[i] \in Entry /\ queue'[i].key \in dirty /\ queue'[i].uuid \in dirty \cup {NoUuid}
    <3>1. CASE i = Len(w) + 1
      BY <1>5, <3>1
    <3>2. CASE i # Len(w) + 1
      <4>1. i \in 1..Len(w)
        BY <1>2, <1>5, <2>1, <3>2
      <4>2. PICK j \in 1..Len(queue) : queue'[i] = queue[j]
        BY <1>3, <1>5, <4>1
      <4> QED
        BY <1>1, <4>2
    <3> QED
      BY <3>1, <3>2
  <2> QED
    BY <2>1
<1>7. Len(qfile') = Len(queue')
      /\ \A i \in 1..Len(queue') : qfile'[i].key = queue'[i].key /\ qfile'[i].uuid = queue'[i].uuid
  <2>1. PICK q \in Seq(Entry) : q = queue'
    BY <1>5
  <2> QED
    BY <2>1, OnDiskKeeps
<1> QED
  BY <1>6, <1>7

LEMMA TaskStepKeepsContract ==
    ASSUME TypeOK, FlushContract, NEW s \in Slots, TaskStep(s)
    PROVE  FlushContract'
<1> DEFINE t == tasks[s]
<1>1. /\ up /\ up' = up /\ UNCHANGED <<mem, sync>> /\ dirty \subseteq dirty'
      /\ t.phase # "free" /\ t \in Task /\ t \in Write /\ s \in Busy
  BY DEF TaskStep, SendUpsert, UpsertAnswered, UpsertFails, DeleteAnswered, DeleteFails,
         EnqueueUpsert, EnqueueDelete, Fail, Enqueue, TypeOK, Task, Busy, proc, hist
<1>2. /\ t.phase = "new" => t.old = NoUuid /\ t.payUuid = NoUuid
      /\ t.old # NoUuid => ~t.live /\ t.payUuid = t.uuid /\ t.uuid # t.old
  BY <1>1 DEF FlushContract, TaskShapes
<1>3. /\ Touches(NoTask) = {} /\ NoTask.phase = "free" /\ NoTask.old = NoUuid
  BY DEF Touches, NoTask
<1>4. NothingRunsWhenDown'
  BY <1>1 DEF NothingRunsWhenDown
<1>5. \A v \in Uuids \ dirty : v \in Touches(t) => WillAgree(t, v)
  BY <1>1 DEF FlushContract, CleanOrder, Writers
<1>6. ASSUME Finish(s)
      PROVE  /\ tasks' = [tasks EXCEPT ![s] = NoTask]
             /\ \A r \in Reloaders : /\ reload'[r].phase = reload[r].phase
                                     /\ reload'[r].rows = reload[r].rows
                                     /\ reload'[r].wait = reload[r].wait \ {s}
  BY <1>6 DEF Finish, TypeOK, Reload
<1>7. ASSUME UNCHANGED reload \/ (tasks'[s].phase = "free" /\ Finish(s)),
             \A s2 \in Slots \ {s} : tasks'[s2] = tasks[s2],
             \A v \in Uuids \ Touches(t) : db'[v] = db[v],
             Touches(tasks'[s]) \subseteq Touches(t) \cup dirty',
             \A u \in Uuids \ dirty' : u \in Touches(t) =>
                 IF tasks'[s].phase # "free" /\ u \in Touches(tasks'[s])
                 THEN WillAgree(t, u)'
                 ELSE mem[u] = db'[u],
             TaskShapes', FailedWritesAreDirty'
      PROVE  FlushContract'
  <2>1. \A r \in Reloaders : /\ reload'[r].phase = reload[r].phase
                             /\ reload'[r].rows = reload[r].rows
                             /\ \/ reload'[r].wait = reload[r].wait
                                \/ tasks'[s].phase = "free" /\ reload'[r].wait = reload[r].wait \ {s}
    BY <1>6, <1>7
  <2>2. ASSUME NEW u \in Uuids \ dirty'
        PROVE  CleanOrder(u)'
    BY <1>1, <1>7, <2>1, <2>2, TaskStepFrame
  <2> QED
    BY <1>4, <1>7, <2>2 DEF FlushContract
<1>8. ASSUME tasks' = [tasks EXCEPT ![s] = NoTask], dirty' = dirty, UNCHANGED <<queue, qfile>>
      PROVE  TaskShapes' /\ FailedWritesAreDirty'
  <2>1. tasks'[s].phase = "free" /\ \A s2 \in Slots \ {s} : tasks'[s2] = tasks[s2]
    BY <1>3, <1>8 DEF TypeOK
  <2>2. TaskShapes'
    BY <2>1 DEF FlushContract, TaskShapes, Busy
  <2>3. FailedWritesAreDirty'
    BY <1>1, <1>8, <2>1 DEF FlushContract, FailedWritesAreDirty
  <2> QED
    BY <2>2, <2>3
<1>9. CASE SendUpsert(s)
  <2>1. /\ t.phase = "new" /\ UNCHANGED <<db, queue, qfile, reload, dirty>>
        /\ tasks' = [tasks EXCEPT ![s] = [t EXCEPT !.phase = "sent", !.payUuid = t.uuid, !.pay = t.row]]
    BY <1>9 DEF SendUpsert, TypeOK, hist
  <2>2. /\ tasks'[s].phase = "sent" /\ tasks'[s].uuid = t.uuid /\ tasks'[s].old = NoUuid
        /\ tasks'[s].payUuid = t.uuid /\ tasks'[s].pay = t.row
        /\ \A s2 \in Slots \ {s} : tasks'[s2] = tasks[s2]
    BY <1>1, <1>2, <2>1 DEF TypeOK, Write
  <2>3. Touches(tasks'[s]) = Touches(t)
    BY <1>2, <2>1, <2>2 DEF Touches
  <2>4. \A u \in Uuids \ dirty' : u \in Touches(t) => WillAgree(t, u)'
    BY <1>1, <1>5, <2>1, <2>2, StoreAssumption DEF WillAgree
  <2>5. TaskShapes'
    BY <2>2 DEF FlushContract, TaskShapes, Busy
  <2>6. FailedWritesAreDirty'
    BY <1>1, <2>1, <2>2 DEF FlushContract, FailedWritesAreDirty
  <2> QED
    BY <1>7, <2>1, <2>2, <2>3, <2>4, <2>5, <2>6
<1>10. CASE UpsertAnswered(s)
  <2>1. /\ t.phase = "sent" /\ db' = Set(db, t.payUuid, t.pay) /\ UNCHANGED <<queue, qfile, dirty>>
        /\ t.payUuid \in Uuids
    BY <1>1, <1>10 DEF UpsertAnswered, hist, Task, Write, Named
  <2>2. db'[t.payUuid] = t.pay /\ \A v \in Uuids \ {t.payUuid} : db'[v] = db[v]
    BY <2>1 DEF Set, TypeOK, Table
  <2>3. \A v \in Uuids \ Touches(t) : db'[v] = db[v]
    BY <2>1, <2>2, StoreAssumption DEF Touches
  <2>4. CASE t.old = NoUuid
    <3>1. Finish(s)
      BY <1>10, <2>4 DEF UpsertAnswered
    <3>2. tasks'[s] = NoTask /\ \A s2 \in Slots \ {s} : tasks'[s2] = tasks[s2]
      BY <1>6, <3>1 DEF TypeOK
    <3>3. \A u \in Uuids \ dirty' : u \in Touches(t) => mem[u] = db'[u]
      BY <1>5, <2>1, <2>2, <2>4, StoreAssumption DEF WillAgree
    <3> QED
      BY <1>3, <1>6, <1>7, <1>8, <2>1, <2>3, <3>1, <3>2, <3>3
  <2>5. CASE t.old # NoUuid
    <3>1. UNCHANGED reload /\ tasks' = [tasks EXCEPT ![s] = [t EXCEPT !.phase = "delete"]]
      BY <1>10, <2>5 DEF UpsertAnswered
    <3>2. /\ tasks'[s].phase = "delete" /\ tasks'[s].uuid = t.uuid /\ tasks'[s].old = t.old
          /\ tasks'[s].payUuid = t.payUuid /\ tasks'[s].live = t.live
          /\ \A s2 \in Slots \ {s} : tasks'[s2] = tasks[s2]
      BY <1>1, <3>1 DEF TypeOK, Write
    <3>3. Touches(tasks'[s]) = Touches(t)
      BY <3>2 DEF Touches
    <3>4. \A u \in Uuids \ dirty' : u \in Touches(t) => WillAgree(t, u)'
      <4>1. ASSUME NEW u \in Uuids \ dirty', u \in Touches(t)
            PROVE  WillAgree(t, u)'
        <5>1. IF t.old = u THEN mem[u] = NoRow ELSE t.payUuid = u /\ t.pay = mem[u]
          BY <1>5, <2>1, <4>1 DEF WillAgree
        <5> QED
          BY <1>1, <2>2, <3>2, <5>1 DEF WillAgree
      <4> QED
        BY <4>1
    <3>5. TaskShapes'
      <4>1. tasks'[s].live = FALSE /\ tasks'[s].payUuid = tasks'[s].uuid /\ tasks'[s].uuid # tasks'[s].old
        BY <1>1, <1>2, <2>5, <3>2 DEF Write
      <4> QED
        BY <3>2, <4>1 DEF FlushContract, TaskShapes, Busy
    <3>6. FailedWritesAreDirty'
      BY <1>1, <2>1, <3>2 DEF FlushContract, FailedWritesAreDirty
    <3> QED
      BY <1>7, <2>3, <3>1, <3>2, <3>3, <3>4, <3>5, <3>6
  <2> QED
    BY <2>4, <2>5
<1>11. CASE DeleteAnswered(s)
  <2>1. /\ t.phase = "delete" /\ db' = Set(db, t.old, NoRow) /\ UNCHANGED <<queue, qfile, dirty>>
        /\ t.old \in Uuids /\ Finish(s)
    BY <1>1, <1>11 DEF DeleteAnswered, hist, Task, Write, Named
  <2>2. db'[t.old] = NoRow /\ \A v \in Uuids \ {t.old} : db'[v] = db[v]
    BY <2>1 DEF Set, TypeOK, Table
  <2>3. \A v \in Uuids \ Touches(t) : db'[v] = db[v]
    BY <2>1, <2>2, StoreAssumption DEF Touches
  <2>4. tasks'[s] = NoTask /\ \A s2 \in Slots \ {s} : tasks'[s2] = tasks[s2]
    BY <1>6, <2>1 DEF TypeOK
  <2>5. \A u \in Uuids \ dirty' : u \in Touches(t) => mem[u] = db'[u]
    BY <1>5, <2>1, <2>2 DEF WillAgree
  <2> QED
    BY <1>3, <1>6, <1>7, <1>8, <2>1, <2>3, <2>4, <2>5
<1>12. ASSUME NEW applied \in BOOLEAN, UpsertFails(s, applied) \/ DeleteFails(s, applied)
       PROVE  FlushContract'
  <2> DEFINE phase == IF t.phase = "sent" THEN "enqUpsert" ELSE "enqDelete"
  <2>1. /\ UNCHANGED <<queue, qfile, reload>> /\ dirty' = dirty \cup Touches(t)
        /\ tasks' = [tasks EXCEPT ![s] = [t EXCEPT !.phase = phase, !.payUuid = t.uuid]]
    BY <1>12 DEF UpsertFails, DeleteFails, Fail, TypeOK
  <2>2. /\ tasks'[s].phase = phase /\ tasks'[s].uuid = t.uuid /\ tasks'[s].old = t.old
        /\ tasks'[s].payUuid = t.uuid /\ tasks'[s].live = t.live
        /\ \A s2 \in Slots \ {s} : tasks'[s2] = tasks[s2]
    BY <1>1, <2>1 DEF TypeOK, Write
  <2>3. Touches(tasks'[s]) \subseteq Touches(t)
    BY <2>2 DEF Touches
  <2>4. \A v \in Uuids \ Touches(t) : db'[v] = db[v]
    <3>1. CASE UpsertFails(s, applied)
      <4>1. db' = db \/ db' = [db EXCEPT ![t.payUuid] = t.pay]
        BY <3>1 DEF UpsertFails, Set
      <4> QED
        BY <4>1, StoreAssumption DEF Touches, TypeOK, Table
    <3>2. CASE DeleteFails(s, applied)
      <4>1. db' = db \/ db' = [db EXCEPT ![t.old] = NoRow]
        BY <3>2 DEF DeleteFails, Set
      <4> QED
        BY <4>1, StoreAssumption DEF Touches, TypeOK, Table
    <3> QED
      BY <1>12, <3>1, <3>2
  <2>5. TaskShapes'
    <3>1. t.old # NoUuid => tasks'[s].live = FALSE
      BY <1>1, <1>2, <2>2 DEF Write
    <3> QED
      BY <1>1, <1>2, <2>2, <3>1 DEF FlushContract, TaskShapes, Busy
  <2>6. FailedWritesAreDirty'
    BY <1>1, <2>1, <2>2, <2>3 DEF FlushContract, FailedWritesAreDirty
  <2> QED
    BY <1>7, <2>1, <2>2, <2>3, <2>4, <2>5, <2>6
<1>13. ASSUME NEW key \in Uuids, NEW delete \in BOOLEAN, NEW uuid \in Named, NEW row \in Row,
              NEW live \in BOOLEAN, Enqueue(key, delete, uuid, row, live),
              key \in Touches(t), uuid \in Touches(t) \cup {NoUuid},
              t.phase \in {"enqUpsert", "enqDelete"},
              UNCHANGED <<reload, tasks>> \/ Finish(s)
              \/ (UNCHANGED reload /\ tasks' = [tasks EXCEPT ![s].phase = "enqDelete"]),
              UNCHANGED db
       PROVE  FlushContract'
  <2> DEFINE e == [key |-> key, delete |-> delete, uuid |-> uuid, row |-> row, live |-> live]
  <2>1. Touches(t) \subseteq dirty
    BY <1>13 DEF FlushContract, FailedWritesAreDirty
  <2>2. /\ dirty' = dirty /\ queue' = Append(Without(queue, key), e) /\ qfile' = OnDisk(queue')
        /\ e \in Entry /\ e.key \in dirty /\ e.uuid \in dirty \cup {NoUuid}
    BY <1>13, <2>1 DEF Enqueue, Entry
  <2> HIDE DEF e
  <2>3. /\ \A i \in 1..Len(queue') : queue'[i].key \in dirty /\ queue'[i].uuid \in dirty \cup {NoUuid}
        /\ \A i \in 1..Len(qfile') : qfile'[i].key \in dirty /\ qfile'[i].uuid \in dirty \cup {NoUuid}
    BY <2>2, EnqueueEntries DEF FlushContract, FailedWritesAreDirty
  <2>4. \A s2 \in Slots \ {s} : tasks'[s2] = tasks[s2]
    BY <1>6, <1>13 DEF TypeOK
  <2>5. \/ tasks'[s] = NoTask /\ Finish(s)
        \/ /\ UNCHANGED reload /\ tasks'[s].phase \in {"enqUpsert", "enqDelete"}
           /\ tasks'[s].uuid = t.uuid /\ tasks'[s].old = t.old /\ tasks'[s].payUuid = t.payUuid
           /\ tasks'[s].live = t.live
    BY <1>1, <1>6, <1>13 DEF TypeOK, Write
  <2>6. Touches(tasks'[s]) \subseteq Touches(t)
    BY <1>3, <2>5 DEF Touches
  <2>7. TaskShapes'
    <3>1. tasks'[s].phase # "free" /\ t.old # NoUuid => tasks'[s].live = FALSE
      BY <1>1, <1>2, <1>3, <2>5 DEF Write
    <3> QED
      BY <1>1, <1>2, <1>3, <2>4, <2>5, <3>1 DEF FlushContract, TaskShapes, Busy
  <2>8. FailedWritesAreDirty'
    BY <1>1, <2>1, <2>2, <2>3, <2>4, <2>6 DEF FlushContract, FailedWritesAreDirty
  <2> QED
    BY <1>3, <1>7, <1>13, <2>1, <2>2, <2>4, <2>5, <2>6, <2>7, <2>8
<1>14. CASE EnqueueUpsert(s)
  <2>1. /\ t.phase = "enqUpsert" /\ UNCHANGED db /\ Enqueue(t.payUuid, FALSE, t.uuid, t.row, t.live)
        /\ Finish(s) \/ (UNCHANGED reload /\ tasks' = [tasks EXCEPT ![s].phase = "enqDelete"])
    BY <1>14 DEF EnqueueUpsert
  <2>2. /\ t.payUuid \in Uuids /\ t.uuid \in Named /\ t.row \in Row /\ t.live \in BOOLEAN
        /\ t.payUuid \in Touches(t) /\ t.uuid \in Touches(t) \cup {NoUuid}
    BY <1>1, <2>1 DEF Task, Write, Named, Touches
  <2>3. PICK key \in Uuids, uuid \in Named, row \in Row, live \in BOOLEAN :
            key = t.payUuid /\ uuid = t.uuid /\ row = t.row /\ live = t.live
    BY <2>2
  <2>4. Enqueue(key, FALSE, uuid, row, live)
    BY <2>1, <2>3
  <2>5. key \in Touches(t) /\ uuid \in Touches(t) \cup {NoUuid}
    BY <2>2, <2>3
  <2> QED
    BY <1>13, <2>1, <2>4, <2>5
<1>15. CASE EnqueueDelete(s)
  <2>1. /\ t.phase = "enqDelete" /\ UNCHANGED db /\ Finish(s)
        /\ Enqueue(t.old, TRUE, NoUuid, NoRow, FALSE)
    BY <1>15 DEF EnqueueDelete
  <2>2. t.old \in Uuids /\ t.old \in Touches(t) /\ NoUuid \in Named /\ NoRow \in Row
    BY <1>1, <2>1, NoValuesType DEF Task, Write, Named, Touches
  <2>3. PICK key \in Uuids : key = t.old
    BY <2>2
  <2>4. Enqueue(key, TRUE, NoUuid, NoRow, FALSE)
    BY <2>1, <2>3
  <2> QED
    BY <1>13, <2>1, <2>2, <2>3, <2>4
<1> QED
  BY <1>9, <1>10, <1>11, <1>12, <1>14, <1>15 DEF TaskStep

(* What the replay loop sends is about dirty orders only.                   *)
LEMMA SyncStepKeepsContract ==
    ASSUME TypeOK, FlushContract, SyncStep
    PROVE  FlushContract'
<1>1. /\ up /\ UNCHANGED <<up, mem, tasks, reload, dirty>>
  BY DEF SyncStep, LoadQueue, StartProcess, SendQueued, QueuedDone, QueuedFails, EndProcess,
         proc, hist
<1>2. TaskShapes' /\ NothingRunsWhenDown'
  BY <1>1 DEF FlushContract, TaskShapes, NothingRunsWhenDown, Busy
<1>3. /\ queue \in Seq(Entry) /\ Len(queue) \in Nat
      /\ \A i \in 1..Len(queue) : queue[i] \in Entry
  BY LenProperties, ElementOfSeq DEF TypeOK
<1>4. /\ \A i \in 1..Len(queue) : queue[i].key \in dirty /\ queue[i].uuid \in dirty \cup {NoUuid}
      /\ \A i \in 1..Len(qfile) : qfile[i].key \in dirty /\ qfile[i].uuid \in dirty \cup {NoUuid}
      /\ sync.sending => sync.payUuid \in dirty \cup {NoUuid}
      /\ sync.processed \in Nat
      /\ sync.sending => sync.processed + 1 \in 1..Len(queue)
  <2>1. sync.processed \in Nat
    BY DEF TypeOK, Sync, Replays
  <2>2. sync.sending => sync.processed + 1 \in 1..Len(queue)
    BY <1>3, <2>1 DEF TypeOK
  <2> QED
    BY <2>1, <2>2 DEF FlushContract, FailedWritesAreDirty
<1>5. \A u \in Uuids \ dirty : db'[u] = db[u]
  <2>1. CASE (\E refused \in BOOLEAN : QueuedDone(refused))
             \/ (\E applied \in BOOLEAN : QueuedFails(applied))
    <3>1. sync.sending /\ (db' = db \/ db' = Replay)
      BY <2>1 DEF QueuedDone, QueuedFails
    <3>2. PICK i \in 1..Len(queue) : i = sync.processed + 1
      BY <1>4, <3>1
    <3>3. \/ db' = db
          \/ db' = [db EXCEPT ![queue[i].key] = NoRow]
          \/ db' = [db EXCEPT ![sync.payUuid] = sync.pay]
      BY <3>1, <3>2 DEF Replay, Set
    <3>4. queue[i].key \in dirty /\ sync.payUuid \in dirty \cup {NoUuid}
      BY <1>4, <3>1, <3>2
    <3> QED
      BY <3>3, <3>4, StoreAssumption DEF TypeOK, Table
  <2>2. CASE LoadQueue \/ StartProcess \/ SendQueued \/ EndProcess
    BY <2>2 DEF LoadQueue, StartProcess, SendQueued, EndProcess
  <2> QED
    BY <2>1, <2>2 DEF SyncStep
<1>6. FailedWritesAreDirty'
  <2>1. \A s \in Slots : tasks'[s].phase \in {"enqUpsert", "enqDelete"} =>
                              Touches(tasks'[s]) \subseteq dirty'
    BY <1>1 DEF FlushContract, FailedWritesAreDirty
  <2>2. CASE LoadQueue \/ StartProcess \/ (\E refused \in BOOLEAN : QueuedDone(refused))
             \/ (\E applied \in BOOLEAN : QueuedFails(applied))
    <3>1. UNCHANGED qfile /\ (queue' = queue \/ queue' = qfile)
      BY <2>2 DEF LoadQueue, StartProcess, QueuedDone, QueuedFails
    <3>2. \/ sync'.sending = FALSE
          \/ sync'.sending = sync.sending /\ sync'.payUuid = sync.payUuid
      BY <2>2 DEF LoadQueue, StartProcess, QueuedDone, QueuedFails, NoSync, TypeOK, Sync, Replays
    <3> QED
      BY <1>1, <1>4, <2>1, <3>1, <3>2 DEF FailedWritesAreDirty
  <2>3. CASE SendQueued
    <3>1. PICK i \in 1..Len(queue) : i = sync.processed + 1
      BY <1>3, <1>4, <2>3 DEF SendQueued
    <3>2. UNCHANGED <<queue, qfile>> /\ sync'.payUuid = queue[i].uuid
      BY <2>3, <3>1 DEF SendQueued, TypeOK, Sync, Replays
    <3> QED
      BY <1>1, <1>4, <2>1, <3>2 DEF FailedWritesAreDirty
  <2>4. CASE EndProcess
    <3> DEFINE w == Untried
    <3>1. /\ queue' = w /\ (qfile' = qfile \/ qfile' = OnDisk(w))
          /\ sync'.sending = FALSE
      BY <2>4 DEF EndProcess, NoSync
    <3>2. /\ w \in Seq(Entry) /\ Len(w) \in Nat
          /\ \A i \in 1..Len(w) : w[i] \in Entry /\ \E j \in 1..Len(queue) : w[i] = queue[j]
      <4>1. sync.processed + 1 \in Int /\ Len(queue) \in Int
            /\ \A i \in sync.processed + 1..Len(queue) : queue[i] \in Entry
        BY <1>3, <1>4
      <4>2. sync.processed <= Len(queue)
        BY DEF TypeOK
      <4>3. /\ w \in Seq(Entry)
            /\ Len(w) = (IF sync.processed + 1 <= Len(queue)
                         THEN Len(queue) - (sync.processed + 1) + 1 ELSE 0)
            /\ \A i \in 1..Len(queue) - (sync.processed + 1) + 1 :
                   w[i] = queue[sync.processed + 1 + i - 1]
        BY <4>1, SubSeqProperties DEF Untried
      <4> HIDE DEF w
      <4>4. Len(w) = Len(queue) - sync.processed
            /\ \A i \in 1..Len(w) : w[i] = queue[sync.processed + i]
        BY SMTT(30), <1>3, <1>4, <4>2, <4>3
      <4>5. Len(w) \in Nat /\ \A i \in 1..Len(w) : sync.processed + i \in 1..Len(queue)
        BY <1>3, <1>4, <4>2, <4>4
      <4>6. \A i \in 1..Len(w) : \E j \in 1..Len(queue) : w[i] = queue[j]
        BY <4>4, <4>5
      <4> QED
        BY <1>3, <4>3, <4>5, <4>6
    <3>3. \A i \in 1..Len(w) : w[i].key \in dirty /\ w[i].uuid \in dirty \cup {NoUuid}
      BY <1>4, <3>2
    <3> HIDE DEF w
    <3>4. \A i \in 1..Len(OnDisk(w)) : OnDisk(w)[i].key \in dirty
                                       /\ OnDisk(w)[i].uuid \in dirty \cup {NoUuid}
      BY <3>2, <3>3, OnDiskKeeps
    <3> QED
      BY <1>1, <1>4, <2>1, <3>1, <3>3, <3>4 DEF FailedWritesAreDirty
  <2> QED
    BY <2>2, <2>3, <2>4 DEF SyncStep
<1>7. ASSUME NEW u \in Uuids \ dirty'
      PROVE  CleanOrder(u)'
  <2>1. CleanOrder(u) /\ db'[u] = db[u] /\ mem'[u] = mem[u]
    BY <1>1, <1>5, <1>7 DEF FlushContract
  <2>2. Writers(u)' = Writers(u)
    BY <1>1 DEF Writers, Busy
  <2>3. \A r \in Reloaders : WillKeep(reload[r], u)'
    BY <1>1, <2>1, <2>2 DEF CleanOrder, WillKeep
  <2> QED
    BY <1>1, <2>1, <2>2, <2>3, CleanFrame
<1> QED
  BY <1>2, <1>6, <1>7 DEF FlushContract

(* A crash ends every write and every reload; a start reads the table, and  *)
(* what the file has otherwise is dirty.                                    *)
LEMMA RestartKeepsContract ==
    ASSUME TypeOK, FlushContract, Crash \/ \E fromDb \in BOOLEAN : Boot(fromDb)
    PROVE  FlushContract'
<1>1. CASE Crash
  <2>1. /\ up' = FALSE /\ UNCHANGED <<db, qfile, dirty>> /\ Len(queue') = 0
        /\ tasks' = [s \in Slots |-> NoTask] /\ reload' = [r \in Reloaders |-> NoReload]
        /\ sync'.sending = FALSE
    BY <1>1, EmptySeq DEF Crash, NoSync, hist
  <2>2. \A s \in Slots : tasks'[s].phase = "free"
    BY <2>1 DEF NoTask
  <2>3. \A r \in Reloaders : reload'[r].phase = "idle"
    BY <2>1 DEF NoReload
  <2>4. Busy' = {} /\ \A u : Writers(u)' = {}
    BY <2>2 DEF Busy, Writers
  <2>5. TaskShapes' /\ NothingRunsWhenDown'
    BY <2>3, <2>4 DEF TaskShapes, NothingRunsWhenDown
  <2>6. FailedWritesAreDirty'
    BY <2>1, <2>2 DEF FlushContract, FailedWritesAreDirty
  <2>7. \A u \in Uuids \ dirty' : CleanOrder(u)'
    BY <2>1, <2>3, <2>4 DEF CleanOrder, WillKeep
  <2> QED
    BY <2>5, <2>6, <2>7 DEF FlushContract
<1>2. ASSUME NEW fromDb \in BOOLEAN, Boot(fromDb)
      PROVE  FlushContract'
  <2>1. /\ ~up /\ up' /\ UNCHANGED <<db, tasks, queue, qfile, sync, reload>>
        /\ dirty \subseteq dirty'
        /\ \/ mem' = db
           \/ mem' = file /\ dirty' = dirty \cup {u \in Uuids : file[u] # db[u]}
    BY <1>2 DEF Boot
  <2>2. Busy = {} /\ \A r \in Reloaders : reload[r].phase = "idle"
    BY <2>1 DEF FlushContract, NothingRunsWhenDown
  <2>3. Busy' = {} /\ \A u : Writers(u)' = {}
    BY <2>1, <2>2 DEF Busy, Writers
  <2>4. TaskShapes' /\ NothingRunsWhenDown'
    BY <2>1, <2>3 DEF TaskShapes, NothingRunsWhenDown
  <2>5. FailedWritesAreDirty'
    BY <2>1 DEF FlushContract, FailedWritesAreDirty
  <2>6. \A u \in Uuids \ dirty' : mem'[u] = db'[u]
    BY <2>1
  <2>7. \A u \in Uuids \ dirty' : CleanOrder(u)'
    BY <2>1, <2>2, <2>3, <2>6 DEF CleanOrder, WillKeep
  <2> QED
    BY <2>4, <2>5, <2>7 DEF FlushContract
<1> QED
  BY <1>1, <1>2

LEMMA StepKeepsContract ==
    ASSUME TypeOK, FlushContract, [Next]_vars
    PROVE  FlushContract'
<1>1. CASE UNCHANGED vars
  <2>1. UNCHANGED <<up, mem, db, tasks, queue, qfile, sync, reload, dirty>>
    BY <1>1 DEF vars, proc, hist
  <2> QED
    BY <2>1 DEF FlushContract, TaskShapes, NothingRunsWhenDown, FailedWritesAreDirty, CleanOrder,
                WillAgree, WillKeep, Writers, Busy
<1> QED
  BY <1>1, OrderStepKeepsContract, ClearKeepsContract, TaskStepKeepsContract,
     SyncStepKeepsContract, ReloadKeepsContract, RestartKeepsContract DEF Next

-----------------------------------------------------------------------------
(* Why an order is the same in table and memory once its writes are done:   *)
(* at any time at most one write about it is in flight, which brings the    *)
(* two together, and the queue holds none.                                  *)
THEOREM FlushContractHolds == Spec => []FlushContract
<1>1. Init => FlushContract
  <2> SUFFICES ASSUME Init PROVE FlushContract
    OBVIOUS
  <2>1. /\ up /\ mem = db /\ Len(queue) = 0 /\ Len(qfile) = 0 /\ sync.sending = FALSE
    BY EmptySeq DEF Init, NoSync
  <2>2. \A s \in Slots : tasks[s].phase = "free"
    BY DEF Init, NoTask
  <2>3. \A r \in Reloaders : reload[r].phase = "idle"
    BY DEF Init, NoReload
  <2>4. Busy = {} /\ \A u : Writers(u) = {}
    BY <2>2 DEF Busy, Writers
  <2> QED
    BY <2>1, <2>2, <2>3, <2>4 DEF FlushContract, TaskShapes, NothingRunsWhenDown,
       FailedWritesAreDirty, CleanOrder, WillKeep
<1>2. TypeOK /\ FlushContract /\ [Next]_vars => FlushContract'
  BY StepKeepsContract
<1> QED
  BY <1>1, <1>2, TypeCorrect, PTL DEF Spec

(* An order in the contract with no write in flight is in the table as it   *)
(* is in OrderManager.orders, for any number of orders, writes and reloads. *)
THEOREM FlushedAgree == Spec => []FlushedOrdersAgree
<1>1. FlushContract => FlushedOrdersAgree
  <2> SUFFICES ASSUME FlushContract, up, NEW u \in Uuids \ (dirty \cup InFlight)
               PROVE  mem[u] = db[u]
    BY DEF FlushedOrdersAgree
  <2>1. Writers(u) = {}
    BY DEF Writers, InFlight
  <2> QED
    BY <2>1 DEF FlushContract, CleanOrder
<1> QED
  BY <1>1, FlushContractHolds, PTL

(* reload_from_db_async, having flushed, changes no order in the contract.  *)
THEOREM FlushedReload == Spec => ReloadKeepsFlushedOrders
<1>1. TypeOK /\ FlushContract /\ [Next]_vars =>
          [\A r \in Reloaders :
               reload[r].phase = "got" /\ reload'[r].phase = "idle" /\ up' =>
                   \A u \in Uuids \ dirty : mem'[u] = mem[u]]_vars
  <2> SUFFICES ASSUME TypeOK, FlushContract, [Next]_vars, NEW r \in Reloaders,
                      reload[r].phase = "got", reload'[r].phase = "idle", up',
                      NEW u \in Uuids \ dirty
               PROVE  mem'[u] = mem[u]
    OBVIOUS
  <2>1. CleanOrder(u) /\ (\A q \in Reloaders : reload[q].phase = "got" => reload[q].rows[u] = mem[u])
    BY DEF FlushContract, CleanOrder, WillKeep
  <2>2. reload' # reload
    OBVIOUS
  <2>3. PICK q \in Reloaders : ReloadStep(q) \/ (\E s \in Slots : TaskStep(s))
    <3>1. CASE UNCHANGED vars
      BY <2>2, <3>1 DEF vars
    <3>2. CASE Next
      BY <2>2, <3>2 DEF Next, OrderStep, AddOrder, UpdateOrder, ReplaceOrderUuid, RemoveOrder,
         ManagerReserve, ManagerRequestCancel, ManagerDelete, ManagerCall, ClearUserOrders,
         SyncStep, LoadQueue, StartProcess, SendQueued, QueuedDone, QueuedFails, EndProcess,
         ReloadNow, Crash, Boot
    <3> QED
      BY <3>1, <3>2
  <2>4. CASE \E s \in Slots : TaskStep(s)
    BY <2>4 DEF TaskStep, SendUpsert, UpsertAnswered, UpsertFails, DeleteAnswered, DeleteFails,
       EnqueueUpsert, EnqueueDelete
  <2>5. CASE ReloadStep(q)
    <3>1. CASE FinishReload(q)
      BY <2>1, <3>1 DEF FinishReload
    <3>2. CASE StartFlush(q) \/ TakeLock(q) \/ Fetch(q) \/ FetchFails(q)
      BY <3>2 DEF StartFlush, TakeLock, Fetch, FetchFails
    <3> QED
      BY <2>5, <3>1, <3>2 DEF ReloadStep
  <2> QED
    BY <2>3, <2>4, <2>5
<1> QED
  BY <1>1, TypeCorrect, FlushContractHolds, PTL DEF Spec, ReloadKeepsFlushedOrders

(***************************************************************************)
(* What was once durable stays durable: an order that the table or the     *)
(* queue file has does not get lost while it is tracked, for any number of *)
(* orders, operations, writes in flight, failures and restarts.            *)
(***************************************************************************)

(***************************************************************************)
(* The names in use, and the lines of replaced orders.                     *)
(***************************************************************************)
Issued == {u \in Uuids : anc[u] # {}}

\* anc is an order: a line only grows at its end, and only its last order is tracked.
LinesHold ==
    /\ \A v \in Uuids : anc[v] # {} => v \in anc[v]
    /\ \A v \in Uuids : \A u \in anc[v] : u \in Uuids /\ u \in anc[u] /\ anc[u] \subseteq anc[v]
    /\ \A v \in Uuids : \A u \in anc[v] : v \in anc[u] => u = v
    /\ \A v \in claimed : v \in anc[v] /\ \A u \in claimed : u \in anc[v] => u = v

\* No row is about an order that was never issued.
MemoryHolds ==
    /\ \A u \in Uuids : mem[u].ver > 0 \/ db[u].ver > 0 \/ file[u].ver > 0 => u \in Issued
    /\ \A r \in Reloaders : \A u \in Uuids : reload[r].rows[u].ver > 0 => u \in Issued

\* As far as the tracked orders go, u is the order k names or a later one of its line:
\* what a write queued for k is about by now.
Follows(u, k) ==
    \A v \in claimed : /\ k \in anc[v] => u \in anc[v] /\ k \in anc[u]
                       /\ u \in anc[v] => k \in anc[v]

Replaces(u, old) == \A v \in claimed : old \in anc[v] => u \in anc[v] /\ old \in anc[u]

\* A background write: it writes a row, under a name of the line it is about, and has
\* something to delete only if it writes the order that replaces it first.
TaskHolds(t) ==
    /\ t.phase \in {"new", "sent", "enqUpsert"} => t.row.ver > 0
    /\ t.phase = "new" => t.old = NoUuid
    /\ t.phase = "sent" => t.pay.ver > 0
    /\ t.phase = "enqUpsert" => Follows(t.uuid, t.payUuid)
    /\ t.phase \in {"sent", "enqUpsert"} /\ t.old # NoUuid =>
         ~t.live /\ t.payUuid = t.uuid /\ t.uuid # t.old /\ Replaces(t.uuid, t.old)

TasksHold == \A s \in Slots : TaskHolds(tasks[s]) /\ Touches(tasks[s]) \subseteq Issued

\* A queued write, and the one that is being replayed.
EntryHolds(e) == ~e.delete => e.uuid # NoUuid /\ e.row.ver > 0 /\ Follows(e.uuid, e.key)

SendingHolds ==
    sync.sending /\ ~queue[sync.processed + 1].delete =>
        sync.payUuid # NoUuid /\ sync.pay.ver > 0 /\ Follows(sync.payUuid, queue[sync.processed + 1].key)

Upserts(es) == {k \in Uuids : \E e \in es : ~e.delete /\ e.key = k}
Deletes(es) == {k \in Uuids : \E e \in es : e.delete /\ e.key = k}

\* The file has every row the queue has.
FileHolds == Upserts(Entries(queue)) \subseteq Upserts(Entries(qfile))

QueueHolds ==
    /\ \A e \in Entries(queue) \cup Entries(qfile) :
         EntryHolds(e) /\ e.key \in Issued /\ e.uuid \in Issued \cup {NoUuid}
    /\ SendingHolds /\ sync.payUuid \in Issued \cup {NoUuid}
    /\ FileHolds

Shapes == LinesHold /\ MemoryHolds /\ TasksHold /\ QueueHolds

(***************************************************************************)
(* What is on its way out, and what is safe from it.                       *)
(***************************************************************************)
Doomed ==
    {k \in Uuids : \E s \in Slots : tasks[s].phase \in {"delete", "enqDelete"} /\ tasks[s].old = k}
    \cup Deletes(Entries(queue)) \cup Deletes(Entries(qfile))

UntriedEntries == {queue[i] : i \in sync.processed + 1..Len(queue)}

\* A queued row that will be replayed: from the file, until the loop has loaded it.
Stored(k) == k \in Upserts(IF sync.phase = "off" THEN Entries(qfile) ELSE UntriedEntries)

Safe(k) == db[k].ver > 0 \/ Stored(k)

\* Behind every order of a line that is on its way out there is a later one that is safe
\* and stays: without "later", the replacement of a replacement could take both.
LaterIsSafe(v) == \A d \in Doomed \cap anc[v] : \E w \in anc[v] \ Doomed : d \in anc[w] /\ Safe(w)

KeptIsSafe(v) == Kept(v) => \E w \in anc[v] : Safe(w)

\* The two ways out of the property are those of `dropped`.
ClaimsHold == \A v \in claimed : anc[v] \cap dropped = {} => LaterIsSafe(v) /\ KeptIsSafe(v)

Contract == Shapes /\ ClaimsHold

(***************************************************************************)
(* The entries of the queue and its file.                                  *)
(***************************************************************************)
Same(e, f) == f.key = e.key /\ f.delete = e.delete /\ f.uuid = e.uuid /\ f.row = e.row

LEMMA EntriesOf ==
    ASSUME NEW q \in Seq(Entry)
    PROVE  /\ Len(q) \in Nat /\ \A i \in 1..Len(q) : q[i] \in Entry /\ q[i] \in Entries(q)
           /\ \A e \in Entries(q) : e \in Entry /\ \E i \in 1..Len(q) : e = q[i]
<1>1. Len(q) \in Nat /\ \A i \in 1..Len(q) : q[i] \in Entry
  BY LenProperties, ElementOfSeq
<1> QED
  BY <1>1 DEF Entries

LEMMA OnDiskEntries ==
    ASSUME NEW q \in Seq(Entry)
    PROVE  /\ \A f \in Entries(OnDisk(q)) : \E e \in Entries(q) : Same(e, f)
           /\ \A e \in Entries(q) : \E f \in Entries(OnDisk(q)) : Same(e, f)
<1>1. Len(q) \in Nat /\ \A i \in 1..Len(q) : q[i] \in Entry
  BY EntriesOf
<1>2. OnDisk(q) \in [1..Len(q) -> Entry]
  BY <1>1 DEF OnDisk, Entry
<1>3. Len(OnDisk(q)) = Len(q)
  BY <1>2, PointwiseIsSeq
<1>4. \A i \in 1..Len(q) : Same(q[i], OnDisk(q)[i])
  BY <1>1 DEF OnDisk, Entry, Same
<1> QED
  BY <1>3, <1>4 DEF Entries

\* A part of a sequence has entries from it; the two parts around k have all but one.
LEMMA PartEntries ==
    ASSUME NEW q \in Seq(Entry), NEW m \in Nat, NEW n \in Nat, m >= 1, n <= Len(q)
    PROVE  /\ SubSeq(q, m, n) \in Seq(Entry)
           /\ Entries(SubSeq(q, m, n)) = {q[i] : i \in m..n}
<1>1. Len(q) \in Nat /\ \A i \in 1..Len(q) : q[i] \in Entry
  BY EntriesOf
<1>2. \A i \in m..n : q[i] \in Entry
  BY <1>1
<1>3. /\ SubSeq(q, m, n) \in Seq(Entry)
      /\ Len(SubSeq(q, m, n)) = (IF m <= n THEN n - m + 1 ELSE 0)
      /\ \A i \in 1..n - m + 1 : SubSeq(q, m, n)[i] = q[m + i - 1]
  BY <1>2, SubSeqProperties
<1> DEFINE p == SubSeq(q, m, n)
<1> HIDE DEF p
<1>4. /\ Len(p) = (IF m <= n THEN n - m + 1 ELSE 0)
      /\ \A i \in 1..n - m + 1 : p[i] = q[m + i - 1]
  BY <1>3 DEF p
<1>5. ASSUME NEW i \in 1..Len(p) PROVE \E j \in m..n : p[i] = q[j]
  <2>1. m <= n /\ i \in 1..n - m + 1 /\ m + i - 1 \in m..n
    BY <1>4
  <2> QED
    BY <1>4, <2>1
<1>6. ASSUME NEW j \in m..n PROVE \E i \in 1..Len(p) : p[i] = q[j]
  <2>1. m <= n /\ j - m + 1 \in 1..n - m + 1 /\ m + (j - m + 1) - 1 = j /\ Len(p) = n - m + 1
    BY <1>4
  <2>2. p[j - m + 1] = q[j]
    BY <1>4, <2>1
  <2> QED
    BY <2>1, <2>2
<1>7. Entries(p) = {q[i] : i \in m..n}
  <2> DEFINE part == {q[i] : i \in m..n}
  <2>1. Entries(p) \subseteq part
    BY <1>5 DEF Entries
  <2>2. part \subseteq Entries(p)
    BY <1>6 DEF Entries
  <2> QED
    BY <2>1, <2>2
<1> QED
  BY <1>3, <1>7 DEF p

LEMMA ConcatEntries ==
    ASSUME NEW p \in Seq(Entry), NEW q \in Seq(Entry)
    PROVE  Entries(p \o q) = Entries(p) \cup Entries(q)
<1>1. Len(p) \in Nat /\ Len(q) \in Nat
  BY LenProperties
<1>2. /\ Len(p \o q) = Len(p) + Len(q)
      /\ \A i \in 1..Len(p) + Len(q) : (p \o q)[i] = IF i <= Len(p) THEN p[i] ELSE q[i - Len(p)]
  BY ConcatProperties
<1> DEFINE r == p \o q
<1> HIDE DEF r
<1>3. /\ Len(r) = Len(p) + Len(q)
      /\ \A i \in 1..Len(p) + Len(q) : r[i] = IF i <= Len(p) THEN p[i] ELSE q[i - Len(p)]
  BY <1>2 DEF r
<1>4. ASSUME NEW i \in 1..Len(r) PROVE r[i] \in Entries(p) \cup Entries(q)
  <2>1. CASE i <= Len(p)
    BY <1>1, <1>3, <2>1 DEF Entries
  <2>2. CASE ~(i <= Len(p))
    <3>1. i - Len(p) \in 1..Len(q) /\ r[i] = q[i - Len(p)]
      BY <1>1, <1>3, <2>2
    <3> QED
      BY <3>1 DEF Entries
  <2> QED
    BY <2>1, <2>2
<1>5. ASSUME NEW i \in 1..Len(p) PROVE p[i] \in Entries(r)
  <2>1. i \in 1..Len(r) /\ r[i] = p[i]
    BY <1>1, <1>3
  <2> QED
    BY <2>1 DEF Entries
<1>6. ASSUME NEW i \in 1..Len(q) PROVE q[i] \in Entries(r)
  <2>1. Len(p) + i \in 1..Len(r) /\ r[Len(p) + i] = q[i]
    BY <1>1, <1>3
  <2> QED
    BY <2>1 DEF Entries
<1>7. Entries(r) = Entries(p) \cup Entries(q)
  BY <1>4, <1>5, <1>6 DEF Entries
<1> QED
  BY <1>7 DEF r

LEMMA WithoutEntries ==
    ASSUME NEW q \in Seq(Entry), NEW key
    PROVE  /\ Entries(Without(q, key)) \subseteq Entries(q)
           /\ \A e \in Entries(q) : e.key # key => e \in Entries(Without(q, key))
<1>1. Len(q) \in Nat
  BY EntriesOf
<1>2. CASE \E i \in 1..Len(q) : q[i].key = key
  <2> DEFINE k  == CHOOSE j \in 1..Len(q) : q[j].key = key
             s1 == SubSeq(q, 1, k - 1)
             s2 == SubSeq(q, k + 1, Len(q))
  <2>1. k \in 1..Len(q) /\ q[k].key = key
    BY <1>2
  <2>2. Without(q, key) = s1 \o s2
    BY <1>2 DEF Without
  <2> HIDE DEF k
  <2>3. k - 1 \in Nat /\ k + 1 \in Nat /\ k - 1 <= Len(q) /\ k + 1 >= 1
    BY <1>1, <2>1
  <2>4. s1 \in Seq(Entry) /\ Entries(s1) = {q[i] : i \in 1..k - 1}
    BY <2>3, PartEntries
  <2>5. s2 \in Seq(Entry) /\ Entries(s2) = {q[i] : i \in k + 1..Len(q)}
    BY <1>1, <2>3, PartEntries
  <2> HIDE DEF s1, s2
  <2>6. Entries(Without(q, key)) = Entries(s1) \cup Entries(s2)
    BY <2>2, <2>4, <2>5, ConcatEntries
  <2>7. \A i \in 1..Len(q) : i \in 1..k - 1 \/ i = k \/ i \in k + 1..Len(q)
    BY <1>1, <2>1
  <2>8. \A i : i \in 1..k - 1 \/ i \in k + 1..Len(q) => i \in 1..Len(q)
    BY <1>1, <2>1
  <2> QED
    BY <2>1, <2>4, <2>5, <2>6, <2>7, <2>8 DEF Entries
<1>3. CASE ~ \E i \in 1..Len(q) : q[i].key = key
  BY <1>3 DEF Without
<1> QED
  BY <1>2, <1>3

\* enqueue_task: e takes the place of what has its key, and the file is the queue.
LEMMA EntriesAfterEnqueue ==
    ASSUME queue \in Seq(Entry), NEW e \in Entry, NEW key,
           queue' = Append(Without(queue, key), e), qfile' = OnDisk(queue')
    PROVE  /\ queue' \in Seq(Entry) /\ Entries(queue') \subseteq Entries(queue) \cup {e}
           /\ e \in Entries(queue') /\ \A g \in Entries(queue) : g.key # key => g \in Entries(queue')
           /\ \A f \in Entries(qfile') : \E g \in Entries(queue') : Same(g, f)
           /\ \A g \in Entries(queue') : \E f \in Entries(qfile') : Same(g, f)
<1> DEFINE w == Without(queue, key)
<1>1. w \in Seq(Entry) /\ Len(w) \in Nat
  BY WithoutType, LenProperties
<1>2. /\ Entries(w) \subseteq Entries(queue)
      /\ \A g \in Entries(queue) : g.key # key => g \in Entries(w)
  BY WithoutEntries
<1>3. queue' = Append(w, e)
  OBVIOUS
<1> HIDE DEF w
<1>4. /\ queue' \in Seq(Entry) /\ Len(queue') = Len(w) + 1 /\ queue'[Len(w) + 1] = e
      /\ \A i \in 1..Len(w) : queue'[i] = w[i]
  BY <1>1, <1>3, AppendProperties
<1>5. \A i \in 1..Len(queue') : i \in 1..Len(w) \/ i = Len(w) + 1
  BY <1>1, <1>4
<1>6. \A i : i \in 1..Len(w) \/ i = Len(w) + 1 => i \in 1..Len(queue')
  BY <1>1, <1>4
<1>7. Entries(queue') = Entries(w) \cup {e}
  BY <1>4, <1>5, <1>6 DEF Entries
<1>8. PICK q \in Seq(Entry) : q = queue'
  BY <1>4
<1>9. /\ \A f \in Entries(qfile') : \E g \in Entries(queue') : Same(g, f)
      /\ \A g \in Entries(queue') : \E f \in Entries(qfile') : Same(g, f)
  BY <1>8, OnDiskEntries
<1> QED
  BY <1>2, <1>4, <1>7, <1>9

LEMMA UntriedOf ==
    ASSUME TypeOK
    PROVE  /\ UntriedEntries \subseteq Entries(queue)
           /\ Untried \in Seq(Entry) /\ Entries(Untried) = UntriedEntries
           /\ sync.processed = 0 => UntriedEntries = Entries(queue)
           /\ sync.phase \notin {"run", "end"} => sync.processed = 0 /\ ~sync.sending
           /\ sync.processed \in Nat /\ sync.processed <= Len(queue) /\ Len(queue) \in Nat
           /\ sync.sending => sync.processed + 1 \in 1..Len(queue)
           /\ queue \in Seq(Entry) /\ qfile \in Seq(Entry)
<1>1. /\ sync.processed \in Nat /\ sync.processed <= Len(queue) /\ Len(queue) \in Nat
      /\ queue \in Seq(Entry) /\ qfile \in Seq(Entry)
      /\ sync.phase \notin {"run", "end"} => sync.processed = 0 /\ ~sync.sending
      /\ sync.sending => sync.processed < Len(queue)
  BY LenProperties DEF TypeOK, Sync, Replays
<1>2. sync.processed + 1 \in Nat /\ sync.processed + 1 >= 1 /\ Len(queue) <= Len(queue)
  BY <1>1
<1>3. Untried \in Seq(Entry) /\ Entries(Untried) = UntriedEntries
  BY <1>1, <1>2, PartEntries DEF Untried, UntriedEntries
<1>4. \A i \in sync.processed + 1..Len(queue) : i \in 1..Len(queue)
  BY <1>1
<1>5. UntriedEntries \subseteq Entries(queue)
  BY <1>4 DEF UntriedEntries, Entries
<1>6. sync.processed = 0 => UntriedEntries = Entries(queue)
  BY DEF UntriedEntries, Entries
<1> QED
  BY <1>1, <1>3, <1>5, <1>6

(***************************************************************************)
(* How the lines grow, and what that leaves of the relations on them.      *)
(***************************************************************************)
GivesUp == anc' = anc /\ claimed' \subseteq claimed
Claims(u) ==
    anc[u] = {} /\ anc' = [anc EXCEPT ![u] = {u}] /\ claimed' = claimed \cup {u}
Renames(old, new) ==
    /\ old \in Issued /\ anc[new] = {}
    /\ IF old \in claimed
       THEN /\ anc' = [anc EXCEPT ![new] = anc[old] \cup {new}]
            /\ claimed' = (claimed \ {old}) \cup {new}
       ELSE /\ anc' = [anc EXCEPT ![new] = {new}]
            /\ claimed' = ClaimsWithout({old})

RelationsKept ==
    \A k, u \in Issued : /\ Follows(u, k) => Follows(u, k)'
                         /\ Replaces(u, k) => Replaces(u, k)'

LEMMA Fresh ==
    ASSUME TypeOK, LinesHold, NEW u \in Uuids, anc[u] = {}
    PROVE  u \notin Issued /\ u \notin claimed /\ \A v \in Uuids : u \notin anc[v]
BY DEF LinesHold, Issued, TypeOK

LEMMA IssuedLine ==
    ASSUME TypeOK, LinesHold, NEW v \in Uuids
    PROVE  anc[v] \subseteq Issued
BY DEF LinesHold, Issued, TypeOK

LEMMA GivesUpKeeps ==
    ASSUME TypeOK, LinesHold, GivesUp
    PROVE  LinesHold' /\ RelationsKept /\ Issued' = Issued
<1>1. LinesHold'
  BY DEF LinesHold, GivesUp
<1>2. RelationsKept
  BY DEF RelationsKept, Follows, Replaces, GivesUp
<1> QED
  BY <1>1, <1>2 DEF Issued, GivesUp

LEMMA ClaimsKeeps ==
    ASSUME TypeOK, LinesHold, NEW u \in Uuids, Claims(u)
    PROVE  LinesHold' /\ RelationsKept /\ Issued' = Issued \cup {u}
<1>0. anc \in [Uuids -> SUBSET Uuids] /\ claimed \subseteq Uuids
  BY DEF TypeOK
<1>1. /\ anc'[u] = {u} /\ \A v \in Uuids : v # u => anc'[v] = anc[v]
      /\ claimed' = claimed \cup {u}
  BY <1>0 DEF Claims
<1>2. u \notin Issued /\ u \notin claimed /\ \A v \in Uuids : u \notin anc[v]
  BY Fresh DEF Claims
<1>3. LinesHold'
  <2>1. \A v \in Uuids : anc'[v] # {} => v \in anc'[v]
    BY <1>1 DEF LinesHold
  <2>2. \A v \in Uuids : \A w \in anc'[v] : w \in Uuids /\ w \in anc'[w] /\ anc'[w] \subseteq anc'[v]
    BY <1>1, <1>2 DEF LinesHold
  <2>3. \A v \in Uuids : \A w \in anc'[v] : v \in anc'[w] => w = v
    BY <1>1, <1>2 DEF LinesHold
  <2>4. \A v \in claimed' : v \in anc'[v] /\ \A w \in claimed' : w \in anc'[v] => w = v
    BY <1>0, <1>1, <1>2 DEF LinesHold
  <2> QED
    BY <2>1, <2>2, <2>3, <2>4 DEF LinesHold
<1>4. ASSUME NEW k \in Issued, NEW w \in Issued
      PROVE  (Follows(w, k) => Follows(w, k)') /\ (Replaces(w, k) => Replaces(w, k)')
  <2>1. k \in Uuids /\ k # u /\ w \in Uuids /\ w # u
    BY <1>2 DEF Issued
  <2>2. anc'[k] = anc[k] /\ anc'[w] = anc[w]
    BY <1>1, <2>1
  <2> QED
    BY <1>0, <1>1, <1>2, <2>1, <2>2 DEF Follows, Replaces
<1>5. Issued' = Issued \cup {u}
  BY <1>1 DEF Issued
<1> QED
  BY <1>3, <1>4, <1>5 DEF RelationsKept

LEMMA RenamesKeeps ==
    ASSUME TypeOK, LinesHold, NEW old \in Uuids, NEW new \in Uuids, Renames(old, new)
    PROVE  /\ LinesHold' /\ RelationsKept /\ Issued' = Issued \cup {new}
           /\ \A k \in Issued : Follows(old, k) => Follows(new, k)'
           /\ Replaces(new, old)'
<1>0. anc \in [Uuids -> SUBSET Uuids] /\ claimed \subseteq Uuids
  BY DEF TypeOK
<1>2. /\ new \notin Issued /\ new \notin claimed /\ \A v \in Uuids : new \notin anc[v]
      /\ old \in anc[old] /\ old # new
  BY Fresh DEF Renames, Issued, LinesHold
<1>3. CASE old \in claimed
  <2>1. /\ anc'[new] = anc[old] \cup {new} /\ \A v \in Uuids : v # new => anc'[v] = anc[v]
        /\ claimed' = (claimed \ {old}) \cup {new}
    BY <1>0, <1>3 DEF Renames
  <2>2. \A v \in claimed : old \in anc[v] => v = old
    BY <1>3 DEF LinesHold
  <2>3. \A w \in anc[old] : w \in Uuids /\ w # new /\ anc'[w] = anc[w] /\ anc[w] \subseteq anc[old]
    BY <1>0, <1>2, <2>1 DEF LinesHold
  <2>4. LinesHold'
    <3>1. \A v \in Uuids : anc'[v] # {} => v \in anc'[v]
      BY <2>1 DEF LinesHold
    <3>2. \A v \in Uuids : \A w \in anc'[v] : w \in Uuids /\ w \in anc'[w] /\ anc'[w] \subseteq anc'[v]
      <4> SUFFICES ASSUME NEW v \in Uuids, NEW w \in anc'[v]
                   PROVE  w \in Uuids /\ w \in anc'[w] /\ anc'[w] \subseteq anc'[v]
        OBVIOUS
      <4>1. CASE v = new
        BY <2>1, <2>3, <4>1 DEF LinesHold
      <4>2. CASE v # new
        <5>1. w \in anc[v] /\ w \in Uuids /\ w # new /\ anc'[w] = anc[w]
          BY <1>0, <1>2, <2>1, <4>2
        <5> QED
          BY <2>1, <4>2, <5>1 DEF LinesHold
      <4> QED
        BY <4>1, <4>2
    <3>3. \A v \in Uuids : \A w \in anc'[v] : v \in anc'[w] => w = v
      BY <1>2, <2>1, <2>3 DEF LinesHold
    <3>4. \A v \in claimed' : v \in anc'[v] /\ \A w \in claimed' : w \in anc'[v] => w = v
      <4>1. \A v \in claimed : v \in anc[v] /\ v # new /\ anc'[v] = anc[v]
        BY <1>0, <1>2, <2>1 DEF LinesHold
      <4>2. \A w \in claimed : w \in anc[old] => w = old
        BY <1>3 DEF LinesHold
      <4> QED
        BY <1>0, <1>2, <2>1, <4>1, <4>2 DEF LinesHold
    <3> QED
      BY <3>1, <3>2, <3>3, <3>4 DEF LinesHold
  <2>5. ASSUME NEW k \in Issued, NEW w \in Issued
        PROVE  (Follows(w, k) => Follows(w, k)') /\ (Replaces(w, k) => Replaces(w, k)')
    <3>1. k \in Uuids /\ k # new /\ w \in Uuids /\ w # new
      BY <1>2 DEF Issued
    <3>2. anc'[k] = anc[k] /\ anc'[w] = anc[w]
      BY <2>1, <3>1
    <3> QED
      BY <1>0, <1>2, <1>3, <2>1, <3>1, <3>2 DEF Follows, Replaces
  <2>6. ASSUME NEW k \in Issued, Follows(old, k) PROVE Follows(new, k)'
    <3>1. k \in Uuids /\ k # new
      BY <1>2 DEF Issued
    <3>2. k \in anc[old]
      BY <1>2, <1>3, <2>6 DEF Follows
    <3>3. \A v \in claimed : v # old => k \notin anc[v]
      BY <2>2, <2>6 DEF Follows
    <3> QED
      BY <1>0, <1>2, <2>1, <3>1, <3>2, <3>3 DEF Follows
  <2>7. Replaces(new, old)'
    BY <1>0, <1>2, <2>1, <2>2 DEF Replaces
  <2>8. Issued' = Issued \cup {new}
    BY <2>1 DEF Issued
  <2> QED
    BY <2>4, <2>5, <2>6, <2>7, <2>8 DEF RelationsKept
<1>4. CASE old \notin claimed
  <2>1. /\ anc'[new] = {new} /\ \A v \in Uuids : v # new => anc'[v] = anc[v]
        /\ claimed' \subseteq claimed /\ \A v \in claimed' : old \notin anc[v]
    BY <1>0, <1>4 DEF Renames, ClaimsWithout
  <2>2. \A v \in claimed' : v \in Uuids /\ v # new /\ anc'[v] = anc[v]
    BY <1>0, <1>2, <2>1
  <2>4. LinesHold'
    <3>1. \A v \in Uuids : anc'[v] # {} => v \in anc'[v]
      BY <2>1 DEF LinesHold
    <3>2. \A v \in Uuids : \A w \in anc'[v] : w \in Uuids /\ w \in anc'[w] /\ anc'[w] \subseteq anc'[v]
      BY <1>2, <2>1 DEF LinesHold
    <3>3. \A v \in Uuids : \A w \in anc'[v] : v \in anc'[w] => w = v
      BY <1>2, <2>1 DEF LinesHold
    <3>4. \A v \in claimed' : v \in anc'[v] /\ \A w \in claimed' : w \in anc'[v] => w = v
      BY <2>1, <2>2 DEF LinesHold
    <3> QED
      BY <3>1, <3>2, <3>3, <3>4 DEF LinesHold
  <2>5. ASSUME NEW k \in Issued, NEW w \in Issued
        PROVE  (Follows(w, k) => Follows(w, k)') /\ (Replaces(w, k) => Replaces(w, k)')
    <3>1. k \in Uuids /\ k # new /\ w \in Uuids /\ w # new
      BY <1>2 DEF Issued
    <3>2. anc'[k] = anc[k] /\ anc'[w] = anc[w]
      BY <2>1, <3>1
    <3> QED
      BY <2>1, <2>2, <3>2 DEF Follows, Replaces
  <2>6. ASSUME NEW k \in Issued, Follows(old, k) PROVE Follows(new, k)'
    <3>1. \A v \in claimed' : k \notin anc[v] /\ new \notin anc[v]
      BY <1>2, <2>1, <2>2, <2>6 DEF Follows
    <3> QED
      BY <2>2, <3>1 DEF Follows
  <2>7. Replaces(new, old)'
    BY <2>1, <2>2 DEF Replaces
  <2>8. Issued' = Issued \cup {new}
    BY <2>1 DEF Issued
  <2> QED
    BY <2>4, <2>5, <2>6, <2>7, <2>8 DEF RelationsKept
<1> QED
  BY <1>3, <1>4

(***************************************************************************)
(* References: what a change of the memory does to the writes that hold    *)
(* the dicts of the orders.                                                *)
(***************************************************************************)
\* t2 is t, but for a reference to u, which is to v now, or was cut.
TaskLike(t2, t, u, v) ==
    /\ t2.phase = t.phase /\ t2.old = t.old /\ t2.payUuid = t.payUuid /\ t2.pay = t.pay
    /\ t2.live => t.live
    /\ \/ t2.uuid = t.uuid /\ t2.row = t.row
       \/ t.live /\ t.uuid = u /\ u # NoUuid /\ t2.uuid = v /\ t2.row.ver > 0

EntryLike(e2, e, u, v) ==
    /\ e2.key = e.key /\ e2.delete = e.delete
    /\ \/ e2.uuid = e.uuid /\ e2.row = e.row
       \/ e.uuid = u /\ u # NoUuid /\ e2.uuid = v /\ e2.row.ver > 0

QueueLike(u, v) ==
    /\ queue' \in Seq(Entry) /\ Len(queue') = Len(queue)
    /\ \A i \in 1..Len(queue) : EntryLike(queue'[i], queue[i], u, v)

LEMMA RedirectRefs ==
    ASSUME TypeOK, NEW u \in Uuids, NEW v \in Uuids, NEW r \in Row, r.ver > 0
    PROVE  /\ \A s \in Slots : TaskLike(RedirectTasks(u, v, r)[s], tasks[s], u, v)
           /\ RedirectTasks(u, v, r) \in [Slots -> Task]
           /\ queue' = RedirectQueue(u, v, r) => QueueLike(u, v)
<1>1. tasks \in [Slots -> Task] /\ queue \in Seq(Entry) /\ u # NoUuid
  BY StoreAssumption DEF TypeOK
<1>2. \A s \in Slots : tasks[s] \in Task
  BY <1>1
<1>3. \A s \in Slots : TaskLike(RedirectTasks(u, v, r)[s], tasks[s], u, v)
  BY <1>1, <1>2 DEF RedirectTasks, TaskLike, Task, Write
<1>4. \A i \in 1..Len(queue) : queue[i] \in Entry
  BY <1>1, EntriesOf
<1>5. \A i \in 1..Len(queue) : EntryLike(RedirectQueue(u, v, r)[i], queue[i], u, v)
  BY <1>1, <1>4 DEF RedirectQueue, EntryLike, Entry
<1>6. RedirectQueue(u, v, r) \in Seq(Entry) /\ Len(RedirectQueue(u, v, r)) = Len(queue)
  BY <1>1, QueueRefsType
<1> QED
  BY <1>1, <1>3, <1>5, <1>6, TasksType DEF QueueLike

LEMMA DetachRefs ==
    ASSUME TypeOK, NEW us \in SUBSET Uuids
    PROVE  /\ \A s \in Slots : \A u, v : TaskLike(DetachTasks(us)[s], tasks[s], u, v)
           /\ DetachTasks(us) \in [Slots -> Task]
           /\ queue' = DetachQueue(us) => \A u, v : QueueLike(u, v)
<1>1. tasks \in [Slots -> Task] /\ queue \in Seq(Entry)
  BY DEF TypeOK
<1>2. \A s \in Slots : tasks[s] \in Task
  BY <1>1
<1>3. \A s \in Slots : \A u, v : TaskLike(DetachTasks(us)[s], tasks[s], u, v)
  BY <1>1, <1>2 DEF DetachTasks, TaskLike, Task, Write
<1>4. \A i \in 1..Len(queue) : queue[i] \in Entry
  BY <1>1, EntriesOf
<1>5. \A i \in 1..Len(queue) : \A u, v : EntryLike(DetachQueue(us)[i], queue[i], u, v)
  BY <1>1, <1>4 DEF DetachQueue, EntryLike, Entry
<1>6. DetachQueue(us) \in Seq(Entry) /\ Len(DetachQueue(us)) = Len(queue)
  BY <1>1, QueueRefsType
<1> QED
  BY <1>1, <1>3, <1>5, <1>6, TasksType DEF QueueLike

\* v is where references to u may go.
HandsOn(u, v) ==
    u \in Issued => v \in Issued' /\ \A k \in Issued : Follows(u, k) => Follows(v, k)'

LEMMA TaskLikeHolds ==
    ASSUME NEW t \in Task, NEW t2 \in Task, NEW u, NEW v, TaskHolds(t), TaskLike(t2, t, u, v),
           Touches(t) \subseteq Issued, RelationsKept, Issued \subseteq Issued', HandsOn(u, v)
    PROVE  TaskHolds(t2)' /\ Touches(t2) \subseteq Issued'
<1>1. /\ t2.phase = t.phase /\ t2.old = t.old /\ t2.payUuid = t.payUuid /\ t2.pay = t.pay
      /\ t2.live => t.live
  BY DEF TaskLike
<1>2. /\ t.phase \in {"new", "sent", "enqUpsert"} => t.uuid \in Issued
      /\ t.phase \in {"sent", "enqUpsert"} => t.payUuid \in Issued
      /\ t.old # NoUuid => t.old \in Issued
      /\ t.uuid # NoUuid => t.uuid \in Issued
      /\ t.payUuid # NoUuid => t.payUuid \in Issued
  BY DEF Touches, Task
<1>3. CASE t2.uuid = t.uuid /\ t2.row = t.row
  <2>1. t.phase = "enqUpsert" => Follows(t.uuid, t.payUuid)'
    BY <1>2 DEF TaskHolds, RelationsKept
  <2>2. t.phase \in {"sent", "enqUpsert"} /\ t.old # NoUuid => Replaces(t.uuid, t.old)'
    BY <1>2 DEF TaskHolds, RelationsKept
  <2>3. TaskHolds(t2)'
    BY <1>1, <1>3, <2>1, <2>2 DEF TaskHolds
  <2> QED
    BY <1>1, <1>3, <2>3 DEF Touches
<1>4. CASE t.live /\ t.uuid = u /\ u # NoUuid /\ t2.uuid = v /\ t2.row.ver > 0
  <2>1. u \in Issued /\ v \in Issued'
    BY <1>2, <1>4 DEF HandsOn
  <2>2. t.phase = "enqUpsert" => Follows(v, t.payUuid)'
    BY <1>2, <1>4, <2>1 DEF TaskHolds, HandsOn
  <2>3. ~(t.phase \in {"sent", "enqUpsert"} /\ t.old # NoUuid)
    BY <1>4 DEF TaskHolds
  <2>4. TaskHolds(t2)'
    BY <1>1, <1>4, <2>2, <2>3 DEF TaskHolds
  <2> QED
    BY <1>1, <1>2, <1>4, <2>1, <2>4 DEF Touches
<1> QED
  BY <1>3, <1>4 DEF TaskLike

LEMMA EntryLikeHolds ==
    ASSUME NEW e \in Entry, NEW e2 \in Entry, NEW u, NEW v, EntryHolds(e), EntryLike(e2, e, u, v),
           e.key \in Issued, e.uuid \in Issued \cup {NoUuid},
           RelationsKept, Issued \subseteq Issued', HandsOn(u, v)
    PROVE  EntryHolds(e2)' /\ e2.key \in Issued' /\ e2.uuid \in Issued' \cup {NoUuid}
<1>1. e2.key = e.key /\ e2.delete = e.delete /\ NoUuid \notin Issued'
  BY StoreAssumption DEF EntryLike, Issued
<1>2. CASE e2.uuid = e.uuid /\ e2.row = e.row
  <2>1. ~e.delete => Follows(e.uuid, e.key)'
    BY DEF EntryHolds, RelationsKept
  <2> QED
    BY <1>1, <1>2, <2>1 DEF EntryHolds
<1>3. CASE e.uuid = u /\ u # NoUuid /\ e2.uuid = v /\ e2.row.ver > 0
  <2>1. u \in Issued /\ v \in Issued'
    BY <1>3 DEF HandsOn
  <2>2. ~e.delete => Follows(v, e.key)'
    BY <1>3, <2>1 DEF EntryHolds, HandsOn
  <2> QED
    BY <1>1, <1>3, <2>1, <2>2 DEF EntryHolds
<1> QED
  BY <1>2, <1>3 DEF EntryLike

LEMMA QueueLikeHolds ==
    ASSUME TypeOK, QueueHolds, NEW u, NEW v, QueueLike(u, v), qfile' = qfile, sync' = sync,
           RelationsKept, Issued \subseteq Issued', HandsOn(u, v)
    PROVE  /\ QueueHolds'
           /\ Deletes(Entries(queue')) = Deletes(Entries(queue))
           /\ \A k : Stored(k)' <=> Stored(k)
<1>0. /\ queue \in Seq(Entry) /\ qfile \in Seq(Entry) /\ queue' \in Seq(Entry) /\ Len(queue') = Len(queue)
      /\ sync.processed \in Nat /\ Len(queue) \in Nat
      /\ sync.sending => sync.processed + 1 \in 1..Len(queue)
  BY UntriedOf DEF QueueLike
<1>1. \A i \in 1..Len(queue) :
        /\ EntryLike(queue'[i], queue[i], u, v) /\ queue[i] \in Entry /\ queue'[i] \in Entry
        /\ queue[i] \in Entries(queue) /\ queue'[i] \in Entries(queue')
        /\ queue'[i].key = queue[i].key /\ queue'[i].delete = queue[i].delete
  BY <1>0, EntriesOf DEF QueueLike, EntryLike
<1>2. ASSUME NEW e2 \in Entries(queue')
      PROVE  \E e \in Entries(queue) : EntryLike(e2, e, u, v) /\ e \in Entry /\ e2 \in Entry
  BY <1>0, <1>1, EntriesOf
<1>3. ASSUME NEW e2 \in Entries(queue')
      PROVE  EntryHolds(e2)' /\ e2.key \in Issued' /\ e2.uuid \in Issued' \cup {NoUuid}
  BY <1>2, EntryLikeHolds DEF QueueHolds
<1>4. ASSUME NEW e2 \in Entries(qfile)
      PROVE  EntryHolds(e2)' /\ e2.key \in Issued' /\ e2.uuid \in Issued' \cup {NoUuid}
  <2>1. e2 \in Entry /\ EntryHolds(e2) /\ e2.key \in Issued /\ e2.uuid \in Issued \cup {NoUuid}
    BY <1>0, EntriesOf DEF QueueHolds
  <2>2. EntryLike(e2, e2, u, v)
    BY DEF EntryLike
  <2> QED
    BY <2>1, <2>2, EntryLikeHolds
<1>5. /\ Deletes(Entries(queue')) = Deletes(Entries(queue))
      /\ Upserts(Entries(queue')) = Upserts(Entries(queue))
  <2>1. \A e2 \in Entries(queue') : \E e \in Entries(queue) : e2.key = e.key /\ e2.delete = e.delete
    BY <1>2 DEF EntryLike
  <2>2. \A e \in Entries(queue) : \E e2 \in Entries(queue') : e2.key = e.key /\ e2.delete = e.delete
    <3> SUFFICES ASSUME NEW e \in Entries(queue)
                 PROVE  \E e2 \in Entries(queue') : e2.key = e.key /\ e2.delete = e.delete
      OBVIOUS
    <3>1. PICK i \in 1..Len(queue) : e = queue[i]
      BY <1>0, EntriesOf
    <3> QED
      BY <1>1, <3>1
  <2> QED
    BY <2>1, <2>2 DEF Deletes, Upserts
<1>6. \A k : Stored(k)' <=> Stored(k)
  <2>1. ASSUME NEW i \in sync.processed + 1..Len(queue)
        PROVE  queue'[i].key = queue[i].key /\ queue'[i].delete = queue[i].delete
    <3>1. i \in 1..Len(queue)
      BY <1>0
    <3> QED
      BY <1>1, <3>1
  <2>2. \A k \in Uuids : (\E e \in UntriedEntries : ~e.delete /\ e.key = k)'
                        <=> \E e \in UntriedEntries : ~e.delete /\ e.key = k
    BY SMTT(30), <1>0, <2>1 DEF UntriedEntries
  <2>3. Upserts(UntriedEntries)' = Upserts(UntriedEntries)
    BY <2>2 DEF Upserts
  <2> QED
    BY <2>3 DEF Stored
<1>7. SendingHolds'
  <2> DEFINE i == sync.processed + 1
  <2> SUFFICES ASSUME sync.sending, ~queue'[i].delete
               PROVE  sync.payUuid # NoUuid /\ sync.pay.ver > 0 /\ Follows(sync.payUuid, queue[i].key)'
    BY DEF SendingHolds
  <2>1. i \in 1..Len(queue)
    BY <1>0
  <2>2. PICK k, p : k = queue[i].key /\ p = sync.payUuid
    OBVIOUS
  <2>3. ~queue[i].delete /\ queue'[i].key = k /\ queue[i] \in Entries(queue)
    BY <1>1, <2>1, <2>2
  <2>4. p # NoUuid /\ sync.pay.ver > 0 /\ Follows(p, k)
    BY <2>2, <2>3 DEF QueueHolds, SendingHolds
  <2>5. p \in Issued /\ k \in Issued
    BY <2>2, <2>3, <2>4 DEF QueueHolds
  <2>6. Follows(p, k)'
    BY <2>4, <2>5 DEF RelationsKept
  <2> QED
    BY <2>2, <2>3, <2>4, <2>6
<1>8. FileHolds'
  BY <1>5 DEF QueueHolds, FileHolds
<1> QED
  BY <1>3, <1>4, <1>5, <1>6, <1>7, <1>8 DEF QueueHolds

(***************************************************************************)
(* The argument: a step leaves, behind every order of a line that was      *)
(* safe, the same one or a later one that is.                              *)
(***************************************************************************)
SafeAfter(v, w) == \E x \in anc[v] : x \notin Doomed' /\ w \in anc[x] /\ Safe(x)'

StaysKept == \A v \in claimed \cap claimed' : Kept(v) => Kept(v)' \/ anc[v] \cap dropped' # {}

\* Nothing is new in the file but what is to be replayed.
FileGrows == \A f \in Entries(qfile') : ~f.delete => f \in Entries(qfile) \/ Stored(f.key)'

\* How the line of v fares.
Fares(v) ==
    /\ \A w \in anc[v] \ Doomed : Safe(w) => SafeAfter(v, w)
    /\ \A d \in Doomed' \cap anc[v] : d \in Doomed \/ SafeAfter(v, d)

LEMMA DoomedIssued ==
    ASSUME TypeOK, Shapes
    PROVE  Doomed \subseteq Issued /\ \A k : Stored(k) => k \in Issued
<1>1. queue \in Seq(Entry) /\ qfile \in Seq(Entry) /\ tasks \in [Slots -> Task]
      /\ UntriedEntries \subseteq Entries(queue)
  BY UntriedOf DEF TypeOK
<1>2. \A e \in Entries(queue) \cup Entries(qfile) : e.key \in Issued
  BY DEF Shapes, QueueHolds
<1>3. \A s \in Slots : tasks[s].old # NoUuid => tasks[s].old \in Issued
  BY DEF Shapes, TasksHold, Touches
<1>4. NoUuid \notin Uuids
  BY StoreAssumption
<1>5. Doomed \subseteq Issued
  BY <1>2, <1>3, <1>4 DEF Doomed, Deletes
<1>6. \A k : Stored(k) => k \in Issued
  BY <1>1, <1>2 DEF Stored, Upserts
<1> QED
  BY <1>5, <1>6

LEMMA StoredIsInFile ==
    ASSUME TypeOK, Shapes, NEW k, Stored(k)
    PROVE  k \in Upserts(Entries(qfile))
<1>1. UntriedEntries \subseteq Entries(queue)
  BY UntriedOf
<1>2. Upserts(UntriedEntries) \subseteq Upserts(Entries(queue))
  BY <1>1 DEF Upserts
<1> QED
  BY <1>2 DEF Stored, Shapes, QueueHolds, FileHolds

LEMMA SafeIsKept ==
    ASSUME TypeOK, Shapes, NEW v \in claimed, NEW w \in anc[v], Safe(w)
    PROVE  Kept(v)
<1>1. CASE db[w].ver > 0
  BY <1>1 DEF Kept, Durable
<1>2. CASE Stored(w)
  <2>1. PICK f \in Entries(qfile) : ~f.delete /\ f.key = w
    BY <1>2, StoredIsInFile DEF Upserts
  <2>2. f.uuid \in anc[v]
    BY <2>1 DEF Shapes, QueueHolds, EntryHolds, Follows
  <2> QED
    BY <2>1, <2>2 DEF Kept, Durable
<1> QED
  BY <1>1, <1>2 DEF Safe

LEMMA LineKept ==
    ASSUME TypeOK, TypeOK', Shapes, Shapes', FileGrows, NEW v \in claimed, v \in claimed', LaterIsSafe(v), KeptIsSafe(v),
           Fares(v), \A w \in anc[v] : anc'[w] = anc[w]
    PROVE  LaterIsSafe(v)' /\ KeptIsSafe(v)' /\ (Kept(v) => Kept(v)')
<1>1. /\ v \in anc[v] /\ anc'[v] = anc[v] /\ v \in Uuids /\ anc[v] \subseteq Uuids
      /\ \A w \in anc[v] : w \in anc[w] /\ anc[w] \subseteq anc[v]
  BY DEF Shapes, LinesHold, TypeOK
<1>2. \A w \in anc[v] : Safe(w) => \E x \in anc[v] : Safe(x)'
  <2> SUFFICES ASSUME NEW w \in anc[v], Safe(w) PROVE \E x \in anc[v] : Safe(x)'
    OBVIOUS
  <2>1. PICK x \in anc[v] : x \notin Doomed /\ Safe(x)
    BY DEF LaterIsSafe
  <2> QED
    BY <2>1 DEF Fares, SafeAfter
<1>3. LaterIsSafe(v)'
  <2> SUFFICES ASSUME NEW d \in anc[v], d \in Doomed'
               PROVE  \E x \in anc[v] : x \notin Doomed' /\ d \in anc[x] /\ Safe(x)'
    BY <1>1 DEF LaterIsSafe
  <2>1. CASE d \in Doomed
    <3>1. PICK w \in anc[v] : w \notin Doomed /\ d \in anc[w] /\ Safe(w)
      BY <2>1 DEF LaterIsSafe
    <3>2. PICK x \in anc[v] : x \notin Doomed' /\ w \in anc[x] /\ Safe(x)'
      BY <3>1 DEF Fares, SafeAfter
    <3>3. x \in Uuids /\ anc[w] \subseteq anc[x]
      BY <1>1, <3>2 DEF Shapes, LinesHold
    <3> QED
      BY <3>1, <3>2, <3>3
  <2>2. CASE d \notin Doomed
    BY <2>2 DEF Fares, SafeAfter
  <2> QED
    BY <2>1, <2>2
<1>4. KeptIsSafe(v)'
  <2> SUFFICES ASSUME Kept(v)' PROVE \E x \in anc[v] : Safe(x)'
    BY <1>1 DEF KeptIsSafe
  <2>1. PICK x \in anc[v] : db'[x].ver > 0 \/ \E f \in Entries(qfile') : ~f.delete /\ f.uuid = x
    BY <1>1 DEF Kept, Durable
  <2>2. CASE db'[x].ver > 0
    BY <2>2 DEF Safe
  <2>3. ASSUME NEW f \in Entries(qfile'), ~f.delete, f.uuid = x PROVE \E y \in anc[v] : Safe(y)'
    <3>1. CASE f \in Entries(qfile)
      <4>1. Kept(v)
        BY <2>3, <3>1 DEF Kept, Durable
      <4> QED
        BY <1>2, <4>1 DEF KeptIsSafe
    <3>2. CASE Stored(f.key)'
      <4>1. f.key \in anc'[v]
        BY <1>1, <2>3 DEF Shapes, QueueHolds, EntryHolds, Follows
      <4> QED
        BY <1>1, <3>2, <4>1 DEF Safe
    <3> QED
      BY <2>3, <3>1, <3>2 DEF FileGrows
  <2> QED
    BY <2>1, <2>2, <2>3
<1>5. ASSUME Kept(v) PROVE Kept(v)'
  <2>1. PICK x \in anc[v] : Safe(x)'
    BY <1>2, <1>5 DEF KeptIsSafe
  <2>2. Safe(x)' => Kept(v)'
    <3>1. CASE db'[x].ver > 0
      BY <1>1, <3>1 DEF Kept, Durable
    <3>2. CASE Stored(x)'
      <4>1. x \in Upserts(Entries(qfile))'
        <5>1. (UntriedEntries \subseteq Entries(queue))'
          BY UntriedOf, PTL
        <5>2. Upserts(UntriedEntries)' \subseteq Upserts(Entries(queue))'
          BY <5>1 DEF Upserts
        <5> QED
          BY <3>2, <5>2 DEF Stored, Shapes, QueueHolds, FileHolds
      <4>2. PICK f \in Entries(qfile') : ~f.delete /\ f.key = x
        BY <4>1 DEF Upserts
      <4>3. f.uuid \in anc'[v]
        BY <1>1, <4>2 DEF Shapes, QueueHolds, EntryHolds, Follows
      <4> QED
        BY <4>2, <4>3 DEF Kept, Durable
    <3> QED
      BY <3>1, <3>2 DEF Safe
  <2> QED
    BY <2>1, <2>2
<1> QED
  BY <1>3, <1>4, <1>5

\* Steps that claim nothing.
LEMMA ClaimsKept ==
    ASSUME TypeOK, TypeOK', Shapes, Shapes', ClaimsHold, FileGrows, GivesUp, dropped \subseteq dropped',
           \A v \in claimed' : anc[v] \cap dropped' = {} => Fares(v)
    PROVE  ClaimsHold' /\ StaysKept
<1>1. anc' = anc /\ claimed' \subseteq claimed
  BY DEF GivesUp
<1>2. ASSUME NEW v \in claimed', anc[v] \cap dropped' = {}
      PROVE  LaterIsSafe(v)' /\ KeptIsSafe(v)' /\ (Kept(v) => Kept(v)')
  <2>1. v \in claimed /\ anc[v] \cap dropped = {} /\ Fares(v)
    BY <1>1, <1>2
  <2>2. LaterIsSafe(v) /\ KeptIsSafe(v)
    BY <2>1 DEF ClaimsHold
  <2> QED
    BY <1>1, <1>2, <2>1, <2>2, LineKept
<1>3. ClaimsHold'
  BY <1>1, <1>2 DEF ClaimsHold
<1>4. StaysKept
  BY <1>1, <1>2 DEF StaysKept
<1> QED
  BY <1>3, <1>4

\* Steps that leave every safe order safe, unless it is on its way out, and doom none.
LEMMA NothingDoomed ==
    ASSUME TypeOK, TypeOK', Shapes, Shapes', ClaimsHold, FileGrows, GivesUp, dropped \subseteq dropped',
           Doomed' \subseteq Doomed,
           \A v \in claimed' : \A w \in anc[v] \ Doomed : anc[v] \cap dropped' = {} /\ Safe(w) => Safe(w)'
    PROVE  ClaimsHold' /\ StaysKept
<1>1. ASSUME NEW v \in claimed', anc[v] \cap dropped' = {} PROVE Fares(v)
  <2>1. v \in Uuids
    BY DEF GivesUp, TypeOK
  <2>2. \A w \in anc[v] : w \in anc[w]
    BY <2>1 DEF Shapes, LinesHold
  <2> QED
    BY <1>1, <2>2 DEF Fares, SafeAfter
<1> QED
  BY <1>1, ClaimsKept

(***************************************************************************)
(* The operations on orders.                                               *)
(***************************************************************************)
TaskDoomed == {k \in Uuids : \E s \in Slots : tasks[s].phase \in {"delete", "enqDelete"} /\ tasks[s].old = k}

Dooms(t) == {k \in Uuids : t.phase \in {"delete", "enqDelete"} /\ t.old = k}

\* The tasks are ts, but for the one in slot sl.
LEMMA TasksAre ==
    ASSUME TypeOK, Shapes, NEW u, NEW v, HandsOn(u, v), RelationsKept, Issued \subseteq Issued',
           NEW ts \in [Slots -> Task], \A s \in Slots : TaskLike(ts[s], tasks[s], u, v),
           NEW sl \in Slots, NEW t \in Task, tasks' = [ts EXCEPT ![sl] = t],
           TaskHolds(t)', Touches(t) \subseteq Issued'
    PROVE  TasksHold' /\ TaskDoomed' \subseteq TaskDoomed \cup Dooms(t)
<1>1. tasks \in [Slots -> Task]
  BY DEF TypeOK
<1>2. /\ tasks'[sl] = t /\ \A s \in Slots : s # sl => tasks'[s] = ts[s]
      /\ \A s \in Slots : ts[s] \in Task /\ tasks[s] \in Task
  BY <1>1
<1>3. \A s \in Slots : TaskHolds(ts[s])' /\ Touches(ts[s]) \subseteq Issued'
  <2>1. ASSUME NEW a \in Task, NEW b \in Task, TaskHolds(a), Touches(a) \subseteq Issued, TaskLike(b, a, u, v)
        PROVE  TaskHolds(b)' /\ Touches(b) \subseteq Issued'
    BY <2>1, TaskLikeHolds
  <2> QED
    BY <1>2, <2>1 DEF Shapes, TasksHold
<1>4. TasksHold'
  <2> SUFFICES ASSUME NEW s \in Slots PROVE (TaskHolds(tasks[s]) /\ Touches(tasks[s]) \subseteq Issued)'
    BY DEF TasksHold
  <2>1. PICK a \in Task : a = tasks'[s] /\ (a = t \/ a = ts[s])
    BY <1>2
  <2>2. TaskHolds(a)' /\ Touches(a) \subseteq Issued'
    BY <1>3, <2>1
  <2>3. TaskHolds(tasks[s])'
    BY <2>1, <2>2 DEF TaskHolds, Follows, Replaces
  <2> QED
    BY <2>1, <2>2, <2>3 DEF Touches
<1>5. \A s \in Slots : ts[s].phase = tasks[s].phase /\ ts[s].old = tasks[s].old
  BY DEF TaskLike
<1>6. TaskDoomed' \subseteq TaskDoomed \cup Dooms(t)
  BY <1>2, <1>5 DEF TaskDoomed, Dooms
<1> QED
  BY <1>4, <1>6

LEMMA CallHolds ==
    ASSUME TypeOK, TypeOK', Shapes, NEW u, NEW v, HandsOn(u, v), RelationsKept, Issued \subseteq Issued', NEW X,
           LinesHold', MemoryHolds', TasksHold', TaskDoomed' \subseteq TaskDoomed \cup X,
           QueueLike(u, v), UNCHANGED <<qfile, sync>>
    PROVE  /\ Shapes' /\ Doomed' \subseteq Doomed \cup X /\ FileGrows
           /\ \A k : Stored(k)' <=> Stored(k)
           /\ \A k : Safe(k) /\ (db[k].ver > 0 => db'[k].ver > 0) => Safe(k)'
<1>1. /\ QueueHolds' /\ Deletes(Entries(queue')) = Deletes(Entries(queue))
      /\ \A k : Stored(k)' <=> Stored(k)
  BY QueueLikeHolds DEF Shapes
<1>2. Shapes'
  BY <1>1 DEF Shapes
<1>3. Doomed = TaskDoomed \cup Deletes(Entries(queue)) \cup Deletes(Entries(qfile))
  BY DEF Doomed, TaskDoomed
<1>4. Doomed' = TaskDoomed' \cup Deletes(Entries(queue')) \cup Deletes(Entries(qfile'))
  BY DEF Doomed, TaskDoomed
<1>5. FileGrows
  BY DEF FileGrows
<1> QED
  BY <1>1, <1>2, <1>3, <1>4, <1>5 DEF Safe

LEMMA LineSame ==
    ASSUME TypeOK, Shapes, NEW v \in claimed, anc[v] \cap Doomed' \subseteq Doomed,
           \A w \in anc[v] \ Doomed : Safe(w) => Safe(w)'
    PROVE  Fares(v)
<1>1. \A w \in anc[v] : w \in anc[w]
  BY DEF Shapes, LinesHold, TypeOK
<1> QED
  BY <1>1 DEF Fares, SafeAfter

\* A new order: nothing is left of one that had its uuid.
LEMMA NewClaim ==
    ASSUME TypeOK, TypeOK', Shapes, Shapes', ClaimsHold, NEW u \in Uuids, Claims(u), dropped' = dropped,
           qfile' = qfile, FileGrows, Doomed' \subseteq Doomed, \A k \in Uuids : Safe(k) => Safe(k)'
    PROVE  ClaimsHold' /\ StaysKept
<1>1. /\ u \notin Issued /\ u \notin claimed /\ \A v \in Uuids : u \notin anc[v]
      /\ anc'[u] = {u} /\ \A v \in Uuids : v # u => anc'[v] = anc[v]
      /\ claimed' = claimed \cup {u} /\ claimed \subseteq Uuids
  BY Fresh DEF Claims, TypeOK, Shapes
<1>2. ASSUME NEW v \in claimed, anc[v] \cap dropped = {}
      PROVE  LaterIsSafe(v)' /\ KeptIsSafe(v)' /\ (Kept(v) => Kept(v)')
  <2>1. /\ v \in Uuids /\ v # u /\ anc'[v] = anc[v] /\ v \in claimed' /\ anc[v] \subseteq Uuids
        /\ \A w \in anc[v] : anc'[w] = anc[w]
    BY <1>1 DEF TypeOK
  <2>2. Fares(v)
    BY <2>1, LineSame
  <2> QED
    BY <1>2, <2>1, <2>2, LineKept DEF ClaimsHold
<1>3. LaterIsSafe(u)'
  BY <1>1, DoomedIssued DEF LaterIsSafe
<1>4. KeptIsSafe(u)'
  <2> SUFFICES ASSUME Kept(u)' PROVE Safe(u)'
    BY <1>1 DEF KeptIsSafe
  <2>1. \A f \in Entries(qfile') : f.uuid # u
    BY <1>1, StoreAssumption DEF Shapes, QueueHolds
  <2> QED
    BY <1>1, <2>1 DEF Kept, Durable, Safe
<1>5. ClaimsHold'
  BY <1>1, <1>2, <1>3, <1>4 DEF ClaimsHold
<1>6. StaysKept
  BY <1>1, <1>2 DEF StaysKept
<1> QED
  BY <1>5, <1>6

\* A replaced order: the line of the old one goes on.
LEMMA Renamed ==
    ASSUME TypeOK, TypeOK', Shapes, Shapes', ClaimsHold, NEW old \in Uuids, NEW new \in Uuids, Renames(old, new),
           UNCHANGED <<dropped, qfile, db>>, FileGrows, Doomed' \subseteq Doomed, \A k : Safe(k) => Safe(k)'
    PROVE  ClaimsHold' /\ StaysKept
<1>1. /\ new \notin Issued /\ new \notin claimed /\ \A v \in Uuids : new \notin anc[v]
      /\ \A v \in Uuids : v # new => anc'[v] = anc[v]
      /\ claimed' \subseteq claimed \cup {new} /\ claimed \subseteq Uuids
      /\ new \in claimed' => old \in claimed /\ anc'[new] = anc[old] \cup {new}
  BY Fresh DEF Renames, TypeOK, Shapes, ClaimsWithout
<1>2. ASSUME NEW v \in claimed, v \in claimed', anc[v] \cap dropped = {}
      PROVE  LaterIsSafe(v)' /\ KeptIsSafe(v)' /\ (Kept(v) => Kept(v)')
  <2>1. v \in Uuids /\ v # new /\ anc'[v] = anc[v] /\ \A w \in anc[v] : anc'[w] = anc[w]
    BY <1>1 DEF TypeOK
  <2>2. Fares(v)
    BY LineSame
  <2> QED
    BY <1>2, <2>1, <2>2, LineKept DEF ClaimsHold
<1>3. ASSUME new \in claimed', anc'[new] \cap dropped' = {} PROVE LaterIsSafe(new)' /\ KeptIsSafe(new)'
  <2>1. /\ old \in claimed /\ anc'[new] = anc[old] \cup {new} /\ anc[old] \cap dropped = {}
        /\ old \in Uuids /\ anc[old] \subseteq Uuids
        /\ \A w \in anc[old] : w # new /\ anc'[w] = anc[w]
    BY <1>1, <1>3 DEF TypeOK
  <2>2. LaterIsSafe(old) /\ KeptIsSafe(old)
    BY <2>1 DEF ClaimsHold
  <2>3. new \notin Doomed'
    BY <1>1, DoomedIssued
  <2>4. LaterIsSafe(new)'
    <3> SUFFICES ASSUME NEW d \in anc[old], d \in Doomed
                 PROVE  \E w \in anc'[new] : w \notin Doomed' /\ d \in anc'[w] /\ Safe(w)'
      BY <2>1, <2>3 DEF LaterIsSafe
    <3>1. PICK w \in anc[old] : w \notin Doomed /\ d \in anc[w] /\ Safe(w)
      BY <2>2 DEF LaterIsSafe
    <3> QED
      BY <2>1, <3>1
  <2>5. KeptIsSafe(new)'
    <3> SUFFICES ASSUME Kept(new)' PROVE \E w \in anc'[new] : Safe(w)'
      BY DEF KeptIsSafe
    <3>1. PICK x \in anc'[new] : db[x].ver > 0 \/ \E f \in Entries(qfile) : ~f.delete /\ f.uuid = x
      BY DEF Kept, Durable
    <3>2. x # new
      BY <1>1, <3>1, StoreAssumption DEF Shapes, QueueHolds, MemoryHolds
    <3>3. x \in anc[old] /\ Kept(old)
      BY <2>1, <3>1, <3>2 DEF Kept, Durable
    <3> QED
      BY <2>1, <2>2, <3>3 DEF KeptIsSafe
  <2> QED
    BY <2>4, <2>5
<1>5. ClaimsHold'
  <2> SUFFICES ASSUME NEW v \in claimed', anc'[v] \cap dropped' = {} PROVE LaterIsSafe(v)' /\ KeptIsSafe(v)'
    BY DEF ClaimsHold
  <2>1. CASE v = new
    BY <1>3, <2>1
  <2>2. CASE v # new
    BY <1>1, <1>2, <2>2
  <2> QED
    BY <2>1, <2>2
<1>6. StaysKept
  BY <1>2 DEF StaysKept
<1> QED
  BY <1>5, <1>6

\* An order that is given up may be deleted.
LEMMA Discarded ==
    ASSUME TypeOK, TypeOK', Shapes, Shapes', ClaimsHold, NEW us \in SUBSET Uuids, claimed' = ClaimsWithout(us),
           UNCHANGED <<anc, dropped>>, FileGrows, Doomed' \subseteq Doomed \cup us,
           \A k \in Uuids \ us : Safe(k) => Safe(k)'
    PROVE  ClaimsHold' /\ StaysKept
<1>1. GivesUp
  BY DEF GivesUp, ClaimsWithout
<1>2. ASSUME NEW v \in claimed' PROVE Fares(v)
  <2>1. v \in claimed /\ anc[v] \cap us = {} /\ anc[v] \subseteq Uuids
    BY DEF ClaimsWithout, TypeOK
  <2> QED
    BY <2>1, LineSame
<1> QED
  BY <1>1, <1>2, ClaimsKept

LEMMA NoRedirect ==
    ASSUME TypeOK
    PROVE  /\ HandsOn(NoUuid, NoUuid) /\ \A s \in Slots : TaskLike(tasks[s], tasks[s], NoUuid, NoUuid)
           /\ queue' = queue => QueueLike(NoUuid, NoUuid)
<1>1. queue \in Seq(Entry) /\ NoUuid \notin Issued
  BY StoreAssumption DEF TypeOK, Issued
<1> QED
  BY <1>1 DEF HandsOn, TaskLike, QueueLike, EntryLike

LEMMA NewTasks ==
    ASSUME NEW u \in Uuids, NEW r \in Row, r.ver > 0
    PROVE  /\ UpsertTask(u, r) \in Task /\ TaskHolds(UpsertTask(u, r))'
           /\ Touches(UpsertTask(u, r)) = {u} /\ Dooms(UpsertTask(u, r)) = {}
           /\ DeleteTask(u) \in Task /\ TaskHolds(DeleteTask(u))'
           /\ Touches(DeleteTask(u)) = {u} /\ Dooms(DeleteTask(u)) = {u}
<1>1. /\ UpsertTask(u, r).phase = "new" /\ UpsertTask(u, r).row = r /\ UpsertTask(u, r).uuid = u
      /\ UpsertTask(u, r).old = NoUuid /\ UpsertTask(u, r).payUuid = NoUuid
  BY DEF UpsertTask, NoTask
<1>2. /\ DeleteTask(u).phase = "delete" /\ DeleteTask(u).uuid = NoUuid
      /\ DeleteTask(u).old = u /\ DeleteTask(u).payUuid = NoUuid
  BY DEF DeleteTask, NoTask
<1>3. UpsertTask(u, r) \in Task /\ DeleteTask(u) \in Task
  BY NoValuesType, StoreAssumption DEF UpsertTask, DeleteTask, NoTask, Task, Write, Named
<1>4. NoUuid \notin Uuids
  BY StoreAssumption
<1>5. TaskHolds(UpsertTask(u, r))' /\ TaskHolds(DeleteTask(u))'
  BY <1>1, <1>2 DEF TaskHolds
<1>6. /\ Touches(UpsertTask(u, r)) = {u} /\ Touches(DeleteTask(u)) = {u}
      /\ Dooms(UpsertTask(u, r)) = {} /\ Dooms(DeleteTask(u)) = {u}
  BY <1>1, <1>2, <1>4 DEF Touches, Dooms
<1> QED
  BY <1>3, <1>5, <1>6

LEMMA NewReplacement ==
    ASSUME NEW old \in Uuids, NEW new \in Uuids, NEW r \in Row, r.ver > 0, new # old, Replaces(new, old)'
    PROVE  /\ ReplaceTask(old, new, r) \in Task /\ TaskHolds(ReplaceTask(old, new, r))'
           /\ Touches(ReplaceTask(old, new, r)) = {old, new} /\ Dooms(ReplaceTask(old, new, r)) = {}
<1> DEFINE t == ReplaceTask(old, new, r)
<1>1. /\ t.phase = "sent" /\ t.row = r /\ t.uuid = new /\ t.old = old
      /\ t.payUuid = new /\ t.pay = r /\ t.live = FALSE
  BY DEF ReplaceTask, NoTask
<1>2. t \in Task
  BY NoValuesType, StoreAssumption DEF ReplaceTask, NoTask, Task, Write, Named
<1>3. NoUuid \notin Uuids
  BY StoreAssumption
<1> HIDE DEF t
<1>4. TaskHolds(t)'
  BY <1>1 DEF TaskHolds
<1>5. Touches(t) = {old, new} /\ Dooms(t) = {}
  BY <1>1, <1>3 DEF Touches, Dooms
<1> QED
  BY <1>2, <1>4, <1>5 DEF t

LEMMA AddOrderKeeps ==
    ASSUME TypeOK, TypeOK', Contract, NEW u \in Uuids, AddOrder(u)
    PROVE  Contract' /\ StaysKept
<1> DEFINE r == [ver |-> 1, req |-> FALSE]
<1>1. /\ mem' = [mem EXCEPT ![u] = r] /\ Spawn(UpsertTask(u, r), tasks) /\ Claims(u)
      /\ UNCHANGED <<db, file, queue, qfile, sync, reload, dropped>>
  BY DEF AddOrder, Claims, Call, hist
<1>2. r \in Row /\ r.ver > 0 /\ mem \in Table
  BY StoreAssumption DEF Row, TypeOK
<1> HIDE DEF r
<1>3. LinesHold' /\ RelationsKept /\ Issued' = Issued \cup {u}
  BY <1>1, ClaimsKeeps DEF Contract, Shapes
<1>4. MemoryHolds'
  BY <1>1, <1>2, <1>3 DEF Contract, Shapes, MemoryHolds, Table
<1>5. PICK sl \in Slots : tasks' = [tasks EXCEPT ![sl] = UpsertTask(u, r)]
  BY <1>1 DEF Spawn
<1>6. TasksHold' /\ TaskDoomed' \subseteq TaskDoomed
  BY <1>2, <1>3, <1>5, NoRedirect, NewTasks, TasksAre DEF Contract, TypeOK
<1>7. /\ Shapes' /\ Doomed' \subseteq Doomed /\ FileGrows
      /\ \A k : Safe(k) => Safe(k)'
  <2>1. TaskDoomed' \subseteq TaskDoomed \cup {}
    BY <1>6
  <2>2. /\ Shapes' /\ Doomed' \subseteq Doomed \cup {} /\ FileGrows
        /\ \A k : Safe(k) /\ (db[k].ver > 0 => db'[k].ver > 0) => Safe(k)'
    BY <1>1, <1>3, <1>4, <1>6, <2>1, NoRedirect, CallHolds DEF Contract
  <2> QED
    BY <1>1, <2>2
<1> QED
  BY <1>1, <1>7, NewClaim DEF Contract

LEMMA UpdateOrderKeeps ==
    ASSUME TypeOK, TypeOK', Contract, NEW u \in Uuids, NEW keepStatus \in BOOLEAN, UpdateOrder(u, keepStatus)
    PROVE  Contract' /\ StaysKept
<1>0. PICK r : r = [ver |-> mem[u].ver + 1, req |-> mem[u].req /\ keepStatus]
  OBVIOUS
<1>1. /\ mem' = [mem EXCEPT ![u] = r] /\ Spawn(UpsertTask(u, r), RedirectTasks(u, u, r)) /\ mem[u].ver \in 1..MaxVer - 1
      /\ queue' = RedirectQueue(u, u, r)
      /\ UNCHANGED <<db, file, qfile, sync, reload, dropped, anc, claimed>>
  BY <1>0 DEF UpdateOrder, Call, hist
<1>2. r \in Row /\ r.ver > 0 /\ mem \in Table /\ u \in Issued
  <2>1. mem[u] \in Row /\ mem \in Table
    BY DEF TypeOK, Table
  <2> QED
    BY <1>0, <1>1, <2>1, StoreAssumption DEF Row, Contract, Shapes, MemoryHolds
<1>3. LinesHold' /\ RelationsKept /\ Issued' = Issued /\ GivesUp
  BY <1>1, GivesUpKeeps DEF Contract, Shapes, GivesUp
<1>4. MemoryHolds'
  BY <1>1, <1>2, <1>3 DEF Contract, Shapes, MemoryHolds, Table
<1>5. PICK sl \in Slots : tasks' = [RedirectTasks(u, u, r) EXCEPT ![sl] = UpsertTask(u, r)]
  BY <1>1 DEF Spawn
<1>6. /\ HandsOn(u, u) /\ \A s \in Slots : TaskLike(RedirectTasks(u, u, r)[s], tasks[s], u, u)
      /\ RedirectTasks(u, u, r) \in [Slots -> Task] /\ QueueLike(u, u)
  <2>1. HandsOn(u, u)
    BY <1>2, <1>3 DEF HandsOn, RelationsKept
  <2>2. /\ \A s \in Slots : TaskLike(RedirectTasks(u, u, r)[s], tasks[s], u, u)
        /\ RedirectTasks(u, u, r) \in [Slots -> Task] /\ QueueLike(u, u)
    BY <1>1, <1>2, RedirectRefs
  <2> QED
    BY <2>1, <2>2
<1>7. TasksHold' /\ TaskDoomed' \subseteq TaskDoomed \cup {}
  <2>1. TypeOK /\ Shapes /\ Issued \subseteq Issued'
    BY <1>3 DEF Contract
  <2>2. /\ UpsertTask(u, r) \in Task /\ TaskHolds(UpsertTask(u, r))'
        /\ Touches(UpsertTask(u, r)) \subseteq Issued' /\ Dooms(UpsertTask(u, r)) = {}
    BY <1>2, <1>3, NewTasks
  <2>3. TasksHold' /\ TaskDoomed' \subseteq TaskDoomed \cup Dooms(UpsertTask(u, r))
    BY <1>3, <1>5, <1>6, <2>1, <2>2, TasksAre
  <2> QED
    BY <2>2, <2>3
<1>8. /\ Shapes' /\ Doomed' \subseteq Doomed \cup {} /\ FileGrows
      /\ \A k : Safe(k) /\ (db[k].ver > 0 => db'[k].ver > 0) => Safe(k)'
  BY <1>1, <1>3, <1>4, <1>6, <1>7, CallHolds DEF Contract
<1> QED
  BY <1>1, <1>3, <1>8, NothingDoomed DEF Contract

LEMMA ReplaceOrderKeeps ==
    ASSUME TypeOK, TypeOK', Contract, NEW old \in Uuids, NEW new \in Uuids, ReplaceOrderUuid(old, new)
    PROVE  Contract' /\ StaysKept
<1>0. PICK r : r = [ver |-> mem[old].ver, req |-> FALSE]
  OBVIOUS
<1>1. /\ mem' = [mem EXCEPT ![old] = NoRow, ![new] = r] /\ mem[old].ver > 0
      /\ Spawn(ReplaceTask(old, new, r), RedirectTasks(old, new, r)) /\ queue' = RedirectQueue(old, new, r)
      /\ UNCHANGED <<db, file, qfile, sync, reload, dropped>>
  BY <1>0 DEF ReplaceOrderUuid, Call, hist
<1>2. r \in Row /\ r.ver > 0 /\ mem \in Table /\ old \in Issued
  <2>1. mem[old] \in Row /\ mem \in Table
    BY DEF TypeOK, Table
  <2> QED
    BY <1>0, <1>1, <2>1 DEF Row, Contract, Shapes, MemoryHolds
<1>3. Renames(old, new)
  BY <1>2 DEF ReplaceOrderUuid, Renames
<1>4. /\ LinesHold' /\ RelationsKept /\ Issued' = Issued \cup {new}
      /\ \A k \in Issued : Follows(old, k) => Follows(new, k)'
      /\ Replaces(new, old)'
  BY <1>3, RenamesKeeps DEF Contract, Shapes
<1>5. MemoryHolds'
  <2>1. \A u \in Uuids : mem'[u].ver > 0 => mem[u].ver > 0 \/ u = new
    BY <1>1, <1>2 DEF NoRow, Table
  <2> QED
    BY <1>1, <1>4, <2>1 DEF Contract, Shapes, MemoryHolds
<1>6. PICK sl \in Slots : tasks' = [RedirectTasks(old, new, r) EXCEPT ![sl] = ReplaceTask(old, new, r)]
  BY <1>1 DEF Spawn
<1>7. /\ HandsOn(old, new) /\ \A s \in Slots : TaskLike(RedirectTasks(old, new, r)[s], tasks[s], old, new)
      /\ RedirectTasks(old, new, r) \in [Slots -> Task] /\ QueueLike(old, new)
  <2>1. HandsOn(old, new)
    <3>1. new \in Issued'
      BY <1>4
    <3> QED
      BY <1>4, <3>1 DEF HandsOn
  <2>2. /\ \A s \in Slots : TaskLike(RedirectTasks(old, new, r)[s], tasks[s], old, new)
        /\ RedirectTasks(old, new, r) \in [Slots -> Task] /\ QueueLike(old, new)
    BY <1>1, <1>2, RedirectRefs
  <2> QED
    BY <2>1, <2>2
<1>8. /\ ReplaceTask(old, new, r) \in Task /\ TaskHolds(ReplaceTask(old, new, r))'
      /\ Touches(ReplaceTask(old, new, r)) \subseteq Issued' /\ Dooms(ReplaceTask(old, new, r)) = {}
  <2>1. old \in Issued' /\ new \in Issued' /\ new # old
    BY <1>2, <1>4 DEF ReplaceOrderUuid
  <2> QED
    BY <1>2, <1>4, <2>1, NewReplacement
<1>9. TasksHold' /\ TaskDoomed' \subseteq TaskDoomed \cup {}
  <2>1. TypeOK /\ Shapes /\ Issued \subseteq Issued'
    BY <1>4 DEF Contract
  <2>2. TasksHold' /\ TaskDoomed' \subseteq TaskDoomed \cup Dooms(ReplaceTask(old, new, r))
    BY <1>4, <1>6, <1>7, <1>8, <2>1, TasksAre
  <2> QED
    BY <1>8, <2>2
<1>10. /\ Shapes' /\ Doomed' \subseteq Doomed \cup {} /\ FileGrows
       /\ \A k : Safe(k) /\ (db[k].ver > 0 => db'[k].ver > 0) => Safe(k)'
  BY <1>1, <1>4, <1>5, <1>7, <1>9, CallHolds DEF Contract
<1> QED
  BY <1>1, <1>3, <1>10, Renamed DEF Contract

LEMMA RemoveOrderKeeps ==
    ASSUME TypeOK, TypeOK', Contract, NEW u \in Uuids, RemoveOrder(u)
    PROVE  Contract' /\ StaysKept
<1>1. /\ mem' = [mem EXCEPT ![u] = NoRow] /\ Spawn(DeleteTask(u), DetachTasks({u})) /\ mem[u].ver > 0
      /\ queue' = DetachQueue({u}) /\ claimed' = ClaimsWithout({u})
      /\ UNCHANGED <<db, file, qfile, sync, reload, dropped, anc>>
  BY DEF RemoveOrder, Call, hist
<1>2. mem \in Table /\ u \in Issued
  BY <1>1 DEF TypeOK, Contract, Shapes, MemoryHolds
<1>3. LinesHold' /\ RelationsKept /\ Issued' = Issued
  BY <1>1, GivesUpKeeps DEF Contract, Shapes, GivesUp, ClaimsWithout
<1>4. MemoryHolds'
  <2>1. \A v \in Uuids : mem'[v].ver > 0 => mem[v].ver > 0
    BY <1>1, <1>2 DEF NoRow, Table
  <2> QED
    BY <1>1, <1>3, <2>1 DEF Contract, Shapes, MemoryHolds
<1>5. PICK sl \in Slots : tasks' = [DetachTasks({u}) EXCEPT ![sl] = DeleteTask(u)]
  BY <1>1 DEF Spawn
<1>6. /\ HandsOn(NoUuid, NoUuid) /\ \A s \in Slots : TaskLike(DetachTasks({u})[s], tasks[s], NoUuid, NoUuid)
      /\ DetachTasks({u}) \in [Slots -> Task] /\ QueueLike(NoUuid, NoUuid)
  BY <1>1, DetachRefs, NoRedirect
<1>7. /\ DeleteTask(u) \in Task /\ TaskHolds(DeleteTask(u))'
      /\ Touches(DeleteTask(u)) \subseteq Issued' /\ Dooms(DeleteTask(u)) = {u}
  <2>1. PICK r \in Row : r.ver > 0
    <3>1. [ver |-> 1, req |-> FALSE] \in Row
      BY StoreAssumption DEF Row
    <3> QED
      BY <3>1
  <2> QED
    BY <1>2, <1>3, <2>1, NewTasks
<1>8. TasksHold' /\ TaskDoomed' \subseteq TaskDoomed \cup {u}
  BY <1>3, <1>5, <1>6, <1>7, TasksAre DEF Contract
<1>9. /\ Shapes' /\ Doomed' \subseteq Doomed \cup {u} /\ FileGrows
      /\ \A k : Safe(k) /\ (db[k].ver > 0 => db'[k].ver > 0) => Safe(k)'
  BY <1>1, <1>3, <1>4, <1>6, <1>8, CallHolds DEF Contract
<1>10. {u} \in SUBSET Uuids /\ \A k \in Uuids \ {u} : Safe(k) => Safe(k)'
  BY <1>1, <1>9
<1> QED
  BY <1>1, <1>9, <1>10, Discarded DEF Contract

\* Every task is what it was, but for its references.
LEMMA TasksLike ==
    ASSUME TypeOK, Shapes, NEW u, NEW v, HandsOn(u, v), RelationsKept, Issued \subseteq Issued',
           tasks' \in [Slots -> Task], \A s \in Slots : TaskLike(tasks'[s], tasks[s], u, v)
    PROVE  TasksHold' /\ TaskDoomed' \subseteq TaskDoomed
<1>1. ASSUME NEW s \in Slots PROVE (TaskHolds(tasks[s]) /\ Touches(tasks[s]) \subseteq Issued)'
  <2>1. PICK a \in Task, b \in Task : a = tasks[s] /\ b = tasks'[s]
    BY DEF TypeOK
  <2>2. TaskHolds(b)' /\ Touches(b) \subseteq Issued'
    BY <2>1, TaskLikeHolds DEF Shapes, TasksHold
  <2>3. TaskHolds(tasks[s])'
    BY <2>1, <2>2 DEF TaskHolds, Follows, Replaces
  <2> QED
    BY <2>1, <2>2, <2>3 DEF Touches
<1>2. \A s \in Slots : tasks'[s].phase = tasks[s].phase /\ tasks'[s].old = tasks[s].old
  BY DEF TaskLike
<1> QED
  BY <1>1, <1>2 DEF TasksHold, TaskDoomed

LEMMA ClearUserOrdersKeeps ==
    ASSUME TypeOK, TypeOK', Contract, NEW user \in Users, NEW ok \in BOOLEAN, ClearUserOrders(user, ok)
    PROVE  Contract' /\ StaysKept
<1> DEFINE us == {u \in Uuids : Owner[u] = user}
           Clear(t) == [u \in Uuids |-> IF u \in us THEN NoRow ELSE t[u]]
<1>1. /\ mem' = Clear(mem) /\ db' = (IF ok THEN Clear(db) ELSE db)
      /\ tasks' = DetachTasks(us) /\ queue' = DetachQueue(us) /\ claimed' = ClaimsWithout(us)
      /\ UNCHANGED <<file, qfile, sync, reload, dropped, anc>>
  BY DEF ClearUserOrders, Call, hist
<1>2. us \in SUBSET Uuids
  OBVIOUS
<1>3. LinesHold' /\ RelationsKept /\ Issued' = Issued
  BY <1>1, GivesUpKeeps DEF Contract, Shapes, GivesUp, ClaimsWithout
<1>4. /\ \A u \in Uuids : (mem'[u].ver > 0 => mem[u].ver > 0) /\ (db'[u].ver > 0 => db[u].ver > 0)
      /\ \A u \in Uuids \ us : db'[u] = db[u]
  BY <1>1 DEF NoRow
<1> HIDE DEF us
<1>5. MemoryHolds'
  BY <1>1, <1>3, <1>4 DEF Contract, Shapes, MemoryHolds
<1>6. /\ HandsOn(NoUuid, NoUuid) /\ \A s \in Slots : TaskLike(tasks'[s], tasks[s], NoUuid, NoUuid)
      /\ tasks' \in [Slots -> Task] /\ QueueLike(NoUuid, NoUuid)
  BY <1>1, <1>2, DetachRefs, NoRedirect
<1>7. TasksHold' /\ TaskDoomed' \subseteq TaskDoomed \cup {}
  BY <1>3, <1>6, TasksLike DEF Contract
<1>8. /\ Shapes' /\ Doomed' \subseteq Doomed \cup {} /\ FileGrows
      /\ \A k : Safe(k) /\ (db[k].ver > 0 => db'[k].ver > 0) => Safe(k)'
  BY <1>1, <1>3, <1>5, <1>6, <1>7, CallHolds DEF Contract
<1>9. Doomed' \subseteq Doomed \cup us /\ \A k \in Uuids \ us : Safe(k) => Safe(k)'
  BY <1>4, <1>8
<1> QED
  BY <1>1, <1>2, <1>8, <1>9, Discarded DEF Contract

(***************************************************************************)
(* The manager's writes, reloads, and steps that touch no write.           *)
(***************************************************************************)
LEMMA ReferencesHold ==
    ASSUME TypeOK, TypeOK', Shapes, NEW u, NEW v, HandsOn(u, v), RelationsKept, Issued \subseteq Issued',
           LinesHold', MemoryHolds', QueueLike(u, v), UNCHANGED <<qfile, sync>>,
           \A s \in Slots : TaskLike(tasks'[s], tasks[s], u, v)
    PROVE  /\ Shapes' /\ Doomed' \subseteq Doomed /\ FileGrows
           /\ \A k : Safe(k) /\ (db[k].ver > 0 => db'[k].ver > 0) => Safe(k)'
<1>1. tasks' \in [Slots -> Task]
  BY DEF TypeOK
<1>2. TasksHold' /\ TaskDoomed' \subseteq TaskDoomed \cup {}
  BY <1>1, TasksLike
<1>3. /\ Shapes' /\ Doomed' \subseteq Doomed \cup {} /\ FileGrows
      /\ \A k : Safe(k) /\ (db[k].ver > 0 => db'[k].ver > 0) => Safe(k)'
  BY <1>2, CallHolds
<1> QED
  BY <1>3

LEMMA QuietHolds ==
    ASSUME TypeOK, TypeOK', Shapes, RelationsKept, Issued \subseteq Issued',
           LinesHold', MemoryHolds', UNCHANGED <<tasks, queue, qfile, sync>>
    PROVE  /\ Shapes' /\ Doomed' \subseteq Doomed /\ FileGrows
           /\ \A k : Safe(k) /\ (db[k].ver > 0 => db'[k].ver > 0) => Safe(k)'
<1>1. /\ HandsOn(NoUuid, NoUuid) /\ QueueLike(NoUuid, NoUuid)
      /\ \A s \in Slots : TaskLike(tasks'[s], tasks[s], NoUuid, NoUuid)
  BY NoRedirect
<1> QED
  BY <1>1, ReferencesHold

LEMMA ManagerReserveKeeps ==
    ASSUME TypeOK, TypeOK', Contract, NEW u \in Uuids, ManagerReserve(u)
    PROVE  Contract' /\ StaysKept
<1>1. /\ db' = Set(db, u, [ver |-> 1, req |-> FALSE]) /\ Claims(u)
      /\ UNCHANGED <<mem, file, tasks, queue, qfile, sync, reload, dropped>>
  BY DEF ManagerReserve, Claims, ManagerCall
<1>2. LinesHold' /\ RelationsKept /\ Issued' = Issued \cup {u}
  BY <1>1, ClaimsKeeps DEF Contract, Shapes
<1>3. \A k \in Uuids : /\ db'[k].ver > 0 => db[k].ver > 0 \/ k = u
                       /\ db[k].ver > 0 => db'[k].ver > 0
  BY <1>1 DEF Set, TypeOK, Table
<1>4. MemoryHolds'
  BY <1>1, <1>2, <1>3 DEF Contract, Shapes, MemoryHolds
<1>5. /\ Shapes' /\ Doomed' \subseteq Doomed /\ FileGrows
      /\ \A k : Safe(k) /\ (db[k].ver > 0 => db'[k].ver > 0) => Safe(k)'
  BY <1>1, <1>2, <1>4, QuietHolds DEF Contract
<1>6. \A k \in Uuids : Safe(k) => Safe(k)'
  BY <1>3, <1>5
<1> QED
  BY <1>1, <1>5, <1>6, NewClaim DEF Contract

LEMMA ManagerRequestCancelKeeps ==
    ASSUME TypeOK, TypeOK', Contract, NEW u \in Uuids, ManagerRequestCancel(u)
    PROVE  Contract' /\ StaysKept
<1>1. /\ db' = [db EXCEPT ![u].req = TRUE]
      /\ UNCHANGED <<mem, file, tasks, queue, qfile, sync, reload, dropped, anc, claimed>>
  BY DEF ManagerRequestCancel, ManagerCall
<1>2. LinesHold' /\ RelationsKept /\ Issued' = Issued /\ GivesUp
  BY <1>1, GivesUpKeeps DEF Contract, Shapes, GivesUp
<1>3. \A k \in Uuids : db'[k].ver = db[k].ver
  BY <1>1 DEF TypeOK, Table, Row
<1>4. MemoryHolds'
  BY <1>1, <1>2, <1>3 DEF Contract, Shapes, MemoryHolds
<1>5. /\ Shapes' /\ Doomed' \subseteq Doomed /\ FileGrows
      /\ \A k : Safe(k) /\ (db[k].ver > 0 => db'[k].ver > 0) => Safe(k)'
  BY <1>1, <1>2, <1>4, QuietHolds DEF Contract
<1>6. \A v \in claimed' : \A w \in anc[v] : Safe(w) => Safe(w)'
  BY <1>1, <1>3, <1>5 DEF TypeOK
<1> QED
  BY <1>1, <1>2, <1>5, <1>6, NothingDoomed DEF Contract

LEMMA ManagerDeleteKeeps ==
    ASSUME TypeOK, TypeOK', Contract, NEW u \in Uuids, ManagerDelete(u)
    PROVE  Contract' /\ StaysKept
<1>1. /\ db' = Set(db, u, NoRow) /\ claimed' = ClaimsWithout({u})
      /\ UNCHANGED <<mem, file, tasks, queue, qfile, sync, reload, dropped, anc>>
  BY DEF ManagerDelete, ManagerCall
<1>2. LinesHold' /\ RelationsKept /\ Issued' = Issued
  BY <1>1, GivesUpKeeps DEF Contract, Shapes, GivesUp, ClaimsWithout
<1>3. /\ \A k \in Uuids : db'[k].ver > 0 => db[k].ver > 0
      /\ \A k \in Uuids \ {u} : db'[k] = db[k]
  BY <1>1 DEF Set, NoRow, TypeOK, Table
<1>4. MemoryHolds'
  BY <1>1, <1>2, <1>3 DEF Contract, Shapes, MemoryHolds
<1>5. /\ Shapes' /\ Doomed' \subseteq Doomed /\ FileGrows
      /\ \A k : Safe(k) /\ (db[k].ver > 0 => db'[k].ver > 0) => Safe(k)'
  BY <1>1, <1>2, <1>4, QuietHolds DEF Contract
<1>6. {u} \in SUBSET Uuids /\ \A k \in Uuids \ {u} : Safe(k) => Safe(k)'
  BY <1>3, <1>5
<1> QED
  BY <1>1, <1>5, <1>6, Discarded DEF Contract

\* The memory is read from the table or from the file; the table stays.
LEMMA TableSame ==
    ASSUME TypeOK, TypeOK', Contract, UNCHANGED <<db, file, qfile, sync, anc, claimed, dropped>>,
           \A u \in Uuids : mem'[u].ver > 0 => u \in Issued,
           \A r \in Reloaders : \A u \in Uuids : reload'[r].rows[u].ver > 0 => u \in Issued,
           \A s \in Slots : TaskLike(tasks'[s], tasks[s], NoUuid, NoUuid), QueueLike(NoUuid, NoUuid)
    PROVE  Contract' /\ StaysKept
<1>1. LinesHold' /\ RelationsKept /\ Issued' = Issued /\ GivesUp
  BY GivesUpKeeps DEF Contract, Shapes, GivesUp
<1>2. MemoryHolds'
  BY <1>1 DEF Contract, Shapes, MemoryHolds
<1>3. /\ Shapes' /\ Doomed' \subseteq Doomed /\ FileGrows
      /\ \A k : Safe(k) /\ (db[k].ver > 0 => db'[k].ver > 0) => Safe(k)'
  BY <1>1, <1>2, NoRedirect, ReferencesHold DEF Contract
<1> QED
  BY <1>1, <1>3, NothingDoomed DEF Contract

\* What the memory and the reloads hold, and whose names those are.
LEMMA RowsIssued ==
    ASSUME TypeOK, Contract
    PROVE  /\ \A u \in Uuids : mem[u].ver > 0 \/ db[u].ver > 0 \/ file[u].ver > 0 => u \in Issued
           /\ \A q \in Reloaders : \A u \in Uuids : reload[q].rows[u].ver > 0 => u \in Issued
           /\ \A u \in Uuids : ~(NoReload.rows[u].ver > 0)
           /\ reload \in [Reloaders -> Reload]
BY DEF Contract, Shapes, MemoryHolds, TypeOK, NoReload, Empty, NoRow

LEMMA ReloadKeeps ==
    ASSUME TypeOK, TypeOK', Contract, NEW r \in Reloaders, ReloadStep(r)
    PROVE  Contract' /\ StaysKept
<1>0. /\ \A u \in Uuids : mem[u].ver > 0 \/ db[u].ver > 0 \/ file[u].ver > 0 => u \in Issued
      /\ \A q \in Reloaders : \A u \in Uuids : reload[q].rows[u].ver > 0 => u \in Issued
      /\ \A u \in Uuids : ~(NoReload.rows[u].ver > 0)
      /\ reload \in [Reloaders -> Reload] /\ reload[r] \in Reload
  BY RowsIssued
<1>1. CASE StartFlush(r) \/ TakeLock(r) \/ Fetch(r) \/ FetchFails(r)
  <2>1. UNCHANGED <<mem, tasks, queue, db, file, qfile, sync, anc, claimed, dropped>>
    BY <1>1 DEF StartFlush, TakeLock, Fetch, FetchFails, ReloadUnchanged
  <2>2. \A q \in Reloaders : q # r => reload'[q] = reload[q]
    BY <1>0, <1>1 DEF StartFlush, TakeLock, Fetch, FetchFails
  <2>3. reload'[r].rows \in {reload[r].rows, NoReload.rows, db}
    <3>1. CASE StartFlush(r)
      BY <1>0, <3>1 DEF StartFlush, NoReload
    <3>2. CASE TakeLock(r)
      BY <1>0, <3>2 DEF TakeLock, Reload
    <3>3. CASE Fetch(r)
      BY <1>0, <3>3 DEF Fetch, Reload
    <3>4. CASE FetchFails(r)
      BY <1>0, <3>4 DEF FetchFails
    <3> QED
      BY <1>1, <3>1, <3>2, <3>3, <3>4
  <2>4. \A q \in Reloaders : \A u \in Uuids : reload'[q].rows[u].ver > 0 => u \in Issued
    BY <1>0, <2>2, <2>3
  <2>5. /\ \A s \in Slots : TaskLike(tasks'[s], tasks[s], NoUuid, NoUuid)
        /\ QueueLike(NoUuid, NoUuid)
    BY <2>1, NoRedirect
  <2> QED
    BY <1>0, <2>1, <2>4, <2>5, TableSame
<1>2. CASE FinishReload(r)
  <2>1. /\ UNCHANGED <<db, file, qfile, sync, anc, claimed, dropped>>
        /\ mem' = reload[r].rows /\ tasks' = DetachTasks(Uuids) /\ queue' = DetachQueue(Uuids)
        /\ reload' = [reload EXCEPT ![r] = NoReload]
    BY <1>2 DEF FinishReload, ReloadUnchanged
  <2>2. \A q \in Reloaders : \A u \in Uuids : reload'[q].rows[u].ver > 0 => u \in Issued
    BY <1>0, <2>1
  <2>3. /\ \A s \in Slots : TaskLike(tasks'[s], tasks[s], NoUuid, NoUuid)
        /\ QueueLike(NoUuid, NoUuid)
    BY <2>1, DetachRefs
  <2> QED
    BY <1>0, <2>1, <2>2, <2>3, TableSame
<1> QED
  BY <1>1, <1>2 DEF ReloadStep

LEMMA ReloadNowKeeps ==
    ASSUME TypeOK, TypeOK', Contract, ReloadNow
    PROVE  Contract' /\ StaysKept
<1>1. /\ UNCHANGED <<db, file, qfile, sync, anc, claimed, dropped, reload>>
      /\ mem' = db /\ tasks' = DetachTasks(Uuids) /\ queue' = DetachQueue(Uuids)
  BY DEF ReloadNow, ReloadUnchanged
<1>2. /\ \A s \in Slots : TaskLike(tasks'[s], tasks[s], NoUuid, NoUuid)
      /\ QueueLike(NoUuid, NoUuid)
  BY <1>1, DetachRefs
<1> QED
  BY <1>1, <1>2, RowsIssued, TableSame

LEMMA BootKeeps ==
    ASSUME TypeOK, TypeOK', Contract, NEW fromDb \in BOOLEAN, Boot(fromDb)
    PROVE  Contract' /\ StaysKept
<1>1. /\ UNCHANGED <<db, file, qfile, sync, anc, claimed, dropped, reload, tasks, queue>>
      /\ mem' = db \/ mem' = file
  BY DEF Boot
<1>2. /\ \A s \in Slots : TaskLike(tasks'[s], tasks[s], NoUuid, NoUuid)
      /\ QueueLike(NoUuid, NoUuid)
  BY <1>1, NoRedirect
<1> QED
  BY <1>1, <1>2, RowsIssued, TableSame

(***************************************************************************)
(* The steps of a background write.                                        *)
(***************************************************************************)
\* x is on its way out once the order p that replaces it is safe.
LEMMA HandsOver ==
    ASSUME TypeOK, Shapes, NEW v \in claimed, LaterIsSafe(v), NEW x \in Uuids, NEW p \in Uuids, p # x,
           Replaces(p, x), Safe(p)', Doomed' \subseteq Doomed \cup {x},
           \A w \in anc[v] \ Doomed : Safe(w) => Safe(w)'
    PROVE  Fares(v)
<1>1. v \in Uuids /\ anc[v] \subseteq Uuids /\ \A w \in anc[v] : w \in anc[w]
  BY DEF TypeOK, Shapes, LinesHold
<1>2. ASSUME x \in anc[v] PROVE SafeAfter(v, x)
  <2>1. p \in anc[v] /\ x \in anc[p]
    BY <1>2 DEF Replaces
  <2>2. CASE p \notin Doomed
    BY <2>1, <2>2 DEF SafeAfter
  <2>3. CASE p \in Doomed
    <3>1. PICK w \in anc[v] \ Doomed : p \in anc[w] /\ Safe(w)
      BY <2>1, <2>3 DEF LaterIsSafe
    <3>2. w \in Uuids /\ x \in anc[w]
      BY <1>1, <2>1, <3>1 DEF Shapes, LinesHold
    <3>3. w # x
      BY <2>1, <3>1 DEF Shapes, LinesHold
    <3> QED
      BY <3>1, <3>2, <3>3 DEF SafeAfter
  <2> QED
    BY <2>2, <2>3
<1>3. \A w \in anc[v] \ Doomed : Safe(w) => SafeAfter(v, w)
  BY <1>1, <1>2 DEF SafeAfter
<1>4. \A d \in Doomed' \cap anc[v] : d \in Doomed \/ SafeAfter(v, d)
  BY <1>2
<1> QED
  BY <1>3, <1>4 DEF Fares

LEMMA LinesSame ==
    ASSUME UNCHANGED <<anc, claimed>>
    PROVE  /\ GivesUp /\ Issued' = Issued
           /\ \A u, k : /\ Follows(u, k)' <=> Follows(u, k)
                        /\ Replaces(u, k)' <=> Replaces(u, k)
           /\ \A t : TaskHolds(t)' <=> TaskHolds(t)
           /\ \A e : EntryHolds(e)' <=> EntryHolds(e)
<1>1. GivesUp /\ Issued' = Issued
  BY DEF GivesUp, Issued
<1>2. \A u, k : (Follows(u, k)' <=> Follows(u, k)) /\ (Replaces(u, k)' <=> Replaces(u, k))
  BY DEF Follows, Replaces
<1>3. \A t : TaskHolds(t)' <=> TaskHolds(t)
  BY DEF TaskHolds, Follows, Replaces
<1>4. \A e : EntryHolds(e)' <=> EntryHolds(e)
  BY DEF EntryHolds, Follows
<1> QED
  BY <1>1, <1>2, <1>3, <1>4

\* The write in slot s becomes t.
LEMMA TaskChanges ==
    ASSUME TypeOK, TypeOK', Contract, NEW s \in Slots, NEW t \in Task, tasks' = [tasks EXCEPT ![s] = t],
           TaskHolds(t), Touches(t) \subseteq Issued, UNCHANGED <<anc, claimed, mem>>, file' \in {file, mem},
           \A u \in Uuids : db'[u].ver > 0 => u \in Issued,
           \A r \in Reloaders : reload'[r].rows = reload[r].rows
    PROVE  /\ LinesHold' /\ MemoryHolds' /\ TasksHold' /\ TaskDoomed' \subseteq TaskDoomed \cup Dooms(t)
           /\ GivesUp /\ RelationsKept /\ Issued' = Issued
<1>1. LinesHold' /\ RelationsKept /\ Issued' = Issued /\ GivesUp
  BY GivesUpKeeps DEF Contract, Shapes, GivesUp
<1>2. MemoryHolds'
  BY <1>1 DEF Contract, Shapes, MemoryHolds
<1>3. TaskHolds(t)' /\ tasks \in [Slots -> Task]
  BY LinesSame DEF TypeOK
<1>4. TasksHold' /\ TaskDoomed' \subseteq TaskDoomed \cup Dooms(t)
  BY <1>1, <1>3, NoRedirect, TasksAre DEF Contract
<1> QED
  BY <1>1, <1>2, <1>4

LEMMA RequestHolds ==
    ASSUME TypeOK, TypeOK', Contract, NEW s \in Slots, NEW t \in Task, tasks' = [tasks EXCEPT ![s] = t],
           TaskHolds(t), Touches(t) \subseteq Issued, UNCHANGED <<anc, claimed, mem, queue, qfile, sync>>,
           file' \in {file, mem},
           \A u \in Uuids : db'[u].ver > 0 => u \in Issued,
           \A r \in Reloaders : reload'[r].rows = reload[r].rows
    PROVE  /\ Shapes' /\ GivesUp /\ FileGrows /\ Doomed' \subseteq Doomed \cup Dooms(t)
           /\ \A k : Safe(k) /\ (db[k].ver > 0 => db'[k].ver > 0) => Safe(k)'
<1>1. /\ LinesHold' /\ MemoryHolds' /\ TasksHold' /\ TaskDoomed' \subseteq TaskDoomed \cup Dooms(t)
      /\ GivesUp /\ RelationsKept /\ Issued' = Issued
  BY TaskChanges
<1>2. HandsOn(NoUuid, NoUuid) /\ QueueLike(NoUuid, NoUuid)
  BY NoRedirect
<1>3. /\ Shapes' /\ Doomed' \subseteq Doomed \cup Dooms(t) /\ FileGrows
      /\ \A k : Safe(k) /\ (db[k].ver > 0 => db'[k].ver > 0) => Safe(k)'
  BY <1>1, <1>2, CallHolds DEF Contract
<1> QED
  BY <1>1, <1>3

\* The row of p is written, or that of k is deleted.
LEMMA Written ==
    ASSUME TypeOK, NEW p \in Uuids, NEW r \in Row, r.ver > 0
    PROVE  /\ \A k \in Uuids : db[k].ver > 0 => Set(db, p, r)[k].ver > 0
           /\ \A k \in Uuids : Set(db, p, r)[k].ver > 0 => db[k].ver > 0 \/ k = p
           /\ Set(db, p, r)[p].ver > 0
BY DEF Set, TypeOK, Table

LEMMA Deleted ==
    ASSUME TypeOK, NEW x \in Uuids
    PROVE  /\ \A k \in Uuids : k # x /\ db[k].ver > 0 => Set(db, x, NoRow)[k].ver > 0
           /\ \A k \in Uuids : Set(db, x, NoRow)[k].ver > 0 => db[k].ver > 0
BY DEF Set, TypeOK, Table, NoRow

LEMMA FinishEffect ==
    ASSUME TypeOK, NEW s \in Slots, Finish(s)
    PROVE  /\ tasks' = [tasks EXCEPT ![s] = NoTask]
           /\ \A r \in Reloaders : reload'[r].rows = reload[r].rows
           /\ NoTask \in Task /\ TaskHolds(NoTask) /\ Touches(NoTask) = {} /\ Dooms(NoTask) = {}
<1>1. tasks' = [tasks EXCEPT ![s] = NoTask] /\ \A r \in Reloaders : reload'[r].rows = reload[r].rows
  BY DEF Finish, TypeOK, Reload
<1>2. NoTask.phase = "free" /\ NoTask.uuid = NoUuid /\ NoTask.old = NoUuid /\ NoTask.payUuid = NoUuid
  BY DEF NoTask
<1>3. TaskHolds(NoTask) /\ Touches(NoTask) = {} /\ Dooms(NoTask) = {}
  BY <1>2 DEF TaskHolds, Touches, Dooms
<1> QED
  BY <1>1, <1>3, NoValuesType

LEMMA SlotTask ==
    ASSUME TypeOK, Contract, NEW s \in Slots
    PROVE  /\ tasks[s] \in Task /\ TaskHolds(tasks[s]) /\ Touches(tasks[s]) \subseteq Issued /\ Issued \subseteq Uuids
           /\ tasks[s].phase \in {"delete", "enqDelete"} =>
                tasks[s].old \in Doomed /\ tasks[s].old \in Uuids /\ tasks[s].old # NoUuid
           /\ tasks[s].uuid \in Issued \cup {NoUuid} /\ tasks[s].old \in Issued \cup {NoUuid}
           /\ tasks[s].payUuid \in Issued \cup {NoUuid}
<1>1. tasks[s] \in Task /\ TaskHolds(tasks[s]) /\ Touches(tasks[s]) \subseteq Issued /\ Issued \subseteq Uuids
  BY DEF TypeOK, Contract, Shapes, TasksHold, Issued
<1>2. tasks[s].phase \in {"delete", "enqDelete"} => tasks[s].old \in Uuids /\ tasks[s].old # NoUuid
  BY <1>1 DEF Task, Write, Named
<1> QED
  BY <1>1, <1>2 DEF Touches, Doomed

LEMMA SendUpsertKeeps ==
    ASSUME TypeOK, TypeOK', Contract, NEW s \in Slots, SendUpsert(s)
    PROVE  Contract' /\ StaysKept
<1> DEFINE t == [tasks[s] EXCEPT !.phase = "sent", !.payUuid = tasks[s].uuid, !.pay = tasks[s].row]
<1>1. /\ tasks[s].phase = "new"
      /\ tasks' = [tasks EXCEPT ![s].phase = "sent", ![s].payUuid = tasks[s].uuid, ![s].pay = tasks[s].row]
      /\ UNCHANGED <<mem, db, file, queue, qfile, sync, reload, anc, claimed, dropped>>
  BY DEF SendUpsert, hist
<1>2. tasks[s] \in Task /\ tasks[s].uuid \in Named /\ tasks[s].row \in Row /\ tasks \in [Slots -> Task]
  BY DEF TypeOK, Task, Write
<1>3. tasks' = [tasks EXCEPT ![s] = t]
  BY <1>1, <1>2 DEF Task, Write
<1>4. /\ t.phase = "sent" /\ t.uuid = tasks[s].uuid /\ t.row = tasks[s].row /\ t.live = tasks[s].live
      /\ t.old = tasks[s].old /\ t.payUuid = tasks[s].uuid /\ t.pay = tasks[s].row
  BY <1>2 DEF Task, Write
<1>5. t \in Task
  BY <1>1, <1>2 DEF Task, Write
<1> HIDE DEF t
<1>6. TaskHolds(t) /\ Touches(t) \subseteq Issued /\ Dooms(t) = {}
  BY <1>1, <1>4, SlotTask DEF TaskHolds, Touches, Dooms
<1>7. \A u \in Uuids : db'[u].ver > 0 => u \in Issued
  BY <1>1 DEF Contract, Shapes, MemoryHolds
<1>8. /\ Shapes' /\ GivesUp /\ FileGrows /\ Doomed' \subseteq Doomed \cup Dooms(t)
      /\ \A k : Safe(k) /\ (db[k].ver > 0 => db'[k].ver > 0) => Safe(k)'
  BY <1>1, <1>3, <1>5, <1>6, <1>7, RequestHolds
<1> QED
  BY <1>1, <1>6, <1>8, NothingDoomed DEF Contract

LEMMA UpsertAnsweredKeeps ==
    ASSUME TypeOK, TypeOK', Contract, NEW s \in Slots, UpsertAnswered(s)
    PROVE  Contract' /\ StaysKept
<1>1. /\ tasks[s].phase = "sent" /\ db' = Set(db, tasks[s].payUuid, tasks[s].pay)
      /\ UNCHANGED <<mem, file, queue, qfile, sync, anc, claimed, dropped>>
  BY DEF UpsertAnswered, hist
<1>2. PICK t0, p, x : t0 = tasks[s] /\ p = tasks[s].payUuid /\ x = tasks[s].old
  OBVIOUS
<1>3. /\ t0 \in Task /\ TaskHolds(t0) /\ Touches(t0) \subseteq Issued /\ Issued \subseteq Uuids
      /\ t0.phase = "sent" /\ t0.payUuid = p /\ t0.old = x /\ p \in Issued /\ p \in Uuids /\ t0.pay \in Row /\ t0.pay.ver > 0
      /\ x \in Issued \cup {NoUuid}
  BY <1>1, <1>2, SlotTask DEF Task, Write, TaskHolds
<1>4. /\ \A k \in Uuids : db[k].ver > 0 => db'[k].ver > 0
      /\ \A k \in Uuids : db'[k].ver > 0 => k \in Issued
      /\ db'[p].ver > 0
  <2>1. db' = Set(db, p, t0.pay)
    BY <1>1, <1>2
  <2> QED
    BY <1>3, <2>1, Written DEF Contract, Shapes, MemoryHolds
<1>5. CASE x = NoUuid
  <2>1. Finish(s)
    BY <1>2, <1>5 DEF UpsertAnswered
  <2>2. /\ Shapes' /\ GivesUp /\ FileGrows /\ Doomed' \subseteq Doomed \cup Dooms(NoTask)
        /\ \A k : Safe(k) /\ (db[k].ver > 0 => db'[k].ver > 0) => Safe(k)'
    BY <1>1, <1>4, <2>1, FinishEffect, RequestHolds
  <2>3. Dooms(NoTask) = {} /\ \A v \in claimed' : \A w \in anc[v] : Safe(w) => Safe(w)'
    BY <1>1, <1>4, <2>1, <2>2, FinishEffect DEF TypeOK
  <2> QED
    BY <1>1, <2>2, <2>3, NothingDoomed DEF Contract
<1>6. CASE x # NoUuid
  <2> DEFINE t == [t0 EXCEPT !.phase = "delete", !.payUuid = p]
  <2>1. tasks' = [tasks EXCEPT ![s].phase = "delete"] /\ reload' = reload
    BY <1>2, <1>6 DEF UpsertAnswered
  <2>2. tasks' = [tasks EXCEPT ![s] = t]
    <3>1. tasks \in [Slots -> Task] /\ t = [t0 EXCEPT !.phase = "delete"]
      BY <1>3 DEF TypeOK, Task, Write
    <3> QED
      BY <1>2, <2>1, <3>1
  <2>3. /\ t \in Task /\ t.phase = "delete" /\ t.uuid = t0.uuid /\ t.row = t0.row /\ t.live = t0.live
        /\ t.old = t0.old /\ t.payUuid = p /\ t.pay = t0.pay
    BY <1>3, <1>6 DEF Task, Write
  <2> HIDE DEF t
  <2>4. TaskHolds(t) /\ Touches(t) \subseteq Issued /\ Dooms(t) \subseteq {x}
    BY <1>3, <2>3 DEF TaskHolds, Touches, Dooms
  <2>5. /\ Shapes' /\ GivesUp /\ FileGrows /\ Doomed' \subseteq Doomed \cup Dooms(t)
        /\ \A k : Safe(k) /\ (db[k].ver > 0 => db'[k].ver > 0) => Safe(k)'
    BY <1>1, <1>4, <2>1, <2>2, <2>3, <2>4, RequestHolds
  <2>6. Replaces(p, x) /\ p # x /\ Safe(p)' /\ x \in Uuids
    BY <1>3, <1>4, <1>6 DEF TaskHolds, Safe
  <2>7. ASSUME NEW v \in claimed', anc[v] \cap dropped' = {} PROVE Fares(v)
    <3>1. v \in claimed /\ LaterIsSafe(v) /\ \A w \in anc[v] : Safe(w) => Safe(w)'
      BY <1>1, <1>4, <2>5, <2>7 DEF Contract, ClaimsHold, TypeOK
    <3> QED
      BY <1>3, <2>4, <2>5, <2>6, <3>1, HandsOver DEF Contract
  <2> QED
    BY <1>1, <2>5, <2>7, ClaimsKept DEF Contract
<1> QED
  BY <1>5, <1>6

LEMMA FailEffect ==
    ASSUME TypeOK, NEW s \in Slots, NEW phase \in {"enqUpsert", "enqDelete"}, Fail(s, phase),
           phase = "enqUpsert" => tasks[s].uuid # NoUuid, phase # "enqUpsert" => tasks[s].old # NoUuid
    PROVE  /\ file' = mem /\ reload' = reload
           /\ \E t \in Task : /\ tasks' = [tasks EXCEPT ![s] = t] /\ t.phase = phase /\ t.payUuid = tasks[s].uuid
                              /\ t.uuid = tasks[s].uuid /\ t.row = tasks[s].row /\ t.live = tasks[s].live
                              /\ t.old = tasks[s].old
<1> DEFINE t == [tasks[s] EXCEPT !.phase = phase, !.payUuid = tasks[s].uuid]
<1>1. /\ file' = mem /\ reload' = reload
      /\ tasks' = [tasks EXCEPT ![s].phase = phase, ![s].payUuid = tasks[s].uuid]
  BY DEF Fail
<1>2. tasks[s] \in Task /\ tasks \in [Slots -> Task]
  BY DEF TypeOK
<1>3. tasks' = [tasks EXCEPT ![s] = t]
  BY <1>1, <1>2 DEF Task, Write
<1>4. /\ t \in Task /\ t.phase = phase /\ t.uuid = tasks[s].uuid /\ t.row = tasks[s].row /\ t.live = tasks[s].live
      /\ t.old = tasks[s].old /\ t.payUuid = tasks[s].uuid /\ t.pay = tasks[s].pay
  BY <1>2 DEF Task, Write
<1> HIDE DEF t
<1> QED
  BY <1>1, <1>3, <1>4

LEMMA UpsertFailsKeeps ==
    ASSUME TypeOK, TypeOK', Contract, NEW s \in Slots, NEW applied \in BOOLEAN, UpsertFails(s, applied)
    PROVE  Contract' /\ StaysKept
<1>1. /\ tasks[s].phase = "sent" /\ Fail(s, "enqUpsert")
      /\ db' = IF applied THEN Set(db, tasks[s].payUuid, tasks[s].pay) ELSE db
      /\ UNCHANGED <<mem, queue, qfile, sync, anc, claimed, dropped>>
  BY DEF UpsertFails
<1>2. PICK t0, p : t0 = tasks[s] /\ p = tasks[s].payUuid
  OBVIOUS
<1>3. /\ t0 \in Task /\ TaskHolds(t0) /\ Touches(t0) \subseteq Issued /\ Issued \subseteq Uuids
      /\ t0.phase = "sent" /\ t0.payUuid = p /\ p \in Issued /\ p \in Uuids /\ t0.pay \in Row /\ t0.pay.ver > 0
      /\ t0.uuid # NoUuid
  BY <1>1, <1>2, SlotTask DEF Task, Write, TaskHolds
<1>4. /\ \A k \in Uuids : db[k].ver > 0 => db'[k].ver > 0
      /\ \A k \in Uuids : db'[k].ver > 0 => k \in Issued
  <2>1. db' = Set(db, p, t0.pay) \/ db' = db
    BY <1>1, <1>2
  <2> QED
    BY <1>3, <2>1, Written DEF Contract, Shapes, MemoryHolds
<1>5. PICK t \in Task : /\ tasks' = [tasks EXCEPT ![s] = t] /\ t.phase = "enqUpsert" /\ t.payUuid = t0.uuid
                        /\ t.uuid = t0.uuid /\ t.row = t0.row /\ t.live = t0.live /\ t.old = t0.old
                        /\ file' = mem /\ reload' = reload
  BY <1>1, <1>2, <1>3, FailEffect
<1>6. Follows(t0.uuid, t0.uuid)
  BY DEF Contract, Shapes, LinesHold, Follows, TypeOK
<1>7. TaskHolds(t) /\ Touches(t) \subseteq Issued /\ Dooms(t) = {}
  <2>1. Dooms(t) = {}
    BY <1>5 DEF Dooms
  <2>2. Touches(t) \subseteq Touches(t0)
    BY <1>5 DEF Touches
  <2>3. TaskHolds(t)
    BY <1>3, <1>5, <1>6 DEF TaskHolds
  <2> QED
    BY <1>3, <2>1, <2>2, <2>3
<1>8. /\ Shapes' /\ GivesUp /\ FileGrows /\ Doomed' \subseteq Doomed \cup Dooms(t)
      /\ \A k : Safe(k) /\ (db[k].ver > 0 => db'[k].ver > 0) => Safe(k)'
  BY <1>1, <1>4, <1>5, <1>7, RequestHolds
<1>9. \A v \in claimed' : \A w \in anc[v] : Safe(w) => Safe(w)'
  BY <1>1, <1>4, <1>8 DEF TypeOK
<1> QED
  BY <1>1, <1>7, <1>8, <1>9, NothingDoomed DEF Contract

LEMMA DeleteAnsweredKeeps ==
    ASSUME TypeOK, TypeOK', Contract, NEW s \in Slots, DeleteAnswered(s)
    PROVE  Contract' /\ StaysKept
<1>1. /\ tasks[s].phase = "delete" /\ db' = Set(db, tasks[s].old, NoRow) /\ Finish(s)
      /\ UNCHANGED <<mem, file, queue, qfile, sync, anc, claimed, dropped>>
  BY DEF DeleteAnswered, hist
<1>2. tasks[s].old \in Doomed /\ tasks[s].old \in Uuids
  BY <1>1, SlotTask
<1>3. /\ \A k \in Uuids \ Doomed : db[k].ver > 0 => db'[k].ver > 0
      /\ \A k \in Uuids : db'[k].ver > 0 => k \in Issued
  <2>1. /\ \A k \in Uuids : k # tasks[s].old /\ db[k].ver > 0 => db'[k].ver > 0
        /\ \A k \in Uuids : db'[k].ver > 0 => db[k].ver > 0
    BY <1>1, <1>2, Deleted
  <2> QED
    BY <1>2, <2>1 DEF Contract, Shapes, MemoryHolds
<1>4. /\ Shapes' /\ GivesUp /\ FileGrows /\ Doomed' \subseteq Doomed \cup Dooms(NoTask) /\ Dooms(NoTask) = {}
      /\ \A k : Safe(k) /\ (db[k].ver > 0 => db'[k].ver > 0) => Safe(k)'
  BY <1>1, <1>3, FinishEffect, RequestHolds
<1>5. \A v \in claimed' : \A w \in anc[v] \ Doomed : Safe(w) => Safe(w)'
  BY <1>1, <1>3, <1>4 DEF TypeOK
<1> QED
  BY <1>1, <1>4, <1>5, NothingDoomed DEF Contract

LEMMA DeleteFailsKeeps ==
    ASSUME TypeOK, TypeOK', Contract, NEW s \in Slots, NEW applied \in BOOLEAN, DeleteFails(s, applied)
    PROVE  Contract' /\ StaysKept
<1>1. /\ tasks[s].phase = "delete" /\ db' = (IF applied THEN Set(db, tasks[s].old, NoRow) ELSE db)
      /\ Fail(s, "enqDelete")
      /\ UNCHANGED <<mem, queue, qfile, sync, anc, claimed, dropped>>
  BY DEF DeleteFails
<1>2. tasks[s].old \in Doomed /\ tasks[s].old \in Uuids /\ tasks[s].old # NoUuid
  BY <1>1, SlotTask
<1>3. /\ \A k \in Uuids \ Doomed : db[k].ver > 0 => db'[k].ver > 0
      /\ \A k \in Uuids : db'[k].ver > 0 => k \in Issued
  <2>1. /\ \A k \in Uuids : k # tasks[s].old /\ db[k].ver > 0 => db'[k].ver > 0
        /\ \A k \in Uuids : db'[k].ver > 0 => db[k].ver > 0
    BY <1>1, <1>2, Deleted
  <2> QED
    BY <1>2, <2>1 DEF Contract, Shapes, MemoryHolds
<1>4. PICK t \in Task : /\ tasks' = [tasks EXCEPT ![s] = t] /\ t.phase = "enqDelete" /\ t.payUuid = tasks[s].uuid
                        /\ t.uuid = tasks[s].uuid /\ t.old = tasks[s].old
                        /\ file' = mem /\ reload' = reload
  BY <1>1, <1>2, FailEffect
<1>5. TaskHolds(t) /\ Touches(t) \subseteq Issued /\ Dooms(t) \subseteq Doomed
  <2>1. Touches(t) \subseteq Touches(tasks[s])
    BY <1>4 DEF Touches
  <2> QED
    BY <1>2, <1>4, <2>1, SlotTask DEF TaskHolds, Dooms
<1>6. /\ Shapes' /\ GivesUp /\ FileGrows /\ Doomed' \subseteq Doomed \cup Dooms(t)
      /\ \A k : Safe(k) /\ (db[k].ver > 0 => db'[k].ver > 0) => Safe(k)'
  BY <1>1, <1>3, <1>4, <1>5, RequestHolds
<1>7. \A v \in claimed' : \A w \in anc[v] \ Doomed : Safe(w) => Safe(w)'
  BY <1>1, <1>3, <1>6 DEF TypeOK
<1> QED
  BY <1>1, <1>5, <1>6, <1>7, NothingDoomed DEF Contract

(***************************************************************************)
(* The queue and its file.                                                 *)
(***************************************************************************)
LEMMA SameHolds ==
    ASSUME NEW g, NEW f, Same(g, f), EntryHolds(g), g.key \in Issued, g.uuid \in Issued \cup {NoUuid}
    PROVE  EntryHolds(f) /\ f.key \in Issued /\ f.uuid \in Issued \cup {NoUuid}
BY DEF Same, EntryHolds

\* enqueue_task: what the queue, its file and the table have together grows by e.
LEMMA EnqueueHolds ==
    ASSUME TypeOK, TypeOK', Contract, NEW e \in Entry, EntryHolds(e), e.key \in Issued, e.uuid \in Issued \cup {NoUuid},
           sync.phase \notin {"run", "end"}, queue' = Append(Without(queue, e.key), e), qfile' = OnDisk(queue'),
           dropped' = dropped \cup Overwritten(queue'),
           UNCHANGED <<sync, anc, claimed, db>>, LinesHold', MemoryHolds', TasksHold'
    PROVE  /\ Shapes' /\ FileGrows /\ (~e.delete => Stored(e.key)')
           /\ Deletes(Entries(queue')) \cup Deletes(Entries(qfile'))
                \subseteq Deletes(Entries(queue)) \cup (IF e.delete THEN {e.key} ELSE {})
           /\ \A v \in claimed : anc[v] \cap dropped' = {} =>
                \A w \in anc[v] \ Doomed : Safe(w) /\ (e.delete => w # e.key) => Safe(w)'
<1>0. /\ queue \in Seq(Entry) /\ qfile \in Seq(Entry) /\ sync.processed = 0 /\ ~sync.sending
      /\ UntriedEntries = Entries(queue)
  BY UntriedOf
<1>1. /\ queue' \in Seq(Entry) /\ Entries(queue') \subseteq Entries(queue) \cup {e}
      /\ e \in Entries(queue') /\ \A g \in Entries(queue) : g.key # e.key => g \in Entries(queue')
      /\ \A f \in Entries(qfile') : \E g \in Entries(queue') : Same(g, f)
      /\ \A g \in Entries(queue') : \E f \in Entries(qfile') : Same(g, f)
  BY <1>0, EntriesAfterEnqueue
<1>2. /\ Upserts(Entries(qfile')) = Upserts(Entries(queue'))
      /\ Deletes(Entries(qfile')) = Deletes(Entries(queue'))
  BY <1>1 DEF Upserts, Deletes, Same
<1>3. UntriedEntries' = Entries(queue')
  <2>1. (sync.processed = 0 => UntriedEntries = Entries(queue))'
    BY UntriedOf, PTL
  <2> QED
    BY <1>0, <2>1
<1>4. \A k : Stored(k)' <=> k \in Upserts(Entries(queue'))
  BY <1>2, <1>3 DEF Stored
<1>5. /\ \A g \in Entries(queue') : EntryHolds(g) /\ g.key \in Issued /\ g.uuid \in Issued \cup {NoUuid}
      /\ \A f \in Entries(qfile') : EntryHolds(f) /\ f.key \in Issued /\ f.uuid \in Issued \cup {NoUuid}
  <2>1. \A g \in Entries(queue') : EntryHolds(g) /\ g.key \in Issued /\ g.uuid \in Issued \cup {NoUuid}
    BY <1>1 DEF Contract, Shapes, QueueHolds
  <2> QED
    BY <1>1, <2>1, SameHolds
<1>6. QueueHolds'
  <2>1. Issued' = Issued /\ \A g : EntryHolds(g)' <=> EntryHolds(g)
    BY LinesSame
  <2>2. SendingHolds'
    BY <1>0 DEF SendingHolds
  <2>3. (sync.payUuid \in Issued \cup {NoUuid})'
    BY <2>1 DEF Contract, Shapes, QueueHolds
  <2>4. FileHolds'
    BY <1>2 DEF FileHolds
  <2> QED
    BY <1>5, <2>1, <2>2, <2>3, <2>4 DEF QueueHolds
<1>7. FileGrows
  <2>1. \A f \in Entries(qfile') : f.key \in Uuids
    BY <1>5 DEF Issued
  <2>2. \A f \in Entries(qfile') : ~f.delete => f.key \in Upserts(Entries(qfile'))
    BY <2>1 DEF Upserts
  <2> QED
    BY <1>2, <1>4, <2>2 DEF FileGrows
<1>8. ~e.delete => Stored(e.key)'
  BY <1>1, <1>4 DEF Upserts, Issued
<1>9. Deletes(Entries(queue')) \cup Deletes(Entries(qfile'))
        \subseteq Deletes(Entries(queue)) \cup (IF e.delete THEN {e.key} ELSE {})
  <2>1. Deletes(Entries(queue')) \subseteq Deletes(Entries(queue)) \cup (IF e.delete THEN {e.key} ELSE {})
    BY <1>1 DEF Deletes
  <2> QED
    BY <1>2, <2>1
<1>10. ASSUME NEW v \in claimed, anc[v] \cap dropped' = {}, NEW w \in anc[v], w \notin Doomed, Stored(w), e.delete => w # e.key
       PROVE  Stored(w)'
  <2>1. w \in Uuids
    BY DEF Contract, Shapes, LinesHold, TypeOK
  <2>2. \A g \in Entries(queue) : g.key = w => ~g.delete
    BY <1>10, <2>1 DEF Doomed, Deletes
  <2>3. CASE \E g \in Entries(queue') : g.key = w
    BY <1>1, <1>4, <1>10, <2>1, <2>2, <2>3 DEF Upserts
  <2>4. CASE ~ \E g \in Entries(queue') : g.key = w
    <3>1. w # e.key /\ ~ \E g \in Entries(queue) : g.key = w
      BY <1>1, <2>4
    <3>2. PICK f \in Entries(qfile) : ~f.delete /\ f.key = w
      BY <1>0, <1>10, <3>1 DEF Stored, Upserts
    <3>3. f.uuid \in dropped'
      BY <2>4, <3>2 DEF Overwritten
    <3>4. f.uuid \in anc[v]
      BY <3>2 DEF Contract, Shapes, QueueHolds, EntryHolds, Follows
    <3> QED
      BY <1>10, <3>3, <3>4
  <2> QED
    BY <2>3, <2>4
<1>11. Shapes'
  BY <1>6 DEF Shapes
<1> QED
  BY <1>7, <1>8, <1>9, <1>10, <1>11 DEF Safe

LEMMA EnqueueUpsertKeeps ==
    ASSUME TypeOK, TypeOK', Contract, NEW s \in Slots, EnqueueUpsert(s)
    PROVE  Contract' /\ StaysKept
<1>1. PICK t0, p, x : t0 = tasks[s] /\ p = tasks[s].payUuid /\ x = tasks[s].old
  OBVIOUS
<1>2. PICK e : e = [key |-> p, delete |-> FALSE, uuid |-> t0.uuid, row |-> t0.row, live |-> t0.live]
  OBVIOUS
<1>3. /\ t0.phase = "enqUpsert" /\ sync.phase \notin {"run", "end"}
      /\ queue' = Append(Without(queue, p), e) /\ qfile' = OnDisk(queue')
      /\ dropped' = dropped \cup Overwritten(queue')
      /\ UNCHANGED <<mem, db, file, sync, anc, claimed>>
  BY <1>1, <1>2 DEF EnqueueUpsert, Enqueue
<1>4. /\ t0 \in Task /\ TaskHolds(t0) /\ Touches(t0) \subseteq Issued /\ Issued \subseteq Uuids
      /\ t0.payUuid = p /\ t0.old = x /\ p # NoUuid /\ t0.uuid # NoUuid
      /\ p \in Issued /\ t0.uuid \in Issued /\ x \in Issued \cup {NoUuid}
      /\ t0.row \in Row /\ t0.live \in BOOLEAN
  BY <1>1, <1>3, SlotTask DEF Task, Write
<1>5. e \in Entry /\ e.key = p /\ ~e.delete
  BY <1>2, <1>4 DEF Entry, Named
<1>6. EntryHolds(e) /\ e.key \in Issued /\ e.uuid \in Issued \cup {NoUuid}
  BY <1>2, <1>3, <1>4 DEF EntryHolds, TaskHolds
<1>7. \A u \in Uuids : db'[u].ver > 0 => u \in Issued
  BY <1>3 DEF Contract, Shapes, MemoryHolds
<1>8. ASSUME NEW t \in Task, tasks' = [tasks EXCEPT ![s] = t], TaskHolds(t), Touches(t) \subseteq Issued,
             \A r \in Reloaders : reload'[r].rows = reload[r].rows
      PROVE  /\ Shapes' /\ GivesUp /\ FileGrows /\ Stored(p)' /\ Doomed' \subseteq Doomed \cup Dooms(t)
             /\ \A v \in claimed : anc[v] \cap dropped' = {} => \A w \in anc[v] \ Doomed : Safe(w) => Safe(w)'
  <2>1. /\ LinesHold' /\ MemoryHolds' /\ TasksHold' /\ TaskDoomed' \subseteq TaskDoomed \cup Dooms(t)
        /\ GivesUp /\ RelationsKept /\ Issued' = Issued
    BY <1>3, <1>7, <1>8, TaskChanges
  <2>2. /\ Shapes' /\ FileGrows /\ (~e.delete => Stored(e.key)')
        /\ Deletes(Entries(queue')) \cup Deletes(Entries(qfile'))
             \subseteq Deletes(Entries(queue)) \cup (IF e.delete THEN {e.key} ELSE {})
        /\ \A v \in claimed : anc[v] \cap dropped' = {} =>
             \A w \in anc[v] \ Doomed : Safe(w) /\ (e.delete => w # e.key) => Safe(w)'
    BY <1>3, <1>5, <1>6, <2>1, EnqueueHolds
  <2>3. Doomed = TaskDoomed \cup Deletes(Entries(queue)) \cup Deletes(Entries(qfile))
    BY DEF Doomed, TaskDoomed
  <2>4. Doomed' = TaskDoomed' \cup Deletes(Entries(queue')) \cup Deletes(Entries(qfile'))
    BY DEF Doomed, TaskDoomed
  <2>5. \A k : Stored(k)' /\ k = p => Stored(p)'
    OBVIOUS
  <2> QED
    BY <1>5, <2>1, <2>2, <2>3, <2>4
<1>9. CASE x = NoUuid
  <2>1. Finish(s)
    BY <1>1, <1>9 DEF EnqueueUpsert
  <2>2. /\ Shapes' /\ GivesUp /\ FileGrows /\ Doomed' \subseteq Doomed
        /\ \A v \in claimed : anc[v] \cap dropped' = {} => \A w \in anc[v] \ Doomed : Safe(w) => Safe(w)'
    BY <1>8, <2>1, FinishEffect
  <2> QED
    BY <1>3, <2>2, NothingDoomed DEF Contract
<1>10. CASE x # NoUuid
  <2> DEFINE t == [t0 EXCEPT !.phase = "enqDelete"]
  <2>1. tasks' = [tasks EXCEPT ![s].phase = "enqDelete"] /\ reload' = reload
    BY <1>1, <1>10 DEF EnqueueUpsert
  <2>2. tasks' = [tasks EXCEPT ![s] = t]
    BY <1>1, <2>1 DEF TypeOK
  <2>3. /\ t \in Task /\ t.phase = "enqDelete" /\ t.uuid = t0.uuid /\ t.row = t0.row /\ t.live = t0.live
        /\ t.old = t0.old /\ t.payUuid = p /\ t.pay = t0.pay
    BY <1>4, <1>10 DEF Task, Write
  <2> HIDE DEF t
  <2>4. TaskHolds(t) /\ Touches(t) \subseteq Issued /\ Dooms(t) \subseteq {x}
    BY <1>4, <2>3 DEF TaskHolds, Touches, Dooms
  <2>5. /\ Shapes' /\ GivesUp /\ FileGrows /\ Stored(p)' /\ Doomed' \subseteq Doomed \cup {x}
        /\ \A v \in claimed : anc[v] \cap dropped' = {} => \A w \in anc[v] \ Doomed : Safe(w) => Safe(w)'
    BY <1>8, <2>1, <2>2, <2>3, <2>4
  <2>6. Replaces(p, x) /\ p # x /\ x \in Uuids /\ p \in Uuids
    BY <1>3, <1>4, <1>10 DEF TaskHolds
  <2>7. ASSUME NEW v \in claimed', anc[v] \cap dropped' = {} PROVE Fares(v)
    <3>1. v \in claimed /\ LaterIsSafe(v) /\ \A w \in anc[v] \ Doomed : Safe(w) => Safe(w)'
      BY <1>3, <2>5, <2>7 DEF Contract, ClaimsHold
    <3>2. Safe(p)'
      BY <2>5 DEF Safe
    <3> QED
      BY <2>5, <2>6, <3>1, <3>2, HandsOver DEF Contract
  <2> QED
    BY <1>3, <2>5, <2>7, ClaimsKept DEF Contract
<1> QED
  BY <1>9, <1>10

LEMMA EnqueueDeleteKeeps ==
    ASSUME TypeOK, TypeOK', Contract, NEW s \in Slots, EnqueueDelete(s)
    PROVE  Contract' /\ StaysKept
<1>1. PICK x : x = tasks[s].old
  OBVIOUS
<1>2. PICK e : e = [key |-> x, delete |-> TRUE, uuid |-> NoUuid, row |-> NoRow, live |-> FALSE]
  OBVIOUS
<1>3. /\ tasks[s].phase = "enqDelete" /\ sync.phase \notin {"run", "end"} /\ Finish(s)
      /\ queue' = Append(Without(queue, x), e) /\ qfile' = OnDisk(queue')
      /\ dropped' = dropped \cup Overwritten(queue')
      /\ UNCHANGED <<mem, db, file, sync, anc, claimed>>
  BY <1>1, <1>2 DEF EnqueueDelete, Enqueue
<1>4. x \in Doomed /\ x \in Uuids /\ x \in Issued
  BY <1>1, <1>3, SlotTask
<1>5. e \in Entry /\ e.key = x /\ e.delete /\ EntryHolds(e) /\ e.uuid = NoUuid
  BY <1>2, <1>4, NoValuesType DEF Entry, Named, EntryHolds
<1>6. \A u \in Uuids : db'[u].ver > 0 => u \in Issued
  BY <1>3 DEF Contract, Shapes, MemoryHolds
<1>7. /\ LinesHold' /\ MemoryHolds' /\ TasksHold' /\ TaskDoomed' \subseteq TaskDoomed \cup Dooms(NoTask)
      /\ GivesUp /\ Dooms(NoTask) = {}
  BY <1>3, <1>6, FinishEffect, TaskChanges
<1>8. /\ Shapes' /\ FileGrows
      /\ Deletes(Entries(queue')) \cup Deletes(Entries(qfile'))
           \subseteq Deletes(Entries(queue)) \cup (IF e.delete THEN {e.key} ELSE {})
      /\ \A v \in claimed : anc[v] \cap dropped' = {} =>
           \A w \in anc[v] \ Doomed : Safe(w) /\ (e.delete => w # e.key) => Safe(w)'
  BY <1>3, <1>4, <1>5, <1>7, EnqueueHolds
<1>9. Doomed = TaskDoomed \cup Deletes(Entries(queue)) \cup Deletes(Entries(qfile))
  BY DEF Doomed, TaskDoomed
<1>10. Doomed' = TaskDoomed' \cup Deletes(Entries(queue')) \cup Deletes(Entries(qfile'))
  BY DEF Doomed, TaskDoomed
<1>11. Doomed' \subseteq Doomed
  BY <1>4, <1>5, <1>7, <1>8, <1>9, <1>10
<1>12. \A v \in claimed : anc[v] \cap dropped' = {} => \A w \in anc[v] \ Doomed : Safe(w) => Safe(w)'
  BY <1>4, <1>5, <1>8
<1> QED
  BY <1>3, <1>7, <1>8, <1>11, <1>12, NothingDoomed DEF Contract

(***************************************************************************)
(* The loop that replays the queue, and a restart.                         *)
(***************************************************************************)
\* The queue and its file are made of entries they had.
LEMMA ReplayHolds ==
    ASSUME TypeOK, TypeOK', Contract, UNCHANGED <<anc, claimed>>, MemoryHolds', TasksHold', TaskDoomed' \subseteq TaskDoomed,
           \A f \in Entries(queue') \cup Entries(qfile') : \E g \in Entries(queue) \cup Entries(qfile) : Same(g, f),
           SendingHolds', sync'.payUuid \in Issued \cup {NoUuid}, FileHolds'
    PROVE  Shapes' /\ GivesUp /\ Doomed' \subseteq Doomed
<1>1. LinesHold' /\ Issued' = Issued /\ GivesUp
  BY GivesUpKeeps DEF Contract, Shapes, GivesUp
<1>2. \A f \in Entries(queue') \cup Entries(qfile') :
        EntryHolds(f)' /\ f.key \in Issued' /\ f.uuid \in Issued' \cup {NoUuid}
  <2>1. \A g \in Entries(queue) \cup Entries(qfile) :
          EntryHolds(g) /\ g.key \in Issued /\ g.uuid \in Issued \cup {NoUuid}
    BY DEF Contract, Shapes, QueueHolds
  <2>2. \A f : EntryHolds(f)' <=> EntryHolds(f)
    BY LinesSame
  <2>3. \A f \in Entries(queue') \cup Entries(qfile') :
          EntryHolds(f) /\ f.key \in Issued /\ f.uuid \in Issued \cup {NoUuid}
    BY <2>1, SameHolds
  <2> QED
    BY <1>1, <2>2, <2>3
<1>3. QueueHolds'
  BY <1>1, <1>2 DEF QueueHolds
<1>4. Deletes(Entries(queue')) \cup Deletes(Entries(qfile'))
        \subseteq Deletes(Entries(queue)) \cup Deletes(Entries(qfile))
  BY DEF Deletes, Same
<1>5. Doomed = TaskDoomed \cup Deletes(Entries(queue)) \cup Deletes(Entries(qfile))
  BY DEF Doomed, TaskDoomed
<1>6. Doomed' = TaskDoomed' \cup Deletes(Entries(queue')) \cup Deletes(Entries(qfile'))
  BY DEF Doomed, TaskDoomed
<1> QED
  BY <1>1, <1>3, <1>4, <1>5, <1>6 DEF Shapes

\* The same in the loop, which touches neither the tasks nor the memory.
LEMMA LoopHolds ==
    ASSUME TypeOK, TypeOK', Contract, UNCHANGED <<anc, claimed, mem, file, tasks, reload>>,
           \A u \in Uuids : db'[u].ver > 0 => u \in Issued,
           \A f \in Entries(queue') \cup Entries(qfile') : \E g \in Entries(queue) \cup Entries(qfile) : Same(g, f),
           SendingHolds', sync'.payUuid \in Issued \cup {NoUuid}, FileHolds'
    PROVE  Shapes' /\ GivesUp /\ Doomed' \subseteq Doomed
<1>1. /\ \A s \in Slots : TaskLike(tasks'[s], tasks[s], NoUuid, NoUuid)
      /\ HandsOn(NoUuid, NoUuid) /\ tasks' \in [Slots -> Task]
  BY NoRedirect DEF TypeOK
<1>2. RelationsKept /\ Issued' = Issued
  BY GivesUpKeeps DEF Contract, Shapes, GivesUp
<1>3. TasksHold' /\ TaskDoomed' \subseteq TaskDoomed
  BY <1>1, <1>2, TasksLike DEF Contract
<1>4. MemoryHolds'
  BY <1>2 DEF Contract, Shapes, MemoryHolds
<1> QED
  BY <1>3, <1>4, ReplayHolds

LEMMA SameItself ==
    ASSUME UNCHANGED <<queue, qfile>>
    PROVE  /\ \A f \in Entries(queue') \cup Entries(qfile') : \E g \in Entries(queue) \cup Entries(qfile) : Same(g, f)
           /\ FileGrows /\ (FileHolds => FileHolds')
BY DEF Same, FileGrows, FileHolds

LEMMA LoadQueueKeeps ==
    ASSUME TypeOK, TypeOK', Contract, LoadQueue
    PROVE  Contract' /\ StaysKept
<1>1. /\ sync.phase = "off" /\ queue' = qfile /\ sync' = [sync EXCEPT !.phase = "idle"]
      /\ UNCHANGED <<mem, db, file, tasks, qfile, reload, anc, claimed, dropped>>
  BY DEF LoadQueue, hist
<1>2. sync'.phase = "idle" /\ sync'.payUuid = sync.payUuid /\ sync'.sending = sync.sending /\ sync'.processed = sync.processed
  BY <1>1 DEF TypeOK, Sync, Replays
<1>3. ~sync.sending /\ sync.processed = 0
  BY <1>1, UntriedOf
<1>4. \A f \in Entries(queue') \cup Entries(qfile') : \E g \in Entries(queue) \cup Entries(qfile) : Same(g, f)
  BY <1>1 DEF Same
<1>5. SendingHolds' /\ FileHolds' /\ FileGrows
  BY <1>1, <1>2, <1>3 DEF SendingHolds, FileHolds, FileGrows
<1>6. sync'.payUuid \in Issued \cup {NoUuid} /\ \A u \in Uuids : db'[u].ver > 0 => u \in Issued
  BY <1>1, <1>2 DEF Contract, Shapes, QueueHolds, MemoryHolds
<1>7. Shapes' /\ GivesUp /\ Doomed' \subseteq Doomed
  BY <1>1, <1>4, <1>5, <1>6, LoopHolds
<1>8. \A k : Stored(k) => Stored(k)'
  <2>1. (sync.processed = 0 => UntriedEntries = Entries(queue))'
    BY UntriedOf, PTL
  <2>2. UntriedEntries' = Entries(qfile)
    BY <1>1, <1>2, <1>3, <2>1
  <2> QED
    BY <1>1, <1>2, <2>2 DEF Stored
<1>9. \A k : Safe(k) => Safe(k)'
  BY <1>1, <1>8 DEF Safe
<1> QED
  BY <1>1, <1>5, <1>7, <1>9, NothingDoomed DEF Contract

LEMMA StartProcessKeeps ==
    ASSUME TypeOK, TypeOK', Contract, StartProcess
    PROVE  Contract' /\ StaysKept
<1>1. /\ sync.phase = "idle" /\ sync' = [NoSync EXCEPT !.phase = "run"]
      /\ UNCHANGED <<mem, db, file, tasks, queue, qfile, reload, anc, claimed, dropped>>
  BY DEF StartProcess, hist
<1>2. sync'.phase = "run" /\ sync'.payUuid = NoUuid /\ ~sync'.sending /\ sync'.processed = 0
  BY <1>1 DEF NoSync
<1>3. sync.processed = 0
  BY <1>1, UntriedOf
<1>4. SendingHolds' /\ FileHolds' /\ FileGrows
  BY <1>1, <1>2, SameItself DEF SendingHolds, Contract, Shapes, QueueHolds
<1>5. sync'.payUuid \in Issued \cup {NoUuid} /\ \A u \in Uuids : db'[u].ver > 0 => u \in Issued
  BY <1>1, <1>2 DEF Contract, Shapes, QueueHolds, MemoryHolds
<1>6. Shapes' /\ GivesUp /\ Doomed' \subseteq Doomed
  BY <1>1, <1>4, <1>5, SameItself, LoopHolds
<1>7. \A k : Stored(k) => Stored(k)'
  BY <1>1, <1>2, <1>3 DEF Stored, UntriedEntries
<1>8. \A k : Safe(k) => Safe(k)'
  BY <1>1, <1>7 DEF Safe
<1> QED
  BY <1>1, <1>4, <1>6, <1>8, NothingDoomed DEF Contract

LEMMA SendQueuedKeeps ==
    ASSUME TypeOK, TypeOK', Contract, SendQueued
    PROVE  Contract' /\ StaysKept
<1>1. PICK e : e = queue[sync.processed + 1]
  OBVIOUS
<1>2. /\ sync.phase = "run" /\ sync.processed < Len(queue)
      /\ sync' = [sync EXCEPT !.sending = TRUE, !.payUuid = e.uuid, !.pay = e.row]
      /\ UNCHANGED <<mem, db, file, tasks, queue, qfile, reload, anc, claimed, dropped>>
  BY <1>1 DEF SendQueued, hist
<1>3. /\ sync'.phase = "run" /\ sync'.payUuid = e.uuid /\ sync'.pay = e.row /\ sync'.processed = sync.processed
  BY <1>2 DEF TypeOK, Sync, Replays
<1>4. e \in Entries(queue)
  <2>1. sync.processed + 1 \in 1..Len(queue) /\ queue \in Seq(Entry)
    BY <1>2, UntriedOf
  <2> QED
    BY <1>1, <2>1, EntriesOf
<1>5. EntryHolds(e) /\ e.key \in Issued /\ e.uuid \in Issued \cup {NoUuid}
  BY <1>4 DEF Contract, Shapes, QueueHolds
<1>6. SendingHolds'
  <2>1. \A u, k : Follows(u, k)' <=> Follows(u, k)
    BY <1>2, LinesSame
  <2>2. queue'[sync'.processed + 1] = e
    BY <1>1, <1>2, <1>3
  <2>3. PICK k, p : k = e.key /\ p = e.uuid
    OBVIOUS
  <2>4. ~e.delete => Follows(p, k)'
    BY <1>5, <2>1, <2>3 DEF EntryHolds
  <2>5. ~e.delete => Follows(sync.payUuid, queue[sync.processed + 1].key)'
    BY <1>3, <2>2, <2>3, <2>4
  <2> QED
    BY <1>3, <1>5, <2>2, <2>5 DEF SendingHolds, EntryHolds
<1>7. FileHolds' /\ FileGrows
  BY <1>2, SameItself DEF Contract, Shapes, QueueHolds
<1>8. sync'.payUuid \in Issued \cup {NoUuid} /\ \A u \in Uuids : db'[u].ver > 0 => u \in Issued
  BY <1>2, <1>3, <1>5 DEF Contract, Shapes, MemoryHolds
<1>9. Shapes' /\ GivesUp /\ Doomed' \subseteq Doomed
  BY <1>2, <1>6, <1>7, <1>8, SameItself, LoopHolds
<1>10. \A k : Stored(k) => Stored(k)'
  BY <1>2, <1>3 DEF Stored, UntriedEntries
<1>11. \A k : Safe(k) => Safe(k)'
  BY <1>2, <1>10 DEF Safe
<1> QED
  BY <1>2, <1>7, <1>9, <1>11, NothingDoomed DEF Contract

\* The replay of the entry e with payload p.
LEMMA ReplayEffect ==
    ASSUME TypeOK, Contract, sync.sending, NEW e, e = queue[sync.processed + 1]
    PROVE  /\ e \in Entries(queue) /\ EntryHolds(e) /\ e.key \in Issued /\ Issued \subseteq Uuids
           /\ e.delete => e.key \in Doomed
           /\ ~e.delete => sync.payUuid \in Issued /\ Follows(sync.payUuid, e.key) /\ Replay[sync.payUuid].ver > 0
           /\ \A k \in Uuids \ Doomed : db[k].ver > 0 => Replay[k].ver > 0
           /\ \A k \in Uuids : Replay[k].ver > 0 => k \in Issued
<1>1. e \in Entries(queue)
  BY UntriedOf, EntriesOf
<1>2. EntryHolds(e) /\ e.key \in Issued /\ Issued \subseteq Uuids
  BY <1>1 DEF Contract, Shapes, QueueHolds, Issued
<1>3. e.delete => e.key \in Doomed
  BY <1>1, <1>2 DEF Doomed, Deletes
<1>4. ~e.delete => sync.payUuid \in Issued /\ Follows(sync.payUuid, e.key) /\ sync.pay.ver > 0
  BY DEF Contract, Shapes, QueueHolds, SendingHolds
<1>5. sync.pay \in Row /\ \A k \in Uuids : db[k].ver > 0 => k \in Issued
  BY DEF TypeOK, Sync, Replays, Contract, Shapes, MemoryHolds
<1>6. CASE e.delete
  <2>1. Replay = Set(db, e.key, NoRow)
    BY <1>6 DEF Replay
  <2> QED
    BY <1>1, <1>2, <1>3, <1>5, <1>6, <2>1, Deleted
<1>7. CASE ~e.delete
  <2>1. Replay = Set(db, sync.payUuid, sync.pay)
    BY <1>7 DEF Replay
  <2> QED
    BY <1>1, <1>2, <1>4, <1>5, <1>7, <2>1, Written
<1> QED
  BY <1>6, <1>7

\* The entry of key k gives way to the row of p, k itself or a later order of its line.
LEMMA Advances ==
    ASSUME TypeOK, Shapes, NEW v \in claimed, LaterIsSafe(v), NEW k \in Uuids, NEW p \in Uuids, Follows(p, k),
           Safe(p)', Doomed' \subseteq Doomed, \A w \in anc[v] \ Doomed : w # k /\ Safe(w) => Safe(w)'
    PROVE  Fares(v)
<1>1. v \in Uuids /\ anc[v] \subseteq Uuids /\ \A w \in anc[v] : w \in anc[w]
  BY DEF TypeOK, Shapes, LinesHold
<1>2. ASSUME k \in anc[v], k \notin Doomed PROVE SafeAfter(v, k)
  <2>1. p \in anc[v] /\ k \in anc[p]
    BY <1>2 DEF Follows
  <2>2. CASE p \notin Doomed
    BY <2>1, <2>2 DEF SafeAfter
  <2>3. CASE p \in Doomed
    <3>1. PICK w \in anc[v] \ Doomed : p \in anc[w] /\ Safe(w)
      BY <2>1, <2>3 DEF LaterIsSafe
    <3>2. w \in Uuids /\ k \in anc[w]
      BY <1>1, <2>1, <3>1 DEF Shapes, LinesHold
    <3>3. w # k
      BY <1>2, <2>1, <2>3, <3>1 DEF Shapes, LinesHold
    <3> QED
      BY <3>1, <3>2, <3>3 DEF SafeAfter
  <2> QED
    BY <2>2, <2>3
<1>3. \A w \in anc[v] \ Doomed : Safe(w) => SafeAfter(v, w)
  BY <1>1, <1>2 DEF SafeAfter
<1> QED
  BY <1>3 DEF Fares

LEMMA QueuedDoneKeeps ==
    ASSUME TypeOK, TypeOK', Contract, NEW refused \in BOOLEAN, QueuedDone(refused)
    PROVE  Contract' /\ StaysKept
<1>1. PICK e, p, n : e = queue[sync.processed + 1] /\ p = sync.payUuid /\ n = sync.processed
  OBVIOUS
<1>2. /\ sync.phase = "run" /\ sync.sending
      /\ db' = IF refused THEN db ELSE Replay
      /\ sync' = [NoSync EXCEPT !.phase = "run", !.processed = n + 1]
      /\ dropped' = IF refused THEN dropped \cup {p} ELSE dropped
      /\ UNCHANGED <<mem, file, tasks, queue, qfile, reload, anc, claimed>>
  BY <1>1 DEF QueuedDone
<1>3. sync'.phase = "run" /\ sync'.payUuid = NoUuid /\ ~sync'.sending /\ sync'.processed = n + 1
  BY <1>2 DEF NoSync
<1>4. /\ e \in Entries(queue) /\ EntryHolds(e) /\ e.key \in Issued /\ Issued \subseteq Uuids
      /\ e.delete => e.key \in Doomed
      /\ ~e.delete => p \in Issued /\ Follows(p, e.key) /\ Replay[p].ver > 0
      /\ \A k \in Uuids \ Doomed : db[k].ver > 0 => Replay[k].ver > 0
      /\ \A k \in Uuids : Replay[k].ver > 0 => k \in Issued
  BY <1>1, <1>2, ReplayEffect
<1>5. SendingHolds' /\ FileHolds' /\ FileGrows
  BY <1>2, <1>3, SameItself DEF SendingHolds, Contract, Shapes, QueueHolds
<1>6. sync'.payUuid \in Issued \cup {NoUuid} /\ \A u \in Uuids : db'[u].ver > 0 => u \in Issued
  BY <1>2, <1>3, <1>4 DEF Contract, Shapes, MemoryHolds
<1>7. Shapes' /\ GivesUp /\ Doomed' \subseteq Doomed
  BY <1>2, <1>5, <1>6, SameItself, LoopHolds
<1>8. \A k \in Uuids : Stored(k) => Stored(k)' \/ (~e.delete /\ e.key = k)
  <2>1. n \in Nat /\ Len(queue) \in Nat /\ n < Len(queue)
    BY <1>1, <1>2, UntriedOf
  <2>2. \A i \in n + 1..Len(queue) : i = n + 1 \/ i \in n + 2..Len(queue)
    BY <2>1
  <2>3. UntriedEntries = {queue[i] : i \in n + 1..Len(queue)}
    BY <1>1 DEF UntriedEntries
  <2>4. UntriedEntries' = {queue[i] : i \in n + 2..Len(queue)}
    <3>1. n + 1 + 1 = n + 2
      BY <2>1
    <3> QED
      BY <1>2, <1>3, <3>1 DEF UntriedEntries
  <2>5. \A g \in UntriedEntries : g = e \/ g \in UntriedEntries'
    BY <1>1, <2>2, <2>3, <2>4
  <2>6. \A k \in Uuids : k \in Upserts(UntriedEntries) => k \in Upserts(UntriedEntries') \/ (~e.delete /\ e.key = k)
    BY <2>5 DEF Upserts
  <2>7. Upserts(UntriedEntries') = Upserts(UntriedEntries)'
    BY DEF Upserts
  <2> QED
    BY <1>2, <1>3, <2>6, <2>7 DEF Stored
<1>9. ASSUME NEW v \in claimed', anc[v] \cap dropped' = {} PROVE Fares(v)
  <2>1. v \in claimed /\ LaterIsSafe(v) /\ anc[v] \subseteq Uuids
    BY <1>2, <1>9 DEF Contract, ClaimsHold, TypeOK
  <2>2. ASSUME NEW w \in anc[v], w \notin Doomed, e.delete \/ w # e.key, Safe(w) PROVE Safe(w)'
    BY <1>2, <1>4, <1>8, <2>1, <2>2 DEF Safe
  <2>3. CASE e.delete
    <3>1. anc[v] \cap Doomed' \subseteq Doomed /\ \A w \in anc[v] \ Doomed : Safe(w) => Safe(w)'
      BY <1>7, <2>2, <2>3
    <3> QED
      BY <2>1, <3>1, LineSame DEF Contract
  <2>4. CASE ~e.delete /\ refused
    <3>1. e.key \notin anc[v]
      BY <1>2, <1>4, <1>9, <2>1, <2>4 DEF Follows
    <3>2. anc[v] \cap Doomed' \subseteq Doomed /\ \A w \in anc[v] \ Doomed : Safe(w) => Safe(w)'
      BY <1>7, <2>2, <3>1
    <3> QED
      BY <2>1, <3>2, LineSame DEF Contract
  <2>5. CASE ~e.delete /\ ~refused
    <3>1. Safe(p)'
      BY <1>2, <1>4, <2>5 DEF Safe
    <3>2. /\ e.key \in Uuids /\ p \in Uuids /\ Follows(p, e.key)
          /\ \A w \in anc[v] \ Doomed : w # e.key /\ Safe(w) => Safe(w)'
      BY <1>4, <2>2, <2>5
    <3> QED
      BY <1>7, <2>1, <3>1, <3>2, Advances DEF Contract
  <2> QED
    BY <2>3, <2>4, <2>5
<1> QED
  BY <1>2, <1>5, <1>7, <1>9, ClaimsKept DEF Contract

LEMMA QueuedFailsKeeps ==
    ASSUME TypeOK, TypeOK', Contract, NEW applied \in BOOLEAN, QueuedFails(applied)
    PROVE  Contract' /\ StaysKept
<1>1. /\ sync.phase = "run" /\ sync.sending
      /\ db' = IF applied THEN Replay ELSE db
      /\ sync' = [NoSync EXCEPT !.phase = "end", !.processed = sync.processed]
      /\ UNCHANGED <<mem, file, tasks, queue, qfile, reload, anc, claimed, dropped>>
  BY DEF QueuedFails, hist
<1>2. sync'.phase = "end" /\ sync'.payUuid = NoUuid /\ ~sync'.sending /\ sync'.processed = sync.processed
  BY <1>1 DEF NoSync
<1>3. /\ \A k \in Uuids \ Doomed : db[k].ver > 0 => Replay[k].ver > 0
      /\ \A k \in Uuids : Replay[k].ver > 0 => k \in Issued
  BY <1>1, ReplayEffect
<1>4. SendingHolds' /\ FileHolds' /\ FileGrows
  BY <1>1, <1>2, SameItself DEF SendingHolds, Contract, Shapes, QueueHolds
<1>5. sync'.payUuid \in Issued \cup {NoUuid} /\ \A u \in Uuids : db'[u].ver > 0 => u \in Issued
  BY <1>1, <1>2, <1>3 DEF Contract, Shapes, MemoryHolds
<1>6. Shapes' /\ GivesUp /\ Doomed' \subseteq Doomed
  BY <1>1, <1>4, <1>5, SameItself, LoopHolds
<1>7. \A k : Stored(k) => Stored(k)'
  BY <1>1, <1>2 DEF Stored, UntriedEntries
<1>8. \A v \in claimed' : \A w \in anc[v] \ Doomed : Safe(w) => Safe(w)'
  BY <1>1, <1>3, <1>7 DEF Safe, TypeOK
<1> QED
  BY <1>1, <1>4, <1>6, <1>8, NothingDoomed DEF Contract

LEMMA EndProcessKeeps ==
    ASSUME TypeOK, TypeOK', Contract, EndProcess
    PROVE  Contract' /\ StaysKept
<1>1. /\ sync.phase \in {"run", "end"} /\ queue' = Untried
      /\ qfile' = IF sync.processed > 0 THEN OnDisk(Untried) ELSE qfile
      /\ sync' = [NoSync EXCEPT !.phase = "idle"]
      /\ UNCHANGED <<mem, db, file, tasks, reload, anc, claimed, dropped>>
  BY DEF EndProcess, hist
<1>2. sync'.phase = "idle" /\ sync'.payUuid = NoUuid /\ ~sync'.sending /\ sync'.processed = 0
  BY <1>1 DEF NoSync
<1>3. /\ Entries(queue') = UntriedEntries /\ UntriedEntries \subseteq Entries(queue) /\ Untried \in Seq(Entry)
      /\ sync.processed \in Nat /\ (sync.processed = 0 => UntriedEntries = Entries(queue))
  BY <1>1, UntriedOf
<1>4. UntriedEntries' = UntriedEntries
  <2>1. (sync.processed = 0 => UntriedEntries = Entries(queue))'
    BY UntriedOf, PTL
  <2> QED
    BY <1>2, <1>3, <2>1
<1>5. /\ \A f \in Entries(queue') \cup Entries(qfile') : \E g \in Entries(queue) \cup Entries(qfile) : Same(g, f)
      /\ FileHolds' /\ FileGrows
  <2>1. CASE sync.processed > 0
    <3>1. /\ \A f \in Entries(qfile') : \E g \in UntriedEntries : Same(g, f)
          /\ \A g \in UntriedEntries : \E f \in Entries(qfile') : Same(g, f)
      BY <1>1, <1>3, <2>1, OnDiskEntries
    <3>2. \A f \in Entries(queue') \cup Entries(qfile') : \E g \in Entries(queue) \cup Entries(qfile) : Same(g, f)
      BY <1>3, <3>1 DEF Same
    <3>3. FileHolds'
      BY <1>3, <3>1 DEF FileHolds, Upserts, Same
    <3>4. FileGrows
      <4>1. \A g \in UntriedEntries : g.key \in Uuids
        BY <1>3 DEF Contract, Shapes, QueueHolds, Issued
      <4>2. \A f \in Entries(qfile') : ~f.delete => f.key \in Upserts(UntriedEntries)
        BY <3>1, <4>1 DEF Upserts, Same
      <4>3. \A k : Stored(k)' <=> k \in Upserts(UntriedEntries)'
        BY <1>2 DEF Stored
      <4>4. Upserts(UntriedEntries)' = Upserts(UntriedEntries)
        BY <1>4 DEF Upserts
      <4> QED
        BY <4>2, <4>3, <4>4 DEF FileGrows
    <3> QED
      BY <3>2, <3>3, <3>4
  <2>2. CASE ~(sync.processed > 0)
    <3>1. sync.processed = 0 /\ qfile' = qfile /\ Entries(queue') = Entries(queue)
      BY <1>1, <1>3, <2>2
    <3> QED
      BY <3>1 DEF Same, FileGrows, FileHolds, Contract, Shapes, QueueHolds
  <2> QED
    BY <2>1, <2>2
<1>6. SendingHolds' /\ sync'.payUuid \in Issued \cup {NoUuid} /\ \A u \in Uuids : db'[u].ver > 0 => u \in Issued
  BY <1>1, <1>2 DEF SendingHolds, Contract, Shapes, MemoryHolds
<1>7. Shapes' /\ GivesUp /\ Doomed' \subseteq Doomed
  BY <1>1, <1>5, <1>6, LoopHolds
<1>8. \A k : Safe(k) => Safe(k)'
  BY <1>1, <1>2, <1>4 DEF Safe, Stored
<1> QED
  BY <1>1, <1>5, <1>7, <1>8, NothingDoomed DEF Contract

LEMMA CrashKeeps ==
    ASSUME TypeOK, TypeOK', Contract, Crash
    PROVE  Contract' /\ StaysKept
<1>1. /\ mem' = Empty /\ tasks' = [s \in Slots |-> NoTask] /\ queue' = <<>> /\ sync' = NoSync
      /\ reload' = [r \in Reloaders |-> NoReload]
      /\ UNCHANGED <<db, file, qfile, anc, claimed, dropped>>
  BY DEF Crash, hist
<1>2. sync'.phase = "off" /\ sync'.payUuid = NoUuid /\ ~sync'.sending
  BY <1>1 DEF NoSync
<1>3. Entries(queue') = {}
  BY <1>1 DEF Entries
<1>4. /\ \A f \in Entries(queue') \cup Entries(qfile') : \E g \in Entries(queue) \cup Entries(qfile) : Same(g, f)
      /\ FileHolds' /\ FileGrows /\ SendingHolds' /\ sync'.payUuid \in Issued \cup {NoUuid}
  BY <1>1, <1>2, <1>3 DEF Same, FileHolds, Upserts, FileGrows, SendingHolds
<1>5. MemoryHolds'
  <2>1. Issued' = Issued
    BY <1>1, LinesSame
  <2>2. \A u \in Uuids : ~(Empty[u].ver > 0) /\ ~(NoReload.rows[u].ver > 0)
    BY DEF Empty, NoRow, NoReload
  <2> QED
    BY <1>1, <2>1, <2>2 DEF Contract, Shapes, MemoryHolds
<1>6. TasksHold' /\ TaskDoomed' \subseteq TaskDoomed
  <2>1. \A s \in Slots : tasks'[s] = NoTask
    BY <1>1
  <2>2. NoTask.phase = "free" /\ NoTask.uuid = NoUuid /\ NoTask.old = NoUuid /\ NoTask.payUuid = NoUuid
    BY DEF NoTask
  <2>3. TasksHold'
    BY <2>1, <2>2 DEF TasksHold, TaskHolds, Touches
  <2> QED
    BY <2>1, <2>2, <2>3 DEF TaskDoomed
<1>7. Shapes' /\ GivesUp /\ Doomed' \subseteq Doomed
  BY <1>1, <1>4, <1>5, <1>6, ReplayHolds
<1>8. \A k : Stored(k) => Stored(k)'
  BY <1>1, <1>2, StoredIsInFile DEF Stored, Contract
<1>9. \A k : Safe(k) => Safe(k)'
  BY <1>1, <1>8 DEF Safe
<1> QED
  BY <1>1, <1>4, <1>7, <1>9, NothingDoomed DEF Contract

(***************************************************************************)
(* Every step keeps the contract, and what is durable.                     *)
(***************************************************************************)
LEMMA InitContract ==
    ASSUME Init
    PROVE  Contract
<1> USE DEF Init
<1>1. /\ \A u \in Uuids : anc[u] = {} /\ ~(mem[u].ver > 0) /\ ~(db[u].ver > 0) /\ ~(file[u].ver > 0)
      /\ \A r \in Reloaders : \A u \in Uuids : ~(reload[r].rows[u].ver > 0)
      /\ \A s \in Slots : tasks[s] = NoTask
      /\ Entries(queue) = {} /\ Entries(qfile) = {} /\ claimed = {}
      /\ sync.payUuid = NoUuid /\ ~sync.sending
  BY DEF Empty, NoRow, NoReload, Entries, NoSync
<1>2. NoTask.phase = "free" /\ NoTask.uuid = NoUuid /\ NoTask.old = NoUuid /\ NoTask.payUuid = NoUuid
  BY DEF NoTask
<1>3. LinesHold /\ ClaimsHold
  BY <1>1 DEF LinesHold, ClaimsHold
<1>4. MemoryHolds
  BY <1>1 DEF MemoryHolds
<1>5. TasksHold
  BY <1>1, <1>2 DEF TasksHold, TaskHolds, Touches
<1>6. QueueHolds
  BY <1>1 DEF QueueHolds, SendingHolds, FileHolds, Upserts
<1> QED
  BY <1>3, <1>4, <1>5, <1>6 DEF Contract, Shapes

LEMMA ContractStep ==
    ASSUME TypeOK, TypeOK', Contract, [Next]_vars
    PROVE  Contract' /\ StaysKept
<1>1. ASSUME NEW u \in Uuids, OrderStep(u) PROVE Contract' /\ StaysKept
  BY <1>1, AddOrderKeeps, UpdateOrderKeeps, ReplaceOrderKeeps, RemoveOrderKeeps, ManagerReserveKeeps,
     ManagerRequestCancelKeeps, ManagerDeleteKeeps DEF OrderStep
<1>2. ASSUME NEW user \in Users, NEW ok \in BOOLEAN, ClearUserOrders(user, ok) PROVE Contract' /\ StaysKept
  BY <1>2, ClearUserOrdersKeeps
<1>3. ASSUME NEW s \in Slots, TaskStep(s) PROVE Contract' /\ StaysKept
  BY <1>3, SendUpsertKeeps, UpsertAnsweredKeeps, UpsertFailsKeeps, DeleteAnsweredKeeps, DeleteFailsKeeps,
     EnqueueUpsertKeeps, EnqueueDeleteKeeps DEF TaskStep
<1>4. CASE SyncStep
  BY <1>4, LoadQueueKeeps, StartProcessKeeps, SendQueuedKeeps, QueuedDoneKeeps, QueuedFailsKeeps,
     EndProcessKeeps DEF SyncStep
<1>5. ASSUME NEW r \in Reloaders, ReloadStep(r) PROVE Contract' /\ StaysKept
  BY <1>5, ReloadKeeps
<1>6. CASE ReloadNow
  BY <1>6, ReloadNowKeeps
<1>7. CASE Crash
  BY <1>7, CrashKeeps
<1>8. ASSUME NEW fromDb \in BOOLEAN, Boot(fromDb) PROVE Contract' /\ StaysKept
  BY <1>8, BootKeeps
<1>9. CASE UNCHANGED vars
  <2>1. UNCHANGED <<mem, db, file, tasks, queue, qfile, sync, reload, anc, claimed, dropped>>
    BY <1>9 DEF vars, hist
  <2>2. /\ \A s \in Slots : TaskLike(tasks'[s], tasks[s], NoUuid, NoUuid)
        /\ QueueLike(NoUuid, NoUuid)
    BY <2>1, NoRedirect
  <2>3. /\ \A u \in Uuids : mem'[u].ver > 0 => u \in Issued
        /\ \A r \in Reloaders : \A u \in Uuids : reload'[r].rows[u].ver > 0 => u \in Issued
    BY <2>1 DEF Contract, Shapes, MemoryHolds
  <2> QED
    BY <2>1, <2>2, <2>3, TableSame
<1> QED
  BY <1>1, <1>2, <1>3, <1>4, <1>5, <1>6, <1>7, <1>8, <1>9 DEF Next

(***************************************************************************)
(* An order the table or the queue file has is not lost while it is        *)
(* tracked: order_manager.py:_db_replace deletes the old row only after    *)
(* the new one is written or queued, and db_sync.py replays the queue in   *)
(* the order in which the writes failed.  For any number of orders,        *)
(* writes, failures, reloads and restarts.                                 *)
(***************************************************************************)
THEOREM DurableStays == Spec => DurableOrdersStayDurable
<1>1. Init => Contract
  BY InitContract
<1>2. TypeOK /\ TypeOK' /\ Contract /\ [Next]_vars => Contract'
  BY ContractStep
<1>3. TypeOK /\ TypeOK' /\ Contract /\ [Next]_vars =>
        [\A v \in claimed \cap claimed' : Kept(v) => Kept(v)' \/ (anc[v] \cap dropped' # {})]_vars
  BY ContractStep DEF StaysKept
<1> QED
  BY <1>1, <1>2, <1>3, TypeCorrect, PTL DEF Spec, DurableOrdersStayDurable
=============================================================================
