-------------------------- MODULE UserStoreProofs --------------------------
(***************************************************************************)
(* A proof about UserStore, for any number of loops that read, of writes   *)
(* in flight, changes, failures and restarts.                              *)
(***************************************************************************)
EXTENDS UserStore, TLAPS

ARow == [status : TheStatuses, own : Int]
History == [own : Int, status : TheStatuses, ownLost : BOOLEAN, statusLost : BOOLEAN,
            changes : Int, faults : Int]
Writes == users.tasks \cup users.queue

\* What the argument needs of the types.
Shape ==
    /\ noted \in History
    /\ users.mem \subseteq ARow /\ users.file \subseteq ARow
    /\ users = [mem |-> users.mem, file |-> users.file, tasks |-> users.tasks,
                queue |-> users.queue, admin |-> users.admin]
    /\ users.tasks \subseteq [row : ARow, live : BOOLEAN, n : Int]
    /\ users.queue \subseteq [row : ARow, live : BOOLEAN]
    /\ users.admin \in BOOLEAN
    /\ userTable \subseteq ARow /\ userTable # {}
    /\ reads \in [Loops -> SUBSET ARow]

\* Unless one was overwritten, no row on its way has another status than the table.
StatusKnown ==
    ~noted.statusLost =>
        /\ \A r \in userTable : r.status = noted.status
        /\ \A w \in Writes : w.row.status = noted.status

\* Unless some were lost, the copy has the last settings and so has the one row on its
\* way, or the table if there is none.
OwnKnown ==
    ~noted.ownLost =>
        /\ users.mem # {} /\ \A u \in users.mem : u.own = noted.own
        /\ \A w \in Writes : w.row.own = noted.own
        /\ users.tasks = {} \/ users.queue = {}
        /\ \A v, w \in users.tasks : v = w
        /\ ~UnderWay => \A r \in userTable : r.own = noted.own

UsersInv == Shape /\ StatusKnown /\ OwnKnown

(* At the start the one user is the same everywhere.                       *)
LEMMA InitInv == UsersInit => UsersInv
<1> SUFFICES ASSUME UsersInit PROVE UsersInv
  OBVIOUS
<1>1. Row("active", 0) \in ARow
  BY DEF Row, ARow, TheStatuses
<1>2. PICK admin \in BOOLEAN : users = [mem |-> {Row("active", 0)}, file |-> {}, tasks |-> {},
                                        queue |-> {}, admin |-> admin]
  BY DEF UsersInit
<1>3. noted.own = 0 /\ noted.status = "active" /\ noted \in History
  BY DEF UsersInit, History, TheStatuses
<1>4. Shape
  BY <1>1, <1>2, <1>3 DEF UsersInit, Shape
<1>5. Row("active", 0).own = 0 /\ Row("active", 0).status = "active"
  BY DEF Row
<1> QED
  BY <1>2, <1>3, <1>4, <1>5 DEF UsersInit, UsersInv, StatusKnown, OwnKnown, Writes, UnderWay

(* Sending the row a user has, with the settings the history says were made *)
(* last, is the step of every write of the bot's.                           *)
LEMMA UpsertInv ==
    ASSUME UsersInv, NEW row \in ARow, UpsertUser(row), NEW own \in Int,
           noted' = [Sent(noted, row) EXCEPT !.own = own],
           ~noted.ownLost /\ ~UnderWay => row.own = own,
           UNCHANGED <<userTable, reads>>
    PROVE  UsersInv'
<1> USE DEF UsersInv
<1>1. PICK n \in 1..MaxUserTasks :
         users' = [users EXCEPT !.mem = {row}, !.queue = Follow(@, row),
                                !.tasks = @ \cup {[row |-> row, live |-> TRUE, n |-> n]}]
  BY DEF UpsertUser
<1>2. /\ users'.mem = {row} /\ users'.file = users.file /\ users'.admin = users.admin
      /\ users'.queue = Follow(users.queue, row)
      /\ users'.tasks = users.tasks \cup {[row |-> row, live |-> TRUE, n |-> n]}
  BY <1>1 DEF Shape
<1>3. /\ noted'.own = own /\ noted'.status = noted.status
      /\ ~noted'.statusLost => ~noted.statusLost /\ row.status = noted.status
      /\ ~noted'.ownLost => ~noted.ownLost /\ ~UnderWay
      /\ noted' \in History
  BY DEF Sent, Shape, History, ARow, UnderWay
<1>4. \A q \in Follow(users.queue, row) :
         /\ q \in [row : ARow, live : BOOLEAN]
         /\ \E p \in users.queue : q.row.status = p.row.status
  BY DEF Follow, Shape, ARow
<1>5. Shape'
  <2>1. [row |-> row, live |-> TRUE, n |-> n] \in [row : ARow, live : BOOLEAN, n : Int]
    OBVIOUS
  <2> QED
    BY <1>1, <1>2, <1>3, <1>4, <2>1 DEF Shape
<1>6. StatusKnown'
  <2> SUFFICES ASSUME ~noted'.statusLost
               PROVE  /\ \A r \in userTable' : r.status = noted.status
                      /\ \A w \in Writes' : w.row.status = noted.status
    BY <1>3 DEF StatusKnown
  <2>1. ~noted.statusLost /\ row.status = noted.status
    BY <1>3
  <2>2. \A w \in users'.tasks : w \in users.tasks \/ w.row = row
    BY <1>2
  <2> QED
    BY <1>2, <1>4, <2>1, <2>2 DEF StatusKnown, Writes
<1>7. OwnKnown'
  <2> SUFFICES ASSUME ~noted'.ownLost PROVE OwnKnown'
    BY DEF OwnKnown
  <2>1. ~noted.ownLost /\ users.tasks = {} /\ users.queue = {} /\ row.own = own
    BY <1>3 DEF UnderWay
  <2>2. users'.queue = {} /\ users'.tasks = {[row |-> row, live |-> TRUE, n |-> n]}
    BY <1>2, <2>1 DEF Follow
  <2>3. \A w \in Writes' : w.row = row
    BY <2>2 DEF Writes
  <2>4. UnderWay'
    BY <2>2 DEF UnderWay
  <2> QED
    BY <1>2, <1>3, <2>1, <2>2, <2>3, <2>4 DEF OwnKnown
<1> QED
  BY <1>5, <1>6, <1>7

(* Replacing the copy with rows of the table, new or old.                   *)
LEMMA ReplaceInv ==
    ASSUME UsersInv, NEW rows \in SUBSET ARow, rows # {},
           users' = Replaced(users, rows), noted' = Stale(noted, rows),
           UNCHANGED userTable, reads' \in [Loops -> SUBSET ARow]
    PROVE  UsersInv'
<1> USE DEF UsersInv
<1>1. /\ users'.mem = rows /\ users'.file = users.file /\ users'.admin = users.admin
      /\ users'.tasks = {[t EXCEPT !.live = FALSE] : t \in users.tasks}
      /\ users'.queue = {[q EXCEPT !.live = FALSE] : q \in users.queue}
  BY DEF Replaced, Shape
<1>2. \A t \in users.tasks : /\ [t EXCEPT !.live = FALSE] \in [row : ARow, live : BOOLEAN, n : Int]
                             /\ [t EXCEPT !.live = FALSE].row = t.row
  BY DEF Shape
<1>3. \A q \in users.queue : /\ [q EXCEPT !.live = FALSE] \in [row : ARow, live : BOOLEAN]
                             /\ [q EXCEPT !.live = FALSE].row = q.row
  BY DEF Shape
<1>4. /\ noted'.own = noted.own /\ noted'.status = noted.status
      /\ noted'.statusLost = noted.statusLost
      /\ ~noted'.ownLost => ~noted.ownLost /\ \A r \in rows : r.own = noted.own
      /\ noted' \in History
  BY DEF Stale, Shape, History
<1>5. Shape'
  <2>1. users' = [mem |-> users'.mem, file |-> users'.file, tasks |-> users'.tasks,
                  queue |-> users'.queue, admin |-> users'.admin]
    BY DEF Replaced, Shape
  <2> QED
    BY <1>1, <1>2, <1>3, <1>4, <2>1 DEF Shape
<1>6. /\ \A w \in users'.tasks : \E v \in users.tasks : w.row = v.row /\ w = [v EXCEPT !.live = FALSE]
      /\ \A w \in users'.queue : \E v \in users.queue : w.row = v.row
  BY <1>1, <1>2, <1>3
<1>7. StatusKnown'
  BY <1>4, <1>6 DEF StatusKnown, Writes
<1>8. OwnKnown'
  <2> SUFFICES ASSUME ~noted'.ownLost PROVE OwnKnown'
    BY DEF OwnKnown
  <2>1. ~noted.ownLost /\ \A r \in rows : r.own = noted.own
    BY <1>4
  <2>2. \A w \in Writes' : w.row.own = noted.own
    BY <1>6, <2>1 DEF OwnKnown, Writes
  <2>3. users'.tasks = {} \/ users'.queue = {}
    BY <1>6, <2>1 DEF OwnKnown
  <2>4. \A v, w \in users'.tasks : v = w
    BY ZenonT(30), <1>6, <2>1 DEF OwnKnown
  <2>5. ASSUME ~UnderWay' PROVE ~UnderWay
    <3>1. \A t \in users.tasks : [t EXCEPT !.live = FALSE] \in users'.tasks
      BY <1>1
    <3>2. \A q \in users.queue : [q EXCEPT !.live = FALSE] \in users'.queue
      BY <1>1
    <3> QED
      BY <2>5, <3>1, <3>2 DEF UnderWay
  <2> QED
    BY <1>1, <1>4, <2>1, <2>2, <2>3, <2>4, <2>5 DEF OwnKnown
<1> QED
  BY <1>5, <1>7, <1>8

(* A settings command, a new name and /start all send one row: the copy's, *)
(* or a blank one for a user the copy does not know.                       *)
LEMMA BotWrites ==
    ASSUME UsersInv, ChangeSettings \/ AddUser \/ UpdateUsername
    PROVE  UsersInv'
<1> USE DEF UsersInv
<1>1. ASSUME Known PROVE User \in users.mem
  BY <1>1 DEF Known, User
<1>2. noted.own \in Int /\ noted.own + 1 \in Int
  BY DEF Shape, History
<1>3. CASE ChangeSettings
  <2>1. User \in users.mem /\ User \in ARow
    BY <1>1, <1>3 DEF ChangeSettings, IsUserActive, Shape
  <2> DEFINE row == [User EXCEPT !.own = noted.own + 1]
  <2>2. row \in ARow /\ row.own = noted.own + 1 /\ row.status = User.status
    BY <1>2, <2>1 DEF ARow
  <2>3. noted' = [Sent(noted, row) EXCEPT !.own = noted.own + 1]
    BY <1>3, <2>2 DEF ChangeSettings, Sent, Shape, History
  <2>4. UpsertUser(row) /\ UNCHANGED <<userTable, reads>>
    BY <1>3 DEF ChangeSettings
  <2> HIDE DEF row
  <2> QED
    BY <1>2, <2>2, <2>3, <2>4, UpsertInv
<1>4. CASE AddUser
  <2> DEFINE row == Row("pending", 0)
  <2>1. row \in ARow
    BY DEF Row, ARow, TheStatuses
  <2>2. noted' = [Sent(noted, row) EXCEPT !.own = noted.own]
    BY <1>4 DEF AddUser, Sent, Shape, History
  <2>3. UpsertUser(row) /\ UNCHANGED <<userTable, reads>>
    BY <1>4 DEF AddUser
  <2>4. noted.ownLost
    BY <1>4 DEF AddUser, Known, OwnKnown
  <2> HIDE DEF row
  <2> QED
    BY <1>2, <2>1, <2>2, <2>3, <2>4, UpsertInv
<1>5. CASE UpdateUsername
  <2>1. User \in users.mem /\ User \in ARow
    BY <1>1, <1>5 DEF UpdateUsername, IsUserActive, Shape
  <2>2. noted' = [Sent(noted, User) EXCEPT !.own = noted.own]
    BY <1>5 DEF UpdateUsername, Sent, Shape, History
  <2>3. UpsertUser(User) /\ UNCHANGED <<userTable, reads>>
    BY <1>5 DEF UpdateUsername
  <2>4. ~noted.ownLost => User.own = noted.own
    BY <2>1 DEF OwnKnown
  <2> QED
    BY <1>2, <2>1, <2>2, <2>3, <2>4, UpsertInv
<1> QED
  BY <1>3, <1>4, <1>5

(* Counting a fault changes nothing the argument is about.                 *)
LEMMA FaultyKeeps ==
    ASSUME NEW h \in History
    PROVE  /\ UserFaulty(h) \in History /\ UserFaulty(h).own = h.own /\ UserFaulty(h).status = h.status
           /\ UserFaulty(h).ownLost <=> h.ownLost
           /\ UserFaulty(h).statusLost <=> h.statusLost
  BY DEF UserFaulty, History

(* A write that ends moves its row to the table or to the queue, and the   *)
(* queue moves its row to the table.                                       *)
LEMMA WritesEnd ==
    ASSUME UsersInv, (\E t \in users.tasks : UserWriteDone(t) \/ UserWriteFails(t)) \/ SyncQueue
    PROVE  UsersInv'
<1> USE DEF UsersInv
<1>1. ASSUME NEW t \in users.tasks, UserWriteDone(t) PROVE UsersInv'
  <2>1. /\ users'.mem = users.mem /\ users'.file = users.file /\ users'.admin = users.admin
        /\ users'.tasks = users.tasks \ {t} /\ users'.queue = users.queue
        /\ userTable' = {t.row} /\ UNCHANGED <<reads, noted>>
        /\ users' = [mem |-> users'.mem, file |-> users'.file, tasks |-> users'.tasks,
                     queue |-> users'.queue, admin |-> users'.admin]
    BY <1>1 DEF UserWriteDone, Shape
  <2>2. t.row \in ARow /\ t \in Writes
    BY DEF Shape, Writes
  <2>3. Shape'
    BY <2>1, <2>2 DEF Shape
  <2>4. StatusKnown'
    BY <2>1, <2>2 DEF StatusKnown, Writes
  <2>5. OwnKnown'
    BY <2>1, <2>2 DEF OwnKnown, Writes, UnderWay
  <2> QED
    BY <2>3, <2>4, <2>5
<1>2. ASSUME NEW t \in users.tasks, UserWriteFails(t) PROVE UsersInv'
  <2> DEFINE q == [row |-> t.row, live |-> t.live]
  <2>1. /\ users'.mem = users.mem /\ users'.file = users.mem /\ users'.admin = users.admin
        /\ users'.tasks = users.tasks \ {t} /\ users'.queue = {q}
        /\ UNCHANGED <<userTable, reads>>
        /\ users' = [mem |-> users'.mem, file |-> users'.file, tasks |-> users'.tasks,
                     queue |-> users'.queue, admin |-> users'.admin]
    BY <1>2 DEF UserWriteFails, EnqueueTask, Shape
  <2>2. /\ noted' \in History /\ noted'.own = noted.own /\ noted'.status = noted.status
        /\ noted'.ownLost <=> noted.ownLost
        /\ noted'.statusLost <=> noted.statusLost
    BY <1>2, FaultyKeeps DEF UserWriteFails, Shape
  <2>3. q \in [row : ARow, live : BOOLEAN] /\ q.row = t.row /\ t \in Writes
    BY DEF Shape, Writes
  <2> HIDE DEF q
  <2>4. Shape'
    BY <2>1, <2>2, <2>3 DEF Shape
  <2>5. StatusKnown'
    BY <2>1, <2>2, <2>3 DEF StatusKnown, Writes
  <2>6. OwnKnown'
    BY <2>1, <2>2, <2>3 DEF OwnKnown, Writes, UnderWay
  <2> QED
    BY <2>4, <2>5, <2>6
<1>3. CASE SyncQueue
  <2>1. /\ users'.mem = users.mem /\ users'.file = users.file /\ users'.admin = users.admin
        /\ users'.tasks = users.tasks /\ users'.queue = {} /\ users.queue # {}
        /\ UNCHANGED <<reads, noted>>
        /\ users' = [mem |-> users'.mem, file |-> users'.file, tasks |-> users'.tasks,
                     queue |-> users'.queue, admin |-> users'.admin]
    BY <1>3 DEF SyncQueue, Shape
  <2>2. /\ \A r \in userTable' : \E w \in Writes : r = w.row
        /\ userTable' # {}
    BY <1>3 DEF SyncQueue, Writes
  <2>3. \A r \in userTable' : r \in ARow
    BY <2>2 DEF Shape, Writes
  <2>4. Shape'
    BY <2>1, <2>2, <2>3 DEF Shape
  <2>5. StatusKnown'
    BY <2>1, <2>2 DEF StatusKnown, Writes
  <2>6. OwnKnown'
    BY <2>1, <2>2 DEF OwnKnown, Writes, UnderWay
  <2> QED
    BY <2>4, <2>5, <2>6
<1> QED
  BY <1>1, <1>2, <1>3

(* The loops' reads, a refresh, and the reads that fail.                   *)
LEMMA Reads ==
    ASSUME UsersInv,
           (\E l \in Loops : AskRows(l) \/ ReloadFromDbAsync(l) \/ ReadFails(l)) \/ RefreshUser
    PROVE  UsersInv'
<1> USE DEF UsersInv
<1>1. ASSUME NEW l \in Loops, AskRows(l) PROVE UsersInv'
  BY <1>1 DEF AskRows, Shape, StatusKnown, OwnKnown, Writes, UnderWay
<1>2. ASSUME NEW l \in Loops, ReloadFromDbAsync(l) PROVE UsersInv'
  <2>1. reads[l] \in SUBSET ARow /\ reads[l] # {}
    BY <1>2 DEF ReloadFromDbAsync, Shape
  <2>2. reads' \in [Loops -> SUBSET ARow]
    BY <1>2 DEF ReloadFromDbAsync, Shape
  <2> QED
    BY <1>2, <2>1, <2>2, ReplaceInv DEF ReloadFromDbAsync
<1>3. ASSUME NEW l \in Loops, ReadFails(l) PROVE UsersInv'
  <2>1. /\ noted' \in History /\ noted'.own = noted.own /\ noted'.status = noted.status
        /\ noted'.ownLost <=> noted.ownLost
        /\ noted'.statusLost <=> noted.statusLost
    BY <1>3, FaultyKeeps DEF ReadFails, Shape
  <2> QED
    BY <1>3, <2>1 DEF ReadFails, Shape, StatusKnown, OwnKnown, Writes, UnderWay
<1>4. CASE RefreshUser
  BY <1>4, ReplaceInv DEF RefreshUser, Shape
<1> QED
  BY <1>1, <1>2, <1>3, <1>4

(* The manager writes its column only; a row on its way will undo it.      *)
LEMMA ManagerWrites ==
    ASSUME UsersInv, NEW status \in TheStatuses, SetUserStatus(status)
    PROVE  UsersInv'
<1> USE DEF UsersInv
<1>1. /\ noted' \in History /\ noted'.own = noted.own /\ noted'.status = status
      /\ ~noted'.ownLost => ~noted.ownLost
      /\ ~noted'.statusLost => ~UnderWay
  <2> DEFINE lost == UnderWay \/ noted.statusLost
  <2>1. lost \in BOOLEAN
    BY DEF Shape, History, UnderWay
  <2>2. noted' = [noted EXCEPT !.status = status, !.changes = noted.changes + 1,
                               !.statusLost = lost]
    BY DEF SetUserStatus
  <2>3. ~lost => ~UnderWay
    OBVIOUS
  <2> HIDE DEF lost
  <2>4. noted \in History /\ status \in TheStatuses
    BY DEF Shape
  <2>5. noted' \in History
    <3> DEFINE n == noted.changes + 1
    <3>1. n \in Int
      BY <2>4 DEF History
    <3>2. noted' = [noted EXCEPT !.status = status, !.changes = n, !.statusLost = lost]
      BY <2>2
    <3> HIDE DEF n
    <3> QED
      BY <2>1, <2>4, <3>1, <3>2, Zenon DEF History
  <2>6. /\ noted'.own = noted.own /\ noted'.status = status
        /\ ~noted'.ownLost => ~noted.ownLost
        /\ ~noted'.statusLost => ~lost
    BY <2>2, <2>4 DEF History
  <2> QED
    BY <2>3, <2>5, <2>6
<1>2. \A r \in ARow : /\ [r EXCEPT !.status = status] \in ARow
                      /\ [r EXCEPT !.status = status].status = status
                      /\ [r EXCEPT !.status = status].own = r.own
  BY DEF ARow
<1>3. /\ \A r \in userTable' : \E p \in userTable : r = [p EXCEPT !.status = status]
      /\ userTable' # {} /\ UNCHANGED <<users, reads>>
  BY DEF SetUserStatus, Shape
<1>4. \A r \in userTable' : /\ r \in ARow /\ r.status = status
                            /\ \E p \in userTable : r.own = p.own
  <2> TAKE r \in userTable'
  <2>1. PICK p \in userTable : r = [p EXCEPT !.status = status]
    BY <1>3
  <2>2. p \in ARow
    BY DEF Shape
  <2> QED
    BY <1>2, <2>1, <2>2
<1>5. Shape'
  BY <1>1, <1>3, <1>4 DEF Shape
<1>6. StatusKnown'
  BY <1>1, <1>3, <1>4 DEF StatusKnown, Writes, UnderWay
<1>7. OwnKnown'
  BY <1>1, <1>3, <1>4 DEF OwnKnown, Writes, UnderWay
<1> QED
  BY <1>5, <1>6, <1>7

(* A restart forgets the writes in flight; what it loads is the table or,  *)
(* as the history notes, something else.                                   *)
LEMMA Restarts == ASSUME UsersInv, UserRestart PROVE UsersInv'
<1> USE DEF UsersInv
<1>1. PICK load \in Loaded :
        LET rows == Administrator(load.rows)
            writes == rows # {} /\ (rows # load.rows \/ load.back)
        IN  /\ users' = [users EXCEPT !.mem = rows, !.tasks = {},
                                      !.queue = {[q EXCEPT !.live = FALSE] : q \in users.queue}]
            /\ userTable' = IF writes THEN rows ELSE userTable
            /\ reads' = [l \in Loops |-> {}]
            /\ noted' = [UserFaulty(noted) EXCEPT
                 !.ownLost = @ \/ users.tasks # {} \/ users.queue # {} \/ load.rows # userTable,
                 !.statusLost = @ \/ load.rows # userTable]
  BY DEF UserRestart
<1> DEFINE rows == Administrator(load.rows)
<1>2. load.rows \in SUBSET ARow
  BY DEF Loaded, Shape
<1>3. rows \in SUBSET ARow
  BY <1>2 DEF Administrator, Row, ARow, TheStatuses
<1>4. load.rows = userTable => rows = userTable
  BY DEF Administrator, Shape
<1>5. /\ users'.mem = rows /\ users'.file = users.file /\ users'.admin = users.admin
      /\ users'.tasks = {}
      /\ users'.queue = {[q EXCEPT !.live = FALSE] : q \in users.queue}
      /\ users' = [mem |-> users'.mem, file |-> users'.file, tasks |-> users'.tasks,
                   queue |-> users'.queue, admin |-> users'.admin]
  BY <1>1 DEF Shape
<1>6. \A q \in users.queue : /\ [q EXCEPT !.live = FALSE] \in [row : ARow, live : BOOLEAN]
                             /\ [q EXCEPT !.live = FALSE].row = q.row
  BY DEF Shape
<1>7. \A w \in users'.queue : /\ w \in [row : ARow, live : BOOLEAN]
                              /\ \E v \in users.queue : w.row = v.row
  BY <1>5, <1>6
<1>8. /\ noted' \in History /\ noted'.own = noted.own /\ noted'.status = noted.status
      /\ ~noted'.ownLost => /\ ~noted.ownLost /\ users.tasks = {} /\ users.queue = {}
                            /\ load.rows = userTable
      /\ ~noted'.statusLost => ~noted.statusLost /\ load.rows = userTable
  <2> DEFINE h == UserFaulty(noted)
  <2>1. /\ h \in History /\ h.own = noted.own /\ h.status = noted.status
        /\ h.ownLost <=> noted.ownLost
        /\ h.statusLost <=> noted.statusLost
    BY FaultyKeeps DEF Shape
  <2>2. noted' = [h EXCEPT !.ownLost = \/ h.ownLost \/ users.tasks # {} \/ users.queue # {}
                                       \/ load.rows # userTable,
                           !.statusLost = h.statusLost \/ load.rows # userTable]
    BY <1>1
  <2> HIDE DEF h
  <2> QED
    BY <2>1, <2>2 DEF History
<1>9. /\ (userTable' = rows /\ rows # {}) \/ userTable' = userTable
      /\ reads' \in [Loops -> SUBSET ARow]
  BY <1>1
<1> HIDE DEF rows
<1>10. Shape'
  BY <1>3, <1>5, <1>7, <1>8, <1>9 DEF Shape
<1>11. StatusKnown'
  BY <1>4, <1>5, <1>7, <1>8, <1>9 DEF StatusKnown, Writes
<1>12. OwnKnown'
  <2> SUFFICES ASSUME ~noted'.ownLost PROVE OwnKnown'
    BY DEF OwnKnown
  <2>1. /\ ~noted.ownLost /\ ~UnderWay /\ rows = userTable /\ userTable' = userTable
    BY <1>4, <1>8, <1>9 DEF UnderWay
  <2>2. users'.tasks = {} /\ users'.queue = {}
    BY <1>5, <1>8
  <2> QED
    BY <1>5, <1>8, <2>1, <2>2 DEF OwnKnown, Shape, Writes
<1> QED
  BY <1>10, <1>11, <1>12

(* With no write under way and none overtaken or overwritten, the table    *)
(* holds the settings the user made last, and the status the manager set.  *)
THEOREM SettingsKept == UsersSpec => []UsersKept
<1>1. UsersInv /\ [UsersNext]_userVars => UsersInv'
  <2> SUFFICES ASSUME UsersInv, [UsersNext]_userVars PROVE UsersInv'
    OBVIOUS
  <2>1. CASE ChangeSettings \/ AddUser \/ UpdateUsername
    BY <2>1, BotWrites
  <2>2. CASE (\E t \in users.tasks : UserWriteDone(t) \/ UserWriteFails(t)) \/ SyncQueue
    BY <2>2, WritesEnd
  <2>3. CASE (\E l \in Loops : AskRows(l) \/ ReloadFromDbAsync(l) \/ ReadFails(l)) \/ RefreshUser
    BY <2>3, Reads
  <2>4. CASE \E status \in TheStatuses : SetUserStatus(status)
    BY <2>4, ManagerWrites
  <2>5. CASE UserRestart
    BY <2>5, Restarts
  <2>6. CASE UNCHANGED userVars
    BY <2>6 DEF userVars, UsersInv, Shape, StatusKnown, OwnKnown, Writes, UnderWay
  <2> QED
    BY <2>1, <2>2, <2>3, <2>4, <2>5, <2>6 DEF UsersNext
<1>2. UsersInv => UsersKept
  BY DEF UsersInv, StatusKnown, OwnKnown, UsersKept
<1> QED
  BY InitInv, <1>1, <1>2, PTL DEF UsersSpec
=============================================================================
