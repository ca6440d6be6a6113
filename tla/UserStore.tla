----------------------------- MODULE UserStore -----------------------------
(***************************************************************************)
(* One user in core/user_manager.py: the bot's copy in memory, the row in  *)
(* the table, which the manager writes too, the file and the queue of      *)
(* db_sync that keep what the table refused, and the two loops that        *)
(* replace the copy with the table's rows.                                 *)
(*                                                                         *)
(* status is the manager's column; own stands for what the bot writes:     *)
(* keys, preferences, watchlists.  The bot writes the whole row.           *)
(***************************************************************************)
EXTENDS Integers, FiniteSets

CONSTANTS
    Loops,                            \* order_sync_loop, signal_analysis_loop
    MaxOwn, MaxChanges, MaxUserTasks,     \* bounds: settings, the manager's writes, writes in flight
    MaxUserFaults                         \* bound on failures and restarts

VARIABLES
    users,      \* [mem, file, tasks, queue, admin]: UserManager; the sets hold at most one
                \* row, but tasks, the writes in flight; a row of the queue is live while it
                \* shares its dictionaries with the copy in memory
    userTable,
    reads,      \* the answers the loops wait for
    noted       \* histories for the properties, and what bounds faults and changes

userVars == <<users, userTable, reads, noted>>

Row(status, own) == [status |-> status, own |-> own]
TheStatuses == {"pending", "active", "inactive", "blocked"}

UsersInit ==
    /\ \E admin \in BOOLEAN :
         users = [mem |-> {Row("active", 0)}, file |-> {}, tasks |-> {}, queue |-> {}, admin |-> admin]
    /\ userTable = {Row("active", 0)}
    /\ reads = [l \in Loops |-> {}]
    /\ noted = [own |-> 0, status |-> "active", ownLost |-> FALSE, statusLost |-> FALSE,
                changes |-> 0, faults |-> 0]

UserFault == noted.faults < MaxUserFaults
UserFaulty(h) == [h EXCEPT !.faults = @ + 1]

Known == users.mem # {}
User == CHOOSE u \in users.mem : TRUE
IsUserActive == Known /\ User.status = "active"

(***************************************************************************)
(* Writes.  A row sent is the row of the moment; one sent while another is *)
(* under way may be overtaken by it, and a status the copy did not know is *)
(* overwritten.                                                            *)
(***************************************************************************)
UnderWay == users.tasks # {} \/ users.queue # {}

Sent(h, row) == [h EXCEPT !.statusLost = @ \/ row.status # h.status, !.ownLost = @ \/ UnderWay]

\* A row kept in the queue follows the copy whose dictionaries it shares.
Follow(queue, row) == {IF q.live THEN [q EXCEPT !.row.own = row.own] ELSE q : q \in queue}

UpsertUser(row) ==
    \E n \in 1..MaxUserTasks :
        /\ \A t \in users.tasks : t.n < n
        /\ n = 1 \/ \E t \in users.tasks : t.n = n - 1
        /\ users' = [users EXCEPT !.mem = {row}, !.queue = Follow(@, row),
                                  !.tasks = @ \cup {[row |-> row, live |-> TRUE, n |-> n]}]

ChangeSettings ==
    /\ IsUserActive /\ noted.own < MaxOwn
    /\ UpsertUser([User EXCEPT !.own = noted.own + 1])
    /\ noted' = [Sent(noted, User) EXCEPT !.own = @ + 1]
    /\ UNCHANGED <<userTable, reads>>

\* /start: a new user, one whose status is looked up, or one with another name.
AddUser ==
    /\ ~Known
    /\ UpsertUser(Row("pending", 0))
    /\ noted' = Sent(noted, Row("pending", 0))
    /\ UNCHANGED <<userTable, reads>>

UpdateUsername ==
    /\ IsUserActive
    /\ UpsertUser(User)
    /\ noted' = Sent(noted, User)
    /\ UNCHANGED <<userTable, reads>>

UserWriteDone(t) ==
    /\ userTable' = {t.row}
    /\ users' = [users EXCEPT !.tasks = @ \ {t}]
    /\ UNCHANGED <<reads, noted>>

EnqueueNothing(t) == {}
EnqueueTask(t) == {[row |-> t.row, live |-> t.live]}

\* The whole copy goes to the file, the row to the queue.
UserWriteFails(t) ==
    /\ UserFault
    /\ users' = [users EXCEPT !.tasks = @ \ {t}, !.file = users.mem, !.queue = EnqueueTask(t)]
    /\ noted' = UserFaulty(noted)
    /\ UNCHANGED <<userTable, reads>>

SyncQueue ==
    /\ users.queue # {}
    /\ userTable' = {q.row : q \in users.queue}
    /\ users' = [users EXCEPT !.queue = {}]
    /\ UNCHANGED <<reads, noted>>

(***************************************************************************)
(* Reads.  The rows read replace the copy, whatever it was told meanwhile. *)
(***************************************************************************)
Replaced(u, rows) ==
    [u EXCEPT !.mem = rows,
              !.tasks = {[t EXCEPT !.live = FALSE] : t \in u.tasks},
              !.queue = {[q EXCEPT !.live = FALSE] : q \in u.queue}]

\* Settings not yet in the rows are gone from memory, and the next write writes that.
Stale(h, rows) == [h EXCEPT !.ownLost = @ \/ \E r \in rows : r.own # h.own]

AskRows(l) ==
    /\ reads[l] = {}
    /\ reads' = [reads EXCEPT ![l] = userTable]
    /\ UNCHANGED <<users, userTable, noted>>

ReloadFromDbAsync(l) ==
    /\ reads[l] # {}
    /\ users' = Replaced(users, reads[l])
    /\ noted' = Stale(noted, reads[l])
    /\ reads' = [reads EXCEPT ![l] = {}]
    /\ UNCHANGED userTable

ReadFails(l) ==
    /\ reads[l] # {} /\ UserFault
    /\ reads' = [reads EXCEPT ![l] = {}]
    /\ noted' = UserFaulty(noted)
    /\ UNCHANGED <<users, userTable>>

\* /dbsync by an administrator, /start by one who waits, a notice from the manager.
RefreshUser ==
    /\ users' = Replaced(users, userTable)
    /\ noted' = Stale(noted, userTable)
    /\ UNCHANGED <<userTable, reads>>

(***************************************************************************)
(* The manager's column, and restarts.                                     *)
(***************************************************************************)
SetUserStatus(status) ==
    /\ noted.changes < MaxChanges
    /\ userTable' = {[r EXCEPT !.status = status] : r \in userTable}
    /\ noted' = [noted EXCEPT !.status = status, !.changes = @ + 1,
                              !.statusLost = UnderWay \/ noted.statusLost]
    /\ UNCHANGED <<users, reads>>

\* The table, or when it does not answer the file, which is written back if secrets or
\* defaults had to be completed and the table answers again.
Loaded == {[rows |-> userTable, back |-> FALSE]}
          \cup IF UserFault THEN [rows : {users.file}, back : BOOLEAN] ELSE {}

\* An administrator who is not among the rows is added at once, without his keys.
Administrator(rows) == IF users.admin /\ rows = {} THEN {Row("active", 0)} ELSE rows

UserRestart ==
    \E load \in Loaded :
        LET rows == Administrator(load.rows)
            writes == rows # {} /\ (rows # load.rows \/ load.back)
        IN  /\ noted.faults < MaxUserFaults
            /\ users' = [users EXCEPT !.mem = rows, !.tasks = {},
                                      !.queue = {[q EXCEPT !.live = FALSE] : q \in users.queue}]
            /\ userTable' = IF writes THEN rows ELSE userTable
            /\ reads' = [l \in Loops |-> {}]
            /\ noted' = [UserFaulty(noted) EXCEPT
                           !.ownLost = @ \/ users.tasks # {} \/ users.queue # {} \/ load.rows # userTable,
                           !.statusLost = @ \/ load.rows # userTable]

UsersNext ==
    \/ ChangeSettings \/ AddUser \/ UpdateUsername
    \/ \E t \in users.tasks : UserWriteDone(t) \/ UserWriteFails(t)
    \/ SyncQueue
    \/ \E l \in Loops : AskRows(l) \/ ReloadFromDbAsync(l) \/ ReadFails(l)
    \/ RefreshUser
    \/ \E status \in TheStatuses : SetUserStatus(status)
    \/ UserRestart

UsersSpec == UsersInit /\ [][UsersNext]_userVars
----------------------------------------------------------------------------
UsersTypeOK ==
    /\ \A row \in users.mem \cup users.file \cup userTable :
         row.status \in TheStatuses /\ row.own \in 0..MaxOwn
    /\ Cardinality(users.mem) <= 1 /\ Cardinality(userTable) = 1 /\ Cardinality(users.queue) <= 1

\* With no write under way, the row has the settings the user changed last: but for two
\* changes under way at once, a read that was under way with one, a restart before one was
\* written, or one on the file's copy.  It has the status the manager set last, but for a
\* whole row sent by a bot that did not know it (_upsert_user, reload_from_db_async,
\* _set_user_status).
UsersKept ==
    /\ ~UnderWay /\ ~noted.ownLost => \A r \in userTable : r.own = noted.own
    /\ ~noted.statusLost => \A r \in userTable : r.status = noted.status
=============================================================================
