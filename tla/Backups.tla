------------------------------ MODULE Backups ------------------------------
(***************************************************************************)
(* The backups of core/backup_manager.py: the loop and the requests that   *)
(* share a lock, the dump of a table page by page while the program writes *)
(* it, the snapshot, the fallback copy, the archive, what is kept of them  *)
(* here and on Google Drive, and the state file the schedule is read from. *)
(*                                                                         *)
(* The backup runs in a thread: a step is one of its reads or writes, and  *)
(* the process may end between two.  Backups are numbered as they are      *)
(* attempted, for the time in their files' names; one table, of numbered   *)
(* rows, stands for the fourteen.                                          *)
(***************************************************************************)
EXTENDS Integers, SequencesExt

CONSTANTS
    Rows,            \* rows of the table at first; 0 may be added before them
    PageSize,        \* batch_size
    Interval,        \* interval_hours, in ticks
    TicksPerDay, TargetSlot, WeekLength, Days,   \* the weekly schedule
    InitialSettings,
    DefaultKeep, DriveKeep,
    MaxTicks, MaxBackups, MaxBackupChanges, MaxBackupFaults   \* bounds

VARIABLES
    disk,      \* [zips, snaps, fallback, state]: data/backups, fallback, backup_state.json
    drive,     \* files on Google Drive, newest first
    settings,  \* [enabled, type, keep, linked]: the rows of system_config
    table,
    backup,    \* {} or the backup under way
    queue,     \* who waits for the lock or holds it, first come first
    loop,      \* backup_loop: it looks, sleeps, or waits for its backup
    ticks,
    past       \* histories for the properties, and what bounds failures and changes

\* What is entered on the settings' page, whose field asks for at least one archive to keep
\* (min={1}); the handler takes any number.
BackupSettings == [enabled : BOOLEAN, type : {"interval", "weekly"}, keep : Nat \ {0}, linked : BOOLEAN]

ASSUME BackupsAssumption ==
    /\ Rows \subseteq Nat \ {0} /\ IsFiniteSet(Rows)
    /\ PageSize \in Nat \ {0}
    /\ InitialSettings \subseteq BackupSettings /\ DefaultKeep \in Nat \ {0}

backupVars == <<disk, drive, settings, table, backup, queue, loop, ticks, past>>

Numbers == 1..MaxBackups
Defaults == [enabled |-> TRUE, type |-> "interval", keep |-> DefaultKeep, linked |-> FALSE]

BackupsInit ==
    /\ disk = [zips |-> {}, snaps |-> {}, fallback |-> 0,
               state |-> [success |-> {}, file |-> 0, status |-> "none"]]
    /\ drive = <<>>
    /\ settings \in InitialSettings
    /\ table = Rows
    /\ backup = {}
    /\ queue = <<>>
    /\ loop = "looks"
    /\ ticks = 0
    /\ past = [attempts |-> 0, made |-> {}, least |-> settings.keep, unkempt |-> {}, uncopied |-> FALSE,
               changes |-> 0, faults |-> 0]

BackupFault == past.faults < MaxBackupFaults
BackupFaulty(h) == [h EXCEPT !.faults = @ + 1]
Change == past.changes < MaxBackupChanges
Changed(h) == [h EXCEPT !.changes = @ + 1]

\* A read of system_config that fails leaves the defaults.
Configs == {settings} \cup (IF BackupFault THEN {Defaults} ELSE {})
Paid(h, cfg) == IF cfg = settings THEN h ELSE BackupFaulty(h)

(***************************************************************************)
(* The schedule.                                                           *)
(***************************************************************************)
DayOf(t) == t \div TicksPerDay
SlotOf(t) == t % TicksPerDay

DueByInterval(last) == \A t \in last : ticks - t >= Interval

DueByWeek(last) ==
    /\ DayOf(ticks) % WeekLength \in Days
    /\ SlotOf(ticks) >= TargetSlot
    /\ \A t \in last : DayOf(t) # DayOf(ticks)

ShouldRunBackup(cfg, last) ==
    cfg.enabled /\ IF cfg.type = "weekly" THEN DueByWeek(last) ELSE DueByInterval(last)

LoopLooks ==
    /\ loop = "looks"
    /\ \E cfg \in Configs :
         /\ past' = Paid(past, cfg)
         /\ IF ShouldRunBackup(cfg, disk.state.success)
            THEN loop' = "waits" /\ queue' = Append(queue, "loop")
            ELSE loop' = "sleeps" /\ UNCHANGED queue
    /\ UNCHANGED <<disk, drive, settings, table, backup, ticks>>

\* /backup now, or the manager's request.
AskBackup ==
    /\ ~Contains(queue, "user") /\ past.attempts < MaxBackups
    /\ queue' = Append(queue, "user")
    /\ UNCHANGED <<disk, drive, settings, table, backup, loop, ticks, past>>

(***************************************************************************)
(* One backup.                                                             *)
(***************************************************************************)
AtStep(step) == \E b \in backup : b.step = step
Now == CHOOSE b \in backup : TRUE
GoTo(step) == backup' = {[Now EXCEPT !.step = step]}

\* trigger_backup has the lock; the attempt is noted before the tables are read.
Begin ==
    /\ queue # <<>> /\ backup = {} /\ past.attempts < MaxBackups
    /\ \E cfg \in Configs :
         /\ backup' = {[n |-> past.attempts + 1, step |-> "dump", at |-> ticks, keep |-> cfg.keep,
                        from |-> 0, rows |-> {}, stayed |-> table, gone |-> {}]}
         /\ past' = [Paid(past, cfg) EXCEPT !.attempts = @ + 1]
    /\ UNCHANGED <<disk, drive, settings, table, queue, loop, ticks>>

\* The lock goes to the next; the loop sleeps once its backup is over.
Release ==
    /\ backup' = {}
    /\ queue' = Tail(queue)
    /\ loop' = IF Head(queue) = "loop" THEN "sleeps" ELSE loop

StateWritten(d, state, h) ==
    \/ disk' = [d EXCEPT !.state = state] /\ past' = h
    \/ BackupFault /\ disk' = d /\ past' = BackupFaulty(h)

\* The database is gone, a page is not read, the snapshot or the archive is not
\* written: what is there stays, and the last success too.
BackupFails ==
    /\ BackupFault
    /\ AtStep("dump") \/ AtStep("snapshot") \/ AtStep("pack")
    /\ StateWritten(disk, [disk.state EXCEPT !.status = "error"], BackupFaulty(past))
    /\ Release
    /\ UNCHANGED <<drive, settings, table, ticks>>

PageShortOfOne(rows, from) ==
    {r \in rows : Cardinality({q \in rows : q < r}) \in from..(from + PageSize - 2)}
Page(rows, from) == {r \in rows : Cardinality({q \in rows : q < r}) \in from..(from + PageSize - 1)}

DumpPage ==
    /\ AtStep("dump")
    /\ LET page == Page(table, Now.from)
       IN  backup' = {[Now EXCEPT !.rows = @ \cup page, !.from = @ + PageSize,
                                  !.step = IF Cardinality(page) < PageSize THEN "snapshot" ELSE "dump"]}
    /\ UNCHANGED <<disk, drive, settings, table, queue, loop, ticks, past>>

\* The program goes on writing the table.
RowChanges ==
    /\ AtStep("dump") /\ Change
    /\ \/ table' = table \cup {0} /\ 0 \notin table /\ UNCHANGED backup
       \/ \E r \in table :
            /\ table' = table \ {r}
            /\ backup' = {[Now EXCEPT !.stayed = @ \ {r}, !.gone = @ \cup {r}]}
    /\ past' = Changed(past)
    /\ UNCHANGED <<disk, drive, settings, queue, loop, ticks>>

WriteSnapshot ==
    /\ AtStep("snapshot")
    /\ disk' = [disk EXCEPT !.snaps = @ \cup {Now.n}]
    /\ backup' = {[Now EXCEPT !.step = "copy", !.rows = {}, !.stayed = {}, !.gone = {}]}
    /\ UNCHANGED <<drive, settings, table, queue, loop, ticks, past>>

\* A copy that fails is only logged.
CopyFallback ==
    /\ AtStep("copy")
    /\ \/ /\ disk' = [disk EXCEPT !.fallback = Now.n]
          /\ past' = [past EXCEPT !.uncopied = FALSE]
       \/ /\ BackupFault
          /\ past' = [BackupFaulty(past) EXCEPT !.uncopied = TRUE]
          /\ UNCHANGED disk
    /\ GoTo("pack")
    /\ UNCHANGED <<drive, settings, table, queue, loop, ticks>>

PackageBackupZip ==
    /\ AtStep("pack")
    /\ disk' = [disk EXCEPT !.zips = @ \cup {Now.n}]
    /\ past' = [past EXCEPT !.made = @ \cup {Now.n}]
    /\ GoTo("prune")
    /\ UNCHANGED <<drive, settings, table, queue, loop, ticks>>

Oldest(files, keep) == {f \in files : Cardinality({g \in files : g < f}) < keep}
Newest(files, keep) == {f \in files : Cardinality({g \in files : g > f}) < keep}

\* Files that are not deleted are only logged.
PruneLocalBackups ==
    /\ AtStep("prune")
    /\ LET old == (disk.zips \ Newest(disk.zips, Now.keep)) \cup (disk.snaps \ Newest(disk.snaps, Now.keep))
       IN  \E left \in {{}} \cup IF BackupFault THEN {{f} : f \in old} ELSE {} :
             /\ disk' = [disk EXCEPT !.zips = Newest(@, Now.keep) \cup (@ \cap left),
                                     !.snaps = Newest(@, Now.keep) \cup (@ \cap left)]
             /\ past' = [(IF left = {} THEN past ELSE BackupFaulty(past)) EXCEPT
                           !.least = IF Now.keep < @ THEN Now.keep ELSE @, !.unkempt = left]
    /\ GoTo("upload")
    /\ UNCHANGED <<drive, settings, table, queue, loop, ticks>>

(***************************************************************************)
(* Google Drive: an upload whose answer is lost is made again another way. *)
(***************************************************************************)
PruneDrive(files) == SubSeq(files, 1, Min({Len(files), DriveKeep}))

Finish(status) ==
    /\ StateWritten(disk, [success |-> {Now.at}, file |-> Now.n, status |-> status], past)
    /\ Release
    /\ UNCHANGED <<settings, table, ticks>>

\* Credentials that cannot be read are none: nothing is uploaded and all is well.
NotUploaded == AtStep("upload") /\ (~settings.linked \/ BackupFault) /\ UNCHANGED drive /\ Finish("success")

Copies == {1} \cup IF BackupFault THEN {2} ELSE {}

Uploaded ==
    /\ AtStep("upload") /\ settings.linked
    /\ \E copies \in Copies :
         LET files == [i \in 1..copies |-> Now.n] \o drive
         IN  drive' \in {PruneDrive(files)} \cup IF BackupFault THEN {files} ELSE {}
    /\ Finish("success")

\* Neither the token, the folder nor the upload; the file may be there all the same.
UploadFails ==
    /\ AtStep("upload") /\ settings.linked /\ BackupFault
    /\ drive' \in {drive, <<Now.n>> \o drive}
    /\ Finish("partial_error")

(***************************************************************************)
(* The manager's settings, time in sleeps of the loop, and restarts.       *)
(***************************************************************************)
\* Key by key: a write that fails leaves the keys before it.
SaveBackupConfig(new) ==
    /\ Change
    /\ \E written \in 1..3 :
         /\ written = 3 \/ BackupFault
         /\ settings' = [settings EXCEPT !.enabled = new.enabled,
                                         !.type = IF written > 1 THEN new.type ELSE @,
                                         !.keep = IF written > 2 THEN new.keep ELSE @]
         /\ past' = Changed(IF written = 3 THEN past ELSE BackupFaulty(past))
    /\ UNCHANGED <<disk, drive, table, backup, queue, loop, ticks>>

\* The refresh token is stored encrypted; without its row nothing was linked.
LinkDrive ==
    /\ Change /\ ~settings.linked
    /\ settings' = [settings EXCEPT !.linked = TRUE]
    /\ past' = Changed(past)
    /\ UNCHANGED <<disk, drive, table, backup, queue, loop, ticks>>

\* The token's row is emptied first; a backup under way reads it only for its upload.
UnlinkDrive ==
    /\ Change /\ settings.linked
    /\ settings' = [settings EXCEPT !.linked = FALSE]
    /\ past' = Changed(past)
    /\ UNCHANGED <<disk, drive, table, backup, queue, loop, ticks>>

\* A backup takes less than the loop's sleep.
BackupTick ==
    /\ ticks < MaxTicks /\ backup = {}
    /\ ticks' = ticks + 1
    /\ loop' = IF loop = "sleeps" THEN "looks" ELSE loop
    /\ UNCHANGED <<disk, drive, settings, table, backup, queue, past>>

\* Files half written have other names, which nothing reads.
BackupRestart ==
    /\ BackupFault
    /\ backup' = {} /\ queue' = <<>> /\ loop' = "looks"
    /\ past' = BackupFaulty(past)
    /\ UNCHANGED <<disk, drive, settings, table, ticks>>

NewBackupSettings == [enabled : BOOLEAN, type : {"interval", "weekly"}, keep : Nat \ {0}]

BackupsNext ==
    \/ LoopLooks \/ AskBackup \/ Begin
    \/ DumpPage \/ RowChanges \/ WriteSnapshot \/ CopyFallback
    \/ PackageBackupZip \/ PruneLocalBackups \/ BackupFails
    \/ NotUploaded \/ Uploaded \/ UploadFails
    \/ \E new \in NewBackupSettings : SaveBackupConfig(new)
    \/ LinkDrive \/ UnlinkDrive
    \/ BackupTick \/ BackupRestart

BackupsSpec == BackupsInit /\ [][BackupsNext]_backupVars
----------------------------------------------------------------------------
BackupsTypeOK ==
    /\ disk.zips \subseteq Numbers /\ disk.snaps \subseteq Numbers /\ disk.fallback \in 0..MaxBackups
    /\ disk.state.status \in {"none", "error", "success", "partial_error"}
    /\ ToSet(drive) \subseteq Numbers
    /\ table \subseteq Rows \cup {0}
    /\ Cardinality(backup) <= 1
    /\ loop \in {"looks", "sleeps", "waits"}
    /\ loop = "waits" <=> Contains(queue, "loop")

\* A row that is in the table from the dump's first page to its last is in the dump, but
\* where a row before it is deleted meanwhile and the rest moves up a page
\* (dump_supabase_table).
DumpMissesNothing ==
    AtStep("snapshot") => \A r \in Now.stayed : r \in Now.rows \/ \E q \in Now.gone : q < r

\* The archives kept are the newest ever packed, as many as the smallest number configured
\* and no older than the number of the last backup says; the state names one of those or
\* one a later archive replaced, and the fallback is no older than it (execute_full_backup_sync,
\* prune_local_backups).
ArchivesKept ==
    /\ Newest(past.made, past.least) \subseteq disk.zips
    /\ AtStep("upload") => disk.zips \subseteq Newest(disk.zips, Now.keep) \cup past.unkempt
    /\ disk.state.file \in past.made \cup {0}
    /\ disk.state.file > 0 => \E z \in disk.zips : z >= disk.state.file
    /\ disk.fallback >= disk.state.file \/ past.uncopied
============================================================================
