---------------------------- MODULE BackupsProofs ----------------------------
(***************************************************************************)
(* Proofs about Backups, for any table, page, schedule and settings and    *)
(* any number of backups, changes, failures and restarts: a dump misses    *)
(* only what moved up a page, and pruning keeps the newest archives.       *)
(***************************************************************************)
EXTENDS Backups, FiniteSetTheorems, WellFoundedInduction, TLAPS

Lower(S, n) == {q \in S : q < n}
Rank(S, n) == Cardinality(Lower(S, n))
Higher(S, n) == {q \in S : q > n}

(***************************************************************************)
(* Finite sets of numbers.                                                 *)
(***************************************************************************)
\* One of them is the least.
LEMMA LeastExists ==
    ASSUME NEW S \in SUBSET Nat, IsFiniteSet(S), S # {}
    PROVE  \E a \in S : \A b \in S : a <= b
<1> DEFINE Up(a) == {q \in S : q <= a}
           Ups == {Up(a) : a \in S}
<1>1. Ups \subseteq FiniteSubsetsOf(S) /\ Ups # {}
  <2>1. \A a \in S : Up(a) \in SUBSET S
    OBVIOUS
  <2>2. \A a \in S : Up(a) \in FiniteSubsetsOf(S)
    <3> HIDE DEF Up
    <3> QED
      BY <2>1, FS_Subset DEF FiniteSubsetsOf
  <2> HIDE DEF Up
  <2> QED
    BY <2>2
<1>2. PICK U \in Ups : \A V \in Ups : <<V, U>> \notin StrictSubsetOrdering(S)
  <2> HIDE DEF Ups
  <2> QED
    BY <1>1, WFMin, FS_StrictSubsetOrderingWellFounded
<1>3. PICK a \in S : U = Up(a)
  OBVIOUS
<1>4. ASSUME NEW b \in S, ~(a <= b) PROVE FALSE
  <2>0. a \in Nat /\ b \in Nat
    OBVIOUS
  <2>1. Up(b) \subseteq Up(a)
    <3>1. ASSUME NEW q \in S PROVE q <= b => q <= a
      <4>1. q \in Nat
        OBVIOUS
      <4> QED
        BY <4>1, <2>0, <1>4
    <3> QED
      BY <3>1
  <2>2. a \in Up(a) /\ a \notin Up(b)
    BY <1>4, <2>0
  <2>3. Up(a) \subseteq S /\ Up(b) \subseteq S /\ Up(b) \in Ups
    OBVIOUS
  <2> HIDE DEF Up, Ups
  <2> QED
    BY <1>2, <1>3, <2>1, <2>2, <2>3 DEF StrictSubsetOrdering
<1> QED
  BY <1>4

\* And one the greatest.
LEMMA GreatestExists ==
    ASSUME NEW S \in SUBSET Nat, IsFiniteSet(S), S # {}
    PROVE  \E a \in S : \A b \in S : b <= a
<1> DEFINE Down(a) == {q \in S : q >= a}
           Downs == {Down(a) : a \in S}
<1>1. Downs \subseteq FiniteSubsetsOf(S) /\ Downs # {}
  <2>1. \A a \in S : Down(a) \in SUBSET S
    OBVIOUS
  <2>2. \A a \in S : Down(a) \in FiniteSubsetsOf(S)
    <3> HIDE DEF Down
    <3> QED
      BY <2>1, FS_Subset DEF FiniteSubsetsOf
  <2> HIDE DEF Down
  <2> QED
    BY <2>2
<1>2. PICK U \in Downs : \A V \in Downs : <<V, U>> \notin StrictSubsetOrdering(S)
  <2> HIDE DEF Downs
  <2> QED
    BY <1>1, WFMin, FS_StrictSubsetOrderingWellFounded
<1>3. PICK a \in S : U = Down(a)
  OBVIOUS
<1>4. ASSUME NEW b \in S, ~(b <= a) PROVE FALSE
  <2>0. a \in Nat /\ b \in Nat
    OBVIOUS
  <2>1. Down(b) \subseteq Down(a)
    <3>1. ASSUME NEW q \in S PROVE q >= b => q >= a
      <4>1. q \in Nat
        OBVIOUS
      <4> QED
        BY <4>1, <2>0, <1>4
    <3> QED
      BY <3>1
  <2>2. a \in Down(a) /\ a \notin Down(b)
    BY <1>4, <2>0
  <2>3. Down(a) \subseteq S /\ Down(b) \subseteq S /\ Down(b) \in Downs
    OBVIOUS
  <2> HIDE DEF Down, Downs
  <2> QED
    BY <1>2, <1>3, <2>1, <2>2, <2>3 DEF StrictSubsetOrdering
<1> QED
  BY <1>4

LEMMA RankType ==
    ASSUME NEW S \in SUBSET Nat, IsFiniteSet(S), NEW n \in Nat
    PROVE  /\ IsFiniteSet(Lower(S, n)) /\ Rank(S, n) \in Nat
           /\ IsFiniteSet(Higher(S, n)) /\ Cardinality(Higher(S, n)) \in Nat
<1>1. Lower(S, n) \subseteq S /\ Higher(S, n) \subseteq S
  BY DEF Lower, Higher
<1> QED
  BY <1>1, FS_Subset, FS_CardinalityType DEF Rank

\* Below an element of some rank there is one of every lesser rank.
LEMMA RanksFilled ==
    ASSUME NEW S \in SUBSET Nat, IsFiniteSet(S), NEW r \in S, NEW k \in Nat, k < Rank(S, r)
    PROVE  \E s \in S : Rank(S, s) = k
<1> DEFINE Reach == {s \in S : Rank(S, s) >= k}
<1>1. \A s \in S : Rank(S, s) \in Nat
  BY RankType
<1>2. r \in Reach /\ Reach \in SUBSET Nat /\ IsFiniteSet(Reach)
  <2>1. Reach \in SUBSET S
    OBVIOUS
  <2>2. IsFiniteSet(Reach)
    <3> HIDE DEF Reach
    <3> QED
      BY <2>1, FS_Subset
  <2>3. Rank(S, r) >= k
    BY <1>1
  <2> QED
    BY <2>1, <2>2, <2>3
<1>3. PICK s \in Reach : \A q \in Reach : s <= q
  BY <1>2, LeastExists
<1>4. s \in S /\ Rank(S, s) >= k /\ s \in Nat
  OBVIOUS
<1>5. ASSUME Rank(S, s) > k PROVE FALSE
  <2>1. Lower(S, s) \in SUBSET Nat /\ IsFiniteSet(Lower(S, s))
    BY <1>4, RankType DEF Lower
  <2>2. Lower(S, s) # {}
    BY <1>5, <1>1, <1>4, FS_EmptySet DEF Rank
  <2>3. PICK p \in Lower(S, s) : \A q \in Lower(S, s) : q <= p
    BY <2>1, <2>2, GreatestExists
  <2>4. Lower(S, p) = Lower(S, s) \ {p}
    <3>1. p \in S /\ p \in Nat /\ p < s
      BY <2>3 DEF Lower
    <3>2. ASSUME NEW q \in S PROVE q < p <=> q < s /\ q # p
      <4>1. q \in Nat
        OBVIOUS
      <4>2. q < s => q <= p
        BY <2>3 DEF Lower
      <4> QED
        BY <3>1, <4>1, <4>2, <1>4
    <3> QED
      BY <3>2 DEF Lower
  <2>5. Rank(S, p) = Rank(S, s) - 1
    <3>1. p \in Lower(S, s)
      BY <2>3
    <3>2. Cardinality(Lower(S, s) \ {p}) = Cardinality(Lower(S, s)) - 1
      BY <2>1, <3>1, FS_RemoveElement
    <3> QED
      BY <2>4, <3>2 DEF Rank
  <2>6. p \in Reach /\ p < s
    BY <2>5, <1>5, <1>1, <1>4 DEF Lower
  <2> QED
    BY <2>6, <1>3, <1>4
<1> QED
  BY <1>4, <1>5, <1>1

\* A page that is not full is the last one: no row is of a rank behind it.
LEMMA ShortPageIsLast ==
    ASSUME NEW S \in SUBSET Nat, IsFiniteSet(S), NEW from \in Nat,
           NEW r \in S, Rank(S, r) >= from + PageSize
    PROVE  Cardinality(Page(S, from)) >= PageSize
<1> DEFINE ranks == from..(from + PageSize - 1)
           f == [k \in ranks |-> CHOOSE s \in S : Rank(S, s) = k]
<1>1. PageSize \in Nat \ {0} /\ Rank(S, r) \in Nat
  BY BackupsAssumption, RankType
<1>2. ASSUME NEW k \in ranks PROVE f[k] \in S /\ Rank(S, f[k]) = k
  <2>1. k \in Nat /\ k < Rank(S, r)
    BY <1>1
  <2>2. \E s \in S : Rank(S, s) = k
    BY <2>1, RanksFilled
  <2> QED
    BY <2>2
<1>3. Page(S, from) = {s \in S : Rank(S, s) \in ranks}
  BY DEF Page, Rank, Lower
<1>4. f \in [ranks -> Page(S, from)]
  BY <1>2, <1>3
<1>5. f \in Injection(ranks, Page(S, from))
  <2> HIDE DEF f, ranks
  <2> QED
    BY <1>2, <1>4 DEF Injection, IsInjective
<1>6. IsFiniteSet(Page(S, from))
  BY <1>3, FS_Subset
<1>7. Cardinality(ranks) = PageSize
  BY <1>1, FS_Interval
<1>8. Cardinality(Page(S, from)) \in Nat
  BY <1>6, FS_CardinalityType
<1> HIDE DEF f, ranks
<1>9. Cardinality(ranks) <= Cardinality(Page(S, from))
  BY <1>5, <1>6, FS_Injection
<1> QED
  BY <1>1, <1>7, <1>8, <1>9

(***************************************************************************)
(* The invariant.                                                          *)
(***************************************************************************)
Steps == {"dump", "snapshot", "copy", "pack", "prune", "upload"}
Backup == [n : Nat, step : Steps, at : Nat, keep : Nat \ {0}, from : Nat,
           rows : SUBSET Nat, stayed : SUBSET Nat, gone : SUBSET Nat]
Statuses == {"none", "error", "success", "partial_error"}
Disk == [zips : SUBSET Nat, snaps : SUBSET Nat, fallback : Nat,
         state : [success : SUBSET Nat, file : Nat, status : Statuses]]
Past == [attempts : Nat, made : SUBSET Nat, least : Nat \ {0}, unkempt : SUBSET Nat, uncopied : BOOLEAN,
         changes : Int, faults : Int]

Typed ==
    /\ disk \in Disk /\ past \in Past /\ ticks \in Nat
    /\ settings \in BackupSettings
    /\ table \in SUBSET Nat /\ IsFiniteSet(table)
    /\ backup \subseteq Backup /\ \A b, c \in backup : b = c

\* What was in the table all the time is dumped or of a rank still to be read, where
\* nothing before it is gone.
Dumped(b) ==
    /\ b.step = "dump" => b.stayed \subseteq table
    /\ \A r \in b.stayed :
          \/ r \in b.rows \/ \E q \in b.gone : q < r
          \/ b.step = "dump" /\ Rank(table, r) >= b.from

\* The archive of the backup under way is the last attempted; what it did already.
Packed(b) ==
    /\ b.n = past.attempts /\ b.n >= 1
    /\ b.step \in {"dump", "snapshot", "copy", "pack"} => b.n \notin past.made
    /\ b.step \in {"pack", "prune", "upload"} => disk.fallback = b.n \/ past.uncopied
    /\ b.step \in {"prune", "upload"} => b.n \in past.made
    /\ b.step = "upload" => disk.zips \subseteq Newest(disk.zips, b.keep) \cup past.unkempt

\* The last archive packed is there.
Archived ==
    /\ past.made \subseteq 1..past.attempts /\ disk.zips \subseteq past.made
    /\ Newest(past.made, past.least) \subseteq disk.zips
    /\ \A a \in past.made : \E z \in disk.zips : z >= a
    /\ disk.state.file \in past.made \cup {0}
    /\ disk.fallback >= disk.state.file \/ past.uncopied

BackupsInv == Typed /\ Archived /\ \A b \in backup : Dumped(b) /\ Packed(b)

LEMMA UnderWay ==
    ASSUME Typed, NEW step, AtStep(step)
    PROVE  Now \in Backup /\ backup = {Now} /\ Now \in backup /\ Now.step = step
<1>1. PICK b \in backup : b.step = step
  BY DEF AtStep
<1>2. backup = {b} /\ b \in Backup
  BY <1>1 DEF Typed
<1>3. Now = b
  BY <1>2 DEF Now
<1> QED
  BY <1>1, <1>2, <1>3

SamePast(h) ==
    /\ h.attempts = past.attempts /\ h.made = past.made /\ h.least = past.least
    /\ h.unkempt = past.unkempt /\ h.uncopied = past.uncopied

LEMMA Counted ==
    ASSUME NEW h \in Past
    PROVE  /\ BackupFaulty(h) \in Past /\ Changed(h) \in Past
           /\ SamePast(h) => SamePast(BackupFaulty(h)) /\ SamePast(Changed(h))
<1>1. h.faults \in Int /\ h.changes \in Int
  BY DEF Past
<1>2. BackupFaulty(h) \in Past
  BY <1>1 DEF BackupFaulty, Past
<1>3. Changed(h) \in Past
  BY <1>1 DEF Changed, Past
<1>4. SamePast(h) => SamePast(BackupFaulty(h))
  BY DEF Past, SamePast, BackupFaulty
<1>5. SamePast(h) => SamePast(Changed(h))
  BY DEF Past, SamePast, Changed
<1> QED
  BY <1>2, <1>3, <1>4, <1>5

LEMMA CountedFaults ==
    ASSUME past \in Past
    PROVE  /\ SamePast(past)
           /\ BackupFaulty(past) \in Past /\ SamePast(BackupFaulty(past))
           /\ Changed(past) \in Past /\ SamePast(Changed(past))
           /\ Changed(BackupFaulty(past)) \in Past /\ SamePast(Changed(BackupFaulty(past)))
           /\ BackupFaulty(BackupFaulty(past)) \in Past /\ SamePast(BackupFaulty(BackupFaulty(past)))
           /\ \A cfg : Paid(past, cfg) \in Past /\ SamePast(Paid(past, cfg))
<1>1. SamePast(past)
  BY DEF SamePast
<1>2. BackupFaulty(past) \in Past /\ SamePast(BackupFaulty(past)) /\ Changed(past) \in Past /\ SamePast(Changed(past))
  BY <1>1, Counted
<1>3. /\ Changed(BackupFaulty(past)) \in Past /\ SamePast(Changed(BackupFaulty(past)))
      /\ BackupFaulty(BackupFaulty(past)) \in Past /\ SamePast(BackupFaulty(BackupFaulty(past)))
  BY <1>2, Counted
<1> QED
  BY <1>1, <1>2, <1>3 DEF Paid

LEMMA ConfigType == ASSUME Typed, NEW cfg \in Configs PROVE cfg.keep \in Nat \ {0}
<1>1. Defaults.keep \in Nat \ {0}
  BY BackupsAssumption DEF Defaults
<1>2. settings.keep \in Nat \ {0}
  BY DEF Typed, BackupSettings
<1> QED
  BY <1>1, <1>2 DEF Configs

\* A step that only counts itself, changes settings or time, or ends the backup.
LEMMA Beside ==
    ASSUME BackupsInv, disk' = disk, table' = table, backup' \in {backup, {}},
           past' \in Past, SamePast(past'), settings' \in BackupSettings, ticks' \in Nat
    PROVE  BackupsInv'
<1>1. Typed'
  BY DEF BackupsInv, Typed
<1>2. Archived'
  BY DEF BackupsInv, Archived, SamePast
<1>3. ASSUME NEW b \in backup' PROVE (Dumped(b) /\ Packed(b))'
  BY <1>3 DEF BackupsInv, Dumped, Packed, SamePast
<1> QED
  BY <1>1, <1>2, <1>3 DEF BackupsInv

LEMMA SettingsStand ==
    ASSUME BackupsInv, LinkDrive \/ UnlinkDrive \/ \E new \in NewBackupSettings : SaveBackupConfig(new)
    PROVE  BackupsInv'
<1>1. past \in Past /\ settings \in BackupSettings /\ ticks \in Nat
  BY DEF BackupsInv, Typed
<1>2. UNCHANGED <<disk, table, backup, ticks>>
  BY DEF LinkDrive, UnlinkDrive, SaveBackupConfig
<1>3. past' \in Past /\ SamePast(past')
  BY <1>1, CountedFaults DEF LinkDrive, UnlinkDrive, SaveBackupConfig
<1>4. settings' \in BackupSettings
  <2>1. ASSUME NEW new \in NewBackupSettings, SaveBackupConfig(new) PROVE settings' \in BackupSettings
    <3>1. PICK written \in 1..3 :
            settings' = [settings EXCEPT !.enabled = new.enabled,
                                         !.type = IF written > 1 THEN new.type ELSE settings.type,
                                         !.keep = IF written > 2 THEN new.keep ELSE settings.keep]
      BY <2>1 DEF SaveBackupConfig
    <3>2. new.enabled \in BOOLEAN /\ new.type \in {"interval", "weekly"} /\ new.keep \in Nat \ {0}
      BY DEF NewBackupSettings
    <3>3. PICK type, keep : /\ type = (IF written > 1 THEN new.type ELSE settings.type)
                            /\ keep = (IF written > 2 THEN new.keep ELSE settings.keep)
      OBVIOUS
    <3>4. type \in {"interval", "weekly"} /\ keep \in Nat \ {0}
      BY <1>1, <3>2, <3>3 DEF BackupSettings
    <3> QED
      BY <1>1, <3>1, <3>2, <3>3, <3>4 DEF BackupSettings
  <2>2. CASE LinkDrive \/ UnlinkDrive
    BY <1>1, <2>2 DEF LinkDrive, UnlinkDrive, BackupSettings
  <2> QED
    BY <2>1, <2>2
<1> QED
  BY <1>1, <1>2, <1>3, <1>4, Beside

LEMMA WaitingStands ==
    ASSUME BackupsInv, LoopLooks \/ AskBackup \/ BackupTick \/ BackupRestart
    PROVE  BackupsInv'
<1>1. past \in Past /\ settings \in BackupSettings /\ ticks \in Nat
  BY DEF BackupsInv, Typed
<1>2. past' \in Past /\ SamePast(past')
  <2>1. CASE LoopLooks
    <3>1. \E cfg \in Configs : past' = Paid(past, cfg)
      BY <2>1 DEF LoopLooks
    <3> QED
      BY <3>1, <1>1, CountedFaults
  <2>2. CASE AskBackup \/ BackupTick
    BY <2>2, <1>1 DEF AskBackup, BackupTick, SamePast
  <2>3. CASE BackupRestart
    BY <2>3, <1>1, CountedFaults DEF BackupRestart
  <2> QED
    BY <2>1, <2>2, <2>3
<1>3. UNCHANGED <<disk, table, settings>> /\ backup' \in {backup, {}} /\ ticks' \in Nat
  BY <1>1 DEF LoopLooks, AskBackup, BackupTick, BackupRestart
<1> QED
  BY <1>1, <1>2, <1>3, Beside

LEMMA Fails ==
    ASSUME BackupsInv, BackupFails
    PROVE  BackupsInv'
<1>1. Typed /\ Archived
  BY DEF BackupsInv
<1>2. backup' = {} /\ UNCHANGED <<settings, table, ticks>>
  BY DEF BackupFails, Release
<1>3. past' \in Past /\ SamePast(past')
  BY <1>1, CountedFaults DEF Typed, BackupFails, StateWritten
<1>4. /\ disk' \in Disk /\ disk'.zips = disk.zips /\ disk'.fallback = disk.fallback
      /\ disk'.state.file = disk.state.file
  <2>1. disk \in Disk
    BY <1>1 DEF Typed
  <2>2. disk' = disk \/ disk' = [disk EXCEPT !.state = [disk.state EXCEPT !.status = "error"]]
    BY DEF BackupFails, StateWritten
  <2>3. CASE disk' = [disk EXCEPT !.state = [disk.state EXCEPT !.status = "error"]]
    <3>1. disk.state \in [success : SUBSET Nat, file : Nat, status : Statuses]
      BY <2>1 DEF Disk
    <3>2. "error" \in Statuses
      BY DEF Statuses
    <3>3. /\ [disk.state EXCEPT !.status = "error"] \in [success : SUBSET Nat, file : Nat, status : Statuses]
          /\ [disk.state EXCEPT !.status = "error"].file = disk.state.file
      BY <3>1, <3>2
    <3> QED
      BY <2>1, <2>3, <3>3 DEF Disk
  <2> QED
    BY <2>1, <2>2, <2>3
<1>5. Typed'
  BY <1>1, <1>2, <1>3, <1>4 DEF Typed
<1>6. Archived'
  BY <1>1, <1>3, <1>4 DEF Archived, SamePast
<1> QED
  BY <1>2, <1>5, <1>6 DEF BackupsInv

LEMMA Begins ==
    ASSUME BackupsInv, Begin
    PROVE  BackupsInv'
<1>1. PICK cfg \in Configs :
        /\ backup' = {[n |-> past.attempts + 1, step |-> "dump", at |-> ticks, keep |-> cfg.keep,
                       from |-> 0, rows |-> {}, stayed |-> table, gone |-> {}]}
        /\ past' = [Paid(past, cfg) EXCEPT !.attempts = @ + 1]
  BY DEF Begin
<1>2. PICK b : b = [n |-> past.attempts + 1, step |-> "dump", at |-> ticks, keep |-> cfg.keep,
                    from |-> 0, rows |-> {}, stayed |-> table, gone |-> {}]
  OBVIOUS
<1>3. Typed /\ Archived /\ past \in Past
  BY DEF BackupsInv, Typed
<1>4. /\ past' \in Past /\ past'.attempts = past.attempts + 1 /\ past'.made = past.made
      /\ past'.least = past.least /\ past'.uncopied = past.uncopied
  <2>1. Paid(past, cfg) \in Past /\ SamePast(Paid(past, cfg))
    BY <1>3, CountedFaults
  <2> QED
    BY <1>1, <2>1 DEF Past, SamePast
<1>5. b \in Backup
  BY <1>2, <1>3, ConfigType DEF Typed, Backup, Past, Steps
<1>6. UNCHANGED <<disk, settings, table, ticks>> /\ backup' = {b}
  BY <1>1, <1>2 DEF Begin
<1>7. Typed'
  BY <1>3, <1>4, <1>5, <1>6 DEF Typed
<1>8. past.attempts \in Nat /\ past.made \subseteq 1..past.attempts
  BY <1>3 DEF Archived, Past
<1>9. Archived'
  <2>1. past'.made \subseteq 1..past'.attempts
    BY <1>8, <1>4
  <2> QED
    BY <2>1, <1>3, <1>4, <1>6 DEF Archived
<1>10. Dumped(b)'
  <2>1. ASSUME NEW r \in table PROVE Rank(table, r) >= 0
    BY <1>3, RankType DEF Typed
  <2>2. b.step = "dump" /\ b.stayed = table /\ b.from = 0 /\ table' = table
    BY <1>2, <1>6
  <2> QED
    BY <2>1, <2>2 DEF Dumped
<1>11. Packed(b)'
  <2>1. b.n = past'.attempts /\ b.n >= 1 /\ b.step = "dump" /\ b.n \notin past'.made
    BY <1>2, <1>4, <1>8
  <2> QED
    BY <2>1 DEF Packed
<1> QED
  BY <1>6, <1>7, <1>9, <1>10, <1>11 DEF BackupsInv

LEMMA DumpsPage ==
    ASSUME BackupsInv, DumpPage
    PROVE  BackupsInv'
<1>1. /\ Typed /\ Archived /\ Now \in Backup /\ backup = {Now} /\ Now.step = "dump"
      /\ Dumped(Now) /\ Packed(Now)
  BY UnderWay DEF DumpPage, BackupsInv
<1>2. PICK page : page = Page(table, Now.from)
  OBVIOUS
<1>3. PICK b : b = [Now EXCEPT !.rows = @ \cup page, !.from = @ + PageSize,
                               !.step = IF Cardinality(page) < PageSize THEN "snapshot" ELSE "dump"]
  OBVIOUS
<1>4. UNCHANGED <<disk, settings, table, ticks, past>> /\ backup' = {b}
  BY <1>2, <1>3 DEF DumpPage
<1>5. /\ b \in Backup /\ b.n = Now.n /\ b.rows = Now.rows \cup page /\ b.from = Now.from + PageSize
      /\ b.stayed = Now.stayed /\ b.gone = Now.gone
      /\ b.step = IF Cardinality(page) < PageSize THEN "snapshot" ELSE "dump"
  <2>1. page \in SUBSET Nat
    BY <1>1, <1>2 DEF Page, Typed
  <2>2. PageSize \in Nat /\ Now.from \in Nat
    BY <1>1, BackupsAssumption DEF Backup
  <2>3. Now.rows \cup page \in SUBSET Nat /\ Now.from + PageSize \in Nat
    <3>1. Now.rows \in SUBSET Nat
      BY <1>1 DEF Backup
    <3>2. Now.rows \cup page \in SUBSET Nat
      BY <3>1, <2>1
    <3>3. Now.from + PageSize \in Nat
      BY <2>2
    <3> QED
      BY <3>2, <3>3
  <2> QED
    BY <1>1, <1>3, <2>3 DEF Backup, Steps
<1>6. Typed'
  BY <1>1, <1>4, <1>5 DEF Typed
<1>7. Archived'
  BY <1>1, <1>4 DEF Archived
<1>8. Packed(b)'
  BY <1>1, <1>4, <1>5 DEF Packed
<1>9. Dumped(b)'
  <2>1. Now.stayed \subseteq table /\ table \in SUBSET Nat /\ IsFiniteSet(table)
    BY <1>1 DEF Dumped, Typed
  <2>2. ASSUME NEW r \in b.stayed, r \notin b.rows, \A q \in b.gone : ~(q < r)
        PROVE  b.step = "dump" /\ Rank(table, r) >= b.from
    <3>1. r \in table /\ Rank(table, r) \in Nat /\ Now.from \in Nat /\ PageSize \in Nat \ {0}
      BY <1>1, <1>5, <2>1, RankType, BackupsAssumption DEF Backup
    <3>2. Rank(table, r) >= Now.from
      BY <1>1, <1>5, <2>2 DEF Dumped
    <3>3. r \notin page
      BY <1>5, <2>2
    <3>4. Rank(table, r) \notin Now.from..(Now.from + PageSize - 1)
      BY <1>2, <3>1, <3>3 DEF Page, Rank, Lower
    <3>5. Rank(table, r) >= Now.from + PageSize
      BY <3>1, <3>2, <3>4
    <3>6. Cardinality(page) >= PageSize
      BY <1>2, <2>1, <3>1, <3>5, ShortPageIsLast
    <3>7. Page(table, Now.from) \subseteq table
      BY DEF Page
    <3>8. Cardinality(page) \in Nat
      BY <1>2, <2>1, <3>7, FS_Subset, FS_CardinalityType
    <3> QED
      BY <1>5, <3>1, <3>5, <3>6, <3>8
  <2> QED
    BY <1>4, <1>5, <2>1, <2>2 DEF Dumped
<1> QED
  BY <1>4, <1>6, <1>7, <1>8, <1>9 DEF BackupsInv

LEMMA RowsChange ==
    ASSUME BackupsInv, RowChanges
    PROVE  BackupsInv'
<1>1. /\ Typed /\ Archived /\ Now \in Backup /\ backup = {Now} /\ Now.step = "dump"
      /\ Dumped(Now) /\ Packed(Now)
  BY UnderWay DEF RowChanges, BackupsInv
<1>2. past' \in Past /\ SamePast(past') /\ UNCHANGED <<disk, settings, ticks>>
  BY <1>1, CountedFaults DEF RowChanges, Typed
<1>3. Archived'
  BY <1>1, <1>2 DEF Archived, SamePast
<1>4. table \in SUBSET Nat /\ IsFiniteSet(table)
  BY <1>1 DEF Typed
<1>5. CASE table' = table \cup {0} /\ backup' = backup
  <2>1. table' \in SUBSET Nat /\ IsFiniteSet(table')
    BY <1>4, <1>5, FS_AddElement
  <2>2. Typed'
    BY <1>1, <1>2, <1>5, <2>1 DEF Typed
  <2>3. ASSUME NEW r \in table, Rank(table, r) >= Now.from PROVE Rank(table', r) >= Now.from
    <3>1. Lower(table, r) \subseteq Lower(table', r)
      BY <1>5 DEF Lower
    <3>2. r \in Nat /\ Now.from \in Nat
      BY <1>1, <1>4 DEF Backup
    <3>3. IsFiniteSet(Lower(table', r)) /\ Rank(table', r) \in Nat /\ Rank(table, r) \in Nat
      BY <1>4, <2>1, <3>2, RankType
    <3>4. Rank(table, r) <= Rank(table', r)
      BY <3>1, <3>3, FS_Subset DEF Rank
    <3> QED
      BY <2>3, <3>2, <3>3, <3>4
  <2>4. Now.stayed \subseteq table /\ Now.stayed \subseteq table'
    BY <1>1, <1>5 DEF Dumped
  <2>5. PICK b : b = Now
    OBVIOUS
  <2>6. Dumped(b)'
    BY <1>1, <2>3, <2>4, <2>5 DEF Dumped
  <2>7. Packed(b)'
    BY <1>1, <1>2, <2>5 DEF Packed, SamePast
  <2> QED
    BY <1>1, <1>3, <1>5, <2>2, <2>5, <2>6, <2>7 DEF BackupsInv
<1>6. ASSUME NEW gone \in table, table' = table \ {gone},
             backup' = {[Now EXCEPT !.stayed = @ \ {gone}, !.gone = @ \cup {gone}]}
      PROVE  BackupsInv'
  <2>1. table' \in SUBSET Nat /\ IsFiniteSet(table')
    BY <1>4, <1>6, FS_RemoveElement
  <2>2. PICK b : b = [Now EXCEPT !.stayed = @ \ {gone}, !.gone = @ \cup {gone}]
    OBVIOUS
  <2>3. /\ b \in Backup /\ b.n = Now.n /\ b.rows = Now.rows /\ b.from = Now.from /\ b.step = "dump"
        /\ b.stayed = Now.stayed \ {gone} /\ b.gone = Now.gone \cup {gone}
    BY <1>1, <1>4, <2>2 DEF Backup
  <2>4. Typed'
    BY <1>1, <1>2, <1>6, <2>1, <2>2, <2>3 DEF Typed
  <2>5. Packed(b)'
    BY <1>1, <1>2, <2>3 DEF Packed, SamePast
  <2>6. Now.stayed \subseteq table
    BY <1>1 DEF Dumped
  <2>7. ASSUME NEW r \in b.stayed, \A q \in b.gone : ~(q < r)
        PROVE  r \in b.rows \/ Rank(table', r) >= b.from
    <3>1. r \in Nat /\ gone \in Nat /\ r # gone /\ ~(gone < r)
      BY <1>4, <2>3, <2>6, <2>7
    <3>2. Lower(table', r) = Lower(table, r)
      BY <1>6, <3>1 DEF Lower
    <3>3. r \in Now.rows \/ Rank(table, r) >= Now.from
      BY <1>1, <2>3, <2>7 DEF Dumped
    <3> QED
      BY <2>3, <3>2, <3>3 DEF Rank
  <2>8. Dumped(b)'
    BY <1>6, <2>3, <2>6, <2>7 DEF Dumped
  <2> QED
    BY <1>3, <1>6, <2>2, <2>4, <2>5, <2>8 DEF BackupsInv
<1> QED
  BY <1>5, <1>6 DEF RowChanges

LEMMA WritesSnapshot ==
    ASSUME BackupsInv, WriteSnapshot
    PROVE  BackupsInv'
<1>1. /\ Typed /\ Archived /\ Now \in Backup /\ backup = {Now} /\ Now.step = "snapshot" /\ Packed(Now)
  BY UnderWay DEF WriteSnapshot, BackupsInv
<1>2. PICK b : b = [Now EXCEPT !.step = "copy", !.rows = {}, !.stayed = {}, !.gone = {}]
  OBVIOUS
<1>3. /\ b \in Backup /\ b.n = Now.n /\ b.step = "copy" /\ b.stayed = {}
  BY <1>1, <1>2 DEF Backup, Steps
<1>4. /\ disk' \in Disk /\ disk'.zips = disk.zips /\ disk'.fallback = disk.fallback
      /\ disk'.state = disk.state
  <2>1. disk \in Disk /\ Now.n \in Nat
    BY <1>1 DEF Typed, Backup
  <2>2. disk.snaps \in SUBSET Nat
    BY <2>1 DEF Disk
  <2>3. disk.snaps \cup {Now.n} \in SUBSET Nat
    BY <2>1, <2>2
  <2>4. disk' = [disk EXCEPT !.snaps = disk.snaps \cup {Now.n}]
    BY DEF WriteSnapshot
  <2> QED
    BY <2>1, <2>3, <2>4 DEF Disk
<1>5. backup' = {b} /\ UNCHANGED <<settings, table, ticks, past>>
  BY <1>2 DEF WriteSnapshot
<1>6. Typed'
  BY <1>1, <1>3, <1>4, <1>5 DEF Typed
<1>7. Archived'
  BY <1>1, <1>4, <1>5 DEF Archived
<1>8. Packed(b)' /\ Dumped(b)'
  BY <1>1, <1>3, <1>4, <1>5 DEF Packed, Dumped
<1> QED
  BY <1>5, <1>6, <1>7, <1>8 DEF BackupsInv

LEMMA GoesTo ==
    ASSUME NEW step, Now \in Backup, GoTo(step), step \in Steps, Now.stayed = {} \/ Dumped(Now), Now.step # "dump",
           step # "dump"
    PROVE  \E b \in Backup : /\ backup' = {b} /\ b.n = Now.n /\ b.keep = Now.keep /\ b.step = step
                             /\ Dumped(b)'
<1>1. PICK b : b = [Now EXCEPT !.step = step]
  OBVIOUS
<1>2. /\ b \in Backup /\ b.n = Now.n /\ b.keep = Now.keep /\ b.step = step
      /\ b.stayed = Now.stayed /\ b.rows = Now.rows /\ b.gone = Now.gone
  BY <1>1 DEF Backup, Steps
<1>3. Dumped(b)'
  BY <1>2 DEF Dumped
<1> QED
  BY <1>1, <1>2, <1>3 DEF GoTo

LEMMA CopiesFallback ==
    ASSUME BackupsInv, CopyFallback
    PROVE  BackupsInv'
<1>1. /\ Typed /\ Archived /\ Now \in Backup /\ backup = {Now} /\ Now.step = "copy"
      /\ Packed(Now) /\ Dumped(Now)
  BY UnderWay DEF CopyFallback, BackupsInv
<1>2. PICK b \in Backup : backup' = {b} /\ b.n = Now.n /\ b.step = "pack" /\ Dumped(b)'
  BY <1>1, GoesTo DEF CopyFallback, Steps
<1>3. UNCHANGED <<settings, table, ticks>>
  BY DEF CopyFallback
<1>4. disk \in Disk /\ past \in Past /\ Now.n \in Nat
  BY <1>1 DEF Typed, Backup
<1>5. /\ disk' \in Disk /\ disk'.zips = disk.zips /\ disk'.state = disk.state
      /\ past' \in Past /\ past'.attempts = past.attempts /\ past'.made = past.made /\ past'.least = past.least
      /\ disk'.fallback = Now.n \/ past'.uncopied
  <2>1. CASE disk' = [disk EXCEPT !.fallback = Now.n] /\ past' = [past EXCEPT !.uncopied = FALSE]
    <3>1. /\ disk' \in Disk /\ disk'.zips = disk.zips /\ disk'.state = disk.state
          /\ disk'.fallback = Now.n
      BY <1>4, <2>1 DEF Disk
    <3>2. past' \in Past /\ past'.attempts = past.attempts /\ past'.made = past.made /\ past'.least = past.least
      BY <1>4, <2>1 DEF Past
    <3> QED
      BY <3>1, <3>2
  <2>2. CASE disk' = disk /\ past' = [BackupFaulty(past) EXCEPT !.uncopied = TRUE]
    <3>1. BackupFaulty(past) \in Past /\ SamePast(BackupFaulty(past))
      BY <1>4, CountedFaults
    <3>2. /\ past' \in Past /\ past'.attempts = past.attempts /\ past'.made = past.made
          /\ past'.least = past.least /\ past'.uncopied
      BY <3>1, <2>2 DEF Past, SamePast
    <3> QED
      BY <1>4, <2>2, <3>2
  <2> QED
    BY <2>1, <2>2 DEF CopyFallback
<1>6. Typed'
  BY <1>1, <1>2, <1>3, <1>5 DEF Typed
<1>7. Archived'
  <2>1. disk.state.file \in Nat /\ disk.state.file \in past.made \cup {0}
        /\ past.made \subseteq 1..past.attempts /\ past.attempts \in Nat /\ Now.n = past.attempts
    BY <1>1, <1>4 DEF Archived, Packed, Disk, Past
  <2>2. Now.n >= disk.state.file
    BY <2>1
  <2>3. disk'.fallback >= disk'.state.file \/ past'.uncopied
    BY <1>5, <2>2
  <2> QED
    BY <1>1, <1>5, <2>3 DEF Archived
<1>8. Packed(b)'
  BY <1>1, <1>2, <1>5 DEF Packed
<1> QED
  BY <1>2, <1>6, <1>7, <1>8 DEF BackupsInv

(***************************************************************************)
(* The newest of some files.                                               *)
(***************************************************************************)
\* One more, newer than all.
LEMMA NewestAfterAdding ==
    ASSUME NEW S \in SUBSET Nat, IsFiniteSet(S), NEW n \in Nat, \A q \in S : q < n, NEW keep \in Nat \ {0}
    PROVE  Newest(S \cup {n}, keep) \subseteq Newest(S, keep) \cup {n}
<1> SUFFICES ASSUME NEW f \in Newest(S \cup {n}, keep), f # n PROVE f \in Newest(S, keep)
  OBVIOUS
<1>1. f \in S /\ f \in Nat /\ Cardinality(Higher(S \cup {n}, f)) < keep
  BY DEF Newest, Higher
<1>2. Higher(S, f) \subseteq Higher(S \cup {n}, f)
  BY DEF Higher
<1>3. S \cup {n} \in SUBSET Nat /\ IsFiniteSet(S \cup {n})
  BY FS_AddElement
<1>4. /\ Cardinality(Higher(S, f)) \in Nat /\ Cardinality(Higher(S \cup {n}, f)) \in Nat
      /\ IsFiniteSet(Higher(S \cup {n}, f))
  BY <1>1, <1>3, RankType
<1>5. Cardinality(Higher(S, f)) <= Cardinality(Higher(S \cup {n}, f))
  BY <1>2, <1>4, FS_Subset
<1>6. Cardinality(Higher(S, f)) < keep
  BY <1>1, <1>4, <1>5
<1> QED
  BY <1>1, <1>6 DEF Newest, Higher

\* The newest of many are, if among some of them, among the newest of those.
LEMMA NewestOfSome ==
    ASSUME NEW T \in SUBSET Nat, IsFiniteSet(T), NEW S \in SUBSET T, NEW keep \in Nat, NEW most \in Nat, keep <= most,
           NEW f \in S, f \in Newest(T, keep)
    PROVE  f \in Newest(S, most)
<1>1. f \in Nat /\ Cardinality(Higher(T, f)) < keep /\ Higher(S, f) \subseteq Higher(T, f)
  BY DEF Newest, Higher
<1>2. IsFiniteSet(S) /\ S \in SUBSET Nat
  BY FS_Subset
<1>3. /\ Cardinality(Higher(S, f)) \in Nat /\ Cardinality(Higher(T, f)) \in Nat /\ IsFiniteSet(Higher(T, f))
  BY <1>1, <1>2, RankType
<1>4. Cardinality(Higher(S, f)) <= Cardinality(Higher(T, f))
  BY <1>1, <1>3, FS_Subset
<1>5. Cardinality(Higher(S, f)) < most
  BY <1>1, <1>3, <1>4
<1> QED
  BY <1>5 DEF Newest, Higher

\* The last file is among the newest, however few.
LEMMA LastIsNewest ==
    ASSUME NEW S \in SUBSET Nat, NEW z \in S, \A q \in S : q <= z, NEW keep \in Nat \ {0}
    PROVE  z \in Newest(S, keep)
<1>1. Higher(S, z) = {}
  <2>1. ASSUME NEW q \in S PROVE ~(q > z)
    <3>1. q \in Nat /\ z \in Nat /\ q <= z
      OBVIOUS
    <3> QED
      BY <3>1
  <2> QED
    BY <2>1 DEF Higher
<1>2. Cardinality(Higher(S, z)) = 0
  BY <1>1, FS_EmptySet
<1> QED
  BY <1>2 DEF Newest, Higher

LEMMA FilesFinite ==
    ASSUME Typed, Archived
    PROVE  /\ past.made \in SUBSET Nat /\ IsFiniteSet(past.made) /\ past.attempts \in Nat
           /\ disk.zips \in SUBSET Nat /\ IsFiniteSet(disk.zips) /\ disk.zips \subseteq past.made
           /\ \A q \in past.made : q <= past.attempts /\ q >= 1
<1>1. past.attempts \in Nat /\ past.made \subseteq 1..past.attempts /\ disk.zips \subseteq past.made
      /\ past.made \in SUBSET Nat
  BY DEF Typed, Past, Archived
<1>2. IsFiniteSet(1..past.attempts)
  BY <1>1, FS_Interval
<1>3. IsFiniteSet(past.made)
  BY <1>1, <1>2, FS_Subset
<1>4. IsFiniteSet(disk.zips)
  BY <1>1, <1>3, FS_Subset
<1> QED
  BY <1>1, <1>3, <1>4

LEMMA Packs ==
    ASSUME BackupsInv, PackageBackupZip
    PROVE  BackupsInv'
<1>1. /\ Typed /\ Archived /\ Now \in Backup /\ backup = {Now} /\ Now.step = "pack"
      /\ Packed(Now) /\ Dumped(Now)
  BY UnderWay DEF PackageBackupZip, BackupsInv
<1>2. PICK b \in Backup : backup' = {b} /\ b.n = Now.n /\ b.step = "prune" /\ Dumped(b)'
  BY <1>1, GoesTo DEF PackageBackupZip, Steps
<1>3. /\ UNCHANGED <<settings, table, ticks>>
      /\ disk' = [disk EXCEPT !.zips = disk.zips \cup {Now.n}]
      /\ past' = [past EXCEPT !.made = past.made \cup {Now.n}]
  BY DEF PackageBackupZip
<1>4. /\ past.made \in SUBSET Nat /\ IsFiniteSet(past.made) /\ past.attempts \in Nat
      /\ disk.zips \in SUBSET Nat /\ disk.zips \subseteq past.made
      /\ \A q \in past.made : q <= past.attempts /\ q >= 1
  BY <1>1, FilesFinite
<1>5. Now.n = past.attempts /\ Now.n >= 1 /\ Now.n \notin past.made /\ (disk.fallback = Now.n \/ past.uncopied)
  BY <1>1 DEF Packed
<1>6. disk \in Disk /\ past \in Past /\ past.least \in Nat \ {0}
  BY <1>1 DEF Typed, Past
<1>7. /\ disk' \in Disk /\ disk'.zips = disk.zips \cup {Now.n} /\ disk'.fallback = disk.fallback
      /\ disk'.state = disk.state
  <2>1. disk.zips \cup {Now.n} \in SUBSET Nat
    BY <1>4, <1>5
  <2> QED
    BY <2>1, <1>3, <1>6 DEF Disk
<1>8. /\ past' \in Past /\ past'.made = past.made \cup {Now.n} /\ past'.attempts = past.attempts
      /\ past'.least = past.least /\ past'.uncopied = past.uncopied
  <2>1. past.made \cup {Now.n} \in SUBSET Nat
    BY <1>4, <1>5
  <2> QED
    BY <2>1, <1>3, <1>6 DEF Past
<1>9. Typed'
  BY <1>1, <1>2, <1>3, <1>7, <1>8 DEF Typed
<1>10. \A q \in past.made : q < Now.n
  BY <1>4, <1>5
<1>11. Now.n \in Nat /\ Now.n >= 1
  BY <1>4, <1>5
<1>12. Archived'
  <2>1. past'.made \subseteq 1..past'.attempts
    BY <1>4, <1>5, <1>8, <1>11
  <2>2. Newest(past.made \cup {Now.n}, past.least) \subseteq Newest(past.made, past.least) \cup {Now.n}
    BY <1>4, <1>6, <1>10, <1>11, NewestAfterAdding
  <2>3. Newest(past'.made, past'.least) \subseteq disk'.zips
    BY <1>1, <1>7, <1>8, <2>2 DEF Archived
  <2>4. ASSUME NEW a \in past'.made PROVE \E z \in disk'.zips : z >= a
    <3>1. CASE a = Now.n
      BY <3>1, <1>7, <1>11
    <3>2. CASE a \in past.made
      BY <3>2, <1>1, <1>7 DEF Archived
    <3> QED
      BY <3>1, <3>2, <1>8
  <2> QED
    BY <1>1, <1>7, <1>8, <2>1, <2>3, <2>4 DEF Archived
<1>13. Packed(b)'
  BY <1>2, <1>5, <1>7, <1>8 DEF Packed
<1> QED
  BY <1>2, <1>9, <1>12, <1>13 DEF BackupsInv

LEMMA Prunes ==
    ASSUME BackupsInv, PruneLocalBackups
    PROVE  BackupsInv'
<1>1. /\ Typed /\ Archived /\ Now \in Backup /\ backup = {Now} /\ Now.step = "prune"
      /\ Packed(Now) /\ Dumped(Now)
  BY UnderWay DEF PruneLocalBackups, BackupsInv
<1>2. PICK b \in Backup : backup' = {b} /\ b.n = Now.n /\ b.keep = Now.keep /\ b.step = "upload" /\ Dumped(b)'
  BY <1>1, GoesTo DEF PruneLocalBackups, Steps
<1> DEFINE old == (disk.zips \ Newest(disk.zips, Now.keep)) \cup (disk.snaps \ Newest(disk.snaps, Now.keep))
           least == IF Now.keep < past.least THEN Now.keep ELSE past.least
<1>3. PICK left \in {{}} \cup IF BackupFault THEN {{f} : f \in old} ELSE {} :
        /\ disk' = [disk EXCEPT !.zips = Newest(disk.zips, Now.keep) \cup (disk.zips \cap left),
                                !.snaps = Newest(disk.snaps, Now.keep) \cup (disk.snaps \cap left)]
        /\ past' = [(IF left = {} THEN past ELSE BackupFaulty(past)) EXCEPT !.least = IF Now.keep < @ THEN Now.keep ELSE @,
                                                                           !.unkempt = left]
  BY DEF PruneLocalBackups
<1>4. /\ past.made \in SUBSET Nat /\ IsFiniteSet(past.made) /\ past.attempts \in Nat
      /\ disk.zips \in SUBSET Nat /\ IsFiniteSet(disk.zips) /\ disk.zips \subseteq past.made
      /\ \A q \in past.made : q <= past.attempts /\ q >= 1
  BY <1>1, FilesFinite
<1>5. disk \in Disk /\ past \in Past /\ Now.keep \in Nat \ {0} /\ past.least \in Nat \ {0}
  BY <1>1 DEF Typed, Past, Backup
<1>6. left \in SUBSET Nat
  <2>1. disk.snaps \in SUBSET Nat
    BY <1>5 DEF Disk
  <2>2. old \in SUBSET Nat
    BY <1>4, <2>1
  <2>3. left \in SUBSET old
    <3> HIDE DEF old
    <3> QED
      OBVIOUS
  <2> QED
    BY <2>2, <2>3
<1>7. /\ disk' \in Disk /\ disk'.zips = Newest(disk.zips, Now.keep) \cup (disk.zips \cap left)
      /\ disk'.fallback = disk.fallback /\ disk'.state = disk.state
  <2>1. /\ Newest(disk.zips, Now.keep) \cup (disk.zips \cap left) \in SUBSET Nat
        /\ Newest(disk.snaps, Now.keep) \cup (disk.snaps \cap left) \in SUBSET Nat
    BY <1>5 DEF Newest, Disk
  <2> QED
    BY <1>3, <1>5, <2>1 DEF Disk
<1>8. /\ past' \in Past /\ past'.made = past.made /\ past'.attempts = past.attempts
      /\ past'.least = least /\ past'.uncopied = past.uncopied /\ past'.unkempt = left
  <2>1. PICK h : h = IF left = {} THEN past ELSE BackupFaulty(past)
    OBVIOUS
  <2>2. h \in Past /\ SamePast(h)
    BY <1>5, <2>1, CountedFaults
  <2>3. past' = [h EXCEPT !.least = IF Now.keep < h.least THEN Now.keep ELSE h.least, !.unkempt = left]
    BY <1>3, <2>1
  <2>4. (IF Now.keep < h.least THEN Now.keep ELSE h.least) = least /\ least \in Nat \ {0}
    BY <1>5, <2>2 DEF SamePast
  <2> HIDE DEF least
  <2> QED
    BY <1>6, <2>2, <2>3, <2>4 DEF Past, SamePast
<1>9. UNCHANGED <<settings, table, ticks>>
  BY DEF PruneLocalBackups
<1>10. Typed'
  BY <1>1, <1>2, <1>7, <1>8, <1>9 DEF Typed
<1>11. least \in Nat \ {0} /\ least <= Now.keep /\ least <= past.least
  BY <1>5
<1>12. disk'.zips \subseteq disk.zips
  BY <1>7 DEF Newest
<1>13. Archived'
  <2>1. ASSUME NEW f \in Newest(past.made, least) PROVE f \in disk'.zips
    <3>1. f \in past.made
      BY DEF Newest
    <3>2. f \in Newest(past.made, past.least)
      BY <1>4, <1>5, <1>11, <2>1, <3>1, NewestOfSome
    <3>3. f \in disk.zips
      BY <1>1, <3>2 DEF Archived
    <3>4. f \in Newest(disk.zips, Now.keep)
      BY <1>4, <1>5, <1>11, <2>1, <3>3, NewestOfSome
    <3> QED
      BY <1>7, <3>4
  <2>2. ASSUME NEW a \in past.made PROVE \E z \in disk'.zips : z >= a
    <3>1. disk.zips # {}
      BY <1>1 DEF Archived
    <3>2. PICK z \in disk.zips : \A q \in disk.zips : q <= z
      BY <1>4, <3>1, GreatestExists
    <3>3. z \in Newest(disk.zips, Now.keep)
      BY <1>4, <1>5, <3>2, LastIsNewest
    <3>4. PICK y \in disk.zips : y >= a
      BY <1>1 DEF Archived
    <3>5. z \in Nat /\ y \in Nat /\ a \in Nat /\ y <= z
      BY <1>4, <3>2
    <3> QED
      BY <1>7, <3>3, <3>4, <3>5
  <2> HIDE DEF least
  <2> QED
    BY <1>1, <1>4, <1>7, <1>8, <1>12, <2>1, <2>2 DEF Archived
<1>14. Packed(b)'
  <2>1. ASSUME NEW f \in disk'.zips PROVE f \in Newest(disk'.zips, Now.keep) \cup left
    <3>1. CASE f \in Newest(disk.zips, Now.keep)
      BY <1>4, <1>5, <1>12, <3>1, NewestOfSome
    <3>2. CASE f \in left
      BY <3>2
    <3> QED
      BY <1>7, <3>1, <3>2
  <2>2. /\ Now.n = past.attempts /\ Now.n >= 1 /\ Now.n \in past.made
        /\ disk.fallback = Now.n \/ past.uncopied
    BY <1>1 DEF Packed
  <2> QED
    BY <1>2, <1>7, <1>8, <2>1, <2>2 DEF Packed
<1> QED
  BY <1>2, <1>10, <1>13, <1>14 DEF BackupsInv

LEMMA Finishes ==
    ASSUME BackupsInv, NotUploaded \/ Uploaded \/ UploadFails
    PROVE  BackupsInv'
<1>1. AtStep("upload") /\ \E status \in Statuses : Finish(status)
  BY DEF NotUploaded, Uploaded, UploadFails, Statuses
<1>2. /\ Typed /\ Archived /\ Now \in Backup /\ backup = {Now} /\ Now.step = "upload" /\ Packed(Now)
  BY <1>1, UnderWay DEF BackupsInv
<1>3. PICK status \in Statuses : Finish(status)
  BY <1>1
<1>4. backup' = {} /\ UNCHANGED <<settings, table, ticks>>
  BY <1>3 DEF Finish, Release
<1>5. disk \in Disk /\ past \in Past /\ Now.n \in Nat /\ Now.at \in Nat
  BY <1>2 DEF Typed, Backup
<1>6. past' \in Past /\ SamePast(past')
  BY <1>3, <1>5, CountedFaults DEF Finish, StateWritten
<1>7. /\ disk' \in Disk /\ disk'.zips = disk.zips /\ disk'.fallback = disk.fallback
      /\ disk'.state.file \in {disk.state.file, Now.n}
  <2>1. CASE disk' = [disk EXCEPT !.state = [success |-> {Now.at}, file |-> Now.n, status |-> status]]
    <3>1. [success |-> {Now.at}, file |-> Now.n, status |-> status]
            \in [success : SUBSET Nat, file : Nat, status : Statuses]
      BY <1>5
    <3> QED
      BY <1>5, <2>1, <3>1 DEF Disk
  <2>2. CASE disk' = disk
    BY <1>5, <2>2
  <2> QED
    BY <1>3, <2>1, <2>2 DEF Finish, StateWritten
<1>8. Typed'
  BY <1>2, <1>4, <1>6, <1>7 DEF Typed
<1>9. Archived'
  <2>1. Now.n \in past.made /\ (disk.fallback = Now.n \/ past.uncopied)
    BY <1>2 DEF Packed
  <2>2. disk'.fallback >= disk'.state.file \/ past'.uncopied
    BY <1>2, <1>5, <1>6, <1>7, <2>1 DEF Archived, SamePast, Disk
  <2> QED
    BY <1>2, <1>6, <1>7, <2>1, <2>2 DEF Archived, SamePast
<1> QED
  BY <1>4, <1>8, <1>9 DEF BackupsInv

(***************************************************************************)
(* The theorems.                                                           *)
(***************************************************************************)
LEMMA InitInv == BackupsInit => BackupsInv
<1> SUFFICES ASSUME BackupsInit PROVE BackupsInv
  OBVIOUS
<1>1. settings \in BackupSettings /\ settings.keep \in Nat \ {0}
  BY BackupsAssumption DEF BackupsInit, BackupSettings
<1>2. disk \in Disk
  BY DEF BackupsInit, Disk, Statuses
<1>3. past \in Past
  BY <1>1 DEF BackupsInit, Past
<1>4. Typed
  BY <1>1, <1>2, <1>3, BackupsAssumption DEF BackupsInit, Typed
<1>5. Newest({}, past.least) = {}
  BY DEF Newest
<1>6. Archived
  BY <1>5 DEF BackupsInit, Archived
<1> QED
  BY <1>4, <1>6 DEF BackupsInit, BackupsInv

LEMMA StepInv == BackupsInv /\ [BackupsNext]_backupVars => BackupsInv'
<1> SUFFICES ASSUME BackupsInv, [BackupsNext]_backupVars PROVE BackupsInv'
  OBVIOUS
<1>1. CASE UNCHANGED backupVars
  <2>1. past \in Past /\ settings \in BackupSettings /\ ticks \in Nat
    BY DEF BackupsInv, Typed
  <2> QED
    BY <1>1, <2>1, Beside DEF backupVars, SamePast
<1>2. CASE BackupsNext
  BY <1>2, SettingsStand, WaitingStands, Fails, Begins, DumpsPage, RowsChange, WritesSnapshot, CopiesFallback,
     Packs, Prunes, Finishes DEF BackupsNext
<1> QED
  BY <1>1, <1>2

(* A row that stays in the table while it is dumped is in the dump, unless  *)
(* a row before it is deleted meanwhile: for a table of any size, any page  *)
(* and any number of changes between two pages (dump_supabase_table).       *)
THEOREM NothingMissed == BackupsSpec => []DumpMissesNothing
<1>1. BackupsInv => DumpMissesNothing
  <2> SUFFICES ASSUME BackupsInv, AtStep("snapshot"), NEW r \in Now.stayed
               PROVE  r \in Now.rows \/ \E q \in Now.gone : q < r
    BY DEF DumpMissesNothing
  <2>1. Now.step = "snapshot" /\ Now \in backup
    BY UnderWay DEF BackupsInv
  <2> QED
    BY <2>1 DEF BackupsInv, Dumped
<1> QED
  BY InitInv, StepInv, <1>1, PTL DEF BackupsSpec

(* The archives kept are the newest ever packed, and the state file and the *)
(* fallback name what is there, for any settings, any number of backups and *)
(* any step failing or being the process's last                             *)
(* (execute_full_backup_sync, prune_local_backups).                         *)
THEOREM NewestKept == BackupsSpec => []ArchivesKept
<1>1. BackupsInv => ArchivesKept
  <2> SUFFICES ASSUME BackupsInv PROVE ArchivesKept
    OBVIOUS
  <2>1. Archived
    BY DEF BackupsInv
  <2>2. AtStep("upload") => disk.zips \subseteq Newest(disk.zips, Now.keep) \cup past.unkempt
    <3> SUFFICES ASSUME AtStep("upload")
                 PROVE  disk.zips \subseteq Newest(disk.zips, Now.keep) \cup past.unkempt
      OBVIOUS
    <3>1. Now.step = "upload" /\ Now \in backup
      BY UnderWay DEF BackupsInv
    <3> QED
      BY <3>1 DEF BackupsInv, Packed
  <2>3. disk.state.file > 0 => \E z \in disk.zips : z >= disk.state.file
    BY <2>1 DEF Archived
  <2> QED
    BY <2>1, <2>2, <2>3 DEF Archived, ArchivesKept
<1> QED
  BY InitInv, StepInv, <1>1, PTL DEF BackupsSpec
=============================================================================
