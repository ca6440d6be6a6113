------------------------- MODULE DcaSchedulesProofs -------------------------
(***************************************************************************)
(* Proofs about DcaSchedules: for any schedules, frequencies, limits,      *)
(* delays, calendar, and numbers of orders, writes in flight and failures. *)
(***************************************************************************)
EXTENDS DcaSchedules, FiniteSetTheorems, TLAPS

(***************************************************************************)
(* The calendar: a next run is always later.                               *)
(***************************************************************************)
\* A day is Slots instants.
LEMMA DayOf ==
    ASSUME NEW t \in Nat
    PROVE  Day(t) \in Nat /\ Day(t) * Slots <= t /\ t < (Day(t) + 1) * Slots
  BY CalendarAssumption DEF Day

LEMMA ExecSlotOf == ExecSlot \in Nat
<1>1. ExecSlot \in 0..(Slots - 1)
  BY DcaAssumption
<1> QED
  BY <1>1, CalendarAssumption

LEMMA InstantType ==
    ASSUME NEW d \in Nat, NEW slot \in Nat
    PROVE  Instant(d, slot) \in Nat /\ Instant(d + 1, slot) = Instant(d, slot) + Slots
<1>1. PICK n \in Nat : n = Slots
  BY CalendarAssumption
<1> QED
  BY <1>1 DEF Instant

LEMMA LaterDay ==
    ASSUME NEW d \in Nat, NEW e \in Nat, d < e, NEW slot \in Nat
    PROVE  Instant(e, slot) \in Nat /\ Instant(e, slot) >= (d + 1) * Slots
<1>1. PICK k \in Nat : e = d + 1 + k
  BY DEF Instant
<1>2. e * Slots = (d + 1) * Slots + k * Slots /\ k * Slots \in Nat
  BY <1>1, CalendarAssumption
<1> QED
  BY <1>2, CalendarAssumption DEF Instant

LEMMA InstantOfLaterDay ==
    ASSUME NEW t \in Nat, NEW e \in Nat, Day(t) < e, NEW slot \in Nat
    PROVE  Instant(e, slot) \in Nat /\ Instant(e, slot) > t
<1>1. PICK n \in Nat : n = (Day(t) + 1) * Slots /\ t < n
  BY DayOf, CalendarAssumption
<1>2. Day(t) \in Nat
  BY DayOf
<1>3. Instant(e, slot) \in Nat /\ Instant(e, slot) >= n
  BY <1>1, <1>2, LaterDay
<1> QED
  BY <1>1, <1>3

LEMMA LeastOfAWeek ==
    ASSUME NEW d \in Nat, NEW S \in SUBSET (d..(d + 7)), S # {}
    PROVE  Min(S) \in S
<1>1. \E x \in S : \A y \in S : x <= y
  <2> SUFFICES ASSUME \A x \in S : \E y \in S : y < x PROVE FALSE
    OBVIOUS
  <2>1. \A y \in S : y \in Nat /\ d <= y /\ y <= d + 7
    OBVIOUS
  <2>2. \A y \in S : d + 1 <= y
    BY <2>1
  <2>3. \A y \in S : d + 2 <= y
    BY <2>1, <2>2
  <2>4. \A y \in S : d + 3 <= y
    BY <2>1, <2>3
  <2>5. \A y \in S : d + 4 <= y
    BY <2>1, <2>4
  <2>6. \A y \in S : d + 5 <= y
    BY <2>1, <2>5
  <2>7. \A y \in S : d + 6 <= y
    BY <2>1, <2>6
  <2>8. \A y \in S : d + 7 <= y
    BY <2>1, <2>7
  <2>9. PICK x \in S : TRUE
    OBVIOUS
  <2>10. PICK y \in S : y < x
    BY <2>9
  <2> QED
    BY <2>1, <2>8, <2>9, <2>10
<1> QED
  BY <1>1 DEF Min

LEMMA Least ==
    ASSUME NEW a \in Int, NEW b \in Int
    PROVE  Min({a, b}) \in {a, b} /\ Min({a, b}) <= a /\ Min({a, b}) <= b
<1>1. \E x \in {a, b} : \A y \in {a, b} : x <= y
  BY Z3
<1> QED
  BY <1>1 DEF Min

\* The next run after a day of the list of weekdays.
LEMMA NextOfDays ==
    ASSUME NEW days \in SUBSET Weekdays, days # {}, NEW now \in Nat, NEW after \in BOOLEAN
    PROVE  /\ NextOnDays(days, ExecSlot, now, after) \in Nat
           /\ NextOnDays(days, ExecSlot, now, after) > now
<1> DEFINE passed(day) == day = Day(now) /\ (after \/ Instant(day, ExecSlot) <= now)
<1> DEFINE candidates == {day \in Day(now)..(Day(now) + 7) : day % 7 \in days /\ ~passed(day)}
<1>1. Day(now) \in Nat /\ ExecSlot \in Nat
  BY DayOf, ExecSlotOf, CalendarAssumption
<1>2. candidates # {}
  <2>1. PICK w \in days : w \in 0..6
    BY DEF Weekdays
  <2>2. \E k \in 1..7 : (Day(now) + k) % 7 = w
    BY <2>1, <1>1
  <2>3. PICK k \in 1..7 : (Day(now) + k) % 7 = w
    BY <2>2
  <2> QED
    BY <2>1, <2>3, <1>1
<1>3. Min(candidates) \in candidates
  BY <1>1, <1>2, LeastOfAWeek
<1>4. PICK day \in Nat : day = Min(candidates) /\ day >= Day(now) /\ (day = Day(now) => Instant(day, ExecSlot) > now)
  <2>1. PICK day \in candidates : day = Min(candidates)
    BY <1>3
  <2>2. day \in Day(now)..(Day(now) + 7) /\ (day = Day(now) => ~(Instant(day, ExecSlot) <= now))
    <3>1. day \in Day(now)..(Day(now) + 7) /\ ~passed(day)
      BY <2>1
    <3> QED
      BY <3>1
  <2>3. day \in Nat /\ day >= Day(now) /\ Instant(day, ExecSlot) \in Nat
    <3> HIDE DEF candidates
    <3>1. day \in Nat /\ day >= Day(now)
      BY <1>1, <2>2
    <3> QED
      BY <1>1, <3>1, InstantType
  <2>4. day = Day(now) => Instant(day, ExecSlot) > now
    BY <2>2, <2>3
  <2> QED
    BY <2>1, <2>3, <2>4
<1>5. NextOnDays(days, ExecSlot, now, after) = Instant(day, ExecSlot)
  BY <1>4 DEF NextOnDays
<1>6. Instant(day, ExecSlot) \in Nat
  BY <1>1, <1>4, InstantType
<1> QED
  BY <1>1, <1>4, <1>5, <1>6, InstantOfLaterDay

LEMMA NextOfDay ==
    ASSUME NEW now \in Nat, NEW after \in BOOLEAN
    PROVE  NextDaily(ExecSlot, now, after) \in Nat /\ NextDaily(ExecSlot, now, after) > now
<1>1. Day(now) \in Nat /\ ExecSlot \in Nat /\ Instant(Day(now), ExecSlot) \in Nat
  BY DayOf, ExecSlotOf, InstantType
<1>2. Instant(Day(now), ExecSlot) + Slots = Instant(Day(now) + 1, ExecSlot)
  BY <1>1, InstantType
<1>3. Instant(Day(now) + 1, ExecSlot) > now
  BY <1>1, InstantOfLaterDay
<1> QED
  BY <1>1, <1>2, <1>3, CalendarAssumption DEF NextDaily

LEMMA NextOfMonth ==
    ASSUME NEW now \in Nat, now <= MaxDcaTime, NEW after \in BOOLEAN, NEW dom \in 1..MaxDayOfMonth
    PROVE  /\ NextMonthly(dom, ExecSlot, now, after) \in Nat
           /\ NextMonthly(dom, ExecSlot, now, after) > now
<1>1. Day(now) \in Nat /\ ExecSlot \in Nat
  BY DayOf, ExecSlotOf, CalendarAssumption
<1>2. Day(now) <= Day(MaxDcaTime)
  BY DcaAssumption, CalendarAssumption DEF Day
<1>3. Covered(Day(now))
  BY <1>1, <1>2, DcaAssumption, DayOf
<1> DEFINE m == MonthOf(Day(now))
<1>4. /\ m \in Months
      /\ Day(now) \in FirstDay(m)..(FirstDay(m) + MonthLengths[m] - 1)
  BY <1>3 DEF Covered, MonthOf
<1>5. PICK n \in Months : n + 1 \in Months /\ Day(now) \in FirstDay(n)..(FirstDay(n) + MonthLengths[n] - 1)
  BY <1>3 DEF Covered
<1>6. \A k \in Months : FirstDay(k) \in Nat /\ MonthLengths[k] \in Nat \ {0} /\ k \in Nat
  BY CalendarAssumption DEF Months
<1>7. ~(m < n) /\ ~(n < m)
  <2>1. \A k, l \in Months : k < l => FirstDay(k) + MonthLengths[k] <= FirstDay(l)
    BY CalendarAssumption
  <2> HIDE DEF m
  <2> QED
    BY <1>1, <1>4, <1>5, <1>6, <2>1
<1>8. m = n
  <2> HIDE DEF m
  <2> QED
    BY <1>4, <1>5, <1>6, <1>7
<1>9. FirstDay(m) + MonthLengths[m] <= FirstDay(m + 1)
  <2>1. \A k, l \in Months : k < l => FirstDay(k) + MonthLengths[k] <= FirstDay(l)
    BY CalendarAssumption
  <2> HIDE DEF m
  <2> QED
    BY <1>5, <1>6, <1>8, <2>1
<1>10. \A k \in Months : DayInMonth(dom, k) \in Nat /\ DayInMonth(dom, k) >= FirstDay(k)
  <2> SUFFICES ASSUME NEW k \in Months
              PROVE  DayInMonth(dom, k) \in Nat /\ DayInMonth(dom, k) >= FirstDay(k)
    OBVIOUS
  <2>1. PICK len \in Nat \ {0} : len = MonthLengths[k]
    BY <1>6
  <2>2. dom \in Nat \ {0}
    BY CalendarAssumption
  <2>3. Min({dom, len}) \in Nat \ {0}
    <3>1. dom \in Int /\ len \in Int
      BY <2>1, <2>2
    <3>2. Min({dom, len}) \in {dom, len}
      BY <3>1, Least
    <3> QED
      BY <2>1, <2>2, <3>2
  <2> QED
    BY <1>6, <2>1, <2>3 DEF DayInMonth
<1>11. /\ Instant(DayInMonth(dom, m), ExecSlot) \in Nat
       /\ Instant(DayInMonth(dom, m + 1), ExecSlot) \in Nat
       /\ Instant(DayInMonth(dom, m + 1), ExecSlot) > now
  <2>1. m \in Months /\ m + 1 \in Months
    BY <1>5, <1>8
  <2> HIDE DEF m
  <2>2. DayInMonth(dom, m + 1) \in Nat /\ DayInMonth(dom, m + 1) > Day(now)
    BY <1>1, <1>4, <1>6, <1>9, <1>10, <2>1
  <2> QED
    BY <1>1, <1>10, <2>1, <2>2, InstantType, InstantOfLaterDay
<1> QED
  BY <1>11 DEF NextMonthly

\* After a run, and after a schedule was added, its next run is still to come.
LEMMA NextRunIsLater ==
    ASSUME NEW freq \in Frequencies, NEW now \in Nat, now <= MaxDcaTime, NEW after \in BOOLEAN
    PROVE  NextRunAt(freq, ExecSlot, now, after) \in Nat /\ NextRunAt(freq, ExecSlot, now, after) > now
<1>1. \/ freq = Daily
      \/ \E days \in SUBSET Weekdays : days # {} /\ freq = [kind |-> "days", days |-> days, dom |-> 0]
      \/ \E dom \in 1..MaxDayOfMonth : freq = Monthly(dom)
  BY DcaAssumption DEF OnDays
<1>2. CASE freq = Daily
  BY <1>2, NextOfDay DEF NextRunAt, Daily
<1>3. CASE \E days \in SUBSET Weekdays : days # {} /\ freq = [kind |-> "days", days |-> days, dom |-> 0]
  <2>1. PICK days \in SUBSET Weekdays : days # {} /\ freq = [kind |-> "days", days |-> days, dom |-> 0]
    BY <1>3
  <2> QED
    BY <2>1, NextOfDays DEF NextRunAt
<1>4. CASE \E dom \in 1..MaxDayOfMonth : freq = Monthly(dom)
  BY <1>4, NextOfMonth DEF NextRunAt, Monthly
<1> QED
  BY <1>1, <1>2, <1>3, <1>4
(***************************************************************************)
(* Types.                                                                  *)
(***************************************************************************)
Lists == {f \in UNION {[I -> Schedule] : I \in SUBSET Ids} : \A i \in DOMAIN f : f[i].id = i}
Tasks == {t \in [op : {"put", "del"}, id : Ids, row : Schedule] : t.row.id = t.id}
Manager == [mem : Lists, file : Lists, tasks : SUBSET Tasks, fails : [Ids -> 0..(FailLimit - 1)]]
Phases == {"sleep", "flush", "fetch", "due", "next", "calendar", "price", "budget", "order"}
Passes ==
    [pc : Phases, wait : SUBSET Tasks, rows : Lists, due : SUBSET Schedule, cur : SUBSET Schedule, at : Nat]
Histories ==
    [added : SUBSET Ids, placed : [Ids -> Nat], limit : [Ids -> Nat], stopped : SUBSET Ids,
     revived : SUBSET Ids, exempt : SUBSET Ids, until : [Ids -> Nat], faults : Nat]

Types ==
    /\ dca \in Manager
    /\ dcaTable \in Lists
    /\ pass \in Passes
    /\ dcaClock \in Nat /\ dcaClock <= MaxDcaTime /\ pass.at <= dcaClock
    /\ dcaTold \in Histories

\* The copies the pass has: one a schedule at most, and none before it lists what is due.
Held == pass.due \cup pass.cur
PassHolds ==
    /\ \A s, t \in Held : s.id = t.id => s = t
    /\ pass.due \cap pass.cur = {}
    /\ pass.pc \in {"calendar", "price", "budget", "order"} => \E s \in pass.cur : pass.cur = {s}
    /\ pass.pc \notin {"calendar", "price", "budget", "order"} => pass.cur = {}
    /\ pass.pc \in {"sleep", "flush", "fetch", "due"} => pass.due = {}
    /\ pass.pc # "fetch" => DOMAIN pass.rows = {}

(***************************************************************************)
(* The invariants.                                                         *)
(***************************************************************************)
\* A copy of a schedule that was added has its limit, and has not reached it.
Sound(s) ==
    /\ s.id \in dcaTold.added
    /\ s.limit = dcaTold.limit[s.id]
    /\ s.limit > 0 => s.runs < s.limit

LimitsHold ==
    /\ \A i \in DOMAIN dca.mem : Sound(dca.mem[i])
    /\ \A i \in DOMAIN dca.file : Sound(dca.file[i])
    /\ \A i \in DOMAIN dcaTable : Sound(dcaTable[i])
    /\ \A i \in DOMAIN pass.rows : Sound(pass.rows[i])
    /\ \A s \in Held : Sound(s)
    /\ \A t \in dca.tasks : t.id \in dcaTold.added /\ (t.op = "put" => Sound(t.row))
    /\ \A i \in Ids \ dcaTold.added : dcaTold.placed[i] = 0 /\ i \notin dcaTold.stopped

\* Writes that are through before the pass reads the table.
Coming == IF pass.pc = "flush" THEN dca.tasks \cap pass.wait ELSE dca.tasks

\* Every copy of i has as many runs as i has orders; the row of the table will be written.
CountHolds(i) ==
    /\ dcaTold.limit[i] > 0 => dcaTold.placed[i] <= dcaTold.limit[i]
    /\ i \in DOMAIN dca.mem => dca.mem[i].runs = dcaTold.placed[i]
    /\ i \in DOMAIN dca.file => dca.file[i].runs = dcaTold.placed[i]
    /\ i \in DOMAIN pass.rows => pass.rows[i].runs = dcaTold.placed[i]
    /\ \A s \in Held : s.id = i => s.runs = dcaTold.placed[i]
    /\ \A t \in dca.tasks : t.id = i /\ t.op = "put" => t.row.runs = dcaTold.placed[i]
    /\ i \in DOMAIN dcaTable =>
         dcaTable[i].runs = dcaTold.placed[i] \/ \E t \in Coming : t.id = i

\* i is nowhere but in the table, where it is going to be deleted.
Gone(i) ==
    /\ i \notin DOMAIN dca.mem /\ i \notin DOMAIN dca.file
    /\ \A t \in dca.tasks : t.id = i => t.op = "del"
    /\ i \in DOMAIN dcaTable => \E t \in dca.tasks : t.op = "del" /\ t.id = i

Counts == \A i \in Ids \ dcaTold.exempt : CountHolds(i)
StopsHold ==
    /\ \A i \in dcaTold.stopped \ (dcaTold.exempt \cup dcaTold.revived) : Gone(i)
    /\ \A s \in Held : s.id \notin DOMAIN dca.mem /\ s.id \notin dcaTold.exempt => Gone(s.id)

\* What is due is still before the pass.
DueHolds ==
    pass.pc \in {"next", "calendar", "price", "budget", "order"} =>
        \A i \in DOMAIN dca.mem : dca.mem[i].next <= pass.at => \E s \in Held : s.id = i

DcaInv == Types /\ PassHolds /\ LimitsHold /\ Counts /\ StopsHold /\ DueHolds

(***************************************************************************)
(* What the operations do to the lists.                                    *)
(***************************************************************************)
\* g is f with s at i; f without what is in I.
Puts(f, g, i, s) ==
    DOMAIN g = DOMAIN f \cup {i} /\ g[i] = s /\ \A k \in DOMAIN f \ {i} : g[k] = f[k]
Drops(f, g, I) == DOMAIN g = DOMAIN f \ I /\ \A k \in DOMAIN g : g[k] = f[k]

LEMMA ListsHold ==
    /\ NothingStored \in Lists /\ DOMAIN NothingStored = {}
    /\ \A f \in Lists : /\ DOMAIN f \subseteq Ids
                        /\ \A i \in DOMAIN f : f[i] \in Schedule /\ f[i].id = i
<1>1. NothingStored \in [{} -> Schedule] /\ DOMAIN NothingStored = {} /\ {} \in SUBSET Ids
  BY DEF NothingStored
<1>2. NothingStored \in Lists
  BY <1>1 DEF Lists
<1> QED
  BY <1>1, <1>2 DEF Lists

LEMMA AList ==
    ASSUME NEW I \in SUBSET Ids, NEW f \in [I -> Schedule], \A i \in I : f[i].id = i
    PROVE  f \in Lists
  BY DEF Lists

LEMMA PutIn ==
    ASSUME NEW f \in Lists, NEW i \in Ids, NEW s \in Schedule, s.id = i,
           NEW g, g = [k \in DOMAIN f \cup {i} |-> IF k = i THEN s ELSE f[k]]
    PROVE  g \in Lists /\ Puts(f, g, i, s)
<1>1. g \in [DOMAIN f \cup {i} -> Schedule] /\ DOMAIN f \cup {i} \in SUBSET Ids
  BY ListsHold
<1>2. \A k \in DOMAIN f \cup {i} : g[k].id = k
  BY ListsHold
<1> QED
  BY <1>1, <1>2, AList DEF Puts

LEMMA TakeOut ==
    ASSUME NEW f \in Lists, NEW i, NEW g, g = Restrict(f, DOMAIN f \ {i})
    PROVE  g \in Lists /\ Drops(f, g, {i})
<1>1. g \in [DOMAIN f \ {i} -> Schedule] /\ DOMAIN f \ {i} \in SUBSET Ids
  BY ListsHold DEF Restrict
<1>2. \A k \in DOMAIN f \ {i} : g[k].id = k
  BY ListsHold DEF Restrict
<1> QED
  BY <1>1, <1>2, AList DEF Drops, Restrict

LEMMA DelaysOf ==
    FailLimit \in Nat \ {0} /\ RetryDelay \in Nat \ {0} /\ SidecarDelay \in Nat \ {0} /\ Limits \subseteq Nat
  BY DcaAssumption

PutTask(s) == [op |-> "put", id |-> s.id, row |-> [s EXCEPT !.tpl = FALSE]]

LEMMA TasksOf ==
    ASSUME NEW s \in Schedule
    PROVE  /\ PutTask(s) \in Tasks /\ DeleteTask(s) \in Tasks
           /\ PutTask(s).op = "put" /\ PutTask(s).id = s.id
           /\ PutTask(s).row.id = s.id /\ PutTask(s).row.runs = s.runs /\ PutTask(s).row.limit = s.limit
           /\ DeleteTask(s).op = "del" /\ DeleteTask(s).id = s.id
<1>1. [s EXCEPT !.tpl = FALSE] \in Schedule /\ [s EXCEPT !.tpl = FALSE].id = s.id
      /\ [s EXCEPT !.tpl = FALSE].runs = s.runs /\ [s EXCEPT !.tpl = FALSE].limit = s.limit
  BY DEF Schedule
<1>2. s.id \in Ids
  BY DEF Schedule
<1> QED
  BY <1>1, <1>2 DEF PutTask, DeleteTask, Tasks

LEMMA ManagerOf ==
    ASSUME NEW b \in Manager
    PROVE  /\ b.mem \in Lists /\ b.file \in Lists /\ b.tasks \subseteq Tasks
           /\ b.fails \in [Ids -> 0..(FailLimit - 1)]
  BY DEF Manager

LEMMA UpsertOf ==
    ASSUME NEW b \in Manager, NEW s \in Schedule, NEW c, c = Upsert(b, s)
    PROVE  /\ c \in Manager /\ c.mem = b.mem /\ c.file = b.mem /\ c.fails = b.fails
           /\ c.tasks = b.tasks \cup {PutTask(s)}
<1>1. c = [mem |-> b.mem, file |-> b.mem, tasks |-> b.tasks \cup {PutTask(s)}, fails |-> b.fails]
  BY DEF Upsert, Save, PutTask, Manager
<1> QED
  BY <1>1, ManagerOf, TasksOf DEF Manager

LEMMA WithScheduleOf ==
    ASSUME NEW b \in Manager, NEW s \in Schedule, NEW c, c = WithSchedule(b, s)
    PROVE  /\ c \in Manager /\ Puts(b.mem, c.mem, s.id, s)
           /\ c.file = b.file /\ c.fails = b.fails /\ c.tasks = b.tasks
<1> DEFINE g == [i \in DOMAIN b.mem \cup {s.id} |-> IF i = s.id THEN s ELSE b.mem[i]]
<1>1. c = [mem |-> g, file |-> b.file, tasks |-> b.tasks, fails |-> b.fails]
  BY DEF WithSchedule, Manager
<1>2. s.id \in Ids
  BY DEF Schedule
<1>3. g \in Lists /\ Puts(b.mem, g, s.id, s)
  BY <1>2, ManagerOf, PutIn
<1> HIDE DEF g
<1> QED
  BY <1>1, <1>3, ManagerOf DEF Manager

LEMMA ForgottenFails ==
    ASSUME NEW b \in Manager, NEW i \in Ids, NEW g
    PROVE  [b EXCEPT !.mem = g, !.fails[i] = 0]
             = [mem |-> g, file |-> b.file, tasks |-> b.tasks, fails |-> [b.fails EXCEPT ![i] = 0]]
<1>1. [b EXCEPT !.mem = g, !.fails[i] = 0] = [[b EXCEPT !.mem = g] EXCEPT !.fails[i] = 0]
  OBVIOUS
<1>2. PICK m : m = [b EXCEPT !.mem = g]
  OBVIOUS
<1>3. m = [mem |-> g, file |-> b.file, tasks |-> b.tasks, fails |-> b.fails]
  BY <1>2 DEF Manager
<1>4. [m EXCEPT !.fails[i] = 0] = [mem |-> g, file |-> b.file, tasks |-> b.tasks, fails |-> [b.fails EXCEPT ![i] = 0]]
  BY <1>3, ManagerOf
<1> QED
  BY <1>1, <1>2, <1>4

LEMMA RemoveOf ==
    ASSUME NEW b \in Manager, NEW i \in DOMAIN b.mem, NEW c, c = RemoveSchedule(b, i)
    PROVE  /\ c \in Manager /\ Drops(b.mem, c.mem, {i}) /\ c.file = c.mem
           /\ c.tasks = b.tasks \cup {DeleteTask(b.mem[i])}
<1> DEFINE g == Restrict(b.mem, DOMAIN b.mem \ {i})
           f == [b.fails EXCEPT ![i] = 0]
<1>1. c = [mem |-> g, file |-> g, tasks |-> b.tasks \cup {DeleteTask(b.mem[i])}, fails |-> f]
  <2>1. c = Delete([b EXCEPT !.mem = g, !.fails[i] = 0], b.mem[i])
    BY DEF RemoveSchedule, Listed
  <2>2. [b EXCEPT !.mem = g, !.fails[i] = 0] = [mem |-> g, file |-> b.file, tasks |-> b.tasks, fails |-> f]
    BY ForgottenFails, ManagerOf, ListsHold
  <2> HIDE DEF g, f
  <2> QED
    BY <2>1, <2>2 DEF Delete, Save
<1>2. g \in Lists /\ Drops(b.mem, g, {i})
  BY ManagerOf, TakeOut
<1>3. f \in [Ids -> 0..(FailLimit - 1)]
  <2>1. 0 \in 0..(FailLimit - 1)
    BY DelaysOf
  <2> QED
    BY <2>1, ManagerOf
<1>4. DeleteTask(b.mem[i]) \in Tasks
  BY ManagerOf, ListsHold, TasksOf
<1> HIDE DEF g, f
<1> QED
  BY <1>1, <1>2, <1>3, <1>4, ManagerOf DEF Manager

(***************************************************************************)
(* How a schedule moves on.                                                *)
(***************************************************************************)
Below(s) == s.limit > 0 => s.runs < s.limit

\* i goes on after at with n runs more, or is over; in both cases it is written.
MovesOn(b, c, i, n, at) ==
    /\ c \in Manager /\ c.file = c.mem
    /\ \E t \in Tasks :
         /\ t.id = i /\ c.tasks = b.tasks \cup {t}
         /\ \/ t.op = "del" /\ Drops(b.mem, c.mem, {i})
            \/ /\ t.op = "put" /\ t.row.runs = b.mem[i].runs + n /\ t.row.limit = b.mem[i].limit
               /\ Below(t.row)
               /\ \E s \in Schedule :
                    /\ Puts(b.mem, c.mem, i, s) /\ s.next > at
                    /\ s.id = i /\ s.runs = t.row.runs /\ s.limit = t.row.limit

LEMMA PutsOver ==
    ASSUME NEW f, NEW g, NEW h, NEW i \in DOMAIN f, NEW s, Puts(f, g, i, s), Drops(g, h, {i})
    PROVE  Drops(f, h, {i})
  BY DEF Puts, Drops

LEMMA DeferOf ==
    ASSUME NEW b \in Manager, NEW i \in DOMAIN b.mem, Below(b.mem[i]), NEW at \in Nat, NEW t \in Nat, t > at,
           NEW c, c = DeferSchedule(b, i, t)
    PROVE  MovesOn(b, c, i, 0, at) /\ c.fails = b.fails
<1> DEFINE s == [b.mem[i] EXCEPT !.next = t]
<1>1. b.mem[i] \in Schedule /\ b.mem[i].id = i
  BY ManagerOf, ListsHold
<1>2. /\ s \in Schedule /\ s.id = i /\ s.next = t
      /\ s.runs = b.mem[i].runs /\ s.limit = b.mem[i].limit
  BY <1>1 DEF Schedule
<1>3. c = Upsert(WithSchedule(b, s), s)
  BY DEF DeferSchedule, Listed
<1> HIDE DEF s
<1>4. PICK m : m = WithSchedule(b, s)
  OBVIOUS
<1>5. /\ m \in Manager /\ Puts(b.mem, m.mem, i, s)
      /\ m.file = b.file /\ m.fails = b.fails /\ m.tasks = b.tasks
  BY <1>2, <1>4, WithScheduleOf
<1>6. /\ c \in Manager /\ c.mem = m.mem /\ c.file = m.mem /\ c.fails = m.fails
      /\ c.tasks = m.tasks \cup {PutTask(s)}
  BY <1>2, <1>3, <1>4, <1>5, UpsertOf
<1>7. /\ PutTask(s) \in Tasks /\ PutTask(s).op = "put" /\ PutTask(s).id = i
      /\ PutTask(s).row.runs = s.runs /\ PutTask(s).row.limit = s.limit
  BY <1>2, TasksOf
<1>8. b.mem[i].runs + 0 = b.mem[i].runs
  BY <1>1 DEF Schedule
<1> QED
  BY <1>2, <1>5, <1>6, <1>7, <1>8 DEF MovesOn, Below

LEMMA AdvanceOf ==
    ASSUME NEW b \in Manager, NEW i \in DOMAIN b.mem, NEW at \in Nat, at <= MaxDcaTime,
           NEW counts \in BOOLEAN, NEW c, c = AdvanceSchedule(b, i, at, counts)
    PROVE  MovesOn(b, c, i, IF counts THEN 1 ELSE 0, at)
<1> DEFINE n == IF counts THEN 1 ELSE 0
           s == [b.mem[i] EXCEPT !.runs = b.mem[i].runs + n,
                                 !.next = NextRunAt(b.mem[i].freq, ExecSlot, at, TRUE)]
<1>1. b.mem[i] \in Schedule /\ b.mem[i].id = i
  BY ManagerOf, ListsHold
<1>2. PICK t \in Nat : t = NextRunAt(b.mem[i].freq, ExecSlot, at, TRUE) /\ t > at
  BY <1>1, NextRunIsLater DEF Schedule
<1>3. PICK r \in Nat : r = b.mem[i].runs + n
  BY <1>1 DEF Schedule
<1>4. s = [b.mem[i] EXCEPT !.runs = r, !.next = t]
  BY <1>2, <1>3
<1>5. /\ s \in Schedule /\ s.id = i /\ s.next > at
      /\ s.runs = b.mem[i].runs + n /\ s.limit = b.mem[i].limit /\ s.limit \in Nat /\ s.runs \in Nat
  <2>1. b.mem[i].limit \in Nat
    BY <1>1, DelaysOf DEF Schedule
  <2> QED
    <3> HIDE DEF s
    <3>1. PICK x \in Schedule : x = b.mem[i]
      BY <1>1
    <3>2. s = [x EXCEPT !.runs = r, !.next = t]
      BY <1>4, <3>1
    <3>3. s \in Schedule /\ s.id = x.id /\ s.next = t /\ s.runs = r /\ s.limit = x.limit
      BY <3>2 DEF Schedule
    <3> QED
      BY <1>1, <1>2, <1>3, <2>1, <3>1, <3>3
<1>6. c = IF s.limit > 0 /\ s.runs >= s.limit
          THEN RemoveSchedule(WithSchedule(b, s), i) ELSE Upsert(WithSchedule(b, s), s)
  BY DEF AdvanceSchedule, Listed
<1> HIDE DEF s, n
<1>7. PICK m : m = WithSchedule(b, s)
  OBVIOUS
<1>8. m \in Manager /\ Puts(b.mem, m.mem, i, s) /\ m.tasks = b.tasks
  BY <1>5, <1>7, WithScheduleOf
<1>9. CASE s.limit > 0 /\ s.runs >= s.limit
  <2>1. c = RemoveSchedule(m, i) /\ i \in DOMAIN m.mem /\ m.mem[i] = s
    BY <1>6, <1>7, <1>8, <1>9 DEF Puts
  <2>2. c \in Manager /\ Drops(m.mem, c.mem, {i}) /\ c.file = c.mem /\ c.tasks = m.tasks \cup {DeleteTask(s)}
    BY <1>8, <2>1, RemoveOf
  <2>3. Drops(b.mem, c.mem, {i})
    BY <1>8, <2>2, PutsOver
  <2>4. DeleteTask(s) \in Tasks /\ DeleteTask(s).op = "del" /\ DeleteTask(s).id = i
    BY <1>5, TasksOf
  <2> QED
    BY <1>8, <2>2, <2>3, <2>4 DEF MovesOn
<1>10. CASE ~(s.limit > 0 /\ s.runs >= s.limit)
  <2>1. c = Upsert(m, s)
    BY <1>6, <1>7, <1>10
  <2>2. c \in Manager /\ c.mem = m.mem /\ c.file = m.mem /\ c.tasks = m.tasks \cup {PutTask(s)}
    BY <1>5, <1>8, <2>1, UpsertOf
  <2>3. /\ PutTask(s) \in Tasks /\ PutTask(s).op = "put" /\ PutTask(s).id = i
        /\ PutTask(s).row.runs = s.runs /\ PutTask(s).row.limit = s.limit
    BY <1>5, TasksOf
  <2>4. Below(PutTask(s).row)
    BY <1>5, <1>10, <2>3 DEF Below
  <2> QED
    BY <1>5, <1>8, <2>2, <2>3, <2>4 DEF MovesOn, n
<1> QED
  BY <1>9, <1>10

\* Whatever count of failures is kept.
LEMMA FailsSet ==
    ASSUME NEW b \in Manager, NEW i \in DOMAIN b.mem, NEW k \in 0..(FailLimit - 1),
           NEW c, c = [b EXCEPT !.fails[i] = k]
    PROVE  c \in Manager /\ c.mem = b.mem /\ c.file = b.file /\ c.tasks = b.tasks
  BY DEF Manager

LEMMA MovesOnAfter ==
    ASSUME NEW b, NEW m, m.mem = b.mem, m.tasks = b.tasks, NEW c, NEW i, NEW n, NEW at, MovesOn(m, c, i, n, at)
    PROVE  MovesOn(b, c, i, n, at)
  BY DEF MovesOn

LEMMA CountFailureOf ==
    ASSUME NEW b \in Manager, NEW i \in DOMAIN b.mem, Below(b.mem[i]), NEW at \in Nat, at <= MaxDcaTime,
           NEW c, c = CountFailure(b, i, at)
    PROVE  MovesOn(b, c, i, 0, at)
<1>1. i \in Ids /\ b.fails[i] \in 0..(FailLimit - 1)
  BY ManagerOf, ListsHold
<1>2. CASE b.fails[i] + 1 >= FailLimit
  <2>1. PICK m : m = [b EXCEPT !.fails[i] = 0]
    OBVIOUS
  <2>2. c = AdvanceSchedule(m, i, at, FALSE)
    BY <1>2, <2>1 DEF CountFailure
  <2>3. 0 \in 0..(FailLimit - 1)
    BY DelaysOf
  <2>4. m \in Manager /\ m.mem = b.mem /\ m.tasks = b.tasks
    BY <2>1, <2>3, FailsSet
  <2>5. MovesOn(m, c, i, 0, at)
    BY <2>2, <2>4, AdvanceOf
  <2> QED
    BY <2>4, <2>5, MovesOnAfter
<1>3. CASE ~(b.fails[i] + 1 >= FailLimit)
  <2>1. PICK m : m = [b EXCEPT !.fails[i] = @ + 1]
    OBVIOUS
  <2>2. c = DeferSchedule(m, i, at + RetryDelay)
    BY <1>3, <2>1 DEF CountFailure
  <2>3. b.fails[i] + 1 \in 0..(FailLimit - 1) /\ m = [b EXCEPT !.fails[i] = b.fails[i] + 1]
    BY <1>1, <1>3, <2>1, DelaysOf
  <2>4. m \in Manager /\ m.mem = b.mem /\ m.tasks = b.tasks
    BY <2>3, FailsSet
  <2>5. at + RetryDelay \in Nat /\ at + RetryDelay > at
    BY DelaysOf
  <2>6. MovesOn(m, c, i, 0, at)
    BY <2>2, <2>4, <2>5, DeferOf
  <2> QED
    BY <2>4, <2>6, MovesOnAfter
<1> QED
  BY <1>2, <1>3

(***************************************************************************)
(* A schedule the pass is done with.                                       *)
(***************************************************************************)
LEMMA RacedOf ==
    ASSUME NEW T \in SUBSET Tasks
    PROVE  /\ Raced(T) \subseteq Ids
           /\ \A w, v \in T : w.id = v.id /\ (w.op # v.op \/ w.row.runs # v.row.runs) => w.id \in Raced(T)
  BY DEF Raced, Tasks

LEMMA BecomesOf ==
    ASSUME NEW b \in Manager, NEW h \in Histories, Becomes(b, h)
    PROVE  /\ dca' = b /\ dcaTold' \in Histories
           /\ dcaTold'.added = h.added /\ dcaTold'.placed = h.placed /\ dcaTold'.limit = h.limit
           /\ dcaTold'.stopped = h.stopped /\ dcaTold'.revived = h.revived
           /\ dcaTold'.exempt = h.exempt \cup Raced(b.tasks)
<1>1. dca' = b /\ dcaTold' = [h EXCEPT !.exempt = @ \cup Raced(b.tasks)]
  BY DEF Becomes
<1>2. Raced(b.tasks) \subseteq Ids
  BY ManagerOf, RacedOf
<1> QED
  BY <1>1, <1>2 DEF Histories

\* The histories after a step about i that placed p orders.
ToldBy(i, p) ==
    /\ dcaTold' \in Histories
    /\ dcaTold'.added = dcaTold.added /\ dcaTold'.limit = dcaTold.limit /\ dcaTold'.stopped = dcaTold.stopped
    /\ \A k \in Ids : dcaTold'.placed[k] = IF k = i THEN dcaTold.placed[k] + p ELSE dcaTold.placed[k]
    /\ dcaTold.revived \subseteq dcaTold'.revived
    /\ dcaTold.exempt \cup Raced(dca'.tasks) \subseteq dcaTold'.exempt

Counted(s, runs) == s.id \notin dcaTold.exempt => runs = s.runs

\* The schedule of the copy s has moved on, with n runs more, unless it was removed before.
Moved(s, n) ==
    /\ dca' \in Manager
    /\ \A k \in Ids \ {s.id} : /\ k \in DOMAIN dca'.mem <=> k \in DOMAIN dca.mem
                               /\ k \in DOMAIN dca.mem => dca'.mem[k] = dca.mem[k]
    /\ dca'.file = dca'.mem \/ (dca'.file = dca.file /\ dca'.mem = dca.mem)
    /\ dca.tasks \subseteq dca'.tasks
    /\ \A t \in dca'.tasks \ dca.tasks :
         /\ t.id = s.id
         /\ t.op = "put" => Below(t.row) /\ t.row.limit = s.limit /\ Counted(s, t.row.runs - n)
    /\ s.id \in DOMAIN dca.mem =>
         \E t \in dca'.tasks : t.id = s.id /\ (t.op = "put" => Counted(s, t.row.runs - n))
    /\ s.id \in DOMAIN dca'.mem =>
         /\ s.id \in DOMAIN dca.mem /\ dca'.file = dca'.mem
         /\ dca'.mem[s.id].next > pass.at /\ dca'.mem[s.id].limit = s.limit
         /\ Below(dca'.mem[s.id]) /\ Counted(s, dca'.mem[s.id].runs - n)
    /\ s.id \notin DOMAIN dca.mem =>
         \/ dca'.tasks = dca.tasks /\ dca'.file = dca.file
         \/ n = 0 /\ s.id \in dcaTold'.revived

AtHand(s) ==
    \/ pass.pc = "next" /\ s \in pass.due
    \/ pass.pc \in {"calendar", "price", "budget", "order"} /\ s \in pass.cur

HandledStep(s, n, p) ==
    /\ AtHand(s)
    /\ Done(s)
    /\ Moved(s, n)
    /\ ToldBy(s.id, p)
    /\ s.id \notin dcaTold'.exempt => p = n
    /\ UNCHANGED <<dcaTable, dcaClock>>

LEMMA ClockOf ==
    ASSUME DcaInv
    PROVE  pass.at \in Nat /\ pass.at <= MaxDcaTime /\ dcaClock \in Nat /\ dcaClock <= MaxDcaTime /\ pass.at <= dcaClock
<1>1. MaxDcaTime \in Nat
  BY DcaAssumption
<1>2. pass.at \in Nat /\ dcaClock \in Nat /\ dcaClock <= MaxDcaTime /\ pass.at <= dcaClock
  BY DEF DcaInv, Types, Passes
<1> QED
  BY <1>1, <1>2

\* A copy and its schedule, unless it was removed.
LEMMA HeldOf ==
    ASSUME DcaInv, NEW s \in Held
    PROVE  /\ s \in Schedule /\ s.id \in Ids /\ Sound(s) /\ Below(s) /\ s.runs \in Nat
           /\ s.id \in DOMAIN dca.mem =>
                /\ dca.mem[s.id] \in Schedule
                /\ dca.mem[s.id].limit = s.limit /\ Below(dca.mem[s.id])
                /\ Counted(s, dca.mem[s.id].runs)
           /\ s.id \notin dcaTold.exempt => s.runs = dcaTold.placed[s.id]
           /\ pass.at \in Nat /\ pass.at <= MaxDcaTime
<1>1. s \in Schedule /\ s.id \in Ids /\ s.runs \in Nat
  BY DEF DcaInv, Types, Passes, Held, Schedule
<1>2. Sound(s) /\ Below(s)
  BY DEF DcaInv, LimitsHold, Sound, Below
<1>3. s.id \notin dcaTold.exempt => CountHolds(s.id)
  BY <1>1 DEF DcaInv, Counts
<1>4. s.id \notin dcaTold.exempt => s.runs = dcaTold.placed[s.id]
  BY <1>3 DEF CountHolds
<1>5. ASSUME s.id \in DOMAIN dca.mem
      PROVE  /\ dca.mem[s.id] \in Schedule /\ dca.mem[s.id].limit = s.limit /\ Below(dca.mem[s.id])
             /\ Counted(s, dca.mem[s.id].runs)
  <2>1. dca.mem[s.id] \in Schedule /\ dca.mem[s.id].id = s.id
    BY <1>5, ManagerOf, ListsHold DEF DcaInv, Types
  <2>2. Sound(dca.mem[s.id])
    BY <1>5 DEF DcaInv, LimitsHold
  <2>3. Counted(s, dca.mem[s.id].runs)
    BY <1>3, <1>5 DEF CountHolds, Counted
  <2> QED
    BY <1>2, <2>1, <2>2, <2>3 DEF Sound, Below
<1>6. pass.at \in Nat /\ pass.at <= MaxDcaTime
  BY ClockOf
<1> QED
  BY <1>1, <1>2, <1>4, <1>5, <1>6

LEMMA MovedListed ==
    ASSUME DcaInv, NEW s \in Held, s.id \in DOMAIN dca.mem, NEW n \in {0, 1},
           MovesOn(dca, dca', s.id, n, pass.at)
    PROVE  Moved(s, n)
<1>1. /\ s \in Schedule /\ s.id \in Ids /\ s.runs \in Nat /\ dca.mem[s.id] \in Schedule
      /\ dca.mem[s.id].limit = s.limit /\ Counted(s, dca.mem[s.id].runs)
  BY HeldOf
<1>2. dca.mem[s.id].runs \in Nat
  BY <1>1 DEF Schedule
<1>3. PICK t \in Tasks :
         /\ t.id = s.id /\ dca'.tasks = dca.tasks \cup {t}
         /\ \/ t.op = "del" /\ Drops(dca.mem, dca'.mem, {s.id})
            \/ /\ t.op = "put" /\ t.row.runs = dca.mem[s.id].runs + n /\ t.row.limit = dca.mem[s.id].limit
               /\ Below(t.row)
               /\ \E g \in Schedule :
                    /\ Puts(dca.mem, dca'.mem, s.id, g) /\ g.next > pass.at
                    /\ g.id = s.id /\ g.runs = t.row.runs /\ g.limit = t.row.limit
  BY DEF MovesOn
<1>4. dca' \in Manager /\ dca'.file = dca'.mem
  BY DEF MovesOn
<1>5. CASE t.op = "del" /\ Drops(dca.mem, dca'.mem, {s.id})
  <2>1. s.id \notin DOMAIN dca'.mem
    BY <1>5 DEF Drops
  <2> QED
    BY <1>1, <1>3, <1>4, <1>5, <2>1 DEF Moved, Drops
<1>6. CASE /\ t.op = "put" /\ t.row.runs = dca.mem[s.id].runs + n /\ t.row.limit = dca.mem[s.id].limit
           /\ Below(t.row)
           /\ \E g \in Schedule :
                /\ Puts(dca.mem, dca'.mem, s.id, g) /\ g.next > pass.at
                /\ g.id = s.id /\ g.runs = t.row.runs /\ g.limit = t.row.limit
  <2>1. Counted(s, t.row.runs - n)
    BY <1>1, <1>2, <1>6 DEF Counted
  <2>2. PICK g \in Schedule : /\ Puts(dca.mem, dca'.mem, s.id, g) /\ g.next > pass.at
                              /\ g.id = s.id /\ g.runs = t.row.runs /\ g.limit = t.row.limit
    BY <1>6
  <2>3. Below(g) /\ Counted(s, g.runs - n)
    BY <1>6, <2>1, <2>2 DEF Below
  <2> QED
    BY <1>1, <1>3, <1>4, <1>6, <2>1, <2>2, <2>3 DEF Moved, Puts
<1> QED
  BY <1>3, <1>5, <1>6

\* The schedule is put off, and then the copy is written.
LEMMA MovedAndWritten ==
    ASSUME DcaInv, NEW s \in Held, s.id \in DOMAIN dca.mem, NEW m,
           MovesOn(dca, m, s.id, 0, pass.at), dca' = Upsert(m, s)
    PROVE  Moved(s, 0)
<1>1. /\ s \in Schedule /\ s.id \in Ids /\ s.runs \in Nat /\ dca.mem[s.id] \in Schedule
      /\ dca.mem[s.id].limit = s.limit /\ Counted(s, dca.mem[s.id].runs) /\ Below(s)
  BY HeldOf
<1>2. dca.mem[s.id].runs \in Nat
  BY <1>1 DEF Schedule
<1>3. PICK t \in Tasks :
         /\ t.id = s.id /\ m.tasks = dca.tasks \cup {t}
         /\ \/ t.op = "del" /\ Drops(dca.mem, m.mem, {s.id})
            \/ /\ t.op = "put" /\ t.row.runs = dca.mem[s.id].runs + 0 /\ t.row.limit = dca.mem[s.id].limit
               /\ Below(t.row)
               /\ \E g \in Schedule :
                    /\ Puts(dca.mem, m.mem, s.id, g) /\ g.next > pass.at
                    /\ g.id = s.id /\ g.runs = t.row.runs /\ g.limit = t.row.limit
  BY DEF MovesOn
<1>4. m \in Manager
  BY DEF MovesOn
<1>5. dca' \in Manager /\ dca'.mem = m.mem /\ dca'.file = m.mem /\ dca'.tasks = m.tasks \cup {PutTask(s)}
  BY <1>1, <1>4, UpsertOf
<1>6. PICK w \in Tasks : /\ w = PutTask(s) /\ w.op = "put" /\ w.id = s.id
                         /\ w.row.runs = s.runs /\ w.row.limit = s.limit
  BY <1>1, TasksOf
<1>7. Below(w.row) /\ Counted(s, w.row.runs - 0)
  BY <1>1, <1>6 DEF Below, Counted
<1>8. CASE t.op = "del" /\ Drops(dca.mem, m.mem, {s.id})
  <2>1. s.id \notin DOMAIN m.mem
    BY <1>8 DEF Drops
  <2> QED
    BY <1>1, <1>3, <1>5, <1>6, <1>7, <1>8, <2>1 DEF Moved, Drops
<1>9. CASE /\ t.op = "put" /\ t.row.runs = dca.mem[s.id].runs + 0 /\ t.row.limit = dca.mem[s.id].limit
           /\ Below(t.row)
           /\ \E g \in Schedule :
                /\ Puts(dca.mem, m.mem, s.id, g) /\ g.next > pass.at
                /\ g.id = s.id /\ g.runs = t.row.runs /\ g.limit = t.row.limit
  <2>1. Counted(s, t.row.runs - 0)
    BY <1>1, <1>2, <1>9 DEF Counted
  <2>2. PICK g \in Schedule : /\ Puts(dca.mem, m.mem, s.id, g) /\ g.next > pass.at
                              /\ g.id = s.id /\ g.runs = t.row.runs /\ g.limit = t.row.limit
    BY <1>9
  <2>3. Below(g) /\ Counted(s, g.runs - 0)
    BY <1>9, <2>1, <2>2 DEF Below
  <2> QED
    BY <1>1, <1>3, <1>5, <1>6, <1>7, <1>9, <2>1, <2>2, <2>3 DEF Moved, Puts
<1> QED
  BY <1>3, <1>8, <1>9

LEMMA MovedUnlisted ==
    ASSUME DcaInv, NEW s \in Held, s.id \notin DOMAIN dca.mem, NEW n \in {0, 1}, dca' \in Manager,
           dca'.mem = dca.mem,
           \/ dca'.file = dca.file /\ dca'.tasks = dca.tasks
           \/ n = 0 /\ s.id \in dcaTold'.revived /\ dca'.file = dca.mem /\ dca'.tasks = dca.tasks \cup {PutTask(s)}
    PROVE  Moved(s, n)
<1>1. s \in Schedule /\ s.id \in Ids /\ s.runs \in Nat /\ Below(s)
  BY HeldOf
<1>2. CASE dca'.file = dca.file /\ dca'.tasks = dca.tasks
  BY <1>1, <1>2 DEF Moved
<1>3. CASE n = 0 /\ s.id \in dcaTold'.revived /\ dca'.file = dca.mem /\ dca'.tasks = dca.tasks \cup {PutTask(s)}
  <2>1. PICK w \in Tasks : /\ w = PutTask(s) /\ w.op = "put" /\ w.id = s.id
                           /\ w.row.runs = s.runs /\ w.row.limit = s.limit
    BY <1>1, TasksOf
  <2>2. Below(w.row) /\ Counted(s, w.row.runs - n)
    BY <1>1, <1>3, <2>1 DEF Below, Counted
  <2> QED
    BY <1>1, <1>3, <2>1, <2>2 DEF Moved
<1> QED
  BY <1>2, <1>3

(***************************************************************************)
(* Handling a schedule keeps the invariant.                                *)
(***************************************************************************)
LEMMA DoneOf ==
    ASSUME DcaInv, NEW s, AtHand(s), Done(s)
    PROVE  /\ s \in Held
           /\ pass' \in Passes
           /\ pass'.pc = "next" /\ pass'.cur = {} /\ pass'.at = pass.at
           /\ DOMAIN pass'.rows = {} /\ pass'.rows = pass.rows
           /\ Held' = Held \ {s}
<1>1. pass \in Passes
  BY DEF DcaInv, Types
<1>2. /\ pass' \in Passes
      /\ pass'.pc = "next" /\ pass'.cur = {} /\ pass'.at = pass.at /\ pass'.rows = pass.rows
      /\ pass'.due = pass.due \ {s}
  BY <1>1 DEF Done, Passes, Phases
<1>3. DOMAIN pass.rows = {} /\ pass.due \cap pass.cur = {}
  BY DEF DcaInv, PassHolds, AtHand
<1>4. s \in Held /\ Held = pass.due \cup {s}
  BY DEF DcaInv, PassHolds, AtHand, Held
<1>5. Held' = Held \ {s}
  <2>1. Held' = pass.due \ {s}
    BY <1>2 DEF Held
  <2> QED
    BY <1>4, <2>1
<1> QED
  BY <1>2, <1>3, <1>4, <1>5

\* What is not of s stays as it was.
LEMMA OthersStay ==
    ASSUME DcaInv, NEW s, NEW n, NEW p, HandledStep(s, n, p), NEW i \in Ids \ {s.id}
    PROVE  /\ i \in DOMAIN dca'.mem <=> i \in DOMAIN dca.mem
           /\ i \in DOMAIN dca.mem => dca'.mem[i] = dca.mem[i]
           /\ i \in DOMAIN dca'.file => \/ i \in DOMAIN dca.file /\ dca'.file[i] = dca.file[i]
                                        \/ i \in DOMAIN dca.mem /\ dca'.file[i] = dca.mem[i]
           /\ \A t \in dca'.tasks : t.id = i => t \in dca.tasks
           /\ \A t \in dca.tasks : t \in dca'.tasks
           /\ dcaTold'.placed[i] = dcaTold.placed[i]
  BY DEF HandledStep, Moved, ToldBy

LEMMA HandledTypes ==
    ASSUME DcaInv, NEW s, NEW n \in {0, 1}, NEW p \in {0, 1}, HandledStep(s, n, p)
    PROVE  Types' /\ PassHolds'
<1>1. /\ dca' \in Manager /\ dcaTold' \in Histories /\ Done(s) /\ AtHand(s)
      /\ UNCHANGED <<dcaTable, dcaClock>>
  BY DEF HandledStep, Moved, ToldBy
<1>2. /\ pass' \in Passes
      /\ pass'.pc = "next" /\ pass'.cur = {} /\ pass'.at = pass.at /\ DOMAIN pass'.rows = {}
      /\ Held' = Held \ {s}
  BY <1>1, DoneOf
<1>3. Types'
  BY <1>1, <1>2 DEF DcaInv, Types
<1>4. \A t, u \in Held' : t.id = u.id => t = u
  BY <1>2 DEF DcaInv, PassHolds
<1>5. PassHolds'
  BY <1>2, <1>4 DEF PassHolds
<1> QED
  BY <1>3, <1>5

LEMMA HandledLimits ==
    ASSUME DcaInv, NEW s, NEW n \in {0, 1}, NEW p \in {0, 1}, HandledStep(s, n, p)
    PROVE  LimitsHold'
<1>1. /\ dca' \in Manager /\ dcaTold' \in Histories /\ Done(s) /\ AtHand(s)
      /\ UNCHANGED dcaTable /\ Moved(s, n)
      /\ dcaTold'.added = dcaTold.added /\ dcaTold'.limit = dcaTold.limit /\ dcaTold'.stopped = dcaTold.stopped
  BY DEF HandledStep, Moved, ToldBy
<1>2. Held' = Held \ {s} /\ pass'.rows = pass.rows /\ s \in Held /\ DOMAIN pass'.rows = {}
  BY <1>1, DoneOf
<1>3. Sound(s) /\ s.id \in Ids /\ Below(s)
  BY <1>2, HeldOf
<1>4. \A x : Sound(x) => Sound(x)'
  BY <1>1 DEF Sound
<1>5. \A x : x.id = s.id /\ x.limit = s.limit /\ Below(x) => Sound(x)
  BY <1>3 DEF Sound, Below
<1>6. \A i \in DOMAIN dca'.mem : Sound(dca'.mem[i])
  <2> SUFFICES ASSUME NEW i \in DOMAIN dca'.mem PROVE Sound(dca'.mem[i])
    OBVIOUS
  <2>1. dca'.mem[i].id = i /\ i \in Ids
    BY <1>1, ManagerOf, ListsHold
  <2>2. CASE i = s.id
    BY <1>1, <1>5, <2>1, <2>2 DEF Moved
  <2>3. CASE i # s.id
    BY <2>1, <2>3, OthersStay DEF DcaInv, LimitsHold
  <2> QED
    BY <2>2, <2>3
<1>7. \A i \in DOMAIN dca'.file : Sound(dca'.file[i])
  BY <1>1, <1>6 DEF Moved, DcaInv, LimitsHold
<1>8. ASSUME NEW t \in dca'.tasks
      PROVE  t.id \in dcaTold.added /\ (t.op = "put" => Sound(t.row))
  <2>1. CASE t \in dca.tasks
    BY <2>1 DEF DcaInv, LimitsHold
  <2>2. CASE t \notin dca.tasks
    <3>1. t.id = s.id /\ t.row.id = t.id
      BY <1>1, <2>2, ManagerOf DEF Moved, Tasks
    <3>2. t.op = "put" => Below(t.row) /\ t.row.limit = s.limit
      BY <1>1, <2>2 DEF Moved
    <3> QED
      BY <1>3, <1>5, <3>1, <3>2 DEF Sound
  <2> QED
    BY <2>1, <2>2
<1>9. \A i \in Ids \ dcaTold.added : dcaTold'.placed[i] = 0 /\ i \notin dcaTold.stopped
  <2>1. s.id \in dcaTold.added
    BY <1>3 DEF Sound
  <2> QED
    BY <2>1, OthersStay DEF DcaInv, LimitsHold
<1>10. /\ \A i \in DOMAIN dcaTable : Sound(dcaTable[i])
       /\ \A x \in Held : Sound(x)
  BY DEF DcaInv, LimitsHold
<1> QED
  BY <1>1, <1>2, <1>4, <1>6, <1>7, <1>8, <1>9, <1>10 DEF LimitsHold

LEMMA HandledCounts ==
    ASSUME DcaInv, NEW s, NEW n \in {0, 1}, NEW p \in {0, 1}, HandledStep(s, n, p)
    PROVE  Counts'
<1>1. /\ dca' \in Manager /\ dcaTold' \in Histories /\ Done(s) /\ AtHand(s)
      /\ UNCHANGED dcaTable /\ Moved(s, n) /\ dcaTold'.limit = dcaTold.limit
      /\ dcaTold.exempt \cup Raced(dca'.tasks) \subseteq dcaTold'.exempt
  BY DEF HandledStep, Moved, ToldBy
<1>2. Held' = Held \ {s} /\ s \in Held /\ pass'.pc = "next" /\ DOMAIN pass'.rows = {}
  BY <1>1, DoneOf
<1>3. pass.pc # "flush" /\ Coming = dca.tasks
  BY <1>1 DEF AtHand, Coming
<1>4. Coming' = dca'.tasks
  BY <1>2 DEF Coming
<1>5. SUFFICES ASSUME NEW i \in Ids \ dcaTold'.exempt PROVE CountHolds(i)'
  BY DEF Counts
<1>6. CountHolds(i) /\ i \notin dcaTold.exempt
  BY <1>1 DEF DcaInv, Counts
<1>7. CASE i # s.id
  <2>1. /\ i \in DOMAIN dca'.mem <=> i \in DOMAIN dca.mem
        /\ i \in DOMAIN dca.mem => dca'.mem[i] = dca.mem[i]
        /\ i \in DOMAIN dca'.file => \/ i \in DOMAIN dca.file /\ dca'.file[i] = dca.file[i]
                                     \/ i \in DOMAIN dca.mem /\ dca'.file[i] = dca.mem[i]
        /\ \A t \in dca'.tasks : t.id = i => t \in dca.tasks
        /\ \A t \in dca.tasks : t \in dca'.tasks
        /\ dcaTold'.placed[i] = dcaTold.placed[i]
    BY <1>7, OthersStay
  <2> QED
    BY <1>1, <1>2, <1>3, <1>4, <1>6, <2>1 DEF CountHolds
<1>8. CASE i = s.id
  <2>1. /\ s.runs \in Nat /\ s.runs = dcaTold.placed[i] /\ Sound(s)
    BY <1>2, <1>6, <1>8, HeldOf
  <2>2. p = n /\ dcaTold'.placed[i] = s.runs + n
    BY <1>5, <1>8, <2>1 DEF HandledStep, ToldBy
  <2>3. \A r : Counted(s, r) => r = s.runs
    BY <1>6, <1>8 DEF Counted
  <2>4. dcaTold.limit[i] > 0 => dcaTold'.placed[i] <= dcaTold.limit[i]
    <3>1. dcaTold.limit[i] \in Nat
      BY DEF DcaInv, Types, Histories
    <3> QED
      BY <1>8, <2>1, <2>2, <3>1 DEF Sound
  <2>5. i \in DOMAIN dca'.mem => dca'.mem[i].runs = s.runs + n /\ dca'.file = dca'.mem
    <3> SUFFICES ASSUME i \in DOMAIN dca'.mem PROVE dca'.mem[i].runs = s.runs + n /\ dca'.file = dca'.mem
      OBVIOUS
    <3>1. dca'.mem[i].runs \in Nat
      BY <1>1, ManagerOf, ListsHold DEF Schedule
    <3>2. dca'.mem[i].runs - n = s.runs /\ dca'.file = dca'.mem
      BY <1>1, <1>8, <2>3 DEF Moved
    <3> QED
      BY <2>1, <3>1, <3>2
  <2>6. \A t \in dca'.tasks : t \in Tasks /\ t.row.runs \in Nat
    BY <1>1, ManagerOf DEF Tasks, Schedule
  <2>7. \A t \in dca'.tasks \ dca.tasks : t.op = "put" => t.row.runs = s.runs + n
    BY <1>1, <2>1, <2>3, <2>6 DEF Moved
  <2>8. \A t \in dca.tasks : t.id = i /\ t.op = "put" => t.row.runs = s.runs
    BY <1>6, <2>1 DEF CountHolds
  <2>9. \A t \in Held' : t.id # i
    BY <1>2, <1>8 DEF DcaInv, PassHolds
  <2>10. CASE i \in DOMAIN dca.mem
    <3>1. PICK u \in dca'.tasks : u.id = i /\ (u.op = "put" => u.row.runs = s.runs + n)
      BY <1>1, <1>8, <2>1, <2>3, <2>6, <2>10 DEF Moved
    <3>2. ASSUME NEW t \in dca'.tasks, t.id = i, t.op = "put", t.row.runs # s.runs + n
          PROVE  FALSE
      <4>1. t.op # u.op \/ t.row.runs # u.row.runs
        BY <3>1, <3>2
      <4>2. i \in Raced(dca'.tasks)
        BY <1>1, <3>1, <3>2, <4>1, ManagerOf, RacedOf
      <4> QED
        BY <1>1, <1>5, <4>2
    <3>3. i \in DOMAIN dca'.file => dca'.file[i].runs = s.runs + n
      <4>1. CASE dca'.file = dca'.mem
        BY <2>5, <4>1
      <4>2. CASE dca'.file # dca'.mem
        BY <1>1, <1>8, <2>5, <2>10, <4>2 DEF Moved
      <4> QED
        BY <4>1, <4>2
    <3> QED
      BY <1>1, <1>2, <1>4, <2>2, <2>4, <2>5, <2>9, <3>1, <3>2, <3>3 DEF CountHolds
  <2>11. CASE i \notin DOMAIN dca.mem
    <3>1. Gone(i)
      BY <1>2, <1>6, <1>8, <2>11 DEF DcaInv, StopsHold
    <3>2. i \notin DOMAIN dca'.mem /\ i \notin DOMAIN dca'.file
      BY <1>1, <1>8, <2>11, <3>1 DEF Moved, Gone
    <3>3. \A t \in dca'.tasks : t.id = i /\ t.op = "put" => t.row.runs = s.runs + n
      BY <2>7, <3>1 DEF Gone
    <3>4. i \in DOMAIN dcaTable => \E t \in dca'.tasks : t.id = i
      BY <1>1, <3>1 DEF Gone, Moved
    <3> QED
      BY <1>1, <1>2, <1>4, <2>2, <2>4, <2>9, <3>2, <3>3, <3>4 DEF CountHolds
  <2> QED
    BY <2>10, <2>11
<1> QED
  BY <1>7, <1>8

LEMMA HandledStops ==
    ASSUME DcaInv, NEW s, NEW n \in {0, 1}, NEW p \in {0, 1}, HandledStep(s, n, p)
    PROVE  StopsHold' /\ DueHolds'
<1>1. /\ dca' \in Manager /\ dcaTold' \in Histories /\ Done(s) /\ AtHand(s)
      /\ UNCHANGED dcaTable /\ Moved(s, n) /\ dcaTold'.stopped = dcaTold.stopped
      /\ dcaTold.exempt \subseteq dcaTold'.exempt /\ dcaTold.revived \subseteq dcaTold'.revived
  BY DEF HandledStep, Moved, ToldBy
<1>2. Held' = Held \ {s} /\ s \in Held /\ pass'.at = pass.at
  BY <1>1, DoneOf
<1>3. ASSUME NEW i \in Ids \ {s.id}, Gone(i) PROVE Gone(i)'
  <2>1. /\ i \in DOMAIN dca'.mem <=> i \in DOMAIN dca.mem
        /\ i \in DOMAIN dca'.file => \/ i \in DOMAIN dca.file /\ dca'.file[i] = dca.file[i]
                                     \/ i \in DOMAIN dca.mem /\ dca'.file[i] = dca.mem[i]
        /\ \A t \in dca'.tasks : t.id = i => t \in dca.tasks
        /\ \A t \in dca.tasks : t \in dca'.tasks
    BY OthersStay
  <2> QED
    BY <1>1, <1>3, <2>1 DEF Gone
<1>4. ASSUME NEW i \in dcaTold'.stopped \ (dcaTold'.exempt \cup dcaTold'.revived) PROVE Gone(i)'
  <2>1. Gone(i) /\ i \in Ids
    BY <1>1 DEF DcaInv, StopsHold, Types, Histories
  <2>2. CASE i = s.id
    <3>1. i \notin DOMAIN dca.mem
      BY <2>1 DEF Gone
    <3>2. dca'.tasks = dca.tasks /\ dca'.file = dca.file /\ i \notin DOMAIN dca'.mem
      BY <1>1, <1>4, <2>2, <3>1 DEF Moved
    <3> QED
      BY <1>1, <2>1, <3>2 DEF Gone
  <2> QED
    BY <1>3, <2>1, <2>2
<1>5. ASSUME NEW t \in Held', t.id \notin DOMAIN dca'.mem, t.id \notin dcaTold'.exempt PROVE Gone(t.id)'
  <2>1. t \in Held /\ t.id # s.id
    BY <1>2 DEF DcaInv, PassHolds
  <2>2. t.id \in Ids
    BY <2>1, HeldOf
  <2>3. t.id \notin DOMAIN dca.mem /\ t.id \notin dcaTold.exempt
    BY <1>1, <1>5, <2>1, <2>2, OthersStay
  <2>4. Gone(t.id)
    BY <2>1, <2>3 DEF DcaInv, StopsHold
  <2> QED
    BY <1>3, <2>1, <2>2, <2>4
<1>6. StopsHold'
  BY <1>4, <1>5 DEF StopsHold
<1>7. ASSUME NEW i \in DOMAIN dca'.mem, dca'.mem[i].next <= pass.at PROVE \E t \in Held' : t.id = i
  <2>1. i \in Ids /\ dca'.mem[i].next \in Nat /\ pass.at \in Nat
    BY <1>1, ManagerOf, ListsHold, ClockOf DEF Schedule
  <2>2. i # s.id
    BY <1>1, <1>7, <2>1 DEF Moved
  <2>3. i \in DOMAIN dca.mem /\ dca'.mem[i] = dca.mem[i]
    BY <1>7, <2>1, <2>2, OthersStay
  <2>4. \E t \in Held : t.id = i
    BY <1>1, <1>7, <2>3 DEF DcaInv, DueHolds, AtHand
  <2> QED
    BY <1>2, <2>2, <2>4
<1>8. DueHolds'
  BY <1>2, <1>7 DEF DueHolds
<1> QED
  BY <1>6, <1>8

LEMMA HandledKeeps ==
    ASSUME DcaInv, NEW s, NEW n \in {0, 1}, NEW p \in {0, 1}, HandledStep(s, n, p)
    PROVE  DcaInv'
  BY HandledTypes, HandledLimits, HandledCounts, HandledStops DEF DcaInv

(***************************************************************************)
(* The branches of the pass.                                               *)
(***************************************************************************)
LEMMA ToldFrom ==
    ASSUME NEW b \in Manager, NEW h \in Histories, Becomes(b, h), NEW i, NEW p,
           h.added = dcaTold.added, h.limit = dcaTold.limit, h.stopped = dcaTold.stopped,
           \A k \in Ids : h.placed[k] = IF k = i THEN dcaTold.placed[k] + p ELSE dcaTold.placed[k],
           dcaTold.revived \subseteq h.revived, dcaTold.exempt \subseteq h.exempt
    PROVE  ToldBy(i, p) /\ dca' = b
  BY BecomesOf DEF ToldBy

LEMMA ToldSame ==
    ASSUME DcaInv, NEW b \in Manager, Becomes(b, dcaTold), NEW i
    PROVE  ToldBy(i, 0) /\ dca' = b
<1>1. dcaTold \in Histories
  BY DEF DcaInv, Types
<1>2. \A k \in Ids : dcaTold.placed[k] = IF k = i THEN dcaTold.placed[k] + 0 ELSE dcaTold.placed[k]
  BY <1>1 DEF Histories
<1> QED
  BY <1>1, <1>2, ToldFrom

\* s is listed and moves on.
LEMMA HandledListed ==
    ASSUME DcaInv, NEW s, AtHand(s), Done(s), s.id \in DOMAIN dca.mem, UNCHANGED <<dcaTable, dcaClock>>,
           NEW n \in {0, 1}, NEW p \in {0, 1}, MovesOn(dca, dca', s.id, n, pass.at), ToldBy(s.id, p),
           s.id \notin dcaTold'.exempt => p = n
    PROVE  DcaInv'
<1>1. s \in Held
  BY DoneOf
<1>2. Moved(s, n)
  BY <1>1, MovedListed
<1>3. HandledStep(s, n, p)
  BY <1>2 DEF HandledStep
<1> QED
  BY <1>3, HandledKeeps

\* s was removed: nothing is changed.
LEMMA HandledUnlisted ==
    ASSUME DcaInv, NEW s, AtHand(s), Done(s), s.id \notin DOMAIN dca.mem, UNCHANGED <<dcaTable, dcaClock>>,
           NEW n \in {0, 1}, NEW p \in {0, 1}, ToldBy(s.id, p), dca' \in Manager,
           dca'.mem = dca.mem, dca'.file = dca.file, dca'.tasks = dca.tasks,
           s.id \notin dcaTold'.exempt => p = n
    PROVE  DcaInv'
<1>1. s \in Held
  BY DoneOf
<1>2. Moved(s, n)
  BY <1>1, MovedUnlisted
<1>3. HandledStep(s, n, p)
  BY <1>2 DEF HandledStep
<1> QED
  BY <1>3, HandledKeeps

\* The copy is written after s was put off to t.
LEMMA HandledWritten ==
    ASSUME DcaInv, NEW s, AtHand(s), Done(s), UNCHANGED <<dcaTable, dcaClock>>,
           NEW t \in Nat, t > pass.at, dca' = Upsert(DeferSchedule(dca, s.id, t), s), ToldBy(s.id, 0),
           s.id \notin DOMAIN dca.mem => s.id \in dcaTold'.revived
    PROVE  DcaInv'
<1>1. s \in Held /\ dca \in Manager
  BY DoneOf DEF DcaInv, Types
<1>2. s \in Schedule /\ pass.at \in Nat
  BY <1>1, HeldOf
<1>3. PICK m : m = DeferSchedule(dca, s.id, t)
  OBVIOUS
<1>4. Moved(s, 0)
  <2>1. CASE s.id \in DOMAIN dca.mem
    <3>1. Below(dca.mem[s.id])
      BY <1>1, <2>1, HeldOf
    <3>2. MovesOn(dca, m, s.id, 0, pass.at)
      BY <1>1, <1>2, <1>3, <2>1, <3>1, DeferOf
    <3> QED
      BY <1>1, <1>3, <2>1, <3>2, MovedAndWritten
  <2>2. CASE s.id \notin DOMAIN dca.mem
    <3>1. dca' = Upsert(dca, s)
      BY <2>2 DEF DeferSchedule, Listed
    <3>2. /\ dca' \in Manager /\ dca'.mem = dca.mem /\ dca'.file = dca.mem
          /\ dca'.tasks = dca.tasks \cup {PutTask(s)}
      BY <1>1, <1>2, <3>1, UpsertOf
    <3> QED
      BY <1>1, <2>2, <3>2, MovedUnlisted
  <2> QED
    BY <2>1, <2>2
<1>5. HandledStep(s, 0, 0)
  BY <1>4 DEF HandledStep
<1> QED
  BY <1>5, HandledKeeps

\* s is skipped to its next period.
LEMMA SkippedKeeps ==
    ASSUME DcaInv, NEW s, AtHand(s), Done(s), UNCHANGED <<dcaTable, dcaClock>>,
           Becomes(AdvanceSchedule(dca, s.id, pass.at, FALSE), dcaTold)
    PROVE  DcaInv'
<1>1. s \in Held /\ dca \in Manager
  BY DoneOf DEF DcaInv, Types
<1>2. pass.at \in Nat /\ pass.at <= MaxDcaTime
  BY ClockOf
<1>3. PICK m : m = AdvanceSchedule(dca, s.id, pass.at, FALSE)
  OBVIOUS
<1>4. CASE s.id \in DOMAIN dca.mem
  <2>1. MovesOn(dca, m, s.id, 0, pass.at)
    BY <1>1, <1>2, <1>3, <1>4, AdvanceOf
  <2>2. dca' = m /\ ToldBy(s.id, 0)
    BY <1>3, <2>1, ToldSame DEF MovesOn
  <2> QED
    BY <1>4, <2>1, <2>2, HandledListed
<1>5. CASE s.id \notin DOMAIN dca.mem
  <2>1. m = dca
    BY <1>3, <1>5 DEF AdvanceSchedule, Listed
  <2>2. dca' = dca /\ ToldBy(s.id, 0)
    BY <1>1, <1>3, <2>1, ToldSame
  <2> QED
    BY <1>1, <1>5, <2>2, HandledUnlisted
<1> QED
  BY <1>4, <1>5

\* s is put off to t.
LEMMA DeferredKeeps ==
    ASSUME DcaInv, NEW s, AtHand(s), Done(s), UNCHANGED <<dcaTable, dcaClock>>,
           NEW t \in Nat, t > pass.at, Becomes(DeferSchedule(dca, s.id, t), dcaTold)
    PROVE  DcaInv'
<1>1. s \in Held /\ dca \in Manager
  BY DoneOf DEF DcaInv, Types
<1>2. pass.at \in Nat
  BY ClockOf
<1>3. PICK m : m = DeferSchedule(dca, s.id, t)
  OBVIOUS
<1>4. CASE s.id \in DOMAIN dca.mem
  <2>1. Below(dca.mem[s.id])
    BY <1>1, <1>4, HeldOf
  <2>2. MovesOn(dca, m, s.id, 0, pass.at)
    BY <1>1, <1>2, <1>3, <1>4, <2>1, DeferOf
  <2>3. dca' = m /\ ToldBy(s.id, 0)
    BY <1>3, <2>2, ToldSame DEF MovesOn
  <2> QED
    BY <1>4, <2>2, <2>3, HandledListed
<1>5. CASE s.id \notin DOMAIN dca.mem
  <2>1. m = dca
    BY <1>3, <1>5 DEF DeferSchedule, Listed
  <2>2. dca' = dca /\ ToldBy(s.id, 0)
    BY <1>1, <1>3, <2>1, ToldSame
  <2> QED
    BY <1>1, <1>5, <2>2, HandledUnlisted
<1> QED
  BY <1>4, <1>5

LEMMA PutOffKeeps ==
    ASSUME DcaInv, NEW s, AtHand(s), PutOff(s)
    PROVE  DcaInv'
<1> DEFINE h == [dcaTold EXCEPT !.until[s.id] = IF Listed(dca, s.id) THEN pass.at + SidecarDelay ELSE @,
                                !.revived = IF Listed(dca, s.id) THEN @ ELSE @ \cup {s.id}]
<1>1. Done(s) /\ UNCHANGED <<dcaTable, dcaClock>>
  BY DEF PutOff
<1>2. s \in Held /\ dca \in Manager /\ dcaTold \in Histories
  BY <1>1, DoneOf DEF DcaInv, Types
<1>3. s.id \in Ids /\ s \in Schedule /\ pass.at + SidecarDelay \in Nat /\ pass.at + SidecarDelay > pass.at
  BY <1>2, HeldOf, DelaysOf
<1>4. PICK m : m = Upsert(DeferSchedule(dca, s.id, pass.at + SidecarDelay), s)
  OBVIOUS
<1>5. m \in Manager
  <2>1. PICK d : d = DeferSchedule(dca, s.id, pass.at + SidecarDelay)
    OBVIOUS
  <2>2. CASE s.id \in DOMAIN dca.mem
    <3>1. Below(dca.mem[s.id]) /\ pass.at \in Nat
      BY <1>2, <2>2, HeldOf
    <3>2. d \in Manager
      BY <1>2, <1>3, <2>1, <2>2, <3>1, DeferOf DEF MovesOn
    <3> QED
      BY <1>3, <1>4, <2>1, <3>2, UpsertOf
  <2>3. CASE s.id \notin DOMAIN dca.mem
    <3>1. d = dca
      BY <2>1, <2>3 DEF DeferSchedule, Listed
    <3> QED
      BY <1>2, <1>3, <1>4, <2>1, <3>1, UpsertOf
  <2> QED
    BY <2>2, <2>3
<1>6. /\ h \in Histories
      /\ h.added = dcaTold.added /\ h.limit = dcaTold.limit /\ h.stopped = dcaTold.stopped
      /\ h.placed = dcaTold.placed /\ h.exempt = dcaTold.exempt
      /\ h.revived = IF Listed(dca, s.id) THEN dcaTold.revived ELSE dcaTold.revived \cup {s.id}
  <2>1. PICK u \in Nat : u = IF Listed(dca, s.id) THEN pass.at + SidecarDelay ELSE dcaTold.until[s.id]
    BY <1>2, <1>3 DEF Histories
  <2>2. PICK r \in SUBSET Ids : r = IF Listed(dca, s.id) THEN dcaTold.revived ELSE dcaTold.revived \cup {s.id}
    BY <1>2, <1>3 DEF Histories
  <2>3. h = [[dcaTold EXCEPT !.until[s.id] = u] EXCEPT !.revived = r]
    BY <2>1, <2>2
  <2> HIDE DEF h
  <2> QED
    BY <1>2, <2>2, <2>3 DEF Histories
<1>7. Becomes(m, h)
  BY <1>4 DEF PutOff
<1> HIDE DEF h
<1>8. \A k \in Ids : h.placed[k] = IF k = s.id THEN dcaTold.placed[k] + 0 ELSE dcaTold.placed[k]
  BY <1>2, <1>6 DEF Histories
<1>9. ToldBy(s.id, 0) /\ dca' = m
  BY <1>5, <1>6, <1>7, <1>8, ToldFrom
<1>10. dcaTold'.revived = h.revived
  BY <1>5, <1>6, <1>7, BecomesOf
<1>11. s.id \notin DOMAIN dca.mem => s.id \in dcaTold'.revived
  BY <1>6, <1>10 DEF Listed
<1> QED
  BY <1>1, <1>3, <1>4, <1>9, <1>11, HandledWritten

LEMMA OwnerGoneKeeps ==
    ASSUME DcaInv, NEW s, OwnerGone(s)
    PROVE  DcaInv'
<1>1. AtHand(s) /\ Done(s) /\ s.id \in DOMAIN dca.mem /\ UNCHANGED <<dcaTable, dcaClock>>
  BY DEF OwnerGone, Take, AtHand, Listed
<1>2. dca \in Manager
  BY DEF DcaInv, Types
<1>3. PICK m : m = RemoveSchedule(dca, s.id)
  OBVIOUS
<1>4. /\ m \in Manager /\ Drops(dca.mem, m.mem, {s.id}) /\ m.file = m.mem
      /\ m.tasks = dca.tasks \cup {DeleteTask(dca.mem[s.id])}
  BY <1>1, <1>2, <1>3, RemoveOf
<1>5. dca.mem[s.id] \in Schedule /\ dca.mem[s.id].id = s.id
  BY <1>1, <1>2, ManagerOf, ListsHold
<1>6. PICK t \in Tasks : t = DeleteTask(dca.mem[s.id]) /\ t.op = "del" /\ t.id = s.id
  BY <1>5, TasksOf
<1>7. MovesOn(dca, m, s.id, 0, pass.at)
  BY <1>4, <1>6 DEF MovesOn
<1>8. dca' = m /\ ToldBy(s.id, 0)
  BY <1>3, <1>4, ToldSame DEF OwnerGone
<1> QED
  BY <1>1, <1>7, <1>8, HandledListed

LEMMA CloseKeeps ==
    ASSUME DcaInv, NEW s, MarketClosed(s)
    PROVE  DcaInv'
<1>1. AtHand(s) /\ Done(s) /\ UNCHANGED <<dcaTable, dcaClock>>
  BY DEF MarketClosed, Holds, AtHand
<1>2. s \in Held /\ dca \in Manager /\ dcaTold \in Histories
  BY <1>1, DoneOf DEF DcaInv, Types
<1>3. /\ s.id \in Ids /\ s \in Schedule /\ pass.at \in Nat
      /\ pass.at + SidecarDelay \in Nat /\ pass.at + SidecarDelay > pass.at
  BY <1>2, HeldOf, DelaysOf
<1>4. CASE Becomes(AdvanceSchedule(dca, s.id, pass.at, FALSE), dcaTold)
  BY <1>1, <1>4, SkippedKeeps
<1>5. CASE Becomes(DeferSchedule(dca, s.id, pass.at + SidecarDelay), dcaTold)
  BY <1>1, <1>3, <1>5, DeferredKeeps
<1>6. CASE \E t \in NextOpenings :
             Becomes(Upsert(DeferSchedule(dca, s.id, t), s),
                     [dcaTold EXCEPT !.revived = IF Listed(dca, s.id) THEN @ ELSE @ \cup {s.id}])
  <2>1. PICK t \in NextOpenings :
             Becomes(Upsert(DeferSchedule(dca, s.id, t), s),
                     [dcaTold EXCEPT !.revived = IF Listed(dca, s.id) THEN @ ELSE @ \cup {s.id}])
    BY <1>6
  <2>2. t \in Nat /\ t > pass.at
    <3>1. Day(pass.at) \in Nat
      BY <1>3, DayOf
    <3>2. PICK e : e = Day(pass.at) + 1 /\ e \in Nat /\ Day(pass.at) < e
      BY <3>1
    <3>3. Instant(e, 0) \in Nat /\ Instant(e, 0) > pass.at
      BY <1>3, <3>2, InstantOfLaterDay
    <3> QED
      BY <1>3, <2>1, <3>2, <3>3 DEF NextOpenings
  <2>3. PICK r \in SUBSET Ids : r = IF Listed(dca, s.id) THEN dcaTold.revived ELSE dcaTold.revived \cup {s.id}
    BY <1>2, <1>3 DEF Histories
  <2>4. PICK h : h = [dcaTold EXCEPT !.revived = r]
    OBVIOUS
  <2>5. /\ h \in Histories
        /\ h.added = dcaTold.added /\ h.limit = dcaTold.limit /\ h.stopped = dcaTold.stopped
        /\ h.placed = dcaTold.placed /\ h.exempt = dcaTold.exempt /\ h.revived = r
    BY <1>2, <2>3, <2>4 DEF Histories
  <2>6. PICK m : m = Upsert(DeferSchedule(dca, s.id, t), s)
    OBVIOUS
  <2>7. Becomes(m, h)
    BY <2>1, <2>3, <2>4, <2>6
  <2>8. m \in Manager
    <3>1. PICK d : d = DeferSchedule(dca, s.id, t)
      OBVIOUS
    <3>2. CASE s.id \in DOMAIN dca.mem
      <4>1. Below(dca.mem[s.id])
        BY <1>2, <3>2, HeldOf
      <4>2. d \in Manager
        BY <1>2, <1>3, <2>2, <3>1, <3>2, <4>1, DeferOf DEF MovesOn
      <4> QED
        BY <1>3, <2>6, <3>1, <4>2, UpsertOf
    <3>3. CASE s.id \notin DOMAIN dca.mem
      <4>1. d = dca
        BY <3>1, <3>3 DEF DeferSchedule, Listed
      <4> QED
        BY <1>2, <1>3, <2>6, <3>1, <4>1, UpsertOf
    <3> QED
      BY <3>2, <3>3
  <2>9. \A k \in Ids : h.placed[k] = IF k = s.id THEN dcaTold.placed[k] + 0 ELSE dcaTold.placed[k]
    BY <1>2, <2>5 DEF Histories
  <2>10. dcaTold.revived \subseteq h.revived
    BY <2>3, <2>5
  <2>11. ToldBy(s.id, 0) /\ dca' = m
    BY <2>5, <2>7, <2>8, <2>9, <2>10, ToldFrom
  <2>12. s.id \notin DOMAIN dca.mem => s.id \in dcaTold'.revived
    BY <2>3, <2>5, <2>7, <2>8, BecomesOf DEF Listed
  <2> QED
    BY <1>1, <2>2, <2>6, <2>11, <2>12, HandledWritten
<1> QED
  BY <1>4, <1>5, <1>6 DEF MarketClosed

\* A failure is counted; the order may yet be at the exchange, and s is exempt then.
LEMMA FailureKeeps ==
    ASSUME DcaInv, NEW s, AtHand(s), Done(s), UNCHANGED <<dcaTable, dcaClock>>,
           NEW p \in {0, 1}, NEW h \in Histories, Becomes(CountFailure(dca, s.id, pass.at), h),
           h.added = dcaTold.added, h.limit = dcaTold.limit, h.stopped = dcaTold.stopped,
           \A k \in Ids : h.placed[k] = IF k = s.id THEN dcaTold.placed[k] + p ELSE dcaTold.placed[k],
           dcaTold.revived \subseteq h.revived, dcaTold.exempt \subseteq h.exempt,
           p = 0 \/ s.id \in h.exempt
    PROVE  DcaInv'
<1>1. s \in Held /\ dca \in Manager
  BY DoneOf DEF DcaInv, Types
<1>2. s.id \in Ids /\ pass.at \in Nat /\ pass.at <= MaxDcaTime
  BY <1>1, HeldOf
<1>3. PICK m : m = CountFailure(dca, s.id, pass.at)
  OBVIOUS
<1>4. CASE s.id \in DOMAIN dca.mem
  <2>1. Below(dca.mem[s.id])
    BY <1>1, <1>4, HeldOf
  <2>2. MovesOn(dca, m, s.id, 0, pass.at)
    BY <1>1, <1>2, <1>3, <1>4, <2>1, CountFailureOf
  <2>3. m \in Manager
    BY <2>2 DEF MovesOn
  <2>4. dca' = m /\ ToldBy(s.id, p) /\ h.exempt \subseteq dcaTold'.exempt
    BY <1>3, <2>3, ToldFrom, BecomesOf
  <2> QED
    BY <1>4, <2>2, <2>4, HandledListed
<1>5. CASE s.id \notin DOMAIN dca.mem
  <2>1. PICK k \in 0..(FailLimit - 1) : m = [dca EXCEPT !.fails[s.id] = k]
    <3>1. dca.fails[s.id] \in 0..(FailLimit - 1)
      BY <1>1, <1>2, ManagerOf
    <3>2. CASE dca.fails[s.id] + 1 >= FailLimit
      <4>1. m = [dca EXCEPT !.fails[s.id] = 0]
        <5>1. PICK d : d = [dca EXCEPT !.fails[s.id] = 0]
          OBVIOUS
        <5>2. m = AdvanceSchedule(d, s.id, pass.at, FALSE)
          BY <1>3, <3>2, <5>1 DEF CountFailure
        <5>3. d.mem = dca.mem
          BY <1>1, <5>1 DEF Manager
        <5> QED
          BY <1>5, <5>1, <5>2, <5>3 DEF AdvanceSchedule, Listed
      <4>2. 0 \in 0..(FailLimit - 1)
        BY DelaysOf
      <4> QED
        BY <4>1, <4>2
    <3>3. CASE ~(dca.fails[s.id] + 1 >= FailLimit)
      <4>1. m = [dca EXCEPT !.fails[s.id] = dca.fails[s.id] + 1]
        <5>1. PICK d : d = [dca EXCEPT !.fails[s.id] = @ + 1]
          OBVIOUS
        <5>2. m = DeferSchedule(d, s.id, pass.at + RetryDelay)
          BY <1>3, <3>3, <5>1 DEF CountFailure
        <5>3. d.mem = dca.mem /\ d = [dca EXCEPT !.fails[s.id] = dca.fails[s.id] + 1]
          BY <1>1, <5>1 DEF Manager
        <5> QED
          BY <1>5, <5>2, <5>3 DEF DeferSchedule, Listed
      <4>2. dca.fails[s.id] + 1 \in 0..(FailLimit - 1)
        BY <3>1, <3>3, DelaysOf
      <4> QED
        BY <4>1, <4>2
    <3> QED
      BY <3>2, <3>3
  <2>2. m \in Manager /\ m.mem = dca.mem /\ m.file = dca.file /\ m.tasks = dca.tasks
    BY <1>1, <2>1 DEF Manager
  <2>3. dca' = m /\ ToldBy(s.id, p) /\ h.exempt \subseteq dcaTold'.exempt
    BY <1>3, <2>2, ToldFrom, BecomesOf
  <2> QED
    BY <1>5, <2>2, <2>3, HandledUnlisted
<1> QED
  BY <1>4, <1>5

LEMMA NoPriceKeeps ==
    ASSUME DcaInv, NEW s, AtHand(s), Done(s), UNCHANGED <<dcaTable, dcaClock>>,
           Becomes(CountFailure(dca, s.id, pass.at), dcaTold)
    PROVE  DcaInv'
<1>1. dcaTold \in Histories
  BY DEF DcaInv, Types
<1>2. \A k \in Ids : dcaTold.placed[k] = IF k = s.id THEN dcaTold.placed[k] + 0 ELSE dcaTold.placed[k]
  BY <1>1 DEF Histories
<1> QED
  BY <1>1, <1>2, FailureKeeps

LEMMA FailsKeeps ==
    ASSUME DcaInv, NEW s, OrderFails(s)
    PROVE  DcaInv'
<1>1. AtHand(s) /\ Done(s) /\ UNCHANGED <<dcaTable, dcaClock>>
  BY DEF OrderFails, Holds, AtHand
<1>2. CASE Becomes(CountFailure(dca, s.id, pass.at), dcaTold)
  BY <1>1, <1>2, NoPriceKeeps
<1>3. CASE Becomes(CountFailure(dca, s.id, pass.at),
                   [dcaTold EXCEPT !.placed[s.id] = @ + 1, !.exempt = @ \cup {s.id}, !.faults = @ + 1])
  <2>1. dcaTold \in Histories /\ s \in Held
    BY <1>1, DoneOf DEF DcaInv, Types
  <2>2. s.id \in Ids
    BY <2>1, HeldOf
  <2>3. PICK h : h = [dcaTold EXCEPT !.placed[s.id] = @ + 1, !.exempt = @ \cup {s.id}, !.faults = @ + 1]
    OBVIOUS
  <2>4. PICK a : a = [dcaTold EXCEPT !.placed[s.id] = @ + 1]
    OBVIOUS
  <2>5. PICK b : b = [a EXCEPT !.exempt = @ \cup {s.id}]
    OBVIOUS
  <2>6. h = [b EXCEPT !.faults = @ + 1]
    BY <2>3, <2>4, <2>5
  <2>7. /\ a \in Histories
        /\ a.added = dcaTold.added /\ a.limit = dcaTold.limit /\ a.stopped = dcaTold.stopped
        /\ a.placed = [dcaTold.placed EXCEPT ![s.id] = @ + 1]
        /\ a.exempt = dcaTold.exempt /\ a.revived = dcaTold.revived
    BY <2>1, <2>2, <2>4 DEF Histories
  <2>8. /\ b \in Histories
        /\ b.added = a.added /\ b.limit = a.limit /\ b.stopped = a.stopped
        /\ b.placed = a.placed /\ b.exempt = a.exempt \cup {s.id} /\ b.revived = a.revived
    BY <2>2, <2>5, <2>7 DEF Histories
  <2>9. /\ h \in Histories
        /\ h.added = dcaTold.added /\ h.limit = dcaTold.limit /\ h.stopped = dcaTold.stopped
        /\ h.placed = [dcaTold.placed EXCEPT ![s.id] = @ + 1]
        /\ h.exempt = dcaTold.exempt \cup {s.id} /\ h.revived = dcaTold.revived
    BY <2>6, <2>7, <2>8 DEF Histories
  <2>10. \A k \in Ids : h.placed[k] = IF k = s.id THEN dcaTold.placed[k] + 1 ELSE dcaTold.placed[k]
    BY <2>1, <2>9 DEF Histories
  <2>11. Becomes(CountFailure(dca, s.id, pass.at), h)
    BY <1>3, <2>3
  <2> QED
    BY <1>1, <2>9, <2>10, <2>11, FailureKeeps
<1> QED
  BY <1>2, <1>3 DEF OrderFails

LEMMA AcceptedKeeps ==
    ASSUME DcaInv, NEW s, OrderAccepted(s)
    PROVE  DcaInv'
<1>1. AtHand(s) /\ Done(s) /\ UNCHANGED <<dcaTable, dcaClock>>
  BY DEF OrderAccepted, Holds, AtHand
<1>2. s \in Held /\ dca \in Manager /\ dcaTold \in Histories
  BY <1>1, DoneOf DEF DcaInv, Types
<1>3. s.id \in Ids /\ pass.at \in Nat /\ pass.at <= MaxDcaTime
  BY <1>2, HeldOf
<1>4. PICK d : d = [dca EXCEPT !.fails[s.id] = 0]
  OBVIOUS
<1>5. d \in Manager /\ d.mem = dca.mem /\ d.file = dca.file /\ d.tasks = dca.tasks
  <2>1. 0 \in 0..(FailLimit - 1)
    BY DelaysOf
  <2> QED
    BY <1>2, <1>4, <2>1 DEF Manager
<1>6. PICK m : m = AdvanceSchedule(d, s.id, pass.at, TRUE)
  OBVIOUS
<1>7. PICK h : h = [dcaTold EXCEPT !.placed[s.id] = @ + 1]
  OBVIOUS
<1>8. Becomes(m, h)
  BY <1>4, <1>6, <1>7 DEF OrderAccepted
<1>9. /\ h \in Histories
      /\ h.added = dcaTold.added /\ h.limit = dcaTold.limit /\ h.stopped = dcaTold.stopped
      /\ h.exempt = dcaTold.exempt /\ h.revived = dcaTold.revived
      /\ \A k \in Ids : h.placed[k] = IF k = s.id THEN dcaTold.placed[k] + 1 ELSE dcaTold.placed[k]
  BY <1>2, <1>3, <1>7 DEF Histories
<1>10. CASE s.id \in DOMAIN dca.mem
  <2>1. MovesOn(d, m, s.id, 1, pass.at)
    BY <1>3, <1>5, <1>6, <1>10, AdvanceOf
  <2>2. MovesOn(dca, m, s.id, 1, pass.at)
    BY <1>5, <2>1, MovesOnAfter
  <2>3. m \in Manager
    BY <2>1 DEF MovesOn
  <2>4. dca' = m /\ ToldBy(s.id, 1)
    BY <1>8, <1>9, <2>3, ToldFrom
  <2> QED
    BY <1>1, <1>10, <2>2, <2>4, HandledListed
<1>11. CASE s.id \notin DOMAIN dca.mem
  <2>1. m = d
    BY <1>5, <1>6, <1>11 DEF AdvanceSchedule, Listed
  <2>2. dca' = d /\ ToldBy(s.id, 1)
    BY <1>5, <1>8, <1>9, <2>1, ToldFrom
  <2> QED
    BY <1>1, <1>5, <1>11, <2>2, HandledUnlisted
<1> QED
  BY <1>10, <1>11

(***************************************************************************)
(* The steps of the pass and of the clock that change nothing else.        *)
(***************************************************************************)
LEMMA QuietKeeps ==
    ASSUME DcaInv, UNCHANGED <<dca, dcaTable, dcaTold>>,
           dcaClock' \in Nat, dcaClock' <= MaxDcaTime, pass' \in Passes, pass'.at <= dcaClock', PassHolds',
           DOMAIN pass'.rows = {} \/ pass'.rows = pass.rows \/ (pass'.rows = dcaTable /\ Coming = {}),
           Coming \subseteq Coming', DueHolds',
           \A s \in Held' : s \in Held \/ (s.id \in DOMAIN dca.mem /\ s = dca.mem[s.id])
    PROVE  DcaInv'
<1>1. Types'
  BY DEF DcaInv, Types
<1>2. \A x : Sound(x) => Sound(x)'
  BY DEF Sound
<1>3. LimitsHold'
  <2>1. /\ \A i \in DOMAIN dca.mem : Sound(dca.mem[i])
        /\ \A i \in DOMAIN dca.file : Sound(dca.file[i])
        /\ \A i \in DOMAIN dcaTable : Sound(dcaTable[i])
        /\ \A i \in DOMAIN pass.rows : Sound(pass.rows[i])
        /\ \A s \in Held : Sound(s)
        /\ \A t \in dca.tasks : t.id \in dcaTold.added /\ (t.op = "put" => Sound(t.row))
        /\ \A i \in Ids \ dcaTold.added : dcaTold.placed[i] = 0 /\ i \notin dcaTold.stopped
    BY DEF DcaInv, LimitsHold
  <2>2. \A i \in DOMAIN pass'.rows : Sound(pass'.rows[i])
    BY <2>1
  <2>3. \A s \in Held' : Sound(s)
    BY <2>1
  <2> QED
    BY <1>2, <2>1, <2>2, <2>3 DEF LimitsHold
<1>4. Counts'
  <2> SUFFICES ASSUME NEW i \in Ids \ dcaTold.exempt PROVE CountHolds(i)'
    BY DEF Counts
  <2>1. CountHolds(i)
    BY DEF DcaInv, Counts
  <2>2. i \in DOMAIN pass'.rows => pass'.rows[i].runs = dcaTold.placed[i]
    BY <2>1 DEF CountHolds
  <2>3. \A s \in Held' : s.id = i => s.runs = dcaTold.placed[i]
    BY <2>1 DEF CountHolds
  <2> QED
    BY <2>1, <2>2, <2>3 DEF CountHolds
<1>5. StopsHold'
  <2>1. \A i : Gone(i) => Gone(i)'
    BY DEF Gone
  <2> QED
    BY <2>1 DEF DcaInv, StopsHold
<1> QED
  BY <1>1, <1>3, <1>4, <1>5 DEF DcaInv

LEMMA AsleepOf ==
    /\ Asleep \in Passes /\ Asleep.pc = "sleep" /\ DOMAIN Asleep.rows = {}
    /\ Asleep.due = {} /\ Asleep.cur = {} /\ Asleep.at = 0
<1>1. NothingStored \in Lists /\ DOMAIN NothingStored = {}
  BY ListsHold
<1> QED
  BY <1>1 DEF Asleep, Passes, Phases

LEMMA WakeKeeps == DcaInv /\ Wake => DcaInv'
<1> SUFFICES ASSUME DcaInv, Wake PROVE DcaInv'
  OBVIOUS
<1>1. pass.pc = "sleep" /\ UNCHANGED <<dca, dcaTable, dcaClock, dcaTold>>
  BY DEF Wake
<1>2. dca.tasks \subseteq Tasks /\ "flush" \in Phases
  BY DEF DcaInv, Types, Manager, Phases
<1>3. /\ pass' \in Passes /\ pass'.pc = "flush" /\ pass'.wait = dca.tasks /\ DOMAIN pass'.rows = {}
      /\ pass'.due = {} /\ pass'.cur = {} /\ pass'.at = 0
  <2>1. pass' = [pc |-> "flush", wait |-> dca.tasks, rows |-> NothingStored, due |-> {}, cur |-> {}, at |-> 0]
    BY DEF Wake, Asleep
  <2>2. NothingStored \in Lists /\ DOMAIN NothingStored = {}
    BY ListsHold
  <2> QED
    BY <1>2, <2>1, <2>2 DEF Passes
<1>4. Held' = {}
  BY <1>3 DEF Held
<1>5. PassHolds' /\ DueHolds'
  BY <1>3, <1>4 DEF PassHolds, DueHolds
<1>6. Coming \subseteq Coming'
  BY <1>1, <1>3 DEF Coming
<1> QED
  BY <1>1, <1>3, <1>4, <1>5, <1>6, ClockOf, QuietKeeps

LEMMA FetchKeeps == DcaInv /\ Fetch => DcaInv'
<1> SUFFICES ASSUME DcaInv, Fetch PROVE DcaInv'
  OBVIOUS
<1>1. pass.pc = "flush" /\ pass.wait \cap dca.tasks = {} /\ UNCHANGED <<dca, dcaTable, dcaClock, dcaTold>>
  BY DEF Fetch
<1>2. pass \in Passes /\ dcaTable \in Lists /\ pass.due = {} /\ pass.cur = {}
  BY <1>1 DEF DcaInv, Types, PassHolds
<1>3. PICK y : y = [pass EXCEPT !.pc = "fetch", !.wait = {}]
  OBVIOUS
<1>4. y \in Passes /\ y.pc = "fetch" /\ y.due = {} /\ y.cur = {} /\ y.at = pass.at
  BY <1>2, <1>3 DEF Passes, Phases
<1>5. pass' = [y EXCEPT !.rows = dcaTable]
  BY <1>3 DEF Fetch
<1>6. /\ pass' \in Passes /\ pass'.pc = "fetch" /\ pass'.rows = dcaTable
      /\ pass'.due = {} /\ pass'.cur = {} /\ pass'.at = pass.at
  BY <1>2, <1>4, <1>5 DEF Passes
<1>7. Held' = {}
  BY <1>6 DEF Held
<1>8. PassHolds' /\ DueHolds'
  BY <1>6, <1>7 DEF PassHolds, DueHolds
<1>9. Coming = {}
  BY <1>1 DEF Coming
<1> QED
  BY <1>1, <1>6, <1>7, <1>8, <1>9, ClockOf, QuietKeeps

LEMMA ListDueKeeps == DcaInv /\ ListDue => DcaInv'
<1> SUFFICES ASSUME DcaInv, ListDue PROVE DcaInv'
  OBVIOUS
<1> DEFINE due == {dca.mem[i] : i \in {j \in DOMAIN dca.mem : dca.mem[j].next <= dcaClock}}
<1>1. pass.pc = "due" /\ UNCHANGED <<dca, dcaTable, dcaClock, dcaTold>>
  BY DEF ListDue
<1>2. pass \in Passes /\ dca \in Manager /\ dcaClock \in Nat /\ DOMAIN pass.rows = {} /\ pass.cur = {}
  BY <1>1 DEF DcaInv, Types, PassHolds
<1>3. \A i \in DOMAIN dca.mem : dca.mem[i] \in Schedule /\ dca.mem[i].id = i
  BY <1>2, ManagerOf, ListsHold
<1>4. due \subseteq Schedule /\ \A s \in due : s.id \in DOMAIN dca.mem /\ s = dca.mem[s.id]
  BY <1>3
<1>5. \A i \in DOMAIN dca.mem : dca.mem[i].next <= dcaClock => \E s \in due : s.id = i
  BY <1>3
<1>6. /\ pass' \in Passes /\ pass'.pc = "next" /\ pass'.at = dcaClock /\ pass'.due = due
      /\ pass'.cur = {} /\ pass'.rows = pass.rows
  <2>1. pass' = [[[pass EXCEPT !.pc = "next"] EXCEPT !.at = dcaClock] EXCEPT !.due = due]
    BY DEF ListDue
  <2>2. PICK y : y = [pass EXCEPT !.pc = "next"]
    OBVIOUS
  <2>3. y \in Passes /\ y.pc = "next" /\ y.cur = {} /\ y.rows = pass.rows
    BY <1>2, <2>2 DEF Passes, Phases
  <2>4. PICK z : z = [y EXCEPT !.at = dcaClock]
    OBVIOUS
  <2>5. z \in Passes /\ z.pc = "next" /\ z.cur = {} /\ z.rows = pass.rows /\ z.at = dcaClock
    BY <1>2, <2>3, <2>4 DEF Passes
  <2> HIDE DEF due
  <2> QED
    BY <1>4, <2>1, <2>2, <2>4, <2>5 DEF Passes
<1> HIDE DEF due
<1>7. Held' = due
  BY <1>6 DEF Held
<1>8. PassHolds'
  BY <1>2, <1>4, <1>6, <1>7 DEF PassHolds
<1>9. DueHolds'
  BY <1>1, <1>5, <1>6, <1>7 DEF DueHolds
<1>10. Coming \subseteq Coming'
  BY <1>1, <1>6 DEF Coming
<1> QED
  BY <1>1, <1>2, <1>4, <1>6, <1>7, <1>8, <1>9, <1>10, ClockOf, QuietKeeps

LEMMA EndPassKeeps == DcaInv /\ EndPass => DcaInv'
<1> SUFFICES ASSUME DcaInv, EndPass PROVE DcaInv'
  OBVIOUS
<1>1. pass.pc = "next" /\ pass' = Asleep /\ UNCHANGED <<dca, dcaTable, dcaClock, dcaTold>>
  BY DEF EndPass
<1>2. /\ pass' \in Passes /\ pass'.pc = "sleep" /\ DOMAIN pass'.rows = {}
      /\ pass'.due = {} /\ pass'.cur = {} /\ pass'.at = 0
  BY <1>1, AsleepOf
<1>3. Held' = {}
  BY <1>2 DEF Held
<1>4. PassHolds' /\ DueHolds'
  BY <1>2, <1>3 DEF PassHolds, DueHolds
<1>5. Coming \subseteq Coming'
  BY <1>1, <1>2 DEF Coming
<1> QED
  BY <1>1, <1>2, <1>3, <1>4, <1>5, ClockOf, QuietKeeps

LEMMA SkipKeeps ==
    ASSUME DcaInv, NEW s, SkipRemoved(s)
    PROVE  DcaInv'
<1>1. AtHand(s) /\ Done(s) /\ s.id \notin DOMAIN dca.mem /\ UNCHANGED <<dca, dcaTable, dcaClock, dcaTold>>
  BY DEF SkipRemoved, Take, AtHand, Listed
<1>2. /\ pass' \in Passes /\ pass'.pc = "next" /\ pass'.cur = {} /\ pass'.at = pass.at
      /\ DOMAIN pass'.rows = {} /\ Held' = Held \ {s} /\ s \in Held
  BY <1>1, DoneOf
<1>3. PassHolds'
  BY <1>2 DEF DcaInv, PassHolds
<1>4. DueHolds'
  <2> SUFFICES ASSUME NEW i \in DOMAIN dca.mem, dca.mem[i].next <= pass.at PROVE \E t \in Held' : t.id = i
    BY <1>1, <1>2 DEF DueHolds
  <2>1. PICK t \in Held : t.id = i
    BY <1>1 DEF DcaInv, DueHolds, AtHand
  <2> QED
    BY <1>1, <1>2, <2>1
<1>5. Coming \subseteq Coming'
  BY <1>1, <1>2 DEF Coming, AtHand
<1> QED
  BY <1>1, <1>2, <1>3, <1>4, <1>5, ClockOf, QuietKeeps

LEMMA PrepareKeeps ==
    ASSUME DcaInv, NEW s, Prepare(s)
    PROVE  DcaInv'
<1>1. pass.pc = "next" /\ s \in pass.due /\ UNCHANGED <<dca, dcaTable, dcaClock, dcaTold>>
  BY DEF Prepare, Take
<1>2. pass \in Passes /\ DOMAIN pass.rows = {} /\ pass.cur = {} /\ s \in Schedule
  BY <1>1 DEF DcaInv, Types, PassHolds, Passes
<1>3. /\ pass' \in Passes /\ pass'.pc = "calendar" /\ pass'.due = pass.due \ {s} /\ pass'.cur = {s}
      /\ pass'.rows = pass.rows /\ pass'.at = pass.at
  <2>1. PICK y : y = [pass EXCEPT !.pc = "calendar"]
    OBVIOUS
  <2>2. y \in Passes /\ y.pc = "calendar" /\ y.due = pass.due /\ y.rows = pass.rows /\ y.at = pass.at
    BY <1>2, <2>1 DEF Passes, Phases
  <2>3. PICK z : z = [y EXCEPT !.due = @ \ {s}]
    OBVIOUS
  <2>4. z \in Passes /\ z.pc = "calendar" /\ z.due = pass.due \ {s} /\ z.rows = pass.rows /\ z.at = pass.at
    BY <2>2, <2>3 DEF Passes
  <2>5. pass' = [z EXCEPT !.cur = {s}]
    BY <2>1, <2>3 DEF Prepare
  <2> QED
    BY <1>2, <2>4, <2>5 DEF Passes
<1>4. Held' = Held
  BY <1>1, <1>2, <1>3 DEF Held
<1>5. PassHolds'
  <2>1. \A t, u \in Held : t.id = u.id => t = u
    BY DEF DcaInv, PassHolds
  <2> QED
    BY <1>2, <1>3, <1>4, <2>1 DEF PassHolds
<1>6. DueHolds'
  BY <1>1, <1>3, <1>4 DEF DcaInv, DueHolds
<1>7. Coming \subseteq Coming'
  BY <1>1, <1>3 DEF Coming
<1> QED
  BY <1>1, <1>2, <1>3, <1>4, <1>5, <1>6, <1>7, ClockOf, QuietKeeps

\* The pass asks for something else about the schedule it holds.
LEMMA AskKeeps ==
    ASSUME DcaInv, NEW x \in {"price", "budget", "order"}, pass.pc \in {"calendar", "price", "budget"},
           pass' = [pass EXCEPT !.pc = x], UNCHANGED <<dca, dcaTable, dcaClock, dcaTold>>
    PROVE  DcaInv'
<1>1. pass \in Passes /\ DOMAIN pass.rows = {}
  BY DEF DcaInv, Types, PassHolds
<1>2. /\ pass' \in Passes /\ pass'.pc = x /\ pass'.due = pass.due /\ pass'.cur = pass.cur
      /\ pass'.rows = pass.rows /\ pass'.at = pass.at
  BY <1>1 DEF Passes, Phases
<1>3. Held' = Held
  BY <1>2 DEF Held
<1>4. PassHolds'
  BY <1>1, <1>2, <1>3 DEF DcaInv, PassHolds
<1>5. DueHolds'
  BY <1>2, <1>3 DEF DcaInv, DueHolds
<1>6. Coming \subseteq Coming'
  BY <1>2 DEF Coming
<1> QED
  BY <1>1, <1>2, <1>3, <1>4, <1>5, <1>6, ClockOf, QuietKeeps

LEMMA TickKeeps == DcaInv /\ DcaTick => DcaInv'
<1> SUFFICES ASSUME DcaInv, DcaTick PROVE DcaInv'
  OBVIOUS
<1>1. /\ dcaClock < MaxDcaTime /\ dcaClock' = dcaClock + 1 /\ UNCHANGED <<dca, dcaTable, pass, dcaTold>>
  BY DEF DcaTick
<1>2. MaxDcaTime \in Nat
  BY DcaAssumption
<1>3. dcaClock' \in Nat /\ dcaClock' <= MaxDcaTime /\ pass.at <= dcaClock'
  BY <1>1, <1>2, ClockOf
<1>4. pass \in Passes /\ PassHolds' /\ DueHolds' /\ Held' = Held /\ Coming' = Coming
  BY <1>1 DEF DcaInv, Types, PassHolds, DueHolds, Held, Coming
<1> QED
  BY <1>1, <1>3, <1>4, QuietKeeps

\* The steps of the loop, but for the reload of the list.
LEMMA LoopKeeps == DcaInv /\ LoopStep => DcaInv' \/ Reload
<1> SUFFICES ASSUME DcaInv, LoopStep, ~Reload PROVE DcaInv'
  OBVIOUS
<1>1. CASE Wake \/ Fetch \/ ListDue \/ EndPass
  BY <1>1, WakeKeeps, FetchKeeps, ListDueKeeps, EndPassKeeps
<1>2. CASE \E s \in pass.due : SkipRemoved(s) \/ TradingHalted(s) \/ OwnerGone(s) \/ Prepare(s)
  <2>1. PICK s \in pass.due : SkipRemoved(s) \/ TradingHalted(s) \/ OwnerGone(s) \/ Prepare(s)
    BY <1>2
  <2>2. CASE TradingHalted(s)
    BY <2>2, PutOffKeeps DEF TradingHalted, Take, AtHand
  <2> QED
    BY <2>1, <2>2, SkipKeeps, OwnerGoneKeeps, PrepareKeeps
<1>3. CASE \E s \in pass.cur :
             \/ MarketClosed(s) \/ AskPrice(s) \/ NoPrice(s) \/ AskBudget(s) \/ NotNow(s)
             \/ SubmitOrder(s) \/ OrderAccepted(s) \/ OrderHalted(s) \/ OrderFails(s)
  <2>1. PICK s \in pass.cur :
             \/ MarketClosed(s) \/ AskPrice(s) \/ NoPrice(s) \/ AskBudget(s) \/ NotNow(s)
             \/ SubmitOrder(s) \/ OrderAccepted(s) \/ OrderHalted(s) \/ OrderFails(s)
    BY <1>3
  <2>2. CASE AskPrice(s)
    BY <2>2, AskKeeps DEF AskPrice, Holds
  <2>3. CASE AskBudget(s)
    BY <2>3, AskKeeps DEF AskBudget, Holds
  <2>4. CASE SubmitOrder(s)
    BY <2>4, AskKeeps DEF SubmitOrder, Priced, Holds
  <2>5. CASE NoPrice(s)
    BY <2>5, NoPriceKeeps DEF NoPrice, Holds, AtHand
  <2>6. CASE NotNow(s)
    BY <2>6, SkippedKeeps DEF NotNow, Priced, Holds, AtHand
  <2>7. CASE OrderHalted(s)
    BY <2>7, PutOffKeeps DEF OrderHalted, Holds, AtHand
  <2> QED
    BY <2>1, <2>2, <2>3, <2>4, <2>5, <2>6, <2>7, CloseKeeps, AcceptedKeeps, FailsKeeps
<1> QED
  BY <1>1, <1>2, <1>3 DEF LoopStep

(***************************************************************************)
(* The commands.                                                           *)
(***************************************************************************)
\* Of a schedule that was not added there is nothing.
LEMMA FreshOf ==
    ASSUME DcaInv, NEW i \in Ids \ dcaTold.added
    PROVE  /\ i \notin DOMAIN dca.mem /\ i \notin DOMAIN dca.file /\ i \notin DOMAIN dcaTable
           /\ i \notin DOMAIN pass.rows /\ \A s \in Held : s.id # i
           /\ \A t \in dca.tasks : t.id # i
           /\ dcaTold.placed[i] = 0 /\ i \notin dcaTold.stopped
<1>1. dca.mem \in Lists /\ dca.file \in Lists /\ dcaTable \in Lists /\ pass.rows \in Lists
  BY ManagerOf DEF DcaInv, Types, Passes
<1>2. \A f \in Lists : \A k \in DOMAIN f : f[k].id = k
  BY ListsHold
<1>3. LimitsHold
  BY DEF DcaInv
<1> QED
  BY <1>1, <1>2, <1>3 DEF LimitsHold, Sound

LEMMA AddKeeps ==
    ASSUME DcaInv, NEW i \in Ids, AddSchedule(i)
    PROVE  DcaInv'
<1>1. PICK freq \in Frequencies, limit \in Limits, tpl \in BOOLEAN :
        \E s : /\ s = [id |-> i, freq |-> freq, next |-> NextRunAt(freq, ExecSlot, dcaClock, FALSE),
                       runs |-> 0, limit |-> limit, tpl |-> tpl]
               /\ Becomes(Upsert(WithSchedule(dca, s), s),
                          [dcaTold EXCEPT !.added = @ \cup {i}, !.limit[i] = limit])
  BY DEF AddSchedule
<1>2. PICK s : /\ s = [id |-> i, freq |-> freq, next |-> NextRunAt(freq, ExecSlot, dcaClock, FALSE),
                       runs |-> 0, limit |-> limit, tpl |-> tpl]
               /\ Becomes(Upsert(WithSchedule(dca, s), s),
                          [dcaTold EXCEPT !.added = @ \cup {i}, !.limit[i] = limit])
  BY <1>1
<1>3. i \notin dcaTold.added /\ UNCHANGED <<dcaTable, pass, dcaClock>>
  BY DEF AddSchedule
<1>4. dca \in Manager /\ dcaTold \in Histories /\ limit \in Nat
  BY DelaysOf DEF DcaInv, Types
<1>5. s \in Schedule /\ s.id = i /\ s.runs = 0 /\ s.limit = limit /\ s.next > dcaClock
  <2>1. PICK t \in Nat : t = NextRunAt(freq, ExecSlot, dcaClock, FALSE) /\ t > dcaClock
    BY ClockOf, NextRunIsLater
  <2> QED
    BY <1>2, <2>1 DEF Schedule
<1>6. PICK m : m = WithSchedule(dca, s)
  OBVIOUS
<1>7. m \in Manager /\ Puts(dca.mem, m.mem, i, s) /\ m.tasks = dca.tasks
  BY <1>4, <1>5, <1>6, WithScheduleOf
<1>8. PICK b : b = Upsert(m, s)
  OBVIOUS
<1>9. b \in Manager /\ b.mem = m.mem /\ b.file = m.mem /\ b.tasks = dca.tasks \cup {PutTask(s)}
  BY <1>5, <1>7, <1>8, UpsertOf
<1>10. PICK h : h = [dcaTold EXCEPT !.added = @ \cup {i}, !.limit[i] = limit]
  OBVIOUS
<1>11. /\ h \in Histories
       /\ h.added = dcaTold.added \cup {i} /\ h.limit = [dcaTold.limit EXCEPT ![i] = limit]
       /\ h.placed = dcaTold.placed /\ h.stopped = dcaTold.stopped
       /\ h.revived = dcaTold.revived /\ h.exempt = dcaTold.exempt
  <2>1. PICK a : a = [dcaTold EXCEPT !.added = @ \cup {i}]
    OBVIOUS
  <2>2. /\ a \in Histories /\ a.added = dcaTold.added \cup {i}
        /\ a.limit = dcaTold.limit /\ a.placed = dcaTold.placed /\ a.stopped = dcaTold.stopped
        /\ a.revived = dcaTold.revived /\ a.exempt = dcaTold.exempt
    BY <1>4, <2>1 DEF Histories
  <2>3. h = [a EXCEPT !.limit[i] = limit]
    BY <1>10, <2>1
  <2> QED
    BY <1>4, <2>2, <2>3 DEF Histories
<1>12. Becomes(b, h)
  BY <1>2, <1>6, <1>8, <1>10
<1>13. /\ dca' = b /\ dcaTold' \in Histories
       /\ dcaTold'.added = dcaTold.added \cup {i} /\ dcaTold'.limit = [dcaTold.limit EXCEPT ![i] = limit]
       /\ dcaTold'.placed = dcaTold.placed /\ dcaTold'.stopped = dcaTold.stopped
       /\ dcaTold'.revived = dcaTold.revived /\ dcaTold.exempt \subseteq dcaTold'.exempt
  BY <1>9, <1>11, <1>12, BecomesOf
<1>14. /\ PutTask(s).op = "put" /\ PutTask(s).id = i /\ PutTask(s).row.id = i
       /\ PutTask(s).row.runs = 0 /\ PutTask(s).row.limit = limit
  BY <1>5, TasksOf
<1>15. /\ i \notin DOMAIN dca.mem /\ i \notin DOMAIN dca.file /\ i \notin DOMAIN dcaTable
       /\ i \notin DOMAIN pass.rows /\ \A x \in Held : x.id # i
       /\ \A t \in dca.tasks : t.id # i
       /\ dcaTold.placed[i] = 0 /\ i \notin dcaTold.stopped
  BY <1>3, FreshOf
<1>16. /\ DOMAIN dca'.mem = DOMAIN dca.mem \cup {i} /\ dca'.mem[i] = s
       /\ \A k \in DOMAIN dca.mem : dca'.mem[k] = dca.mem[k]
       /\ dca'.file = dca'.mem /\ dca'.tasks = dca.tasks \cup {PutTask(s)}
  BY <1>7, <1>9, <1>13, <1>15 DEF Puts
<1>17. Held' = Held /\ Coming \subseteq Coming'
  BY <1>3, <1>16 DEF Held, Coming
<1>18. Types' /\ PassHolds'
  BY <1>3, <1>9, <1>13, <1>17 DEF DcaInv, Types, PassHolds
<1>19. LimitsHold'
  <2> DEFINE Fit(x) == /\ x.id \in dcaTold'.added /\ x.limit = dcaTold'.limit[x.id]
                       /\ x.limit > 0 => x.runs < x.limit
  <2>1. \A x : Sound(x) => Fit(x)
    BY <1>3, <1>4, <1>13 DEF Sound, Histories
  <2>2. \A x : x.id = i /\ x.limit = limit /\ x.runs = 0 => Fit(x)
    BY <1>4, <1>13 DEF Histories
  <2> HIDE DEF Fit
  <2>3. \A k \in DOMAIN dca'.mem : Fit(dca'.mem[k])
    BY <1>5, <1>16, <2>1, <2>2 DEF DcaInv, LimitsHold
  <2>4. \A t \in dca'.tasks : t.id \in dcaTold'.added /\ (t.op = "put" => Fit(t.row))
    BY <1>13, <1>14, <1>16, <2>1, <2>2 DEF DcaInv, LimitsHold
  <2>5. /\ \A k \in DOMAIN dcaTable : Fit(dcaTable[k])
        /\ \A k \in DOMAIN pass.rows : Fit(pass.rows[k])
        /\ \A x \in Held : Fit(x)
    BY <2>1 DEF DcaInv, LimitsHold
  <2>6. \A k \in Ids \ dcaTold'.added : dcaTold'.placed[k] = 0 /\ k \notin dcaTold'.stopped
    BY <1>13 DEF DcaInv, LimitsHold
  <2>7. \A x : Fit(x) => Sound(x)'
    BY DEF Fit, Sound
  <2> QED
    BY <1>3, <1>16, <1>17, <2>3, <2>4, <2>5, <2>6, <2>7 DEF LimitsHold
<1>20. Counts'
  <2> SUFFICES ASSUME NEW k \in Ids \ dcaTold'.exempt PROVE CountHolds(k)'
    BY DEF Counts
  <2>1. CountHolds(k)
    BY <1>13 DEF DcaInv, Counts
  <2>2. CASE k = i
    BY <1>3, <1>4, <1>5, <1>13, <1>14, <1>15, <1>16, <1>17, <2>2 DEF CountHolds, Histories
  <2>3. CASE k # i
    <3>1. dcaTold'.limit[k] = dcaTold.limit[k]
      BY <1>4, <1>13, <2>3 DEF Histories
    <3>2. \A t \in dca'.tasks : t.id = k => t \in dca.tasks
      BY <1>14, <1>16, <2>3
    <3> QED
      BY <1>3, <1>13, <1>16, <1>17, <2>1, <2>3, <3>1, <3>2 DEF CountHolds
  <2> QED
    BY <2>2, <2>3
<1>21. StopsHold'
  <2>1. ASSUME NEW k, k # i, Gone(k) PROVE Gone(k)'
    BY <1>3, <1>14, <1>16, <2>1 DEF Gone
  <2>2. \A k \in dcaTold'.stopped \ (dcaTold'.exempt \cup dcaTold'.revived) : Gone(k)'
    BY <1>13, <1>15, <2>1 DEF DcaInv, StopsHold
  <2>3. \A x \in Held : x.id \notin DOMAIN dca'.mem /\ x.id \notin dcaTold'.exempt => Gone(x.id)'
    BY <1>13, <1>15, <1>16, <2>1 DEF DcaInv, StopsHold
  <2> QED
    BY <1>17, <2>2, <2>3 DEF StopsHold
<1>22. DueHolds'
  <2> SUFFICES ASSUME pass.pc \in {"next", "calendar", "price", "budget", "order"},
                      NEW k \in DOMAIN dca'.mem, dca'.mem[k].next <= pass.at
               PROVE  \E x \in Held : x.id = k
    BY <1>3, <1>17 DEF DueHolds
  <2>1. k # i
    BY <1>5, <1>16, ClockOf DEF Schedule
  <2> QED
    BY <1>16, <2>1 DEF DcaInv, DueHolds
<1> QED
  BY <1>18, <1>19, <1>20, <1>21, <1>22 DEF DcaInv

\* The schedules J are removed by a command.
LEMMA StopsKeep ==
    ASSUME DcaInv, NEW J \in SUBSET DOMAIN dca.mem, NEW b \in Manager, Drops(dca.mem, b.mem, J), b.file = b.mem,
           b.tasks = dca.tasks \cup {DeleteTask(dca.mem[j]) : j \in J},
           NEW h, h = [dcaTold EXCEPT !.stopped = @ \cup J], Becomes(b, h),
           UNCHANGED <<dcaTable, pass, dcaClock>>
    PROVE  DcaInv'
<1>1. dca \in Manager /\ dcaTold \in Histories
  BY DEF DcaInv, Types
<1>2. \A j \in J : j \in Ids /\ dca.mem[j] \in Schedule /\ dca.mem[j].id = j /\ Sound(dca.mem[j])
  BY <1>1, ManagerOf, ListsHold DEF DcaInv, LimitsHold
<1>3. /\ h \in Histories /\ h.added = dcaTold.added /\ h.limit = dcaTold.limit /\ h.placed = dcaTold.placed
      /\ h.stopped = dcaTold.stopped \cup J /\ h.revived = dcaTold.revived /\ h.exempt = dcaTold.exempt
  <2>1. J \in SUBSET Ids
    BY <1>2
  <2> QED
    BY <1>1, <2>1 DEF Histories
<1>4. /\ dca' = b /\ dcaTold' \in Histories
      /\ dcaTold'.added = dcaTold.added /\ dcaTold'.limit = dcaTold.limit /\ dcaTold'.placed = dcaTold.placed
      /\ dcaTold'.stopped = dcaTold.stopped \cup J /\ dcaTold'.revived = dcaTold.revived
      /\ dcaTold.exempt \cup Raced(b.tasks) \subseteq dcaTold'.exempt
  BY <1>3, BecomesOf
<1>5. /\ DOMAIN dca'.mem = DOMAIN dca.mem \ J /\ \A k \in DOMAIN dca'.mem : dca'.mem[k] = dca.mem[k]
      /\ dca'.file = dca'.mem
  BY <1>4 DEF Drops
<1>6. /\ dca.tasks \subseteq dca'.tasks
      /\ \A t \in dca'.tasks \ dca.tasks : t.op = "del" /\ t.id \in J
      /\ \A j \in J : \E t \in dca'.tasks : t.op = "del" /\ t.id = j
  BY <1>2, <1>4, TasksOf
<1>7. Held' = Held /\ Coming \subseteq Coming'
  BY <1>6 DEF Held, Coming
<1>8. Types' /\ PassHolds'
  BY <1>4, <1>7 DEF DcaInv, Types, PassHolds
<1>9. LimitsHold'
  <2>1. \A x : Sound(x) => Sound(x)'
    BY <1>4 DEF Sound
  <2>2. \A k \in DOMAIN dca'.mem : Sound(dca'.mem[k])
    BY <1>5 DEF DcaInv, LimitsHold
  <2>3. \A t \in dca'.tasks : t.id \in dcaTold.added /\ (t.op = "put" => Sound(t.row))
    <3>1. \A j \in J : j \in dcaTold.added
      BY <1>2 DEF Sound
    <3> QED
      BY <1>6, <3>1 DEF DcaInv, LimitsHold
  <2>4. /\ \A k \in DOMAIN dcaTable : Sound(dcaTable[k])
        /\ \A k \in DOMAIN pass.rows : Sound(pass.rows[k])
        /\ \A x \in Held : Sound(x)
    BY DEF DcaInv, LimitsHold
  <2>5. \A k \in Ids \ dcaTold.added : dcaTold.placed[k] = 0 /\ k \notin dcaTold'.stopped
    BY <1>2, <1>4 DEF DcaInv, LimitsHold, Sound
  <2> QED
    BY <1>4, <1>5, <1>7, <2>1, <2>2, <2>3, <2>4, <2>5 DEF LimitsHold
<1>10. Counts'
  <2> SUFFICES ASSUME NEW k \in Ids \ dcaTold'.exempt PROVE CountHolds(k)'
    BY DEF Counts
  <2>1. CountHolds(k)
    BY <1>4 DEF DcaInv, Counts
  <2>2. \A t \in dca'.tasks : t.op = "put" => t \in dca.tasks
    BY <1>6
  <2> QED
    BY <1>4, <1>5, <1>7, <2>1, <2>2 DEF CountHolds
<1>11. ASSUME NEW k, Gone(k) PROVE Gone(k)'
  BY <1>5, <1>6, <1>11 DEF Gone
<1>12. ASSUME NEW j \in J, j \notin dcaTold'.exempt PROVE Gone(j)'
  <2>1. PICK u \in dca'.tasks : u.op = "del" /\ u.id = j
    BY <1>6
  <2>2. ASSUME NEW t \in dca'.tasks, t.id = j PROVE t.op = "del"
    <3>1. dca'.tasks \in SUBSET Tasks /\ j \notin Raced(dca'.tasks)
      BY <1>4, <1>12, ManagerOf
    <3> QED
      BY <2>1, <2>2, <3>1, RacedOf
  <2> QED
    BY <1>5, <2>1, <2>2 DEF Gone
<1>13. StopsHold'
  <2>1. \A k \in dcaTold'.stopped \ (dcaTold'.exempt \cup dcaTold'.revived) : Gone(k)'
    BY <1>4, <1>11, <1>12 DEF DcaInv, StopsHold
  <2>2. \A x \in Held : x.id \notin DOMAIN dca'.mem /\ x.id \notin dcaTold'.exempt => Gone(x.id)'
    BY <1>4, <1>5, <1>11, <1>12 DEF DcaInv, StopsHold
  <2> QED
    BY <1>7, <2>1, <2>2 DEF StopsHold
<1>14. DueHolds'
  BY <1>5, <1>7 DEF DcaInv, DueHolds
<1> QED
  BY <1>8, <1>9, <1>10, <1>13, <1>14 DEF DcaInv

LEMMA StopKeeps ==
    ASSUME DcaInv, NEW i \in Ids, StopSchedule(i)
    PROVE  DcaInv'
<1>1. dca \in Manager /\ i \in DOMAIN dca.mem
  BY DEF DcaInv, Types, StopSchedule, Listed
<1>2. PICK b : b = RemoveSchedule(dca, i)
  OBVIOUS
<1>3. /\ b \in Manager /\ Drops(dca.mem, b.mem, {i}) /\ b.file = b.mem
      /\ b.tasks = dca.tasks \cup {DeleteTask(dca.mem[i])}
  BY ZenonT(30), <1>1, <1>2, RemoveOf
<1>4. PICK J : J = {i}
  OBVIOUS
<1>5. J \in SUBSET DOMAIN dca.mem /\ {DeleteTask(dca.mem[j]) : j \in J} = {DeleteTask(dca.mem[i])}
  BY <1>1, <1>4
<1>6. Becomes(b, [dcaTold EXCEPT !.stopped = @ \cup J]) /\ UNCHANGED <<dcaTable, pass, dcaClock>>
  BY <1>2, <1>4 DEF StopSchedule
<1> QED
  BY <1>3, <1>4, <1>5, <1>6, StopsKeep

LEMMA ClearKeeps == DcaInv /\ ClearSchedules => DcaInv'
<1> SUFFICES ASSUME DcaInv, ClearSchedules PROVE DcaInv'
  OBVIOUS
<1>1. dca \in Manager
  BY DEF DcaInv, Types
<1>2. PICK J : J = DOMAIN dca.mem
  OBVIOUS
<1>3. \A j \in J : dca.mem[j] \in Schedule
  BY <1>1, <1>2, ManagerOf, ListsHold
<1>4. PICK T : T = dca.tasks \cup {DeleteTask(dca.mem[j]) : j \in J}
  OBVIOUS
<1>5. PICK f : f = [i \in Ids |-> IF Listed(dca, i) THEN 0 ELSE dca.fails[i]]
  OBVIOUS
<1>6. PICK b : b = [mem |-> NothingStored, file |-> NothingStored, tasks |-> T, fails |-> f]
  OBVIOUS
<1>7. T \in SUBSET Tasks
  BY <1>1, <1>3, <1>4, ManagerOf, TasksOf
<1>8. f \in [Ids -> 0..(FailLimit - 1)]
  <2>1. 0 \in 0..(FailLimit - 1)
    BY DelaysOf
  <2> QED
    BY <1>1, <1>5, <2>1, ManagerOf
<1>9. b \in Manager /\ Drops(dca.mem, b.mem, J) /\ b.file = b.mem /\ b.tasks = T
  BY <1>2, <1>6, <1>7, <1>8, ListsHold DEF Manager, Drops
<1>10. Becomes(b, [dcaTold EXCEPT !.stopped = @ \cup J]) /\ UNCHANGED <<dcaTable, pass, dcaClock>>
  BY <1>2, <1>4, <1>5, <1>6 DEF ClearSchedules
<1> QED
  BY <1>2, <1>4, <1>9, <1>10, StopsKeep

(***************************************************************************)
(* The writes, the reload and a restart.                                   *)
(***************************************************************************)
LEMMA ApplyOf ==
    ASSUME NEW f \in Lists, NEW t \in Tasks, NEW g, g = Apply(f, t)
    PROVE  /\ g \in Lists
           /\ \A k \in DOMAIN g : k # t.id => k \in DOMAIN f /\ g[k] = f[k]
           /\ t.id \in DOMAIN g => t.op = "put" /\ g[t.id] = t.row
<1>1. t.id \in Ids /\ t.row \in Schedule /\ t.row.id = t.id
  BY DEF Tasks
<1>2. CASE t.op = "put"
  <2>1. g = [k \in DOMAIN f \cup {t.id} |-> IF k = t.id THEN t.row ELSE f[k]]
    BY <1>2 DEF Apply
  <2>2. g \in Lists /\ Puts(f, g, t.id, t.row)
    BY <1>1, <2>1, PutIn
  <2> QED
    BY <1>2, <2>2 DEF Puts
<1>3. CASE t.op # "put"
  <2>1. g = Restrict(f, DOMAIN f \ {t.id})
    BY <1>3 DEF Apply
  <2>2. g \in Lists /\ Drops(f, g, {t.id})
    BY <2>1, TakeOut
  <2> QED
    BY <1>3, <2>2 DEF Drops
<1> QED
  BY <1>2, <1>3

\* The task t is over: through, or failed, which excuses its schedule.
LEMMA TaskOver ==
    ASSUME DcaInv, NEW t \in dca.tasks, dca' = [dca EXCEPT !.tasks = @ \ {t}], UNCHANGED <<pass, dcaClock>>,
           \/ dcaTable' = Apply(dcaTable, t) /\ UNCHANGED dcaTold
           \/ /\ UNCHANGED dcaTable
              /\ dcaTold' = [dcaTold EXCEPT !.exempt = @ \cup {t.id}, !.faults = @ + 1]
    PROVE  DcaInv'
<1>1. dca \in Manager /\ dcaTold \in Histories /\ dcaTable \in Lists
  BY DEF DcaInv, Types
<1>2. t \in Tasks /\ t.id \in Ids
  BY <1>1, ManagerOf DEF Tasks
<1>3. /\ dca' \in Manager /\ dca'.mem = dca.mem /\ dca'.file = dca.file
      /\ dca'.tasks = dca.tasks \ {t}
  BY <1>1 DEF Manager
<1>4. /\ dcaTold' \in Histories /\ dcaTold'.added = dcaTold.added /\ dcaTold'.limit = dcaTold.limit
      /\ dcaTold'.placed = dcaTold.placed /\ dcaTold'.stopped = dcaTold.stopped
      /\ dcaTold'.revived = dcaTold.revived /\ dcaTold.exempt \subseteq dcaTold'.exempt
  <2>1. CASE UNCHANGED dcaTold
    BY <1>1, <2>1
  <2>2. CASE dcaTold' = [dcaTold EXCEPT !.exempt = @ \cup {t.id}, !.faults = @ + 1]
    <3>1. PICK a : a = [dcaTold EXCEPT !.exempt = @ \cup {t.id}]
      OBVIOUS
    <3>2. /\ a \in Histories /\ a.added = dcaTold.added /\ a.limit = dcaTold.limit
          /\ a.placed = dcaTold.placed /\ a.stopped = dcaTold.stopped
          /\ a.revived = dcaTold.revived /\ dcaTold.exempt \subseteq a.exempt
      BY <1>1, <1>2, <3>1 DEF Histories
    <3>3. dcaTold' = [a EXCEPT !.faults = @ + 1]
      BY <2>2, <3>1
    <3> QED
      BY <3>2, <3>3 DEF Histories
  <2> QED
    BY <2>1, <2>2
<1>5. /\ dcaTable' \in Lists
      /\ \A k \in DOMAIN dcaTable' : k # t.id => k \in DOMAIN dcaTable /\ dcaTable'[k] = dcaTable[k]
      /\ \/ t.id \in DOMAIN dcaTable' => t.op = "put" /\ dcaTable'[t.id] = t.row
         \/ UNCHANGED dcaTable /\ t.id \in dcaTold'.exempt
  <2>1. CASE dcaTable' = Apply(dcaTable, t) /\ UNCHANGED dcaTold
    BY <1>1, <1>2, <2>1, ApplyOf
  <2>2. CASE /\ UNCHANGED dcaTable
             /\ dcaTold' = [dcaTold EXCEPT !.exempt = @ \cup {t.id}, !.faults = @ + 1]
    <3>1. t.id \in dcaTold'.exempt
      BY <1>1, <2>2 DEF Histories
    <3> QED
      BY <1>1, <2>2, <3>1
  <2> QED
    BY <2>1, <2>2
<1>6. Held' = Held /\ Coming' = Coming \ {t}
  BY <1>3 DEF Held, Coming
<1>7. Types' /\ PassHolds'
  BY <1>3, <1>4, <1>5, <1>6 DEF DcaInv, Types, PassHolds
<1>8. LimitsHold'
  <2>1. \A x : Sound(x) => Sound(x)'
    BY <1>4 DEF Sound
  <2>2. /\ \A k \in DOMAIN dca.mem : Sound(dca.mem[k])
        /\ \A k \in DOMAIN dca.file : Sound(dca.file[k])
        /\ \A k \in DOMAIN dcaTable : Sound(dcaTable[k])
        /\ \A k \in DOMAIN pass.rows : Sound(pass.rows[k])
        /\ \A x \in Held : Sound(x)
        /\ \A u \in dca.tasks : u.id \in dcaTold.added /\ (u.op = "put" => Sound(u.row))
        /\ \A k \in Ids \ dcaTold.added : dcaTold.placed[k] = 0 /\ k \notin dcaTold.stopped
    BY DEF DcaInv, LimitsHold
  <2>3. \A k \in DOMAIN dcaTable' : Sound(dcaTable'[k])
    BY <1>5, <2>2
  <2> QED
    BY <1>3, <1>4, <1>6, <2>1, <2>2, <2>3 DEF LimitsHold
<1>9. Counts'
  <2> SUFFICES ASSUME NEW k \in Ids \ dcaTold'.exempt PROVE CountHolds(k)'
    BY DEF Counts
  <2>1. CountHolds(k)
    BY <1>4 DEF DcaInv, Counts
  <2>2. k \in DOMAIN dcaTable' => dcaTable'[k].runs = dcaTold.placed[k] \/ \E u \in Coming' : u.id = k
    <3>1. CASE k = t.id
      BY <1>5, <2>1, <3>1 DEF CountHolds
    <3>2. CASE k # t.id
      BY <1>5, <1>6, <2>1, <3>2 DEF CountHolds
    <3> QED
      BY <3>1, <3>2
  <2> QED
    BY <1>3, <1>4, <1>6, <2>1, <2>2 DEF CountHolds
<1>10. ASSUME NEW k, k \notin dcaTold'.exempt, Gone(k) PROVE Gone(k)'
  <2>1. k \in DOMAIN dcaTable' => k \in DOMAIN dcaTable /\ k # t.id
    BY <1>5, <1>10 DEF Gone
  <2> QED
    BY <1>3, <1>10, <2>1 DEF Gone
<1>11. StopsHold'
  <2>1. \A k \in dcaTold'.stopped \ (dcaTold'.exempt \cup dcaTold'.revived) : Gone(k)'
    BY <1>4, <1>10 DEF DcaInv, StopsHold
  <2>2. \A x \in Held : x.id \notin DOMAIN dca.mem /\ x.id \notin dcaTold'.exempt => Gone(x.id)'
    BY <1>4, <1>10 DEF DcaInv, StopsHold
  <2> QED
    BY <1>3, <1>6, <2>1, <2>2 DEF StopsHold
<1>12. DueHolds'
  BY <1>3, <1>6 DEF DcaInv, DueHolds
<1> QED
  BY <1>7, <1>8, <1>9, <1>11, <1>12 DEF DcaInv

LEMMA ReloadKeeps == DcaInv /\ Reload => DcaInv'
<1> SUFFICES ASSUME DcaInv, Reload PROVE DcaInv'
  OBVIOUS
<1>1. pass.pc = "fetch" /\ UNCHANGED <<dcaTable, dcaClock>>
  BY DEF Reload
<1>2. /\ dca \in Manager /\ dcaTold \in Histories /\ pass \in Passes /\ pass.rows \in Lists
      /\ pass.due = {} /\ pass.cur = {}
  BY <1>1 DEF DcaInv, Types, PassHolds, Passes
<1>3. /\ pass' \in Passes /\ pass'.pc = "due" /\ DOMAIN pass'.rows = {}
      /\ pass'.due = {} /\ pass'.cur = {} /\ pass'.at = pass.at
  <2>1. PICK y : y = [pass EXCEPT !.pc = "due"]
    OBVIOUS
  <2>2. y \in Passes /\ y.pc = "due" /\ y.due = {} /\ y.cur = {} /\ y.at = pass.at
    BY <1>2, <2>1 DEF Passes, Phases
  <2>3. pass' = [y EXCEPT !.rows = NothingStored]
    BY <2>1 DEF Reload
  <2>4. NothingStored \in Lists /\ DOMAIN NothingStored = {}
    BY ListsHold
  <2> QED
    BY <2>2, <2>3, <2>4 DEF Passes
<1>4. Held' = {}
  BY <1>3 DEF Held
<1>5. PassHolds' /\ DueHolds'
  BY <1>3, <1>4 DEF PassHolds, DueHolds
<1>6. CASE UNCHANGED <<dca, dcaTold>>
  <2>1. Coming \subseteq Coming'
    BY <1>1, <1>3, <1>6 DEF Coming
  <2> QED
    BY <1>1, <1>3, <1>4, <1>5, <1>6, <2>1, ClockOf, QuietKeeps
<1>7. CASE /\ dca' = [dca EXCEPT !.mem = pass.rows]
           /\ dcaTold' = [dcaTold EXCEPT !.revived = @ \cup (dcaTold.stopped \cap DOMAIN pass.rows)]
  <2>1. dca' \in Manager /\ dca'.mem = pass.rows /\ dca'.file = dca.file /\ dca'.tasks = dca.tasks
    BY <1>2, <1>7 DEF Manager
  <2>2. /\ dcaTold' \in Histories /\ dcaTold'.added = dcaTold.added /\ dcaTold'.limit = dcaTold.limit
        /\ dcaTold'.placed = dcaTold.placed /\ dcaTold'.stopped = dcaTold.stopped
        /\ dcaTold'.revived = dcaTold.revived \cup (dcaTold.stopped \cap DOMAIN pass.rows)
        /\ dcaTold'.exempt = dcaTold.exempt
    BY <1>2, <1>7 DEF Histories
  <2>3. Coming = dca.tasks /\ Coming' = dca.tasks
    BY <1>1, <1>3, <2>1 DEF Coming
  <2>4. Types'
    BY <1>1, <1>3, <2>1, <2>2 DEF DcaInv, Types
  <2>5. LimitsHold'
    <3>1. \A x : Sound(x) => Sound(x)'
      BY <2>2 DEF Sound
    <3>2. /\ \A k \in DOMAIN dca.file : Sound(dca.file[k])
          /\ \A k \in DOMAIN dcaTable : Sound(dcaTable[k])
          /\ \A k \in DOMAIN pass.rows : Sound(pass.rows[k])
          /\ \A u \in dca.tasks : u.id \in dcaTold.added /\ (u.op = "put" => Sound(u.row))
          /\ \A k \in Ids \ dcaTold.added : dcaTold.placed[k] = 0 /\ k \notin dcaTold.stopped
      BY DEF DcaInv, LimitsHold
    <3> QED
      BY <1>1, <1>3, <1>4, <2>1, <2>2, <3>1, <3>2 DEF LimitsHold
  <2>6. Counts'
    <3> SUFFICES ASSUME NEW k \in Ids \ dcaTold.exempt PROVE CountHolds(k)'
      BY <2>2 DEF Counts
    <3>1. CountHolds(k)
      BY DEF DcaInv, Counts
    <3> QED
      BY <1>1, <1>3, <1>4, <2>1, <2>2, <2>3, <3>1 DEF CountHolds
  <2>7. StopsHold'
    <3>1. ASSUME NEW k \in dcaTold'.stopped \ (dcaTold'.exempt \cup dcaTold'.revived) PROVE Gone(k)'
      <4>1. Gone(k) /\ k \notin DOMAIN pass.rows
        BY <2>2 DEF DcaInv, StopsHold
      <4> QED
        BY <1>1, <2>1, <4>1 DEF Gone
    <3> QED
      BY <1>4, <3>1 DEF StopsHold
  <2> QED
    BY <1>5, <2>4, <2>5, <2>6, <2>7 DEF DcaInv
<1> QED
  BY <1>6, <1>7 DEF Reload

LEMMA RestartKeeps == DcaInv /\ DcaRestart => DcaInv'
<1> SUFFICES ASSUME DcaInv, DcaRestart PROVE DcaInv'
  OBVIOUS
<1>1. PICK mem \in {dcaTable, dca.file}, sent \in SUBSET {s.id : s \in {c \in pass.cur : pass.pc = "order"}} :
        /\ dca' = [dca EXCEPT !.mem = mem, !.tasks = {}, !.fails = [i \in Ids |-> 0]]
        /\ dcaTold' = [dcaTold EXCEPT !.faults = @ + 1,
                      !.placed = [i \in Ids |-> IF i \in sent THEN @[i] + 1 ELSE @[i]],
                      !.exempt = @ \cup sent \cup {t.id : t \in dca.tasks}]
  BY DEF DcaRestart
<1>2. pass' = Asleep /\ UNCHANGED <<dcaTable, dcaClock>>
  BY DEF DcaRestart
<1>3. dca \in Manager /\ dcaTold \in Histories /\ dcaTable \in Lists /\ mem \in Lists
  BY ManagerOf DEF DcaInv, Types
<1>4. \A k \in sent : k \in Ids /\ k \in dcaTold.added
  <2>1. \A k \in sent : \E s \in Held : s.id = k
    BY DEF Held
  <2> QED
    BY <2>1, HeldOf DEF Sound
<1>5. PICK lost \in SUBSET Ids : lost = sent \cup {t.id : t \in dca.tasks}
  <2>1. \A t \in dca.tasks : t.id \in Ids
    BY <1>3, ManagerOf DEF Tasks
  <2>2. sent \cup {t.id : t \in dca.tasks} \in SUBSET Ids
    BY <1>4, <2>1
  <2> QED
    BY <2>2
<1>6. dca' \in Manager /\ dca'.mem = mem /\ dca'.file = dca.file /\ dca'.tasks = {}
  <2>1. dca' = [mem |-> mem, file |-> dca.file, tasks |-> {}, fails |-> [i \in Ids |-> 0]]
    BY <1>1, <1>3 DEF Manager
  <2>2. [i \in Ids |-> 0] \in [Ids -> 0..(FailLimit - 1)]
    BY DelaysOf
  <2> QED
    BY <1>3, <2>1, <2>2 DEF Manager
<1>7. /\ dcaTold' \in Histories /\ dcaTold'.added = dcaTold.added /\ dcaTold'.limit = dcaTold.limit
      /\ dcaTold'.placed = [i \in Ids |-> IF i \in sent THEN dcaTold.placed[i] + 1 ELSE dcaTold.placed[i]]
      /\ dcaTold'.stopped = dcaTold.stopped /\ dcaTold'.revived = dcaTold.revived
      /\ dcaTold'.exempt = dcaTold.exempt \cup lost
  <2>1. PICK q \in [Ids -> Nat] :
          q = [i \in Ids |-> IF i \in sent THEN dcaTold.placed[i] + 1 ELSE dcaTold.placed[i]]
    <3>1. \A i \in Ids : (IF i \in sent THEN dcaTold.placed[i] + 1 ELSE dcaTold.placed[i]) \in Nat
      BY <1>3 DEF Histories
    <3>2. [i \in Ids |-> IF i \in sent THEN dcaTold.placed[i] + 1 ELSE dcaTold.placed[i]] \in [Ids -> Nat]
      BY <3>1
    <3> QED
      BY <3>2
  <2>2. PICK a : a = [dcaTold EXCEPT !.faults = @ + 1]
    OBVIOUS
  <2>3. /\ a \in Histories /\ a.added = dcaTold.added /\ a.limit = dcaTold.limit
        /\ a.stopped = dcaTold.stopped /\ a.revived = dcaTold.revived /\ a.exempt = dcaTold.exempt
    BY <1>3, <2>2 DEF Histories
  <2>4. PICK c : c = [a EXCEPT !.placed = q]
    OBVIOUS
  <2>5. /\ c \in Histories /\ c.added = a.added /\ c.limit = a.limit /\ c.placed = q
        /\ c.stopped = a.stopped /\ c.revived = a.revived /\ c.exempt = a.exempt
    BY <2>1, <2>3, <2>4 DEF Histories
  <2>6. dcaTold.exempt \cup sent \cup {t.id : t \in dca.tasks} = dcaTold.exempt \cup lost
    BY <1>5
  <2>7. dcaTold' = [c EXCEPT !.exempt = dcaTold.exempt \cup lost]
    BY <1>1, <2>1, <2>2, <2>4, <2>6
  <2> QED
    BY <1>3, <2>1, <2>3, <2>5, <2>7 DEF Histories
<1>8. /\ pass' \in Passes /\ pass'.pc = "sleep" /\ DOMAIN pass'.rows = {}
      /\ pass'.due = {} /\ pass'.cur = {} /\ pass'.at = 0
  BY <1>2, AsleepOf
<1>9. Held' = {}
  BY <1>8 DEF Held
<1>10. PassHolds' /\ DueHolds'
  BY <1>8, <1>9 DEF PassHolds, DueHolds
<1>11. Types'
  BY <1>2, <1>3, <1>6, <1>7, <1>8, ClockOf DEF Types
<1>12. LimitsHold'
  <2>1. \A x : Sound(x) => Sound(x)'
    BY <1>7 DEF Sound
  <2>2. /\ \A k \in DOMAIN mem : Sound(mem[k])
        /\ \A k \in DOMAIN dca.file : Sound(dca.file[k])
        /\ \A k \in DOMAIN dcaTable : Sound(dcaTable[k])
        /\ \A k \in Ids \ dcaTold.added : dcaTold.placed[k] = 0 /\ k \notin dcaTold.stopped
    BY DEF DcaInv, LimitsHold
  <2>3. \A k \in Ids \ dcaTold.added : dcaTold'.placed[k] = 0
    BY <1>4, <1>7, <2>2
  <2> QED
    BY <1>2, <1>6, <1>7, <1>8, <1>9, <2>1, <2>2, <2>3 DEF LimitsHold
<1>13. ASSUME NEW k \in Ids \ dcaTold'.exempt
       PROVE  dcaTold'.placed[k] = dcaTold.placed[k] /\ k \notin dcaTold.exempt /\ \A t \in dca.tasks : t.id # k
  BY <1>5, <1>7
<1>14. Counts'
  <2> SUFFICES ASSUME NEW k \in Ids \ dcaTold'.exempt PROVE CountHolds(k)'
    BY DEF Counts
  <2>1. dcaTold'.placed[k] = dcaTold.placed[k] /\ CountHolds(k) /\ \A t \in dca.tasks : t.id # k
    BY <1>13 DEF DcaInv, Counts
  <2>2. \A t \in Coming : t.id # k
    BY <2>1 DEF Coming
  <2>3. /\ k \in DOMAIN dcaTable => dcaTable[k].runs = dcaTold.placed[k]
        /\ k \in DOMAIN dca.file => dca.file[k].runs = dcaTold.placed[k]
        /\ dcaTold.limit[k] > 0 => dcaTold.placed[k] <= dcaTold.limit[k]
    BY <2>1, <2>2 DEF CountHolds
  <2>4. k \in DOMAIN mem => mem[k].runs = dcaTold.placed[k]
    BY <2>3
  <2> QED
    BY <1>2, <1>6, <1>7, <1>8, <1>9, <2>1, <2>3, <2>4 DEF CountHolds
<1>15. StopsHold'
  <2>1. ASSUME NEW k \in dcaTold'.stopped \ (dcaTold'.exempt \cup dcaTold'.revived) PROVE Gone(k)'
    <3>1. k \in Ids /\ Gone(k)
      BY <1>3, <1>7 DEF DcaInv, StopsHold, Histories
    <3>2. k \notin DOMAIN dcaTable /\ k \notin DOMAIN dca.file
      BY <1>13, <3>1 DEF Gone
    <3> QED
      BY <1>2, <1>6, <3>2 DEF Gone
  <2> QED
    BY <1>9, <2>1 DEF StopsHold
<1> QED
  BY <1>10, <1>11, <1>12, <1>14, <1>15 DEF DcaInv

(***************************************************************************)
(* The theorems.                                                           *)
(***************************************************************************)
LEMMA InitHolds == DcaInit => DcaInv
<1> SUFFICES ASSUME DcaInit PROVE DcaInv
  OBVIOUS
<1>1. NothingStored \in Lists /\ DOMAIN NothingStored = {}
  BY ListsHold
<1>2. /\ dca = [mem |-> NothingStored, file |-> NothingStored, tasks |-> {}, fails |-> [i \in Ids |-> 0]]
      /\ dcaTable = NothingStored /\ pass = Asleep /\ dcaClock = 0
      /\ dcaTold = [added |-> {}, placed |-> [i \in Ids |-> 0], limit |-> [i \in Ids |-> 0],
                    stopped |-> {}, revived |-> {}, exempt |-> {}, until |-> [i \in Ids |-> 0], faults |-> 0]
  BY DEF DcaInit
<1>3. dca \in Manager /\ dca.mem = NothingStored /\ dca.file = NothingStored /\ dca.tasks = {}
  <2>1. [i \in Ids |-> 0] \in [Ids -> 0..(FailLimit - 1)]
    BY DelaysOf
  <2> QED
    BY <1>1, <1>2, <2>1 DEF Manager
<1>4. /\ dcaTold \in Histories /\ dcaTold.placed = [i \in Ids |-> 0] /\ dcaTold.stopped = {}
      /\ dcaTold.limit = [i \in Ids |-> 0]
  BY <1>2 DEF Histories
<1>5. /\ pass \in Passes /\ pass.pc = "sleep" /\ DOMAIN pass.rows = {} /\ pass.due = {} /\ pass.cur = {}
      /\ pass.at = 0
  BY <1>2, AsleepOf
<1>6. Held = {}
  BY <1>5 DEF Held
<1>7. MaxDcaTime \in Nat
  BY DcaAssumption
<1>8. Types /\ PassHolds /\ DueHolds
  BY <1>1, <1>2, <1>3, <1>4, <1>5, <1>6, <1>7 DEF Types, PassHolds, DueHolds
<1>9. LimitsHold /\ StopsHold
  BY <1>1, <1>2, <1>3, <1>4, <1>5, <1>6 DEF LimitsHold, StopsHold
<1>10. Counts
  BY <1>1, <1>2, <1>3, <1>4, <1>5, <1>6 DEF Counts, CountHolds
<1> QED
  BY <1>8, <1>9, <1>10 DEF DcaInv

LEMMA NextKeeps == DcaInv /\ [DcaNext]_dcaVars => DcaInv'
<1> SUFFICES ASSUME DcaInv, [DcaNext]_dcaVars PROVE DcaInv'
  OBVIOUS
<1>1. CASE \E i \in Ids : AddSchedule(i) \/ StopSchedule(i)
  BY <1>1, AddKeeps, StopKeeps
<1>2. CASE ClearSchedules
  BY <1>2, ClearKeeps
<1>3. CASE LoopStep
  BY <1>3, LoopKeeps, ReloadKeeps
<1>4. CASE WriteStep
  <2>1. PICK t \in dca.tasks : WriteDone(t) \/ WriteFails(t)
    BY <1>4 DEF WriteStep
  <2> QED
    BY <2>1, TaskOver DEF WriteDone, WriteFails
<1>5. CASE DcaTick
  BY <1>5, TickKeeps
<1>6. CASE DcaRestart
  BY <1>6, RestartKeeps
<1>7. CASE UNCHANGED dcaVars
  BY <1>7 DEF dcaVars, DcaInv, Types, PassHolds, LimitsHold, Sound, Counts, CountHolds, StopsHold, Gone,
              DueHolds, Held, Coming
<1> QED
  BY <1>1, <1>2, <1>3, <1>4, <1>5, <1>6, <1>7 DEF DcaNext

LEMMA InvariantHolds == DcaSpec => []DcaInv
  BY InitHolds, NextKeeps, PTL DEF DcaSpec

\* Whatever the commands, the loop, the writes and the restarts do, the list, the file, the
\* table and the rows fetched hold schedules under their own ids, the count of failures
\* stays below its limit, and the pass works on one schedule at a time.
THEOREM DcaTypes == DcaSpec => []DcaTypeOK
<1>1. ASSUME DcaInv PROVE DcaTypeOK
  <2>1. /\ dca.mem \in Lists /\ dca.file \in Lists /\ dcaTable \in Lists /\ pass.rows \in Lists
        /\ dca.tasks \subseteq Tasks /\ dca.fails \in [Ids -> 0..(FailLimit - 1)]
        /\ pass \in Passes /\ pass.at <= dcaClock
    BY <1>1, ManagerOf DEF DcaInv, Types, Passes
  <2>2. \A stored \in {dca.mem, dca.file, dcaTable, pass.rows} :
          DOMAIN stored \subseteq Ids /\ \A i \in DOMAIN stored : stored[i] \in Schedule /\ stored[i].id = i
    BY <2>1, ListsHold
  <2>3. dca.tasks \subseteq [op : {"put", "del"}, id : Ids, row : Schedule]
    BY <2>1 DEF Tasks
  <2>4. /\ pass.pc \in {"sleep", "flush", "fetch", "due", "next", "calendar", "price", "budget", "order"}
        /\ pass.due \cup pass.cur \subseteq Schedule
    BY <2>1 DEF Passes, Phases
  <2>5. Cardinality(pass.cur) <= 1
    <3>1. pass.cur = {} \/ \E s \in pass.cur : pass.cur = {s}
      BY <1>1 DEF DcaInv, PassHolds
    <3>2. CASE pass.cur = {}
      BY <3>2, FS_EmptySet
    <3>3. CASE \E s \in pass.cur : pass.cur = {s}
      <4>1. PICK s : pass.cur = {s}
        BY <3>3
      <4>2. Cardinality({s}) = 1
        BY FS_Singleton
      <4>3. Cardinality(pass.cur) = 1
        BY <4>1, <4>2
      <4> QED
        BY <4>3
    <3> QED
      BY <3>1, <3>2, <3>3
  <2> QED
    BY <2>1, <2>2, <2>3, <2>4, <2>5 DEF DcaTypeOK
<1> QED
  BY <1>1, InvariantHolds, PTL

\* execute_due_dca_schedules, advance_schedule, defer_schedule and reload_from_db_async: a
\* schedule has as many orders as runs counted and never more than its max_runs, through
\* every reload, deferral, skip and restart, unless the code gave its count up.
THEOREM OrdersCounted == DcaSpec => []OneOrderPerRun
<1>1. DcaInv => OneOrderPerRun
  BY DEF DcaInv, Counts, CountHolds, OneOrderPerRun, Listed
<1> QED
  BY <1>1, InvariantHolds, PTL

\* The branches of execute_due_dca_schedules: whatever the calendar, the price, the budget
\* and the exchange answer, the schedule handled is not due again at the pass' instant.
THEOREM RunsOver == DcaSpec => []HandledRunsAreOver
<1>1. ASSUME DcaInv, pass.pc = "next", NEW i \in DOMAIN dca.mem, dca.mem[i].next <= pass.at
      PROVE  \E s \in pass.due : s.id = i
  <2>1. pass.cur = {}
    BY <1>1 DEF DcaInv, PassHolds
  <2> QED
    BY <1>1, <2>1 DEF DcaInv, DueHolds, Held
<1>2. DcaInv => HandledRunsAreOver
  BY <1>1 DEF HandledRunsAreOver
<1> QED
  BY <1>2, InvariantHolds, PTL

\* remove_schedule and clear_user_schedules: a schedule the user stopped is deleted or about
\* to be, unless one of its writes raced with the delete, a reload had already read its row,
\* or the pass wrote its copy although it was stopped meanwhile.
THEOREM StopsFinal == DcaSpec => []StoppedIsDeleted
<1>1. DcaInv => StoppedIsDeleted
  BY DEF DcaInv, StopsHold, Gone, StoppedIsDeleted
<1> QED
  BY <1>1, InvariantHolds, PTL
=============================================================================
