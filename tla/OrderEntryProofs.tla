-------------------------- MODULE OrderEntryProofs --------------------------
(***************************************************************************)
(* Proofs about OrderEntry: for any requests, users, shapes of requests,   *)
(* cap, lifetimes and number of failures.                                  *)
(***************************************************************************)
EXTENDS OrderEntry, FiniteSetTheorems, TLAPS

Pcs == {"idle", "number", "leg", "create", "rollback", "over"}
Callers == {"none", "gate", "intent", "manager"}
Run == [pc : Pcs, leg : Nat, group : Nat, by : Callers]
Listed == [req : Requests, leg : Nat, group : Nat, live : BOOLEAN, tracked : BOOLEAN]
Logged == [req : Requests, group : Nat]
Gate == [cache : SUBSET BOOLEAN, at : Nat, db : BOOLEAN, flag : BOOLEAN]
Legs == Requests \X Nat
Histories ==
    [halted : BOOLEAN, dbMissed : BOOLEAN, starts : [Requests -> Nat], late : SUBSET Requests,
     foreign : SUBSET Requests, alarmed : SUBSET Legs, lost : SUBSET Legs,
     twins : SUBSET Requests, faults : Nat]

AskedTypes ==
    /\ DOMAIN asked \subseteq Requests
    /\ \A r \in DOMAIN asked : asked[r] \in [user : Users, shape : Shapes]

Tracked == {o \in book : o.tracked}

Types ==
    /\ AskedTypes
    /\ chat \in [pc : {"free", "price", "run"}, req : SUBSET Requests]
    /\ runs \in [Requests -> Run]
    /\ book \subseteq Listed /\ IsFiniteSet(Tracked)
    /\ trades \subseteq Logged /\ IsFiniteSet(trades)
    /\ gate \in Gate
    /\ clock \in Nat
    /\ told \in Histories

(***************************************************************************)
(* What the steps do to the runs.                                          *)
(***************************************************************************)
\* The run of r, and no other, becomes what is said.
RunBecomes(r, pc, leg, group, by) ==
    /\ runs' \in [Requests -> Run]
    /\ runs'[r].pc = pc /\ runs'[r].leg = leg /\ runs'[r].group = group /\ runs'[r].by = by
    /\ \A q \in Requests : q # r => runs'[q] = runs[q]

ARun(pc, leg, group, by) == [pc |-> pc, leg |-> leg, group |-> group, by |-> by]

LEMMA Names ==
    /\ "idle" \in Pcs /\ "number" \in Pcs /\ "leg" \in Pcs
    /\ "create" \in Pcs /\ "rollback" \in Pcs /\ "over" \in Pcs
    /\ "none" \in Callers /\ "gate" \in Callers /\ "intent" \in Callers /\ "manager" \in Callers
BY DEF Pcs, Callers

\* Records of a run.
LEMMA ARunType ==
    ASSUME NEW pc \in Pcs, NEW leg \in Nat, NEW group \in Nat, NEW by \in Callers
    PROVE  /\ ARun(pc, leg, group, by) \in Run
           /\ ARun(pc, leg, group, by).pc = pc /\ ARun(pc, leg, group, by).leg = leg
           /\ ARun(pc, leg, group, by).group = group /\ ARun(pc, leg, group, by).by = by
BY DEF Run, ARun

\* The forms in which the actions write a run, one lemma for each.
LEMMA RunChange ==
    ASSUME runs \in [Requests -> Run], NEW r \in Requests,
           NEW pc \in Pcs, NEW leg \in Nat, NEW group \in Nat, NEW by \in Callers,
           runs' = [runs EXCEPT ![r] = ARun(pc, leg, group, by)]
    PROVE  RunBecomes(r, pc, leg, group, by)
<1>1. ARun(pc, leg, group, by) \in Run
  BY ARunType
<1>2. runs' \in [Requests -> Run] /\ runs'[r] = ARun(pc, leg, group, by)
  BY <1>1
<1> QED
  BY <1>2, ARunType DEF RunBecomes

LEMMA RunField ==
    ASSUME NEW run \in Run
    PROVE  /\ run = ARun(run.pc, run.leg, run.group, run.by)
           /\ run.pc \in Pcs /\ run.leg \in Nat /\ run.group \in Nat /\ run.by \in Callers
           /\ \A pc \in Pcs : [run EXCEPT !.pc = pc] = ARun(pc, run.leg, run.group, run.by)
           /\ \A leg \in Nat : [run EXCEPT !.leg = leg] = ARun(run.pc, leg, run.group, run.by)
           /\ \A n \in Nat : [run EXCEPT !.group = n] = ARun(run.pc, run.leg, n, run.by)
<1>1. /\ run = ARun(run.pc, run.leg, run.group, run.by)
      /\ run.pc \in Pcs /\ run.leg \in Nat /\ run.group \in Nat /\ run.by \in Callers
  BY DEF Run, ARun
<1>2. \A pc \in Pcs : [run EXCEPT !.pc = pc] = ARun(pc, run.leg, run.group, run.by)
  BY DEF Run, ARun
<1>3. \A leg \in Nat : [run EXCEPT !.leg = leg] = ARun(run.pc, leg, run.group, run.by)
  BY DEF Run, ARun
<1>4. \A n \in Nat : [run EXCEPT !.group = n] = ARun(run.pc, run.leg, n, run.by)
  BY DEF Run, ARun
<1> QED
  BY <1>1, <1>2, <1>3, <1>4

LEMMA RunFields ==
    ASSUME NEW run \in Run, NEW pc \in Pcs, NEW n \in Nat
    PROVE  /\ [run EXCEPT !.pc = pc] = ARun(pc, run.leg, run.group, run.by)
           /\ [[run EXCEPT !.pc = pc] EXCEPT !.leg = n] = ARun(pc, n, run.group, run.by)
           /\ [[run EXCEPT !.pc = pc] EXCEPT !.group = n] = ARun(pc, run.leg, n, run.by)
<1>1. [run EXCEPT !.pc = pc] = ARun(pc, run.leg, run.group, run.by)
  BY RunField
<1>2. run.leg \in Nat /\ run.group \in Nat /\ run.by \in Callers
  BY RunField
<1>3. ARun(pc, run.leg, run.group, run.by) \in Run
  BY <1>2, ARunType
<1> DEFINE moved == ARun(pc, run.leg, run.group, run.by)
<1>4. [moved EXCEPT !.leg = n] = ARun(moved.pc, n, moved.group, moved.by)
  BY <1>3, RunField
<1>5. [moved EXCEPT !.group = n] = ARun(moved.pc, moved.leg, n, moved.by)
  BY <1>3, RunField
<1>6. moved.pc = pc /\ moved.leg = run.leg /\ moved.group = run.group /\ moved.by = run.by
  BY <1>2, ARunType
<1> QED
  BY <1>1, <1>4, <1>5, <1>6

LEMMA StartRun ==
    ASSUME runs \in [Requests -> Run], NEW r \in Requests, NEW by \in {"gate", "intent"}, Start(r, by)
    PROVE  RunBecomes(r, IF ShapeOf(r).family = "manual" THEN "leg" ELSE "number", 1, 0, by)
<1> DEFINE pc == IF ShapeOf(r).family = "manual" THEN "leg" ELSE "number"
<1>1. pc \in Pcs /\ by \in Callers
  BY Names
<1>2. runs' = [runs EXCEPT ![r] = ARun(pc, 1, 0, by)]
  BY DEF Start, NewRun, ARun
<1> HIDE DEF pc
<1>3. RunBecomes(r, pc, 1, 0, by)
  BY <1>1, <1>2, RunChange
<1> QED
  BY <1>3 DEF pc

LEMMA NextLegRun ==
    ASSUME runs \in [Requests -> Run], NEW r \in Requests, NextLeg(r)
    PROVE  \/ /\ runs[r].leg = ShapeOf(r).legs
              /\ RunBecomes(r, "over", runs[r].leg, runs[r].group, runs[r].by)
              /\ chat' = IF chat.req = {r} THEN Free ELSE chat
           \/ /\ runs[r].leg # ShapeOf(r).legs
              /\ RunBecomes(r, "leg", runs[r].leg + 1, runs[r].group, runs[r].by)
              /\ chat' = chat
<1>0. /\ runs[r] \in Run /\ runs[r].leg \in Nat /\ runs[r].leg + 1 \in Nat
      /\ runs[r].group \in Nat /\ runs[r].by \in Callers
  BY DEF Run
<1>1. CASE runs[r].leg = ShapeOf(r).legs
  <2>1. /\ runs' = [runs EXCEPT ![r] = [[runs[r] EXCEPT !.pc = "over"] EXCEPT !.leg = runs[r].leg]]
        /\ chat' = IF chat.req = {r} THEN Free ELSE chat
    BY <1>1 DEF NextLeg
  <2>2. runs' = [runs EXCEPT ![r] = ARun("over", runs[r].leg, runs[r].group, runs[r].by)]
    BY <1>0, <2>1, RunFields, Names
  <2>3. RunBecomes(r, "over", runs[r].leg, runs[r].group, runs[r].by)
    BY <1>0, <2>2, RunChange, Names
  <2> QED
    BY <1>1, <2>1, <2>3
<1>2. CASE runs[r].leg # ShapeOf(r).legs
  <2>1. /\ runs' = [runs EXCEPT ![r] = [[runs[r] EXCEPT !.pc = "leg"] EXCEPT !.leg = runs[r].leg + 1]]
        /\ chat' = chat
    BY <1>2 DEF NextLeg
  <2>2. runs' = [runs EXCEPT ![r] = ARun("leg", runs[r].leg + 1, runs[r].group, runs[r].by)]
    BY <1>0, <2>1, RunFields, Names
  <2>3. RunBecomes(r, "leg", runs[r].leg + 1, runs[r].group, runs[r].by)
    BY <1>0, <2>2, RunChange, Names
  <2> QED
    BY <1>2, <2>1, <2>3
<1> QED
  BY <1>1, <1>2

LEMMA PcRun ==
    ASSUME runs \in [Requests -> Run], NEW r \in Requests, NEW pc \in Pcs,
           runs' = [runs EXCEPT ![r].pc = pc]
    PROVE  RunBecomes(r, pc, runs[r].leg, runs[r].group, runs[r].by)
<1>0. runs[r] \in Run /\ runs[r].leg \in Nat /\ runs[r].group \in Nat /\ runs[r].by \in Callers
  BY DEF Run
<1>1. runs' = [runs EXCEPT ![r] = [runs[r] EXCEPT !.pc = pc]]
  OBVIOUS
<1>2. runs' = [runs EXCEPT ![r] = ARun(pc, runs[r].leg, runs[r].group, runs[r].by)]
  BY <1>0, <1>1, RunFields
<1> QED
  BY <1>0, <1>2, RunChange

LEMMA NumberRun ==
    ASSUME runs \in [Requests -> Run], NEW r \in Requests, NEW n \in Nat,
           runs' = [runs EXCEPT ![r].pc = "leg", ![r].group = n]
    PROVE  RunBecomes(r, "leg", runs[r].leg, n, runs[r].by)
<1>0. runs[r] \in Run /\ runs[r].leg \in Nat /\ runs[r].group \in Nat /\ runs[r].by \in Callers
  BY DEF Run
<1>1. runs' = [runs EXCEPT ![r] = [[runs[r] EXCEPT !.pc = "leg"] EXCEPT !.group = n]]
  OBVIOUS
<1>2. [[runs[r] EXCEPT !.pc = "leg"] EXCEPT !.group = n] = ARun("leg", runs[r].leg, n, runs[r].by)
  BY <1>0, RunFields, Names
<1>3. runs' = [runs EXCEPT ![r] = ARun("leg", runs[r].leg, n, runs[r].by)]
  BY <1>1, <1>2
<1> QED
  BY <1>0, <1>3, RunChange, Names

LEMMA ManagersRun ==
    ASSUME runs \in [Requests -> Run], NEW r \in Requests, NEW n \in Nat,
           runs' = [runs EXCEPT ![r] = [NewRun(r, "leg", "manager") EXCEPT !.group = n]]
    PROVE  RunBecomes(r, "leg", 1, n, "manager")
<1>1. [NewRun(r, "leg", "manager") EXCEPT !.group = n] = ARun("leg", 1, n, "manager")
  BY DEF NewRun, ARun
<1>2. runs' = [runs EXCEPT ![r] = ARun("leg", 1, n, "manager")]
  BY <1>1
<1> QED
  BY <1>2, RunChange, Names

LEMMA RestartRuns ==
    ASSUME runs \in [Requests -> Run], Restart
    PROVE  /\ runs' \in [Requests -> Run]
           /\ \A r \in Requests :
                /\ runs'[r].pc = (IF Running(r) THEN "over" ELSE runs[r].pc)
                /\ runs'[r].leg = runs[r].leg /\ runs'[r].group = runs[r].group /\ runs'[r].by = runs[r].by
<1>1. runs' = [r \in Requests |-> IF Running(r) THEN [runs[r] EXCEPT !.pc = "over"] ELSE runs[r]]
  BY DEF Restart
<1>2. ASSUME NEW r \in Requests
      PROVE  runs'[r] \in Run /\ runs'[r].pc = (IF Running(r) THEN "over" ELSE runs[r].pc)
             /\ runs'[r].leg = runs[r].leg /\ runs'[r].group = runs[r].group /\ runs'[r].by = runs[r].by
  <2>1. runs[r] \in Run
    OBVIOUS
  <2>2. /\ [runs[r] EXCEPT !.pc = "over"] = ARun("over", runs[r].leg, runs[r].group, runs[r].by)
        /\ runs[r].leg \in Nat /\ runs[r].group \in Nat /\ runs[r].by \in Callers
    BY <2>1, RunField, Names
  <2>3. CASE Running(r)
    <3>1. runs'[r] = ARun("over", runs[r].leg, runs[r].group, runs[r].by)
      BY <1>1, <2>2, <2>3
    <3> QED
      BY <2>2, <2>3, <3>1, ARunType, Names
  <2>4. CASE ~Running(r)
    BY <1>1, <2>1, <2>4
  <2> QED
    BY <2>3, <2>4
<1>3. runs' \in [Requests -> Run]
  BY <1>1, <1>2
<1> QED
  BY <1>2, <1>3

(***************************************************************************)
(* What they do to the rest.                                               *)
(***************************************************************************)
LEMMA MaxIsTheGreatest ==
    ASSUME NEW S \in SUBSET Nat, IsFiniteSet(S), S # {}
    PROVE  Max(S) \in S /\ \A x \in S : x <= Max(S)
<1> DEFINE Above(T) == \A x \in S : \E y \in T : x <= y
           Cofinal == {T \in FiniteSubsetsOf(S) : Above(T)}
<1>1. S \in Cofinal
  BY DEF FiniteSubsetsOf
<1>2. PICK T \in Cofinal : \A U \in Cofinal : ~(<<U, T>> \in StrictSubsetOrdering(S))
  <2> HIDE DEF Cofinal
  <2>1. IsWellFoundedOn(StrictSubsetOrdering(S), FiniteSubsetsOf(S))
    BY FS_StrictSubsetOrderingWellFounded
  <2>2. Cofinal \subseteq FiniteSubsetsOf(S) /\ Cofinal # {}
    BY <1>1 DEF Cofinal
  <2> QED
    BY <2>1, <2>2, WFMin
<1>3. PICK z \in T : TRUE
  BY <1>2
<1>4. T \subseteq S /\ IsFiniteSet(T)
  BY <1>2 DEF FiniteSubsetsOf
<1>5. \A x \in S : x <= z
  <2> SUFFICES ASSUME NEW x \in S, ~(x <= z) PROVE FALSE
    OBVIOUS
  <2>1. PICK y \in T : x <= y
    BY <1>2
  <2>2. y # z /\ z <= y /\ z \in Nat /\ y \in Nat
    BY <1>3, <1>4, <2>1
  <2>3. Above(T \ {z})
    <3> SUFFICES ASSUME NEW w \in S PROVE \E v \in T \ {z} : w <= v
      OBVIOUS
    <3>1. PICK v \in T : w <= v
      BY <1>2
    <3> QED
      BY <1>4, <2>2, <3>1
  <2>4. T \ {z} \in Cofinal
    BY <1>4, <2>3, FS_Subset DEF FiniteSubsetsOf
  <2>5. <<T \ {z}, T>> \in StrictSubsetOrdering(S)
    BY <1>3, <1>4 DEF StrictSubsetOrdering
  <2> QED
    BY <1>2, <2>4, <2>5
<1>6. \E x \in S : \A y \in S : x >= y
  BY <1>3, <1>4, <1>5
<1>7. Max(S) \in S /\ \A y \in S : Max(S) >= y
  BY <1>6 DEF Max
<1> QED
  BY <1>7

\* The image of a finite set of records, a field at a time.
LEMMA GroupsFinite ==
    ASSUME NEW S, IsFiniteSet(S)
    PROVE  IsFiniteSet({o.group : o \in S})
<1> DEFINE f == [o \in S |-> o.group]
<1>1. f \in Surjection(S, {o.group : o \in S})
  BY DEF Surjection
<1> QED
  BY <1>1, FS_Surjection

LEMMA NextGroupIsNew ==
    ASSUME Types, NEW u
    PROVE  /\ NextGroup(u) \in Nat /\ NextGroup(u) # 0
           /\ \A n \in GroupsInUse(u) : n < NextGroup(u)
<1> DEFINE logged == {t \in trades : UserOf(t.req) = u}
<1>1. IsFiniteSet(OpenOrders(u)) /\ IsFiniteSet(logged)
  <2>1. OpenOrders(u) \subseteq Tracked /\ logged \subseteq trades
    BY DEF OpenOrders, Tracked
  <2> QED
    BY <2>1, FS_Subset DEF Types
<1>2. GroupsInUse(u) = {o.group : o \in OpenOrders(u)} \cup {t.group : t \in logged}
  BY DEF GroupsInUse
<1>3. IsFiniteSet({0} \cup GroupsInUse(u))
  <2>1. IsFiniteSet({o.group : o \in OpenOrders(u)}) /\ IsFiniteSet({t.group : t \in logged})
    BY <1>1, GroupsFinite
  <2>2. IsFiniteSet({0})
    BY FS_Singleton
  <2> QED
    BY <1>2, <2>1, <2>2, FS_Union
<1>4. GroupsInUse(u) \subseteq Nat
  BY DEF GroupsInUse, OpenOrders, Types, Listed, Logged
<1>5. ({0} \cup GroupsInUse(u)) \in SUBSET Nat /\ ({0} \cup GroupsInUse(u)) # {}
  BY <1>4
<1>6. PICK m \in Nat : m = Max({0} \cup GroupsInUse(u)) /\ \A n \in GroupsInUse(u) : n <= m
  BY <1>3, <1>5, MaxIsTheGreatest
<1>7. NextGroup(u) = m + 1
  BY <1>6 DEF NextGroup
<1> QED
  BY <1>4, <1>6, <1>7

LEMMA OrderType ==
    ASSUME Types, NEW r \in Requests, NEW live \in BOOLEAN, NEW tracked \in BOOLEAN
    PROVE  /\ Order(r, live, tracked) \in Listed
           /\ Order(r, live, tracked).req = r /\ Order(r, live, tracked).leg = runs[r].leg
           /\ Order(r, live, tracked).group = runs[r].group
           /\ Order(r, live, tracked).live = live /\ Order(r, live, tracked).tracked = tracked
<1>1. runs[r].leg \in Nat /\ runs[r].group \in Nat
  BY DEF Types, Run
<1> QED
  BY <1>1 DEF Order, Listed

LEMMA BookTypes ==
    ASSUME Types, book' \subseteq Listed, NEW o, Tracked' \subseteq Tracked \cup {o}
    PROVE  IsFiniteSet(Tracked')
BY FS_AddElement, FS_Subset DEF Types

LEMMA ListOrder ==
    ASSUME Types, NEW r \in Requests, NEW live \in BOOLEAN, NEW tracked \in BOOLEAN,
           book' = book \cup {Order(r, live, tracked)}
    PROVE  /\ book' \subseteq Listed /\ IsFiniteSet(Tracked')
           /\ Tracked' = IF tracked THEN Tracked \cup {Order(r, live, tracked)} ELSE Tracked
<1>1. book' \subseteq Listed
  BY OrderType DEF Types
<1>2. Tracked' = IF tracked THEN Tracked \cup {Order(r, live, tracked)} ELSE Tracked
  BY OrderType DEF Tracked
<1>3. Tracked' \subseteq Tracked \cup {Order(r, live, tracked)}
  BY <1>2
<1> QED
  BY <1>1, <1>2, <1>3, BookTypes

LEMMA UnlistOrders ==
    ASSUME Types, book' \subseteq book
    PROVE  book' \subseteq Listed /\ Tracked' \subseteq Tracked /\ IsFiniteSet(Tracked')
<1>1. book' \subseteq Listed /\ Tracked' \subseteq Tracked
  BY DEF Types, Tracked
<1> QED
  BY <1>1, FS_Subset DEF Types

LEMMA ReadGateType ==
    ASSUME Types
    PROVE  \A read \in ReadGate : read.gate \in Gate /\ read.halted \in BOOLEAN
<1> SUFFICES ASSUME NEW read \in ReadGate PROVE read.gate \in Gate /\ read.halted \in BOOLEAN
  OBVIOUS
<1>0. gate \in Gate /\ clock \in Nat
  BY DEF Types
<1>1. \/ read = [halted |-> TRUE \in gate.cache, gate |-> gate]
      \/ \E h \in BOOLEAN : read = [halted |-> h, gate |-> [gate EXCEPT !.cache = {h}, !.at = clock]]
  BY <1>0 DEF ReadGate, Gate
<1>2. ASSUME NEW h \in BOOLEAN PROVE [gate EXCEPT !.cache = {h}, !.at = clock] \in Gate
  BY <1>0 DEF Gate
<1>3. gate.db \in BOOLEAN /\ (TRUE \in gate.cache) \in BOOLEAN
  BY <1>0 DEF Gate
<1>4. CASE read = [halted |-> TRUE \in gate.cache, gate |-> gate]
  BY <1>0, <1>3, <1>4, Zenon
<1>5. ASSUME NEW h \in BOOLEAN, read = [halted |-> h, gate |-> [gate EXCEPT !.cache = {h}, !.at = clock]]
      PROVE  read.gate \in Gate /\ read.halted \in BOOLEAN
  <2>1. read.halted = h /\ read.gate = [gate EXCEPT !.cache = {h}, !.at = clock]
    BY <1>5
  <2> QED
    BY <1>2, <2>1
<1> QED
  BY <1>1, <1>4, <1>5

LEMMA PutAsked ==
    ASSUME AskedTypes, NEW r \in Requests, NEW u \in Users, NEW shape \in Shapes, r \notin DOMAIN asked,
           asked' = Put(asked, r, [user |-> u, shape |-> shape])
    PROVE  /\ AskedTypes'
           /\ DOMAIN asked' = DOMAIN asked \cup {r}
           /\ \A q \in DOMAIN asked : UserOf(q)' = UserOf(q) /\ ShapeOf(q)' = ShapeOf(q)
           /\ UserOf(r)' = u /\ ShapeOf(r)' = shape
BY DEF AskedTypes, Put, UserOf, ShapeOf

LEMMA StartedTold ==
    ASSUME Types, NEW b, NEW r \in Requests, Valid(b), r = Entry(b).req, told' = Started(b, r)
    PROVE  /\ told' \in Histories
           /\ told'.starts = [told.starts EXCEPT ![r] = @ + 1]
           /\ told'.late = told.late /\ told'.foreign = told.foreign /\ told'.twins = told.twins
           /\ told'.alarmed = told.alarmed /\ told'.lost = told.lost
           /\ told'.halted = told.halted /\ told'.dbMissed = told.dbMissed
<1>1. ~(b.store # "nl" /\ clock - Entry(b).at > TokenTTL) /\ UserOf(r) = UserOf(b.req)
  BY DEF Valid, Expired, OwnersTap
<1>2. told' = [[[told EXCEPT !.starts = [told.starts EXCEPT ![r] = @ + 1]] EXCEPT !.late = told.late]
                 EXCEPT !.foreign = told.foreign]
  BY <1>1 DEF Started
<1>3. told.starts \in [Requests -> Nat] /\ told.starts[r] + 1 \in Nat
  BY DEF Types, Histories
<1>4. [told.starts EXCEPT ![r] = @ + 1] \in [Requests -> Nat]
  BY <1>3
<1> QED
  BY <1>2, <1>4 DEF Types, Histories

(***************************************************************************)
(* Types and tokens.                                                       *)
(***************************************************************************)
ButtonsHold == \A b \in shown : b.store \in Stores /\ b.req \in DOMAIN asked

\* A request has at most one token, in the store of its shape, and none once it was started.
TokensHold ==
    /\ DOMAIN pending = Stores
    /\ \A s \in Stores : \A t \in DOMAIN pending[s] :
         /\ pending[s][t].req \in DOMAIN asked
         /\ ShapeOf(pending[s][t].req).store = s
         /\ told.starts[pending[s][t].req] = 0
         /\ pending[s][t].at \in Nat /\ pending[s][t].at <= clock
    /\ \A s \in Stores : \A t, w \in DOMAIN pending[s] :
         pending[s][t].req = pending[s][w].req => t = w

\* A request is idle until it is started, which happens once.
StartsHold ==
    /\ \A r \in Requests : told.starts[r] <= 1
    /\ \A r \in Requests : r \notin DOMAIN asked => told.starts[r] = 0
    /\ \A r \in Requests : told.starts[r] = 0 => runs[r].pc = "idle"
    /\ told.foreign = {} /\ told.late = {}

\* The request of a waiting token was not started yet.
LEMMA TokenOf ==
    ASSUME Types, ButtonsHold, TokensHold, NEW b \in shown, Waiting(b)
    PROVE  /\ b.store \in Stores /\ b.token \in DOMAIN pending[b.store]
           /\ Entry(b).req \in DOMAIN asked /\ Entry(b).req \in Requests
           /\ told.starts[Entry(b).req] = 0 /\ ShapeOf(Entry(b).req).store = b.store
           /\ ShapeOf(Entry(b).req) \in Shapes
<1>1. b.store \in Stores /\ b.token \in DOMAIN pending[b.store]
  BY DEF ButtonsHold, Waiting
<1>2. Entry(b).req \in DOMAIN asked /\ told.starts[Entry(b).req] = 0 /\ ShapeOf(Entry(b).req).store = b.store
  BY <1>1 DEF TokensHold, Entry
<1>3. Entry(b).req \in Requests /\ ShapeOf(Entry(b).req) \in Shapes
  BY <1>2 DEF Types, AskedTypes, ShapeOf
<1> QED
  BY <1>1, <1>2, <1>3

LEMMA NextLegTypes ==
    ASSUME Types, NEW r \in Requests, NextLeg(r)
    PROVE  runs' \in [Requests -> Run] /\ chat' \in [pc : {"free", "price", "run"}, req : SUBSET Requests]
<1>1. runs' \in [Requests -> Run]
  BY NextLegRun DEF Types, RunBecomes
<1>2. chat' = Free \/ chat' = chat
  BY DEF NextLeg
<1> QED
  BY <1>1, <1>2 DEF Types, Free

LEMMA FaultyTold ==
    ASSUME Types, NEW h \in Histories
    PROVE  /\ Faulty(h) \in Histories
           /\ Faulty(h).starts = h.starts /\ Faulty(h).twins = h.twins /\ Faulty(h).alarmed = h.alarmed
           /\ Faulty(h).lost = h.lost /\ Faulty(h).late = h.late /\ Faulty(h).foreign = h.foreign
           /\ Faulty(h).halted = h.halted /\ Faulty(h).dbMissed = h.dbMissed
<1>1. h.faults + 1 \in Nat
  BY DEF Histories
<1> QED
  BY <1>1 DEF Faulty, Histories

LEMMA LostTold ==
    ASSUME NEW h \in Histories, NEW gone \in SUBSET Legs
    PROVE  /\ [h EXCEPT !.lost = @ \cup gone] \in Histories
           /\ [h EXCEPT !.lost = @ \cup gone].starts = h.starts
           /\ [h EXCEPT !.lost = @ \cup gone].twins = h.twins
           /\ [h EXCEPT !.lost = @ \cup gone].alarmed = h.alarmed
           /\ [h EXCEPT !.lost = @ \cup gone].lost = h.lost \cup gone
           /\ [h EXCEPT !.lost = @ \cup gone].late = h.late
           /\ [h EXCEPT !.lost = @ \cup gone].foreign = h.foreign
           /\ [h EXCEPT !.lost = @ \cup gone].halted = h.halted
           /\ [h EXCEPT !.lost = @ \cup gone].dbMissed = h.dbMissed
BY DEF Histories

LEMMA AlarmedTold ==
    ASSUME NEW h \in Histories, NEW leg \in Legs
    PROVE  /\ [h EXCEPT !.alarmed = @ \cup {leg}] \in Histories
           /\ [h EXCEPT !.alarmed = @ \cup {leg}].starts = h.starts
           /\ [h EXCEPT !.alarmed = @ \cup {leg}].twins = h.twins
           /\ [h EXCEPT !.alarmed = @ \cup {leg}].alarmed = h.alarmed \cup {leg}
           /\ [h EXCEPT !.alarmed = @ \cup {leg}].lost = h.lost
           /\ [h EXCEPT !.alarmed = @ \cup {leg}].late = h.late
           /\ [h EXCEPT !.alarmed = @ \cup {leg}].foreign = h.foreign
           /\ [h EXCEPT !.alarmed = @ \cup {leg}].halted = h.halted
           /\ [h EXCEPT !.alarmed = @ \cup {leg}].dbMissed = h.dbMissed
BY DEF Histories

LEMMA NumberedTold ==
    ASSUME Types, NEW r \in Requests, NEW u
    PROVE  /\ Numbered(r, u) \in Histories
           /\ Numbered(r, u).twins = IF Twins(r, u) = {} THEN told.twins ELSE told.twins \cup Twins(r, u) \cup {r}
           /\ Numbered(r, u).starts = told.starts
           /\ Numbered(r, u).alarmed = told.alarmed /\ Numbered(r, u).lost = told.lost
           /\ Numbered(r, u).late = told.late /\ Numbered(r, u).foreign = told.foreign
           /\ Numbered(r, u).halted = told.halted /\ Numbered(r, u).dbMissed = told.dbMissed
<1>1. Twins(r, u) \subseteq Requests
  BY DEF Twins, Types, AskedTypes
<1> DEFINE twins == IF Twins(r, u) = {} THEN told.twins ELSE told.twins \cup Twins(r, u) \cup {r}
<1>2. Numbered(r, u) = [told EXCEPT !.twins = twins]
  BY DEF Numbered
<1>3. twins \in SUBSET Requests /\ told \in Histories
  BY <1>1 DEF Types, Histories
<1> HIDE DEF twins
<1>4. /\ Numbered(r, u) \in Histories /\ Numbered(r, u).twins = twins
      /\ Numbered(r, u).starts = told.starts
      /\ Numbered(r, u).alarmed = told.alarmed /\ Numbered(r, u).lost = told.lost
      /\ Numbered(r, u).late = told.late /\ Numbered(r, u).foreign = told.foreign
      /\ Numbered(r, u).halted = told.halted /\ Numbered(r, u).dbMissed = told.dbMissed
  BY <1>2, <1>3 DEF Histories
<1> QED
  BY <1>4 DEF twins

LEMMA ManagersTold ==
    ASSUME Types, NEW r \in Requests, NEW u, told' = [Numbered(r, u) EXCEPT !.starts[r] = @ + 1]
    PROVE  /\ told' \in Histories
           /\ told'.starts = [told.starts EXCEPT ![r] = @ + 1]
           /\ told'.twins = IF Twins(r, u) = {} THEN told.twins ELSE told.twins \cup Twins(r, u) \cup {r}
           /\ told'.alarmed = told.alarmed /\ told'.lost = told.lost
           /\ told'.late = told.late /\ told'.foreign = told.foreign
           /\ told'.halted = told.halted /\ told'.dbMissed = told.dbMissed
<1> DEFINE h == Numbered(r, u)
<1>1. h \in Histories /\ h.starts = told.starts
  BY NumberedTold
<1>2. h.starts[r] \in Nat /\ h.starts \in [Requests -> Nat]
  BY <1>1 DEF Histories
<1>3. [h.starts EXCEPT ![r] = h.starts[r] + 1] \in [Requests -> Nat]
  BY <1>2
<1>4. told' = [h EXCEPT !.starts = [h.starts EXCEPT ![r] = h.starts[r] + 1]]
  OBVIOUS
<1> HIDE DEF h
<1>5. /\ told' \in Histories /\ told'.starts = [h.starts EXCEPT ![r] = h.starts[r] + 1]
      /\ told'.twins = h.twins /\ told'.alarmed = h.alarmed /\ told'.lost = h.lost
      /\ told'.late = h.late /\ told'.foreign = h.foreign
      /\ told'.halted = h.halted /\ told'.dbMissed = h.dbMissed
  BY <1>1, <1>3, <1>4 DEF Histories
<1> QED
  BY <1>1, <1>5, NumberedTold DEF h

LEMMA HaltTold ==
    ASSUME Types, NEW halted \in BOOLEAN, NEW stored \in BOOLEAN,
           told' = [told EXCEPT !.halted = halted, !.dbMissed = ~stored,
                                !.faults = IF stored THEN @ ELSE @ + 1]
    PROVE  /\ told' \in Histories
           /\ told'.starts = told.starts /\ told'.twins = told.twins
           /\ told'.alarmed = told.alarmed /\ told'.lost = told.lost
           /\ told'.late = told.late /\ told'.foreign = told.foreign
           /\ told'.halted = halted /\ told'.dbMissed = ~stored
<1>1. told.faults + 1 \in Nat /\ told.faults \in Nat
  BY DEF Types, Histories
<1> DEFINE missed == ~stored
           n == IF stored THEN told.faults ELSE told.faults + 1
<1>2. n \in Nat /\ missed \in BOOLEAN
  BY <1>1
<1>3. told' = [[[told EXCEPT !.halted = halted] EXCEPT !.dbMissed = missed] EXCEPT !.faults = n]
  OBVIOUS
<1>4. told \in Histories
  BY DEF Types
<1> HIDE DEF missed, n
<1>5. /\ told' \in Histories
      /\ told'.starts = told.starts /\ told'.twins = told.twins
      /\ told'.alarmed = told.alarmed /\ told'.lost = told.lost
      /\ told'.late = told.late /\ told'.foreign = told.foreign
      /\ told'.halted = halted /\ told'.dbMissed = missed
  BY <1>2, <1>3, <1>4 DEF Histories
<1> QED
  BY <1>5 DEF missed

\* A request whose price is asked is no run yet; the run of a tap is the chat's.
ChatHolds ==
    /\ chat.pc = "free" => chat.req = {}
    /\ chat.pc # "free" => \E r \in DOMAIN asked : chat.req = {r}
    /\ chat.pc = "price" => \A r \in chat.req : runs[r].pc = "idle" /\ AsksPrice(r) /\ told.starts[r] = 1
    /\ \A r \in Requests : Running(r) /\ runs[r].by \in {"gate", "intent"} => chat.pc = "run" /\ chat.req = {r}

Core == Types /\ ButtonsHold /\ TokensHold /\ StartsHold /\ ChatHolds

AskedKept ==
    \A r \in DOMAIN asked : r \in DOMAIN asked' /\ UserOf(r)' = UserOf(r) /\ ShapeOf(r)' = ShapeOf(r)

\* Only tokens are taken away, those of the requests that are started among them.
TokensShrink ==
    /\ DOMAIN pending' = Stores
    /\ \A s \in Stores : \A t \in DOMAIN pending'[s] :
         /\ t \in DOMAIN pending[s] /\ pending'[s][t] = pending[s][t]
         /\ told'.starts[pending[s][t].req] = told.starts[pending[s][t].req]

LEMMA TokensStillHold ==
    ASSUME Types, TokensHold, TokensShrink, AskedKept, clock' \in Nat, clock' >= clock
    PROVE  TokensHold'
<1>1. ASSUME NEW s \in Stores, NEW t \in DOMAIN pending'[s]
      PROVE  /\ pending'[s][t].req \in DOMAIN asked'
             /\ ShapeOf(pending[s][t].req)'.store = s
             /\ told'.starts[pending'[s][t].req] = 0
             /\ pending'[s][t].at \in Nat /\ pending'[s][t].at <= clock'
  <2>1. /\ t \in DOMAIN pending[s] /\ pending'[s][t] = pending[s][t]
        /\ told'.starts[pending[s][t].req] = told.starts[pending[s][t].req]
    BY <1>1 DEF TokensShrink
  <2>2. /\ pending[s][t].req \in DOMAIN asked /\ ShapeOf(pending[s][t].req).store = s
        /\ told.starts[pending[s][t].req] = 0
        /\ pending[s][t].at \in Nat /\ pending[s][t].at <= clock
    BY <1>1, <2>1 DEF TokensHold
  <2> QED
    BY <2>1, <2>2 DEF AskedKept, Types, ShapeOf
<1>2. ASSUME NEW s \in Stores, NEW t \in DOMAIN pending'[s], NEW w \in DOMAIN pending'[s],
             pending'[s][t].req = pending'[s][w].req
      PROVE  t = w
  <2>1. /\ t \in DOMAIN pending[s] /\ pending'[s][t] = pending[s][t]
        /\ w \in DOMAIN pending[s] /\ pending'[s][w] = pending[s][w]
    BY <1>2 DEF TokensShrink
  <2> QED
    BY <1>2, <2>1 DEF TokensHold
<1>3. DOMAIN pending' = Stores
  BY DEF TokensShrink
<1> QED
  BY <1>1, <1>2, <1>3 DEF TokensHold

LEMMA PopShrinks ==
    ASSUME Types, TokensHold, NEW b, b.store \in Stores, Pop(b), NEW n \in Nat,
           \/ told'.starts = told.starts
           \/ b.token \in DOMAIN pending[b.store] /\ told'.starts = [told.starts EXCEPT ![Entry(b).req] = n]
    PROVE  TokensShrink
<1>1. DOMAIN pending' = Stores
  BY DEF Pop, TokensHold
<1>2. ASSUME NEW s \in Stores, NEW t \in DOMAIN pending'[s]
      PROVE  /\ t \in DOMAIN pending[s] /\ pending'[s][t] = pending[s][t]
             /\ s = b.store => t # b.token
  BY <1>2 DEF Pop, TokensHold, Drop
<1>3. ASSUME NEW s \in Stores, NEW t \in DOMAIN pending'[s]
      PROVE  told'.starts[pending[s][t].req] = told.starts[pending[s][t].req]
  <2>1. CASE told'.starts = told.starts
    BY <2>1
  <2>2. CASE b.token \in DOMAIN pending[b.store] /\ told'.starts = [told.starts EXCEPT ![Entry(b).req] = n]
    <3>1. pending[s][t].req # Entry(b).req
      BY <1>2, <1>3, <2>2 DEF TokensHold, Entry
    <3>2. pending[s][t].req \in Requests
      BY <1>2, <1>3 DEF TokensHold, Types, AskedTypes
    <3> QED
      BY <2>2, <3>1, <3>2 DEF Types, Histories
  <2> QED
    BY <2>1, <2>2
<1> QED
  BY <1>1, <1>2, <1>3 DEF TokensShrink

LEMMA SameAsked ==
    ASSUME asked' = asked
    PROVE  /\ AskedKept /\ DOMAIN asked' = DOMAIN asked
           /\ AskedTypes => AskedTypes'
BY DEF AskedKept, UserOf, ShapeOf, AskedTypes

\* A step that asks nothing and tells nobody that his request is started.
LEMMA CoreKept ==
    ASSUME Core, Types', ChatHolds', asked' = asked, shown' = shown, TokensShrink, clock' >= clock,
           told'.starts = told.starts, told'.late = told.late, told'.foreign = told.foreign,
           \A r \in Requests : runs[r].pc = "idle" /\ told.starts[r] = 0 => runs'[r].pc = "idle"
    PROVE  Core'
<1> USE DEF Core
<1>1. AskedKept /\ DOMAIN asked' = DOMAIN asked
  BY SameAsked
<1>2. ButtonsHold'
  BY <1>1 DEF ButtonsHold
<1>3. clock' \in Nat
  BY DEF Types
<1>4. TokensHold'
  BY <1>1, <1>3, TokensStillHold
<1>5. StartsHold'
  BY <1>1 DEF StartsHold
<1> QED
  BY <1>2, <1>4, <1>5

\* A step that tells the user of r that it is started.
LEMMA CoreStarted ==
    ASSUME Core, Types', ChatHolds', asked' = asked, shown' = shown, TokensShrink, clock' = clock,
           NEW r \in DOMAIN asked, told.starts[r] = 0,
           told'.starts = [told.starts EXCEPT ![r] = @ + 1], told'.late = told.late, told'.foreign = told.foreign,
           \A q \in Requests : q # r => runs'[q] = runs[q]
    PROVE  Core'
<1> USE DEF Core
<1>1. AskedKept /\ DOMAIN asked' = DOMAIN asked
  BY SameAsked
<1>2. ButtonsHold'
  BY <1>1 DEF ButtonsHold
<1>3. clock' \in Nat /\ clock' >= clock
  BY DEF Types
<1>4. TokensHold'
  BY <1>1, <1>3, TokensStillHold
<1>5. told.starts \in [Requests -> Nat] /\ r \in Requests
  BY DEF Types, Histories, AskedTypes
<1>6. told'.starts[r] = 1 /\ \A q \in Requests : q # r => told'.starts[q] = told.starts[q]
  BY <1>5
<1>7. StartsHold'
  <2>1. \A q \in Requests : told'.starts[q] <= 1
    BY <1>6 DEF StartsHold
  <2>2. \A q \in Requests : q \notin DOMAIN asked' => told'.starts[q] = 0
    BY <1>1, <1>6 DEF StartsHold
  <2>3. \A q \in Requests : told'.starts[q] = 0 => runs'[q].pc = "idle"
    BY <1>6 DEF StartsHold
  <2> QED
    BY <2>1, <2>2, <2>3 DEF StartsHold
<1> QED
  BY <1>2, <1>4, <1>7

LEMMA PendingSame ==
    ASSUME TokensHold, pending' = pending, told'.starts = told.starts
    PROVE  TokensShrink
BY DEF TokensHold, TokensShrink

LEMMA ChatSame ==
    ASSUME ChatHolds, asked' = asked, chat' = chat, runs' = runs, told'.starts = told.starts
    PROVE  ChatHolds'
BY DEF ChatHolds, Running, AsksPrice, ShapeOf

(* The steps that change no run.                                            *)
LEMMA SetHaltCore ==
    ASSUME Core, NEW halted \in BOOLEAN, SetHalt(halted)
    PROVE  Core'
<1>1. PICK stored \in BOOLEAN :
         /\ gate' = [cache |-> {halted}, at |-> clock, flag |-> halted,
                     db |-> IF stored THEN halted ELSE gate.db]
         /\ told' = [told EXCEPT !.halted = halted, !.dbMissed = ~stored,
                                 !.faults = IF stored THEN @ ELSE @ + 1]
  BY DEF SetHalt
<1>2. Types /\ TokensHold
  BY DEF Core
<1>3. /\ told' \in Histories /\ told'.starts = told.starts
      /\ told'.late = told.late /\ told'.foreign = told.foreign
  BY <1>1, <1>2, HaltTold
<1>4. gate' \in Gate
  BY <1>1, <1>2 DEF Types, Gate
<1>5. UNCHANGED <<asked, pending, shown, chat, runs, book, trades, clock>>
  BY DEF SetHalt
<1>6. Types'
  BY <1>2, <1>3, <1>4, <1>5 DEF Types, AskedTypes, Tracked
<1>7. TokensShrink
  BY <1>2, <1>3, <1>5, PendingSame
<1>8. ChatHolds'
  BY <1>3, <1>5, ChatSame DEF Core
<1>9. clock \in Nat
  BY <1>2 DEF Types
<1> QED
  BY <1>3, <1>5, <1>6, <1>7, <1>8, <1>9, CoreKept

\* A step that changes nothing but the gate, the tokens and the clock.
LEMMA GateStepCore ==
    ASSUME Core, UNCHANGED <<asked, shown, chat, runs, book, trades, told>>,
           gate' \in Gate, clock' \in Nat, clock' >= clock,
           pending' = pending \/ \E b \in shown : Waiting(b) /\ Pop(b)
    PROVE  Core'
<1>1. Types /\ TokensHold /\ ButtonsHold
  BY DEF Core
<1>2. Types'
  BY <1>1 DEF Types, AskedTypes, Tracked
<1>3. TokensShrink
  <2>1. CASE pending' = pending
    BY <1>1, <2>1, PendingSame
  <2>2. ASSUME NEW b \in shown, Waiting(b), Pop(b) PROVE TokensShrink
    BY <1>1, <2>2, TokenOf, PopShrinks
  <2> QED
    BY <2>1, <2>2
<1>4. ChatHolds'
  BY ChatSame DEF Core
<1> QED
  BY <1>2, <1>3, <1>4, CoreKept

LEMMA TapsThatStopCore ==
    ASSUME Core, NEW b \in shown, TapRefused(b) \/ TapCancel(b) \/ TapStopped(b)
    PROVE  Core'
<1>1. gate \in Gate /\ clock \in Nat /\ clock >= clock
  BY DEF Core, Types
<1>2. CASE TapRefused(b) \/ TapCancel(b)
  BY <1>1, <1>2, GateStepCore DEF TapRefused, TapCancel
<1>3. CASE TapStopped(b)
  <2>1. gate' \in Gate
    BY <1>3, ReadGateType DEF TapStopped, Core
  <2>2. Waiting(b) /\ Pop(b) /\ UNCHANGED <<asked, shown, chat, runs, book, trades, clock, told>>
    BY <1>3 DEF TapStopped, Valid
  <2> QED
    BY <1>1, <2>1, <2>2, GateStepCore
<1> QED
  BY <1>2, <1>3

LEMMA TickCore ==
    ASSUME Core, Tick
    PROVE  Core'
<1>1. gate \in Gate /\ clock \in Nat
  BY DEF Core, Types
<1>2. clock' \in Nat /\ clock' >= clock
  BY <1>1 DEF Tick
<1> QED
  BY <1>1, <1>2, GateStepCore DEF Tick

(* What a tap that is heeded finds.                                         *)
LEMMA ValidTap ==
    ASSUME Core, NEW b \in shown, Valid(b)
    PROVE  /\ b.store \in Stores /\ b.token \in DOMAIN pending[b.store] /\ chat = Free
           /\ Entry(b).req \in DOMAIN asked /\ Entry(b).req \in Requests
           /\ told.starts[Entry(b).req] = 0 /\ runs[Entry(b).req].pc = "idle"
           /\ ShapeOf(Entry(b).req).store = b.store /\ ShapeOf(Entry(b).req) \in Shapes
<1>1. Waiting(b) /\ chat = Free
  BY DEF Valid, MayTap
<1> QED
  BY <1>1, TokenOf DEF Core, StartsHold

\* No run of a tap is under way when the chat is free.
LEMMA FreeChat ==
    ASSUME ChatHolds, chat.pc # "run", NEW r \in Requests, Running(r)
    PROVE  runs[r].by \notin {"gate", "intent"}
BY DEF ChatHolds

LEMMA TapRunsCore ==
    ASSUME Core, NEW b \in shown, NEW r, r = Entry(b).req, NEW by \in {"gate", "intent"}, Valid(b), Pop(b),
           gate' \in Gate, Start(r, by), chat' = [pc |-> "run", req |-> {r}], told' = Started(b, r),
           UNCHANGED <<asked, shown, book, trades, clock>>
    PROVE  Core'
<1>1. Types /\ TokensHold /\ ChatHolds
  BY DEF Core
<1>2. /\ b.store \in Stores /\ b.token \in DOMAIN pending[b.store] /\ chat = Free
      /\ r \in DOMAIN asked /\ r \in Requests /\ told.starts[r] = 0 /\ runs[r].pc = "idle"
  BY ValidTap
<1>3. /\ told' \in Histories /\ told'.starts = [told.starts EXCEPT ![r] = @ + 1]
      /\ told'.late = told.late /\ told'.foreign = told.foreign
  BY <1>1, <1>2, StartedTold
<1>4. RunBecomes(r, IF ShapeOf(r).family = "manual" THEN "leg" ELSE "number", 1, 0, by)
  BY <1>1, <1>2, StartRun DEF Types
<1>5. runs' \in [Requests -> Run] /\ \A q \in Requests : q # r => runs'[q] = runs[q]
  BY <1>4 DEF RunBecomes
<1>6. chat' \in [pc : {"free", "price", "run"}, req : SUBSET Requests]
  BY <1>2
<1>7. Types'
  BY <1>1, <1>3, <1>5, <1>6 DEF Types, AskedTypes, Tracked
<1>8. ChatHolds'
  <2>1. chat'.pc = "run" /\ chat'.req = {r}
    OBVIOUS
  <2>2. ASSUME NEW q \in Requests, Running(q)', runs'[q].by \in {"gate", "intent"} PROVE q = r
    BY <1>1, <1>2, <1>5, <2>2, FreeChat DEF Running, Free
  <2> QED
    BY <1>2, <2>1, <2>2 DEF ChatHolds
<1>9. TokensShrink
  <2>1. told.starts[r] + 1 \in Nat
    BY <1>1, <1>2 DEF Types, Histories
  <2> QED
    BY <1>1, <1>2, <1>3, <2>1, PopShrinks
<1> QED
  BY <1>2, <1>3, <1>5, <1>7, <1>8, <1>9, CoreStarted

LEMMA TapAsksPriceCore ==
    ASSUME Core, NEW b \in shown, TapAsksPrice(b)
    PROVE  Core'
<1> DEFINE r == Entry(b).req
<1>0. Valid(b) /\ Pop(b) /\ AsksPrice(r) /\ chat' = [pc |-> "price", req |-> {r}] /\ told' = Started(b, r)
      /\ UNCHANGED <<asked, shown, runs, book, trades, clock>> /\ gate' \in Gate
  BY ReadGateType DEF TapAsksPrice, Core
<1>1. Types /\ TokensHold /\ ChatHolds
  BY DEF Core
<1>2. /\ b.store \in Stores /\ b.token \in DOMAIN pending[b.store] /\ chat = Free
      /\ r \in DOMAIN asked /\ r \in Requests /\ told.starts[r] = 0 /\ runs[r].pc = "idle"
  BY <1>0, ValidTap
<1>3. /\ told' \in Histories /\ told'.starts = [told.starts EXCEPT ![r] = @ + 1]
      /\ told'.late = told.late /\ told'.foreign = told.foreign
  BY <1>0, <1>1, <1>2, StartedTold
<1>5. told.starts[r] + 1 \in Nat /\ told'.starts[r] = 1
  BY <1>1, <1>2, <1>3 DEF Types, Histories
<1>6. chat' \in [pc : {"free", "price", "run"}, req : SUBSET Requests]
  BY <1>0, <1>2
<1>7. Types'
  BY <1>0, <1>1, <1>3, <1>6 DEF Types, AskedTypes, Tracked
<1>8. ChatHolds'
  <2>1. chat'.pc = "price" /\ chat'.req = {r}
    BY <1>0
  <2>2. ASSUME NEW q \in Requests, Running(q)' PROVE runs'[q].by \notin {"gate", "intent"}
    BY <1>0, <1>1, <1>2, <2>2, FreeChat DEF Running, Free
  <2>3. runs'[r].pc = "idle" /\ told'.starts[r] = 1
    BY <1>0, <1>2, <1>5
  <2>4. asked'[r] = asked[r]
    BY <1>0
  <2>5. ShapeOf(r).market /\ ShapeOf(r).side = "bid"
    BY <1>0 DEF AsksPrice
  <2> QED
    BY <1>0, <1>2, <2>1, <2>2, <2>3, <2>4, <2>5 DEF ChatHolds, AsksPrice, ShapeOf
<1>9. TokensShrink
  BY <1>0, <1>1, <1>2, <1>3, <1>5, PopShrinks
<1> QED
  BY <1>0, <1>2, <1>3, <1>7, <1>8, <1>9, CoreStarted

\* A step of a run that goes on, with its group and caller: it goes on or is over.
LEMMA RunStepCore ==
    ASSUME Core, NEW r \in Requests, Running(r),
           runs' \in [Requests -> Run], runs'[r].pc # "idle", runs'[r].by = runs[r].by,
           \A q \in Requests : q # r => runs'[q] = runs[q],
           \/ chat' = chat
           \/ chat' = Free /\ runs'[r].pc = "over" /\ chat.req = {r},
           book' \subseteq Listed, IsFiniteSet(Tracked'), told' \in Histories,
           told'.starts = told.starts, told'.late = told.late, told'.foreign = told.foreign,
           UNCHANGED <<asked, pending, shown, trades, gate, clock>>
    PROVE  Core'
<1>1. Types /\ TokensHold /\ ChatHolds
  BY DEF Core
<1>3. Types'
  BY <1>1 DEF Types, AskedTypes, Free
<1>4. TokensShrink
  BY <1>1, PendingSame
<1>5. ChatHolds'
  <2>1. CASE chat' = chat
    <3>1. ASSUME NEW q \in Requests, Running(q)', runs'[q].by \in {"gate", "intent"}
          PROVE  chat.pc = "run" /\ chat.req = {q}
      <4>1. Running(q) /\ runs[q].by \in {"gate", "intent"}
        BY <3>1 DEF Running
      <4> QED
        BY <1>1, <4>1 DEF ChatHolds
    <3>2. chat.pc = "price" => \A q \in chat.req : runs'[q].pc = "idle" /\ AsksPrice(q) /\ told'.starts[q] = 1
      <4> SUFFICES ASSUME chat.pc = "price", NEW q \in chat.req
                   PROVE  runs'[q].pc = "idle" /\ AsksPrice(q) /\ told'.starts[q] = 1
        OBVIOUS
      <4>1. runs[q].pc = "idle" /\ AsksPrice(q) /\ told.starts[q] = 1 /\ q \in Requests
        BY <1>1 DEF ChatHolds, Types
      <4>2. q # r
        BY <4>1 DEF Running
      <4> QED
        BY <4>1, <4>2
    <3> QED
      BY <1>1, <2>1, <3>1, <3>2 DEF ChatHolds, AsksPrice, ShapeOf
  <2>2. CASE chat' = Free /\ runs'[r].pc = "over" /\ chat.req = {r}
    <3>1. ASSUME NEW q \in Requests, Running(q)' PROVE runs'[q].by \notin {"gate", "intent"}
      <4>1. q # r /\ Running(q) /\ runs'[q].by = runs[q].by
        BY <2>2, <3>1 DEF Running
      <4> QED
        BY <1>1, <2>2, <4>1 DEF ChatHolds
    <3> QED
      BY <2>2, <3>1 DEF ChatHolds, Free
  <2> QED
    BY <2>1, <2>2
<1>6. clock \in Nat /\ \A q \in Requests : runs[q].pc = "idle" => runs'[q].pc = "idle"
  BY <1>1 DEF Types, Running
<1> QED
  BY <1>3, <1>4, <1>5, <1>6, CoreKept

\* The same of NextLeg, whatever happened to the leg.
LEMMA NextLegCore ==
    ASSUME Core, NEW r \in Requests, Running(r), NextLeg(r),
           book' \subseteq Listed, IsFiniteSet(Tracked'), told' \in Histories,
           told'.starts = told.starts, told'.late = told.late, told'.foreign = told.foreign,
           UNCHANGED <<asked, pending, shown, trades, gate, clock>>
    PROVE  Core'
<1>1. runs \in [Requests -> Run]
  BY DEF Core, Types
<1>2. CASE /\ RunBecomes(r, "over", runs[r].leg, runs[r].group, runs[r].by)
           /\ chat' = IF chat.req = {r} THEN Free ELSE chat
  BY <1>2, RunStepCore DEF RunBecomes
<1>3. CASE /\ RunBecomes(r, "leg", runs[r].leg + 1, runs[r].group, runs[r].by)
           /\ chat' = chat
  BY <1>3, RunStepCore DEF RunBecomes
<1> QED
  BY <1>1, <1>2, <1>3, NextLegRun

LEMMA PcStepCore ==
    ASSUME Core, NEW r \in Requests, Running(r), NEW pc \in {"create", "rollback"},
           runs' = [runs EXCEPT ![r].pc = pc],
           book' \subseteq Listed, IsFiniteSet(Tracked'), told' \in Histories,
           told'.starts = told.starts, told'.late = told.late, told'.foreign = told.foreign,
           UNCHANGED <<asked, pending, shown, chat, trades, gate, clock>>
    PROVE  Core'
<1>1. runs \in [Requests -> Run]
  BY DEF Core, Types
<1>2. RunBecomes(r, pc, runs[r].leg, runs[r].group, runs[r].by)
  BY <1>1, PcRun, Names
<1> QED
  BY <1>2, RunStepCore DEF RunBecomes

LEMMA LegCore ==
    ASSUME Core, NEW r \in Requests, Leg(r)
    PROVE  Core'
<1>0. Types /\ told \in Histories /\ book \subseteq Listed /\ IsFiniteSet(Tracked) /\ runs[r].leg \in Nat
  BY DEF Core, Types, Run
<1>1. CASE TakeNumber(r)
  <2> DEFINE n == NextGroup(UserOf(r))
  <2>1. n \in Nat /\ told' = Numbered(r, UserOf(r)) /\ runs' = [runs EXCEPT ![r].pc = "leg", ![r].group = n]
    BY <1>0, <1>1, NextGroupIsNew DEF TakeNumber
  <2> HIDE DEF n
  <2>2. RunBecomes(r, "leg", runs[r].leg, n, runs[r].by)
    BY <1>0, <2>1, NumberRun DEF Types
  <2>5. /\ told' \in Histories /\ told'.starts = told.starts
        /\ told'.late = told.late /\ told'.foreign = told.foreign
    BY <1>0, <2>1, NumberedTold
  <2>6. Running(r) /\ UNCHANGED <<asked, pending, shown, chat, book, trades, gate, clock>>
    BY <1>1 DEF TakeNumber, Running
  <2>7. book' \subseteq Listed /\ IsFiniteSet(Tracked')
    BY <1>0, <2>6 DEF Tracked
  <2> QED
    BY <2>2, <2>5, <2>6, <2>7, RunStepCore DEF RunBecomes
<1>2. CASE SkipLeg(r)
  <2>1. Running(r) /\ book' \subseteq Listed /\ IsFiniteSet(Tracked') /\ told' = told
    BY <1>0, <1>2 DEF SkipLeg, Running, At, Tracked
  <2> QED
    BY <1>0, <1>2, <2>1, NextLegCore DEF SkipLeg
<1>3. CASE ReserveLeg(r)
  <2>1. Running(r) /\ book' \subseteq Listed /\ IsFiniteSet(Tracked') /\ told' = told
    BY <1>0, <1>3, ListOrder DEF ReserveLeg, Running, At
  <2> QED
    BY <1>0, <1>3, <2>1, NextLegCore DEF ReserveLeg
<1>4. CASE SendLeg(r)
  <2>1. Running(r) /\ book' \subseteq Listed /\ IsFiniteSet(Tracked') /\ told' = told
    BY <1>0, <1>4 DEF SendLeg, Running, At, Tracked
  <2> QED
    BY <1>0, <1>4, <2>1, PcStepCore DEF SendLeg
<1>5. CASE LegPlaced(r)
  <2>1. Running(r) /\ book' \subseteq Listed /\ IsFiniteSet(Tracked') /\ told' = told
    BY <1>0, <1>5, ListOrder DEF LegPlaced, Running, At
  <2> QED
    BY <1>0, <1>5, <2>1, NextLegCore DEF LegPlaced
<1>6. CASE LegFails(r)
  <2>1. Running(r) /\ NextLeg(r) /\ UNCHANGED <<asked, pending, shown, trades, gate, clock>>
    BY <1>6 DEF LegFails, Running, At
  <2>2. CASE UNCHANGED <<book, told>>
    BY <1>0, <2>1, <2>2, NextLegCore DEF Tracked
  <2>3. CASE /\ book' = book \cup {Order(r, TRUE, FALSE)}
             /\ told' = Faulty([told EXCEPT !.lost = @ \cup {<<r, runs[r].leg>>}])
    <3>1. book' \subseteq Listed /\ IsFiniteSet(Tracked')
      BY <1>0, <2>3, ListOrder
    <3>2. {<<r, runs[r].leg>>} \in SUBSET Legs
      BY <1>0 DEF Legs
    <3> DEFINE h == [told EXCEPT !.lost = @ \cup {<<r, runs[r].leg>>}]
    <3>4. h \in Histories /\ h.starts = told.starts /\ h.late = told.late /\ h.foreign = told.foreign
      BY <1>0, <3>2, LostTold
    <3>5. told' = Faulty(h)
      BY <2>3
    <3> HIDE DEF h
    <3>3. /\ told' \in Histories /\ told'.starts = told.starts
          /\ told'.late = told.late /\ told'.foreign = told.foreign
      BY <1>0, <3>4, <3>5, FaultyTold
    <3> QED
      BY <2>1, <3>1, <3>3, NextLegCore
  <2> QED
    BY <1>6, <2>2, <2>3 DEF LegFails
<1>7. CASE LegUntracked(r)
  <2>1. Running(r) /\ book' \subseteq Listed /\ IsFiniteSet(Tracked')
    BY <1>0, <1>7, ListOrder DEF LegUntracked, Running, At
  <2>2. /\ told' \in Histories /\ told'.starts = told.starts
        /\ told'.late = told.late /\ told'.foreign = told.foreign
    BY <1>0, <1>7, FaultyTold DEF LegUntracked
  <2> QED
    BY <1>7, <2>1, <2>2, PcStepCore DEF LegUntracked
<1>8. CASE RollBack(r)
  <2>1. Running(r) /\ NextLeg(r) /\ UNCHANGED <<asked, pending, shown, trades, gate, clock>> /\ book' \subseteq book
    BY <1>8 DEF RollBack, Running, At
  <2>2. book' \subseteq Listed /\ IsFiniteSet(Tracked')
    BY <1>0, <2>1, UnlistOrders
  <2>3. <<r, runs[r].leg>> \in Legs
    BY <1>0 DEF Legs
  <2>4. /\ told' \in Histories /\ told'.starts = told.starts
        /\ told'.late = told.late /\ told'.foreign = told.foreign
    BY ZenonT(30), <1>0, <1>8, <2>3, AlarmedTold DEF RollBack
  <2> QED
    BY <2>1, <2>2, <2>4, NextLegCore
<1> QED
  BY <1>1, <1>2, <1>3, <1>4, <1>5, <1>6, <1>7, <1>8 DEF Leg

LEMMA OrderOverCore ==
    ASSUME Core, NEW o \in book, OrderOver(o)
    PROVE  Core'
<1>1. Types /\ TokensHold /\ ChatHolds
  BY DEF Core
<1>2. book' \subseteq Listed /\ IsFiniteSet(Tracked')
  BY <1>1, UnlistOrders DEF OrderOver
<1>3. trades' \subseteq Logged /\ IsFiniteSet(trades')
  <2>1. [req |-> o.req, group |-> o.group] \in Logged
    BY <1>1 DEF Types, Listed, Logged
  <2>2. trades' = trades \/ trades' = trades \cup {[req |-> o.req, group |-> o.group]}
    BY DEF OrderOver
  <2>3. trades \subseteq Logged /\ IsFiniteSet(trades)
    BY <1>1 DEF Types
  <2>4. IsFiniteSet(trades \cup {[req |-> o.req, group |-> o.group]})
    BY <2>3, FS_AddElement
  <2> QED
    BY <2>1, <2>2, <2>3, <2>4
<1>4. UNCHANGED <<asked, pending, shown, chat, runs, gate, clock, told>>
  BY DEF OrderOver
<1>5. Types'
  BY <1>1, <1>2, <1>3, <1>4 DEF Types, AskedTypes
<1>6. TokensShrink /\ ChatHolds'
  BY <1>1, <1>4, PendingSame, ChatSame
<1>7. clock \in Nat
  BY <1>1 DEF Types
<1> QED
  BY <1>4, <1>5, <1>6, <1>7, CoreKept

LEMMA MarketOrderCore ==
    ASSUME Core, NEW r \in Requests, MarketOrder(r)
    PROVE  Core'
<1>1. Types /\ TokensHold /\ ChatHolds
  BY DEF Core
<1>2. chat.pc = "price" /\ chat.req = {r} /\ UNCHANGED <<asked, pending, shown, book, trades, clock, told>>
  BY DEF MarketOrder
<1>3. r \in DOMAIN asked /\ runs[r].pc = "idle" /\ told.starts[r] = 1
  BY <1>1, <1>2 DEF ChatHolds
<1>4. clock \in Nat /\ clock' >= clock /\ TokensShrink
  BY <1>1, <1>2, PendingSame DEF Types
<1>5. \A q \in Requests : Running(q) => runs[q].by \notin {"gate", "intent"}
  BY <1>1, <1>2, FreeChat
<1>6. CASE /\ \E read \in ReadGate : ~read.halted /\ gate' = read.gate
           /\ Start(r, "gate")
           /\ chat' = [chat EXCEPT !.pc = "run"]
  <2>1. gate' \in Gate
    BY <1>1, <1>6, ReadGateType
  <2>2. RunBecomes(r, IF ShapeOf(r).family = "manual" THEN "leg" ELSE "number", 1, 0, "gate")
    BY <1>1, <1>6, StartRun DEF Types
  <2>3. runs' \in [Requests -> Run] /\ \A q \in Requests : q # r => runs'[q] = runs[q]
    BY <2>2 DEF RunBecomes
  <2>4. chat'.pc = "run" /\ chat'.req = {r} /\ chat' \in [pc : {"free", "price", "run"}, req : SUBSET Requests]
    BY <1>1, <1>2, <1>6 DEF Types
  <2>5. Types'
    BY <1>1, <1>2, <2>1, <2>3, <2>4 DEF Types, AskedTypes, Tracked
  <2>6. ASSUME NEW q \in Requests, Running(q)', runs'[q].by \in {"gate", "intent"} PROVE q = r
    BY <1>5, <2>3, <2>6 DEF Running
  <2>7. ChatHolds'
    BY <1>2, <1>3, <2>4, <2>6 DEF ChatHolds
  <2>8. \A q \in Requests : (runs[q].pc = "idle" /\ told.starts[q] = 0) => runs'[q].pc = "idle"
    BY <1>3, <2>3
  <2> QED
    BY <1>2, <1>4, <2>5, <2>7, <2>8, CoreKept
<1>7. CASE chat' = Free /\ UNCHANGED <<runs, gate>>
  <2>1. Types'
    BY <1>1, <1>2, <1>7 DEF Types, AskedTypes, Tracked, Free
  <2>2. ChatHolds'
    BY <1>5, <1>7 DEF ChatHolds, Running, Free
  <2> QED
    BY <1>2, <1>4, <1>7, <2>1, <2>2, CoreKept
<1> QED
  BY <1>6, <1>7 DEF MarketOrder

LEMMA RestartCore ==
    ASSUME Core, Restart
    PROVE  Core'
<1>1. Types /\ TokensHold /\ ChatHolds
  BY DEF Core
<1>2. /\ pending' = [s \in Stores |-> Empty] /\ chat' = Free
      /\ gate' = [gate EXCEPT !.cache = {}, !.at = 0] /\ UNCHANGED <<asked, shown, trades, clock>>
  BY DEF Restart
<1>3. PICK sent \in SUBSET {r \in Requests : runs[r].pc = "create"} :
         /\ book' = book \cup {Order(r, TRUE, FALSE) : r \in sent}
         /\ told' = Faulty([told EXCEPT !.lost = @ \cup {<<o.req, o.leg>> :
                      o \in {p \in book' : ~p.tracked /\ <<p.req, p.leg>> \notin told.alarmed}}])
  BY DEF Restart
<1>4. book' \subseteq Listed /\ Tracked' = Tracked
  <2>1. \A r \in sent : Order(r, TRUE, FALSE) \in Listed /\ ~Order(r, TRUE, FALSE).tracked
    BY <1>1, OrderType
  <2>2. \A p \in book' : p \in book \/ (p \in Listed /\ ~p.tracked)
    BY <1>3, <2>1
  <2>3. book \subseteq book'
    BY <1>3
  <2>4. book' \subseteq Listed
    BY <1>1, <2>2 DEF Types
  <2> QED
    BY <2>2, <2>3, <2>4 DEF Tracked
<1> DEFINE gone == {<<o.req, o.leg>> : o \in {p \in book' : ~p.tracked /\ <<p.req, p.leg>> \notin told.alarmed}}
           h == [told EXCEPT !.lost = @ \cup gone]
<1>5. gone \in SUBSET Legs
  <2>1. \A o \in book' : <<o.req, o.leg>> \in Legs
    BY <1>4 DEF Listed, Legs
  <2> QED
    BY <2>1
<1>6. told' = Faulty(h)
  BY <1>3
<1>7. h \in Histories /\ h.starts = told.starts /\ h.late = told.late /\ h.foreign = told.foreign
  <2> HIDE DEF gone
  <2> QED
    BY <1>1, <1>5, LostTold DEF Types
<1> HIDE DEF h
<1>8. /\ told' \in Histories /\ told'.starts = told.starts
      /\ told'.late = told.late /\ told'.foreign = told.foreign
  BY <1>1, <1>6, <1>7, FaultyTold
<1>9. /\ runs' \in [Requests -> Run]
      /\ \A r \in Requests : /\ runs'[r].pc = (IF Running(r) THEN "over" ELSE runs[r].pc)
                             /\ runs'[r].by = runs[r].by
  BY <1>1, RestartRuns DEF Types
<1>10. gate' \in Gate
  BY <1>1, <1>2 DEF Types, Gate
<1>11. Types'
  BY <1>1, <1>2, <1>4, <1>8, <1>9, <1>10 DEF Types, AskedTypes, Free
<1>12. \A r \in Requests : ~Running(r)' /\ (runs[r].pc = "idle" => runs'[r].pc = "idle")
  BY <1>9 DEF Running
<1>13. ChatHolds'
  BY <1>2, <1>12 DEF ChatHolds, Free
<1>14. TokensShrink
  BY <1>2 DEF TokensShrink, Empty
<1>15. clock \in Nat /\ clock' >= clock
  BY <1>1, <1>2 DEF Types
<1> QED
  BY <1>2, <1>8, <1>11, <1>12, <1>13, <1>14, <1>15, CoreKept

LEMMA AskCore ==
    ASSUME Core, NEW r \in Requests, NEW u \in Users, NEW shape \in Shapes, Ask(r, u, shape)
    PROVE  Core'
<1>1. Types /\ ButtonsHold /\ TokensHold /\ StartsHold /\ ChatHolds
  BY DEF Core
<1> DEFINE token == NewToken(shape.store)
<1>2. /\ chat = Free /\ r \notin DOMAIN asked /\ UNCHANGED <<chat, runs, book, trades, clock, told>>
      /\ asked' = Put(asked, r, [user |-> u, shape |-> shape])
      /\ pending' = [pending EXCEPT ![shape.store] = Put(@, token, [req |-> r, at |-> clock])]
      /\ shown' = shown \cup {[store |-> shape.store, token |-> token, req |-> r]}
  BY DEF Ask
<1>3. gate' \in Gate
  BY <1>1, ReadGateType DEF Ask, Types
<1>4. /\ AskedTypes' /\ DOMAIN asked' = DOMAIN asked \cup {r}
      /\ \A q \in DOMAIN asked : ShapeOf(q)' = ShapeOf(q)
      /\ ShapeOf(r)' = shape
  BY <1>1, <1>2, PutAsked DEF Types
<1>5. Types'
  BY <1>1, <1>2, <1>3, <1>4 DEF Types, Tracked
<1>6. shape.store \in Stores
  BY EntryAssumption DEF Stores
<1>7. ButtonsHold'
  BY <1>1, <1>2, <1>4, <1>6 DEF ButtonsHold
<1> HIDE DEF token
<1>8. TokensHold'
  <2>1. DOMAIN pending' = Stores
    BY <1>1, <1>2 DEF TokensHold
  <2>2. ASSUME NEW s \in Stores, NEW t \in DOMAIN pending'[s]
        PROVE  \/ s = shape.store /\ t = token /\ pending'[s][t] = [req |-> r, at |-> clock]
               \/ /\ ~(s = shape.store /\ t = token)
                  /\ t \in DOMAIN pending[s] /\ pending'[s][t] = pending[s][t]
    BY <1>1, <1>2, <2>2 DEF TokensHold, Put
  <2>3. told.starts[r] = 0 /\ clock \in Nat
    BY <1>1, <1>2 DEF StartsHold, Types
  <2>4. \A s \in Stores : \A t \in DOMAIN pending[s] : pending[s][t].req # r
    BY <1>1, <1>2 DEF TokensHold
  <2>5. ASSUME NEW s \in Stores, NEW t \in DOMAIN pending'[s]
        PROVE  /\ pending'[s][t].req \in DOMAIN asked'
               /\ ShapeOf(pending[s][t].req)'.store = s
               /\ told'.starts[pending'[s][t].req] = 0
               /\ pending'[s][t].at \in Nat /\ pending'[s][t].at <= clock'
    <3>1. CASE s = shape.store /\ t = token /\ pending'[s][t] = [req |-> r, at |-> clock]
      BY <1>2, <1>4, <2>3, <3>1 DEF ShapeOf
    <3>2. CASE t \in DOMAIN pending[s] /\ pending'[s][t] = pending[s][t]
      <4>1. /\ pending[s][t].req \in DOMAIN asked /\ ShapeOf(pending[s][t].req).store = s
            /\ told.starts[pending[s][t].req] = 0
            /\ pending[s][t].at \in Nat /\ pending[s][t].at <= clock
        BY <1>1, <3>2 DEF TokensHold
      <4> QED
        BY <1>2, <1>4, <3>2, <4>1 DEF ShapeOf
    <3> QED
      BY <2>2, <2>5, <3>1, <3>2
  <2>6. ASSUME NEW s \in Stores, NEW t \in DOMAIN pending'[s], NEW w \in DOMAIN pending'[s],
               pending'[s][t].req = pending'[s][w].req
        PROVE  t = w
    <3>1. CASE t = token /\ s = shape.store
      BY <2>2, <2>4, <2>6, <3>1
    <3>2. CASE w = token /\ s = shape.store
      BY <2>2, <2>4, <2>6, <3>2
    <3>3. CASE s # shape.store \/ (t # token /\ w # token)
      <4>1. /\ t \in DOMAIN pending[s] /\ pending'[s][t] = pending[s][t]
            /\ w \in DOMAIN pending[s] /\ pending'[s][w] = pending[s][w]
        BY <2>2, <2>6, <3>3
      <4> QED
        BY <1>1, <2>6, <4>1 DEF TokensHold
    <3> QED
      BY <3>1, <3>2, <3>3
  <2> QED
    BY <2>1, <2>5, <2>6 DEF TokensHold
<1>9. StartsHold'
  BY <1>1, <1>2, <1>4 DEF StartsHold
<1>10. ChatHolds'
  <2>1. chat.pc = "free" /\ chat.req = {}
    BY <1>2 DEF Free
  <2>2. \A q \in Requests : ~(Running(q) /\ runs[q].by \in {"gate", "intent"})
    BY <1>1, <2>1 DEF ChatHolds
  <2> QED
    BY <1>2, <2>1, <2>2 DEF ChatHolds, Running
<1> QED
  BY <1>5, <1>7, <1>8, <1>9, <1>10 DEF Core

LEMMA ManagerRunsCore ==
    ASSUME Core, NEW r \in Requests, NEW u \in Users, NEW shape \in Shapes, ManagerRuns(r, u, shape)
    PROVE  Core'
<1>1. Types /\ ButtonsHold /\ TokensHold /\ StartsHold /\ ChatHolds
  BY DEF Core
<1> DEFINE n == NextGroup(u)
<1>2. /\ r \notin DOMAIN asked /\ UNCHANGED <<pending, shown, chat, book, trades, gate, clock>>
      /\ asked' = Put(asked, r, [user |-> u, shape |-> shape])
      /\ runs' = [runs EXCEPT ![r] = [NewRun(r, "leg", "manager") EXCEPT !.group = n]]
      /\ told' = [Numbered(r, u) EXCEPT !.starts[r] = @ + 1]
      /\ n \in Nat
  BY <1>1, NextGroupIsNew DEF ManagerRuns
<1> HIDE DEF n
<1>3. RunBecomes(r, "leg", 1, n, "manager")
  BY <1>1, <1>2, ManagersRun DEF Types
<1>4. /\ runs' \in [Requests -> Run] /\ runs'[r].by = "manager"
      /\ \A q \in Requests : q # r => runs'[q] = runs[q]
  BY <1>3 DEF RunBecomes
<1>5. /\ told' \in Histories /\ told'.starts = [told.starts EXCEPT ![r] = @ + 1]
      /\ told'.late = told.late /\ told'.foreign = told.foreign
  BY <1>1, <1>2, ManagersTold
<1>6. /\ AskedTypes' /\ DOMAIN asked' = DOMAIN asked \cup {r}
      /\ \A q \in DOMAIN asked : UserOf(q)' = UserOf(q) /\ ShapeOf(q)' = ShapeOf(q)
  BY <1>1, <1>2, PutAsked DEF Types
<1>7. Types'
  BY <1>1, <1>2, <1>4, <1>5, <1>6 DEF Types, Tracked
<1>8. ButtonsHold'
  BY <1>1, <1>2, <1>6 DEF ButtonsHold
<1>9. told.starts \in [Requests -> Nat] /\ told.starts[r] = 0 /\ clock \in Nat
  BY <1>1, <1>2 DEF Types, Histories, StartsHold
<1>10. told'.starts[r] = 1 /\ \A q \in Requests : q # r => told'.starts[q] = told.starts[q]
  BY <1>5, <1>9
<1>11. TokensShrink
  <2>1. ASSUME NEW s \in Stores, NEW t \in DOMAIN pending[s]
        PROVE  pending[s][t].req # r /\ pending[s][t].req \in Requests
    BY <1>1, <1>2, <2>1 DEF TokensHold, Types, AskedTypes
  <2> QED
    BY <1>1, <1>2, <1>10, <2>1 DEF TokensHold, TokensShrink
<1>12. AskedKept
  BY <1>6 DEF AskedKept
<1>13. TokensHold'
  BY <1>1, <1>2, <1>9, <1>11, <1>12, TokensStillHold
<1>14. StartsHold'
  BY <1>1, <1>4, <1>5, <1>6, <1>10 DEF StartsHold
<1>15. ChatHolds'
  <2>1. ASSUME NEW q \in Requests, Running(q)', runs'[q].by \in {"gate", "intent"}
        PROVE  chat.pc = "run" /\ chat.req = {q}
    <3>1. q # r /\ Running(q) /\ runs[q].by \in {"gate", "intent"}
      BY <1>4, <2>1 DEF Running
    <3> QED
      BY <1>1, <3>1 DEF ChatHolds
  <2>2. chat.pc # "free" => \E q \in DOMAIN asked' : chat.req = {q}
    BY <1>1, <1>6 DEF ChatHolds
  <2>3. ASSUME chat.pc = "price", NEW q \in chat.req
        PROVE  runs'[q].pc = "idle" /\ AsksPrice(q)' /\ told'.starts[q] = 1
    <3>1. q \in DOMAIN asked /\ runs[q].pc = "idle" /\ AsksPrice(q) /\ told.starts[q] = 1 /\ q \in Requests
      BY <1>1, <2>3 DEF ChatHolds, Types
    <3> QED
      BY <1>2, <1>4, <1>6, <1>10, <3>1 DEF AsksPrice
  <2> QED
    BY <1>1, <1>2, <2>1, <2>2, <2>3 DEF ChatHolds
<1> QED
  BY <1>7, <1>8, <1>13, <1>14, <1>15 DEF Core

LEMMA InitCore == EntryInit => Core
<1> SUFFICES ASSUME EntryInit PROVE Core
  OBVIOUS
<1>1. DOMAIN asked = {} /\ AskedTypes
  BY DEF EntryInit, Empty, AskedTypes
<1>2. runs = [r \in Requests |-> ARun("idle", 1, 0, "none")]
  BY DEF EntryInit, ARun
<1>3. ARun("idle", 1, 0, "none") \in Run /\ ARun("idle", 1, 0, "none").pc = "idle"
  BY ARunType, Names
<1>4. runs \in [Requests -> Run] /\ \A r \in Requests : runs[r].pc = "idle"
  BY <1>2, <1>3
<1>5. /\ told \in Histories /\ told.starts = [r \in Requests |-> 0]
      /\ told.late = {} /\ told.foreign = {}
  BY DEF EntryInit, Histories
<1>6. gate \in Gate
  BY DEF EntryInit, Gate
<1>7. Tracked = {} /\ IsFiniteSet(Tracked) /\ IsFiniteSet(trades)
  BY FS_EmptySet DEF EntryInit, Tracked
<1>8. Types
  BY <1>1, <1>4, <1>5, <1>6, <1>7 DEF EntryInit, Types, Free
<1>9. ButtonsHold /\ TokensHold
  BY DEF EntryInit, ButtonsHold, TokensHold, Empty
<1>10. StartsHold
  BY <1>1, <1>4, <1>5 DEF StartsHold
<1>11. ChatHolds
  BY <1>4 DEF EntryInit, ChatHolds, Running, Free
<1> QED
  BY <1>8, <1>9, <1>10, <1>11 DEF Core

\* Every step keeps the types, the tokens and the chat.
LEMMA NextCore == Core /\ [EntryNext]_entryVars => Core'
<1> SUFFICES ASSUME Core, [EntryNext]_entryVars PROVE Core'
  OBVIOUS
<1>1. ASSUME NEW r \in Requests, NEW u \in Users, NEW shape \in Shapes, Ask(r, u, shape) \/ ManagerRuns(r, u, shape)
      PROVE  Core'
  BY <1>1, AskCore, ManagerRunsCore
<1>2. ASSUME NEW b \in shown, Tap(b) PROVE Core'
  <2>1. CASE TapRuns(b)
    <3>1. gate' \in Gate
      BY <2>1, ReadGateType DEF TapRuns, Core
    <3> QED
      BY <2>1, <3>1, TapRunsCore DEF TapRuns
  <2>2. CASE TapRunsIntent(b)
    <3>1. gate' \in Gate
      BY <2>2 DEF TapRunsIntent, Core, Types
    <3> QED
      BY <2>2, <3>1, TapRunsCore DEF TapRunsIntent
  <2> QED
    BY <1>2, <2>1, <2>2, TapsThatStopCore, TapAsksPriceCore DEF Tap
<1>3. ASSUME NEW r \in Requests, MarketOrder(r) \/ Leg(r) PROVE Core'
  BY <1>3, MarketOrderCore, LegCore
<1>4. ASSUME NEW halted \in BOOLEAN, SetHalt(halted) PROVE Core'
  BY <1>4, SetHaltCore
<1>5. ASSUME NEW o \in book, OrderOver(o) PROVE Core'
  BY <1>5, OrderOverCore
<1>6. CASE Tick \/ Restart
  BY <1>6, TickCore, RestartCore
<1>7. CASE UNCHANGED entryVars
  <2>1. clock \in Nat /\ gate \in Gate
    BY DEF Core, Types
  <2> QED
    BY <1>7, <2>1, GateStepCore DEF entryVars
<1> QED
  BY <1>1, <1>2, <1>3, <1>4, <1>5, <1>6, <1>7 DEF EntryNext

\* A request is run at most once, by the user who made it, before its token expires: popping the
\* token before the run (pop_valid_manual_order, pop_valid_strategy_token, the intents' pop) is
\* enough, whatever buttons are tapped again, numbers given again or memory lost.
THEOREM RequestsRunOnce == EntrySpec => []RunOnceByItsUser
<1>1. Core => RunOnceByItsUser
  BY DEF Core, StartsHold, RunOnceByItsUser
<1> QED
  BY <1>1, InitCore, NextCore, PTL DEF EntrySpec

(***************************************************************************)
(* The halt.                                                               *)
(***************************************************************************)
\* The file knows of the halt; the table and the cache do, when the table was written.
GateHolds ==
    /\ gate.flag = told.halted
    /\ ~told.dbMissed => gate.cache \subseteq {told.halted} /\ gate.db = told.halted

\* A reader of the gate gets what was set last.
LEMMA GateRead ==
    ASSUME Types, GateHolds, NEW read \in ReadGate
    PROVE  /\ ~told.dbMissed => read.halted = told.halted
           /\ read.gate.flag = gate.flag /\ read.gate.db = gate.db
           /\ ~told.dbMissed => read.gate.cache \subseteq {told.halted}
<1>0. gate \in Gate /\ gate.flag \in BOOLEAN /\ told.halted \in BOOLEAN /\ gate.cache \subseteq BOOLEAN
  BY DEF Types, Gate, Histories
<1> DEFINE kept == [halted |-> TRUE \in gate.cache, gate |-> gate]
           found(h) == [halted |-> h, gate |-> [gate EXCEPT !.cache = {h}, !.at = clock]]
<1>1. \/ read = kept /\ (gate.cache # {} \/ ~gate.flag)
      \/ read = found(gate.db)
      \/ read = found(TRUE) /\ gate.flag
  BY DEF ReadGate
<1>2. ASSUME NEW h, read = found(h)
      PROVE  /\ read.halted = h /\ read.gate.flag = gate.flag /\ read.gate.db = gate.db
             /\ read.gate.cache = {h}
  BY <1>0, <1>2 DEF Gate
<1>3. CASE read = kept /\ (gate.cache # {} \/ ~gate.flag)
  <2>1. read.halted = (TRUE \in gate.cache) /\ read.gate = gate
    BY <1>3
  <2>2. ASSUME ~told.dbMissed PROVE (TRUE \in gate.cache) = told.halted
    <3>1. gate.cache \subseteq {told.halted} /\ gate.flag = told.halted
      BY <2>2 DEF GateHolds
    <3>2. CASE told.halted = TRUE
      <4>1. gate.cache # {}
        BY <1>0, <1>3, <3>1, <3>2
      <4>2. TRUE \in gate.cache
        BY <3>1, <3>2, <4>1
      <4> QED
        BY <3>2, <4>2
    <3>3. CASE told.halted = FALSE
      <4>1. TRUE \notin gate.cache
        BY <3>1, <3>3
      <4> DEFINE cached == TRUE \in gate.cache
      <4>2. ~cached
        BY <4>1
      <4>4. cached \in BOOLEAN
        OBVIOUS
      <4> HIDE DEF cached
      <4>3. cached = FALSE
        BY <4>2, <4>4
      <4> QED
        BY <3>3, <4>3 DEF cached
    <3> QED
      BY <1>0, <3>2, <3>3
  <2> QED
    BY <2>1, <2>2 DEF GateHolds
<1>4. CASE read = found(gate.db)
  BY <1>2, <1>4 DEF GateHolds
<1>5. CASE read = found(TRUE) /\ gate.flag
  <2>1. told.halted = TRUE
    BY <1>0, <1>5 DEF GateHolds
  <2> QED
    BY <1>2, <1>5, <2>1
<1> QED
  BY <1>1, <1>3, <1>4, <1>5

\* What every other step does to the gate.
GateUse ==
    /\ told'.halted = told.halted /\ told'.dbMissed = told.dbMissed
    /\ gate' = gate \/ \E read \in ReadGate : gate' = read.gate

LEMMA GateUseHolds ==
    ASSUME Types, GateHolds, GateUse
    PROVE  GateHolds'
<1>1. CASE gate' = gate
  BY <1>1 DEF GateHolds, GateUse
<1>2. ASSUME NEW read \in ReadGate, gate' = read.gate PROVE GateHolds'
  BY <1>2, GateRead DEF GateHolds, GateUse
<1> QED
  BY <1>1, <1>2 DEF GateUse

LEMMA SetHaltGate ==
    ASSUME Types, NEW halted \in BOOLEAN, SetHalt(halted)
    PROVE  GateHolds'
<1>1. PICK stored \in BOOLEAN :
         /\ gate' = [cache |-> {halted}, at |-> clock, flag |-> halted,
                     db |-> IF stored THEN halted ELSE gate.db]
         /\ told' = [told EXCEPT !.halted = halted, !.dbMissed = ~stored,
                                 !.faults = IF stored THEN @ ELSE @ + 1]
  BY DEF SetHalt
<1>2. told'.halted = halted /\ told'.dbMissed = ~stored
  BY <1>1, HaltTold
<1>3. gate'.flag = halted /\ gate'.cache = {halted} /\ (stored => gate'.db = halted)
  BY <1>1
<1> QED
  BY <1>2, <1>3 DEF GateHolds

LEMMA RestartGate ==
    ASSUME Types, Types', GateHolds, Restart
    PROVE  GateHolds'
<1>1. gate'.flag = gate.flag /\ gate'.db = gate.db /\ gate'.cache = {}
  BY DEF Restart, Types, Gate
<1>2. PICK gone : told' = Faulty([told EXCEPT !.lost = @ \cup gone])
  BY DEF Restart
<1>3. told'.halted = told.halted /\ told'.dbMissed = told.dbMissed
  BY <1>2 DEF Types, Histories, Faulty
<1> QED
  BY <1>1, <1>3 DEF GateHolds

LEMMA LegGate ==
    ASSUME Types, NEW r \in Requests, Leg(r)
    PROVE  GateUse
<1>1. gate' = gate
  BY DEF Leg, TakeNumber, SkipLeg, ReserveLeg, SendLeg, LegPlaced, LegFails, LegUntracked, RollBack
<1>2. CASE TakeNumber(r)
  BY <1>1, <1>2, NumberedTold DEF TakeNumber, GateUse
<1>3. \/ TakeNumber(r) \/ told' = told
      \/ \E gone : told' = Faulty([told EXCEPT !.lost = @ \cup gone])
      \/ \E gone : told' = [told EXCEPT !.alarmed = @ \cup gone]
      \/ told' = Faulty(told)
  BY DEF Leg, SkipLeg, ReserveLeg, SendLeg, LegPlaced, LegFails, LegUntracked, RollBack
<1>4. ASSUME NEW gone, told' = Faulty([told EXCEPT !.lost = @ \cup gone]) PROVE GateUse
  BY <1>1, <1>4 DEF Types, Histories, Faulty, GateUse
<1>5. ASSUME NEW gone, told' = [told EXCEPT !.alarmed = @ \cup gone] PROVE GateUse
  BY <1>1, <1>5 DEF Types, Histories, GateUse
<1>6. CASE told' = Faulty(told)
  BY <1>1, <1>6 DEF Types, Histories, Faulty, GateUse
<1> QED
  BY <1>1, <1>2, <1>3, <1>4, <1>5, <1>6 DEF GateUse

\* Every step keeps what the gate remembers.
LEMMA NextGate == Core /\ GateHolds /\ [EntryNext]_entryVars => GateHolds'
<1> SUFFICES ASSUME Core, GateHolds, [EntryNext]_entryVars PROVE GateHolds'
  OBVIOUS
<1>0. Types /\ Types'
  BY NextCore DEF Core
<1>1. ASSUME NEW r \in Requests, NEW u \in Users, NEW shape \in Shapes, Ask(r, u, shape) PROVE GateUse
  BY <1>1 DEF Ask, GateUse
<1>2. ASSUME NEW r \in Requests, NEW u \in Users, NEW shape \in Shapes, ManagerRuns(r, u, shape) PROVE GateUse
  BY <1>0, <1>2, ManagersTold DEF ManagerRuns, GateUse
<1>3. ASSUME NEW b \in shown, Tap(b) PROVE GateUse
  <2>1. CASE TapRefused(b) \/ TapCancel(b) \/ TapStopped(b)
    BY <2>1 DEF TapRefused, TapCancel, TapStopped, GateUse
  <2>2. CASE TapRuns(b) \/ TapRunsIntent(b) \/ TapAsksPrice(b)
    <3>1. Valid(b) /\ told' = Started(b, Entry(b).req)
      BY <2>2 DEF TapRuns, TapRunsIntent, TapAsksPrice
    <3>2. Entry(b).req \in Requests
      BY <3>1, <1>3, ValidTap
    <3>3. told'.halted = told.halted /\ told'.dbMissed = told.dbMissed
      BY <1>0, <3>1, <3>2, StartedTold
    <3>4. gate' = gate \/ \E read \in ReadGate : gate' = read.gate
      BY <2>2 DEF TapRuns, TapRunsIntent, TapAsksPrice
    <3> QED
      BY <3>3, <3>4 DEF GateUse
  <2> QED
    BY <1>3, <2>1, <2>2 DEF Tap
<1>4. ASSUME NEW r \in Requests, MarketOrder(r) PROVE GateUse
  BY <1>4 DEF MarketOrder, GateUse
<1>5. CASE (\E o \in book : OrderOver(o)) \/ Tick \/ UNCHANGED entryVars
  <2>1. gate' = gate /\ told' = told
    BY <1>5 DEF OrderOver, Tick, entryVars
  <2>2. told'.halted = told.halted /\ told'.dbMissed = told.dbMissed
    BY <2>1
  <2> QED
    BY <1>0, <2>1, <2>2, GateUseHolds DEF GateUse
<1>6. CASE \E halted \in BOOLEAN : SetHalt(halted)
  BY <1>0, <1>6, SetHaltGate
<1>7. CASE Restart
  BY <1>0, <1>7, RestartGate
<1>8. CASE GateUse
  BY <1>0, <1>8, GateUseHolds
<1> QED
  BY <1>0, <1>1, <1>2, <1>3, <1>4, <1>5, <1>6, <1>7, <1>8, LegGate DEF EntryNext

\* What is_trading_halted answers is what the administrator set last, whatever of the cache, the
\* table and the flag file is unreadable, stale or lost, unless the table missed the write.
THEOREM TheHaltHolds == EntrySpec => []HaltHolds
<1>1. EntryInit => GateHolds
  BY DEF EntryInit, GateHolds
<1>2. Core /\ GateHolds => HaltHolds
  BY GateRead DEF Core, HaltHolds
<1> QED
  BY <1>1, <1>2, InitCore, NextCore, NextGate, PTL DEF EntrySpec

(***************************************************************************)
(* Every step, as far as runs and orders are concerned.                    *)
(***************************************************************************)
HistoriesSame == told'.twins = told.twins /\ told'.alarmed = told.alarmed /\ told'.lost = told.lost
TwinsAre(r, u) ==
    /\ told'.twins = IF Twins(r, u) = {} THEN told.twins ELSE told.twins \cup Twins(r, u) \cup {r}
    /\ told'.alarmed = told.alarmed /\ told'.lost = told.lost

Still == UNCHANGED <<asked, runs, book, trades>> /\ HistoriesSame

Asks(r) ==
    /\ r \notin DOMAIN asked /\ DOMAIN asked' = DOMAIN asked \cup {r} /\ AskedKept
    /\ UNCHANGED <<runs, book, trades>> /\ HistoriesSame

Begins(r, by) ==
    /\ r \in DOMAIN asked /\ runs[r].pc = "idle" /\ (by = "gate" => MayRun(r))
    /\ \A q \in Requests : Running(q) => runs[q].by \notin {"gate", "intent"}
    /\ RunBecomes(r, IF ShapeOf(r).family = "manual" THEN "leg" ELSE "number", 1, 0, by)
    /\ UNCHANGED <<asked, book, trades>> /\ HistoriesSame

Numbers(r) ==
    /\ runs[r].pc = "number"
    /\ RunBecomes(r, "leg", runs[r].leg, NextGroup(UserOf(r)), runs[r].by)
    /\ UNCHANGED <<asked, book, trades>> /\ TwinsAre(r, UserOf(r))

ManagerBegins(r, u) ==
    /\ r \notin DOMAIN asked /\ DOMAIN asked' = DOMAIN asked \cup {r} /\ AskedKept /\ UserOf(r)' = u
    /\ RunBecomes(r, "leg", 1, NextGroup(u), "manager")
    /\ UNCHANGED <<book, trades>> /\ TwinsAre(r, u)

\* The leg is behind the run, and at most one order of it is on the list.
LegDone(r) ==
    /\ \/ /\ runs[r].leg = ShapeOf(r).legs
          /\ RunBecomes(r, "over", runs[r].leg, runs[r].group, runs[r].by)
       \/ /\ runs[r].leg # ShapeOf(r).legs
          /\ RunBecomes(r, "leg", runs[r].leg + 1, runs[r].group, runs[r].by)
    /\ Tracked' = Tracked \/ \E live \in BOOLEAN : Tracked' = Tracked \cup {Order(r, live, TRUE)}

LegGoesOn(r) ==
    /\ \E pc \in {"create", "rollback"} : RunBecomes(r, pc, runs[r].leg, runs[r].group, runs[r].by)
    /\ Tracked' = Tracked

\* What is new on the list is of the leg the run is at.
NewOnList(r) ==
    \A o \in book' : o \in book \/ (/\ o.req = r /\ o.leg = runs[r].leg /\ o.group = runs[r].group
                                    /\ o.live \/ o.tracked)

LegStep(r) ==
    /\ runs[r].pc \in {"leg", "create", "rollback"}
    /\ LegDone(r) \/ LegGoesOn(r)
    /\ NewOnList(r)
    /\ UNCHANGED <<asked, trades>> /\ told'.twins = told.twins

Stops ==
    /\ runs' \in [Requests -> Run]
    /\ \A r \in Requests :
         /\ runs'[r].pc = (IF Running(r) THEN "over" ELSE runs[r].pc)
         /\ runs'[r].leg = runs[r].leg /\ runs'[r].group = runs[r].group /\ runs'[r].by = runs[r].by
    /\ Tracked' = Tracked
    /\ \A o \in book' : o \in book \/ (/\ o.req \in Requests /\ runs[o.req].pc = "create" /\ o.live
                                       /\ o.group = runs[o.req].group)
    /\ UNCHANGED <<asked, trades>> /\ told'.twins = told.twins

LEMMA BeginsOf ==
    ASSUME Core, NEW r \in DOMAIN asked, NEW by \in {"gate", "intent"}, runs[r].pc = "idle", chat.pc # "run",
           by = "gate" => MayRun(r), Start(r, by), UNCHANGED <<asked, book, trades>>, HistoriesSame
    PROVE  Begins(r, by)
<1>1. runs \in [Requests -> Run] /\ r \in Requests
  BY DEF Core, Types, AskedTypes
<1>2. RunBecomes(r, IF ShapeOf(r).family = "manual" THEN "leg" ELSE "number", 1, 0, by)
  BY <1>1, StartRun
<1>3. \A q \in Requests : Running(q) => runs[q].by \notin {"gate", "intent"}
  BY FreeChat DEF Core
<1> QED
  BY <1>2, <1>3 DEF Begins

LEMMA TapStep ==
    ASSUME Core, NEW b \in shown, Tap(b)
    PROVE  Still \/ \E r \in DOMAIN asked, by \in {"gate", "intent"} : Begins(r, by)
<1>1. CASE TapRefused(b) \/ TapCancel(b) \/ TapStopped(b)
  <2>1. UNCHANGED <<asked, runs, book, trades>> /\ told' = told
    BY <1>1 DEF TapRefused, TapCancel, TapStopped
  <2> QED
    BY <2>1 DEF Still, HistoriesSame
<1>2. CASE TapRuns(b) \/ TapRunsIntent(b) \/ TapAsksPrice(b)
  <2> DEFINE r == Entry(b).req
  <2>1. Valid(b) /\ told' = Started(b, r) /\ UNCHANGED <<asked, book, trades>>
    BY <1>2 DEF TapRuns, TapRunsIntent, TapAsksPrice
  <2>2. /\ r \in DOMAIN asked /\ r \in Requests /\ runs[r].pc = "idle" /\ chat.pc # "run"
    BY <2>1, ValidTap DEF Free
  <2>3. HistoriesSame
    BY <2>1, <2>2, StartedTold DEF HistoriesSame, Core
  <2>4. CASE TapAsksPrice(b)
    BY <2>1, <2>3, <2>4 DEF TapAsksPrice, Still
  <2>5. CASE TapRuns(b)
    <3>1. MayRun(r) /\ Start(r, "gate")
      BY <2>5 DEF TapRuns
    <3>2. Begins(r, "gate")
      BY <2>1, <2>2, <2>3, <3>1, BeginsOf
    <3> QED
      BY <2>2, <3>2
  <2>6. CASE TapRunsIntent(b)
    <3>1. Start(r, "intent")
      BY <2>6 DEF TapRunsIntent
    <3>2. Begins(r, "intent")
      BY <2>1, <2>2, <2>3, <3>1, BeginsOf
    <3> QED
      BY <2>2, <3>2
  <2> QED
    BY <1>2, <2>4, <2>5, <2>6
<1> QED
  BY <1>1, <1>2 DEF Tap

LEMMA MarketStep ==
    ASSUME Core, NEW r \in Requests, MarketOrder(r)
    PROVE  Still \/ (r \in DOMAIN asked /\ Begins(r, "gate"))
<1>1. chat.pc = "price" /\ chat.req = {r} /\ UNCHANGED <<asked, book, trades>> /\ told' = told
  BY DEF MarketOrder
<1>2. r \in DOMAIN asked /\ runs[r].pc = "idle" /\ HistoriesSame
  BY <1>1 DEF Core, ChatHolds, HistoriesSame
<1>3. CASE MayRun(r) /\ Start(r, "gate")
  BY <1>1, <1>2, <1>3, BeginsOf
<1>4. CASE UNCHANGED runs
  BY <1>1, <1>2, <1>4 DEF Still
<1> QED
  BY <1>3, <1>4 DEF MarketOrder

LEMMA LegDoneOf ==
    ASSUME Core, NEW r \in Requests, NextLeg(r),
           Tracked' = Tracked \/ \E live \in BOOLEAN : Tracked' = Tracked \cup {Order(r, live, TRUE)}
    PROVE  LegDone(r)
<1>1. runs \in [Requests -> Run]
  BY DEF Core, Types
<1> QED
  BY <1>1, NextLegRun DEF LegDone

LEMMA NewOrder ==
    ASSUME Core, NEW r \in Requests, NEW live \in BOOLEAN, NEW tracked \in BOOLEAN, live \/ tracked,
           book' = book \cup {Order(r, live, tracked)}
    PROVE  NewOnList(r)
<1>1. /\ Order(r, live, tracked).req = r /\ Order(r, live, tracked).leg = runs[r].leg
      /\ Order(r, live, tracked).group = runs[r].group
      /\ Order(r, live, tracked).live = live /\ Order(r, live, tracked).tracked = tracked
  BY OrderType DEF Core
<1> QED
  BY <1>1 DEF NewOnList

LEMMA LegIsStep ==
    ASSUME Core, NEW r \in Requests, Leg(r)
    PROVE  Numbers(r) \/ LegStep(r)
<1>0. Types /\ runs \in [Requests -> Run] /\ told \in Histories /\ runs[r].leg \in Nat
  BY DEF Core, Types, Run
<1>1. CASE TakeNumber(r)
  <2>1. NextGroup(UserOf(r)) \in Nat
    BY <1>0, NextGroupIsNew
  <2>2. RunBecomes(r, "leg", runs[r].leg, NextGroup(UserOf(r)), runs[r].by)
    BY <1>0, <1>1, <2>1, NumberRun DEF TakeNumber
  <2>3. TwinsAre(r, UserOf(r))
    BY <1>0, <1>1, NumberedTold DEF TakeNumber, TwinsAre
  <2> QED
    BY <1>1, <2>2, <2>3 DEF TakeNumber, Numbers
<1>2. CASE SkipLeg(r)
  <2>1. Tracked' = Tracked /\ NewOnList(r)
    BY <1>2 DEF SkipLeg, Tracked, NewOnList
  <2>2. LegDone(r)
    BY <1>2, <2>1, LegDoneOf DEF SkipLeg
  <2> QED
    BY <1>2, <2>1, <2>2 DEF SkipLeg, LegStep, At
<1>3. CASE ReserveLeg(r)
  <2>1. book' = book \cup {Order(r, FALSE, TRUE)}
    BY <1>3 DEF ReserveLeg
  <2>2. Tracked' = Tracked \cup {Order(r, FALSE, TRUE)} /\ NewOnList(r)
    BY <1>0, <2>1, ListOrder, NewOrder
  <2>3. LegDone(r)
    BY <1>3, <2>2, LegDoneOf DEF ReserveLeg
  <2> QED
    BY <1>3, <2>2, <2>3 DEF ReserveLeg, LegStep, At
<1>4. CASE SendLeg(r)
  <2>1. RunBecomes(r, "create", runs[r].leg, runs[r].group, runs[r].by)
    BY <1>0, <1>4, PcRun, Names DEF SendLeg
  <2>2. Tracked' = Tracked /\ NewOnList(r)
    BY <1>4 DEF SendLeg, Tracked, NewOnList
  <2> QED
    BY <1>4, <2>1, <2>2 DEF SendLeg, LegStep, LegGoesOn, At
<1>5. CASE LegPlaced(r)
  <2>1. book' = book \cup {Order(r, TRUE, TRUE)}
    BY <1>5 DEF LegPlaced
  <2>2. Tracked' = Tracked \cup {Order(r, TRUE, TRUE)} /\ NewOnList(r)
    BY <1>0, <2>1, ListOrder, NewOrder
  <2>3. LegDone(r)
    BY <1>5, <2>2, LegDoneOf DEF LegPlaced
  <2> QED
    BY <1>5, <2>2, <2>3 DEF LegPlaced, LegStep, At
<1>6. CASE LegFails(r)
  <2>0. told'.twins = told.twins
    BY <1>0, <1>6 DEF LegFails, Faulty, Histories
  <2>1. CASE book' = book
    <3>1. Tracked' = Tracked /\ NewOnList(r)
      BY <2>1 DEF Tracked, NewOnList
    <3>2. LegDone(r)
      BY <1>6, <3>1, LegDoneOf DEF LegFails
    <3> QED
      BY <1>6, <2>0, <3>1, <3>2 DEF LegFails, LegStep, At
  <2>2. CASE book' = book \cup {Order(r, TRUE, FALSE)}
    <3>1. Tracked' = Tracked /\ NewOnList(r)
      BY <1>0, <2>2, ListOrder, NewOrder
    <3>2. LegDone(r)
      BY <1>6, <3>1, LegDoneOf DEF LegFails
    <3> QED
      BY <1>6, <2>0, <3>1, <3>2 DEF LegFails, LegStep, At
  <2> QED
    BY <1>6, <2>1, <2>2 DEF LegFails
<1>7. CASE LegUntracked(r)
  <2>1. RunBecomes(r, "rollback", runs[r].leg, runs[r].group, runs[r].by)
    BY <1>0, <1>7, PcRun, Names DEF LegUntracked
  <2>2. Tracked' = Tracked /\ NewOnList(r)
    BY <1>0, <1>7, ListOrder, NewOrder DEF LegUntracked
  <2>3. told'.twins = told.twins
    BY <1>0, <1>7 DEF LegUntracked, Faulty, Histories
  <2> QED
    BY <1>7, <2>1, <2>2, <2>3 DEF LegUntracked, LegStep, LegGoesOn, At
<1>8. CASE RollBack(r)
  <2>0. told'.twins = told.twins
    BY <1>0, <1>8 DEF RollBack, Histories
  <2>1. book' \subseteq book /\ NewOnList(r)
    BY <1>8 DEF RollBack, NewOnList
  <2>2. ~Order(r, TRUE, FALSE).tracked
    BY <1>0, OrderType
  <2>3. Tracked' = Tracked
    BY <1>8, <2>2 DEF RollBack, Tracked
  <2>4. LegDone(r)
    BY <1>8, <2>3, LegDoneOf DEF RollBack
  <2> QED
    BY <1>8, <2>0, <2>1, <2>4 DEF RollBack, LegStep, At
<1> QED
  BY <1>1, <1>2, <1>3, <1>4, <1>5, <1>6, <1>7, <1>8 DEF Leg

LEMMA RestartStops ==
    ASSUME Core, Restart
    PROVE  Stops
<1>1. Types
  BY DEF Core
<1>2. PICK sent \in SUBSET {r \in Requests : runs[r].pc = "create"} :
         book' = book \cup {Order(r, TRUE, FALSE) : r \in sent}
  BY DEF Restart
<1>3. PICK gone : told' = Faulty([told EXCEPT !.lost = @ \cup gone])
  BY DEF Restart
<1>4. told'.twins = told.twins
  BY <1>1, <1>3 DEF Types, Histories, Faulty
<1>5. ASSUME NEW r \in sent, NEW o, o = Order(r, TRUE, FALSE)
      PROVE  o.req \in Requests /\ runs[o.req].pc = "create" /\ o.live /\ ~o.tracked /\ o.group = runs[o.req].group
  BY ZenonT(30), <1>1, <1>5, OrderType
<1>6. \A o \in book' : o \in book \/ (/\ o.req \in Requests /\ runs[o.req].pc = "create" /\ o.live /\ ~o.tracked
                                      /\ o.group = runs[o.req].group)
  <2> SUFFICES ASSUME NEW o \in book', o \notin book
               PROVE  /\ o.req \in Requests /\ runs[o.req].pc = "create" /\ o.live /\ ~o.tracked
                      /\ o.group = runs[o.req].group
    OBVIOUS
  <2>1. PICK r \in sent : o = Order(r, TRUE, FALSE)
    BY <1>2
  <2> QED
    BY <1>5, <2>1
<1>7. Tracked' = Tracked
  <2>1. book \subseteq book'
    BY <1>2
  <2> QED
    BY <1>6, <2>1 DEF Tracked
<1>8. runs \in [Requests -> Run] /\ UNCHANGED <<asked, trades>>
  BY <1>1 DEF Types, Restart
<1> QED
  BY <1>4, <1>6, <1>7, <1>8, RestartRuns DEF Stops

LEMMA EntrySteps ==
    ASSUME Core, [EntryNext]_entryVars
    PROVE  \/ Still \/ Restart
           \/ \E r \in Requests : Asks(r) \/ Leg(r) \/ \E u \in Users : ManagerBegins(r, u)
           \/ \E r \in DOMAIN asked, by \in {"gate", "intent"} : Begins(r, by)
           \/ \E o \in book : OrderOver(o)
<1>0. Types /\ runs \in [Requests -> Run]
  BY DEF Core, Types
<1>1. ASSUME NEW r \in Requests, NEW u \in Users, NEW shape \in Shapes, Ask(r, u, shape)
      PROVE  Asks(r)
  <2>1. /\ r \notin DOMAIN asked /\ asked' = Put(asked, r, [user |-> u, shape |-> shape])
        /\ UNCHANGED <<runs, book, trades>> /\ told' = told
    BY <1>1 DEF Ask
  <2>2. DOMAIN asked' = DOMAIN asked \cup {r} /\ AskedKept
    BY <1>0, <2>1, PutAsked DEF Types, AskedKept
  <2> QED
    BY <2>1, <2>2 DEF Asks, HistoriesSame
<1>2. ASSUME NEW r \in Requests, NEW u \in Users, NEW shape \in Shapes, ManagerRuns(r, u, shape)
      PROVE  ManagerBegins(r, u)
  <2>1. /\ r \notin DOMAIN asked /\ asked' = Put(asked, r, [user |-> u, shape |-> shape])
        /\ UNCHANGED <<book, trades>> /\ told' = [Numbered(r, u) EXCEPT !.starts[r] = @ + 1]
        /\ runs' = [runs EXCEPT ![r] = [NewRun(r, "leg", "manager") EXCEPT !.group = NextGroup(u)]]
    BY <1>2 DEF ManagerRuns
  <2>2. DOMAIN asked' = DOMAIN asked \cup {r} /\ AskedKept /\ UserOf(r)' = u
    BY <1>0, <2>1, PutAsked DEF Types, AskedKept
  <2>3. RunBecomes(r, "leg", 1, NextGroup(u), "manager")
    BY <1>0, <2>1, NextGroupIsNew, ManagersRun
  <2>4. TwinsAre(r, u)
    BY <1>0, <2>1, ManagersTold DEF TwinsAre
  <2> QED
    BY <2>1, <2>2, <2>3, <2>4 DEF ManagerBegins
<1>3. CASE (\E halted \in BOOLEAN : SetHalt(halted)) \/ Tick \/ UNCHANGED entryVars
  <2>1. UNCHANGED <<asked, runs, book, trades>>
    BY <1>3 DEF SetHalt, Tick, entryVars
  <2>2. HistoriesSame
    <3>1. CASE told' = told
      BY <3>1 DEF HistoriesSame
    <3>2. ASSUME NEW halted \in BOOLEAN, SetHalt(halted) PROVE HistoriesSame
      <4>1. PICK stored \in BOOLEAN :
               told' = [told EXCEPT !.halted = halted, !.dbMissed = ~stored,
                                    !.faults = IF stored THEN @ ELSE @ + 1]
        BY <3>2 DEF SetHalt
      <4> QED
        BY <1>0, <4>1, HaltTold DEF HistoriesSame
    <3> QED
      BY <1>3, <3>1, <3>2 DEF Tick, entryVars
  <2> QED
    BY <2>1, <2>2 DEF Still
<1> QED
  BY <1>1, <1>2, <1>3, TapStep, MarketStep DEF EntryNext

\* What a step does to runs and orders is one of seven things; the proofs below go by these.
LEMMA Steps ==
    ASSUME Core, [EntryNext]_entryVars
    PROVE  \/ Still \/ Stops
           \/ \E r \in Requests : Asks(r) \/ Numbers(r) \/ LegStep(r) \/ \E u \in Users : ManagerBegins(r, u)
           \/ \E r \in DOMAIN asked, by \in {"gate", "intent"} : Begins(r, by)
           \/ \E o \in book : OrderOver(o)
BY EntrySteps, LegIsStep, RestartStops

(***************************************************************************)
(* Orders and trades are of runs that have their number.                   *)
(***************************************************************************)
RunsHold ==
    /\ \A r \in Requests : runs[r].pc = "idle" => runs[r].by = "none"
    /\ \A r \in Requests : Running(r) => runs[r].leg \in 1..ShapeOf(r).legs

OfRun(o) == o.req \in DOMAIN asked /\ runs[o.req].pc \notin {"idle", "number"} /\ o.group = runs[o.req].group

ItemsHold ==
    /\ \A o \in book : OfRun(o) /\ (o.live \/ o.tracked)
    /\ \A t \in trades : OfRun(t)

Lists == RunsHold /\ ItemsHold

LEMMA AskedIdle ==
    ASSUME Core, NEW r \in Requests, runs[r].pc # "idle"
    PROVE  r \in DOMAIN asked
BY DEF Core, StartsHold

LEMMA LegsOfShape ==
    ASSUME Core, NEW r \in DOMAIN asked
    PROVE  r \in Requests /\ ShapeOf(r) \in Shapes /\ ShapeOf(r).legs \in Nat /\ ShapeOf(r).legs >= 1
<1>1. r \in Requests /\ ShapeOf(r) \in Shapes
  BY DEF Core, Types, AskedTypes, ShapeOf
<1> QED
  BY <1>1, EntryAssumption

\* While runs only go on, the orders and trades there are stay theirs.
LEMMA OfRunKept ==
    ASSUME Core, AskedKept, NEW o, OfRun(o), runs'[o.req].pc \notin {"idle", "number"},
           runs'[o.req].group = runs[o.req].group
    PROVE  OfRun(o)'
BY DEF OfRun, AskedKept

LEMMA StillLists == ASSUME Lists, Still PROVE Lists'
BY DEF Lists, RunsHold, ItemsHold, OfRun, Running, ShapeOf, Still

LEMMA AsksLists ==
    ASSUME Core, Lists, NEW r \in Requests, Asks(r)
    PROVE  Lists'
<1>1. AskedKept /\ UNCHANGED <<runs, book, trades>>
  BY DEF Asks
<1>2. RunsHold'
  <2>1. ASSUME NEW q \in Requests, Running(q) PROVE ShapeOf(q)' = ShapeOf(q)
    BY <1>1, <2>1, AskedIdle DEF AskedKept, Running
  <2> QED
    BY <1>1, <2>1 DEF Lists, RunsHold, Running
<1>3. ItemsHold'
  BY <1>1 DEF Lists, ItemsHold, OfRun, AskedKept
<1> QED
  BY <1>2, <1>3 DEF Lists

LEMMA BeginsLists ==
    ASSUME Core, Lists, NEW r \in DOMAIN asked, NEW by \in {"gate", "intent"}, Begins(r, by)
    PROVE  Lists'
<1>1. /\ runs[r].pc = "idle" /\ runs'[r].pc \in {"leg", "number"} /\ runs'[r].leg = 1
      /\ \A q \in Requests : q # r => runs'[q] = runs[q]
      /\ UNCHANGED <<asked, book, trades>>
  BY DEF Begins, RunBecomes
<1>2. RunsHold'
  BY <1>1, LegsOfShape DEF Lists, RunsHold, Running, ShapeOf
<1>3. ASSUME NEW o, OfRun(o) PROVE OfRun(o)'
  BY <1>1, <1>3, LegsOfShape DEF OfRun
<1> QED
  BY <1>1, <1>2, <1>3 DEF Lists, ItemsHold

LEMMA NumbersLists ==
    ASSUME Core, Lists, NEW r \in Requests, Numbers(r)
    PROVE  Lists'
<1>1. /\ runs[r].pc = "number" /\ runs'[r].pc = "leg" /\ runs'[r].leg = runs[r].leg
      /\ \A q \in Requests : q # r => runs'[q] = runs[q]
      /\ UNCHANGED <<asked, book, trades>>
  BY DEF Numbers, RunBecomes
<1>2. RunsHold'
  BY <1>1 DEF Lists, RunsHold, Running, ShapeOf
<1>3. ASSUME NEW o, OfRun(o) PROVE OfRun(o)'
  BY <1>1, <1>3, LegsOfShape DEF OfRun
<1> QED
  BY <1>1, <1>2, <1>3 DEF Lists, ItemsHold

LEMMA ManagerLists ==
    ASSUME Core, Lists, NEW r \in Requests, NEW u, ManagerBegins(r, u), Core'
    PROVE  Lists'
<1>1. /\ r \notin DOMAIN asked /\ r \in DOMAIN asked' /\ AskedKept
      /\ runs'[r].pc = "leg" /\ runs'[r].leg = 1
      /\ \A q \in Requests : q # r => runs'[q] = runs[q]
      /\ UNCHANGED <<book, trades>>
  BY DEF ManagerBegins, RunBecomes
<1>2. RunsHold'
  <2>1. ASSUME NEW q \in Requests, q # r, Running(q) PROVE ShapeOf(q)' = ShapeOf(q)
    BY <1>1, <2>1, AskedIdle DEF AskedKept, Running
  <2>2. ShapeOf(r)'.legs \in Nat /\ ShapeOf(r)'.legs >= 1
    <3>1. asked'[r].shape \in Shapes
      BY <1>1 DEF Core, Types, AskedTypes
    <3> QED
      BY <3>1, EntryAssumption DEF ShapeOf
  <2>3. \A q \in Requests : Running(q)' => runs'[q].leg \in 1..ShapeOf(q)'.legs
    BY <1>1, <2>1, <2>2 DEF Lists, RunsHold, Running
  <2> QED
    BY <1>1, <2>3 DEF Lists, RunsHold
<1>3. ASSUME NEW o, OfRun(o) PROVE OfRun(o)'
  BY <1>1, <1>3, LegsOfShape DEF OfRun, AskedKept
<1> QED
  BY <1>1, <1>2, <1>3 DEF Lists, ItemsHold

\* What a step of a leg leaves of the run.
LEMMA LegRun ==
    ASSUME Core, Lists, NEW r \in Requests, LegStep(r)
    PROVE  /\ Running(r) /\ r \in DOMAIN asked /\ runs[r].pc \notin {"idle", "number"}
           /\ runs[r].leg \in 1..ShapeOf(r).legs
           /\ runs'[r].pc \in {"leg", "create", "rollback", "over"}
           /\ runs'[r].group = runs[r].group /\ runs'[r].by = runs[r].by
           /\ runs'[r].pc # "over" => runs'[r].leg \in 1..ShapeOf(r).legs
           /\ \A q \in Requests : q # r => runs'[q] = runs[q]
           /\ UNCHANGED <<asked, trades>>
<1>1. Running(r) /\ runs[r].pc \notin {"idle", "number"} /\ UNCHANGED <<asked, trades>>
  BY DEF LegStep, Running
<1>2. r \in DOMAIN asked /\ runs[r].leg \in 1..ShapeOf(r).legs
  BY <1>1, AskedIdle DEF Lists, RunsHold
<1>3. ShapeOf(r).legs \in Nat
  BY <1>2, LegsOfShape
<1>4. CASE LegDone(r)
  BY <1>1, <1>2, <1>3, <1>4 DEF LegDone, RunBecomes
<1>5. CASE LegGoesOn(r)
  BY <1>1, <1>2, <1>3, <1>5 DEF LegGoesOn, RunBecomes
<1> QED
  BY <1>4, <1>5 DEF LegStep

LEMMA LegLists ==
    ASSUME Core, Lists, NEW r \in Requests, LegStep(r)
    PROVE  Lists'
<1>1. /\ r \in DOMAIN asked
      /\ runs'[r].pc \notin {"idle", "number"} /\ runs'[r].group = runs[r].group
      /\ Running(r)' => runs'[r].leg \in 1..ShapeOf(r).legs
      /\ \A q \in Requests : q # r => runs'[q] = runs[q]
      /\ UNCHANGED <<asked, trades>>
  BY LegRun DEF Running
<1>2. RunsHold'
  BY <1>1 DEF Lists, RunsHold, Running, ShapeOf
<1>3. ASSUME NEW o, OfRun(o) PROVE OfRun(o)'
  BY <1>1, <1>3, LegsOfShape DEF OfRun
<1>4. ASSUME NEW o \in book' PROVE OfRun(o)' /\ (o.live \/ o.tracked)
  <2>1. CASE o \in book
    BY <1>3, <2>1 DEF Lists, ItemsHold
  <2>2. CASE o.req = r /\ o.group = runs[r].group /\ (o.live \/ o.tracked)
    BY <1>1, <2>2 DEF OfRun
  <2> QED
    BY <1>4, <2>1, <2>2 DEF LegStep, NewOnList
<1> QED
  BY <1>1, <1>2, <1>3, <1>4 DEF Lists, ItemsHold

LEMMA OverLists ==
    ASSUME Lists, NEW o \in book, OrderOver(o)
    PROVE  Lists'
<1>1. /\ book' \subseteq book
      /\ \A t \in trades' : t \in trades \/ t = [req |-> o.req, group |-> o.group]
      /\ UNCHANGED <<asked, runs>>
  BY DEF OrderOver
<1>2. RunsHold'
  BY <1>1 DEF Lists, RunsHold, Running, ShapeOf
<1>3. ASSUME NEW p, OfRun(p) PROVE OfRun(p)'
  BY <1>1, <1>3 DEF OfRun
<1>4. OfRun([req |-> o.req, group |-> o.group])
  BY DEF Lists, ItemsHold, OfRun
<1> QED
  BY <1>1, <1>2, <1>3, <1>4 DEF Lists, ItemsHold

LEMMA StopsLists ==
    ASSUME Core, Lists, Stops
    PROVE  Lists'
<1>1. /\ \A r \in Requests :
           /\ runs'[r].pc = (IF Running(r) THEN "over" ELSE runs[r].pc)
           /\ runs'[r].group = runs[r].group /\ runs'[r].by = runs[r].by
      /\ UNCHANGED <<asked, trades>>
  BY DEF Stops
<1>2. RunsHold'
  BY <1>1 DEF Lists, RunsHold, Running
<1>3. ASSUME NEW o, OfRun(o) PROVE OfRun(o)'
  <2>1. o.req \in Requests
    BY <1>3, LegsOfShape DEF OfRun
  <2> QED
    BY <1>1, <1>3, <2>1 DEF OfRun, Running
<1>4. ASSUME NEW o \in book' PROVE OfRun(o)' /\ (o.live \/ o.tracked)
  <2>1. CASE o \in book
    BY <1>3, <2>1 DEF Lists, ItemsHold
  <2>2. CASE o.req \in Requests /\ runs[o.req].pc = "create" /\ o.live /\ o.group = runs[o.req].group
    <3>1. OfRun(o)
      BY <2>2, AskedIdle DEF OfRun
    <3> QED
      BY <1>3, <2>2, <3>1
  <2> QED
    BY <1>4, <2>1, <2>2 DEF Stops
<1> QED
  BY <1>1, <1>2, <1>3, <1>4 DEF Lists, ItemsHold

\* Every step keeps orders and trades with their runs.
LEMMA NextLists == Core /\ Lists /\ [EntryNext]_entryVars => Lists'
<1> SUFFICES ASSUME Core, Lists, [EntryNext]_entryVars PROVE Lists'
  OBVIOUS
<1>1. Core'
  BY NextCore
<1> QED
  BY <1>1, Steps, StillLists, StopsLists, AsksLists, NumbersLists, LegLists, ManagerLists, BeginsLists, OverLists

LEMMA InitLists == EntryInit => Lists
BY DEF EntryInit, Lists, RunsHold, ItemsHold, Running

\* What the variables hold: tokens and the chat name requests that were made, and every order
\* of the list is of one, whose run goes through the steps of order_execution.
THEOREM EntryTypes == EntrySpec => []EntryTypeOK
<1>1. Core /\ Lists => EntryTypeOK
  <2> SUFFICES ASSUME Core, Lists PROVE EntryTypeOK
    OBVIOUS
  <2>1. /\ DOMAIN asked \subseteq Requests
        /\ \A r \in DOMAIN asked : asked[r] \in [user : Users, shape : Shapes]
    BY DEF Core, Types, AskedTypes
  <2>2. \A s \in Stores : \A t \in DOMAIN pending[s] :
          pending[s][t].req \in DOMAIN asked /\ pending[s][t].at <= clock
    BY DEF Core, TokensHold
  <2>3. chat.pc \in {"free", "price", "run"} /\ chat.req \subseteq DOMAIN asked
    BY DEF Core, Types, ChatHolds
  <2>4. \A r \in Requests : runs[r].pc \in {"idle", "number", "leg", "create", "rollback", "over"}
    BY DEF Core, Types, Run, Pcs
  <2>5. \A o \in book : o.req \in DOMAIN asked /\ (o.live \/ o.tracked)
    BY DEF Lists, ItemsHold, OfRun
  <2> QED
    BY <2>1, <2>2, <2>3, <2>4, <2>5 DEF EntryTypeOK
<1> QED
  BY <1>1, InitCore, InitLists, NextCore, NextLists, PTL DEF EntrySpec

(***************************************************************************)
(* Orders that are live and not tracked.                                   *)
(***************************************************************************)
Reported(o) ==
    \/ <<o.req, o.leg>> \in told.alarmed \cup told.lost
    \/ At(o.req, "rollback") /\ runs[o.req].leg = o.leg

Orphan(o) == o.live /\ ~o.tracked

\* A step that changes neither the orders nor the runs that have some.
LEMMA OrphansKept ==
    ASSUME OrphansAreReported, book' = book, told'.alarmed = told.alarmed, told'.lost = told.lost,
           \A o \in book : runs'[o.req] = runs[o.req]
    PROVE  OrphansAreReported'
<1> SUFFICES ASSUME NEW o \in book, Orphan(o) PROVE Reported(o)'
  BY DEF OrphansAreReported, Reported, Orphan
<1>1. Reported(o) /\ runs'[o.req] = runs[o.req]
  BY DEF OrphansAreReported, Reported, Orphan
<1> QED
  BY <1>1 DEF Reported, At

\* An orphan that is new, or that r was taking back, is reported or r is at it.
LegReported(r) ==
    /\ told.alarmed \subseteq told'.alarmed /\ told.lost \subseteq told'.lost
    /\ \A o \in book' : Orphan(o) /\ (o \in book => At(r, "rollback") /\ o = Order(r, TRUE, FALSE)) =>
         /\ o.req = r /\ o.leg = runs[r].leg
         /\ \/ <<r, runs[r].leg>> \in told'.alarmed \cup told'.lost
            \/ runs'[r].pc = "rollback" /\ runs'[r].leg = runs[r].leg

LEMMA LegReports ==
    ASSUME Core, NEW r \in Requests, Leg(r)
    PROVE  LegReported(r)
<1>0. Types /\ told \in Histories /\ runs \in [Requests -> Run] /\ runs[r].leg \in Nat
  BY DEF Core, Types, Run
<1>1. \A live \in BOOLEAN, tracked \in BOOLEAN :
        /\ Order(r, live, tracked).req = r /\ Order(r, live, tracked).leg = runs[r].leg
        /\ Order(r, live, tracked).tracked = tracked
  BY <1>0, OrderType
<1>2. CASE TakeNumber(r)
  <2>1. told' = Numbered(r, UserOf(r)) /\ book' = book /\ runs[r].pc = "number"
    BY <1>2 DEF TakeNumber
  <2>2. told'.alarmed = told.alarmed /\ told'.lost = told.lost
    BY <1>0, <2>1, NumberedTold
  <2> QED
    BY <2>1, <2>2 DEF LegReported, At
<1>3. CASE SkipLeg(r) \/ ReserveLeg(r) \/ SendLeg(r) \/ LegPlaced(r)
  <2>1. told' = told /\ ~At(r, "rollback")
    BY <1>3 DEF SkipLeg, ReserveLeg, SendLeg, LegPlaced, At
  <2>2. \A o \in book' : o \in book \/ o.tracked
    BY <1>1, <1>3 DEF SkipLeg, ReserveLeg, SendLeg, LegPlaced
  <2> QED
    BY <2>1, <2>2 DEF LegReported, Orphan
<1>4. CASE LegFails(r)
  <2>0. ~At(r, "rollback")
    BY <1>4 DEF LegFails, At
  <2>1. CASE UNCHANGED <<book, told>>
    BY <2>0, <2>1 DEF LegReported
  <2>2. CASE /\ book' = book \cup {Order(r, TRUE, FALSE)}
             /\ told' = Faulty([told EXCEPT !.lost = @ \cup {<<r, runs[r].leg>>}])
    <3>1. told'.alarmed = told.alarmed /\ told'.lost = told.lost \cup {<<r, runs[r].leg>>}
      BY <1>0, <2>2 DEF Faulty, Histories
    <3> QED
      BY <1>1, <2>0, <2>2, <3>1 DEF LegReported
  <2> QED
    BY <1>4, <2>1, <2>2 DEF LegFails
<1>5. CASE LegUntracked(r)
  <2>1. told'.alarmed = told.alarmed /\ told'.lost = told.lost /\ ~At(r, "rollback")
    BY <1>0, <1>5 DEF LegUntracked, Faulty, Histories, At
  <2>2. runs'[r].pc = "rollback" /\ runs'[r].leg = runs[r].leg
    BY <1>0, <1>5, PcRun, Names DEF LegUntracked, RunBecomes
  <2>3. book' = book \cup {Order(r, TRUE, FALSE)}
    BY <1>5 DEF LegUntracked
  <2> QED
    BY <1>1, <2>1, <2>2, <2>3 DEF LegReported
<1>6. CASE RollBack(r)
  <2>1. CASE book' = book \ {Order(r, TRUE, FALSE)} /\ told' = told
    BY <2>1 DEF LegReported
  <2>2. CASE book' = book /\ told' = [told EXCEPT !.alarmed = @ \cup {<<r, runs[r].leg>>}]
    <3>1. told'.alarmed = told.alarmed \cup {<<r, runs[r].leg>>} /\ told'.lost = told.lost
      BY <1>0, <2>2 DEF Histories
    <3> QED
      BY <1>1, <2>2, <3>1 DEF LegReported
  <2> QED
    BY <1>6, <2>1, <2>2 DEF RollBack
<1> QED
  BY <1>2, <1>3, <1>4, <1>5, <1>6 DEF Leg

LEMMA LegOrphans ==
    ASSUME Core, Lists, OrphansAreReported, NEW r \in Requests, Leg(r)
    PROVE  OrphansAreReported'
<1> SUFFICES ASSUME NEW o \in book', Orphan(o) PROVE Reported(o)'
  BY DEF OrphansAreReported, Reported, Orphan
<1>1. LegReported(r)
  BY LegReports
<1>2. CASE o \notin book \/ (At(r, "rollback") /\ o = Order(r, TRUE, FALSE))
  BY <1>1, <1>2 DEF LegReported, Reported, At
<1>3. CASE o \in book /\ ~(At(r, "rollback") /\ o = Order(r, TRUE, FALSE))
  <2>1. Reported(o)
    BY <1>3 DEF OrphansAreReported, Reported, Orphan
  <2>2. CASE <<o.req, o.leg>> \in told.alarmed \cup told.lost
    BY <1>1, <2>2 DEF LegReported, Reported
  <2>3. CASE At(o.req, "rollback") /\ runs[o.req].leg = o.leg
    <3>1. o.req \in Requests /\ o.group = runs[o.req].group /\ o \in Listed
      BY <1>3, LegsOfShape DEF Lists, ItemsHold, OfRun, Core, Types
    <3>2. o.req # r
      <4> SUFFICES ASSUME o.req = r PROVE o = Order(r, TRUE, FALSE)
        BY <1>3, <2>3
      <4>1. o.live = TRUE /\ o.tracked = FALSE
        BY <3>1 DEF Orphan, Listed
      <4> QED
        BY <2>3, <3>1, <4>1 DEF Order, Listed
    <3>3. Numbers(r) \/ LegStep(r)
      BY LegIsStep
    <3>4. runs'[o.req] = runs[o.req]
      BY <3>1, <3>2, <3>3, LegRun DEF Numbers, RunBecomes
    <3> QED
      BY <2>3, <3>4 DEF Reported, At
  <2> QED
    BY <2>1, <2>2, <2>3 DEF Reported
<1> QED
  BY <1>2, <1>3

LEMMA RestartOrphans ==
    ASSUME Core, Restart
    PROVE  OrphansAreReported'
<1> DEFINE gone == {<<o.req, o.leg>> : o \in {p \in book' : ~p.tracked /\ <<p.req, p.leg>> \notin told.alarmed}}
<1>1. told' = Faulty([told EXCEPT !.lost = @ \cup gone])
  BY DEF Restart
<1>2. ASSUME NEW o \in book', ~o.tracked PROVE <<o.req, o.leg>> \in told.alarmed \cup gone
  BY <1>2
<1> HIDE DEF gone
<1>3. told'.alarmed = told.alarmed /\ told'.lost = told.lost \cup gone
  BY <1>1 DEF Core, Types, Histories, Faulty
<1> QED
  BY <1>2, <1>3 DEF OrphansAreReported

\* Every step keeps orphans reported.
LEMMA NextOrphans == Core /\ Lists /\ OrphansAreReported /\ [EntryNext]_entryVars => OrphansAreReported'
<1> SUFFICES ASSUME Core, Lists, OrphansAreReported, [EntryNext]_entryVars PROVE OrphansAreReported'
  OBVIOUS
<1>1. \A o \in book : o.req \in DOMAIN asked /\ o.req \in Requests /\ runs[o.req].pc # "idle"
  BY LegsOfShape DEF Lists, ItemsHold, OfRun
<1>2. CASE Still
  BY <1>2, OrphansKept DEF Still, HistoriesSame
<1>3. ASSUME NEW r \in Requests, Asks(r) PROVE OrphansAreReported'
  BY <1>3, OrphansKept DEF Asks, HistoriesSame
<1>4. ASSUME NEW r \in Requests, NEW u \in Users, ManagerBegins(r, u) PROVE OrphansAreReported'
  <2>1. \A o \in book : runs'[o.req] = runs[o.req]
    BY <1>1, <1>4 DEF ManagerBegins, RunBecomes
  <2> QED
    BY <1>4, <2>1, OrphansKept DEF ManagerBegins, TwinsAre
<1>5. ASSUME NEW r \in DOMAIN asked, NEW by \in {"gate", "intent"}, Begins(r, by) PROVE OrphansAreReported'
  <2>1. \A o \in book : runs'[o.req] = runs[o.req]
    BY <1>1, <1>5 DEF Begins, RunBecomes
  <2> QED
    BY <1>5, <2>1, OrphansKept DEF Begins, HistoriesSame
<1>6. ASSUME NEW o \in book, OrderOver(o) PROVE OrphansAreReported'
  BY <1>6 DEF OrderOver, OrphansAreReported, At
<1>7. \/ \E r \in Requests : Leg(r)
      \/ Restart \/ Still \/ \E r \in Requests : Asks(r) \/ \E u \in Users : ManagerBegins(r, u)
      \/ \E r \in DOMAIN asked, by \in {"gate", "intent"} : Begins(r, by)
      \/ \E o \in book : OrderOver(o)
  BY EntrySteps
<1> QED
  BY <1>2, <1>3, <1>4, <1>5, <1>6, <1>7, LegOrphans, RestartOrphans

\* An order the exchange has and the list has not was reported, or is being taken back (the
\* rollback of order_execution), or nobody got to know of it: its answer was lost, or the bot
\* stopped over it.
THEOREM OrphansReported == EntrySpec => []OrphansAreReported
<1>1. EntryInit => OrphansAreReported
  BY DEF EntryInit, OrphansAreReported
<1> QED
  BY <1>1, InitCore, InitLists, NextCore, NextLists, NextOrphans, PTL DEF EntrySpec

(***************************************************************************)
(* The numbers of the batches.                                             *)
(***************************************************************************)
\* Some leg of r is to come, or an order of it is on the list or in the log.
Present(r) == Running(r) \/ (\E o \in Tracked : o.req = r) \/ (\E t \in trades : t.req = r)

SameNumber(r, q) ==
    /\ r # q /\ UserOf(r) = UserOf(q) /\ Present(r) /\ Present(q)
    /\ runs[r].group = runs[q].group /\ runs[r].group # 0

\* Two requests of a user have the same number only if they are told to.
NumbersHold == \A r, q \in DOMAIN asked : SameNumber(r, q) => {r, q} \subseteq told.twins

\* The request q was there and has the orders and the number it had.
SameItems(q) ==
    Present(q)' => /\ q \in DOMAIN asked /\ Present(q) /\ UserOf(q)' = UserOf(q)
                   /\ runs'[q].group = runs[q].group

\* Nobody got a number or came to have orders but r, maybe.
LEMMA NumbersFresh ==
    ASSUME NumbersHold, told.twins \subseteq told'.twins, NEW r \in Requests,
           \A q \in DOMAIN asked' : q # r => SameItems(q),
           \A q \in DOMAIN asked' : SameNumber(r, q)' => {r, q} \subseteq told'.twins
    PROVE  NumbersHold'
<1> SUFFICES ASSUME NEW p \in DOMAIN asked', NEW q \in DOMAIN asked', SameNumber(p, q)'
             PROVE  {p, q} \subseteq told'.twins
  BY DEF NumbersHold
<1>1. CASE p = r
  BY <1>1
<1>2. CASE q = r
  <2>1. SameNumber(q, p)'
    BY DEF SameNumber
  <2> QED
    BY <1>2, <2>1
<1>3. CASE p # r /\ q # r
  <2>1. p \in DOMAIN asked /\ q \in DOMAIN asked /\ SameNumber(p, q)
    BY <1>3 DEF SameNumber, SameItems
  <2> QED
    BY <2>1 DEF NumbersHold
<1> QED
  BY <1>1, <1>2, <1>3

LEMMA NumbersKept ==
    ASSUME NumbersHold, told'.twins = told.twins, \A q \in DOMAIN asked' : SameItems(q)
    PROVE  NumbersHold'
<1> SUFFICES ASSUME NEW p \in DOMAIN asked', NEW q \in DOMAIN asked', SameNumber(p, q)'
             PROVE  {p, q} \subseteq told'.twins
  BY DEF NumbersHold
<1>1. p \in DOMAIN asked /\ q \in DOMAIN asked /\ SameNumber(p, q)
  BY DEF SameNumber, SameItems
<1> QED
  BY <1>1 DEF NumbersHold

\* Who has the number that r of u is given and is not running has nothing on list and log.
LEMMA FreshNumber ==
    ASSUME Core, Lists, NEW r, NEW u, NEW q \in DOMAIN asked, q # r, UserOf(q) = u,
           Present(q), runs[q].group = NextGroup(u)
    PROVE  q \in Twins(r, u)
<1>1. NextGroup(u) \in Nat /\ \A n \in GroupsInUse(u) : n < NextGroup(u)
  BY NextGroupIsNew DEF Core
<1>2. CASE Running(q)
  BY <1>2 DEF Twins
<1>3. ASSUME NEW o \in Tracked, o.req = q PROVE FALSE
  <2>1. o.group = NextGroup(u) /\ o \in OpenOrders(u)
    BY <1>3 DEF Lists, ItemsHold, OfRun, Tracked, OpenOrders
  <2>2. o.group \in GroupsInUse(u)
    BY <2>1 DEF GroupsInUse
  <2> QED
    BY <1>1, <2>1, <2>2
<1>4. ASSUME NEW t \in trades, t.req = q PROVE FALSE
  <2>1. t.group = NextGroup(u) /\ UserOf(t.req) = u
    BY <1>4 DEF Lists, ItemsHold, OfRun
  <2>2. t.group \in GroupsInUse(u)
    BY <2>1 DEF GroupsInUse
  <2> QED
    BY <1>1, <2>1, <2>2
<1> QED
  BY <1>2, <1>3, <1>4 DEF Present

\* Nothing is on list or log of a request that has not been started.
LEMMA IdleNotPresent ==
    ASSUME Lists, NEW r, r \notin DOMAIN asked \/ runs[r].pc = "idle"
    PROVE  (\A o \in Tracked : o.req # r) /\ (\A t \in trades : t.req # r)
BY DEF Lists, ItemsHold, OfRun, Tracked

LEMMA BeginsNumbers ==
    ASSUME Core, Lists, NumbersHold, NEW r \in DOMAIN asked, NEW by, Begins(r, by)
    PROVE  NumbersHold'
<1>1. /\ UNCHANGED <<asked, book, trades>> /\ told'.twins = told.twins /\ runs'[r].group = 0
      /\ \A q \in Requests : q # r => runs'[q] = runs[q]
  BY DEF Begins, RunBecomes, HistoriesSame
<1>2. Tracked' = Tracked
  BY <1>1 DEF Tracked
<1>3. \A q \in DOMAIN asked' : q # r => q \in Requests /\ runs'[q] = runs[q] /\ UserOf(q)' = UserOf(q)
  BY <1>1, LegsOfShape DEF UserOf
<1>4. \A q \in DOMAIN asked' : q # r => SameItems(q)
  BY <1>1, <1>2, <1>3 DEF Present, Running, SameItems
<1>5. \A q \in DOMAIN asked' : ~SameNumber(r, q)'
  BY <1>1 DEF SameNumber
<1>6. r \in Requests
  BY LegsOfShape
<1> QED
  BY <1>1, <1>4, <1>5, <1>6, NumbersFresh

\* Both ways to get a number.
LEMMA GetsNumber ==
    ASSUME Core, Lists, NumbersHold, NEW r \in Requests, NEW u,
           AskedKept, DOMAIN asked' = DOMAIN asked \cup {r}, UserOf(r)' = u,
           runs'[r].group = NextGroup(u), \A q \in Requests : q # r => runs'[q] = runs[q],
           UNCHANGED <<book, trades>>, TwinsAre(r, u)
    PROVE  NumbersHold'
<1>1. Tracked' = Tracked
  BY DEF Tracked
<1>2. \A q \in DOMAIN asked' \ {r} :
        q \in DOMAIN asked /\ q \in Requests /\ runs'[q] = runs[q] /\ UserOf(q)' = UserOf(q)
  BY LegsOfShape DEF AskedKept
<1>3. \A q \in DOMAIN asked' : q # r => SameItems(q)
  BY <1>1, <1>2 DEF Present, Running, SameItems
<1>4. ASSUME NEW q \in DOMAIN asked', SameNumber(r, q)' PROVE {r, q} \subseteq told'.twins
  <2>1. q # r /\ UserOf(q)' = u /\ Present(q)' /\ runs'[q].group = NextGroup(u)
    BY <1>4 DEF SameNumber
  <2>2. q \in DOMAIN asked /\ UserOf(q) = u /\ Present(q) /\ runs[q].group = NextGroup(u)
    BY <1>2, <1>3, <2>1 DEF SameItems
  <2>3. q \in Twins(r, u)
    BY <2>1, <2>2, FreshNumber
  <2> QED
    BY <2>3 DEF TwinsAre
<1>5. told.twins \subseteq told'.twins
  BY DEF TwinsAre
<1> QED
  BY <1>3, <1>4, <1>5, NumbersFresh

\* Every step keeps runs of the same number among the twins.
LEMMA NextNumbers == Core /\ Lists /\ NumbersHold /\ [EntryNext]_entryVars => NumbersHold'
<1> SUFFICES ASSUME Core, Lists, NumbersHold, [EntryNext]_entryVars PROVE NumbersHold'
  OBVIOUS
<1> DEFINE Kept == \A q \in DOMAIN asked' : SameItems(q)
<1>1. ASSUME Kept, told'.twins = told.twins PROVE NumbersHold'
  BY <1>1, NumbersKept
<1>2. CASE Still
  <2>1. Kept /\ told'.twins = told.twins
    BY <1>2 DEF Still, HistoriesSame, Present, Running, UserOf, Tracked, SameItems
  <2> QED
    BY <1>1, <2>1
<1>3. ASSUME NEW r \in Requests, Asks(r) PROVE NumbersHold'
  <2>1. /\ r \notin DOMAIN asked /\ DOMAIN asked' = DOMAIN asked \cup {r} /\ AskedKept
        /\ UNCHANGED <<runs, book, trades>> /\ told'.twins = told.twins
    BY <1>3 DEF Asks, HistoriesSame
  <2>2. ~Present(r)
    BY <2>1, IdleNotPresent, AskedIdle DEF Present, Running
  <2>3. Kept
    BY <2>1, <2>2 DEF Present, Running, Tracked, AskedKept, SameItems
  <2> QED
    BY <1>1, <2>1, <2>3
<1>4. ASSUME NEW r \in Requests, Numbers(r) PROVE NumbersHold'
  <2>1. /\ r \in DOMAIN asked /\ asked' = asked /\ UNCHANGED <<book, trades>> /\ TwinsAre(r, UserOf(r))
        /\ runs'[r].group = NextGroup(UserOf(r)) /\ \A q \in Requests : q # r => runs'[q] = runs[q]
    BY <1>4, AskedIdle DEF Numbers, RunBecomes
  <2>2. AskedKept /\ DOMAIN asked' = DOMAIN asked \cup {r} /\ UserOf(r)' = UserOf(r)
    BY <2>1 DEF AskedKept, UserOf, ShapeOf
  <2> QED
    BY <2>1, <2>2, GetsNumber
<1>5. ASSUME NEW r \in Requests, NEW u \in Users, ManagerBegins(r, u) PROVE NumbersHold'
  BY <1>5, GetsNumber DEF ManagerBegins, RunBecomes
<1>6. ASSUME NEW r \in Requests, LegStep(r) PROVE NumbersHold'
  <2>1. /\ Running(r) /\ r \in DOMAIN asked /\ runs'[r].group = runs[r].group
        /\ \A q \in Requests : q # r => runs'[q] = runs[q]
        /\ UNCHANGED <<asked, trades>> /\ told'.twins = told.twins
    BY <1>6, LegRun DEF LegStep
  <2>2. \A o \in Tracked' : o \in Tracked \/ o.req = r
    BY <1>6 DEF LegStep, LegDone, LegGoesOn, Order
  <2>3. Kept
    BY <2>1, <2>2, LegsOfShape DEF Present, Running, UserOf, SameItems
  <2> QED
    BY <1>1, <2>1, <2>3
<1>7. ASSUME NEW o \in book, OrderOver(o) PROVE NumbersHold'
  <2>1. /\ book' \subseteq book /\ o \in Tracked
        /\ \A t \in trades' : t \in trades \/ t.req = o.req
        /\ UNCHANGED <<asked, runs, told>>
    BY <1>7 DEF OrderOver, Tracked
  <2>2. Tracked' \subseteq Tracked
    BY <2>1 DEF Tracked
  <2>3. Kept
    BY <2>1, <2>2 DEF Present, Running, UserOf, SameItems
  <2> QED
    BY <1>1, <2>1, <2>3
<1>8. CASE Stops
  <2>1. /\ \A r \in Requests : /\ runs'[r].pc = (IF Running(r) THEN "over" ELSE runs[r].pc)
                               /\ runs'[r].group = runs[r].group
        /\ Tracked' = Tracked /\ UNCHANGED <<asked, trades>> /\ told'.twins = told.twins
    BY <1>8 DEF Stops
  <2>2. Kept
    BY <2>1, LegsOfShape DEF Present, Running, UserOf, SameItems
  <2> QED
    BY <1>1, <2>1, <2>2
<1> QED
  BY <1>2, <1>3, <1>4, <1>5, <1>6, <1>7, <1>8, BeginsNumbers, Steps

\* The orders and trades of two runs of a user have the same number only if one of the runs took it
\* while the other, still placing its legs, had neither order nor trade (get_next_group_no looks
\* only at those): told.twins then names both.
THEOREM NumbersApart == EntrySpec => []BatchNumbersApart
<1>1. EntryInit => NumbersHold
  BY DEF EntryInit, NumbersHold, Empty
<1>2. Core /\ Lists /\ NumbersHold => BatchNumbersApart
  <2> SUFFICES ASSUME Core, Lists, NumbersHold,
                      NEW o \in Tracked \cup trades, NEW p \in Tracked \cup trades,
                      UserOf(o.req) = UserOf(p.req), o.group = p.group, o.group # 0, o.req # p.req
               PROVE  {o.req, p.req} \subseteq told.twins
    BY DEF BatchNumbersApart, Tracked
  <2>1. ASSUME NEW x \in Tracked \cup trades
        PROVE  x.req \in DOMAIN asked /\ Present(x.req) /\ x.group = runs[x.req].group
    BY DEF Lists, ItemsHold, OfRun, Tracked, Present
  <2>2. SameNumber(o.req, p.req) /\ o.req \in DOMAIN asked /\ p.req \in DOMAIN asked
    BY <2>1 DEF SameNumber
  <2> QED
    BY <2>2 DEF NumbersHold
<1> QED
  BY <1>1, <1>2, InitCore, InitLists, NextCore, NextLists, NextNumbers, PTL DEF EntrySpec

(***************************************************************************)
(* The families of a user's strategies.                                    *)
(***************************************************************************)
Gated(r) == runs[r].by = "gate"
FamilyOf(r) == ShapeOf(r).family

\* While a strategy that passed the gate places its legs, the orders of the user that passed
\* it are of its family.
FamilyOfTheRunning ==
    \A r \in Requests : (Running(r) /\ Gated(r) /\ FamilyOf(r) # "manual") =>
        \A o \in Tracked : (UserOf(o.req) = UserOf(r) /\ Gated(o.req)) => FamilyOf(o.req) \in {"manual", FamilyOf(r)}

FamilyOfTheListed ==
    \A o, p \in Tracked :
        (UserOf(o.req) = UserOf(p.req) /\ Gated(o.req) /\ Gated(p.req)
         /\ FamilyOf(o.req) # "manual" /\ FamilyOf(p.req) # "manual")
        => FamilyOf(o.req) = FamilyOf(p.req)

Families == FamilyOfTheRunning /\ FamilyOfTheListed

SameRequest(r) == UserOf(r)' = UserOf(r) /\ ShapeOf(r)' = ShapeOf(r) /\ runs'[r].by = runs[r].by

\* Nothing is listed, and no strategy starts that passed the gate.
LEMMA FamiliesKept ==
    ASSUME Families, Tracked' \subseteq Tracked, \A o \in Tracked : SameRequest(o.req),
           \A r \in Requests : (Running(r)' /\ Gated(r)') => Running(r) /\ SameRequest(r)
    PROVE  Families'
BY DEF Families, FamilyOfTheRunning, FamilyOfTheListed, SameRequest, Gated, FamilyOf

LEMMA BeginsFamilies ==
    ASSUME Core, Lists, Families, NEW r \in DOMAIN asked, NEW by \in {"gate", "intent"}, Begins(r, by)
    PROVE  Families'
<1>1. /\ runs[r].pc = "idle" /\ (by = "gate" => MayRun(r)) /\ runs'[r].by = by
      /\ \A q \in Requests : q # r => runs'[q] = runs[q]
      /\ \A q \in Requests : Running(q) => runs[q].by \notin {"gate", "intent"}
      /\ UNCHANGED <<asked, book, trades>>
  BY DEF Begins, RunBecomes
<1>2. Tracked' = Tracked /\ \A q : UserOf(q)' = UserOf(q) /\ ShapeOf(q)' = ShapeOf(q)
  BY <1>1 DEF Tracked, UserOf, ShapeOf
<1>3. \A o \in Tracked : o.req \in Requests /\ o.req # r /\ runs'[o.req] = runs[o.req]
  BY <1>1, LegsOfShape DEF Lists, ItemsHold, OfRun, Tracked
<1>4. FamilyOfTheListed'
  BY <1>2, <1>3 DEF Families, FamilyOfTheListed, Gated, FamilyOf
<1>5. FamilyOfTheRunning'
  <2> SUFFICES ASSUME NEW q \in Requests, Running(q)', Gated(q)', FamilyOf(q) # "manual",
                      NEW o \in Tracked, UserOf(o.req) = UserOf(q), Gated(o.req)
               PROVE  FamilyOf(o.req) \in {"manual", FamilyOf(q)}
    BY <1>2, <1>3 DEF FamilyOfTheRunning, Gated, FamilyOf
  <2>1. q = r /\ by = "gate"
    BY <1>1 DEF Running, Gated
  <2>2. ShapeOf(r).store # "manual"
    BY <2>1, LegsOfShape, EntryAssumption DEF FamilyOf
  <2>3. SameFamily(OpenOrders(UserOf(r)), ShapeOf(r).family)
    BY <1>1, <2>1, <2>2 DEF MayRun, WithinLimits
  <2>4. o \in OpenOrders(UserOf(r))
    BY <2>1 DEF Tracked, OpenOrders
  <2> QED
    BY <2>1, <2>3, <2>4 DEF SameFamily, FamilyOf
<1> QED
  BY <1>4, <1>5 DEF Families

LEMMA LegFamilies ==
    ASSUME Core, Lists, Families, NEW r \in Requests, LegStep(r)
    PROVE  Families'
<1>1. /\ Running(r) /\ r \in DOMAIN asked /\ runs'[r].by = runs[r].by
      /\ \A q \in Requests : q # r => runs'[q] = runs[q]
      /\ UNCHANGED <<asked, trades>>
  BY LegRun
<1>2. \A q : UserOf(q)' = UserOf(q) /\ ShapeOf(q)' = ShapeOf(q) /\ FamilyOf(q)' = FamilyOf(q)
  BY <1>1 DEF UserOf, ShapeOf, FamilyOf
<1>3. \A q \in Requests : Gated(q)' = Gated(q) /\ (Running(q)' => Running(q))
  BY <1>1 DEF Gated, Running
<1>4. \A o \in Tracked' : o \in Tracked \/ o.req = r
  BY DEF LegStep, LegDone, LegGoesOn, Order
<1>5. \A o \in Tracked : o.req \in Requests
  BY LegsOfShape DEF Lists, ItemsHold, OfRun, Tracked
<1>6. \A q \in Requests : (Running(q) /\ Gated(q) /\ Gated(r)) => q = r
  BY <1>1 DEF Core, ChatHolds, Gated
<1>7. FamilyOfTheRunning'
  <2> SUFFICES ASSUME NEW q \in Requests, Running(q), Gated(q), FamilyOf(q) # "manual",
                      NEW o \in Tracked', UserOf(o.req) = UserOf(q), Gated(o.req)
               PROVE  FamilyOf(o.req) \in {"manual", FamilyOf(q)}
    BY <1>2, <1>3, <1>4, <1>5 DEF FamilyOfTheRunning
  <2>1. CASE o \in Tracked
    BY <2>1 DEF Families, FamilyOfTheRunning
  <2>2. CASE o.req = r
    BY <1>6, <2>2
  <2> QED
    BY <1>4, <2>1, <2>2
<1>8. FamilyOfTheListed'
  <2> SUFFICES ASSUME NEW o \in Tracked', NEW p \in Tracked', UserOf(o.req) = UserOf(p.req),
                      Gated(o.req), Gated(p.req), FamilyOf(o.req) # "manual", FamilyOf(p.req) # "manual"
               PROVE  FamilyOf(o.req) = FamilyOf(p.req)
    BY <1>2, <1>3, <1>4, <1>5 DEF FamilyOfTheListed
  <2>1. CASE o \in Tracked /\ p \in Tracked
    BY <2>1 DEF Families, FamilyOfTheListed
  <2>2. ASSUME NEW x \in Tracked, UserOf(x.req) = UserOf(r), Gated(x.req), Gated(r), FamilyOf(r) # "manual",
               FamilyOf(x.req) # "manual"
        PROVE  FamilyOf(x.req) = FamilyOf(r)
    BY <1>1, <2>2 DEF Families, FamilyOfTheRunning
  <2> QED
    BY <1>4, <2>1, <2>2
<1> QED
  BY <1>7, <1>8 DEF Families

\* Every step keeps the families apart.
LEMMA NextFamilies == Core /\ Lists /\ Families /\ [EntryNext]_entryVars => Families'
<1> SUFFICES ASSUME Core, Lists, Families, [EntryNext]_entryVars PROVE Families'
  OBVIOUS
<1>0. \A o \in Tracked : o.req \in Requests /\ o.req \in DOMAIN asked /\ runs[o.req].pc # "idle"
  BY LegsOfShape DEF Lists, ItemsHold, OfRun, Tracked
<1>2. CASE Still
  <2>1. Tracked' = Tracked /\ \A q : SameRequest(q) /\ (Running(q)' => Running(q))
    BY <1>2 DEF Still, SameRequest, Running, UserOf, ShapeOf, Tracked
  <2> QED
    BY <2>1, FamiliesKept
<1>3. ASSUME NEW r \in Requests, Asks(r) PROVE Families'
  <2>1. /\ \A q \in DOMAIN asked : SameRequest(q)
        /\ Tracked' = Tracked /\ \A q \in Requests : Running(q)' => Running(q)
    BY <1>3 DEF Asks, AskedKept, SameRequest, Running, Tracked
  <2>2. \A q \in Requests : Running(q) => q \in DOMAIN asked
    BY AskedIdle DEF Running
  <2> QED
    BY <1>0, <2>1, <2>2, FamiliesKept
<1>4. ASSUME NEW r \in Requests, Numbers(r) PROVE Families'
  <2>1. /\ Running(r) /\ runs'[r].by = runs[r].by /\ UNCHANGED <<asked, book>>
        /\ \A q \in Requests : q # r => runs'[q] = runs[q]
    BY <1>4 DEF Numbers, RunBecomes, Running
  <2>2. Tracked' = Tracked /\ \A q \in Requests : SameRequest(q) /\ (Running(q)' => Running(q))
    BY <2>1 DEF SameRequest, Running, UserOf, ShapeOf, Tracked
  <2> QED
    BY <1>0, <2>2, FamiliesKept
<1>5. ASSUME NEW r \in Requests, NEW u \in Users, ManagerBegins(r, u) PROVE Families'
  <2>1. /\ r \notin DOMAIN asked /\ AskedKept /\ runs'[r].by = "manager" /\ book' = book
        /\ \A q \in Requests : q # r => runs'[q] = runs[q]
    BY <1>5 DEF ManagerBegins, RunBecomes
  <2>2. Tracked' = Tracked /\ \A q \in DOMAIN asked : q \in Requests => SameRequest(q)
    BY <2>1 DEF Tracked, AskedKept, SameRequest
  <2>3. ASSUME NEW q \in Requests, Running(q)', Gated(q)' PROVE Running(q) /\ q \in DOMAIN asked
    BY <2>1, <2>3, AskedIdle DEF Running, Gated
  <2> QED
    BY <1>0, <2>2, <2>3, FamiliesKept
<1>7. ASSUME NEW o \in book, OrderOver(o) PROVE Families'
  <2>1. Tracked' \subseteq Tracked /\ \A q : SameRequest(q) /\ (Running(q)' => Running(q))
    BY <1>7 DEF OrderOver, SameRequest, Running, UserOf, ShapeOf, Tracked
  <2> QED
    BY <2>1, FamiliesKept
<1>8. CASE Stops
  <2>1. /\ \A r \in Requests : /\ runs'[r].pc = (IF Running(r) THEN "over" ELSE runs[r].pc)
                               /\ runs'[r].by = runs[r].by
        /\ Tracked' = Tracked /\ asked' = asked
    BY <1>8 DEF Stops
  <2>2. \A q \in Requests : SameRequest(q) /\ (Running(q)' => Running(q))
    BY <2>1 DEF SameRequest, Running, UserOf, ShapeOf
  <2> QED
    BY <1>0, <2>1, <2>2, FamiliesKept
<1> QED
  BY <1>2, <1>3, <1>4, <1>5, <1>7, <1>8, BeginsFamilies, LegFamilies, Steps

\* The families of a user's strategies stay apart: the run that passed assert_single_strategy_per_ticker
\* is the only gated one at work, so no gated order is placed that it was not compared with.
THEOREM OneFamily == EntrySpec => []OneFamilyAtOnce
<1>1. EntryInit => Families
  BY DEF EntryInit, Families, FamilyOfTheRunning, FamilyOfTheListed, Running, Tracked
<1>2. Families => OneFamilyAtOnce
  BY DEF Families, FamilyOfTheListed, OneFamilyAtOnce, Gated, FamilyOf, Tracked
<1> QED
  BY <1>1, <1>2, InitCore, InitLists, NextCore, NextLists, NextFamilies, PTL DEF EntrySpec

(***************************************************************************)
(* The cap of a user's open exposure.                                      *)
(***************************************************************************)
Held(u) == {o \in Tracked : o.req \in GatedBuys(u)}

CapHolds ==
    \A u \in Users : IsFiniteSet(LegsToCome(u)) /\ Cardinality(Held(u)) + Cardinality(LegsToCome(u)) <= Cap

\* r is, if it is a buy that passed the gate, what it was, and at the leg it was at.
SameBuy(u, r) ==
    r \in GatedBuys(u)' => /\ r \in GatedBuys(u) /\ ShapeOf(r)' = ShapeOf(r)
                           /\ Running(r)' => Running(r) /\ runs'[r].leg = runs[r].leg

\* What LegsToCome has in it.
LEMMA ToCome ==
    ASSUME NEW u, NEW x
    PROVE  /\ x \in LegsToCome(u) <=> \E r \in GatedBuys(u) :
                    Running(r) /\ \E n \in runs[r].leg..ShapeOf(r).legs : x = <<r, n>>
           /\ x \in LegsToCome(u)' <=> \E r \in GatedBuys(u)' :
                    Running(r)' /\ \E n \in (runs'[r].leg)..(ShapeOf(r)').legs : x = <<r, n>>
<1>1. x \in LegsToCome(u) <=> \E r \in GatedBuys(u) :
            Running(r) /\ \E n \in runs[r].leg..ShapeOf(r).legs : x = <<r, n>>
  BY DEF LegsToCome
<1>2. x \in LegsToCome(u)' <=> \E r \in GatedBuys(u)' :
            Running(r)' /\ \E n \in (runs'[r].leg)..(ShapeOf(r)').legs : x = <<r, n>>
  BY DEF LegsToCome
<1> QED
  BY <1>1, <1>2

LEMMA HeldFinite ==
    ASSUME Core, NEW u
    PROVE  IsFiniteSet(Held(u)) /\ Cardinality(Held(u)) \in Nat
<1>1. Held(u) \subseteq Tracked /\ IsFiniteSet(Tracked)
  BY DEF Core, Types, Held
<1> QED
  BY <1>1, FS_Subset, FS_CardinalityType

LEMMA Fewer ==
    ASSUME NEW A, NEW B, NEW C, NEW D, IsFiniteSet(A), IsFiniteSet(B), C \subseteq A, D \subseteq B,
           Cardinality(A) + Cardinality(B) <= Cap
    PROVE  IsFiniteSet(D) /\ Cardinality(C) + Cardinality(D) <= Cap
<1>1. IsFiniteSet(C) /\ IsFiniteSet(D) /\ Cardinality(C) <= Cardinality(A) /\ Cardinality(D) <= Cardinality(B)
  BY FS_Subset
<1>2. /\ Cardinality(A) \in Nat /\ Cardinality(B) \in Nat /\ Cardinality(C) \in Nat /\ Cardinality(D) \in Nat
      /\ Cap \in Nat
  BY <1>1, FS_CardinalityType, EntryAssumption
<1> QED
  BY <1>1, <1>2

LEMMA CapKept ==
    ASSUME Core, CapHolds, NEW u \in Users, \A o \in Tracked' : o.req \in GatedBuys(u)' => o \in Tracked,
           \A r : SameBuy(u, r)
    PROVE  IsFiniteSet(LegsToCome(u)') /\ Cardinality(Held(u)') + Cardinality(LegsToCome(u)') <= Cap
<1>1. Held(u)' \subseteq Held(u)
  BY DEF Held, SameBuy
<1>2. LegsToCome(u)' \subseteq LegsToCome(u)
  BY ToCome DEF SameBuy
<1> QED
  BY <1>1, <1>2, HeldFinite, Fewer DEF CapHolds

\* Only a buy adds to what is to come, and it was weighed with all that is open.
LEMMA BeginsCap ==
    ASSUME Core, Lists, CapHolds, NEW r \in DOMAIN asked, NEW by \in {"gate", "intent"}, Begins(r, by)
    PROVE  CapHolds'
<1>1. /\ runs[r].pc = "idle" /\ (by = "gate" => MayRun(r)) /\ runs'[r].by = by /\ runs'[r].leg = 1
      /\ \A q \in Requests : q # r => runs'[q] = runs[q]
      /\ \A q \in Requests : Running(q) => runs[q].by \notin {"gate", "intent"}
      /\ UNCHANGED <<asked, book, trades>>
  BY DEF Begins, RunBecomes
<1>2. /\ Tracked' = Tracked /\ DOMAIN asked' = DOMAIN asked
      /\ \A q : UserOf(q)' = UserOf(q) /\ ShapeOf(q)' = ShapeOf(q)
  BY <1>1 DEF Tracked, UserOf, ShapeOf
<1>3. DOMAIN asked \subseteq Requests /\ r \in Requests
  BY DEF Core, Types, AskedTypes
<1> SUFFICES ASSUME NEW u \in Users
             PROVE  /\ IsFiniteSet(LegsToCome(u)')
                    /\ Cardinality(Held(u)') + Cardinality(LegsToCome(u)') <= Cap
  BY DEF CapHolds
<1>4. \A q : q # r => SameBuy(u, q)
  BY <1>1, <1>2, <1>3 DEF SameBuy, GatedBuys, Running
<1>5. CASE r \notin GatedBuys(u)'
  <2>1. \A q : SameBuy(u, q)
    BY <1>4, <1>5 DEF SameBuy
  <2> QED
    BY <1>2, <2>1, CapKept
<1>6. CASE r \in GatedBuys(u)'
  <2>1. by = "gate" /\ UserOf(r) = u /\ ShapeOf(r).side = "bid" /\ ~ShapeOf(r).market
    BY <1>1, <1>2, <1>6 DEF GatedBuys
  <2>2. Exposure(OpenOrders(u)) + ShapeOf(r).legs <= Cap
    BY <1>1, <2>1 DEF MayRun, WithinLimits, NewExposure
  <2> DEFINE Counted == {o \in OpenOrders(u) : ~ShapeOf(o.req).market}
  <2>3. Counted \subseteq Tracked /\ IsFiniteSet(Tracked) /\ Held(u)' \subseteq Counted
    BY <1>2 DEF Core, Types, Held, GatedBuys, OpenOrders, Tracked
  <2>4. IsFiniteSet(Counted) /\ Exposure(OpenOrders(u)) = Cardinality(Counted)
    BY <2>3, FS_Subset DEF Exposure
  <2>5. ShapeOf(r).legs \in Nat /\ ShapeOf(r).legs >= 1
    BY LegsOfShape
  <2> DEFINE New == {r} \X (1..ShapeOf(r).legs)
  <2>6. IsFiniteSet(New) /\ Cardinality(New) = ShapeOf(r).legs
    <3>1. IsFiniteSet({r}) /\ Cardinality({r}) = 1
      BY FS_Singleton
    <3>2. IsFiniteSet(1..ShapeOf(r).legs) /\ Cardinality(1..ShapeOf(r).legs) = ShapeOf(r).legs
      BY <2>5, FS_Interval
    <3>3. IsFiniteSet(New) /\ Cardinality(New) = 1 * ShapeOf(r).legs
      BY <3>1, <3>2, FS_Product
    <3> QED
      BY <2>5, <3>3
  <2>7. \A q \in GatedBuys(u)' : Running(q)' => q = r
    BY <1>1, <1>2, <1>3 DEF GatedBuys, Running
  <2>8. LegsToCome(u)' \subseteq New
    BY <1>1, <1>2, <2>7, ToCome
  <2> HIDE DEF Counted, New
  <2> QED
    BY <2>2, <2>3, <2>4, <2>6, <2>8, Fewer
<1> QED
  BY <1>5, <1>6

\* What a leg puts on the list is no longer to come.
LEMMA LegCap ==
    ASSUME Core, Lists, CapHolds, NEW r \in Requests, LegStep(r)
    PROVE  CapHolds'
<1>1. /\ Running(r) /\ r \in DOMAIN asked /\ runs'[r].by = runs[r].by
      /\ runs[r].leg \in 1..ShapeOf(r).legs
      /\ \A q \in Requests : q # r => runs'[q] = runs[q]
      /\ UNCHANGED <<asked, trades>>
  BY LegRun
<1>2. DOMAIN asked' = DOMAIN asked /\ \A q : UserOf(q)' = UserOf(q) /\ ShapeOf(q)' = ShapeOf(q)
  BY <1>1 DEF UserOf, ShapeOf
<1>3. DOMAIN asked \subseteq Requests
  BY DEF Core, Types, AskedTypes
<1> SUFFICES ASSUME NEW u \in Users
             PROVE  /\ IsFiniteSet(LegsToCome(u)')
                    /\ Cardinality(Held(u)') + Cardinality(LegsToCome(u)') <= Cap
  BY DEF CapHolds
<1>4. GatedBuys(u)' = GatedBuys(u)
  BY <1>1, <1>2, <1>3 DEF GatedBuys
<1>5. \A q : q # r => SameBuy(u, q)
  BY <1>1, <1>2, <1>3, <1>4 DEF SameBuy, GatedBuys, Running
<1>6. CASE LegGoesOn(r)
  <2>1. runs'[r].leg = runs[r].leg /\ Tracked' = Tracked
    BY <1>6 DEF LegGoesOn, RunBecomes
  <2>2. SameBuy(u, r)
    BY <1>1, <1>2, <1>4, <2>1 DEF SameBuy
  <2> QED
    BY <1>5, <2>1, <2>2, CapKept
<1>7. CASE r \notin GatedBuys(u)
  <2>1. \A o \in Tracked' : o \in Tracked \/ o.req = r
    BY DEF LegStep, LegDone, LegGoesOn, Order
  <2>2. SameBuy(u, r)
    BY <1>4, <1>7 DEF SameBuy
  <2> QED
    BY <1>4, <1>5, <1>7, <2>1, <2>2, CapKept
<1>8. CASE LegDone(r) /\ r \in GatedBuys(u)
  <2> DEFINE now == <<r, runs[r].leg>>
  <2>1. now \in LegsToCome(u)
    BY <1>1, <1>8, ToCome
  <2>2. /\ runs[r].leg \in Nat
        /\ \/ runs'[r].pc = "over"
           \/ runs'[r].leg = runs[r].leg + 1
    BY <1>1, <1>8, LegsOfShape DEF LegDone, RunBecomes
  <2>3. LegsToCome(u)' \subseteq LegsToCome(u) \ {now}
    <3> SUFFICES ASSUME NEW x \in LegsToCome(u)' PROVE x \in LegsToCome(u) /\ x # now
      OBVIOUS
    <3>1. PICK q \in GatedBuys(u) : Running(q)' /\ \E n \in (runs'[q].leg)..ShapeOf(q).legs : x = <<q, n>>
      BY <1>2, <1>4, ToCome
    <3>2. CASE q # r
      BY <1>4, <1>5, <3>1, <3>2, ToCome DEF SameBuy
    <3>3. CASE q = r
      <4>1. runs'[r].leg = runs[r].leg + 1
        BY <2>2, <3>1, <3>3 DEF Running
      <4>2. ShapeOf(r).legs \in Nat
        BY <1>1, LegsOfShape
      <4>3. PICK n \in (runs[r].leg + 1)..ShapeOf(r).legs : x = <<r, n>>
        BY <3>1, <3>3, <4>1
      <4>4. n \in runs[r].leg..ShapeOf(r).legs /\ n # runs[r].leg
        BY <2>2, <4>2
      <4> QED
        BY <1>1, <1>8, <4>3, <4>4, ToCome
    <3> QED
      BY <3>2, <3>3
  <2>4. PICK o : Tracked' \subseteq Tracked \cup {o}
    BY <1>8 DEF LegDone
  <2>5. Held(u)' \subseteq Held(u) \cup {o}
    BY <1>4, <2>4 DEF Held
  <2>6. /\ IsFiniteSet(Held(u) \cup {o}) /\ IsFiniteSet(LegsToCome(u) \ {now})
        /\ Cardinality(Held(u) \cup {o}) + Cardinality(LegsToCome(u) \ {now}) <= Cap
    <3>1. /\ IsFiniteSet(LegsToCome(u)) /\ Cardinality(Held(u)) + Cardinality(LegsToCome(u)) <= Cap
          /\ IsFiniteSet(Held(u)) /\ Cardinality(Held(u)) \in Nat /\ Cardinality(LegsToCome(u)) \in Nat
      BY HeldFinite, FS_CardinalityType DEF CapHolds
    <3>2. /\ IsFiniteSet(Held(u) \cup {o})
          /\ \/ Cardinality(Held(u) \cup {o}) = Cardinality(Held(u))
             \/ Cardinality(Held(u) \cup {o}) = Cardinality(Held(u)) + 1
      BY <3>1, FS_AddElement
    <3>3. /\ IsFiniteSet(LegsToCome(u) \ {now})
          /\ Cardinality(LegsToCome(u) \ {now}) = Cardinality(LegsToCome(u)) - 1
      BY <2>1, <3>1, FS_RemoveElement
    <3> QED
      BY <3>1, <3>2, <3>3, EntryAssumption
  <2> QED
    BY <2>3, <2>5, <2>6, Fewer
<1> QED
  BY <1>6, <1>7, <1>8 DEF LegStep

\* Every step keeps open buys and legs to come within the cap.
LEMMA NextCap == Core /\ Lists /\ CapHolds /\ [EntryNext]_entryVars => CapHolds'
<1> SUFFICES ASSUME Core, Lists, CapHolds, [EntryNext]_entryVars PROVE CapHolds'
  OBVIOUS
<1>1. ASSUME Tracked' \subseteq Tracked, \A u \in Users : \A r : SameBuy(u, r) PROVE CapHolds'
  BY <1>1, CapKept DEF CapHolds
<1>0. DOMAIN asked \subseteq Requests
  BY DEF Core, Types, AskedTypes
<1>2. CASE Still
  <2>1. Tracked' \subseteq Tracked /\ \A u \in Users : \A r : SameBuy(u, r)
    BY <1>2 DEF Still, SameBuy, GatedBuys, Running, UserOf, ShapeOf, Tracked
  <2> QED
    BY <1>1, <2>1
<1>3. ASSUME NEW r \in Requests, Asks(r) PROVE CapHolds'
  <2>1. /\ r \notin DOMAIN asked /\ DOMAIN asked' = DOMAIN asked \cup {r} /\ AskedKept /\ Tracked' = Tracked
        /\ runs' = runs
    BY <1>3 DEF Asks, Tracked
  <2>2. runs[r].by # "gate"
    BY <2>1, AskedIdle DEF Lists, RunsHold
  <2>3. \A u \in Users : \A q : SameBuy(u, q)
    BY <2>1, <2>2 DEF SameBuy, GatedBuys, Running, AskedKept
  <2> QED
    BY <1>1, <2>1, <2>3
<1>4. ASSUME NEW r \in Requests, Numbers(r) PROVE CapHolds'
  <2>1. /\ Running(r) /\ runs'[r].by = runs[r].by /\ runs'[r].leg = runs[r].leg /\ UNCHANGED <<asked, book>>
        /\ \A q \in Requests : q # r => runs'[q] = runs[q]
    BY <1>4 DEF Numbers, RunBecomes, Running
  <2>2. Tracked' = Tracked /\ \A q : UserOf(q)' = UserOf(q) /\ ShapeOf(q)' = ShapeOf(q)
    BY <2>1 DEF Tracked, UserOf, ShapeOf
  <2>3. \A u \in Users : \A q : SameBuy(u, q)
    BY <1>0, <2>1, <2>2 DEF SameBuy, GatedBuys, Running
  <2> QED
    BY <1>1, <2>2, <2>3
<1>5. ASSUME NEW r \in Requests, NEW v \in Users, ManagerBegins(r, v) PROVE CapHolds'
  <2>1. /\ DOMAIN asked' = DOMAIN asked \cup {r} /\ AskedKept /\ runs'[r].by = "manager"
        /\ Tracked' = Tracked /\ \A q \in Requests : q # r => runs'[q] = runs[q]
    BY <1>5 DEF ManagerBegins, RunBecomes, Tracked
  <2>2. \A u \in Users : \A q : SameBuy(u, q)
    BY <1>0, <2>1 DEF SameBuy, GatedBuys, Running, AskedKept
  <2> QED
    BY <1>1, <2>1, <2>2
<1>7. ASSUME NEW o \in book, OrderOver(o) PROVE CapHolds'
  <2>1. Tracked' \subseteq Tracked /\ \A u \in Users : \A r : SameBuy(u, r)
    BY <1>7 DEF OrderOver, SameBuy, GatedBuys, Running, UserOf, ShapeOf, Tracked
  <2> QED
    BY <1>1, <2>1
<1>8. CASE Stops
  <2>1. /\ \A r \in Requests : /\ runs'[r].pc = (IF Running(r) THEN "over" ELSE runs[r].pc)
                               /\ runs'[r].by = runs[r].by /\ runs'[r].leg = runs[r].leg
        /\ Tracked' = Tracked /\ asked' = asked
    BY <1>8 DEF Stops
  <2>2. \A u \in Users : \A r : SameBuy(u, r)
    BY <1>0, <2>1 DEF SameBuy, GatedBuys, Running, UserOf, ShapeOf
  <2> QED
    BY <1>1, <2>1, <2>2
<1> QED
  BY <1>2, <1>3, <1>4, <1>5, <1>7, <1>8, BeginsCap, LegCap, Steps

\* The buys that passed check_can_place_order hold, with the legs still to be placed, no more than
\* max_open_exposure_krw: the legs are weighed once, and only one gated run is at work.
THEOREM WithinCap == EntrySpec => []GatedBuysWithinCap
<1>1. EntryInit => CapHolds
  <2> SUFFICES ASSUME EntryInit, NEW u \in Users PROVE LegsToCome(u) = {} /\ Held(u) = {}
    BY FS_EmptySet, EntryAssumption DEF CapHolds
  <2>1. GatedBuys(u) = {} /\ Tracked = {}
    BY DEF EntryInit, Empty, GatedBuys, Tracked
  <2> QED
    BY <2>1, ToCome DEF Held
<1>2. CapHolds => GatedBuysWithinCap
  <2> SUFFICES ASSUME NEW u \in Users
               PROVE  Exposure({o \in OpenOrders(u) : o.req \in GatedBuys(u)}) = Cardinality(Held(u))
    BY DEF CapHolds, GatedBuysWithinCap
  <2>1. {o \in {p \in OpenOrders(u) : p.req \in GatedBuys(u)} : ~ShapeOf(o.req).market} = Held(u)
    BY DEF OpenOrders, Held, GatedBuys, Tracked
  <2> QED
    BY <2>1 DEF Exposure
<1> QED
  BY <1>1, <1>2, InitCore, InitLists, NextCore, NextLists, NextCap, PTL DEF EntrySpec
====
