--------------------------- MODULE OrderSyncProofs ---------------------------
(***************************************************************************)
(* Proofs about OrderSync: for any volume, limits of failures and retries, *)
(* requests, and numbers of orders, requests and restarts.                 *)
(***************************************************************************)
EXTENDS OrderSync, FiniteSetTheorems, TLAPS

Index == mem.index
Obj == mem.obj
Ref == job["loop"].ref
Pc == job["loop"].pc
Visited == loop.todo \cup loop.asked \cup DOMAIN loop.answers
Queried == loop.asked \cup DOMAIN loop.answers
InHand == Visited \cup ({Ref} \ {NoDict})
Over(ans) == ans.state \in {"done", "cancel"}

\* An order that is not open at the exchange, or that the bot gave up where it says so.
Clear(u) == ~Live(u) \/ u \in orphaned

EntryFields == {"uuid", "kind", "vol", "filled", "status", "of"}
JobFields == {"pc", "ref", "ans", "n", "tries", "u", "own", "hit"}
LoopFields == {"phase", "todo", "asked", "answers"}
LoopPcs == {"free", "sell", "settle", "drop", "ask", "cancel", "recheck", "stop", "place", "look", "create"}
ApiPcs == {"free", "submit", "look", "create", "query", "cancel", "recheck"}

\* The list: a uuid leads to a dict that carries it.
Lists ==
    /\ DOMAIN Index \subseteq AnyUuid
    /\ DOMAIN Obj \subseteq Dicts
    /\ \A d \in DOMAIN Obj : DOMAIN Obj[d] = EntryFields /\ Obj[d].uuid \in AnyUuid
    /\ \A u \in DOMAIN Index : Index[u] \in DOMAIN Obj /\ Obj[Index[u]].uuid = u

Shapes ==
    /\ DOMAIN ex = Uuids /\ \A u \in Uuids : "state" \in DOMAIN ex[u]
    /\ DOMAIN loop = LoopFields /\ loop.phase \in {"recover", "scan"}
    /\ DOMAIN job = Actors
    /\ \A a \in Actors :
         /\ DOMAIN job[a] = JobFields
         /\ job[a].pc = "free" <=> job[a].ref = NoDict
         /\ job[a].hit \in AnyUuid
    /\ Pc \in LoopPcs /\ job["api"].pc \in ApiPcs

\* A dict is kept as long as a coroutine holds it or the list has it.
Dictionaries ==
    /\ Held \ {NoDict} \subseteq DOMAIN Obj
    /\ DOMAIN Obj \subseteq Held \cup Range(Index)
    /\ Cardinality(Visited) <= MaxOrders + 1 /\ NoDict \notin Visited

\* What has a uuid has been placed.
PlacedOnes ==
    /\ \A d \in DOMAIN Obj : Obj[d].uuid \in Uuids => ex[Obj[d].uuid].state # "none"
    /\ \A a \in Actors : job[a].hit \in Uuids => ex[job[a].hit].state # "none"

\* The loop has no two dicts of one order.
Apart ==
    /\ loop.todo \cap Queried = {} /\ loop.asked \cap DOMAIN loop.answers = {}
    /\ Ref \notin Visited
    /\ \A d \in InHand, e \in InHand : Obj[d].uuid = Obj[e].uuid => d = e

Submitting == job["api"].pc \in {"submit", "look", "create"}
ApiMeets ==
    LET u == Obj[job["api"].ref].uuid
    IN  Submitting /\ Has(mem, u) /\ mem.index[u] \in InHand => \A d \in InHand : Has(mem, Obj[d].uuid)

Acting == {"sell", "settle", "drop", "ask", "cancel", "recheck", "stop", "place"}
ActedOn == Queried \cup {d \in {Ref} : Pc \in Acting}
NotWaiting ==
    loop.phase = "scan" => \A d \in ActedOn : d \in Range(Index) => Obj[d].status # "waiting"

AnswersHold ==
    /\ \A d \in DOMAIN loop.answers : Over(loop.answers[d]) => Clear(Obj[d].uuid)
    /\ DOMAIN loop.answers # {} => loop.phase = "scan"

JobsHold ==
    /\ loop.phase = "scan" /\ Pc \in {"sell", "settle", "drop"} /\ Over(job["loop"].ans) => Clear(Obj[Ref].uuid)
    /\ Pc = "drop" => Over(job["loop"].ans)
    /\ Pc = "ask" => job["loop"].own = Obj[Ref].uuid
    /\ Pc \in {"cancel", "recheck", "stop"} => job["loop"].u = Obj[Ref].uuid
    /\ Pc = "place" => Clear(Obj[Ref].uuid)
    /\ Pc \in Acting \ {"sell"} => loop.phase = "scan"
    /\ \A a \in Actors :
         job[a].pc \in Cancelling /\ Reached(a) => job[a].hit = job[a].u /\ ~Live(job[a].u)

WaitingAreClear == \A d \in DOMAIN Obj : Obj[d].status = "waiting" => reserving /\ Clear(Obj[d].uuid)
KnownAreTracked == \A d \in DOMAIN Obj : Clear(Obj[d].uuid) \/ Has(mem, Obj[d].uuid)
Tracked == \A u \in Uuids : Live(u) /\ u \notin orphaned \cup InFlight => Has(mem, u)

MemoryPart == Lists /\ Dictionaries /\ PlacedOnes /\ WaitingAreClear /\ KnownAreTracked /\ Tracked
ControlPart == Apart /\ ApiMeets /\ NotWaiting /\ AnswersHold /\ JobsHold

\* After two submissions of one order (`raced`) nothing of this holds.
SyncInv == raced \/ (Shapes /\ MemoryPart /\ ControlPart)

(***************************************************************************)
(* Dictionaries not in use.                                                *)
(***************************************************************************)
\* Of the numbers of a finite set each is the k-th for one k, and each k has one.
LEMMA KthOf ==
    ASSUME NEW S \in SUBSET Nat, IsFiniteSet(S), NEW k \in 1..Cardinality(S)
    PROVE  \E d \in S : Cardinality({f \in S : f <= d}) = k
<1> DEFINE Below(d) == {f \in S : f <= d}
           N == Cardinality(S)
           count == [d \in S |-> Cardinality(Below(d))]
<1>1. N \in Nat
  BY FS_CardinalityType
<1>2. ASSUME NEW d \in S
      PROVE  IsFiniteSet(Below(d)) /\ Cardinality(Below(d)) \in 1..N
  <2>1. Below(d) \in SUBSET S /\ d \in Below(d)
    OBVIOUS
  <2>2. IsFiniteSet(Below(d)) /\ Cardinality(Below(d)) <= N
    BY <2>1, FS_Subset
  <2>3. Cardinality(Below(d)) \in Nat /\ Cardinality(Below(d)) # 0
    BY <2>1, <2>2, FS_CardinalityType, FS_EmptySet
  <2> QED
    BY <1>1, <2>2, <2>3
<1>3. ASSUME NEW d \in S, NEW e \in S, d < e
      PROVE  Cardinality(Below(d)) # Cardinality(Below(e))
  <2>1. d \in Nat /\ e \in Nat /\ \A f \in S : f \in Nat
    OBVIOUS
  <2>2. \A f \in Below(d) : f \in Below(e)
    BY <1>3, <2>1
  <2>3. e \in Below(e) /\ e \notin Below(d)
    BY <1>3, <2>1
  <2>4. Below(d) \in SUBSET Below(e) /\ e \in Below(e) /\ e \notin Below(d)
    BY <2>2, <2>3
  <2> QED
    BY <1>2, <2>4, FS_Subset
<1>4. count \in Injection(S, 1..N)
  <2>1. count \in [S -> 1..N]
    BY <1>2
  <2>2. ASSUME NEW d \in S, NEW e \in S, count[d] = count[e]
        PROVE  d = e
    <3>1. d \in Nat /\ e \in Nat
      OBVIOUS
    <3>2. ~(d < e) /\ ~(e < d)
      BY <1>3, <2>2
    <3> QED
      BY <3>1, <3>2
  <2> QED
    BY <2>1, <2>2 DEF Injection, IsInjective
<1>5. IsFiniteSet(1..N) /\ Cardinality(1..N) = N
  BY <1>1, FS_Interval
<1>6. count \in Surjection(S, 1..N)
  BY <1>4, <1>5, FS_Injection
<1>7. PICK d \in S : count[d] = k
  BY <1>6 DEF Surjection
<1> QED
  BY <1>7

LEMMA FreeDictIsFree ==
    ASSUME NEW m, DOMAIN m.obj \subseteq Dicts,
           NEW k \in 1..Cardinality(Dicts \ DOMAIN m.obj)
    PROVE  /\ FreeDict(m, k) \in Dicts \ DOMAIN m.obj
           /\ Cardinality({f \in Dicts \ DOMAIN m.obj : f <= FreeDict(m, k)}) = k
<1> DEFINE free == Dicts \ DOMAIN m.obj
<1>1. IsFiniteSet(Dicts) /\ Dicts \subseteq Nat
  BY SyncAssumption, FS_Interval DEF Dicts
<1>2. free \in SUBSET Nat /\ IsFiniteSet(free)
  BY <1>1, FS_Difference
<1>3. \E d \in free : Cardinality({f \in free : f <= d}) = k
  BY <1>2, KthOf
<1> QED
  BY <1>3 DEF FreeDict

(***************************************************************************)
(* What a stretch of code does to the list and to the dicts.               *)
(***************************************************************************)
\* m is the memory with other fills and statuses, of which only those of W may be "waiting".
LikeBut(m, W) ==
    /\ m.index = Index
    /\ DOMAIN m.obj = DOMAIN Obj
    /\ \A d \in DOMAIN Obj :
         /\ DOMAIN m.obj[d] = EntryFields
         /\ m.obj[d].uuid = Obj[d].uuid
         /\ m.obj[d].status = "waiting" =>
              Obj[d].status = "waiting" \/ \E x \in W : x \in DOMAIN Index /\ Index[x] = d

\* Orders G leave the list; of the entries that stay only those of W may begin to wait.
Rewrites(G, W) ==
    /\ DOMAIN Index' = DOMAIN Index \ G
    /\ \A u \in DOMAIN Index' : Index'[u] = Index[u]
    /\ DOMAIN Obj' = DOMAIN Obj \cap (Held' \cup Range(Index'))
    /\ \A d \in DOMAIN Obj' :
         /\ DOMAIN Obj'[d] = EntryFields
         /\ Obj'[d].uuid = Obj[d].uuid
         /\ Obj'[d].status = "waiting" =>
              Obj[d].status = "waiting" \/ \E x \in W : x \in DOMAIN Index /\ Index[x] = d

LEMMA SameLike == Lists => LikeBut(mem, {})
  BY DEF Lists, LikeBut, Index, Obj

LEMMA RewrittenLike ==
    ASSUME NEW m, NEW W, LikeBut(m, {}), NEW d \in DOMAIN Obj, NEW e,
           DOMAIN e = EntryFields, e.uuid = Obj[d].uuid,
           e.status = "waiting" => \E x \in W : x \in DOMAIN Index /\ Index[x] = d
    PROVE  LikeBut(Rewritten(m, d, e), W)
<1>1. /\ Rewritten(m, d, e).index = Index
      /\ DOMAIN Rewritten(m, d, e).obj = DOMAIN Obj
      /\ Rewritten(m, d, e).obj[d] = e
      /\ \A f \in DOMAIN Obj : f # d => Rewritten(m, d, e).obj[f] = m.obj[f]
  BY DEF LikeBut, Rewritten
<1> QED
  BY <1>1 DEF LikeBut

LEMMA UpdateFillLike ==
    ASSUME NEW m, Lists, LikeBut(m, {}), NEW u, NEW v
    PROVE  LikeBut(UpdateFill(m, u, v), {})
<1>1. CASE u \notin DOMAIN m.index
  BY <1>1 DEF UpdateFill, Has
<1>2. CASE u \in DOMAIN m.index
  <2> DEFINE e == [At(m, u) EXCEPT !.filled = v, !.status = "placed"]
             d == m.index[u]
  <2>1. d \in DOMAIN Obj /\ m.obj[d] = At(m, u) /\ DOMAIN m.obj[d] = EntryFields
        /\ m.obj[d].uuid = Obj[d].uuid
    BY <1>2 DEF Lists, LikeBut, At
  <2>2. DOMAIN e = EntryFields /\ e.uuid = At(m, u).uuid /\ e.status = "placed"
    BY <2>1 DEF EntryFields
  <2>3. LikeBut(Rewritten(m, d, e), {})
    BY <2>1, <2>2, RewrittenLike
  <2> QED
    BY <1>2, <2>3 DEF UpdateFill, Has
<1> QED
  BY <1>1, <1>2

LEMMA UpdateStatusLike ==
    ASSUME NEW m, Lists, LikeBut(m, {}), NEW u, NEW s
    PROVE  /\ LikeBut(UpdateStatus(m, u, s), {u})
           /\ s # "waiting" => LikeBut(UpdateStatus(m, u, s), {})
<1>1. CASE u \notin DOMAIN m.index
  BY <1>1 DEF UpdateStatus, Has, LikeBut
<1>2. CASE u \in DOMAIN m.index
  <2> DEFINE e == [At(m, u) EXCEPT !.status = s]
             d == m.index[u]
  <2>1. d \in DOMAIN Obj /\ m.obj[d] = At(m, u) /\ DOMAIN m.obj[d] = EntryFields
        /\ m.obj[d].uuid = Obj[d].uuid /\ u \in DOMAIN Index /\ Index[u] = d
    BY <1>2 DEF Lists, LikeBut, At
  <2>2. DOMAIN e = EntryFields /\ e.uuid = At(m, u).uuid /\ e.status = s
    BY <2>1 DEF EntryFields
  <2>3. LikeBut(Rewritten(m, d, e), {u})
    BY <2>1, <2>2, RewrittenLike
  <2>4. s # "waiting" => LikeBut(Rewritten(m, d, e), {})
    BY <2>1, <2>2, RewrittenLike
  <2> QED
    BY <1>2, <2>3, <2>4 DEF UpdateStatus, Has
<1> QED
  BY <1>1, <1>2

LEMMA MemoryIs ==
    ASSUME NEW m, Memory(m)
    PROVE  /\ Index' = m.index
           /\ DOMAIN Obj' = DOMAIN m.obj \cap (Held' \cup Range(m.index))
           /\ \A d \in DOMAIN Obj' : Obj'[d] = m.obj[d]
  BY DEF Memory, Index, Obj, Restrict

LEMMA RewritesOf ==
    ASSUME NEW m, NEW W, LikeBut(m, W), Memory(m)
    PROVE  Rewrites({}, W)
<1>1. /\ Index' = m.index
      /\ DOMAIN Obj' = DOMAIN m.obj \cap (Held' \cup Range(m.index))
      /\ \A d \in DOMAIN Obj' : Obj'[d] = m.obj[d]
  BY MemoryIs
<1> QED
  BY <1>1 DEF LikeBut, Rewrites

LEMMA RemovesOf ==
    ASSUME NEW m, NEW W, LikeBut(m, W), NEW u, Memory(RemoveOrder(m, u))
    PROVE  Rewrites({u}, W)
<1> DEFINE removed == RemoveOrder(m, u)
<1>1. /\ Index' = removed.index
      /\ DOMAIN Obj' = DOMAIN removed.obj \cap (Held' \cup Range(Index'))
      /\ \A d \in DOMAIN Obj' : Obj'[d] = removed.obj[d]
  BY MemoryIs
<1>2. removed.index = Restrict(m.index, DOMAIN m.index \ {u}) /\ removed.obj = m.obj
  BY DEF RemoveOrder
<1>3. DOMAIN Index' = DOMAIN Index \ {u} /\ \A v \in DOMAIN Index' : Index'[v] = Index[v]
  BY <1>1, <1>2 DEF LikeBut, Restrict
<1>4. /\ DOMAIN Obj' = DOMAIN Obj \cap (Held' \cup Range(Index'))
      /\ \A d \in DOMAIN Obj' : d \in DOMAIN Obj /\ Obj'[d] = m.obj[d]
  BY <1>1, <1>2 DEF LikeBut
<1>5. \A d \in DOMAIN Obj' :
         /\ DOMAIN Obj'[d] = EntryFields
         /\ Obj'[d].uuid = Obj[d].uuid
         /\ Obj'[d].status = "waiting" =>
              Obj[d].status = "waiting" \/ \E x \in W : x \in DOMAIN Index /\ Index[x] = d
  BY <1>4 DEF LikeBut
<1> QED
  BY <1>3, <1>4, <1>5 DEF Rewrites

(***************************************************************************)
(* The list and the dicts, when no dict is added.                          *)
(***************************************************************************)
\* Neither the exchange nor a past mistake changes in a stretch of code.
Quiet ==
    ex' = ex /\ reserving' = reserving /\ orphaned \subseteq orphaned' /\ DOMAIN loop' = LoopFields

\* The coroutines hold no dict that they did not hold, unless it is listed.
HeldKept == Held' \ {NoDict} \subseteq Held \cup Range(Index')

\* Nothing is lost with an order that is over, given up or listed.
Settled(u) == Clear(u)' \/ u \in DOMAIN Index'

LEMMA GivenUpIsSettled == ASSUME NEW u, u \in orphaned' PROVE Settled(u)
  BY DEF Settled, Clear

LEMMA ClearKept == ASSUME Quiet, NEW u, Clear(u) PROVE Clear(u)'
  BY DEF Quiet, Clear, Live, Uuids

LEMMA ClearSince ==
    ASSUME Quiet, NEW u
    PROVE  (Live(u) <=> Live(u)') /\ (u \in orphaned => u \in orphaned')
  BY DEF Quiet, Live

LEMMA RewritesKeepLists ==
    ASSUME Lists, Dictionaries, NEW G, NEW W, Rewrites(G, W), HeldKept
    PROVE  /\ Lists' /\ DOMAIN Obj' \subseteq DOMAIN Obj
           /\ Held' \ {NoDict} \subseteq DOMAIN Obj'
           /\ DOMAIN Obj' \subseteq Held' \cup Range(Index')
           /\ Range(Index') \subseteq Range(Index)
<1>1. Range(Index') \subseteq Range(Index) /\ Range(Index) \subseteq DOMAIN Obj
  BY DEF Rewrites, Range, Lists
<1>2. DOMAIN Obj' \subseteq DOMAIN Obj /\ DOMAIN Obj' \subseteq Held' \cup Range(Index')
  BY DEF Rewrites
<1>3. Held' \ {NoDict} \subseteq DOMAIN Obj
  BY <1>1 DEF HeldKept, Dictionaries
<1>4. Held' \ {NoDict} \subseteq DOMAIN Obj'
  BY <1>3 DEF Rewrites
<1>5. \A u \in DOMAIN Index' : Index'[u] \in DOMAIN Obj'
  BY DEF Rewrites, Range, Lists
<1>6. Lists'
  <2>1. DOMAIN Index' \subseteq AnyUuid
    BY DEF Lists, Rewrites
  <2>2. DOMAIN Obj' \subseteq Dicts
    BY <1>2 DEF Lists
  <2>3. \A d \in DOMAIN Obj' : DOMAIN Obj'[d] = EntryFields /\ Obj'[d].uuid \in AnyUuid
    BY <1>2 DEF Lists, Rewrites
  <2>4. \A u \in DOMAIN Index' : Index'[u] \in DOMAIN Obj' /\ Obj'[Index'[u]].uuid = u
    BY <1>2, <1>5 DEF Lists, Rewrites
  <2> QED
    BY <2>1, <2>2, <2>3, <2>4 DEF Lists
<1> QED
  BY <1>1, <1>2, <1>4, <1>6

LEMMA RewritesKeepMemory ==
    ASSUME MemoryPart, Quiet, NEW G, NEW W, Rewrites(G, W), HeldKept,
           \A x \in G \cup W : Clear(x)', W # {} => reserving,
           Cardinality(Visited') <= MaxOrders + 1, NoDict \notin Visited',
           \A u \in InFlight : u \in InFlight' \/ Settled(u),
           \A a \in Actors : job'[a].hit \in Uuids => ex[job'[a].hit].state # "none"
    PROVE  MemoryPart' /\ Range(Index') \subseteq Range(Index) /\ DOMAIN Obj' \subseteq DOMAIN Obj
<1>1. /\ Lists' /\ DOMAIN Obj' \subseteq DOMAIN Obj
      /\ Held' \ {NoDict} \subseteq DOMAIN Obj'
      /\ DOMAIN Obj' \subseteq Held' \cup Range(Index')
      /\ Range(Index') \subseteq Range(Index)
  BY RewritesKeepLists DEF MemoryPart
<1>2. Dictionaries'
  BY <1>1 DEF Dictionaries
<1>3. \A d \in DOMAIN Obj' : Obj'[d].uuid = Obj[d].uuid
  BY DEF Rewrites
<1>4. PlacedOnes'
  BY <1>1, <1>3 DEF PlacedOnes, MemoryPart, Quiet
<1>5. WaitingAreClear'
  <2> SUFFICES ASSUME NEW d \in DOMAIN Obj', Obj'[d].status = "waiting", NEW u, u = Obj'[d].uuid
               PROVE  reserving' /\ Clear(u)'
    BY DEF WaitingAreClear
  <2>0. u = Obj[d].uuid /\ d \in DOMAIN Obj
    BY <1>1, <1>3
  <2>1. CASE Obj[d].status = "waiting"
    <3>1. reserving /\ Clear(u)
      BY <2>0, <2>1 DEF MemoryPart, WaitingAreClear
    <3> QED
      BY <3>1, ClearKept DEF Quiet
  <2>2. CASE \E x \in W : x \in DOMAIN Index /\ Index[x] = d
    <3>1. Clear(u)'
      BY <2>0, <2>2 DEF MemoryPart, Lists
    <3> QED
      BY <2>2, <3>1 DEF Quiet
  <2> QED
    BY <2>1, <2>2 DEF Rewrites
<1>6. KnownAreTracked'
  <2> SUFFICES ASSUME NEW d \in DOMAIN Obj', NEW u, u = Obj'[d].uuid, ~Clear(u)'
               PROVE  u \in DOMAIN Index'
    BY DEF KnownAreTracked, Has, Index
  <2>0. u = Obj[d].uuid /\ d \in DOMAIN Obj
    BY <1>1, <1>3
  <2>1. ~Clear(u)
    BY ClearKept
  <2>2. u \in DOMAIN Index
    BY <2>0, <2>1 DEF MemoryPart, KnownAreTracked, Has, Index
  <2> QED
    BY <2>2 DEF Rewrites
<1>7. Tracked'
  <2> SUFFICES ASSUME NEW u \in Uuids, Live(u)', u \notin orphaned' \cup InFlight'
               PROVE  u \in DOMAIN Index'
    BY DEF Tracked, Has, Index
  <2>1. Live(u) /\ u \notin orphaned /\ ~Clear(u)'
    BY ClearSince DEF Clear
  <2>2. CASE u \in InFlight
    BY <2>1, <2>2 DEF Settled
  <2>3. CASE u \notin InFlight
    <3>1. u \in DOMAIN Index
      BY <2>1, <2>3 DEF MemoryPart, Tracked, Has, Index
    <3> QED
      BY <2>1, <3>1 DEF Rewrites
  <2> QED
    BY <2>2, <2>3
<1> QED
  BY <1>1, <1>2, <1>4, <1>5, <1>6, <1>7 DEF MemoryPart

(***************************************************************************)
(* What the loop does about one dict d: it lets go of it or goes on with   *)
(* it, and changes nothing but the entry of the order.                     *)
(***************************************************************************)
LoopJob(d) ==
    LET j == job'["loop"]
        u == Obj[d].uuid
    IN  /\ j.ref = NoDict \/ (j.ref = d /\ d \in InHand)
        /\ loop.phase = "scan" /\ j.pc \in {"sell", "settle", "drop"} /\ Over(j.ans) => Clear(u)
        /\ j.pc = "drop" => Over(j.ans)
        /\ j.pc = "ask" => j.own = u
        /\ j.pc \in {"cancel", "recheck", "stop"} => j.u = u
        /\ j.pc = "place" => Clear(u)
        /\ j.pc \in Acting \ {"sell"} => loop.phase = "scan"
        /\ j.pc \in Acting /\ loop.phase = "scan" => d \in ActedOn \/ Obj[d].status # "waiting"
        /\ j.pc \in Cancelling /\ j.hit # Reserved => j.hit = j.u /\ ~Live(j.u)
        /\ j.hit \in Uuids => ex[j.hit].state # "none"

LoopTurn(d, G, W) ==
    /\ Quiet /\ loop'.phase = loop.phase
    /\ loop'.todo \subseteq loop.todo \ {d} /\ loop'.asked \subseteq loop.asked \ {d}
    /\ DOMAIN loop'.answers \subseteq DOMAIN loop.answers \ {d}
    /\ \A e \in DOMAIN loop'.answers : loop'.answers[e] = loop.answers[e]
    /\ job'["api"] = job["api"]
    /\ LoopJob(d)
    /\ Rewrites(G, W) /\ (W # {} => reserving)
    /\ \A x \in G \cup W : x = Obj[d].uuid /\ Clear(x)' /\ d \in InHand /\ job'["loop"].ref = NoDict
    /\ \A u \in Lost("loop") : u \in Lost("loop")' \/ Settled(u)

LEMMA InHandIsKnown == ASSUME Dictionaries PROVE InHand \subseteq DOMAIN Obj
  BY DEF Dictionaries, InHand, Held, Visited, Ref, Actors

LEMMA InHandStaysKnown == ASSUME Dictionaries' PROVE InHand' \subseteq DOMAIN Obj'
  BY DEF Dictionaries, InHand, Held, Visited, Ref, Actors

LEMMA FewerVisited ==
    ASSUME Lists, Dictionaries, NEW S, S \subseteq Visited
    PROVE  Cardinality(S) <= MaxOrders + 1 /\ IsFiniteSet(S)
<1>1. IsFiniteSet(Dicts)
  BY SyncAssumption, FS_Interval DEF Dicts
<1>2. Visited \in SUBSET Dicts
  BY InHandIsKnown DEF InHand, Lists
<1>3. IsFiniteSet(Visited)
  BY <1>1, <1>2, FS_Subset
<1>4. IsFiniteSet(S) /\ Cardinality(S) <= Cardinality(Visited)
  BY <1>3, FS_Subset
<1>5. Cardinality(S) \in Nat /\ Cardinality(Visited) \in Nat
  BY <1>3, <1>4, FS_CardinalityType
<1> QED
  BY <1>4, <1>5, SyncAssumption DEF Dictionaries

LEMMA LoopTurnHands ==
    ASSUME Shapes, Lists, Dictionaries, Apart, Shapes', NEW d, NEW G, NEW W, LoopTurn(d, G, W)
    PROVE  /\ HeldKept /\ Visited' \subseteq Visited \ {d} /\ InHand' \subseteq InHand
           /\ ActedOn' \subseteq (ActedOn \ {d}) \cup {e \in {d} : Pc' \in Acting /\ Ref' = d}
           /\ Ref' \notin Visited' /\ Ref' \in {NoDict, d}
           /\ loop'.todo \cap Queried' = {} /\ loop'.asked \cap DOMAIN loop'.answers = {}
           /\ Queried' \subseteq Queried \ {d}
           /\ Cardinality(Visited') <= MaxOrders + 1 /\ NoDict \notin Visited'
<1>1. Visited' \subseteq Visited \ {d} /\ Queried' \subseteq Queried \ {d}
  BY DEF LoopTurn, Visited, Queried
<1>2. Ref' \in {NoDict, d} /\ (Ref' # NoDict => d \in InHand)
  BY DEF LoopTurn, LoopJob, Ref
<1>3. NoDict \notin Visited' /\ Cardinality(Visited') <= MaxOrders + 1
  BY <1>1, FewerVisited DEF Dictionaries
<1>4. Ref' \notin Visited'
  BY <1>1, <1>2, <1>3
<1>5. InHand' \subseteq InHand
  BY <1>1, <1>2 DEF InHand
<1>6. HeldKept
  BY <1>5 DEF HeldKept, LoopTurn, Held, InHand, Visited, Ref, Actors
<1>7. loop'.todo \cap Queried' = {} /\ loop'.asked \cap DOMAIN loop'.answers = {}
  BY DEF LoopTurn, Apart, Queried
<1>8. \A e \in ActedOn' : e \in Queried' \/ (e = Ref' /\ Pc' \in Acting)
  BY DEF ActedOn
<1>9. Pc' \in Acting => Ref' # NoDict
  BY DEF Shapes, Acting, Ref, Pc, Actors
<1>10. ActedOn' \subseteq (ActedOn \ {d}) \cup {e \in {d} : Pc' \in Acting /\ Ref' = d}
  BY <1>1, <1>2, <1>8, <1>9 DEF ActedOn
<1> QED
  BY <1>1, <1>2, <1>3, <1>4, <1>5, <1>6, <1>7, <1>10

LEMMA InFlightIs ==
    /\ InFlight = Lost("loop") \cup Lost("api")
    /\ InFlight' = Lost("loop")' \cup Lost("api")'
  BY DEF InFlight, Actors

LEMMA LoopTurnKeepsMemory ==
    ASSUME Shapes, MemoryPart, Apart, Shapes', NEW d, NEW G, NEW W, LoopTurn(d, G, W)
    PROVE  MemoryPart' /\ Range(Index') \subseteq Range(Index) /\ DOMAIN Obj' \subseteq DOMAIN Obj
<1>1. /\ HeldKept /\ Cardinality(Visited') <= MaxOrders + 1 /\ NoDict \notin Visited'
  BY LoopTurnHands DEF MemoryPart
<1>2. Quiet /\ Rewrites(G, W) /\ (W # {} => reserving) /\ \A x \in G \cup W : Clear(x)'
  BY DEF LoopTurn
<1>3. \A u \in InFlight : u \in InFlight' \/ Settled(u)
  <2>1. Lost("api")' = Lost("api")
    BY DEF LoopTurn, Lost
  <2> QED
    BY <2>1, InFlightIs DEF LoopTurn
<1>4. \A a \in Actors : job'[a].hit \in Uuids => ex[job'[a].hit].state # "none"
  BY DEF LoopTurn, LoopJob, MemoryPart, PlacedOnes, Actors
<1> QED
  BY <1>1, <1>2, <1>3, <1>4, RewritesKeepMemory

LEMMA LoopTurnKeeps ==
    ASSUME Shapes, MemoryPart, ControlPart, Shapes', NEW d, NEW G, NEW W, LoopTurn(d, G, W)
    PROVE  MemoryPart' /\ ControlPart'
<1>1. MemoryPart' /\ Range(Index') \subseteq Range(Index) /\ DOMAIN Obj' \subseteq DOMAIN Obj
  BY LoopTurnKeepsMemory DEF ControlPart
<1>2. /\ HeldKept /\ Visited' \subseteq Visited \ {d} /\ InHand' \subseteq InHand
      /\ ActedOn' \subseteq (ActedOn \ {d}) \cup {e \in {d} : Pc' \in Acting /\ Ref' = d}
      /\ Ref' \notin Visited' /\ Ref' \in {NoDict, d}
      /\ loop'.todo \cap Queried' = {} /\ loop'.asked \cap DOMAIN loop'.answers = {}
      /\ Queried' \subseteq Queried \ {d}
  BY LoopTurnHands DEF MemoryPart, ControlPart
<1>3. InHand' \subseteq DOMAIN Obj'
  BY <1>1, InHandStaysKnown DEF MemoryPart
<1>4. \A e \in DOMAIN Obj' : Obj'[e].uuid = Obj[e].uuid
  BY DEF LoopTurn, Rewrites
<1>5. \A e \in InHand, f \in InHand : Obj[e].uuid = Obj[f].uuid => e = f
  BY DEF ControlPart, Apart
<1>6. Apart'
  <2>1. \A e \in InHand', f \in InHand' : Obj'[e].uuid = Obj'[f].uuid => e = f
    BY <1>2, <1>3, <1>4, <1>5
  <2> QED
    BY <1>2, <2>1 DEF Apart
<1>7. ASSUME NEW x \in G \cup W, NEW e \in InHand', Obj[e].uuid = x
      PROVE  FALSE
  <2>1. x = Obj[d].uuid /\ d \in InHand /\ Ref' = NoDict
    BY <1>7 DEF LoopTurn, Ref
  <2>2. e = d
    BY <1>2, <1>5, <1>7, <2>1
  <2> QED
    BY <1>2, <1>7, <2>1, <2>2 DEF InHand
<1>8. ApiMeets'
  <2>1. job'["api"] = job["api"]
    BY DEF LoopTurn
  <2>2. SUFFICES ASSUME Submitting, NEW u, u = Obj'[job["api"].ref].uuid,
                        u \in DOMAIN Index', Index'[u] \in InHand', NEW e \in InHand'
                 PROVE  Obj'[e].uuid \in DOMAIN Index'
    BY <2>1 DEF ApiMeets, Submitting, Has, Index, Obj
  <2>3. job["api"].ref \in DOMAIN Obj'
    <3>1. job'["api"].ref # NoDict /\ job'["api"].ref \in Held'
      BY <2>1, <2>2 DEF Submitting, Shapes, Actors, Held
    <3> QED
      BY <1>1, <2>1, <3>1 DEF MemoryPart, Dictionaries
  <2>4. u = Obj[job["api"].ref].uuid /\ u \in DOMAIN Index /\ Index[u] \in InHand
    BY <1>2, <1>4, <2>2, <2>3 DEF LoopTurn, Rewrites
  <2>5. Obj[e].uuid \in DOMAIN Index
    BY <1>2, <2>2, <2>4 DEF ControlPart, ApiMeets, Has, Index, Obj
  <2>6. Obj[e].uuid \notin G
    BY <1>7
  <2> QED
    BY <1>3, <1>4, <2>5, <2>6 DEF LoopTurn, Rewrites
<1>9. NotWaiting'
  <2> SUFFICES ASSUME loop.phase = "scan", NEW e \in ActedOn', e \in Range(Index'), Obj'[e].status = "waiting"
               PROVE  FALSE
    BY DEF NotWaiting, LoopTurn
  <2>1. e \in InHand'
    BY <1>2 DEF ActedOn, InHand, Visited, Queried, Shapes, Acting, Ref, Pc, Actors
  <2>2. e \in DOMAIN Obj'
    BY <2>1, <1>3
  <2>3. Obj[e].status # "waiting"
    <3>1. CASE e \in ActedOn
      BY <3>1, <1>1 DEF ControlPart, NotWaiting
    <3>2. CASE e = d /\ Pc' \in Acting /\ d \notin ActedOn
      BY <3>2 DEF LoopTurn, LoopJob, Pc
    <3> QED
      BY <1>2, <3>1, <3>2
  <2>4. PICK x \in W : x \in DOMAIN Index /\ Index[x] = e
    BY <2>2, <2>3 DEF LoopTurn, Rewrites
  <2>5. Obj[e].uuid = x
    BY <2>4 DEF MemoryPart, Lists
  <2> QED
    BY <1>7, <2>1, <2>4, <2>5
<1>10. AnswersHold'
  <2>1. ASSUME NEW e \in DOMAIN loop'.answers, Over(loop'.answers[e]), NEW u, u = Obj'[e].uuid
        PROVE  Clear(u)'
    <3>1. e \in DOMAIN loop.answers /\ loop'.answers[e] = loop.answers[e]
      BY DEF LoopTurn
    <3>2. e \in InHand'
      BY DEF InHand, Visited
    <3>3. u = Obj[e].uuid
      BY <1>3, <1>4, <2>1, <3>2
    <3>4. Clear(u)
      BY <2>1, <3>1, <3>3 DEF ControlPart, AnswersHold, Over
    <3> QED
      BY <3>4, ClearKept DEF LoopTurn
  <2>2. DOMAIN loop'.answers # {} => loop'.phase = "scan"
    BY DEF LoopTurn, ControlPart, AnswersHold
  <2> QED
    BY <2>1, <2>2 DEF AnswersHold
<1>11. JobsHold'
  <2>1. PICK u : u = Obj[d].uuid
    OBVIOUS
  <2>2. Pc' \in Acting => Ref' = d /\ Obj'[Ref'].uuid = u
    <3>1. Pc' \in Acting => Ref' # NoDict
      BY DEF Shapes, Acting, Ref, Pc, Actors
    <3>2. Pc' \in Acting => d \in InHand'
      BY <1>2, <3>1 DEF InHand
    <3> QED
      BY <1>2, <1>3, <1>4, <2>1, <3>1, <3>2
  <2>3. Clear(u) => Clear(u)'
    BY ClearKept DEF LoopTurn
  <2>4. /\ loop'.phase = "scan" /\ Pc' \in {"sell", "settle", "drop"} /\ Over(job'["loop"].ans) => Clear(u)'
        /\ Pc' = "place" => Clear(u)'
    BY <2>1, <2>3 DEF LoopTurn, LoopJob, Pc
  <2>5. /\ Pc' = "drop" => Over(job'["loop"].ans)
        /\ Pc' = "ask" => job'["loop"].own = u
        /\ Pc' \in {"cancel", "recheck", "stop"} => job'["loop"].u = u
        /\ Pc' \in Acting \ {"sell"} => loop'.phase = "scan"
    BY <2>1 DEF LoopTurn, LoopJob, Pc
  <2>6. ASSUME NEW a \in Actors, job'[a].pc \in Cancelling, job'[a].hit # Reserved
        PROVE  job'[a].hit = job'[a].u /\ ~(job'[a].u \in Uuids /\ ex'[job'[a].u].state = "wait")
    <3>1. PICK v : v = job'[a].u
      OBVIOUS
    <3>2. job'[a].hit = v /\ ~Live(v)
      BY <2>6, <3>1 DEF LoopTurn, LoopJob, ControlPart, JobsHold, Reached, Actors
    <3>3. ~Live(v)'
      BY <3>2, ClearSince DEF LoopTurn
    <3>4. ~Live(v)' => ~(v \in Uuids /\ ex'[v].state = "wait")
      BY DEF Live
    <3> QED
      BY <3>1, <3>2, <3>3, <3>4
  <2>7. \A a \in Actors :
          job'[a].pc \in Cancelling /\ Reached(a)' => job'[a].hit = job'[a].u /\ ~Live(job[a].u)'
    BY <2>6 DEF Reached, Live
  <2>8. /\ loop'.phase = "scan" /\ Pc' \in {"sell", "settle", "drop"} /\ Over(job'["loop"].ans)
             => Clear(Obj[Ref].uuid)'
        /\ Pc' = "place" => Clear(Obj[Ref].uuid)'
    BY <2>2, <2>4 DEF Acting, Clear, Live
  <2> QED
    BY <2>2, <2>5, <2>7, <2>8 DEF JobsHold, Acting
<1> QED
  BY <1>1, <1>6, <1>8, <1>9, <1>10, <1>11 DEF ControlPart

(***************************************************************************)
(* What a request does: its job goes on or is over, and an order may leave *)
(* the list.                                                               *)
(***************************************************************************)
ApiTurn(G) ==
    /\ Quiet /\ loop' = loop /\ job'["loop"] = job["loop"]
    /\ job'["api"].ref \in {NoDict, job["api"].ref} \cup Range(Index')
    /\ Submitting' => Submitting /\ job'["api"].ref = job["api"].ref /\ G = {}
    /\ job'["api"].pc \in Cancelling /\ job'["api"].hit # Reserved =>
         job'["api"].hit = job'["api"].u /\ ~Live(job'["api"].u)
    /\ job'["api"].hit \in Uuids => ex[job'["api"].hit].state # "none"
    /\ Rewrites(G, {})
    /\ \A x \in G : Clear(x)'
    /\ \A u \in Lost("api") : u \in Lost("api")' \/ Settled(u)

\* While the loop is not on, what it has in hand is what it had.
LoopStands == loop' = loop /\ job'["loop"] = job["loop"]

LEMMA LoopStandsHands ==
    ASSUME LoopStands
    PROVE  Visited' = Visited /\ Queried' = Queried /\ Ref' = Ref /\ Pc' = Pc /\ InHand' = InHand /\ ActedOn' = ActedOn
  BY DEF LoopStands, Visited, Queried, Ref, Pc, InHand, ActedOn

LEMMA LoopStandsControl ==
    ASSUME Shapes, Dictionaries, ControlPart, LoopStands, Quiet,
           \A e \in InHand : Obj'[e].uuid = Obj[e].uuid,
           \A a \in Actors : job'[a].pc \in Cancelling /\ job'[a].hit # Reserved =>
                             job'[a].hit = job'[a].u /\ ~Live(job'[a].u)
    PROVE  Apart' /\ AnswersHold' /\ JobsHold'
<1>1. Visited' = Visited /\ Queried' = Queried /\ Ref' = Ref /\ Pc' = Pc /\ InHand' = InHand /\ ActedOn' = ActedOn
  BY LoopStandsHands
<1>2. Apart'
  BY <1>1 DEF Apart, ControlPart, LoopStands
<1>3. AnswersHold'
  <2>1. ASSUME NEW e \in DOMAIN loop.answers, Over(loop.answers[e]), NEW u, u = Obj'[e].uuid
        PROVE  Clear(u)'
    <3>1. u = Obj[e].uuid
      BY <2>1 DEF InHand, Visited
    <3>2. Clear(u)
      BY <2>1, <3>1 DEF ControlPart, AnswersHold, Over
    <3> QED
      BY <3>2, ClearKept
  <2> QED
    BY <2>1 DEF AnswersHold, LoopStands, ControlPart
<1>4. JobsHold'
  <2>1. PICK u : u = Obj[Ref].uuid
    OBVIOUS
  <2>2. Pc \in Acting => Ref \in InHand
    BY DEF Shapes, Acting, Ref, Pc, Actors, InHand
  <2>3. Pc \in Acting => Obj'[Ref'].uuid = u
    BY <1>1, <2>1, <2>2
  <2>4. Clear(u) => Clear(u)'
    BY ClearKept
  <2>5. /\ loop.phase = "scan" /\ Pc \in {"sell", "settle", "drop"} /\ Over(job["loop"].ans) => Clear(u)'
        /\ Pc = "place" => Clear(u)'
    BY <2>1, <2>4 DEF ControlPart, JobsHold
  <2>6. /\ loop'.phase = "scan" /\ Pc' \in {"sell", "settle", "drop"} /\ Over(job'["loop"].ans)
             => Clear(Obj[Ref].uuid)'
        /\ Pc' = "place" => Clear(Obj[Ref].uuid)'
    BY <1>1, <2>3, <2>5 DEF Acting, Clear, Live, LoopStands
  <2>7. /\ Pc' = "drop" => Over(job'["loop"].ans)
        /\ Pc' = "ask" => job'["loop"].own = Obj'[Ref'].uuid
        /\ Pc' \in {"cancel", "recheck", "stop"} => job'["loop"].u = Obj'[Ref'].uuid
        /\ Pc' \in Acting \ {"sell"} => loop'.phase = "scan"
    BY <1>1, <2>1, <2>3 DEF ControlPart, JobsHold, Acting, LoopStands
  <2>8. ASSUME NEW a \in Actors, job'[a].pc \in Cancelling, job'[a].hit # Reserved
        PROVE  job'[a].hit = job'[a].u /\ ~(job'[a].u \in Uuids /\ ex'[job'[a].u].state = "wait")
    BY <2>8 DEF Live, Quiet
  <2>9. \A a \in Actors :
          job'[a].pc \in Cancelling /\ Reached(a)' => job'[a].hit = job'[a].u /\ ~Live(job[a].u)'
    BY <2>8 DEF Reached, Live
  <2> QED
    BY <2>6, <2>7, <2>9 DEF JobsHold
<1> QED
  BY <1>2, <1>3, <1>4

LEMMA ApiTurnKeeps ==
    ASSUME Shapes, MemoryPart, ControlPart, Shapes', NEW G, ApiTurn(G)
    PROVE  MemoryPart' /\ ControlPart'
<1>0. LoopStands
  BY DEF ApiTurn, LoopStands
<1>1. Visited' = Visited /\ Queried' = Queried /\ Ref' = Ref /\ Pc' = Pc /\ InHand' = InHand /\ ActedOn' = ActedOn
  BY <1>0, LoopStandsHands
<1>2. HeldKept
  BY <1>0 DEF HeldKept, ApiTurn, LoopStands, Held, Actors
<1>3. \A u \in InFlight : u \in InFlight' \/ Settled(u)
  <2>1. Lost("loop")' = Lost("loop")
    BY DEF ApiTurn, Lost
  <2> QED
    BY <2>1, InFlightIs DEF ApiTurn
<1>4. \A a \in Actors : job'[a].hit \in Uuids => ex[job'[a].hit].state # "none"
  BY DEF ApiTurn, MemoryPart, PlacedOnes, Actors
<1>5. Cardinality(Visited') <= MaxOrders + 1 /\ NoDict \notin Visited'
  BY <1>1 DEF MemoryPart, Dictionaries
<1>6. MemoryPart' /\ Range(Index') \subseteq Range(Index) /\ DOMAIN Obj' \subseteq DOMAIN Obj
  BY <1>2, <1>3, <1>4, <1>5, RewritesKeepMemory DEF ApiTurn
<1>7. InHand \subseteq DOMAIN Obj'
  BY <1>1, <1>6, InHandStaysKnown DEF MemoryPart
<1>8. \A e \in DOMAIN Obj' : Obj'[e].uuid = Obj[e].uuid
  BY DEF ApiTurn, Rewrites
<1>9. Apart' /\ AnswersHold' /\ JobsHold'
  <2>1. \A a \in Actors : job'[a].pc \in Cancelling /\ job'[a].hit # Reserved =>
                          job'[a].hit = job'[a].u /\ ~Live(job'[a].u)
    BY DEF ApiTurn, ControlPart, JobsHold, Reached, Actors
  <2> QED
    BY <1>0, <1>7, <1>8, <2>1, LoopStandsControl DEF ApiTurn, MemoryPart
<1>10. ApiMeets'
  <2>1. SUFFICES ASSUME Submitting', NEW u, u = Obj'[job'["api"].ref].uuid,
                        u \in DOMAIN Index', Index'[u] \in InHand, NEW e \in InHand
                 PROVE  Obj'[e].uuid \in DOMAIN Index'
    BY <1>1 DEF ApiMeets, Has, Index, Obj
  <2>2. Submitting /\ job'["api"].ref = job["api"].ref /\ G = {}
    BY <2>1 DEF ApiTurn
  <2>3. job["api"].ref \in DOMAIN Obj'
    <3>1. job'["api"].ref # NoDict /\ job'["api"].ref \in Held'
      BY <2>1 DEF Submitting, Shapes, Actors, Held
    <3> QED
      BY <1>6, <2>2, <3>1 DEF MemoryPart, Dictionaries
  <2>4. u = Obj[job["api"].ref].uuid /\ u \in DOMAIN Index /\ Index[u] \in InHand
    BY <1>8, <2>1, <2>2, <2>3 DEF ApiTurn, Rewrites
  <2>5. Obj[e].uuid \in DOMAIN Index
    BY <2>1, <2>2, <2>4 DEF ControlPart, ApiMeets, Has, Index, Obj
  <2> QED
    BY <1>7, <1>8, <2>2, <2>5 DEF ApiTurn, Rewrites
<1>11. NotWaiting'
  <2>1. ActedOn \subseteq InHand
    BY DEF ActedOn, InHand, Visited, Queried, Shapes, Acting, Ref, Pc, Actors
  <2> SUFFICES ASSUME loop.phase = "scan", NEW e \in ActedOn, e \in Range(Index'), Obj'[e].status = "waiting"
               PROVE  FALSE
    BY <1>0, <1>1 DEF NotWaiting, LoopStands
  <2>2. Obj[e].status = "waiting"
    BY <1>7, <2>1 DEF ApiTurn, Rewrites
  <2> QED
    BY <1>6, <2>2 DEF ControlPart, NotWaiting
<1> QED
  BY <1>6, <1>9, <1>10, <1>11 DEF ControlPart

(***************************************************************************)
(* What happens at the exchange.                                           *)
(***************************************************************************)
SameJobs ==
    \A a \in Actors :
        /\ job'[a].pc = job[a].pc /\ job'[a].ref = job[a].ref /\ job'[a].ans = job[a].ans
        /\ job'[a].u = job[a].u /\ job'[a].own = job[a].own

ExchangeTurn ==
    /\ mem' = mem /\ loop' = loop /\ orphaned' = orphaned /\ reserving' = reserving /\ SameJobs
    /\ \A u \in Uuids :
         /\ ex'[u].state = "wait" => ex[u].state = "wait" \/ (ex[u].state = "none" /\ u \in InFlight')
         /\ ex[u].state # "none" => ex'[u].state # "none"
    /\ InFlight \subseteq InFlight'
    /\ \A a \in Actors :
         /\ job'[a].hit \in Uuids => ex'[job'[a].hit].state # "none"
         /\ job[a].pc \in Cancelling /\ job'[a].hit # Reserved =>
              job'[a].hit = job[a].u /\ ~(job[a].u \in Uuids /\ ex'[job[a].u].state = "wait")

LEMMA ExchangeTurnKeeps ==
    ASSUME Shapes, MemoryPart, ControlPart, Shapes', ExchangeTurn
    PROVE  MemoryPart' /\ ControlPart'
<1>1. /\ Visited' = Visited /\ Queried' = Queried /\ Ref' = Ref /\ Pc' = Pc /\ InHand' = InHand
      /\ ActedOn' = ActedOn /\ Held' = Held /\ Index' = Index /\ Obj' = Obj
  <2>1. Ref' = Ref /\ Pc' = Pc /\ Index' = Index /\ Obj' = Obj
    BY DEF ExchangeTurn, SameJobs, Ref, Pc, Actors, Index, Obj
  <2>2. Visited' = Visited /\ Queried' = Queried
    BY DEF ExchangeTurn, Visited, Queried
  <2>3. Held' = Held
    BY DEF ExchangeTurn, SameJobs, Held, Actors
  <2> QED
    BY <2>1, <2>2, <2>3 DEF InHand, ActedOn
<1>2. ASSUME NEW d \in DOMAIN Obj, NEW u, u = Obj[d].uuid, Clear(u)
      PROVE  Clear(u)'
  <2>1. u \in Uuids => ex[u].state # "none"
    BY <1>2 DEF MemoryPart, PlacedOnes
  <2> QED
    BY <1>2, <2>1 DEF Clear, Live, ExchangeTurn
<1>3. InHand \subseteq DOMAIN Obj
  BY InHandIsKnown DEF MemoryPart
<1>4. Lists'
  BY <1>1 DEF MemoryPart, Lists
<1>5. Dictionaries'
  BY <1>1 DEF MemoryPart, Dictionaries
<1>6. PlacedOnes'
  BY <1>1 DEF MemoryPart, PlacedOnes, ExchangeTurn, Lists
<1>7. WaitingAreClear'
  <2> SUFFICES ASSUME NEW d \in DOMAIN Obj, Obj[d].status = "waiting", NEW u, u = Obj[d].uuid
               PROVE  reserving' /\ Clear(u)'
    BY <1>1 DEF WaitingAreClear
  <2>1. reserving /\ Clear(u)
    BY DEF MemoryPart, WaitingAreClear
  <2> QED
    BY <1>2, <2>1 DEF ExchangeTurn
<1>8. KnownAreTracked'
  <2> SUFFICES ASSUME NEW d \in DOMAIN Obj, NEW u, u = Obj[d].uuid, ~Clear(u)'
               PROVE  u \in DOMAIN Index
    BY <1>1 DEF KnownAreTracked, Has, Index
  <2>1. ~Clear(u)
    BY <1>2
  <2> QED
    BY <2>1 DEF MemoryPart, KnownAreTracked, Has, Index
<1>9. Tracked'
  <2> SUFFICES ASSUME NEW u \in Uuids, ex'[u].state = "wait", u \notin orphaned \cup InFlight'
               PROVE  u \in DOMAIN Index
    BY <1>1 DEF Tracked, Has, Index, Live, ExchangeTurn
  <2> QED
    BY DEF MemoryPart, Tracked, Has, Index, Live, ExchangeTurn
<1>10. Apart'
  BY <1>1 DEF ControlPart, Apart, ExchangeTurn
<1>11. ApiMeets'
  BY <1>1 DEF ControlPart, ApiMeets, ExchangeTurn, SameJobs, Has, Index, Obj, Submitting, Actors
<1>12. NotWaiting'
  BY <1>1 DEF ControlPart, NotWaiting, ExchangeTurn
<1>13. AnswersHold'
  <2>1. ASSUME NEW d \in DOMAIN loop.answers, Over(loop.answers[d]), NEW u, u = Obj[d].uuid
        PROVE  Clear(u)'
    <3>1. d \in DOMAIN Obj
      BY <1>3 DEF InHand, Visited
    <3>2. Clear(u)
      BY <2>1 DEF ControlPart, AnswersHold, Over
    <3> QED
      BY <2>1, <3>1, <3>2, <1>2
  <2> QED
    BY <1>1, <2>1 DEF AnswersHold, ExchangeTurn, ControlPart
<1>14. JobsHold'
  <2>1. PICK u : u = Obj[Ref].uuid
    OBVIOUS
  <2>2. Pc \in Acting => Ref \in DOMAIN Obj
    BY <1>3 DEF Shapes, Acting, Ref, Pc, Actors, InHand
  <2>3. Pc \in Acting /\ Clear(u) => Clear(u)'
    BY <1>2, <2>1, <2>2
  <2>4. /\ loop.phase = "scan" /\ Pc \in {"sell", "settle", "drop"} /\ Over(job["loop"].ans) => Clear(u)'
        /\ Pc = "place" => Clear(u)'
    BY <2>1, <2>3 DEF ControlPart, JobsHold, Acting
  <2>5. /\ loop'.phase = "scan" /\ Pc' \in {"sell", "settle", "drop"} /\ Over(job'["loop"].ans)
             => Clear(Obj[Ref].uuid)'
        /\ Pc' = "place" => Clear(Obj[Ref].uuid)'
    BY <1>1, <2>1, <2>4 DEF Clear, Live, ExchangeTurn, SameJobs, Actors, Pc
  <2>6. /\ Pc' = "drop" => Over(job'["loop"].ans)
        /\ Pc' = "ask" => job'["loop"].own = Obj'[Ref'].uuid
        /\ Pc' \in {"cancel", "recheck", "stop"} => job'["loop"].u = Obj'[Ref'].uuid
        /\ Pc' \in Acting \ {"sell"} => loop'.phase = "scan"
    BY <1>1 DEF ControlPart, JobsHold, ExchangeTurn, SameJobs, Actors, Over
  <2>7. \A a \in Actors :
          job'[a].pc \in Cancelling /\ Reached(a)' => job'[a].hit = job'[a].u /\ ~Live(job[a].u)'
    BY DEF ExchangeTurn, SameJobs, Reached, Live
  <2> QED
    BY <2>5, <2>6, <2>7 DEF JobsHold
<1> QED
  BY <1>4, <1>5, <1>6, <1>7, <1>8, <1>9, <1>10, <1>11, <1>12, <1>13, <1>14 DEF MemoryPart, ControlPart

(***************************************************************************)
(* An order that waits goes on under a new uuid.                           *)
(***************************************************************************)
Replaces(old, new) ==
    /\ old \in DOMAIN Index /\ new \in Uuids \ DOMAIN Index /\ ex[new].state # "none"
    /\ Obj[Index[old]].status = "waiting"
    /\ DOMAIN Index' = (DOMAIN Index \ {old}) \cup {new} /\ Index'[new] = Index[old]
    /\ \A u \in DOMAIN Index \ {old} : Index'[u] = Index[u]
    /\ DOMAIN Obj' = DOMAIN Obj \cap (Held' \cup Range(Index'))
    /\ \A d \in DOMAIN Obj' \ {Index[old]} : Obj'[d] = Obj[d]
    /\ DOMAIN Obj'[Index[old]] = EntryFields
    /\ Obj'[Index[old]].uuid = new /\ Obj'[Index[old]].status = "placed"

ReplaceTurn(a, old, new) ==
    /\ Quiet /\ loop' = loop
    /\ \A b \in Actors \ {a} : job'[b] = job[b]
    /\ job'[a].pc = "free" /\ job'[a].ref = NoDict /\ job'[a].hit = Reserved
    /\ old = Obj[job[a].ref].uuid /\ job[a].ref # NoDict /\ job[a].pc \in {"look", "create"}
    /\ Replaces(old, new)
    /\ Lost(a) \subseteq {new}

LEMMA ReplaceKeepsMemory ==
    ASSUME Shapes, MemoryPart, Apart, Shapes', NEW a \in Actors, NEW old, NEW new, ReplaceTurn(a, old, new)
    PROVE  MemoryPart' /\ Range(Index') \subseteq Range(Index) /\ DOMAIN Obj' \subseteq DOMAIN Obj
<1>1. /\ Range(Index') \subseteq Range(Index) /\ Range(Index) \subseteq DOMAIN Obj
      /\ DOMAIN Obj' \subseteq DOMAIN Obj /\ DOMAIN Obj' \subseteq Held' \cup Range(Index')
      /\ Index[old] \in DOMAIN Obj'
  <2>1. Range(Index) \subseteq DOMAIN Obj
    BY DEF MemoryPart, Lists, Range
  <2>2. ASSUME NEW u \in DOMAIN Index' PROVE Index'[u] \in Range(Index)
    <3>1. old \in DOMAIN Index /\ Index'[new] = Index[old]
      BY DEF ReplaceTurn, Replaces
    <3>2. CASE u = new
      BY <3>1, <3>2 DEF Range
    <3>3. CASE u # new
      <4>1. u \in DOMAIN Index /\ Index'[u] = Index[u]
        BY <3>3 DEF ReplaceTurn, Replaces
      <4> QED
        BY <4>1 DEF Range
    <3> QED
      BY <3>2, <3>3
  <2>3. Range(Index') \subseteq Range(Index)
    BY <2>2 DEF Range
  <2>4. Index[old] \in Range(Index')
    BY DEF ReplaceTurn, Replaces, Range
  <2> QED
    BY <2>1, <2>3, <2>4 DEF ReplaceTurn, Replaces
<1>2. Held' \subseteq Held \cup {NoDict}
  BY DEF ReplaceTurn, Held, Actors
<1>3. Held' \ {NoDict} \subseteq DOMAIN Obj'
  BY <1>2 DEF ReplaceTurn, Replaces, MemoryPart, Dictionaries
<1>4. Lists'
  <2>1. DOMAIN Index' \subseteq AnyUuid /\ DOMAIN Obj' \subseteq Dicts
    BY <1>1 DEF ReplaceTurn, Replaces, MemoryPart, Lists, AnyUuid
  <2>2. \A d \in DOMAIN Obj' : DOMAIN Obj'[d] = EntryFields /\ Obj'[d].uuid \in AnyUuid
    BY <1>1 DEF ReplaceTurn, Replaces, MemoryPart, Lists, AnyUuid
  <2>3. \A u \in DOMAIN Index' : Index'[u] \in DOMAIN Obj'
    BY <1>1 DEF ReplaceTurn, Replaces, Range
  <2>4. ASSUME NEW u \in DOMAIN Index \ {old}
        PROVE  Index[u] # Index[old] /\ Obj[Index[u]].uuid = u
    BY DEF ReplaceTurn, Replaces, MemoryPart, Lists
  <2>5. \A u \in DOMAIN Index' : Obj'[Index'[u]].uuid = u
    BY <2>3, <2>4 DEF ReplaceTurn, Replaces
  <2> QED
    BY <2>1, <2>2, <2>3, <2>5 DEF Lists
<1>5. Visited' = Visited
  BY DEF ReplaceTurn, Visited
<1>6. Dictionaries'
  BY <1>1, <1>3, <1>5 DEF Dictionaries, MemoryPart
<1>7. PlacedOnes'
  <2>1. \A d \in DOMAIN Obj' : Obj'[d].uuid \in Uuids => ex[Obj'[d].uuid].state # "none"
    BY <1>1 DEF ReplaceTurn, Replaces, MemoryPart, PlacedOnes
  <2>2. \A b \in Actors : job'[b].hit \in Uuids => ex[job'[b].hit].state # "none"
    <3>1. Reserved \notin Uuids
      BY DEF Reserved, Uuids
    <3> QED
      BY <3>1 DEF ReplaceTurn, MemoryPart, PlacedOnes
  <2> QED
    BY <2>1, <2>2 DEF PlacedOnes, ReplaceTurn, Quiet
<1>8. Quiet
  BY DEF ReplaceTurn
<1>9. WaitingAreClear'
  <2> SUFFICES ASSUME NEW d \in DOMAIN Obj', Obj'[d].status = "waiting", NEW u, u = Obj'[d].uuid
               PROVE  reserving' /\ Clear(u)'
    BY DEF WaitingAreClear
  <2>1. Obj[d].status = "waiting" /\ u = Obj[d].uuid /\ d \in DOMAIN Obj
    BY <1>1 DEF ReplaceTurn, Replaces
  <2>2. reserving /\ Clear(u)
    BY <2>1 DEF MemoryPart, WaitingAreClear
  <2> QED
    BY <1>8, <2>2, ClearKept DEF Quiet
<1>10. Clear(old)
  <2>1. Index[old] \in DOMAIN Obj /\ Obj[Index[old]].status = "waiting" /\ Obj[Index[old]].uuid = old
    BY DEF MemoryPart, Lists, ReplaceTurn, Replaces
  <2> QED
    BY <2>1 DEF MemoryPart, WaitingAreClear
<1>11. KnownAreTracked'
  <2> SUFFICES ASSUME NEW d \in DOMAIN Obj', NEW u, u = Obj'[d].uuid, ~Clear(u)'
               PROVE  u \in DOMAIN Index'
    BY DEF KnownAreTracked, Has, Index
  <2>1. CASE d = Index[old]
    BY <2>1 DEF ReplaceTurn, Replaces
  <2>2. CASE d # Index[old]
    <3>1. ~Clear(u) /\ u = Obj[d].uuid /\ d \in DOMAIN Obj
      BY <1>1, <1>8, <2>2, ClearKept DEF ReplaceTurn, Replaces
    <3>2. u \in DOMAIN Index /\ u # old
      BY <1>10, <3>1 DEF MemoryPart, KnownAreTracked, Has, Index
    <3> QED
      BY <3>2 DEF ReplaceTurn, Replaces
  <2> QED
    BY <2>1, <2>2
<1>12. Tracked'
  <2> SUFFICES ASSUME NEW u \in Uuids, Live(u)', u \notin orphaned' \cup InFlight', u # new
               PROVE  u \in DOMAIN Index'
    BY DEF Tracked, Has, Index, ReplaceTurn, Replaces
  <2>1. Live(u) /\ u \notin orphaned
    BY <1>8, ClearSince
  <2>2. u \notin InFlight
    <3>1. \A b \in Actors \ {a} : Lost(b)' = Lost(b)
      BY DEF ReplaceTurn, Lost
    <3> QED
      BY <3>1 DEF InFlight, ReplaceTurn
  <2>3. u \in DOMAIN Index /\ u # old
    BY <1>10, <2>1, <2>2 DEF MemoryPart, Tracked, Has, Index, Clear
  <2> QED
    BY <2>3 DEF ReplaceTurn, Replaces
<1> QED
  BY <1>1, <1>4, <1>6, <1>7, <1>9, <1>11, <1>12 DEF MemoryPart

LEMMA LoopReplaces ==
    ASSUME Shapes, MemoryPart, ControlPart, Shapes', NEW old, NEW new, ReplaceTurn("loop", old, new)
    PROVE  MemoryPart' /\ ControlPart'
<1>1. MemoryPart' /\ Range(Index') \subseteq Range(Index) /\ DOMAIN Obj' \subseteq DOMAIN Obj
  BY ReplaceKeepsMemory DEF Actors, ControlPart
<1>2. /\ Visited' = Visited /\ Queried' = Queried /\ Ref' = NoDict /\ Pc' = "free"
      /\ InHand' = Visited /\ ActedOn' = Queried
  <2>1. Visited' = Visited /\ Queried' = Queried /\ Ref' = NoDict /\ Pc' = "free"
    BY DEF ReplaceTurn, Visited, Queried, Ref, Pc
  <2> QED
    BY <2>1 DEF InHand, ActedOn, Acting
<1>3. Visited \subseteq DOMAIN Obj'
  BY <1>1, <1>2, InHandStaysKnown DEF MemoryPart
<1>4. Ref \in InHand /\ Visited \subseteq InHand /\ InHand \subseteq DOMAIN Obj
  BY InHandIsKnown DEF InHand, ReplaceTurn, Ref, MemoryPart
<1>5. Obj[Index[old]].uuid = old /\ old = Obj[Ref].uuid
  BY DEF ReplaceTurn, Replaces, Ref, MemoryPart, Lists
<1>6. \A e \in Visited : Obj[e].uuid # old
  BY <1>4, <1>5 DEF ControlPart, Apart
<1>7. \A e \in Visited : Obj'[e] = Obj[e]
  BY <1>3, <1>5, <1>6 DEF ReplaceTurn, Replaces
<1>8. loop' = loop /\ job'["api"] = job["api"]
  BY DEF ReplaceTurn, Actors
<1>9. Apart'
  <2>1. NoDict \notin Visited
    BY DEF MemoryPart, Dictionaries
  <2> QED
    BY <1>2, <1>4, <1>7, <1>8, <2>1 DEF Apart, ControlPart
<1>10. AnswersHold'
  <2>1. ASSUME NEW e \in DOMAIN loop.answers, Over(loop.answers[e]), NEW u, u = Obj'[e].uuid
        PROVE  Clear(u)'
    <3>1. u = Obj[e].uuid
      BY <1>7, <2>1 DEF Visited
    <3>2. Clear(u)
      BY <2>1, <3>1 DEF ControlPart, AnswersHold, Over
    <3> QED
      BY <3>2, ClearKept DEF ReplaceTurn
  <2> QED
    BY <1>8, <2>1 DEF AnswersHold, ControlPart
<1>11. JobsHold'
  <2>1. job'["loop"].pc = "free"
    BY DEF ReplaceTurn
  <2>2. \A a \in Actors :
          job'[a].pc \in Cancelling /\ Reached(a)' => job'[a].hit = job'[a].u /\ ~Live(job[a].u)'
    BY <1>8, <2>1 DEF Actors, Cancelling, Reached, Live, ReplaceTurn, Quiet, ControlPart, JobsHold
  <2> QED
    BY <1>2, <2>2 DEF JobsHold, Acting
<1>12. NotWaiting'
  <2> SUFFICES ASSUME loop.phase = "scan", NEW e \in Queried, e \in Range(Index'), Obj'[e].status = "waiting"
               PROVE  FALSE
    BY <1>2, <1>8 DEF NotWaiting
  <2>1. Obj[e].status = "waiting"
    BY <1>7 DEF Visited, Queried
  <2> QED
    BY <1>1, <2>1 DEF ControlPart, NotWaiting, ActedOn
<1>13. ApiMeets'
  <2>1. SUFFICES ASSUME Submitting, NEW u, u = Obj'[job["api"].ref].uuid,
                        u \in DOMAIN Index', Index'[u] \in Visited, NEW e \in Visited
                 PROVE  Obj'[e].uuid \in DOMAIN Index'
    BY <1>2, <1>8 DEF ApiMeets, Has, Index, Obj, Submitting
  <2>2. job["api"].ref \in DOMAIN Obj'
    <3>1. job["api"].ref # NoDict /\ job["api"].ref \in Held'
      BY <1>8, <2>1 DEF Submitting, Shapes, Actors, Held
    <3> QED
      BY <1>1, <3>1 DEF MemoryPart, Dictionaries
  <2>3. Index[old] \notin Visited
    BY <1>5, <1>6
  <2>4. u # new /\ u # old /\ u \in DOMAIN Index /\ Index[u] \in InHand
    BY <1>4, <2>1, <2>3 DEF ReplaceTurn, Replaces
  <2>5. u = Obj[job["api"].ref].uuid
    BY <2>1, <2>2, <2>4 DEF ReplaceTurn, Replaces
  <2>6. Obj[e].uuid \in DOMAIN Index
    BY <1>4, <2>1, <2>4, <2>5 DEF ControlPart, ApiMeets, Has, Index, Obj
  <2> QED
    BY <1>6, <1>7, <2>6 DEF ReplaceTurn, Replaces
<1> QED
  BY <1>1, <1>9, <1>10, <1>11, <1>12, <1>13 DEF ControlPart

LEMMA ApiReplaces ==
    ASSUME Shapes, MemoryPart, ControlPart, Shapes', NEW old, NEW new, ReplaceTurn("api", old, new)
    PROVE  MemoryPart' /\ ControlPart'
<1>0. LoopStands
  BY DEF ReplaceTurn, LoopStands, Actors
<1>1. MemoryPart' /\ Range(Index') \subseteq Range(Index) /\ DOMAIN Obj' \subseteq DOMAIN Obj
  BY ReplaceKeepsMemory DEF Actors, ControlPart
<1>2. Visited' = Visited /\ Queried' = Queried /\ Ref' = Ref /\ Pc' = Pc /\ InHand' = InHand /\ ActedOn' = ActedOn
  BY <1>0, LoopStandsHands
<1>3. InHand \subseteq DOMAIN Obj' /\ InHand \subseteq DOMAIN Obj
  BY <1>1, <1>2, InHandStaysKnown DEF MemoryPart
<1>4. Index[old] \in InHand => \A e \in InHand : Obj[e].uuid # new
  <2>1. Submitting /\ old = Obj[job["api"].ref].uuid /\ old \in DOMAIN Index /\ new \notin DOMAIN Index
    BY DEF ReplaceTurn, Replaces, Submitting
  <2> QED
    BY <2>1 DEF ControlPart, ApiMeets, Has, Index, Obj
<1>5. \A e \in InHand \ {Index[old]} : Obj'[e] = Obj[e]
  BY <1>3 DEF ReplaceTurn, Replaces
<1>6. Obj'[Index[old]].uuid = new /\ Obj'[Index[old]].status = "placed"
  BY DEF ReplaceTurn, Replaces
<1>7. Apart'
  <2>1. \A e \in InHand, f \in InHand : Obj'[e].uuid = Obj'[f].uuid => e = f
    BY <1>4, <1>5, <1>6 DEF ControlPart, Apart
  <2> QED
    BY <1>0, <1>2, <2>1 DEF Apart, ControlPart, LoopStands
<1>8. loop.phase = "scan" => Index[old] \notin ActedOn
  <2>1. Index[old] \in Range(Index) /\ Obj[Index[old]].status = "waiting"
    BY DEF ReplaceTurn, Replaces, Range
  <2> QED
    BY <2>1 DEF ControlPart, NotWaiting
<1>9. ActedOn \subseteq InHand
  BY DEF ActedOn, InHand, Visited, Queried, Shapes, Acting, Ref, Pc, Actors
<1>10. NotWaiting'
  <2> SUFFICES ASSUME loop.phase = "scan", NEW e \in ActedOn, e \in Range(Index'), Obj'[e].status = "waiting"
               PROVE  FALSE
    BY <1>0, <1>2 DEF NotWaiting, LoopStands
  <2>1. Obj[e].status = "waiting"
    BY <1>5, <1>8, <1>9
  <2> QED
    BY <1>1, <2>1 DEF ControlPart, NotWaiting
<1>11. AnswersHold'
  <2>1. ASSUME NEW e \in DOMAIN loop.answers, Over(loop.answers[e]), NEW u, u = Obj'[e].uuid
        PROVE  Clear(u)'
    <3>1. e \in ActedOn /\ loop.phase = "scan"
      BY DEF ActedOn, Queried, ControlPart, AnswersHold
    <3>2. u = Obj[e].uuid
      BY <1>5, <1>8, <1>9, <2>1, <3>1
    <3>3. Clear(u)
      BY <2>1, <3>2 DEF ControlPart, AnswersHold, Over
    <3> QED
      BY <3>3, ClearKept DEF ReplaceTurn
  <2> QED
    BY <1>0, <2>1 DEF AnswersHold, ControlPart, LoopStands
<1>12. JobsHold'
  <2>1. PICK u : u = Obj[Ref].uuid
    OBVIOUS
  <2>2. Pc \in Acting /\ loop.phase = "scan" => Obj'[Ref].uuid = u
    <3>1. Pc \in Acting => Ref \in ActedOn
      BY DEF ActedOn
    <3> QED
      BY <1>5, <1>8, <1>9, <2>1, <3>1
  <2>3. Clear(u) => Clear(u)'
    BY ClearKept DEF ReplaceTurn
  <2>4. /\ loop.phase = "scan" /\ Pc \in {"sell", "settle", "drop"} /\ Over(job["loop"].ans) => Clear(u)'
        /\ Pc = "place" => Clear(u)'
    BY <2>1, <2>3 DEF ControlPart, JobsHold
  <2>5. Pc \in Acting \ {"sell"} => loop.phase = "scan"
    BY DEF ControlPart, JobsHold
  <2>6. /\ loop'.phase = "scan" /\ Pc' \in {"sell", "settle", "drop"} /\ Over(job'["loop"].ans)
             => Clear(Obj[Ref].uuid)'
        /\ Pc' = "place" => Clear(Obj[Ref].uuid)'
    BY <1>0, <1>2, <2>2, <2>4, <2>5 DEF Acting, Clear, Live, LoopStands
  <2>7. /\ Pc' = "drop" => Over(job'["loop"].ans)
        /\ Pc' = "ask" => job'["loop"].own = Obj'[Ref'].uuid
        /\ Pc' \in {"cancel", "recheck", "stop"} => job'["loop"].u = Obj'[Ref'].uuid
        /\ Pc' \in Acting \ {"sell"} => loop'.phase = "scan"
    BY <1>0, <1>2, <2>1, <2>2, <2>5 DEF ControlPart, JobsHold, Acting, LoopStands
  <2>8. \A a \in Actors :
          job'[a].pc \in Cancelling /\ Reached(a)' => job'[a].hit = job'[a].u /\ ~Live(job[a].u)'
    BY <1>0 DEF Actors, Cancelling, Reached, Live, ReplaceTurn, Quiet, ControlPart, JobsHold, LoopStands
  <2> QED
    BY <2>6, <2>7, <2>8 DEF JobsHold
<1>13. ApiMeets'
  BY DEF ApiMeets, Submitting, ReplaceTurn
<1> QED
  BY <1>1, <1>7, <1>10, <1>11, <1>12, <1>13 DEF ControlPart

(***************************************************************************)
(* The loop has placed an order and adds it to the list.                   *)
(***************************************************************************)
Adds(G, u) ==
    /\ u \in Uuids \ DOMAIN Index /\ ex[u].state # "none"
    /\ DOMAIN Index' = (DOMAIN Index \ G) \cup {u}
    /\ \A v \in DOMAIN Index \ G : Index'[v] = Index[v]
    /\ Index'[u] \in Dicts \ DOMAIN Obj
    /\ DOMAIN Obj' = (DOMAIN Obj \cup {Index'[u]}) \cap (Held' \cup Range(Index'))
    /\ DOMAIN Obj'[Index'[u]] = EntryFields
    /\ Obj'[Index'[u]].uuid = u /\ Obj'[Index'[u]].status = "placed"
    /\ \A d \in DOMAIN Obj' \ {Index'[u]} :
         /\ DOMAIN Obj'[d] = EntryFields
         /\ Obj'[d].uuid = Obj[d].uuid
         /\ Obj'[d].status = "waiting" => Obj[d].status = "waiting"

AddTurn(G, u) ==
    /\ Quiet /\ loop' = loop /\ job'["api"] = job["api"]
    /\ LoopJob(Ref) /\ job'["loop"].hit = Reserved
    /\ Adds(G, u)
    /\ \A x \in G : x = Obj[Ref].uuid /\ Clear(x) /\ Ref \in InHand /\ job'["loop"].ref = NoDict
    /\ Lost("loop") \subseteq {u}

LEMMA AddTurnHands ==
    ASSUME Shapes, Dictionaries, Apart, Shapes', NEW G, NEW u, AddTurn(G, u)
    PROVE  /\ Visited' = Visited /\ Queried' = Queried /\ InHand' \subseteq InHand /\ Held' \subseteq Held \cup {NoDict}
           /\ Ref' \in {NoDict, Ref} /\ Ref' \notin Visited'
           /\ ActedOn' \subseteq Queried \cup {e \in {Ref} : Pc' \in Acting /\ Ref' = Ref}
<1>1. Visited' = Visited /\ Queried' = Queried /\ Ref' \in {NoDict, Ref}
  BY DEF AddTurn, LoopJob, Visited, Queried, Ref
<1>2. InHand' \subseteq InHand
  BY <1>1 DEF InHand
<1>3. Held' \subseteq Held \cup {NoDict}
  BY <1>1 DEF AddTurn, Held, Actors, Ref
<1>4. Ref' \notin Visited'
  BY <1>1 DEF Apart, Dictionaries
<1>5. Pc' \in Acting => Ref' # NoDict
  BY DEF Shapes, Acting, Ref, Pc, Actors
<1>6. ActedOn' \subseteq Queried \cup {e \in {Ref} : Pc' \in Acting /\ Ref' = Ref}
  BY <1>1, <1>5 DEF ActedOn
<1> QED
  BY <1>1, <1>2, <1>3, <1>4, <1>6

LEMMA AddTurnKeepsMemory ==
    ASSUME Shapes, MemoryPart, Apart, Shapes', NEW G, NEW u, AddTurn(G, u)
    PROVE  MemoryPart' /\ Index'[u] \notin DOMAIN Obj /\ DOMAIN Obj' \subseteq DOMAIN Obj \cup {Index'[u]}
           /\ Range(Index') \subseteq Range(Index) \cup {Index'[u]}
<1>1. Visited' = Visited /\ Held' \subseteq Held \cup {NoDict}
  BY AddTurnHands DEF MemoryPart
<1>2. /\ Index'[u] \notin DOMAIN Obj /\ DOMAIN Obj' \subseteq DOMAIN Obj \cup {Index'[u]}
      /\ Range(Index') \subseteq Range(Index) \cup {Index'[u]} /\ Range(Index) \subseteq DOMAIN Obj
      /\ DOMAIN Obj' \subseteq Held' \cup Range(Index')
  BY DEF AddTurn, Adds, Range, MemoryPart, Lists
<1>3. Held' \ {NoDict} \subseteq DOMAIN Obj'
  BY <1>1 DEF AddTurn, Adds, MemoryPart, Dictionaries
<1>4. Lists'
  <2>1. DOMAIN Index' \subseteq AnyUuid /\ DOMAIN Obj' \subseteq Dicts
    BY DEF AddTurn, Adds, MemoryPart, Lists, AnyUuid
  <2>2. \A d \in DOMAIN Obj' : DOMAIN Obj'[d] = EntryFields /\ Obj'[d].uuid \in AnyUuid
    BY <1>2 DEF AddTurn, Adds, MemoryPart, Lists, AnyUuid
  <2>3. \A v \in DOMAIN Index' : Index'[v] \in DOMAIN Obj'
    <3>1. \A v \in DOMAIN Index' : Index'[v] \in Range(Index') /\ Index'[v] \in DOMAIN Obj \cup {Index'[u]}
      BY DEF AddTurn, Adds, Range, MemoryPart, Lists
    <3> QED
      BY <3>1 DEF AddTurn, Adds
  <2>4. \A v \in DOMAIN Index' : Obj'[Index'[v]].uuid = v
    <3>1. ASSUME NEW v \in DOMAIN Index \ G
          PROVE  Index'[v] = Index[v] /\ Obj[Index[v]].uuid = v /\ Index[v] # Index'[u] /\ Index[v] \in DOMAIN Obj'
      BY <2>3 DEF AddTurn, Adds, MemoryPart, Lists
    <3> QED
      BY <3>1 DEF AddTurn, Adds
  <2> QED
    BY <2>1, <2>2, <2>3, <2>4 DEF Lists
<1>5. Dictionaries'
  BY <1>1, <1>2, <1>3 DEF Dictionaries, MemoryPart
<1>6. Quiet
  BY DEF AddTurn
<1>7. PlacedOnes'
  <2>1. \A d \in DOMAIN Obj' : Obj'[d].uuid \in Uuids => ex[Obj'[d].uuid].state # "none"
    BY <1>2 DEF AddTurn, Adds, MemoryPart, PlacedOnes
  <2>2. \A b \in Actors : job'[b].hit \in Uuids => ex[job'[b].hit].state # "none"
    BY DEF AddTurn, LoopJob, MemoryPart, PlacedOnes, Actors
  <2> QED
    BY <1>6, <2>1, <2>2 DEF PlacedOnes, Quiet
<1>8. WaitingAreClear'
  <2> SUFFICES ASSUME NEW d \in DOMAIN Obj', Obj'[d].status = "waiting", NEW v, v = Obj'[d].uuid
               PROVE  reserving' /\ Clear(v)'
    BY DEF WaitingAreClear
  <2>1. Obj[d].status = "waiting" /\ v = Obj[d].uuid /\ d \in DOMAIN Obj
    BY <1>2 DEF AddTurn, Adds
  <2>2. reserving /\ Clear(v)
    BY <2>1 DEF MemoryPart, WaitingAreClear
  <2> QED
    BY <1>6, <2>2, ClearKept DEF Quiet
<1>9. \A x \in G : Clear(x)
  BY DEF AddTurn
<1>10. KnownAreTracked'
  <2> SUFFICES ASSUME NEW d \in DOMAIN Obj', NEW v, v = Obj'[d].uuid, ~Clear(v)', v # u
               PROVE  v \in DOMAIN Index'
    BY DEF KnownAreTracked, Has, Index, AddTurn, Adds
  <2>1. ~Clear(v) /\ v = Obj[d].uuid /\ d \in DOMAIN Obj
    BY <1>2, <1>6, ClearKept DEF AddTurn, Adds
  <2>2. v \in DOMAIN Index /\ v \notin G
    BY <1>9, <2>1 DEF MemoryPart, KnownAreTracked, Has, Index
  <2> QED
    BY <2>2 DEF AddTurn, Adds
<1>11. Tracked'
  <2> SUFFICES ASSUME NEW v \in Uuids, Live(v)', v \notin orphaned' \cup InFlight', v # u
               PROVE  v \in DOMAIN Index'
    BY DEF Tracked, Has, Index, AddTurn, Adds
  <2>1. Live(v) /\ v \notin orphaned
    BY <1>6, ClearSince
  <2>2. v \notin InFlight
    <3>1. Lost("api")' = Lost("api")
      BY DEF AddTurn, Lost
    <3> QED
      BY <3>1, InFlightIs DEF AddTurn
  <2>3. v \in DOMAIN Index /\ v \notin G
    BY <1>9, <2>1, <2>2 DEF MemoryPart, Tracked, Has, Index, Clear
  <2> QED
    BY <2>3 DEF AddTurn, Adds
<1> QED
  BY <1>2, <1>4, <1>5, <1>7, <1>8, <1>10, <1>11 DEF MemoryPart

LEMMA AddTurnKeeps ==
    ASSUME Shapes, MemoryPart, ControlPart, Shapes', NEW G, NEW u, AddTurn(G, u)
    PROVE  MemoryPart' /\ ControlPart'
<1>1. /\ MemoryPart' /\ Index'[u] \notin DOMAIN Obj /\ DOMAIN Obj' \subseteq DOMAIN Obj \cup {Index'[u]}
      /\ Range(Index') \subseteq Range(Index) \cup {Index'[u]}
  BY AddTurnKeepsMemory DEF ControlPart
<1>2. /\ Visited' = Visited /\ Queried' = Queried /\ InHand' \subseteq InHand
      /\ Ref' \in {NoDict, Ref} /\ Ref' \notin Visited'
      /\ ActedOn' \subseteq Queried \cup {e \in {Ref} : Pc' \in Acting /\ Ref' = Ref}
  BY AddTurnHands DEF MemoryPart, ControlPart
<1>3. InHand' \subseteq DOMAIN Obj' /\ InHand \subseteq DOMAIN Obj
  BY <1>1, InHandStaysKnown, InHandIsKnown DEF MemoryPart
<1>4. \A e \in InHand' : /\ e # Index'[u] /\ Obj'[e].uuid = Obj[e].uuid
                         /\ Obj'[e].status = "waiting" => Obj[e].status = "waiting"
  BY <1>1, <1>2, <1>3 DEF AddTurn, Adds
<1>5. loop' = loop /\ job'["api"] = job["api"]
  BY DEF AddTurn
<1>6. Apart'
  <2>1. \A e \in InHand', f \in InHand' : Obj'[e].uuid = Obj'[f].uuid => e = f
    BY <1>2, <1>4 DEF ControlPart, Apart
  <2> QED
    BY <1>2, <1>5, <2>1 DEF Apart, ControlPart
<1>7. \A e \in InHand' : Obj[e].uuid \notin G
  <2> SUFFICES ASSUME NEW e \in InHand', Obj[e].uuid \in G
               PROVE  FALSE
    OBVIOUS
  <2>1. Obj[e].uuid = Obj[Ref].uuid /\ Ref \in InHand /\ Ref' = NoDict
    BY DEF AddTurn, Ref
  <2>2. e = Ref
    BY <1>2, <2>1 DEF ControlPart, Apart
  <2> QED
    BY <1>2, <2>1, <2>2 DEF InHand, ControlPart, Apart
<1>8. ApiMeets'
  <2>1. SUFFICES ASSUME Submitting, NEW v, v = Obj'[job["api"].ref].uuid,
                        v \in DOMAIN Index', Index'[v] \in InHand', NEW e \in InHand'
                 PROVE  Obj'[e].uuid \in DOMAIN Index'
    BY <1>5 DEF ApiMeets, Submitting, Has, Index, Obj
  <2>2. job["api"].ref \in DOMAIN Obj' /\ job["api"].ref \in DOMAIN Obj
    <3>1. job["api"].ref # NoDict /\ job["api"].ref \in Held /\ job["api"].ref \in Held'
      BY <1>5, <2>1 DEF Submitting, Shapes, Actors, Held
    <3> QED
      BY <1>1, <3>1 DEF MemoryPart, Dictionaries
  <2>3. v # u
    BY <1>4, <2>1
  <2>4. v \in DOMAIN Index /\ Index[v] \in InHand /\ v = Obj[job["api"].ref].uuid
    BY <1>1, <1>2, <2>1, <2>2, <2>3 DEF AddTurn, Adds
  <2>5. Obj[e].uuid \in DOMAIN Index
    BY <1>2, <2>1, <2>4 DEF ControlPart, ApiMeets, Has, Index, Obj
  <2> QED
    BY <1>4, <1>7, <2>5 DEF AddTurn, Adds
<1>9. NotWaiting'
  <2> SUFFICES ASSUME loop.phase = "scan", NEW e \in ActedOn', e \in Range(Index'), Obj'[e].status = "waiting"
               PROVE  FALSE
    BY <1>5 DEF NotWaiting
  <2>1. e \in InHand'
    BY <1>2 DEF InHand, Visited, Queried, ActedOn, Shapes, Acting, Ref, Pc, Actors
  <2>2. Obj[e].status = "waiting" /\ e \in Range(Index)
    BY <1>1, <1>4, <2>1
  <2>3. CASE e \in ActedOn
    BY <2>2, <2>3 DEF ControlPart, NotWaiting
  <2>4. CASE e = Ref /\ Pc' \in Acting /\ Ref \notin ActedOn
    BY <2>2, <2>4 DEF AddTurn, LoopJob, Pc
  <2> QED
    BY <1>2, <2>3, <2>4 DEF ActedOn
<1>10. AnswersHold'
  <2>1. ASSUME NEW e \in DOMAIN loop.answers, Over(loop.answers[e]), NEW v, v = Obj'[e].uuid
        PROVE  Clear(v)'
    <3>1. e \in InHand'
      BY <1>2 DEF InHand, Visited
    <3>2. Clear(v)
      BY <1>4, <2>1, <3>1 DEF ControlPart, AnswersHold, Over
    <3> QED
      BY <3>2, ClearKept DEF AddTurn
  <2> QED
    BY <1>5, <2>1 DEF AnswersHold, ControlPart
<1>11. JobsHold'
  <2>1. PICK v : v = Obj[Ref].uuid
    OBVIOUS
  <2>2. Pc' \in Acting => Obj'[Ref'].uuid = v
    <3>1. Pc' \in Acting => Ref' # NoDict
      BY DEF Shapes, Acting, Ref, Pc, Actors
    <3> QED
      BY <1>2, <1>4, <2>1, <3>1 DEF InHand
  <2>3. Clear(v) => Clear(v)'
    BY ClearKept DEF AddTurn
  <2>4. /\ loop'.phase = "scan" /\ Pc' \in {"sell", "settle", "drop"} /\ Over(job'["loop"].ans) => Clear(v)'
        /\ Pc' = "place" => Clear(v)'
    BY <2>1, <2>3 DEF AddTurn, LoopJob, Pc
  <2>5. /\ Pc' = "drop" => Over(job'["loop"].ans)
        /\ Pc' = "ask" => job'["loop"].own = Obj'[Ref'].uuid
        /\ Pc' \in {"cancel", "recheck", "stop"} => job'["loop"].u = Obj'[Ref'].uuid
        /\ Pc' \in Acting \ {"sell"} => loop'.phase = "scan"
    BY <2>1, <2>2 DEF AddTurn, LoopJob, Pc, Acting
  <2>6. /\ loop'.phase = "scan" /\ Pc' \in {"sell", "settle", "drop"} /\ Over(job'["loop"].ans)
             => Clear(Obj[Ref].uuid)'
        /\ Pc' = "place" => Clear(Obj[Ref].uuid)'
    BY <2>2, <2>4 DEF Acting, Clear, Live
  <2>7. \A a \in Actors :
          job'[a].pc \in Cancelling /\ Reached(a)' => job'[a].hit = job'[a].u /\ ~Live(job[a].u)'
    BY <1>5 DEF AddTurn, Actors, Reached, Live, Quiet, ControlPart, JobsHold
  <2> QED
    BY <2>5, <2>6, <2>7 DEF JobsHold
<1> QED
  BY <1>1, <1>6, <1>8, <1>9, <1>10, <1>11 DEF ControlPart

(***************************************************************************)
(* There are dicts enough for a reload and for a new entry.                *)
(***************************************************************************)
Cut == {u \in DOMAIN Index : Index[u] \in Held}

LEMMA DictsAreFinite == IsFiniteSet(Dicts) /\ Cardinality(Dicts) = 2 * MaxOrders + 4 /\ MaxOrders \in Nat
<1>1. MaxOrders \in Nat
  BY SyncAssumption
<1> QED
  BY <1>1, FS_Interval DEF Dicts

LEMMA UuidsAreFinite ==
    ASSUME NEW S, S \subseteq AnyUuid
    PROVE  /\ IsFiniteSet(S) /\ Cardinality(S) \in Nat /\ Cardinality(S) <= MaxOrders + 1
           /\ \A u \in AnyUuid \ S : Cardinality(S) <= MaxOrders
<1>1. MaxOrders \in Nat
  BY SyncAssumption
<1>2. IsFiniteSet(0..MaxOrders) /\ Cardinality(0..MaxOrders) = MaxOrders + 1
  BY <1>1, FS_Interval
<1>3. AnyUuid \subseteq 0..MaxOrders
  BY <1>1 DEF AnyUuid, Uuids, Reserved
<1>4. IsFiniteSet(S) /\ Cardinality(S) <= MaxOrders + 1
  BY <1>2, <1>3, FS_Subset
<1>5. Cardinality(S) \in Nat
  BY <1>4, FS_CardinalityType
<1>6. ASSUME NEW u \in AnyUuid \ S PROVE Cardinality(S) <= MaxOrders
  <2>1. S \cup {u} \in SUBSET (0..MaxOrders)
    BY <1>3
  <2>2. Cardinality(S \cup {u}) <= MaxOrders + 1
    BY <1>2, <2>1, FS_Subset
  <2>3. Cardinality(S \cup {u}) = Cardinality(S) + 1
    BY <1>4, FS_AddElement
  <2> QED
    BY <1>1, <1>5, <2>2, <2>3
<1> QED
  BY <1>4, <1>5, <1>6

LEMMA HeldAreFew ==
    ASSUME Lists, Dictionaries
    PROVE  /\ IsFiniteSet(Held \ {NoDict}) /\ Cardinality(Held \ {NoDict}) \in Nat
           /\ Cardinality(Held \ {NoDict}) <= MaxOrders + 3
<1> DEFINE all == (Visited \cup {Ref}) \cup {job["api"].ref}
<1>1. IsFiniteSet(Visited) /\ Cardinality(Visited) <= MaxOrders + 1
  BY FewerVisited
<1>2. Cardinality(Visited) \in Nat /\ MaxOrders \in Nat
  BY <1>1, FS_CardinalityType, SyncAssumption
<1>3. IsFiniteSet(Visited \cup {Ref}) /\ Cardinality(Visited \cup {Ref}) \in 0..(MaxOrders + 2)
  BY <1>1, <1>2, FS_AddElement
<1>4. IsFiniteSet(all) /\ Cardinality(all) \in 0..(MaxOrders + 3)
  <2>1. PICK n \in 0..(MaxOrders + 2) : n = Cardinality(Visited \cup {Ref})
    BY <1>3
  <2>2. IsFiniteSet(all) /\ (Cardinality(all) = n \/ Cardinality(all) = n + 1)
    BY <1>3, <2>1, FS_AddElement
  <2> QED
    BY <1>2, <2>2
<1>5. Held \ {NoDict} \in SUBSET all
  BY DEF Held, Actors, Visited, Ref
<1>6. IsFiniteSet(Held \ {NoDict}) /\ Cardinality(Held \ {NoDict}) <= Cardinality(all)
  BY <1>4, <1>5, FS_Subset
<1>7. Cardinality(Held \ {NoDict}) \in Nat
  BY <1>6, FS_CardinalityType
<1> QED
  BY <1>2, <1>4, <1>6, <1>7

LEMMA DictsSuffice ==
    ASSUME Lists, Dictionaries
    PROVE  /\ IsFiniteSet(Cut) /\ Cardinality(Cut) \in Nat
           /\ Cardinality(Dicts \ DOMAIN Obj) \in Nat
           /\ Cardinality(Cut) <= Cardinality(Dicts \ DOMAIN Obj)
           /\ \A u \in AnyUuid \ DOMAIN Index : 1 <= Cardinality(Dicts \ DOMAIN Obj)
<1> DEFINE rest == DOMAIN Index \ Cut
           loose == DOMAIN Obj \ Held
           held == Held \ {NoDict}
           uuid == [d \in loose |-> Obj[d].uuid]
<1>1. DOMAIN Index \subseteq AnyUuid /\ Cut \subseteq AnyUuid /\ rest \subseteq AnyUuid
  BY DEF Lists, Cut
<1>2. /\ IsFiniteSet(Cut) /\ Cardinality(Cut) \in Nat
      /\ IsFiniteSet(rest) /\ Cardinality(rest) \in Nat
  BY <1>1, UuidsAreFinite
<1>3. /\ Cardinality(DOMAIN Index) \in Nat /\ Cardinality(DOMAIN Index) <= MaxOrders + 1
      /\ \A u \in AnyUuid \ DOMAIN Index : Cardinality(DOMAIN Index) <= MaxOrders
  BY <1>1, UuidsAreFinite
<1>4. Cardinality(DOMAIN Index) = Cardinality(Cut) + Cardinality(rest)
  <2>1. Cut \cup rest = DOMAIN Index /\ Cut \cap rest = {}
    BY DEF Cut
  <2>2. Cardinality(Cut \cup rest) = Cardinality(Cut) + Cardinality(rest) - Cardinality(Cut \cap rest)
    BY <1>2, FS_Union
  <2> QED
    <3>1. Cardinality(Cut \cap rest) = 0
      BY <2>1, FS_EmptySet
    <3>2. Cardinality(DOMAIN Index) = Cardinality(Cut) + Cardinality(rest) - Cardinality(Cut \cap rest)
      BY <2>1, <2>2
    <3> HIDE DEF rest
    <3> QED
      BY <1>2, <3>1, <3>2
<1>5. uuid \in Injection(loose, rest)
  <2>1. ASSUME NEW d \in loose
        PROVE  d \in Range(Index) /\ Obj[d].uuid \in rest /\ Index[Obj[d].uuid] = d
    <3>1. PICK u \in DOMAIN Index : d = Index[u]
      BY DEF Dictionaries, Range
    <3> QED
      BY <3>1 DEF Lists, Range, Cut
  <2>2. uuid \in [loose -> rest]
    BY <2>1
  <2>3. \A d \in loose, e \in loose : uuid[d] = uuid[e] => d = e
    BY <2>1
  <2> QED
    BY <2>2, <2>3 DEF Injection, IsInjective
<1>6. IsFiniteSet(loose) /\ Cardinality(loose) <= Cardinality(rest)
  BY <1>2, <1>5, FS_Injection
<1>7. IsFiniteSet(held) /\ Cardinality(held) \in Nat /\ Cardinality(held) <= MaxOrders + 3
  BY HeldAreFew
<1>8. IsFiniteSet(DOMAIN Obj) /\ Cardinality(DOMAIN Obj) \in Nat
      /\ Cardinality(DOMAIN Obj) <= Cardinality(held) + Cardinality(loose)
  <2>1. DOMAIN Obj = held \cup loose
    <3>1. NoDict \notin DOMAIN Obj
      BY SyncAssumption DEF Lists, Dicts, NoDict
    <3>2. held \subseteq DOMAIN Obj
      BY DEF Dictionaries
    <3> QED
      BY <3>1, <3>2
  <2>2. /\ IsFiniteSet(held \cup loose)
        /\ Cardinality(held \cup loose) = Cardinality(held) + Cardinality(loose) - Cardinality(held \cap loose)
    BY <1>6, <1>7, FS_Union
  <2>3. Cardinality(held \cap loose) \in Nat /\ Cardinality(loose) \in Nat /\ Cardinality(held \cup loose) \in Nat
    BY <1>6, <1>7, <2>2, FS_Intersection, FS_CardinalityType
  <2> QED
    BY <1>7, <2>1, <2>2, <2>3
<1>9. IsFiniteSet(Dicts) /\ Cardinality(Dicts) = 2 * MaxOrders + 4 /\ MaxOrders \in Nat
  BY DictsAreFinite
<1>10. /\ IsFiniteSet(Dicts \ DOMAIN Obj)
       /\ Cardinality(Dicts \ DOMAIN Obj) = Cardinality(Dicts) - Cardinality(DOMAIN Obj)
  <2>1. Dicts \cap DOMAIN Obj = DOMAIN Obj
    BY DEF Lists
  <2> QED
    BY <1>9, <2>1, FS_Difference
<1>11. Cardinality(Dicts \ DOMAIN Obj) \in Nat /\ Cardinality(loose) \in Nat
  BY <1>6, <1>10, FS_CardinalityType
<1>12. Cardinality(DOMAIN Obj) + Cardinality(Cut) <= MaxOrders + 3 + Cardinality(DOMAIN Index)
  <2> HIDE DEF rest, loose, held, uuid
  <2> QED
    BY <1>2, <1>3, <1>4, <1>6, <1>7, <1>8, <1>9, <1>11
<1>13. Cardinality(Cut) <= Cardinality(Dicts \ DOMAIN Obj)
  BY <1>2, <1>3, <1>8, <1>9, <1>10, <1>12
<1>14. ASSUME NEW u \in AnyUuid \ DOMAIN Index
       PROVE  1 <= Cardinality(Dicts \ DOMAIN Obj)
  <2>1. Cardinality(DOMAIN Index) <= MaxOrders
    BY <1>3
  <2> QED
    BY <1>2, <1>3, <1>8, <1>9, <1>10, <1>12, <2>1
<1> QED
  BY <1>2, <1>11, <1>13, <1>14

(***************************************************************************)
(* A reload: the dicts of the list that a coroutine holds are off the list.*)
(***************************************************************************)
Reloads ==
    /\ DOMAIN Index' = DOMAIN Index
    /\ \A u \in DOMAIN Index :
         /\ Index'[u] \in Dicts /\ Index'[u] \notin Held
         /\ Index'[u] = Index[u] \/ Index'[u] \notin DOMAIN Obj
         /\ DOMAIN Obj'[Index'[u]] = EntryFields
         /\ Obj'[Index'[u]].uuid = u
         /\ Obj'[Index'[u]].status = "waiting" => Obj[Index[u]].status = "waiting"
    /\ \A u \in DOMAIN Index, v \in DOMAIN Index : Index'[u] = Index'[v] => u = v
    /\ DOMAIN Obj' = (DOMAIN Obj \cup Range(Index')) \cap (Held' \cup Range(Index'))
    /\ \A d \in DOMAIN Obj' \ Range(Index') : Obj'[d] = Obj[d]

NewIndex ==
    [u \in DOMAIN Index |->
        IF u \in Cut THEN FreeDict(mem, Cardinality({v \in Cut : v <= u})) ELSE Index[u]]

LEMMA NewIndexIs ==
    ASSUME Lists, Dictionaries
    PROVE  /\ \A u \in DOMAIN Index :
                /\ u \in Cut => NewIndex[u] \in Dicts \ DOMAIN Obj
                /\ u \notin Cut => NewIndex[u] = Index[u] /\ Index[u] \notin Held
           /\ \A u \in DOMAIN Index, v \in DOMAIN Index : NewIndex[u] = NewIndex[v] => u = v
<1> DEFINE upto(u) == {v \in Cut : v <= u}
           free == Dicts \ DOMAIN Obj
<1>1. /\ IsFiniteSet(Cut) /\ Cardinality(Cut) \in Nat /\ Cardinality(free) \in Nat
      /\ Cardinality(Cut) <= Cardinality(free)
  BY DictsSuffice
<1>2. Cut \subseteq Nat
  BY SyncAssumption DEF Cut, Lists, AnyUuid, Uuids, Reserved
<1>3. ASSUME NEW u \in Cut
      PROVE  IsFiniteSet(upto(u)) /\ Cardinality(upto(u)) \in 1..Cardinality(free)
  <2>1. upto(u) \in SUBSET Cut /\ u \in upto(u)
    BY <1>2
  <2>2. IsFiniteSet(upto(u)) /\ Cardinality(upto(u)) <= Cardinality(Cut)
    BY <1>1, <2>1, FS_Subset
  <2>3. Cardinality(upto(u)) \in Nat /\ Cardinality(upto(u)) # 0
    BY <2>1, <2>2, FS_CardinalityType, FS_EmptySet
  <2> QED
    BY <1>1, <2>2, <2>3
<1>4. ASSUME NEW u \in Cut, NEW v \in Cut, u < v
      PROVE  Cardinality(upto(u)) # Cardinality(upto(v))
  <2>1. u \in Nat /\ v \in Nat /\ \A w \in Cut : w \in Nat
    BY <1>2
  <2>2. \A w \in upto(u) : w \in upto(v)
    BY <1>4, <2>1
  <2>3. v \in upto(v) /\ v \notin upto(u)
    BY <1>4, <2>1
  <2>4. upto(u) \in SUBSET upto(v) /\ upto(u) # upto(v)
    BY <2>2, <2>3
  <2> QED
    BY <1>3, <2>4, FS_Subset
<1>5. ASSUME NEW u \in Cut
      PROVE  /\ NewIndex[u] \in free
             /\ Cardinality({f \in free : f <= NewIndex[u]}) = Cardinality(upto(u))
  <2>1. PICK k \in 1..Cardinality(free) : k = Cardinality(upto(u))
    BY <1>3
  <2>2. /\ FreeDict(mem, k) \in Dicts \ DOMAIN mem.obj
        /\ Cardinality({f \in Dicts \ DOMAIN mem.obj : f <= FreeDict(mem, k)}) = k
    BY FreeDictIsFree DEF Lists, Obj
  <2>3. NewIndex[u] = FreeDict(mem, k)
    BY <2>1 DEF NewIndex, Cut
  <2> QED
    BY <2>1, <2>2, <2>3 DEF Obj
<1>6. \A u \in DOMAIN Index \ Cut : NewIndex[u] = Index[u] /\ Index[u] \notin Held
  BY DEF NewIndex, Cut
<1>7. ASSUME NEW u \in DOMAIN Index, NEW v \in DOMAIN Index, NewIndex[u] = NewIndex[v]
      PROVE  u = v
  <2>1. CASE u \in Cut /\ v \in Cut
    <3>1. Cardinality(upto(u)) = Cardinality(upto(v))
      BY <1>5, <1>7, <2>1
    <3>2. u \in Nat /\ v \in Nat /\ ~(u < v) /\ ~(v < u)
      BY <1>2, <1>4, <2>1, <3>1
    <3> QED
      BY <3>2
  <2>2. CASE u \notin Cut /\ v \notin Cut
    BY <1>6, <1>7, <2>2 DEF Lists
  <2>3. CASE (u \in Cut /\ v \notin Cut) \/ (u \notin Cut /\ v \in Cut)
    BY <1>5, <1>6, <1>7, <2>3 DEF Lists
  <2> QED
    BY <2>1, <2>2, <2>3
<1> QED
  BY <1>5, <1>6, <1>7

LEMMA ReloadReads ==
    ASSUME Lists, Dictionaries, NEW asked
    PROVE  /\ Reload(mem, Held, asked).index = NewIndex
           /\ DOMAIN Reload(mem, Held, asked).obj = DOMAIN Obj \cup Range(NewIndex)
           /\ \A u \in DOMAIN Index :
                Reload(mem, Held, asked).obj[NewIndex[u]] =
                  IF u \in asked THEN [Obj[Index[u]] EXCEPT !.status = "cancel_requested"] ELSE Obj[Index[u]]
           /\ \A d \in DOMAIN Obj \ Range(NewIndex) : Reload(mem, Held, asked).obj[d] = Obj[d]
<1> DEFINE row(u) == IF u \in asked THEN [Obj[Index[u]] EXCEPT !.status = "cancel_requested"] ELSE Obj[Index[u]]
           of(d) == CHOOSE u \in DOMAIN NewIndex : NewIndex[u] = d
           read == [d \in DOMAIN Obj \cup Range(NewIndex) |-> IF d \in Range(NewIndex) THEN row(of(d)) ELSE Obj[d]]
<1>1. Reload(mem, Held, asked) = [index |-> NewIndex, obj |-> read]
  BY DEF Reload, NewIndex, Cut, At, Index, Obj
<1>2. \A u \in DOMAIN Index, v \in DOMAIN Index : NewIndex[u] = NewIndex[v] => u = v
  BY NewIndexIs
<1>3. DOMAIN NewIndex = DOMAIN Index
  BY DEF NewIndex
<1>4. \A u \in DOMAIN Index : NewIndex[u] \in Range(NewIndex) /\ of(NewIndex[u]) = u
  BY <1>2, <1>3 DEF Range
<1>5. /\ DOMAIN read = DOMAIN Obj \cup Range(NewIndex)
      /\ \A d \in Range(NewIndex) : read[d] = row(of(d))
      /\ \A d \in DOMAIN Obj \ Range(NewIndex) : read[d] = Obj[d]
  OBVIOUS
<1> HIDE DEF read, of, row
<1>6. /\ Reload(mem, Held, asked).index = NewIndex
      /\ Reload(mem, Held, asked).obj = read
  BY <1>1
<1>7. \A u \in DOMAIN Index : read[NewIndex[u]] = row(u)
  BY <1>4, <1>5
<1> QED
  BY <1>5, <1>6, <1>7 DEF row

LEMMA ReloadsOf ==
    ASSUME Lists, Dictionaries, NEW asked, Memory(Reload(mem, Held, asked))
    PROVE  Reloads /\ Index' = NewIndex
<1> DEFINE m == Reload(mem, Held, asked)
<1>1. /\ Index' = m.index
      /\ DOMAIN Obj' = DOMAIN m.obj \cap (Held' \cup Range(m.index))
      /\ \A d \in DOMAIN Obj' : Obj'[d] = m.obj[d]
  BY MemoryIs
<1>2. /\ m.index = NewIndex
      /\ DOMAIN m.obj = DOMAIN Obj \cup Range(NewIndex)
      /\ \A u \in DOMAIN Index :
           m.obj[NewIndex[u]] =
             IF u \in asked THEN [Obj[Index[u]] EXCEPT !.status = "cancel_requested"] ELSE Obj[Index[u]]
      /\ \A d \in DOMAIN Obj \ Range(NewIndex) : m.obj[d] = Obj[d]
  BY ReloadReads
<1> HIDE DEF m
<1>3. Index' = NewIndex /\ DOMAIN NewIndex = DOMAIN Index
  BY <1>1, <1>2 DEF NewIndex
<1>4. DOMAIN Obj' = (DOMAIN Obj \cup Range(Index')) \cap (Held' \cup Range(Index'))
  BY <1>1, <1>2, <1>3
<1>5. \A d \in DOMAIN Obj' \ Range(Index') : Obj'[d] = Obj[d]
  BY <1>1, <1>2, <1>3, <1>4
<1>6. ASSUME NEW u \in DOMAIN Index
      PROVE  /\ Index'[u] \in Dicts /\ Index'[u] \notin Held
             /\ Index'[u] = Index[u] \/ Index'[u] \notin DOMAIN Obj
    <2>1. CASE u \in Cut
      <3>1. NewIndex[u] \in Dicts \ DOMAIN Obj
        BY <2>1, NewIndexIs
      <3>2. NewIndex[u] \notin Held
        BY <3>1 DEF Dictionaries, NoDict, Dicts
      <3> QED
        BY <1>3, <3>1, <3>2
    <2>2. CASE u \notin Cut
      BY <1>3, <2>2, NewIndexIs DEF Lists
    <2> QED
      BY <2>1, <2>2
<1>7. ASSUME NEW u \in DOMAIN Index
      PROVE  /\ DOMAIN Obj'[Index'[u]] = EntryFields
             /\ Obj'[Index'[u]].uuid = u
             /\ Obj'[Index'[u]].status = "waiting" => Obj[Index[u]].status = "waiting"
  <2> DEFINE e == Obj[Index[u]]
  <2>1. DOMAIN e = EntryFields /\ e.uuid = u
    BY DEF Lists
  <2>2. Index'[u] \in Range(Index') /\ Index'[u] \in DOMAIN Obj'
    BY <1>3, <1>4 DEF Range
  <2>3. Obj'[Index'[u]] = IF u \in asked THEN [e EXCEPT !.status = "cancel_requested"] ELSE e
    BY <1>1, <1>2, <1>3, <2>2
  <2> HIDE DEF e
  <2>4. DOMAIN Obj'[Index'[u]] = EntryFields /\ Obj'[Index'[u]].uuid = u
        /\ (Obj'[Index'[u]].status = "waiting" => e.status = "waiting")
    BY <2>1, <2>3 DEF EntryFields
  <2> QED
    BY <2>4 DEF e
<1>8. \A u \in DOMAIN Index, v \in DOMAIN Index : Index'[u] = Index'[v] => u = v
  BY <1>3, NewIndexIs
<1> QED
  BY <1>3, <1>4, <1>5, <1>6, <1>7, <1>8 DEF Reloads

LEMMA ReloadKeepsMemory ==
    ASSUME MemoryPart, Quiet, Reloads, HeldKept,
           Cardinality(Visited') <= MaxOrders + 1, NoDict \notin Visited',
           InFlight \subseteq InFlight',
           \A a \in Actors : job'[a].hit \in Uuids => ex[job'[a].hit].state # "none"
    PROVE  /\ MemoryPart'
           /\ \A d \in DOMAIN Obj' : d \in Range(Index') \/ (d \in DOMAIN Obj /\ Obj'[d] = Obj[d])
           /\ \A d \in Held : d \notin Range(Index')
<1>1. \A d \in DOMAIN Obj' : d \in Range(Index') \/ (d \in DOMAIN Obj /\ Obj'[d] = Obj[d])
  BY DEF Reloads
<1>2. ASSUME NEW d \in Range(Index')
      PROVE  \E u \in DOMAIN Index :
                /\ d = Index'[u] /\ Obj'[d].uuid = u /\ DOMAIN Obj'[d] = EntryFields /\ d \in Dicts
                /\ Obj'[d].status = "waiting" => Obj[Index[u]].status = "waiting"
                /\ d \notin Held /\ d \in DOMAIN Obj'
  <2>1. PICK u \in DOMAIN Index' : d = Index'[u]
    BY DEF Range
  <2> QED
    BY <2>1 DEF Reloads
<1>3. \A d \in Held : d \notin Range(Index')
  BY <1>2
<1>4. \A u \in DOMAIN Index : Index[u] \in DOMAIN Obj /\ Obj[Index[u]].uuid = u /\ u \in AnyUuid
  BY DEF MemoryPart, Lists
<1>5. Lists'
  <2>1. DOMAIN Index' \subseteq AnyUuid
    BY <1>4 DEF Reloads
  <2>2. \A d \in DOMAIN Obj' : d \in Dicts /\ DOMAIN Obj'[d] = EntryFields /\ Obj'[d].uuid \in AnyUuid
    BY <1>1, <1>2, <1>4 DEF MemoryPart, Lists
  <2>3. \A u \in DOMAIN Index' : Index'[u] \in DOMAIN Obj' /\ Obj'[Index'[u]].uuid = u
    BY DEF Reloads, Range
  <2> QED
    BY <2>1, <2>2, <2>3 DEF Lists
<1>6. Dictionaries'
  <2>1. DOMAIN Obj' \subseteq Held' \cup Range(Index')
    BY DEF Reloads
  <2>2. Held' \ {NoDict} \subseteq DOMAIN Obj'
    BY <1>2 DEF Reloads, HeldKept, MemoryPart, Dictionaries
  <2> QED
    BY <2>1, <2>2 DEF Dictionaries
<1>7. PlacedOnes'
  <2>1. \A d \in DOMAIN Obj' : Obj'[d].uuid \in Uuids => ex[Obj'[d].uuid].state # "none"
    BY <1>1, <1>2, <1>4 DEF MemoryPart, PlacedOnes
  <2> QED
    BY <2>1 DEF PlacedOnes, Quiet
<1>8. WaitingAreClear'
  <2> SUFFICES ASSUME NEW d \in DOMAIN Obj', Obj'[d].status = "waiting", NEW u, u = Obj'[d].uuid
               PROVE  reserving' /\ Clear(u)'
    BY DEF WaitingAreClear
  <2>1. reserving /\ Clear(u)
    <3>1. CASE d \in Range(Index')
      BY <1>2, <1>4, <3>1 DEF MemoryPart, WaitingAreClear
    <3>2. CASE d \notin Range(Index')
      BY <1>1, <3>2 DEF MemoryPart, WaitingAreClear
    <3> QED
      BY <3>1, <3>2
  <2> QED
    BY <2>1, ClearKept DEF Quiet
<1>9. KnownAreTracked'
  <2> SUFFICES ASSUME NEW d \in DOMAIN Obj', NEW u, u = Obj'[d].uuid, ~Clear(u)'
               PROVE  u \in DOMAIN Index
    BY DEF KnownAreTracked, Has, Index, Reloads
  <2>1. ~Clear(u)
    BY ClearKept
  <2>2. CASE d \in Range(Index')
    BY <1>2, <2>2
  <2>3. CASE d \notin Range(Index')
    BY <1>1, <2>1, <2>3 DEF MemoryPart, KnownAreTracked, Has, Index
  <2> QED
    BY <2>2, <2>3
<1>10. Tracked'
  <2> SUFFICES ASSUME NEW u \in Uuids, Live(u)', u \notin orphaned' \cup InFlight'
               PROVE  u \in DOMAIN Index
    BY DEF Tracked, Has, Index, Reloads
  <2>1. Live(u) /\ u \notin orphaned \cup InFlight
    BY ClearSince
  <2> QED
    BY <2>1 DEF MemoryPart, Tracked, Has, Index
<1> QED
  BY <1>1, <1>3, <1>5, <1>6, <1>7, <1>8, <1>9, <1>10 DEF MemoryPart

LEMMA ListedAreFew ==
    ASSUME Lists, NEW S, S \subseteq Range(Index)
    PROVE  Cardinality(S) <= MaxOrders + 1 /\ NoDict \notin S
<1> DEFINE uuid == [d \in S |-> Obj[d].uuid]
<1>1. \A d \in S : Obj[d].uuid \in DOMAIN Index /\ Index[Obj[d].uuid] = d /\ d \in Dicts
  BY DEF Lists, Range
<1>2. uuid \in Injection(S, DOMAIN Index)
  <2>1. uuid \in [S -> DOMAIN Index]
    BY <1>1
  <2>2. \A d \in S, e \in S : uuid[d] = uuid[e] => d = e
    BY <1>1
  <2> QED
    BY <2>1, <2>2 DEF Injection, IsInjective
<1>3. /\ IsFiniteSet(DOMAIN Index) /\ Cardinality(DOMAIN Index) \in Nat
      /\ Cardinality(DOMAIN Index) <= MaxOrders + 1
  BY UuidsAreFinite DEF Lists
<1>4. IsFiniteSet(S) /\ Cardinality(S) <= Cardinality(DOMAIN Index)
  BY <1>2, <1>3, FS_Injection
<1>5. Cardinality(S) \in Nat
  BY <1>4, FS_CardinalityType
<1>6. NoDict \notin S
  BY <1>1, SyncAssumption DEF Dicts, NoDict
<1> QED
  BY <1>3, <1>4, <1>5, <1>6, SyncAssumption

(***************************************************************************)
(* The jobs a coroutine goes on with.                                      *)
(***************************************************************************)
\* Actor a goes on with dict d, or with none; the other actor is not on.
Goes(a, pc, d) ==
    /\ DOMAIN job' = Actors /\ DOMAIN job'[a] = JobFields
    /\ job'[a].pc = pc /\ job'[a].ref = d /\ job'[a].hit = Reserved
    /\ \A b \in Actors \ {a} : job'[b] = job[b]

LEMMA NoJobIs ==
    DOMAIN NoJob = JobFields /\ NoJob.pc = "free" /\ NoJob.ref = NoDict /\ NoJob.hit = Reserved
  BY DEF NoJob, JobFields

LEMMA FinishIs ==
    ASSUME Shapes, NEW a \in Actors, Finish(a)
    PROVE  Goes(a, "free", NoDict) /\ job'[a] = NoJob
<1>1. DOMAIN job' = Actors /\ job'[a] = NoJob /\ \A b \in Actors \ {a} : job'[b] = job[b]
  BY DEF Finish, Shapes
<1> QED
  BY <1>1, NoJobIs DEF Goes

LEMMA AwaitIs ==
    ASSUME Shapes, NEW a \in Actors, NEW pc, NEW d, NEW ans, NEW n, Await(a, pc, d, ans, n)
    PROVE  Goes(a, pc, d) /\ job'[a].ans = ans
<1> DEFINE j == [NoJob EXCEPT !.pc = pc, !.ref = d, !.ans = ans, !.n = n]
<1>1. DOMAIN job' = Actors /\ job'[a] = j /\ \A b \in Actors \ {a} : job'[b] = job[b]
  BY DEF Await, Shapes
<1>2. DOMAIN j = JobFields /\ j.pc = pc /\ j.ref = d /\ j.hit = Reserved /\ j.ans = ans
  BY DEF NoJob, JobFields
<1> QED
  BY <1>1, <1>2 DEF Goes

LEMMA AwaitWithIs ==
    ASSUME Shapes, NEW a \in Actors, NEW pc, NEW d, NEW n, NEW u, NEW own, AwaitWith(a, pc, d, n, u, own)
    PROVE  Goes(a, pc, d) /\ job'[a].u = u /\ job'[a].own = own
<1> DEFINE j == [NoJob EXCEPT !.pc = pc, !.ref = d, !.n = n, !.u = u, !.own = own]
<1>1. DOMAIN job' = Actors /\ job'[a] = j /\ \A b \in Actors \ {a} : job'[b] = job[b]
  BY DEF AwaitWith, Shapes
<1>2. DOMAIN j = JobFields /\ j.pc = pc /\ j.ref = d /\ j.hit = Reserved /\ j.u = u /\ j.own = own
  BY DEF NoJob, JobFields
<1> QED
  BY <1>1, <1>2 DEF Goes

LEMMA ShapesKept ==
    ASSUME Shapes, Quiet, loop'.phase \in {"recover", "scan"}, DOMAIN job' = Actors,
           \A a \in Actors :
              /\ DOMAIN job'[a] = JobFields /\ job'[a].hit \in AnyUuid
              /\ job'[a].pc = "free" <=> job'[a].ref = NoDict,
           job'["loop"].pc \in LoopPcs, job'["api"].pc \in ApiPcs
    PROVE  Shapes'
  BY DEF Shapes, Quiet, Pc, Uuids, Actors, AnyUuid

LEMMA LoopShapes ==
    ASSUME Shapes, Quiet, loop'.phase = loop.phase, NEW pc \in LoopPcs, NEW d, Goes("loop", pc, d),
           pc = "free" <=> d = NoDict
    PROVE  Shapes'
<1>1. /\ DOMAIN job'["loop"] = JobFields /\ job'["loop"].hit \in AnyUuid
      /\ job'["loop"].pc = "free" <=> job'["loop"].ref = NoDict
      /\ DOMAIN job' = Actors /\ job'["loop"].pc \in LoopPcs
  BY DEF Goes, AnyUuid
<1>2. job'["api"] = job["api"]
  BY DEF Goes, Actors
<1>3. /\ \A a \in Actors :
           /\ DOMAIN job'[a] = JobFields /\ job'[a].hit \in AnyUuid
           /\ job'[a].pc = "free" <=> job'[a].ref = NoDict
      /\ job'["api"].pc \in ApiPcs /\ loop'.phase \in {"recover", "scan"}
  BY <1>1, <1>2 DEF Shapes, Actors
<1> QED
  BY <1>1, <1>3, ShapesKept

LEMMA ApiShapes ==
    ASSUME Shapes, Quiet, loop'.phase = loop.phase, NEW pc \in ApiPcs, NEW d, Goes("api", pc, d),
           pc = "free" <=> d = NoDict
    PROVE  Shapes'
<1>1. /\ DOMAIN job'["api"] = JobFields /\ job'["api"].hit \in AnyUuid
      /\ job'["api"].pc = "free" <=> job'["api"].ref = NoDict
      /\ DOMAIN job' = Actors /\ job'["api"].pc \in ApiPcs
  BY DEF Goes, AnyUuid
<1>2. job'["loop"] = job["loop"]
  BY DEF Goes, Actors
<1>3. /\ \A a \in Actors :
           /\ DOMAIN job'[a] = JobFields /\ job'[a].hit \in AnyUuid
           /\ job'[a].pc = "free" <=> job'[a].ref = NoDict
      /\ job'["loop"].pc \in LoopPcs /\ loop'.phase \in {"recover", "scan"}
  BY <1>1, <1>2 DEF Shapes, Actors, Pc
<1> QED
  BY <1>1, <1>3, ShapesKept

(***************************************************************************)
(* The loop is on with one dict.                                           *)
(***************************************************************************)
Good == Shapes /\ MemoryPart /\ ControlPart

\* The loop has taken dict d from those it visits, or holds it in its job.
On(d) ==
    /\ Quiet /\ d \in InHand /\ loop'.phase = loop.phase
    /\ loop'.todo \subseteq loop.todo \ {d} /\ loop'.asked \subseteq loop.asked \ {d}
    /\ DOMAIN loop'.answers \subseteq DOMAIN loop.answers \ {d}
    /\ \A e \in DOMAIN loop'.answers : loop'.answers[e] = loop.answers[e]
    /\ \A u \in Lost("loop") : Settled(u)

\* It lets go of the dict, and the order may leave the list or begin to wait.
LEMMA LoopFinishes ==
    ASSUME Good, NEW d, On(d), Goes("loop", "free", NoDict), NEW G, NEW W, Rewrites(G, W),
           W # {} => reserving, \A x \in G \cup W : x = Obj[d].uuid /\ Clear(x)'
    PROVE  Good'
<1>1. Shapes'
  BY LoopShapes DEF Good, On, LoopPcs
<1>2. LoopJob(d)
  BY DEF LoopJob, Goes, Acting, Cancelling, Reserved, Uuids
<1>3. job'["api"] = job["api"] /\ job'["loop"].ref = NoDict
  BY DEF Goes, Actors
<1>4. LoopTurn(d, G, W)
  BY <1>2, <1>3 DEF LoopTurn, On
<1> QED
  BY <1>1, <1>4, LoopTurnKeeps DEF Good

\* It goes on with the dict in its job.
LEMMA LoopAwaits ==
    ASSUME Good, NEW d, On(d), NEW pc \in LoopPcs \ {"free"}, Goes("loop", pc, d), Rewrites({}, {}),
           loop.phase = "scan" /\ pc \in {"sell", "settle", "drop"} /\ Over(job'["loop"].ans) => Clear(Obj[d].uuid),
           pc = "drop" => Over(job'["loop"].ans),
           pc = "ask" => job'["loop"].own = Obj[d].uuid,
           pc \in {"cancel", "recheck", "stop"} => job'["loop"].u = Obj[d].uuid,
           pc # "place",
           pc \in Acting \ {"sell"} => loop.phase = "scan",
           pc \in Acting /\ loop.phase = "scan" => d \in ActedOn \/ Obj[d].status # "waiting"
    PROVE  Good'
<1>0. d # NoDict
  BY DEF On, InHand, Good, MemoryPart, Dictionaries
<1>1. Shapes'
  BY <1>0, LoopShapes DEF Good, On, LoopPcs
<1>2. LoopJob(d)
  BY DEF LoopJob, Goes, Reserved, Uuids, On
<1>3. job'["api"] = job["api"]
  BY DEF Goes, Actors
<1>4. LoopTurn(d, {}, {})
  BY <1>2, <1>3 DEF LoopTurn, On
<1> QED
  BY <1>1, <1>4, LoopTurnKeeps DEF Good

LEMMA InHandHas ==
    ASSUME Good, NEW d \in InHand
    PROVE  d \in DOMAIN Obj /\ Obj[d].uuid \in AnyUuid /\ d # NoDict
  BY InHandIsKnown DEF Good, MemoryPart, Lists, InHand, Dictionaries

LEMMA LikeUuid ==
    ASSUME NEW m, NEW W, LikeBut(m, W), NEW d \in DOMAIN Obj
    PROVE  m.obj[d].uuid = Obj[d].uuid
  BY DEF LikeBut

LEMMA SettleKeeps ==
    ASSUME Good, NEW d, On(d), NEW m, LikeBut(m, {}), NEW ans, Settle("loop", m, d, ans),
           loop.phase = "scan", Over(ans) => Clear(Obj[d].uuid),
           d \in ActedOn \/ Obj[d].status # "waiting"
    PROVE  Good'
<1>0. PICK u : u = Obj[d].uuid
  OBVIOUS
<1>1. d \in InHand /\ d \in DOMAIN Obj /\ Lists /\ Shapes /\ Quiet
  BY InHandHas DEF On, Good, MemoryPart
<1>2. m.obj[d].uuid = u
  BY <1>0, <1>1, LikeUuid
<1>3. Over(ans) => Clear(u)'
  BY <1>0, <1>1, ClearKept
<1>4. CASE /\ ans.state = "done"
           /\ Finish("loop") /\ Memory(RemoveOrder(m, m.obj[d].uuid))
  <2>1. Rewrites({u}, {})
    BY <1>2, <1>4, RemovesOf
  <2>2. Goes("loop", "free", NoDict)
    BY <1>1, <1>4, FinishIs DEF Actors
  <2>3. \A x \in {u} \cup {} : x = Obj[d].uuid /\ Clear(x)'
    BY <1>0, <1>3, <1>4 DEF Over
  <2> QED
    BY <2>1, <2>2, <2>3, LoopFinishes
<1>5. CASE /\ ans.state = "cancel" /\ Reorders(m.obj[d])
           /\ Finish("loop") /\ Memory(UpdateStatus(m, m.obj[d].uuid, "waiting"))
  <2>1. LikeBut(UpdateStatus(m, u, "waiting"), {u})
    BY <1>1, UpdateStatusLike
  <2>2. Rewrites({}, {u})
    BY <1>2, <1>5, <2>1, RewritesOf
  <2>3. Goes("loop", "free", NoDict)
    BY <1>1, <1>5, FinishIs DEF Actors
  <2>4. reserving /\ \A x \in {} \cup {u} : x = Obj[d].uuid /\ Clear(x)'
    BY <1>0, <1>3, <1>5 DEF Over, Reorders
  <2> QED
    BY <2>2, <2>3, <2>4, LoopFinishes
<1>6. CASE ans.state = "cancel" /\ Await("loop", "drop", d, ans, 0) /\ Memory(m)
  <2>1. Rewrites({}, {})
    BY <1>6, RewritesOf
  <2>2. Goes("loop", "drop", d) /\ job'["loop"].ans = ans
    BY <1>1, <1>6, AwaitIs DEF Actors
  <2>3. Over(ans) /\ Clear(Obj[d].uuid) /\ "drop" \in LoopPcs \ {"free"}
    BY <1>6 DEF Over, LoopPcs
  <2> QED
    BY <2>1, <2>2, <2>3, LoopAwaits
<1>7. CASE Finish("loop") /\ \E told \in NewStatus(m, m.obj[d]) : Memory(told)
  <2>1. PICK told \in {m, UpdateStatus(m, u, "placed")} : Memory(told)
    BY <1>2, <1>7 DEF NewStatus
  <2>2. LikeBut(told, {})
    BY <1>1, <2>1, UpdateStatusLike
  <2>3. Rewrites({}, {})
    BY <2>1, <2>2, RewritesOf
  <2>4. Goes("loop", "free", NoDict)
    BY <1>1, <1>7, FinishIs DEF Actors
  <2> QED
    BY <2>3, <2>4, LoopFinishes
<1> QED
  BY <1>4, <1>5, <1>6, <1>7 DEF Settle

LEMMA ProcessFillKeeps ==
    ASSUME Good, NEW d, On(d), NEW ans, ProcessFill("loop", d, ans),
           loop.phase = "scan", Over(ans) => Clear(Obj[d].uuid),
           d \in ActedOn \/ Obj[d].status # "waiting"
    PROVE  Good'
<1> DEFINE told == UpdateFill(mem, mem.obj[d].uuid, ans.exec)
<1>1. Shapes /\ Lists /\ LikeBut(mem, {})
  BY SameLike DEF Good, MemoryPart
<1>2. LikeBut(told, {})
  BY <1>1, UpdateFillLike
<1> HIDE DEF told
<1>3. ASSUME NEW pc \in {"sell", "settle"}, NEW n, Await("loop", pc, d, ans, n), NEW m, LikeBut(m, {}), Memory(m)
      PROVE  Good'
  <2>1. Rewrites({}, {})
    BY <1>3, RewritesOf
  <2>2. Goes("loop", pc, d) /\ job'["loop"].ans = ans
    BY <1>1, <1>3, AwaitIs DEF Actors
  <2>3. pc \in LoopPcs \ {"free"}
    BY DEF LoopPcs
  <2> QED
    BY <2>1, <2>2, <2>3, LoopAwaits
<1>4. ASSUME NEW m, LikeBut(m, {}), Settle("loop", m, d, ans) PROVE Good'
  BY <1>4, SettleKeeps
<1>5. \/ \E n : Await("loop", "sell", d, ans, n) /\ Memory(mem)
      \/ Settle("loop", told, d, ans)
      \/ Await("loop", "settle", d, ans, 0) /\ Memory(told)
      \/ Settle("loop", mem, d, ans)
  BY DEF ProcessFill, told
<1> QED
  BY <1>1, <1>2, <1>3, <1>4, <1>5

LEMMA QuietStands ==
    ASSUME Good, ex' = ex, reserving' = reserving, orphaned \subseteq orphaned', loop' = loop
    PROVE  Quiet
  BY DEF Good, Shapes, Quiet

LEMMA OnRef ==
    ASSUME Good, Pc # "free", ex' = ex, reserving' = reserving, orphaned \subseteq orphaned', loop' = loop,
           Lost("loop") \subseteq orphaned'
    PROVE  /\ On(Ref) /\ Ref \in InHand /\ Ref \in DOMAIN Obj /\ Ref # NoDict
           /\ Pc \in Acting => Ref \in ActedOn
<1>1. Ref # NoDict /\ Ref \in InHand
  BY DEF Good, Shapes, Actors, Pc, Ref, InHand
<1>2. Ref \notin Visited
  BY DEF Good, ControlPart, Apart
<1>3. On(Ref)
  BY <1>1, <1>2, QuietStands, GivenUpIsSettled DEF On, Visited
<1>4. Pc \in Acting => Ref \in ActedOn
  BY DEF ActedOn
<1> QED
  BY <1>1, <1>3, <1>4, InHandHas

\* The loop lets go of the dict, and the order stays.
LEMMA LoopLetsGo ==
    ASSUME Good, NEW d, On(d), Finish("loop"), NEW m, LikeBut(m, {}), Memory(m)
    PROVE  Good'
<1>1. Rewrites({}, {})
  BY RewritesOf
<1>2. Goes("loop", "free", NoDict)
  BY FinishIs DEF Good, Actors
<1> QED
  BY <1>1, <1>2, LoopFinishes

\* The loop lets go of the dict and removes the order, which is over.
LEMMA LoopRemoves ==
    ASSUME Good, NEW d, On(d), Finish("loop"), NEW u, u = Obj[d].uuid, Clear(u), Memory(RemoveOrder(mem, u))
    PROVE  Good'
<1>1. Lists /\ Quiet
  BY DEF Good, MemoryPart, On
<1>2. Rewrites({u}, {})
  BY <1>1, SameLike, RemovesOf
<1>3. Goes("loop", "free", NoDict)
  BY FinishIs DEF Good, Actors
<1>4. Clear(u)'
  BY <1>1, ClearKept
<1> QED
  BY <1>2, <1>3, <1>4, LoopFinishes

LEMMA MemLike == Good => LikeBut(mem, {})
  BY SameLike DEF Good, MemoryPart

LEMMA NewStatusLike ==
    ASSUME Good, NEW e, NEW told \in NewStatus(mem, e)
    PROVE  LikeBut(told, {})
<1>1. Lists
  BY DEF Good, MemoryPart
<1>2. LikeBut(UpdateStatus(mem, e.uuid, "placed"), {})
  BY <1>1, SameLike, UpdateStatusLike
<1> QED
  BY <1>2, MemLike DEF NewStatus

LEMMA MemFillLike ==
    ASSUME Good, NEW u, NEW v
    PROVE  LikeBut(UpdateFill(mem, u, v), {})
  BY MemLike, UpdateFillLike DEF Good, MemoryPart

\* What the exchange says is over is over.
LEMMA OverIsOver ==
    ASSUME NEW u, NEW ans \in Answers(u), Over(ans)
    PROVE  ~Live(u) /\ Clear(u)
<1>1. ans.state \notin {"done", "cancel"} \/ (u # Reserved /\ ans.state = Answer(u).state)
  BY DEF Answers, Answer, NoAnswer
<1>2. u # Reserved /\ Live(u) => Answer(u).state \in {"none", "wait", "partial"}
  BY DEF Answer, Live, NoAnswer
<1> QED
  BY <1>1, <1>2 DEF Over, Clear, Live, Uuids, Reserved

(***************************************************************************)
(* The loop's steps with the order in its job.                             *)
(***************************************************************************)
LEMMA SellFailsKeeps == ASSUME Good, SellFails PROVE Good'
<1>1. On(Ref)
  BY OnRef DEF SellFails, Pc, bounds
<1>2. CASE Finish("loop") /\ Memory(mem)
  BY <1>1, <1>2, MemLike, LoopLetsGo
<1>3. CASE KeepForRetry("loop", Ref, job["loop"].ans)
  <2>1. PICK told \in NewStatus(mem, mem.obj[Ref]) : Memory(told)
    BY <1>3 DEF KeepForRetry
  <2>2. Finish("loop")
    BY <1>3 DEF KeepForRetry
  <2> QED
    BY <1>1, <2>1, <2>2, NewStatusLike, LoopLetsGo
<1> QED
  BY <1>2, <1>3 DEF SellFails, SellPutOff, Ref

LEMMA SellSkippedKeeps == ASSUME Good, SellSkipped PROVE Good'
<1>1. On(Ref) /\ Ref \in ActedOn
  BY OnRef DEF SellSkipped, Pc, bounds, Acting
<1>2. PICK told : /\ LikeBut(told, {}) /\ Memory(told)
                  /\ SellDone(told) \/ Finish("loop")
  BY MemFillLike DEF SellSkipped, SellDone
<1>3. CASE Finish("loop")
  BY <1>1, <1>2, <1>3, LoopLetsGo
<1>4. CASE loop.phase # "recover" /\ Await("loop", "settle", Ref, job["loop"].ans, 0)
  <2>1. Goes("loop", "settle", Ref) /\ job'["loop"].ans = job["loop"].ans /\ "settle" \in LoopPcs \ {"free"}
    BY <1>4, AwaitIs DEF Good, Actors, LoopPcs
  <2>2. loop.phase = "scan"
    BY <1>4 DEF Good, Shapes
  <2>3. Over(job["loop"].ans) => Clear(Obj[Ref].uuid)
    BY <2>2 DEF Good, ControlPart, JobsHold, SellSkipped, Pc
  <2>4. Rewrites({}, {})
    BY <1>2, RewritesOf
  <2> QED
    BY <1>1, <2>1, <2>2, <2>3, <2>4, LoopAwaits
<1> QED
  BY <1>2, <1>3, <1>4 DEF SellDone, Ref

LEMMA SettleOrderKeeps == ASSUME Good, SettleOrder PROVE Good'
<1>1. On(Ref) /\ Ref \in ActedOn
  BY OnRef DEF SettleOrder, Pc, bounds, hist, Lost, Creating, Acting
<1>2. loop.phase = "scan" /\ (Over(job["loop"].ans) => Clear(Obj[Ref].uuid))
  BY DEF Good, ControlPart, JobsHold, SettleOrder, Pc, Acting
<1>3. Settle("loop", mem, Ref, job["loop"].ans)
  BY DEF SettleOrder, Ref
<1> QED
  BY <1>1, <1>2, <1>3, MemLike, SettleKeeps

LEMMA DropOrderKeeps == ASSUME Good, DropOrder PROVE Good'
<1>1. On(Ref)
  BY OnRef DEF DropOrder, Pc, bounds, hist, Lost, Creating
<1>2. Clear(Obj[Ref].uuid)
  BY DEF Good, ControlPart, JobsHold, DropOrder, Pc, Acting
<1> QED
  BY <1>1, <1>2, LoopRemoves DEF DropOrder, Ord, Ref, Obj

LEMMA MessageFailsKeeps == ASSUME Good, MessageFails PROVE Good'
<1>1. Goes("loop", "free", NoDict)
  BY FinishIs DEF MessageFails, Good, Actors
<1>2. /\ loop'.phase = loop.phase /\ loop'.todo = {} /\ loop'.asked = {} /\ DOMAIN loop'.answers = {}
      /\ DOMAIN loop' = LoopFields
  BY DEF MessageFails, NothingToDo, LoopFields
<1>3. Quiet
  BY <1>2 DEF MessageFails, Quiet, bounds, hist
<1>4. Shapes'
  BY <1>1, <1>2, <1>3, LoopShapes DEF Good, LoopPcs
<1>5. LoopJob(NoDict)
  BY <1>1 DEF LoopJob, Goes, Acting, Cancelling, Reserved, Uuids
<1>6. Rewrites({}, {})
  BY MemLike, RewritesOf DEF MessageFails
<1>7. job'["api"] = job["api"] /\ Lost("loop") = {}
  BY <1>1 DEF Goes, Actors, MessageFails, Lost, Creating
<1>8. LoopTurn(NoDict, {}, {})
  BY <1>2, <1>3, <1>5, <1>6, <1>7 DEF LoopTurn
<1> QED
  BY <1>4, <1>8, LoopTurnKeeps DEF Good

LEMMA LoopSubmits ==
    ASSUME Good, NEW d, On(d), Waiting(mem.obj[d]), Submit("loop", d)
    PROVE  Good'
<1>1. d \in DOMAIN Obj
  BY InHandHas DEF On
<1>2. Clear(Obj[d].uuid)
  BY <1>1 DEF Waiting, Good, MemoryPart, WaitingAreClear, Obj
<1>3. CASE Finish("loop") /\ Memory(RemoveOrder(mem, mem.obj[d].uuid))
  BY <1>2, <1>3, LoopRemoves DEF Obj
<1>4. CASE Finish("loop") /\ Memory(mem)
  BY <1>4, MemLike, LoopLetsGo
<1>5. ASSUME NEW n, Await("loop", "look", d, NoAnswer, n), Memory(mem) PROVE Good'
  <2>1. Goes("loop", "look", d) /\ "look" \in LoopPcs \ {"free"} /\ "look" \notin Acting
    BY <1>5, AwaitIs DEF Good, Actors, LoopPcs, Acting
  <2>2. Rewrites({}, {})
    BY <1>5, MemLike, RewritesOf
  <2> QED
    BY <2>1, <2>2, LoopAwaits DEF Acting
<1> QED
  BY <1>3, <1>4, <1>5 DEF Submit

\* The memory is as it was, and the coroutines hold what they held.
LEMMA SameMemory ==
    ASSUME Good, mem' = mem, Held' = Held
    PROVE  Rewrites({}, {})
<1>1. DOMAIN Obj = DOMAIN Obj \cap (Held \cup Range(Index))
  BY DEF Good, MemoryPart, Dictionaries
<1>2. Index' = Index /\ Obj' = Obj
  BY DEF Index, Obj
<1> QED
  BY <1>1, <1>2 DEF Rewrites, Good, MemoryPart, Lists

\* A job goes on with its dict.
Continues(a, pc) ==
    /\ DOMAIN job' = Actors /\ DOMAIN job'[a] = JobFields /\ job'[a].pc = pc /\ job'[a].ref = job[a].ref
    /\ job'[a].ans = job[a].ans /\ job'[a].u = job[a].u /\ job'[a].own = job[a].own
    /\ job'[a].hit \in {Reserved, job[a].hit}
    /\ \A b \in Actors \ {a} : job'[b] = job[b]

LEMMA ContinuesHolds ==
    ASSUME NEW a \in Actors, NEW pc, Continues(a, pc), loop' = loop
    PROVE  Held' = Held
  BY DEF Continues, Held

LEMMA ContinuesShapes ==
    ASSUME Good, Quiet, loop' = loop, NEW a \in Actors, NEW pc, Continues(a, pc), job[a].pc # "free", pc # "free",
           a = "loop" => pc \in LoopPcs, a = "api" => pc \in ApiPcs
    PROVE  Shapes'
<1>1. \A b \in Actors :
        /\ DOMAIN job'[b] = JobFields /\ job'[b].hit \in AnyUuid
        /\ job'[b].pc = "free" <=> job'[b].ref = NoDict
  BY DEF Continues, Good, Shapes, AnyUuid
<1>2. job'["loop"].pc \in LoopPcs /\ job'["api"].pc \in ApiPcs
  BY DEF Continues, Good, Shapes, Actors, Pc
<1>3. DOMAIN job' = Actors /\ loop'.phase \in {"recover", "scan"} /\ Shapes
  BY DEF Continues, Good, Shapes
<1> QED
  BY <1>1, <1>2, <1>3, ShapesKept

LEMMA LoopContinues ==
    ASSUME Good, Quiet, loop' = loop, Pc # "free", NEW pc \in LoopPcs \ {"free"}, Continues("loop", pc),
           Rewrites({}, {}), Lost("loop") \subseteq orphaned',
           \/ Pc = "look" /\ pc = "create"
           \/ Pc = "cancel" /\ pc = "recheck"
           \/ Pc = "stop" /\ pc = "place" /\ Reached("loop")
           \/ Pc = "place" /\ pc = "place"
    PROVE  Good'
<1>1. Shapes'
  BY ContinuesShapes DEF Actors, Pc
<1>2. Ref # NoDict /\ Ref \in InHand /\ Ref \notin Visited
  BY DEF Good, Shapes, Actors, Pc, Ref, InHand, ControlPart, Apart
<1>3. /\ job'["api"] = job["api"] /\ job'["loop"].ref = Ref /\ job'["loop"].pc = pc
      /\ job'["loop"].u = job["loop"].u /\ job'["loop"].hit \in {Reserved, job["loop"].hit}
  BY DEF Continues, Actors, Ref
<1>4. job'["loop"].hit \in Uuids => ex[job'["loop"].hit].state # "none"
  BY <1>3 DEF Good, MemoryPart, PlacedOnes, Actors, Reserved, Uuids
<1>5. pc \notin Cancelling /\ pc \notin {"sell", "settle", "drop", "ask", "cancel", "stop"}
  BY DEF Cancelling
<1>6. pc = "recheck" => job["loop"].u = Obj[Ref].uuid
  BY DEF Good, ControlPart, JobsHold
<1>7. pc = "place" => Clear(Obj[Ref].uuid)
  BY DEF Good, ControlPart, JobsHold, Cancelling, Pc, Clear, Actors
<1>8. pc \in Acting => loop.phase = "scan" /\ Ref \in ActedOn
  BY DEF Good, ControlPart, JobsHold, Acting, ActedOn
<1>9. LoopJob(Ref)
  BY <1>2, <1>3, <1>4, <1>5, <1>6, <1>7, <1>8 DEF LoopJob
<1>10. LoopTurn(Ref, {}, {})
  BY <1>2, <1>3, <1>9, GivenUpIsSettled DEF LoopTurn, Visited
<1> QED
  BY <1>1, <1>10, LoopTurnKeeps DEF Good

LEMMA NewPcIs ==
    ASSUME Good, NEW a \in Actors, NEW pc, job' = [job EXCEPT ![a].pc = pc]
    PROVE  Continues(a, pc) /\ job'[a].hit = job[a].hit
<1>1. DOMAIN job' = Actors /\ job'[a] = [job[a] EXCEPT !.pc = pc] /\ \A b \in Actors \ {a} : job'[b] = job[b]
  BY DEF Good, Shapes
<1>2. DOMAIN job[a] = JobFields
  BY DEF Good, Shapes
<1> QED
  BY <1>1, <1>2 DEF Continues, JobFields

LEMMA LoopCreates ==
    ASSUME Good, NoOpenOrder("loop")
    PROVE  Good'
<1>1. Continues("loop", "create") /\ Quiet
  BY NewPcIs, QuietStands DEF NoOpenOrder, Actors, bounds, hist
<1>2. Rewrites({}, {})
  BY <1>1, ContinuesHolds, SameMemory DEF NoOpenOrder, Actors
<1>3. Lost("loop") = {} /\ Pc = "look"
  BY DEF NoOpenOrder, Lost, Creating, Pc
<1> QED
  BY <1>1, <1>2, <1>3, LoopContinues DEF NoOpenOrder, LoopPcs

LEMMA LoopRechecks ==
    ASSUME Good, CancelFails("loop")
    PROVE  Good'
<1>1. Continues("loop", "recheck") /\ Quiet
  BY NewPcIs, QuietStands DEF CancelFails, Actors, bounds, hist
<1>2. Rewrites({}, {})
  BY <1>1, ContinuesHolds, SameMemory DEF CancelFails, Actors
<1>3. Lost("loop") = {} /\ Pc = "cancel"
  BY DEF CancelFails, Lost, Creating, Pc
<1> QED
  BY <1>1, <1>2, <1>3, LoopContinues DEF CancelFails, LoopPcs

LEMMA StopCancelledKeeps == ASSUME Good, StopCancelled PROVE Good'
<1> DEFINE j == job["loop"]
           n == Remaining(Ord("loop"))
<1>1. DOMAIN job' = Actors /\ job'["loop"] = [j EXCEPT !.pc = "place", !.hit = Reserved, !.n = n]
      /\ job'["api"] = job["api"]
  BY DEF StopCancelled, Good, Shapes, Actors
<1>2. DOMAIN j = JobFields
  BY DEF Good, Shapes, Actors
<1> HIDE DEF n
<1>3. /\ DOMAIN job'["loop"] = JobFields /\ job'["loop"].pc = "place" /\ job'["loop"].ref = j.ref
      /\ job'["loop"].ans = j.ans /\ job'["loop"].u = j.u /\ job'["loop"].own = j.own
      /\ job'["loop"].hit = Reserved
  BY <1>1, <1>2 DEF JobFields
<1>4. Continues("loop", "place") /\ Quiet
  BY <1>1, <1>3, QuietStands DEF Continues, Actors, StopCancelled, bounds, hist
<1>5. Rewrites({}, {})
  BY <1>4, ContinuesHolds, SameMemory DEF StopCancelled, Actors
<1>6. Lost("loop") = {} /\ Pc = "stop" /\ Reached("loop")
  BY DEF StopCancelled, Lost, Creating, Pc
<1> QED
  BY <1>4, <1>5, <1>6, LoopContinues DEF StopCancelled, LoopPcs

LEMMA StopNotCancelledKeeps == ASSUME Good, StopNotCancelled PROVE Good'
<1>1. On(Ref)
  BY OnRef DEF StopNotCancelled, Pc, bounds, hist, Lost, Creating
<1> QED
  BY <1>1, MemLike, LoopLetsGo DEF StopNotCancelled

LEMMA StopFailsKeeps == ASSUME Good, StopFails PROVE Good'
<1>1. On(Ref) /\ Quiet
  BY OnRef DEF StopFails, Pc, bounds, On
<1>2. Clear(Obj[Ref].uuid) /\ Lost("loop") \subseteq orphaned' /\ Pc = "place" /\ loop' = loop
  BY DEF Good, ControlPart, JobsHold, StopFails, Pc
<1>3. CASE Finish("loop") /\ Memory(RemoveOrder(mem, Ord("loop").uuid))
  BY <1>1, <1>2, <1>3, LoopRemoves DEF Ord, Ref, Obj
<1>4. CASE job' = [job EXCEPT !["loop"] = [@ EXCEPT !.tries = job["loop"].tries + 1, !.hit = Reserved]] /\ Memory(mem)
  <2> DEFINE j == job["loop"]
  <2>0. PICK n : job' = [job EXCEPT !["loop"] = [j EXCEPT !.tries = n, !.hit = Reserved]]
    BY <1>4
  <2>1. DOMAIN job' = Actors /\ job'["loop"] = [j EXCEPT !.tries = n, !.hit = Reserved]
        /\ job'["api"] = job["api"]
    BY <2>0 DEF Good, Shapes, Actors
  <2>2. DOMAIN j = JobFields
    BY DEF Good, Shapes, Actors
  <2>3. /\ DOMAIN job'["loop"] = JobFields /\ job'["loop"].pc = j.pc /\ job'["loop"].ref = j.ref
        /\ job'["loop"].ans = j.ans /\ job'["loop"].u = j.u /\ job'["loop"].own = j.own
        /\ job'["loop"].hit = Reserved
    BY <2>1, <2>2 DEF JobFields
  <2>4. Continues("loop", "place")
    BY <1>2, <2>1, <2>3 DEF Continues, Actors, Pc
  <2>5. Rewrites({}, {})
    BY <1>4, MemLike, RewritesOf
  <2> QED
    BY <1>1, <1>2, <2>4, <2>5, LoopContinues DEF LoopPcs
<1> QED
  BY <1>3, <1>4 DEF StopFails

LEMMA LoopCancelAccepted ==
    ASSUME Good, CancelAccepted("loop")
    PROVE  Good'
<1>1. On(Ref)
  BY OnRef DEF CancelAccepted, Pc, bounds, Lost, Creating
<1>2. job["loop"].u = Obj[Ref].uuid /\ Clear(job["loop"].u)
  BY DEF Good, ControlPart, JobsHold, CancelAccepted, Cancelling, Pc, Actors, Clear
<1> QED
  BY <1>1, <1>2, LoopRemoves DEF CancelAccepted

LEMMA LoopRecheck ==
    ASSUME Good, Recheck("loop")
    PROVE  Good'
<1>1. On(Ref)
  BY OnRef DEF Recheck, Pc, bounds, Lost, Creating
<1>2. job["loop"].u = Obj[Ref].uuid
  BY DEF Good, ControlPart, JobsHold, Recheck, Pc
<1>3. PICK ans \in Answers(job["loop"].u) :
        /\ Finish("loop")
        /\ \/ Over(ans) /\ Memory(RemoveOrder(mem, job["loop"].u))
           \/ Memory(mem)
  BY DEF Recheck, Over
<1>4. CASE Memory(mem)
  BY <1>1, <1>3, <1>4, MemLike, LoopLetsGo
<1>5. CASE Over(ans) /\ Memory(RemoveOrder(mem, job["loop"].u))
  <2>1. Clear(job["loop"].u)
    BY <1>3, <1>5, OverIsOver
  <2> QED
    BY <1>1, <1>2, <1>3, <1>5, <2>1, LoopRemoves
<1> QED
  BY <1>3, <1>4, <1>5

LEMMA AskBeforeCancelKeeps == ASSUME Good, AskBeforeCancel PROVE Good'
<1>1. On(Ref) /\ Ref \in ActedOn
  BY OnRef DEF AskBeforeCancel, Pc, bounds, hist, Lost, Creating, Acting
<1>2. job["loop"].own = Obj[Ref].uuid /\ loop.phase = "scan"
  BY DEF Good, ControlPart, JobsHold, AskBeforeCancel, Pc, Acting
<1>3. PICK ans \in Answers(job["loop"].own) :
        \/ ProcessFill("loop", Ref, ans)
        \/ \E n : AwaitWith("loop", "cancel", Ref, n, Ord("loop").uuid, job["loop"].own) /\ Memory(mem)
  BY DEF AskBeforeCancel, Ref
<1>4. CASE ProcessFill("loop", Ref, ans)
  BY <1>1, <1>2, <1>3, <1>4, OverIsOver, ProcessFillKeeps
<1>5. ASSUME NEW n, AwaitWith("loop", "cancel", Ref, n, Ord("loop").uuid, job["loop"].own), Memory(mem)
      PROVE  Good'
  <2>1. Goes("loop", "cancel", Ref) /\ job'["loop"].u = Obj[Ref].uuid /\ "cancel" \in LoopPcs \ {"free"}
    BY <1>5, AwaitWithIs DEF Good, Actors, LoopPcs, Ord, Ref, Obj
  <2>2. Rewrites({}, {})
    BY <1>5, MemLike, RewritesOf
  <2> QED
    BY <1>1, <1>2, <2>1, <2>2, LoopAwaits
<1> QED
  BY <1>3, <1>4, <1>5

\* An order that is listed and has not been overtaken waits.
LEMMA NotOvertaken ==
    ASSUME Good, NEW e, ~Overtaken(e)
    PROVE  /\ e.uuid \in DOMAIN Index /\ Obj[Index[e.uuid]].status = "waiting" /\ reserving
           /\ Obj[Index[e.uuid]].uuid = e.uuid /\ Clear(e.uuid)
<1>1. e.uuid \in DOMAIN Index /\ Obj[Index[e.uuid]].status = "waiting" /\ reserving
  BY DEF Overtaken, Has, Waiting, At, Index, Obj
<1>2. Index[e.uuid] \in DOMAIN Obj /\ Obj[Index[e.uuid]].uuid = e.uuid
  BY <1>1 DEF Good, MemoryPart, Lists
<1> QED
  BY <1>1, <1>2 DEF Good, MemoryPart, WaitingAreClear

LEMMA LoopSubmitFails ==
    ASSUME Good, SubmitFails("loop"), ~raced'
    PROVE  Good'
<1>1. On(Ref)
  BY OnRef DEF SubmitFails, Pc, bounds
<1>2. Finish("loop")
  BY DEF SubmitFails
<1>3. CASE Memory(mem)
  BY <1>1, <1>2, <1>3, MemLike, LoopLetsGo
<1>4. CASE ~Overtaken(Obj[Ref]) /\ Memory(RemoveOrder(mem, Obj[Ref].uuid))
  BY <1>1, <1>2, <1>4, NotOvertaken, LoopRemoves
<1> QED
  BY <1>3, <1>4 DEF SubmitFails, Ord, Ref, Obj

(***************************************************************************)
(* The loop's steps with an order of the list it goes through.             *)
(***************************************************************************)
LEMMA OnTodo ==
    ASSUME Good, Free("loop"), NEW d \in loop.todo, loop' = [loop EXCEPT !.todo = @ \ {d}],
           ex' = ex, reserving' = reserving, orphaned \subseteq orphaned'
    PROVE  On(d)
<1>1. /\ loop'.phase = loop.phase /\ loop'.todo = loop.todo \ {d} /\ loop'.asked = loop.asked
      /\ loop'.answers = loop.answers /\ DOMAIN loop' = LoopFields
  BY DEF Good, Shapes, LoopFields
<1>2. d \in InHand /\ d \notin Queried
  BY DEF InHand, Visited, Good, ControlPart, Apart
<1>3. Lost("loop") = {}
  BY DEF Free, Lost, Creating
<1>4. Quiet
  BY <1>1 DEF Quiet
<1> QED
  BY <1>1, <1>2, <1>3, <1>4 DEF On, Queried

LEMMA OnAnswer ==
    ASSUME Good, NEW d \in DOMAIN loop.answers, Answered(d),
           ex' = ex, reserving' = reserving, orphaned \subseteq orphaned'
    PROVE  On(d) /\ d \in ActedOn /\ loop.phase = "scan" /\ Free("loop")
<1> DEFINE rest == Restrict(loop.answers, DOMAIN loop.answers \ {d})
<1>0. loop' = [loop EXCEPT !.answers = rest] /\ loop.phase = "scan" /\ Free("loop") /\ loop.todo = {} /\ loop.asked = {}
  BY DEF Answered
<1>1. DOMAIN rest = DOMAIN loop.answers \ {d} /\ \A e \in DOMAIN rest : rest[e] = loop.answers[e]
  BY DEF Restrict
<1> HIDE DEF rest
<1>2. /\ loop'.phase = loop.phase /\ loop'.todo = loop.todo /\ loop'.asked = loop.asked
      /\ loop'.answers = rest /\ DOMAIN loop' = LoopFields
  BY <1>0 DEF Good, Shapes, LoopFields
<1>3. d \in InHand /\ d \in ActedOn
  BY DEF InHand, Visited, ActedOn, Queried
<1>4. Lost("loop") = {}
  BY <1>0 DEF Free, Lost, Creating
<1>5. Quiet
  BY <1>2 DEF Quiet
<1> QED
  BY <1>0, <1>1, <1>2, <1>3, <1>4, <1>5 DEF On

LEMMA LoopPasses ==
    ASSUME Good, Free("loop"), job' = job, NEW d, On(d), NEW G, NEW W, Rewrites(G, W),
           W # {} => reserving, \A x \in G \cup W : x = Obj[d].uuid /\ Clear(x)'
    PROVE  Good'
<1>1. Shapes'
  BY DEF Good, Shapes, On, Quiet, Pc
<1>2. job["loop"].pc = "free" /\ job["loop"].ref = NoDict
  BY DEF Free, Good, Shapes, Actors
<1>3. job["loop"].hit \in Uuids => ex[job["loop"].hit].state # "none"
  BY DEF Good, MemoryPart, PlacedOnes, Actors
<1>4. LoopJob(d)
  BY <1>2, <1>3 DEF LoopJob, Acting, Cancelling
<1>5. LoopTurn(d, G, W)
  BY <1>2, <1>4 DEF LoopTurn, On
<1> QED
  BY <1>1, <1>5, LoopTurnKeeps DEF Good

LEMMA LoopPassesBy ==
    ASSUME Good, Free("loop"), job' = job, NEW d, On(d), NEW m, LikeBut(m, {}), Memory(m)
    PROVE  Good'
  BY RewritesOf, LoopPasses

LEMMA LoopPassesAndRemoves ==
    ASSUME Good, Free("loop"), job' = job, NEW d, On(d), NEW u, u = Obj[d].uuid, Clear(u)',
           Memory(RemoveOrder(mem, u))
    PROVE  Good'
<1>1. Rewrites({u}, {})
  BY MemLike, RemovesOf
<1> QED
  BY <1>1, LoopPasses

LEMMA LoopPassesAndMarks ==
    ASSUME Good, Free("loop"), job' = job, NEW d, On(d), NEW u, u = Obj[d].uuid, Clear(u)', reserving,
           Memory(UpdateStatus(mem, u, "waiting"))
    PROVE  Good'
<1>1. LikeBut(UpdateStatus(mem, u, "waiting"), {u})
  BY MemLike, UpdateStatusLike DEF Good, MemoryPart
<1>2. Rewrites({}, {u})
  BY <1>1, RewritesOf
<1> QED
  BY <1>2, LoopPasses

\* The loop puts a dict it visits into another of its sets.
LEMMA LoopMoves ==
    ASSUME Good, Free("loop"), job' = job, Quiet, loop'.phase = loop.phase, Visited' = Visited,
           loop'.todo \cap Queried' = {}, loop'.asked \cap DOMAIN loop'.answers = {},
           NEW d \in Visited, Queried' \subseteq Queried \cup {d},
           loop.phase = "scan" /\ d \in Range(Index) => Obj[d].status # "waiting",
           Rewrites({}, {}),
           \A e \in DOMAIN loop'.answers : Over(loop'.answers[e]) => Clear(Obj[e].uuid),
           DOMAIN loop'.answers # {} => loop.phase = "scan"
    PROVE  Good'
<1>1. Shapes'
  BY DEF Good, Shapes, Quiet, Pc
<1>2. Held' = Held /\ InHand' = InHand /\ Ref' = Ref /\ Pc' = Pc /\ ActedOn' = Queried' /\ Pc = "free"
  BY DEF Held, InHand, Visited, Ref, Pc, ActedOn, Acting, Free
<1>3. MemoryPart' /\ Range(Index') \subseteq Range(Index) /\ DOMAIN Obj' \subseteq DOMAIN Obj
  <2>1. HeldKept /\ Cardinality(Visited') <= MaxOrders + 1 /\ NoDict \notin Visited'
    BY <1>2 DEF HeldKept, Good, MemoryPart, Dictionaries
  <2>2. InFlight' = InFlight
    BY DEF InFlight, Lost
  <2>3. \A a \in Actors : job'[a].hit \in Uuids => ex[job'[a].hit].state # "none"
    BY DEF Good, MemoryPart, PlacedOnes
  <2> QED
    BY <2>1, <2>2, <2>3, RewritesKeepMemory DEF Good
<1>4. InHand \subseteq DOMAIN Obj'
  BY <1>2, <1>3, InHandStaysKnown DEF MemoryPart
<1>5. \A e \in DOMAIN Obj' : Obj'[e].uuid = Obj[e].uuid /\ (Obj'[e].status = "waiting" => Obj[e].status = "waiting")
  BY DEF Rewrites
<1>6. DOMAIN Index' = DOMAIN Index /\ \A u \in DOMAIN Index : Index'[u] = Index[u]
  BY DEF Rewrites
<1>7. Apart'
  <2>1. \A e \in InHand', f \in InHand' : Obj'[e].uuid = Obj'[f].uuid => e = f
    BY <1>2, <1>4, <1>5 DEF Good, ControlPart, Apart
  <2>2. Ref' \notin Visited'
    BY <1>2 DEF Good, ControlPart, Apart
  <2> QED
    BY <2>1, <2>2 DEF Apart
<1>8. ApiMeets'
  <2> SUFFICES ASSUME Submitting, NEW u, u = Obj'[job["api"].ref].uuid,
                      u \in DOMAIN Index', Index'[u] \in InHand', NEW e \in InHand'
               PROVE  Obj'[e].uuid \in DOMAIN Index'
    BY DEF ApiMeets, Submitting, Has, Index, Obj
  <2>1. job["api"].ref \in DOMAIN Obj'
    <3>1. job'["api"].ref # NoDict /\ job'["api"].ref \in Held'
      BY DEF Submitting, Good, Shapes, Actors, Held
    <3> QED
      BY <1>3, <3>1 DEF MemoryPart, Dictionaries
  <2>2. u = Obj[job["api"].ref].uuid /\ u \in DOMAIN Index /\ Index[u] \in InHand
    BY <1>2, <1>5, <1>6, <2>1
  <2>3. Obj[e].uuid \in DOMAIN Index
    BY <1>2, <2>2 DEF Good, ControlPart, ApiMeets, Has, Index, Obj
  <2> QED
    BY <1>2, <1>4, <1>5, <1>6, <2>3
<1>9. NotWaiting'
  <2> SUFFICES ASSUME loop.phase = "scan", NEW e \in ActedOn', e \in Range(Index'), Obj'[e].status = "waiting"
               PROVE  FALSE
    BY DEF NotWaiting
  <2>1. e \in Range(Index) /\ e \in DOMAIN Obj' /\ (e \in Queried \/ e = d)
    BY <1>2, <1>3 DEF Range, MemoryPart, Lists
  <2>2. Obj[e].status = "waiting"
    BY <1>5, <2>1
  <2> QED
    BY <2>1, <2>2 DEF Good, ControlPart, NotWaiting, ActedOn
<1>10. AnswersHold'
  <2>1. ASSUME NEW e \in DOMAIN loop'.answers, Over(loop'.answers[e]), NEW u, u = Obj'[e].uuid
        PROVE  Clear(u)'
    <3>1. e \in InHand'
      BY DEF InHand, Visited
    <3>2. u = Obj[e].uuid
      BY <1>2, <1>4, <1>5, <2>1, <3>1
    <3>3. Clear(u)
      BY <2>1, <3>2
    <3> QED
      BY <3>3, ClearKept
  <2> QED
    BY <2>1 DEF AnswersHold
<1>11. JobsHold'
  <2>1. Pc' = "free"
    BY <1>2
  <2>2. \A a \in Actors :
          job[a].pc \in Cancelling /\ job[a].hit # Reserved => job[a].hit = job[a].u /\ ~Live(job[a].u)
    BY DEF Good, ControlPart, JobsHold, Reached
  <2>3. \A a \in Actors :
          job'[a].pc \in Cancelling /\ Reached(a)' => job'[a].hit = job'[a].u /\ ~Live(job[a].u)'
    BY <2>2 DEF Reached, Live, Quiet
  <2> QED
    BY <2>1, <2>3 DEF JobsHold, Acting
<1> QED
  BY <1>1, <1>3, <1>7, <1>8, <1>9, <1>10, <1>11 DEF Good, ControlPart

LEMMA ScanKeeps ==
    ASSUME Good, NEW d \in loop.todo, Scan(d)
    PROVE  Good'
<1> DEFINE e == mem.obj[d]
           visited == [loop EXCEPT !.todo = @ \ {d}]
<1>1. /\ loop.phase = "scan" /\ Free("loop") /\ ex' = ex /\ reserving' = reserving /\ orphaned' = orphaned
      /\ d \in Visited /\ d \in DOMAIN Obj /\ e = Obj[d] /\ Lists /\ Shapes
  BY InHandHas DEF Scan, bounds, hist, Visited, InHand, Obj, Good, MemoryPart
<1>2. loop' = visited => On(d)
  BY <1>1, OnTodo
<1>3. CASE loop' = visited /\ job' = job /\ Memory(mem)
  BY <1>1, <1>2, <1>3, MemLike, LoopPassesBy
<1>4. CASE /\ e.status = "cancel_requested" /\ loop' = visited
           /\ IF e.uuid = Reserved THEN job' = job /\ Memory(RemoveOrder(mem, e.uuid))
              ELSE AwaitWith("loop", "ask", d, 0, Reserved, e.uuid) /\ Memory(mem)
  <2>1. CASE e.uuid = Reserved
    <3>1. Clear(Reserved)'
      BY DEF Clear, Live, Uuids, Reserved
    <3> QED
      BY <1>1, <1>2, <1>4, <2>1, <3>1, LoopPassesAndRemoves
  <2>2. CASE e.uuid # Reserved
    <3>1. Goes("loop", "ask", d) /\ job'["loop"].own = Obj[d].uuid /\ "ask" \in LoopPcs \ {"free"}
      BY <1>1, <1>4, <2>2, AwaitWithIs DEF Actors, LoopPcs
    <3>2. Rewrites({}, {})
      BY <1>4, <2>2, MemLike, RewritesOf
    <3> QED
      BY <1>1, <1>2, <1>4, <3>1, <3>2, LoopAwaits
  <2> QED
    BY <2>1, <2>2
<1>5. CASE /\ reserving /\ loop' = visited /\ job' = job
           /\ Memory(UpdateStatus(mem, e.uuid, IF Waiting(e) THEN "waiting" ELSE "placed"))
  <2>1. CASE Waiting(e)
    <3>1. PICK u : u = Obj[d].uuid
      OBVIOUS
    <3>2. Clear(u)
      BY <1>1, <2>1, <3>1 DEF Waiting, Good, MemoryPart, WaitingAreClear
    <3>3. Clear(u)'
      BY <1>1, <1>2, <1>5, <3>2, ClearKept DEF On
    <3> QED
      BY <1>1, <1>2, <1>5, <2>1, <3>1, <3>3, LoopPassesAndMarks
  <2>2. CASE ~Waiting(e)
    <3>1. LikeBut(UpdateStatus(mem, e.uuid, "placed"), {})
      BY <1>1, MemLike, UpdateStatusLike
    <3> QED
      BY <1>1, <1>2, <1>5, <2>2, <3>1, LoopPassesBy
  <2> QED
    BY <2>1, <2>2
<1>6. CASE Waiting(e) /\ loop' = visited /\ Submit("loop", d)
  BY <1>2, <1>6, LoopSubmits
<1>7. CASE /\ Has(mem, e.uuid) /\ ~Waiting(e)
           /\ loop' = [visited EXCEPT !.asked = @ \cup {d}]
           /\ job' = job /\ Memory(mem)
  <2>1. /\ loop'.phase = loop.phase /\ loop'.todo = loop.todo \ {d} /\ loop'.asked = loop.asked \cup {d}
        /\ loop'.answers = loop.answers /\ DOMAIN loop' = LoopFields
    BY <1>1, <1>7 DEF Shapes, LoopFields
  <2>2. Visited' = Visited /\ Queried' \subseteq Queried \cup {d}
    BY <2>1 DEF Visited, Queried
  <2>3. loop'.todo \cap Queried' = {} /\ loop'.asked \cap DOMAIN loop'.answers = {}
    BY <2>1 DEF Queried, Good, ControlPart, Apart
  <2>4. Obj[d].status # "waiting"
    BY <1>1, <1>7 DEF Waiting, Good, MemoryPart, WaitingAreClear
  <2>5. Rewrites({}, {}) /\ Quiet
    BY <1>1, <1>7, <2>1, MemLike, RewritesOf DEF Quiet
  <2>6. \A f \in DOMAIN loop'.answers : Over(loop'.answers[f]) => Clear(Obj[f].uuid)
    BY <2>1 DEF Good, ControlPart, AnswersHold
  <2> QED
    BY <1>1, <1>7, <2>1, <2>2, <2>3, <2>4, <2>5, <2>6, LoopMoves
<1> QED
  BY <1>3, <1>4, <1>5, <1>6, <1>7 DEF Scan

LEMMA QueryKeeps ==
    ASSUME Good, NEW d \in loop.asked, Query(d)
    PROVE  Good'
<1>1. PICK ans \in IF Has(mem, mem.obj[d].uuid) THEN Answers(mem.obj[d].uuid) ELSE {NoAnswer} :
        loop' = [loop EXCEPT !.asked = @ \ {d}, !.answers = Put(@, d, ans)]
  BY DEF Query
<1> DEFINE put == Put(loop.answers, d, ans)
<1>2. DOMAIN put = DOMAIN loop.answers \cup {d} /\ put[d] = ans
      /\ \A f \in DOMAIN loop.answers \ {d} : put[f] = loop.answers[f]
  BY DEF Put
<1> HIDE DEF put
<1>3. loop' = [loop EXCEPT !.asked = @ \ {d}, !.answers = put]
  BY <1>1 DEF put
<1>4. /\ loop'.phase = loop.phase /\ loop'.todo = loop.todo /\ loop'.asked = loop.asked \ {d}
      /\ loop'.answers = put /\ DOMAIN loop' = LoopFields
  BY <1>3 DEF Good, Shapes, LoopFields
<1>5. /\ loop.phase = "scan" /\ Free("loop") /\ ex' = ex /\ reserving' = reserving /\ orphaned' = orphaned
      /\ mem' = mem /\ job' = job
  BY DEF Query, bounds, hist
<1>6. Visited' = Visited /\ Queried' = Queried /\ d \in Queried
  BY <1>2, <1>4 DEF Visited, Queried
<1>7. loop'.todo \cap Queried' = {} /\ loop'.asked \cap DOMAIN loop'.answers = {} /\ d \in Visited
  BY <1>2, <1>4, <1>6 DEF Queried, Good, ControlPart, Apart, Visited
<1>8. Rewrites({}, {}) /\ Quiet
  <2>1. Held' = Held
    BY <1>5, <1>6 DEF Held, Visited
  <2> QED
    BY <1>4, <1>5, <2>1, SameMemory DEF Quiet
<1>9. \A f \in DOMAIN loop'.answers : Over(loop'.answers[f]) => Clear(Obj[f].uuid)
  <2>1. Over(ans) => Clear(Obj[d].uuid)
    <3>1. Over(ans) => ans # NoAnswer
      BY DEF Over, NoAnswer
    <3> QED
      BY <3>1, OverIsOver DEF Obj
  <2>2. \A f \in DOMAIN loop.answers : Over(loop.answers[f]) => Clear(Obj[f].uuid)
    BY DEF Good, ControlPart, AnswersHold
  <2> QED
    BY <1>2, <1>4, <2>1, <2>2
<1>10. d \in Range(Index) => Obj[d].status # "waiting"
  BY <1>5, <1>6 DEF Good, ControlPart, NotWaiting, ActedOn
<1> QED
  BY <1>4, <1>5, <1>6, <1>7, <1>8, <1>9, <1>10, LoopMoves

LEMMA ForgottenKeeps ==
    ASSUME Good, NEW d \in DOMAIN loop.answers, Forgotten(d)
    PROVE  Good'
<1>1. On(d) /\ Free("loop")
  BY OnAnswer DEF Forgotten, bounds, hist
<1> QED
  BY <1>1, MemLike, LoopPassesBy DEF Forgotten

LEMMA UnansweredKeeps ==
    ASSUME Good, NEW d \in DOMAIN loop.answers, Unanswered(d)
    PROVE  Good'
<1> DEFINE e == mem.obj[d]
<1>1. orphaned \subseteq orphaned'
  BY DEF Unanswered
<1>2. On(d) /\ Free("loop") /\ job' = job /\ reserving
  BY <1>1, OnAnswer DEF Unanswered, bounds
<1>3. PICK u : u = Obj[d].uuid
  OBVIOUS
<1>4. CASE Memory(mem)
  BY <1>2, <1>4, MemLike, LoopPassesBy
<1>5. CASE u \in orphaned' /\ Memory(UpdateStatus(mem, u, "waiting"))
  BY <1>2, <1>3, <1>5, LoopPassesAndMarks DEF Clear
<1>6. CASE u \in orphaned' /\ Memory(RemoveOrder(mem, u))
  BY <1>2, <1>3, <1>6, LoopPassesAndRemoves DEF Clear
<1>7. CASE TooMany("status", e.uuid)
  <2>1. u \in orphaned'
    BY <1>3, <1>7 DEF Unanswered, Obj
  <2> QED
    BY <1>3, <1>5, <1>6, <1>7, <2>1 DEF Unanswered, Obj
<1>8. CASE ~TooMany("status", e.uuid)
  BY <1>4, <1>8 DEF Unanswered
<1> QED
  BY <1>7, <1>8

LEMMA ProcessKeeps ==
    ASSUME Good, NEW d \in DOMAIN loop.answers, Process(d)
    PROVE  Good'
<1>1. On(d) /\ d \in ActedOn /\ loop.phase = "scan"
  BY OnAnswer DEF Process, bounds, hist
<1>2. CASE AwaitWith("loop", "stop", d, 0, mem.obj[d].uuid, mem.obj[d].uuid) /\ Memory(mem)
  <2>1. Goes("loop", "stop", d) /\ job'["loop"].u = Obj[d].uuid /\ "stop" \in LoopPcs \ {"free"}
    BY <1>2, AwaitWithIs DEF Good, Actors, LoopPcs, Obj
  <2>2. Rewrites({}, {})
    BY <1>2, MemLike, RewritesOf
  <2> QED
    BY <1>1, <2>1, <2>2, LoopAwaits
<1>3. CASE ProcessFill("loop", d, loop.answers[d])
  <2>1. Over(loop.answers[d]) => Clear(Obj[d].uuid)
    BY DEF Good, ControlPart, AnswersHold
  <2> QED
    BY <1>1, <1>3, <2>1, ProcessFillKeeps
<1> QED
  BY <1>2, <1>3 DEF Process

LEMMA RecoverKeeps ==
    ASSUME Good, NEW d \in loop.todo, Recover(d)
    PROVE  Good'
<1>1. On(d) /\ Free("loop") /\ loop.phase = "recover"
  BY OnTodo DEF Recover, bounds, hist
<1>2. \/ job' = job /\ Memory(mem)
      \/ \E v : job' = job /\ Memory(UpdateFill(mem, mem.obj[d].uuid, v))
      \/ \E ans, n : Await("loop", "sell", d, ans, n) /\ Memory(mem)
  BY DEF Recover
<1>3. CASE job' = job /\ Memory(mem)
  BY <1>1, <1>3, MemLike, LoopPassesBy
<1>4. ASSUME NEW v, job' = job, Memory(UpdateFill(mem, mem.obj[d].uuid, v)) PROVE Good'
  BY <1>1, <1>4, MemFillLike, LoopPassesBy
<1>5. ASSUME NEW ans, NEW n, Await("loop", "sell", d, ans, n), Memory(mem) PROVE Good'
  <2>1. Goes("loop", "sell", d) /\ "sell" \in LoopPcs \ {"free"}
    BY <1>5, AwaitIs DEF Good, Actors, LoopPcs
  <2>2. Rewrites({}, {})
    BY <1>5, MemLike, RewritesOf
  <2> QED
    BY <1>1, <2>1, <2>2, LoopAwaits
<1> QED
  BY <1>2, <1>3, <1>4, <1>5

(***************************************************************************)
(* The steps of a request.                                                 *)
(***************************************************************************)
LEMMA ApiFinishes ==
    ASSUME Good, Quiet, loop' = loop, Finish("api"), NEW G, Rewrites(G, {}), \A x \in G : Clear(x)',
           \A u \in Lost("api") : Settled(u)
    PROVE  Good'
<1>1. Goes("api", "free", NoDict)
  BY FinishIs DEF Good, Actors
<1>2. Shapes'
  BY <1>1, ApiShapes DEF Good, ApiPcs
<1>3. ApiTurn(G)
  BY <1>1 DEF ApiTurn, Goes, Actors, Submitting, Cancelling, Reserved, Uuids
<1> QED
  BY <1>2, <1>3, ApiTurnKeeps DEF Good

LEMMA ApiLetsGo ==
    ASSUME Good, Quiet, loop' = loop, Finish("api"), NEW m, LikeBut(m, {}), Memory(m), Lost("api") \subseteq orphaned'
    PROVE  Good'
<1>1. Rewrites({}, {})
  BY RewritesOf
<1> QED
  BY <1>1, ApiFinishes, GivenUpIsSettled

LEMMA ApiRemoves ==
    ASSUME Good, Quiet, loop' = loop, Finish("api"), NEW u, Clear(u), Memory(RemoveOrder(mem, u)),
           Lost("api") \subseteq orphaned'
    PROVE  Good'
<1>1. Rewrites({u}, {})
  BY MemLike, RemovesOf
<1>2. Clear(u)'
  BY ClearKept
<1> QED
  BY <1>1, <1>2, ApiFinishes, GivenUpIsSettled

LEMMA ApiAwaits ==
    ASSUME Good, Quiet, loop' = loop, NEW pc \in ApiPcs \ {"free"}, NEW d, d # NoDict, Goes("api", pc, d),
           d \in {job["api"].ref} \cup Range(Index'),
           pc \in {"submit", "look", "create"} => Submitting /\ d = job["api"].ref,
           Rewrites({}, {}), Lost("api") \subseteq orphaned'
    PROVE  Good'
<1>1. Shapes'
  BY ApiShapes DEF Good
<1>2. ApiTurn({})
  BY GivenUpIsSettled DEF ApiTurn, Goes, Actors, Submitting, Reserved, Uuids
<1> QED
  BY <1>1, <1>2, ApiTurnKeeps DEF Good

LEMMA ApiContinues ==
    ASSUME Good, ex' = ex, reserving' = reserving, orphaned' = orphaned, loop' = loop, mem' = mem,
           NEW pc, Continues("api", pc), Lost("api") = {},
           \/ job["api"].pc = "look" /\ pc = "create"
           \/ job["api"].pc = "cancel" /\ pc = "recheck"
    PROVE  Good'
<1>1. Quiet /\ pc \in ApiPcs /\ pc # "free"
  BY QuietStands DEF ApiPcs
<1>2. Shapes'
  BY <1>1, ContinuesShapes DEF Actors
<1>3. Rewrites({}, {})
  BY ContinuesHolds, SameMemory DEF Actors
<1>4. job'["api"].hit \in Uuids => ex[job'["api"].hit].state # "none"
  BY DEF Continues, Good, MemoryPart, PlacedOnes, Actors, Reserved, Uuids
<1>5. ApiTurn({})
  BY <1>1, <1>3, <1>4 DEF ApiTurn, Continues, Actors, Submitting, Cancelling
<1> QED
  BY <1>2, <1>5, ApiTurnKeeps DEF Good

LEMMA CancelRequestKeeps ==
    ASSUME Good, NEW u, CancelRequest(u)
    PROVE  Good'
<1>1. Quiet /\ loop' = loop /\ Lost("api") = {}
  BY QuietStands DEF CancelRequest, Accept, hist, Free, Lost, Creating
<1>2. Goes("api", "cancel", Index[u]) /\ "cancel" \in ApiPcs \ {"free"}
  BY AwaitWithIs DEF CancelRequest, Good, Actors, Index, ApiPcs
<1>3. Rewrites({}, {})
  BY MemLike, RewritesOf DEF CancelRequest
<1>4. u \in DOMAIN Index /\ Index' = Index
  BY MemoryIs DEF CancelRequest, Has, Index
<1>5. Index[u] \in Range(Index') /\ Index[u] # NoDict
  BY <1>4, SyncAssumption DEF Range, Good, MemoryPart, Lists, Dicts, NoDict
<1> QED
  BY <1>1, <1>2, <1>3, <1>5, ApiAwaits

LEMMA SubmitOnRequestKeeps == ASSUME Good, SubmitOnRequest PROVE Good'
<1> DEFINE d == job["api"].ref
<1>1. Quiet /\ loop' = loop /\ Lost("api") = {} /\ Submitting
  BY QuietStands DEF SubmitOnRequest, bounds, hist, Lost, Creating, Submitting
<1>2. d # NoDict /\ d \in DOMAIN Obj
  BY <1>1 DEF Good, Shapes, Actors, Submitting, MemoryPart, Dictionaries, Held
<1>3. CASE Finish("api") /\ Memory(mem)
  BY <1>1, <1>3, MemLike, ApiLetsGo
<1>4. CASE Waiting(Obj[d]) /\ Finish("api") /\ Memory(RemoveOrder(mem, Obj[d].uuid))
  <2>1. Clear(Obj[d].uuid)
    BY <1>2, <1>4 DEF Waiting, Good, MemoryPart, WaitingAreClear
  <2> QED
    BY <1>1, <1>4, <2>1, ApiRemoves
<1>5. ASSUME NEW n, Await("api", "look", d, NoAnswer, n), Memory(mem) PROVE Good'
  <2>1. Goes("api", "look", d) /\ "look" \in ApiPcs \ {"free"}
    BY <1>5, AwaitIs DEF Good, Actors, ApiPcs
  <2>2. Rewrites({}, {})
    BY <1>5, MemLike, RewritesOf
  <2> QED
    BY <1>1, <1>2, <2>1, <2>2, ApiAwaits
<1> QED
  BY <1>3, <1>4, <1>5 DEF SubmitOnRequest, Submit, Ord, Obj

LEMMA QueryOnRequestKeeps == ASSUME Good, QueryOnRequest PROVE Good'
<1>1. Quiet /\ loop' = loop /\ Lost("api") = {}
  BY QuietStands DEF QueryOnRequest, bounds, Lost, Creating
<1>0. PICK u : u = job["api"].u
  OBVIOUS
<1>2. PICK ans \in Answers(u) :
        /\ Finish("api")
        /\ \/ Memory(mem)
           \/ Over(ans) /\ Memory(RemoveOrder(mem, u))
           \/ Memory(UpdateFill(mem, u, ans.exec))
  BY <1>0 DEF QueryOnRequest, Over
<1>3. CASE Memory(mem)
  BY <1>1, <1>2, <1>3, MemLike, ApiLetsGo
<1>4. CASE Over(ans) /\ Memory(RemoveOrder(mem, u))
  BY <1>1, <1>2, <1>4, OverIsOver, ApiRemoves
<1>5. CASE Memory(UpdateFill(mem, u, ans.exec))
  BY <1>1, <1>2, <1>5, MemFillLike, ApiLetsGo
<1> QED
  BY <1>2, <1>3, <1>4, <1>5

LEMMA ApiCreates == ASSUME Good, NoOpenOrder("api") PROVE Good'
<1>1. Continues("api", "create")
  BY NewPcIs DEF NoOpenOrder, Actors
<1>2. Lost("api") = {}
  BY DEF NoOpenOrder, Lost, Creating
<1> QED
  BY <1>1, <1>2, ApiContinues DEF NoOpenOrder, bounds, hist

LEMMA ApiRechecks == ASSUME Good, CancelFails("api") PROVE Good'
<1>1. Continues("api", "recheck")
  BY NewPcIs DEF CancelFails, Actors
<1>2. Lost("api") = {}
  BY DEF CancelFails, Lost, Creating
<1> QED
  BY <1>1, <1>2, ApiContinues DEF CancelFails, bounds, hist

LEMMA ApiCancelAccepted == ASSUME Good, CancelAccepted("api") PROVE Good'
<1>1. Quiet /\ loop' = loop /\ Lost("api") = {}
  BY QuietStands DEF CancelAccepted, bounds, Lost, Creating
<1>2. Clear(job["api"].u)
  BY DEF Good, ControlPart, JobsHold, CancelAccepted, Cancelling, Actors, Clear
<1> QED
  BY <1>1, <1>2, ApiRemoves DEF CancelAccepted

LEMMA ApiRecheck == ASSUME Good, Recheck("api") PROVE Good'
<1>1. Quiet /\ loop' = loop /\ Lost("api") = {}
  BY QuietStands DEF Recheck, bounds, Lost, Creating
<1>2. PICK ans \in Answers(job["api"].u) :
        /\ Finish("api")
        /\ \/ Over(ans) /\ Memory(RemoveOrder(mem, job["api"].u))
           \/ Memory(mem)
  BY DEF Recheck, Over
<1>3. CASE Memory(mem)
  BY <1>1, <1>2, <1>3, MemLike, ApiLetsGo
<1>4. CASE Over(ans) /\ Memory(RemoveOrder(mem, job["api"].u))
  BY <1>1, <1>2, <1>4, OverIsOver, ApiRemoves
<1> QED
  BY <1>2, <1>3, <1>4

LEMMA ApiSubmitFails ==
    ASSUME Good, SubmitFails("api"), ~raced'
    PROVE  Good'
<1>1. Quiet /\ loop' = loop /\ Lost("api") \subseteq orphaned' /\ Finish("api")
  BY QuietStands DEF SubmitFails, bounds
<1>2. CASE Memory(mem)
  BY <1>1, <1>2, MemLike, ApiLetsGo
<1>3. ASSUME NEW e, ~Overtaken(e), Memory(RemoveOrder(mem, e.uuid)) PROVE Good'
  BY <1>1, <1>3, NotOvertaken, ApiRemoves
<1> QED
  BY <1>2, <1>3 DEF SubmitFails

(***************************************************************************)
(* A submitted order takes the place of the one that waited.               *)
(***************************************************************************)
LEMMA ReplaceUuidIs ==
    ASSUME Good, NEW old \in DOMAIN Index, NEW new, Memory(ReplaceUuid(mem, old, new))
    PROVE  /\ new = old => Rewrites({}, {})
           /\ /\ new \in Uuids \ DOMAIN Index /\ ex[new].state # "none"
              /\ Obj[Index[old]].status = "waiting"
              => Replaces(old, new)
<1> DEFINE d == Index[old]
           e == [Obj[d] EXCEPT !.uuid = new, !.of = old, !.status = "placed"]
           index == Put(Restrict(Index, DOMAIN Index \ {old}), new, d)
           obj == [Obj EXCEPT ![d] = e]
<1> DEFINE m == ReplaceUuid(mem, old, new)
<1>0. m.index = index /\ m.obj = obj
  BY SMTT(30) DEF ReplaceUuid, Has, Index, Obj
<1> HIDE DEF m
<1>1. Index' = index /\ DOMAIN Obj' = DOMAIN obj \cap (Held' \cup Range(index))
      /\ \A f \in DOMAIN Obj' : Obj'[f] = obj[f]
  <2>1. Memory(m)
    BY DEF m
  <2>2. /\ Index' = m.index /\ DOMAIN Obj' = DOMAIN m.obj \cap (Held' \cup Range(m.index))
        /\ \A f \in DOMAIN Obj' : Obj'[f] = m.obj[f]
    BY <2>1, MemoryIs
  <2> HIDE DEF index, obj
  <2> QED
    BY <1>0, <2>2
<1>2. d \in DOMAIN Obj /\ Obj[d].uuid = old /\ \A f \in DOMAIN Obj : DOMAIN Obj[f] = EntryFields
  BY DEF Good, MemoryPart, Lists
<1>3. DOMAIN e = EntryFields /\ e.uuid = new /\ e.status = "placed"
  BY <1>2 DEF EntryFields
<1>4. /\ DOMAIN index = (DOMAIN Index \ {old}) \cup {new} /\ index[new] = d
      /\ \A u \in (DOMAIN Index \ {old}) \ {new} : index[u] = Index[u]
  BY DEF Put, Restrict
<1> HIDE DEF e, index
<1>5. DOMAIN obj = DOMAIN Obj /\ obj[d] = e /\ \A f \in DOMAIN Obj \ {d} : obj[f] = Obj[f]
  BY <1>2
<1> HIDE DEF obj
<1>6. d \in DOMAIN Obj'
  BY <1>1, <1>2, <1>4, <1>5 DEF Range
<1>7. ASSUME new = old PROVE Rewrites({}, {})
  <2>1. DOMAIN Index' = DOMAIN Index /\ \A u \in DOMAIN Index' : Index'[u] = Index[u]
    BY <1>1, <1>4, <1>7
  <2>2. \A f \in DOMAIN Obj' : /\ DOMAIN Obj'[f] = EntryFields /\ Obj'[f].uuid = Obj[f].uuid
                               /\ Obj'[f].status = "waiting" => Obj[f].status = "waiting"
    BY <1>1, <1>2, <1>3, <1>5, <1>7
  <2> QED
    BY <1>1, <1>5, <2>1, <2>2 DEF Rewrites
<1>8. ASSUME new \in Uuids \ DOMAIN Index, ex[new].state # "none", Obj[d].status = "waiting"
      PROVE  Replaces(old, new)
  BY <1>1, <1>3, <1>4, <1>5, <1>6, <1>8 DEF Replaces
<1> QED
  BY <1>7, <1>8

LEMMA ReplacedKeeps ==
    ASSUME Good, NEW a \in Actors, Quiet, loop' = loop, job[a].pc \in {"look", "create"}, Finish(a),
           NEW new \in Uuids, ex[new].state # "none", Lost(a) \subseteq {new},
           Replaced(Obj[job[a].ref], new), ~raced', Memory(ReplaceUuid(mem, Obj[job[a].ref].uuid, new))
    PROVE  Good'
<1> DEFINE e == Obj[job[a].ref]
<1>1. job[a].ref # NoDict /\ job[a].ref \in DOMAIN Obj
  BY DEF Good, Shapes, MemoryPart, Dictionaries, Held
<1>2. Goes(a, "free", NoDict)
  BY FinishIs DEF Good
<1>3. new = e.uuid \/ (~Overtaken(e) /\ ~Has(mem, new))
  BY DEF Replaced
<1>4. PICK old : old = e.uuid
  OBVIOUS
<1>5. CASE new # old
  <2>1. ~Overtaken(e) /\ new \notin DOMAIN Index
    BY <1>3, <1>4, <1>5 DEF Has, Index
  <2>2. old \in DOMAIN Index /\ Obj[Index[old]].status = "waiting"
    BY <1>4, <2>1, NotOvertaken
  <2>3. Replaces(old, new)
    BY <1>4, <2>1, <2>2, ReplaceUuidIs
  <2>4. ReplaceTurn(a, old, new)
    BY <1>1, <1>2, <1>4, <2>3 DEF ReplaceTurn, Goes
  <2>5. Shapes'
    BY <1>2, LoopShapes, ApiShapes DEF Actors, Good, LoopPcs, ApiPcs
  <2>6. CASE a = "loop"
    BY <2>4, <2>5, <2>6, LoopReplaces DEF Good
  <2>7. CASE a = "api"
    BY <2>4, <2>5, <2>7, ApiReplaces DEF Good
  <2> QED
    BY <2>6, <2>7 DEF Actors
<1>6. CASE new = old
  <2>1. Rewrites({}, {}) /\ Settled(new)
    <3>1. CASE Has(mem, old)
      <4>1. Rewrites({}, {}) /\ new \in DOMAIN Index
        BY <1>4, <1>6, <3>1, ReplaceUuidIs DEF Has, Index
      <4> QED
        BY <4>1 DEF Rewrites, Settled
    <3>2. CASE ~Has(mem, old)
      <4>1. Memory(mem)
        BY <1>4, <3>2 DEF ReplaceUuid
      <4>2. Clear(new)
        BY <1>1, <1>4, <1>6, <3>2 DEF Good, MemoryPart, KnownAreTracked
      <4>3. Clear(new)'
        BY <4>2, ClearKept
      <4> QED
        BY <4>1, <4>3, MemLike, RewritesOf DEF Settled
    <3> QED
      BY <3>1, <3>2
  <2>2. \A u \in Lost(a) : Settled(u)
    BY <2>1
  <2>3. CASE a = "api"
    BY <2>1, <2>2, <2>3, ApiFinishes
  <2>4. CASE a = "loop"
    <3>1. Ref \in InHand /\ Ref \notin Visited
      BY <1>1, <2>4 DEF InHand, Ref, Good, ControlPart, Apart
    <3>2. On(Ref)
      BY <2>2, <2>4, <3>1 DEF On, Visited
    <3> QED
      BY <1>2, <2>1, <2>4, <3>2, LoopFinishes
  <2> QED
    BY <2>3, <2>4 DEF Actors
<1> QED
  BY <1>5, <1>6

LEMMA AdoptOpenOrderKeeps ==
    ASSUME Good, NEW a \in Actors, AdoptOpenOrder(a), ~raced'
    PROVE  Good'
<1>1. PICK u \in Uuids : /\ Live(u) /\ Replaced(Ord(a), u) /\ Finish(a)
                         /\ Memory(ReplaceUuid(mem, Ord(a).uuid, u))
  BY DEF AdoptOpenOrder
<1>2. Quiet /\ loop' = loop /\ job[a].pc = "look" /\ Lost(a) = {}
  BY <1>1, QuietStands DEF AdoptOpenOrder, Replaced, bounds, Lost, Creating
<1>3. ex[u].state # "none"
  BY <1>1 DEF Live
<1> QED
  BY <1>1, <1>2, <1>3, ReplacedKeeps DEF Ord, Obj

LEMMA OrderSubmittedKeeps ==
    ASSUME Good, NEW a \in Actors, OrderSubmitted(a), ~raced'
    PROVE  Good'
<1>1. PICK u : u = job[a].hit
  OBVIOUS
<1>2. u \in Uuids /\ ex[u].state # "none" /\ Lost(a) \subseteq {u}
  BY <1>1 DEF OrderSubmitted, Reached, Good, Shapes, MemoryPart, PlacedOnes, AnyUuid, Lost
<1>3. Quiet /\ loop' = loop /\ job[a].pc = "create" /\ Finish(a) /\ Replaced(Ord(a), u)
      /\ Memory(ReplaceUuid(mem, Ord(a).uuid, u))
  BY <1>1, QuietStands DEF OrderSubmitted, Replaced, bounds
<1> QED
  BY <1>2, <1>3, ReplacedKeeps DEF Ord, Obj

(***************************************************************************)
(* The loop adds the order it has placed.                                  *)
(***************************************************************************)
Added(m, G, u) ==
    /\ DOMAIN m.index = (DOMAIN Index \ G) \cup {u}
    /\ \A v \in DOMAIN Index \ G : m.index[v] = Index[v]
    /\ m.index[u] \in Dicts \ DOMAIN Obj
    /\ DOMAIN m.obj = DOMAIN Obj \cup {m.index[u]}
    /\ DOMAIN m.obj[m.index[u]] = EntryFields
    /\ m.obj[m.index[u]].uuid = u /\ m.obj[m.index[u]].status = "placed"
    /\ \A d \in DOMAIN Obj :
         /\ DOMAIN m.obj[d] = EntryFields /\ m.obj[d].uuid = Obj[d].uuid
         /\ m.obj[d].status = "waiting" => Obj[d].status = "waiting"

LEMMA AddOrderAdds ==
    ASSUME Good, NEW u \in Uuids \ DOMAIN Index, NEW m, NEW G, m.obj = Obj,
           DOMAIN m.index = DOMAIN Index \ G, \A v \in DOMAIN Index \ G : m.index[v] = Index[v],
           NEW e, DOMAIN e = EntryFields, e.uuid = u, e.status = "placed"
    PROVE  Added(AddOrder(m, e), G, u)
<1> DEFINE d == FreeDict(m, 1)
<1>1. d \in Dicts \ DOMAIN Obj
  <2>1. u \in AnyUuid /\ Lists /\ Dictionaries
    BY DEF AnyUuid, Good, MemoryPart
  <2>2. Cardinality(Dicts \ DOMAIN Obj) \in Nat /\ 1 <= Cardinality(Dicts \ DOMAIN Obj)
    BY <2>1, DictsSuffice
  <2>3. 1 \in 1..Cardinality(Dicts \ DOMAIN m.obj) /\ DOMAIN m.obj \subseteq Dicts
    BY <2>1, <2>2 DEF Lists
  <2> QED
    BY <2>3, FreeDictIsFree
<1> HIDE DEF d
<1>2. /\ AddOrder(m, e).index = Put(m.index, u, d)
      /\ AddOrder(m, e).obj = Put(Obj, d, e)
  BY DEF AddOrder, d
<1>3. /\ DOMAIN Put(m.index, u, d) = (DOMAIN Index \ G) \cup {u} /\ Put(m.index, u, d)[u] = d
      /\ \A v \in DOMAIN Index \ G : Put(m.index, u, d)[v] = Index[v]
  BY DEF Put
<1>4. /\ DOMAIN Put(Obj, d, e) = DOMAIN Obj \cup {d} /\ Put(Obj, d, e)[d] = e
      /\ \A f \in DOMAIN Obj : Put(Obj, d, e)[f] = Obj[f]
  BY <1>1 DEF Put
<1> QED
  BY <1>1, <1>2, <1>3, <1>4 DEF Added, Good, MemoryPart, Lists

LEMMA UpdateFillAdded ==
    ASSUME Good, NEW m, NEW G, NEW u, Added(m, G, u), NEW b, NEW v
    PROVE  Added(UpdateFill(m, b, v), G, u)
<1>1. CASE b \notin DOMAIN m.index
  BY <1>1 DEF UpdateFill, Has
<1>2. CASE b \in DOMAIN m.index
  <2> DEFINE e == [At(m, b) EXCEPT !.filled = v, !.status = "placed"]
             d == m.index[b]
  <2>1. d \in DOMAIN m.obj /\ At(m, b) = m.obj[d] /\ DOMAIN m.obj[d] = EntryFields
    BY <1>2 DEF Added, At, Good, MemoryPart, Lists
  <2>2. DOMAIN e = EntryFields /\ e.uuid = m.obj[d].uuid /\ e.status = "placed"
    BY <2>1 DEF EntryFields
  <2> HIDE DEF e
  <2>3. /\ UpdateFill(m, b, v).index = m.index
        /\ DOMAIN UpdateFill(m, b, v).obj = DOMAIN m.obj /\ UpdateFill(m, b, v).obj[d] = e
        /\ \A f \in DOMAIN m.obj \ {d} : UpdateFill(m, b, v).obj[f] = m.obj[f]
    BY <1>2, <2>1 DEF UpdateFill, Has, Rewritten, e
  <2>4. \A f \in DOMAIN m.obj :
          /\ DOMAIN UpdateFill(m, b, v).obj[f] = DOMAIN m.obj[f]
          /\ UpdateFill(m, b, v).obj[f].uuid = m.obj[f].uuid
          /\ UpdateFill(m, b, v).obj[f].status \in {"placed", m.obj[f].status}
    BY <2>1, <2>2, <2>3
  <2> QED
    BY <2>3, <2>4 DEF Added
<1> QED
  BY <1>1, <1>2

LEMMA AddsOf ==
    ASSUME Good, NEW u \in Uuids \ DOMAIN Index, ex[u].state # "none", NEW m, NEW G, Added(m, G, u), Memory(m)
    PROVE  Adds(G, u)
<1>1. /\ Index' = m.index
      /\ DOMAIN Obj' = DOMAIN m.obj \cap (Held' \cup Range(m.index))
      /\ \A d \in DOMAIN Obj' : Obj'[d] = m.obj[d]
  BY MemoryIs
<1>2. Index'[u] \in DOMAIN Obj'
  BY <1>1 DEF Added, Range
<1>3. DOMAIN Obj' = (DOMAIN Obj \cup {Index'[u]}) \cap (Held' \cup Range(Index'))
  BY <1>1 DEF Added
<1> QED
  BY <1>1, <1>2, <1>3 DEF Adds, Added

LEMMA SellPlacedKeeps == ASSUME Good, SellPlaced, ~raced' PROVE Good'
<1> DEFINE u == job["loop"].hit
           e == LinkedSell(u, job["loop"].n, Ord("loop").uuid)
           m == UpdateFill(AddOrder(mem, e), Ord("loop").uuid, job["loop"].ans.exec)
<1>1. u \in Uuids \ DOMAIN Index /\ ex[u].state # "none" /\ Lost("loop") \subseteq {u}
  BY DEF SellPlaced, Reached, Has, Index, Good, Shapes, Actors, AnyUuid, MemoryPart, PlacedOnes, Lost
<1>2. Quiet /\ loop' = loop /\ Pc = "sell" /\ SellDone(m)
  BY QuietStands DEF SellPlaced, bounds, Pc
<1>3. Ref # NoDict /\ Ref \in InHand /\ Ref \in ActedOn
  BY <1>2 DEF Good, Shapes, Actors, Pc, Ref, InHand, ActedOn, Acting
<1>4. DOMAIN e = EntryFields /\ e.uuid = u /\ e.status = "placed"
  BY DEF LinkedSell, EntryFields
<1> HIDE DEF e
<1>5. Added(AddOrder(mem, e), {}, u)
  BY <1>1, <1>4, AddOrderAdds DEF Index, Obj
<1>6. Added(m, {}, u)
  BY <1>5, UpdateFillAdded
<1> HIDE DEF m, u
<1>7. Memory(m)
  BY <1>2 DEF SellDone
<1>8. Adds({}, u)
  BY <1>1, <1>6, <1>7, AddsOf
<1>9. PICK pc \in {"free", "settle"}, d \in {NoDict, Ref} :
        /\ Goes("loop", pc, d) /\ (pc = "free" <=> d = NoDict)
        /\ pc = "settle" => loop.phase = "scan" /\ job'["loop"].ans = job["loop"].ans
  <2>1. CASE Finish("loop")
    BY <2>1, FinishIs DEF Good, Actors
  <2>2. CASE loop.phase # "recover" /\ Await("loop", "settle", Ref, job["loop"].ans, 0)
    BY <1>3, <2>2, AwaitIs DEF Good, Actors, Shapes
  <2> QED
    BY <1>2, <2>1, <2>2 DEF SellDone, Ref
<1>10. Shapes'
  BY <1>2, <1>9, LoopShapes DEF Good, LoopPcs
<1>11. LoopJob(Ref)
  <2>1. Over(job["loop"].ans) /\ loop.phase = "scan" => Clear(Obj[Ref].uuid)
    BY <1>2 DEF Good, ControlPart, JobsHold
  <2> QED
    BY <1>3, <1>9, <2>1 DEF LoopJob, Goes, Reserved, Uuids, Cancelling, Acting
<1>12. job'["api"] = job["api"] /\ job'["loop"].hit = Reserved
  BY <1>9 DEF Goes, Actors
<1>13. AddTurn({}, u)
  BY <1>1, <1>2, <1>8, <1>11, <1>12 DEF AddTurn
<1> QED
  BY <1>10, <1>13, AddTurnKeeps DEF Good

LEMMA StopPlacedKeeps == ASSUME Good, StopPlaced, ~raced' PROVE Good'
<1> DEFINE u == job["loop"].hit
           x == Obj[Ref].uuid
           e == [uuid |-> u, kind |-> "stop", vol |-> job["loop"].n, filled |-> 0,
                 status |-> "placed", of |-> NoBuy]
           rest == RemoveOrder(mem, x)
<1>1. u \in Uuids \ DOMAIN Index /\ ex[u].state # "none" /\ Lost("loop") \subseteq {u}
  BY DEF StopPlaced, Reached, Has, Index, Good, Shapes, Actors, AnyUuid, MemoryPart, PlacedOnes, Lost
<1>2. Quiet /\ loop' = loop /\ Pc = "place" /\ Finish("loop") /\ Memory(AddOrder(rest, e))
  BY QuietStands DEF StopPlaced, bounds, Pc, Ord, Ref, Obj
<1>3. Ref # NoDict /\ Ref \in InHand /\ Clear(x)
  BY <1>2 DEF Good, Shapes, Actors, Pc, Ref, InHand, ControlPart, JobsHold
<1>4. DOMAIN e = EntryFields /\ e.uuid = u /\ e.status = "placed"
  BY DEF EntryFields
<1>5. rest.obj = Obj /\ DOMAIN rest.index = DOMAIN Index \ {x}
      /\ \A v \in DOMAIN Index \ {x} : rest.index[v] = Index[v]
  BY DEF RemoveOrder, Restrict, Index, Obj
<1> HIDE DEF e, rest, u
<1>6. Added(AddOrder(rest, e), {x}, u)
  BY <1>1, <1>4, <1>5, AddOrderAdds
<1>7. Adds({x}, u)
  BY <1>1, <1>2, <1>6, AddsOf
<1>8. Goes("loop", "free", NoDict)
  BY <1>2, FinishIs DEF Good, Actors
<1>9. Shapes'
  BY <1>2, <1>8, LoopShapes DEF Good, LoopPcs
<1>10. LoopJob(Ref) /\ job'["api"] = job["api"] /\ job'["loop"].hit = Reserved /\ job'["loop"].ref = NoDict
  BY <1>8 DEF LoopJob, Goes, Reserved, Uuids, Cancelling, Acting, Actors
<1>11. AddTurn({x}, u)
  BY <1>1, <1>2, <1>3, <1>7, <1>10 DEF AddTurn
<1> QED
  BY <1>9, <1>11, AddTurnKeeps DEF Good

(***************************************************************************)
(* The exchange's steps.                                                   *)
(***************************************************************************)
LEMMA ExchangeShapes ==
    ASSUME Good, loop' = loop, DOMAIN ex' = Uuids, \A u \in Uuids : "state" \in DOMAIN ex'[u],
           DOMAIN job' = Actors, SameJobs,
           \A a \in Actors : DOMAIN job'[a] = JobFields /\ job'[a].hit \in AnyUuid
    PROVE  Shapes'
  BY DEF Good, Shapes, SameJobs, Actors, Pc, Uuids, AnyUuid

\* Only states of orders change, and none comes to life.
LEMMA NothingComesToLife ==
    ASSUME Good, mem' = mem, loop' = loop, orphaned' = orphaned, reserving' = reserving, job' = job,
           DOMAIN ex' = Uuids, \A u \in Uuids : "state" \in DOMAIN ex'[u],
           \A u \in Uuids : /\ ex'[u].state = "wait" => ex[u].state = "wait"
                            /\ ex[u].state # "none" => ex'[u].state # "none"
    PROVE  Good'
<1>1. SameJobs /\ InFlight' = InFlight
  BY DEF SameJobs, InFlight, Lost
<1>2. Shapes'
  BY <1>1, ExchangeShapes DEF Good, Shapes
<1>3. \A a \in Actors : job[a].hit \in Uuids => ex'[job[a].hit].state # "none"
  BY DEF Good, MemoryPart, PlacedOnes
<1>4. \A a \in Actors : job[a].pc \in Cancelling /\ job[a].hit # Reserved =>
          job[a].hit = job[a].u /\ ~(job[a].u \in Uuids /\ ex'[job[a].u].state = "wait")
  BY DEF Good, ControlPart, JobsHold, Reached, Live
<1>5. ExchangeTurn
  BY <1>1, <1>3, <1>4 DEF ExchangeTurn
<1> QED
  BY <1>2, <1>5, ExchangeTurnKeeps DEF Good

LEMMA FillSomeKeeps ==
    ASSUME Good, NEW u \in Uuids, FillSome(u)
    PROVE  Good'
<1> DEFINE x == ex[u].exec + 1
           s == IF x = ex[u].vol THEN "done" ELSE "wait"
<1>1. s # "none" /\ ex' = [ex EXCEPT ![u].exec = x, ![u].state = s]
  BY DEF FillSome
<1> HIDE DEF x, s
<1>2. DOMAIN ex = Uuids /\ \A v \in Uuids : "state" \in DOMAIN ex[v]
  BY DEF Good, Shapes
<1>3. /\ DOMAIN ex' = Uuids /\ "state" \in DOMAIN ex'[u] /\ ex'[u].state = s
      /\ \A v \in Uuids \ {u} : ex'[v] = ex[v]
  BY <1>1, <1>2
<1>4. Live(u)
  BY DEF FillSome
<1> QED
  BY <1>1, <1>2, <1>3, <1>4, NothingComesToLife DEF FillSome, bounds, hist, Live

LEMMA CancelledThereKeeps ==
    ASSUME Good, NEW u \in Uuids, CancelledThere(u)
    PROVE  Good'
<1>1. DOMAIN ex = Uuids /\ \A v \in Uuids : "state" \in DOMAIN ex[v]
  BY DEF Good, Shapes
<1>2. /\ DOMAIN ex' = Uuids /\ "state" \in DOMAIN ex'[u] /\ ex'[u].state = "cancel"
      /\ \A v \in Uuids \ {u} : ex'[v] = ex[v]
  BY <1>1 DEF CancelledThere
<1> QED
  BY <1>1, <1>2, NothingComesToLife DEF CancelledThere, bounds, hist

LEMMA CreateArrivesKeeps ==
    ASSUME Good, NEW a \in Actors, CreateArrives(a)
    PROVE  Good'
<1>1. PICK u \in Uuids : u = NextUuid /\ ex[u].state = "none"
  BY DEF CreateArrives, Room, NextUuid
<1>2. PICK side, n : ex' = [ex EXCEPT ![u] = NewOrder(side, n)]
  BY <1>1 DEF CreateArrives
<1>3. /\ DOMAIN ex' = Uuids /\ ex'[u].state = "wait" /\ "state" \in DOMAIN ex'[u]
      /\ \A v \in Uuids \ {u} : ex'[v] = ex[v]
  BY <1>2 DEF Good, Shapes, NewOrder
<1>4. job' = [job EXCEPT ![a].hit = u] /\ job[a].pc \in Creating /\ job[a].hit = Reserved
  BY <1>1 DEF CreateArrives, Reached
<1>5. DOMAIN job = Actors /\ \A b \in Actors : DOMAIN job[b] = JobFields /\ job[b].hit \in AnyUuid
  BY DEF Good, Shapes
<1>6. /\ DOMAIN job' = Actors /\ job'[a] = [job[a] EXCEPT !.hit = u]
      /\ \A b \in Actors \ {a} : job'[b] = job[b]
  BY <1>4, <1>5
<1>7. /\ DOMAIN job'[a] = JobFields /\ job'[a].hit = u /\ job'[a].pc = job[a].pc
      /\ job'[a].ref = job[a].ref /\ job'[a].ans = job[a].ans /\ job'[a].u = job[a].u /\ job'[a].own = job[a].own
  BY <1>5, <1>6 DEF JobFields
<1>8. SameJobs
  BY <1>6, <1>7 DEF SameJobs
<1>9. mem' = mem /\ loop' = loop /\ orphaned' = orphaned /\ reserving' = reserving
  BY DEF CreateArrives, bounds
<1>10. Shapes'
  <2>1. \A v \in Uuids : "state" \in DOMAIN ex'[v]
    BY <1>1, <1>3 DEF Good, Shapes
  <2>2. ASSUME NEW b \in Actors PROVE DOMAIN job'[b] = JobFields /\ job'[b].hit \in AnyUuid
    <3>1. CASE b = a
      BY <1>1, <1>7, <3>1 DEF AnyUuid
    <3>2. CASE b # a
      BY <1>5, <1>6, <3>2
    <3> QED
      BY <3>1, <3>2
  <2> QED
    BY <1>3, <1>6, <1>8, <1>9, <2>1, <2>2, ExchangeShapes
<1>11. u \in InFlight' /\ InFlight \subseteq InFlight'
  <2>1. Lost(a)' = {u} /\ Lost(a) = {}
    BY <1>1, <1>4, <1>7 DEF Lost, Uuids, Reserved
  <2>2. \A b \in Actors \ {a} : Lost(b)' = Lost(b)
    BY <1>6 DEF Lost
  <2> QED
    BY <2>1, <2>2 DEF InFlight
<1>12. ASSUME NEW b \in Actors, job'[b].hit \in Uuids
       PROVE  ex'[job'[b].hit].state # "none"
  <2>1. b # a => job'[b] = job[b] /\ ex[job[b].hit].state # "none"
    BY <1>6, <1>12 DEF Good, MemoryPart, PlacedOnes
  <2> QED
    BY <1>1, <1>3, <1>7, <1>12, <2>1
<1>13. \A b \in Actors : job[b].pc \in Cancelling /\ job'[b].hit # Reserved =>
          job'[b].hit = job[b].u /\ ~(job[b].u \in Uuids /\ ex'[job[b].u].state = "wait")
  <2> SUFFICES ASSUME NEW b \in Actors, job[b].pc \in Cancelling, job'[b].hit # Reserved
               PROVE  job'[b].hit = job[b].u /\ ~(job[b].u \in Uuids /\ ex'[job[b].u].state = "wait")
    OBVIOUS
  <2>1. b # a /\ job'[b] = job[b]
    BY <1>4, <1>6 DEF Creating, Cancelling
  <2>2. job[b].hit = job[b].u /\ ~Live(job[b].u) /\ job[b].hit \in Uuids
    BY <1>5, <2>1 DEF Good, ControlPart, JobsHold, Reached, AnyUuid
  <2>3. job[b].u # u
    BY <1>1, <2>2 DEF Good, MemoryPart, PlacedOnes
  <2> QED
    BY <1>3, <2>1, <2>2, <2>3 DEF Live
<1>14. ExchangeTurn
  BY <1>1, <1>3, <1>8, <1>9, <1>11, <1>12, <1>13 DEF ExchangeTurn
<1> QED
  BY <1>10, <1>14, ExchangeTurnKeeps DEF Good

LEMMA CancelArrivesKeeps ==
    ASSUME Good, NEW a \in Actors, CancelArrives(a)
    PROVE  Good'
<1>1. PICK u \in Uuids : u = job[a].u /\ ex[u].state = "wait"
  BY DEF CancelArrives, Live
<1>2. /\ DOMAIN ex' = Uuids /\ ex'[u].state = "cancel" /\ "state" \in DOMAIN ex'[u]
      /\ \A v \in Uuids \ {u} : ex'[v] = ex[v]
  BY <1>1 DEF CancelArrives, Good, Shapes
<1>4. job' = [job EXCEPT ![a].hit = u] /\ job[a].pc \in Cancelling /\ job[a].hit = Reserved
  BY <1>1 DEF CancelArrives, Reached
<1>5. DOMAIN job = Actors /\ \A b \in Actors : DOMAIN job[b] = JobFields /\ job[b].hit \in AnyUuid
  BY DEF Good, Shapes
<1>6. /\ DOMAIN job' = Actors /\ job'[a] = [job[a] EXCEPT !.hit = u]
      /\ \A b \in Actors \ {a} : job'[b] = job[b]
  BY <1>4, <1>5
<1>7. /\ DOMAIN job'[a] = JobFields /\ job'[a].hit = u /\ job'[a].pc = job[a].pc
      /\ job'[a].ref = job[a].ref /\ job'[a].ans = job[a].ans /\ job'[a].u = job[a].u /\ job'[a].own = job[a].own
  BY <1>5, <1>6 DEF JobFields
<1>8. SameJobs
  BY <1>6, <1>7 DEF SameJobs
<1>9. mem' = mem /\ loop' = loop /\ orphaned' = orphaned /\ reserving' = reserving
  BY DEF CancelArrives, bounds, hist
<1>10. Shapes'
  <2>1. \A v \in Uuids : "state" \in DOMAIN ex'[v]
    BY <1>1, <1>2 DEF Good, Shapes
  <2>2. ASSUME NEW b \in Actors PROVE DOMAIN job'[b] = JobFields /\ job'[b].hit \in AnyUuid
    <3>1. CASE b = a
      BY <1>1, <1>7, <3>1 DEF AnyUuid
    <3>2. CASE b # a
      BY <1>5, <1>6, <3>2
    <3> QED
      BY <3>1, <3>2
  <2> QED
    BY <1>2, <1>6, <1>8, <1>9, <2>1, <2>2, ExchangeShapes
<1>11. InFlight \subseteq InFlight'
  <2>1. Lost(a) = {}
    BY <1>4 DEF Lost
  <2>2. \A b \in Actors \ {a} : Lost(b)' = Lost(b)
    BY <1>6 DEF Lost
  <2> QED
    BY <2>1, <2>2 DEF InFlight
<1>12. ASSUME NEW b \in Actors, job'[b].hit \in Uuids
       PROVE  ex'[job'[b].hit].state # "none"
  <2>1. b # a => job'[b] = job[b] /\ ex[job[b].hit].state # "none"
    BY <1>6, <1>12 DEF Good, MemoryPart, PlacedOnes
  <2> QED
    BY <1>2, <1>7, <1>12, <2>1
<1>13. \A b \in Actors : job[b].pc \in Cancelling /\ job'[b].hit # Reserved =>
          job'[b].hit = job[b].u /\ ~(job[b].u \in Uuids /\ ex'[job[b].u].state = "wait")
  <2> SUFFICES ASSUME NEW b \in Actors, job[b].pc \in Cancelling, job'[b].hit # Reserved
               PROVE  job'[b].hit = job[b].u /\ ~(job[b].u \in Uuids /\ ex'[job[b].u].state = "wait")
    OBVIOUS
  <2>1. CASE b = a
    BY <1>1, <1>2, <1>7, <2>1
  <2>2. CASE b # a
    <3>1. job'[b] = job[b] /\ job[b].hit = job[b].u /\ ~Live(job[b].u)
      BY <1>6, <2>2 DEF Good, ControlPart, JobsHold, Reached
    <3> QED
      BY <1>2, <3>1 DEF Live
  <2> QED
    BY <2>1, <2>2
<1>14. \A v \in Uuids : /\ ex'[v].state = "wait" => ex[v].state = "wait"
                        /\ ex[v].state # "none" => ex'[v].state # "none"
  BY <1>2
<1>15. ExchangeTurn
  BY <1>8, <1>9, <1>11, <1>12, <1>13, <1>14 DEF ExchangeTurn
<1> QED
  BY <1>10, <1>15, ExchangeTurnKeeps DEF Good

(***************************************************************************)
(* The steps that read the table again, and a restart.                     *)
(***************************************************************************)
LEMMA SyncRequestKeeps ==
    ASSUME Good, NEW u, SyncRequest(u)
    PROVE  Good'
<1>1. /\ Quiet /\ loop' = loop /\ job["api"].pc = "free" /\ u \in DOMAIN Index
      /\ ex' = ex /\ orphaned' = orphaned
  BY QuietStands DEF SyncRequest, Accept, hist, Free, Has, Index
<1> DEFINE d == Reload(mem, Held, {}).index[u]
<1>2. Memory(Reload(mem, Held, {}))
  BY DEF SyncRequest
<1>3. Reloads /\ Index' = NewIndex /\ d = NewIndex[u]
  BY <1>2, ReloadsOf, ReloadReads DEF Good, MemoryPart
<1>4. \/ job' = job
      \/ Await("api", "submit", d, NoAnswer, 0)
      \/ AwaitWith("api", "query", d, 0, u, u)
  BY DEF SyncRequest
<1> HIDE DEF d
<1>5. d \in Range(Index') /\ d \notin Held /\ d # NoDict
  BY <1>1, <1>3, SyncAssumption DEF Range, Reloads, Dicts, NoDict
<1>6. job' = job \/ Goes("api", "submit", d) \/ Goes("api", "query", d)
  BY <1>4, AwaitIs, AwaitWithIs DEF Good, Actors
<1>7. /\ job'["loop"] = job["loop"] /\ job'["api"].ref \in {NoDict, d}
      /\ job'["api"].pc \in {"free", "submit", "query"}
      /\ job'["api"].hit \in Uuids => ex[job'["api"].hit].state # "none"
  BY <1>1, <1>6 DEF Goes, Actors, Good, Shapes, MemoryPart, PlacedOnes, Reserved, Uuids
<1>8. Shapes'
  <2>1. CASE job' = job
    BY <1>1, <2>1 DEF Good, Shapes, Quiet, Pc
  <2>2. CASE Goes("api", "submit", d) \/ Goes("api", "query", d)
    BY <1>1, <1>5, <2>2, ApiShapes DEF Good, ApiPcs
  <2> QED
    BY <1>6, <2>1, <2>2
<1>9. LoopStands
  BY <1>1, <1>7 DEF LoopStands
<1>10. Visited' = Visited /\ Ref' = Ref /\ InHand' = InHand /\ ActedOn' = ActedOn
  BY <1>9, LoopStandsHands
<1>11. HeldKept
  BY <1>5, <1>7, <1>10 DEF HeldKept, Held, Actors, Visited, Ref
<1>12. InFlight \subseteq InFlight'
  <2>1. Lost("api") = {} /\ Lost("loop")' = Lost("loop")
    BY <1>1, <1>7 DEF Lost, Creating
  <2> QED
    BY <2>1, InFlightIs
<1>13. /\ MemoryPart'
       /\ \A e \in DOMAIN Obj' : e \in Range(Index') \/ (e \in DOMAIN Obj /\ Obj'[e] = Obj[e])
       /\ \A e \in Held : e \notin Range(Index')
  <2>1. \A a \in Actors : job'[a].hit \in Uuids => ex[job'[a].hit].state # "none"
    BY <1>7 DEF Actors, Good, MemoryPart, PlacedOnes
  <2>2. Cardinality(Visited') <= MaxOrders + 1 /\ NoDict \notin Visited'
    BY <1>10 DEF Good, MemoryPart, Dictionaries
  <2> QED
    BY <1>1, <1>3, <1>11, <1>12, <2>1, <2>2, ReloadKeepsMemory DEF Good
<1>14. InHand \subseteq DOMAIN Obj' /\ InHand \subseteq Held
  BY <1>10, <1>13, InHandStaysKnown DEF MemoryPart, InHand, Held, Visited, Ref, Actors
<1>15. \A e \in InHand : e \notin Range(Index') /\ Obj'[e].uuid = Obj[e].uuid
  BY <1>13, <1>14
<1>16. Apart' /\ AnswersHold' /\ JobsHold'
  <2>1. \A a \in Actors : job'[a].pc \in Cancelling /\ job'[a].hit # Reserved =>
                            job'[a].hit = job'[a].u /\ ~Live(job'[a].u)
    BY <1>7 DEF Actors, Cancelling, Good, ControlPart, JobsHold, Reached
  <2> QED
    BY <1>1, <1>9, <1>15, <2>1, LoopStandsControl DEF Good, MemoryPart
<1>17. ApiMeets'
  <2>1. \A v \in DOMAIN Index' : Index'[v] \in Range(Index')
    BY DEF Range
  <2> QED
    BY <1>10, <1>15, <2>1 DEF ApiMeets, Has, Index
<1>18. NotWaiting'
  <2>1. ActedOn' \subseteq InHand
    BY <1>10 DEF ActedOn, InHand, Visited, Queried, Good, Shapes, Acting, Ref, Pc, Actors
  <2> QED
    BY <1>15, <2>1 DEF NotWaiting
<1> QED
  BY <1>8, <1>13, <1>16, <1>17, <1>18 DEF Good, ControlPart

LEMMA StartCycleKeeps == ASSUME Good, StartCycle PROVE Good'
<1>1. PICK asked : /\ Memory(Reload(mem, Held, asked)) /\ job' = job
                   /\ loop' = [loop EXCEPT !.phase = "scan", !.todo = Range(Reload(mem, Held, asked).index)]
  BY DEF StartCycle
<1>2. Reloads /\ Index' = NewIndex /\ Reload(mem, Held, asked).index = NewIndex
  BY <1>1, ReloadsOf, ReloadReads DEF Good, MemoryPart
<1>3. /\ Free("loop") /\ loop.todo = {} /\ loop.asked = {} /\ DOMAIN loop.answers = {}
      /\ ex' = ex /\ reserving' = reserving /\ orphaned' = orphaned
  BY DEF StartCycle, Idle, hist
<1>4. /\ DOMAIN loop' = LoopFields /\ loop'.phase = "scan" /\ loop'.todo = Range(Index')
      /\ loop'.asked = {} /\ DOMAIN loop'.answers = {}
  BY <1>1, <1>2, <1>3 DEF Good, Shapes, LoopFields
<1>5. Quiet
  BY <1>3, <1>4 DEF Quiet
<1>6. Ref = NoDict /\ Ref' = NoDict /\ Pc' = "free" /\ Visited' = Range(Index') /\ Queried' = {}
  BY <1>1, <1>3, <1>4 DEF Free, Good, Shapes, Actors, Ref, Pc, Visited, Queried
<1>7. Shapes'
  BY <1>1, <1>4, <1>5 DEF Good, Shapes, Quiet, Pc
<1>8. HeldKept
  BY <1>1, <1>4, <1>6 DEF HeldKept, Held, Actors, Ref
<1>9. Cardinality(Visited') <= MaxOrders + 1 /\ NoDict \notin Visited'
  <2>1. NewIndex \in Surjection(DOMAIN Index, Range(NewIndex))
    BY DEF Surjection, Range, NewIndex
  <2>2. /\ IsFiniteSet(DOMAIN Index) /\ Cardinality(DOMAIN Index) \in Nat
        /\ Cardinality(DOMAIN Index) <= MaxOrders + 1
    BY UuidsAreFinite DEF Good, MemoryPart, Lists
  <2>3. IsFiniteSet(Range(NewIndex)) /\ Cardinality(Range(NewIndex)) <= Cardinality(DOMAIN Index)
    BY <2>1, <2>2, FS_Surjection
  <2>4. Cardinality(Range(NewIndex)) \in Nat
    BY <2>3, FS_CardinalityType
  <2>5. Cardinality(Range(NewIndex)) <= MaxOrders + 1
    BY <2>2, <2>3, <2>4, SyncAssumption
  <2>6. NoDict \notin Range(Index')
    BY <1>2, SyncAssumption DEF Range, Reloads, Dicts, NoDict
  <2> QED
    BY <1>2, <1>6, <2>5, <2>6
<1>10. MemoryPart'
  <2>1. \A a \in Actors : job'[a].hit \in Uuids => ex[job'[a].hit].state # "none"
    BY <1>1 DEF Good, MemoryPart, PlacedOnes
  <2>2. InFlight' = InFlight
    BY <1>1 DEF InFlight, Lost
  <2> QED
    BY <1>2, <1>5, <1>8, <1>9, <2>1, <2>2, ReloadKeepsMemory DEF Good
<1>11. InHand' = Range(Index')
  BY <1>6 DEF InHand
<1>12. \A d \in Range(Index') : Obj'[d].uuid \in DOMAIN Index' /\ Index'[Obj'[d].uuid] = d
  BY <1>10 DEF MemoryPart, Lists, Range
<1>13. Apart'
  BY <1>4, <1>6, <1>9, <1>11, <1>12 DEF Apart
<1>14. ApiMeets'
  BY <1>11, <1>12 DEF ApiMeets, Has, Index
<1>15. NotWaiting' /\ AnswersHold'
  BY <1>4, <1>6 DEF NotWaiting, AnswersHold, ActedOn, Acting
<1>16. JobsHold'
  <2>1. \A a \in Actors :
          job[a].pc \in Cancelling /\ job[a].hit # Reserved => job[a].hit = job[a].u /\ ~Live(job[a].u)
    BY DEF Good, ControlPart, JobsHold, Reached
  <2>2. \A a \in Actors :
          job'[a].pc \in Cancelling /\ Reached(a)' => job'[a].hit = job'[a].u /\ ~Live(job[a].u)'
    BY <1>1, <1>3, <2>1 DEF Reached, Live
  <2> QED
    BY <1>6, <2>2 DEF JobsHold, Acting
<1> QED
  BY <1>7, <1>10, <1>13, <1>14, <1>15, <1>16 DEF Good, ControlPart

LEMMA CrashKeeps == ASSUME Good, Crash PROVE Good'
<1>1. /\ loop' = [phase |-> "recover", asked |-> {}, answers |-> <<>>,
                  todo |-> {Index[u] : u \in {v \in DOMAIN Index : At(mem, v).kind = "buy"}}]
      /\ job' = [a \in Actors |-> NoJob]
      /\ orphaned' = orphaned \cup InFlight /\ Memory(mem) /\ ex' = ex /\ reserving' = reserving
  BY DEF Crash, Index
<1>2. /\ DOMAIN loop' = LoopFields /\ loop'.phase = "recover" /\ loop'.todo \subseteq Range(Index)
      /\ loop'.asked = {} /\ DOMAIN loop'.answers = {}
  BY <1>1 DEF LoopFields, Range
<1>3. Quiet
  BY <1>1, <1>2 DEF Quiet
<1>4. /\ DOMAIN job' = Actors
      /\ \A a \in Actors : /\ DOMAIN job'[a] = JobFields /\ job'[a].pc = "free" /\ job'[a].ref = NoDict
                           /\ job'[a].hit = Reserved
  BY <1>1, NoJobIs
<1>5. Shapes'
  BY <1>2, <1>3, <1>4, ShapesKept DEF Good, Actors, LoopPcs, ApiPcs, AnyUuid
<1>6. Ref' = NoDict /\ Pc' = "free" /\ Visited' = loop'.todo /\ Queried' = {} /\ InHand' = loop'.todo
  BY <1>2, <1>4 DEF Ref, Pc, Visited, Queried, InHand, Actors
<1>7. Rewrites({}, {})
  BY <1>1, MemLike, RewritesOf
<1>8. HeldKept
  <2>1. Range(Index') = Range(Index)
    BY <1>1, MemoryIs DEF Index
  <2> QED
    BY <1>2, <1>4, <2>1 DEF HeldKept, Held
<1>9. Cardinality(Visited') <= MaxOrders + 1 /\ NoDict \notin Visited'
  BY <1>2, <1>6, ListedAreFew DEF Good, MemoryPart
<1>10. MemoryPart' /\ DOMAIN Obj' \subseteq DOMAIN Obj
  <2>1. \A u \in InFlight : Settled(u)
    BY <1>1, GivenUpIsSettled
  <2>2. \A a \in Actors : job'[a].hit \in Uuids => ex[job'[a].hit].state # "none"
    BY <1>4 DEF Reserved, Uuids
  <2> QED
    BY <1>3, <1>7, <1>8, <1>9, <2>1, <2>2, RewritesKeepMemory DEF Good
<1>11. Apart'
  <2>1. \A d \in Range(Index') : Index'[Obj'[d].uuid] = d
    BY <1>10 DEF MemoryPart, Lists, Range
  <2>2. loop'.todo \subseteq Range(Index')
    BY <1>1, <1>2, MemoryIs DEF Index
  <2> QED
    BY <1>2, <1>6, <1>9, <2>1, <2>2 DEF Apart
<1>12. ApiMeets' /\ NotWaiting' /\ AnswersHold'
  BY <1>2, <1>4 DEF ApiMeets, Submitting, NotWaiting, AnswersHold, Actors
<1>13. JobsHold'
  BY <1>4, <1>6 DEF JobsHold, Acting, Cancelling
<1> QED
  BY <1>5, <1>10, <1>11, <1>12, <1>13 DEF Good, ControlPart

(***************************************************************************)
(* The invariant.                                                          *)
(***************************************************************************)
LEMMA InitGood == Init => Good
<1> SUFFICES ASSUME Init PROVE Good
  OBVIOUS
<1>1. MaxOrders \in Nat /\ 1 <= MaxOrders
  BY SyncAssumption
<1>2. PICK u \in {1} \cup (IF reserving THEN {Reserved} ELSE {}) :
        /\ ex = [v \in Uuids |-> IF v = u THEN NewOrder("bid", Volume) ELSE Unplaced]
        /\ mem = [index |-> [v \in {u} |-> 1],
                  obj |-> [d \in {1} |->
                     [uuid |-> u, kind |-> "buy", vol |-> Volume, filled |-> 0,
                      status |-> IF u = Reserved THEN "waiting" ELSE "placed",
                      of |-> NoBuy]]]
  BY DEF Init
<1>3. /\ DOMAIN Index = {u} /\ Index[u] = 1 /\ DOMAIN Obj = {1} /\ Obj[1].uuid = u
      /\ DOMAIN Obj[1] = EntryFields /\ (Obj[1].status = "waiting" => u = Reserved)
  BY <1>2 DEF Index, Obj, EntryFields
<1>4. u \in AnyUuid /\ 1 \in Dicts /\ 1 \in Uuids /\ Reserved \notin Uuids /\ (u = Reserved => reserving)
  BY <1>1, <1>2 DEF AnyUuid, Uuids, Dicts, Reserved
<1>5. /\ DOMAIN loop = LoopFields /\ loop.phase = "scan" /\ loop.todo = {} /\ loop.asked = {}
      /\ DOMAIN loop.answers = {}
  BY DEF Init, NothingToDo, LoopFields
<1>6. /\ DOMAIN job = Actors
      /\ \A a \in Actors : /\ DOMAIN job[a] = JobFields /\ job[a].pc = "free" /\ job[a].ref = NoDict
                           /\ job[a].hit = Reserved
  BY NoJobIs DEF Init
<1>7. Ref = NoDict /\ Pc = "free" /\ Visited = {} /\ Queried = {} /\ InHand = {} /\ Held = {NoDict}
  BY <1>5, <1>6 DEF Ref, Pc, Visited, Queried, InHand, Held, Actors
<1>8. /\ DOMAIN ex = Uuids /\ \A v \in Uuids : "state" \in DOMAIN ex[v]
      /\ \A v \in Uuids : ex[v].state = "wait" <=> v = u
      /\ u \in Uuids => ex[u].state # "none"
  BY <1>2 DEF NewOrder, Unplaced
<1>9. Shapes
  BY <1>5, <1>6, <1>7, <1>8 DEF Shapes, LoopPcs, ApiPcs, AnyUuid, Actors
<1>10. Lists
  BY <1>3, <1>4 DEF Lists
<1>11. Dictionaries
  <2>1. Cardinality(Visited) <= MaxOrders + 1
    BY <1>1, <1>7, FS_EmptySet
  <2>2. DOMAIN Obj \subseteq Range(Index)
    BY <1>3 DEF Range
  <2> QED
    BY <1>7, <2>1, <2>2 DEF Dictionaries
<1>12. PlacedOnes
  BY <1>3, <1>4, <1>6, <1>8 DEF PlacedOnes
<1>13. WaitingAreClear
  BY <1>3, <1>4 DEF WaitingAreClear, Clear, Live
<1>14. KnownAreTracked /\ Tracked
  BY <1>3, <1>8 DEF KnownAreTracked, Tracked, Has, Index, Live
<1>15. ControlPart
  BY <1>5, <1>6, <1>7 DEF ControlPart, Apart, ApiMeets, Submitting, NotWaiting, AnswersHold, JobsHold,
                          ActedOn, Acting, Cancelling, Actors
<1> QED
  BY <1>9, <1>10, <1>11, <1>12, <1>13, <1>14, <1>15 DEF Good, MemoryPart

LEMMA CycleKeeps == ASSUME Good, CycleStep PROVE Good'
  BY StartCycleKeeps, ScanKeeps, RecoverKeeps, QueryKeeps, ForgottenKeeps, UnansweredKeeps, ProcessKeeps
  DEF CycleStep

\* What one order goes through, unless it is submitted twice.
LEMMA OrderStepKeeps ==
    ASSUME Good, ~raced',
           SellStep \/ SettleStep \/ AskBeforeCancel \/ StopStep
    PROVE  Good'
  BY SellPlacedKeeps, SellFailsKeeps, SellSkippedKeeps, SettleOrderKeeps, DropOrderKeeps, MessageFailsKeeps,
     AskBeforeCancelKeeps, StopCancelledKeeps, StopNotCancelledKeeps, StopPlacedKeeps, StopFailsKeeps
  DEF SellStep, SettleStep, StopStep

LEMMA ActorKeeps ==
    ASSUME Good, ~raced', NEW a \in Actors, Arrive(a) \/ SubmitStep(a) \/ CancelStep(a)
    PROVE  Good'
<1>1. CASE Arrive(a)
  BY <1>1, CreateArrivesKeeps, CancelArrivesKeeps DEF Arrive
<1>2. CASE SubmitStep(a)
  BY <1>2, AdoptOpenOrderKeeps, OrderSubmittedKeeps, LoopCreates, ApiCreates, LoopSubmitFails, ApiSubmitFails
  DEF SubmitStep, Actors
<1>3. CASE CancelStep(a)
  BY <1>3, LoopCancelAccepted, ApiCancelAccepted, LoopRechecks, ApiRechecks, LoopRecheck, ApiRecheck
  DEF CancelStep, Actors
<1> QED
  BY <1>1, <1>2, <1>3

\* `raced` stays once it holds.
LEMMA RacedStays ==
    ASSUME Next, ~raced'
    PROVE  ~raced
  BY DEF Next, Exchange, FillSome, CancelledThere, CycleStep, StartCycle, Scan, Recover, Query, Forgotten,
         Unanswered, Process, SellStep, SellPlaced, SellFails, SellSkipped, SettleStep, SettleOrder, DropOrder,
         MessageFails, AskBeforeCancel, StopStep, StopCancelled, StopNotCancelled, StopPlaced, StopFails,
         Arrive, CreateArrives, CancelArrives, SubmitStep, AdoptOpenOrder, NoOpenOrder, OrderSubmitted,
         SubmitFails, Replaced, CancelStep, CancelAccepted, CancelFails, Recheck, RequestStep, CancelRequest,
         SyncRequest, Accept, SubmitOnRequest, QueryOnRequest, Crash, hist

LEMMA StepKeeps ==
    ASSUME SyncInv, [Next]_vars
    PROVE  SyncInv'
<1>1. SyncInv <=> raced \/ Good
  BY DEF SyncInv, Good
<1>2. SyncInv' <=> raced' \/ Good'
  BY DEF SyncInv, Good
<1>3. CASE UNCHANGED vars
  <2>1. raced' = raced
    BY <1>3 DEF vars, hist
  <2>2. ASSUME Good PROVE Good'
    <3>1. mem' = mem /\ loop' = loop /\ job' = job /\ ex' = ex /\ orphaned' = orphaned /\ reserving' = reserving
      BY <1>3 DEF vars, hist, bounds
    <3>2. DOMAIN ex = Uuids /\ \A v \in Uuids : "state" \in DOMAIN ex[v]
      BY <2>2 DEF Good, Shapes
    <3> QED
      BY <2>2, <3>1, <3>2, NothingComesToLife
  <2> QED
    BY <1>1, <1>2, <2>1, <2>2
<1>4. CASE Next /\ ~raced'
  <2> SUFFICES Good'
    BY <1>2
  <2>1. Good
    BY <1>1, <1>4, RacedStays
  <2>2. CASE Exchange
    BY <2>1, <2>2, FillSomeKeeps, CancelledThereKeeps DEF Exchange
  <2>3. CASE CycleStep
    BY <2>1, <2>3, CycleKeeps
  <2>4. CASE SellStep \/ SettleStep \/ AskBeforeCancel \/ StopStep
    BY <1>4, <2>1, <2>4, OrderStepKeeps
  <2>5. CASE \E a \in Actors : Arrive(a) \/ SubmitStep(a) \/ CancelStep(a)
    BY <1>4, <2>1, <2>5, ActorKeeps
  <2>6. CASE RequestStep
    BY <2>1, <2>6, CancelRequestKeeps, SyncRequestKeeps, SubmitOnRequestKeeps, QueryOnRequestKeeps
    DEF RequestStep
  <2>7. CASE Crash
    BY <2>1, <2>7, CrashKeeps
  <2> QED
    BY <1>4, <2>2, <2>3, <2>4, <2>5, <2>6, <2>7 DEF Next
<1> QED
  BY <1>2, <1>3, <1>4

\* The invariant holds whatever the constants.
THEOREM SyncInvHolds == Spec => []SyncInv
<1>1. Init => SyncInv
  BY InitGood DEF SyncInv, Good
<1>2. SyncInv /\ [Next]_vars => SyncInv'
  BY StepKeeps
<1> QED
  BY <1>1, <1>2, PTL DEF Spec

\* An order that is open at the exchange is on the bot's list, unless the call that
\* made it has not returned or the bot was not told of it or gave it up where it
\* says so: whatever the loop, the requests, the exchange and restarts do between
\* two awaits of order_sync.py, until two submissions of one order have met.
THEOREM LiveTracked == Spec => []LiveOrdersAreTracked
<1>1. SyncInv => LiveOrdersAreTracked
  BY DEF SyncInv, MemoryPart, Tracked, LiveOrdersAreTracked
<1> QED
  BY <1>1, SyncInvHolds, PTL
=============================================================================
