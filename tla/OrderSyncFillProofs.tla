------------------------- MODULE OrderSyncFillProofs -------------------------
(***************************************************************************)
(* Proofs about OrderSync: the sells tracked for a buy stay within the     *)
(* fill that is written down for it, for any volume and any number of      *)
(* orders, requests and restarts.  The sum over the sells is compared by   *)
(* counting units; the invariant ties it to what was executed, to the      *)
(* answers the loop still has, to the sell on its way and to a submission  *)
(* whose caller does not know of it yet.                                   *)
(*                                                                         *)
(* The last part proves the types, with an invariant that holds also after *)
(* two submissions of one order have met.                                  *)
(***************************************************************************)
EXTENDS OrderSyncProofs, WellFoundedInduction

(***************************************************************************)
(* A sum of volumes is the number of their units.  Sums are compared by    *)
(* their units, as sets.                                                   *)
(***************************************************************************)
Vol(m, u) == At(m, u).vol
Units(m, S) == {p \in S \X Nat : 1 <= p[2] /\ p[2] <= Vol(m, p[1])}
Least(s) == CHOOSE x \in s : TRUE
Summing(m, S, g) ==
    g = [s \in SUBSET S |-> IF s = {} THEN 0 ELSE Vol(m, Least(s)) + g[s \ {Least(s)}]]

LEMMA UnitsOfMore ==
    ASSUME NEW S, IsFiniteSet(S), NEW m, \A u \in S : Vol(m, u) \in Nat, NEW x \in S
    PROVE  /\ IsFiniteSet(Units(m, S \ {x})) => IsFiniteSet(Units(m, S))
           /\ IsFiniteSet(Units(m, S \ {x})) =>
                Cardinality(Units(m, S)) = Vol(m, x) + Cardinality(Units(m, S \ {x}))
<1> DEFINE X == {x} \X (1..Vol(m, x))
<1>1. SUFFICES ASSUME IsFiniteSet(Units(m, S \ {x}))
               PROVE  /\ IsFiniteSet(Units(m, S))
                      /\ Cardinality(Units(m, S)) = Vol(m, x) + Cardinality(Units(m, S \ {x}))
  OBVIOUS
<1>2. IsFiniteSet(1..Vol(m, x)) /\ Cardinality(1..Vol(m, x)) = Vol(m, x)
  <2>1. Vol(m, x) \in Nat
    OBVIOUS
  <2> QED
    BY <2>1, FS_Interval
<1>3. IsFiniteSet({x}) /\ Cardinality({x}) = 1
  BY FS_Singleton
<1>4. IsFiniteSet(X) /\ Cardinality(X) = Vol(m, x)
  <2>1. IsFiniteSet(X) /\ Cardinality(X) = Cardinality({x}) * Cardinality(1..Vol(m, x))
    BY <1>2, <1>3, FS_Product
  <2>2. PICK n \in Nat : n = Vol(m, x)
    OBVIOUS
  <2> QED
    BY <1>2, <1>3, <2>1, <2>2
<1>5. Units(m, S) = X \cup Units(m, S \ {x})
  BY DEF Units
<1>6. X \cap Units(m, S \ {x}) = {}
  BY DEF Units
<1>7. /\ IsFiniteSet(X \cup Units(m, S \ {x}))
      /\ Cardinality(X \cup Units(m, S \ {x})) = Cardinality(X) + Cardinality(Units(m, S \ {x})) - Cardinality(X \cap Units(m, S \ {x}))
  BY <1>1, <1>4, FS_Union
<1>8. Cardinality(X \cap Units(m, S \ {x})) = 0
  BY <1>6, FS_EmptySet
<1>9. Cardinality(Units(m, S \ {x})) \in Nat /\ Vol(m, x) \in Nat
  BY <1>1, FS_CardinalityType
<1> QED
  BY <1>4, <1>5, <1>7, <1>8, <1>9

Counts(m, S) == [s \in SUBSET S |-> Cardinality(Units(m, s))]

LEMMA UnitsAreFinite ==
    ASSUME NEW S, IsFiniteSet(S), NEW m, \A u \in S : Vol(m, u) \in Nat
    PROVE  \A s \in SUBSET S : IsFiniteSet(Units(m, s))
<1> DEFINE Bad == {s \in FiniteSubsetsOf(S) : ~IsFiniteSet(Units(m, s))}
<1>1. ASSUME Bad # {} PROVE FALSE
  <2>1. PICK s \in Bad : \A t \in Bad : <<t, s>> \notin StrictSubsetOrdering(S)
    <3>1. Bad \subseteq FiniteSubsetsOf(S)
      OBVIOUS
    <3> HIDE DEF Bad
    <3> QED
      BY <1>1, <3>1, WFMin, FS_StrictSubsetOrderingWellFounded
  <2>2. s # {}
    <3>1. Units(m, {}) = {}
      BY DEF Units
    <3> QED
      BY <3>1, FS_EmptySet
  <2>3. PICK x : x \in s
    BY <2>2
  <2>4. s \in SUBSET S /\ IsFiniteSet(s) /\ s \ {x} \in FiniteSubsetsOf(S)
    <3>1. s \in SUBSET S /\ s \ {x} \in SUBSET S
      BY DEF FiniteSubsetsOf
    <3> HIDE DEF Bad
    <3> QED
      BY <3>1, FS_Subset DEF FiniteSubsetsOf
  <2>5. IsFiniteSet(Units(m, s \ {x}))
    <3>1. <<s \ {x}, s>> \in StrictSubsetOrdering(S)
      BY <2>3, <2>4 DEF StrictSubsetOrdering
    <3> QED
      BY <2>1, <2>4, <3>1
  <2>6. \A u \in s : Vol(m, u) \in Nat
    BY <2>4
  <2> QED
    BY <2>3, <2>4, <2>5, <2>6, UnitsOfMore
<1>2. ASSUME NEW s \in SUBSET S PROVE IsFiniteSet(Units(m, s))
  <2>1. s \in FiniteSubsetsOf(S)
    BY FS_Subset DEF FiniteSubsetsOf
  <2> QED
    BY <1>1, <2>1
<1> QED
  BY <1>2

\* The sum over a finite set is the number of units.
LEMMA SummingIs ==
    ASSUME NEW S, IsFiniteSet(S), NEW m, \A u \in S : Vol(m, u) \in Nat, NEW g, Summing(m, S, g)
    PROVE  \A s \in SUBSET S : g[s] = Cardinality(Units(m, s))
<1> DEFINE Bad == {s \in FiniteSubsetsOf(S) : g[s] # Cardinality(Units(m, s))}
<1>0. \A s \in SUBSET S : g[s] = IF s = {} THEN 0 ELSE Vol(m, Least(s)) + g[s \ {Least(s)}]
  BY DEF Summing
<1>1. ASSUME Bad # {} PROVE FALSE
  <2>1. PICK s \in Bad : \A t \in Bad : <<t, s>> \notin StrictSubsetOrdering(S)
    <3>1. Bad \subseteq FiniteSubsetsOf(S)
      OBVIOUS
    <3> HIDE DEF Bad
    <3> QED
      BY <1>1, <3>1, WFMin, FS_StrictSubsetOrderingWellFounded
  <2>2. s # {}
    <3>1. Units(m, {}) = {}
      BY DEF Units
    <3>2. {} \in SUBSET S
      OBVIOUS
    <3> QED
      BY <1>0, <3>1, <3>2, FS_EmptySet
  <2>3. PICK x : x = Least(s)
    OBVIOUS
  <2>3a. x \in s
    BY <2>2, <2>3 DEF Least
  <2>4. s \in SUBSET S /\ IsFiniteSet(s) /\ s \ {x} \in FiniteSubsetsOf(S)
    <3>1. s \in SUBSET S /\ s \ {x} \in SUBSET S
      BY DEF FiniteSubsetsOf
    <3> HIDE DEF Bad
    <3> QED
      BY <3>1, FS_Subset DEF FiniteSubsetsOf
  <2>5. g[s \ {x}] = Cardinality(Units(m, s \ {x}))
    <3>1. <<s \ {x}, s>> \in StrictSubsetOrdering(S)
      BY <2>3a, <2>4 DEF StrictSubsetOrdering
    <3> QED
      BY <2>1, <2>4, <3>1
  <2>6. \A u \in s : Vol(m, u) \in Nat
    BY <2>4
  <2>7. IsFiniteSet(Units(m, s \ {x}))
    BY <2>4, UnitsAreFinite
  <2>8. g[s] = Vol(m, x) + g[s \ {x}]
    BY <1>0, <2>2, <2>3, <2>4
  <2>9. Cardinality(Units(m, s)) = Vol(m, x) + Cardinality(Units(m, s \ {x}))
    BY <2>3a, <2>4, <2>6, <2>7, UnitsOfMore
  <2> QED
    BY <2>5, <2>8, <2>9
<1>2. ASSUME NEW s \in SUBSET S PROVE g[s] = Cardinality(Units(m, s))
  <2>1. s \in FiniteSubsetsOf(S)
    BY FS_Subset DEF FiniteSubsetsOf
  <2> QED
    BY <1>1, <2>1
<1> QED
  BY <1>2

LEMMA CountsSum ==
    ASSUME NEW S, IsFiniteSet(S), NEW m, \A u \in S : Vol(m, u) \in Nat
    PROVE  Summing(m, S, Counts(m, S))
<1>1. ASSUME NEW s \in SUBSET S, s # {}
      PROVE  Counts(m, S)[s] = Vol(m, Least(s)) + Counts(m, S)[s \ {Least(s)}]
  <2>1. PICK x : x = Least(s)
    OBVIOUS
  <2>2. x \in s
    BY <1>1, <2>1 DEF Least
  <2>3. s \ {x} \in SUBSET S /\ IsFiniteSet(s) /\ \A u \in s : Vol(m, u) \in Nat
    BY FS_Subset
  <2>4. IsFiniteSet(Units(m, s \ {x}))
    BY <2>3, UnitsAreFinite
  <2>5. Cardinality(Units(m, s)) = Vol(m, x) + Cardinality(Units(m, s \ {x}))
    BY <2>2, <2>3, <2>4, UnitsOfMore
  <2> QED
    BY <2>1, <2>3, <2>5 DEF Counts
<1>2. Counts(m, S)[{}] = 0
  <2>1. Units(m, {}) = {}
    BY DEF Units
  <2> QED
    BY <2>1, FS_EmptySet DEF Counts
<1>3. Counts(m, S) = [s \in SUBSET S |-> IF s = {} THEN 0 ELSE Vol(m, Least(s)) + Counts(m, S)[s \ {Least(s)}]]
  <2> DEFINE h == [s \in SUBSET S |-> IF s = {} THEN 0 ELSE Vol(m, Least(s)) + Counts(m, S)[s \ {Least(s)}]]
  <2>1. \A s \in SUBSET S : Counts(m, S)[s] = h[s]
    BY <1>1, <1>2
  <2>2. DOMAIN Counts(m, S) = SUBSET S /\ DOMAIN h = SUBSET S
    BY DEF Counts
  <2>3. Counts(m, S) = [s \in SUBSET S |-> Counts(m, S)[s]]
    BY DEF Counts
  <2>4. h = [s \in SUBSET S |-> h[s]]
    OBVIOUS
  <2> HIDE DEF h
  <2>5. Counts(m, S) = h
    BY <2>1, <2>3, <2>4
  <2> QED
    BY <2>5 DEF h
<1> QED
  BY <1>3 DEF Summing

LEMMA LinkedVolumeIs ==
    ASSUME NEW m, NEW b, IsFiniteSet(LinkedSells(m, b)), \A u \in LinkedSells(m, b) : Vol(m, u) \in Nat
    PROVE  LinkedVolume(m, b) = Cardinality(Units(m, LinkedSells(m, b)))
<1> DEFINE S == LinkedSells(m, b)
<1>1. LinkedVolume(m, b) = (CHOOSE g : Summing(m, S, g))[S]
  BY DEF LinkedVolume, MapThenSumSet, MapThenFoldSet, Summing, Least, Vol
<1> HIDE DEF S
<1>2. PICK g : g = CHOOSE h : Summing(m, S, h)
  OBVIOUS
<1>3. Summing(m, S, g)
  BY <1>2, CountsSum DEF S
<1> QED
  BY <1>1, <1>2, <1>3, SummingIs DEF S

Volumes(m, b) == IsFiniteSet(LinkedSells(m, b)) /\ \A u \in LinkedSells(m, b) : Vol(m, u) \in Nat

LEMMA VolumeIsNat ==
    ASSUME NEW m, NEW b, Volumes(m, b)
    PROVE  LinkedVolume(m, b) \in Nat /\ IsFiniteSet(Units(m, LinkedSells(m, b)))
<1>1. IsFiniteSet(Units(m, LinkedSells(m, b)))
  BY UnitsAreFinite DEF Volumes
<1> QED
  BY <1>1, LinkedVolumeIs, FS_CardinalityType DEF Volumes

LEMMA NoVolume ==
    ASSUME NEW m, NEW b, LinkedSells(m, b) = {}
    PROVE  LinkedVolume(m, b) = 0
<1>1. Volumes(m, b) /\ Units(m, LinkedSells(m, b)) = {}
  BY FS_EmptySet DEF Volumes, Units
<1> QED
  BY <1>1, LinkedVolumeIs, FS_EmptySet DEF Volumes

\* Sells that leave the list make the sum no larger.
LEMMA VolumeShrinks ==
    ASSUME NEW m, NEW n, NEW b, Volumes(m, b),
           \A u \in LinkedSells(n, b) : u \in LinkedSells(m, b) /\ At(n, u).vol = At(m, u).vol
    PROVE  Volumes(n, b) /\ LinkedVolume(n, b) <= LinkedVolume(m, b)
<1>1. LinkedSells(n, b) \in SUBSET LinkedSells(m, b)
  OBVIOUS
<1>2. Volumes(n, b)
  BY <1>1, FS_Subset DEF Volumes, Vol
<1>3. Units(n, LinkedSells(n, b)) \in SUBSET Units(m, LinkedSells(m, b))
  BY DEF Units, Vol
<1>4. Cardinality(Units(n, LinkedSells(n, b))) <= Cardinality(Units(m, LinkedSells(m, b)))
  BY <1>3, VolumeIsNat, FS_Subset
<1> QED
  BY <1>2, <1>4, LinkedVolumeIs DEF Volumes

\* A sell that joins them adds its volume.
LEMMA VolumeGrows ==
    ASSUME NEW m, NEW n, NEW b, Volumes(m, b), NEW x, NEW v \in Nat,
           \A u \in LinkedSells(n, b) \ {x} : u \in LinkedSells(m, b) /\ At(n, u).vol = At(m, u).vol,
           At(n, x).vol = v
    PROVE  Volumes(n, b) /\ LinkedVolume(n, b) <= LinkedVolume(m, b) + v
<1> DEFINE S == LinkedSells(n, b)
           T == LinkedSells(m, b)
<1>1. S \in SUBSET (T \cup {x}) /\ IsFiniteSet(T \cup {x})
  <2>1. IsFiniteSet(T)
    BY DEF Volumes
  <2> QED
    BY <2>1, FS_AddElement
<1>2. IsFiniteSet(S) /\ \A u \in S : Vol(n, u) \in Nat
  BY <1>1, FS_Subset DEF Volumes, Vol
<1>3. IsFiniteSet(Units(m, T)) /\ IsFiniteSet(Units(n, S)) /\ IsFiniteSet(Units(n, S \ {x}))
  <2>1. S \in SUBSET S /\ S \ {x} \in SUBSET S
    OBVIOUS
  <2> QED
    BY <1>2, <2>1, VolumeIsNat, UnitsAreFinite
<1>4. Cardinality(Units(n, S)) <= Cardinality(Units(n, S \ {x})) + v
  <2>1. CASE x \in S
    <3>1. Cardinality(Units(n, S)) = Vol(n, x) + Cardinality(Units(n, S \ {x}))
      BY <1>2, <1>3, <2>1, UnitsOfMore
    <3>2. Cardinality(Units(n, S \ {x})) \in Nat /\ Vol(n, x) = v
      BY <1>3, FS_CardinalityType DEF Vol
    <3> QED
      BY <3>1, <3>2
  <2>2. CASE x \notin S
    <3>1. S \ {x} = S /\ Cardinality(Units(n, S)) \in Nat
      BY <1>3, <2>2, FS_CardinalityType
    <3> QED
      BY <3>1
  <2> QED
    BY <2>1, <2>2
<1>5. Cardinality(Units(n, S \ {x})) <= Cardinality(Units(m, T))
  <2>1. Units(n, S \ {x}) \in SUBSET Units(m, T)
    BY DEF Units, Vol
  <2> QED
    BY <1>3, <2>1, FS_Subset
<1>6. Cardinality(Units(n, S \ {x})) \in Nat /\ Cardinality(Units(m, T)) \in Nat /\ Cardinality(Units(n, S)) \in Nat
  BY <1>3, FS_CardinalityType
<1>7. LinkedVolume(n, b) = Cardinality(Units(n, S)) /\ LinkedVolume(m, b) = Cardinality(Units(m, T))
  BY <1>2, LinkedVolumeIs DEF Volumes
<1> QED
  BY <1>2, <1>4, <1>5, <1>6, <1>7 DEF Volumes

(***************************************************************************)
(* The invariant.                                                          *)
(***************************************************************************)
Sold(b) == LinkedVolume(mem, b)
Bought(b) == IF b \in Uuids THEN ex[b].exec ELSE 0
IsBid(b) == b \in Uuids => ex[b].side = "bid"
IsBuy(d) == Obj[d].kind = "buy"
ListedBuys == {d \in Range(Index) : IsBuy(d)}
BuysInHand == {d \in InHand : IsBuy(d)}

\* A submission has reached the exchange, and its caller does not know yet.
Hits(a) == job[a].pc = "create" /\ Reached(a)

OrderFields == {"state", "side", "vol", "exec"}

Amounts ==
    /\ \A u \in Uuids :
         /\ DOMAIN ex[u] = OrderFields /\ ex[u].exec \in Nat
         /\ ex[u].state = "none" => ex[u].side = "bid" /\ ex[u].exec = 0
    /\ \A d \in DOMAIN Obj : Obj[d].vol \in Nat /\ Obj[d].filled \in Nat
    /\ \A a \in Actors : job[a].n \in Nat /\ job[a].ans.exec \in Nat
    /\ \A d \in DOMAIN loop.answers : loop.answers[d].exec \in Nat

\* Buys are bids, and what was placed for an entry is on the side of the entry.
Sides ==
    /\ \A d \in DOMAIN Obj : IsBuy(d) <=> IsBid(Obj[d].uuid)
    /\ \A a \in Actors : Hits(a) => (IsBid(job[a].hit) <=> IsBuy(job[a].ref))
    /\ \A a \in Actors : job[a].pc = "look" => ~Reached(a)
    /\ Pc \in {"sell", "place"} /\ Reached("loop") => ~IsBid(job["loop"].hit)

\* There is one buy: on the list, and with the loop.
OneBuy ==
    /\ \A d \in ListedBuys, e \in ListedBuys : d = e
    /\ \A d \in BuysInHand, e \in BuysInHand : d = e

\* startup_recovery asks about buys, and is over before a request is taken.
Recovering ==
    loop.phase = "recover" => (Idle \/ Free("api")) /\ \A d \in loop.todo : IsBuy(d)

SoldWithinBought == \A b \in AnyUuid : IsBid(b) => Sold(b) <= Bought(b)
SoldWithinFill ==
    \A b \in DOMAIN Index : IsBid(b) /\ b \notin orphaned => Sold(b) <= At(mem, b).filled

\* What was sold for a buy is within each answer about it that the loop still has.
SoldWithinAnswers ==
    \A d \in DOMAIN loop.answers :
        IsBid(Obj[d].uuid) /\ loop.answers[d] # NoAnswer =>
            /\ Sold(Obj[d].uuid) <= loop.answers[d].exec
            /\ loop.answers[d].exec <= Bought(Obj[d].uuid)

\* The sell on its way makes up for what the answer says is missing.
Selling ==
    Pc = "sell" =>
        /\ IsBuy(Ref)
        /\ Sold(Obj[Ref].uuid) + job["loop"].n <= job["loop"].ans.exec
        /\ job["loop"].ans.exec <= Bought(Obj[Ref].uuid)

\* What was sold for the order that a request has submitted and not listed yet (the
\* loop may have adopted it meanwhile) is at most `v`.
Meets(v) ==
    LET u == job["api"].hit
    IN  Hits("api") /\ IsBid(u) /\ u \notin orphaned => Sold(u) <= v
NewBuys ==
    /\ Hits("loop") /\ IsBid(job["loop"].hit) => Sold(job["loop"].hit) = 0
    /\ \A d \in ListedBuys \cup BuysInHand : Meets(Obj[d].filled)
    /\ Pc = "sell" => Meets(job["loop"].ans.exec)
    /\ Hits("api") /\ IsBid(job["api"].hit) =>
         \A d \in InHand : Obj[d].uuid = job["api"].hit => d \in Range(Index)

FillPart ==
    /\ Amounts /\ Sides /\ OneBuy /\ Recovering
    /\ SoldWithinBought /\ SoldWithinFill /\ SoldWithinAnswers /\ Selling /\ NewBuys

\* As LiveOrdersAreTracked, SellsWithinFill promises nothing once two submissions
\* of one order have met.
FillInv == raced \/ FillPart

(***************************************************************************)
(* Turns after which the orders are those there were, or fewer.            *)
(***************************************************************************)
SameOrder(e, f) == e.uuid = f.uuid /\ e.kind = f.kind /\ e.vol = f.vol /\ e.of = f.of

\* Orders G leave the list; the fill of x may be written as v.
Like(m, G, x, v) ==
    /\ DOMAIN m.index = DOMAIN Index \ G /\ \A u \in DOMAIN m.index : m.index[u] = Index[u]
    /\ DOMAIN m.obj = DOMAIN Obj
    /\ \A d \in DOMAIN Obj :
         /\ DOMAIN m.obj[d] = EntryFields /\ SameOrder(m.obj[d], Obj[d])
         /\ \/ m.obj[d].filled = Obj[d].filled
            \/ x \in DOMAIN Index /\ d = Index[x] /\ m.obj[d].filled = v

Stays(G, x, v) ==
    /\ DOMAIN Index' = DOMAIN Index \ G /\ \A u \in DOMAIN Index' : Index'[u] = Index[u]
    /\ DOMAIN Obj' \subseteq DOMAIN Obj
    /\ \A d \in DOMAIN Obj' :
         /\ SameOrder(Obj'[d], Obj[d])
         /\ \/ Obj'[d].filled = Obj[d].filled
            \/ x \in DOMAIN Index /\ d = Index[x] /\ Obj'[d].filled = v

LEMMA LikeMem == ASSUME Lists, NEW x, NEW v PROVE Like(mem, {}, x, v)
  BY DEF Like, Lists, Index, Obj, SameOrder

LEMMA LikeRewritten ==
    ASSUME NEW m, NEW G, NEW x, NEW v, Like(m, G, x, v), NEW d, NEW e,
           d \in DOMAIN Obj =>
              /\ DOMAIN e = EntryFields /\ SameOrder(e, m.obj[d])
              /\ \/ e.filled = m.obj[d].filled
                 \/ x \in DOMAIN Index /\ d = Index[x] /\ e.filled = v
    PROVE  Like(Rewritten(m, d, e), G, x, v)
<1> DEFINE n == Rewritten(m, d, e)
<1>1. n.index = m.index /\ DOMAIN n.obj = DOMAIN m.obj
      /\ \A c \in DOMAIN m.obj : n.obj[c] = IF c = d THEN e ELSE m.obj[c]
  BY DEF Rewritten
<1> HIDE DEF n
<1>2. ASSUME NEW c \in DOMAIN Obj
      PROVE  /\ DOMAIN n.obj[c] = EntryFields /\ SameOrder(n.obj[c], Obj[c])
             /\ \/ n.obj[c].filled = Obj[c].filled
                \/ x \in DOMAIN Index /\ c = Index[x] /\ n.obj[c].filled = v
  BY <1>1 DEF Like, SameOrder
<1>3. Like(n, G, x, v)
  BY <1>1, <1>2 DEF Like
<1> QED
  BY <1>3 DEF n

LEMMA LikeStatus ==
    ASSUME NEW m, NEW G, NEW x, NEW v, Like(m, G, x, v), NEW u, NEW s
    PROVE  Like(UpdateStatus(m, u, s), G, x, v)
<1>1. CASE ~Has(m, u)
  BY <1>1 DEF UpdateStatus
<1>2. CASE Has(m, u)
  <2> DEFINE e == [At(m, u) EXCEPT !.status = s]
  <2>1. m.index[u] \in DOMAIN Obj =>
          DOMAIN e = EntryFields /\ SameOrder(e, m.obj[m.index[u]]) /\ e.filled = m.obj[m.index[u]].filled
    BY DEF Like, At, EntryFields, SameOrder
  <2> HIDE DEF e
  <2>2. Like(Rewritten(m, m.index[u], e), G, x, v)
    BY <2>1, LikeRewritten
  <2> QED
    BY <1>2, <2>2 DEF UpdateStatus, e
<1> QED
  BY <1>1, <1>2

LEMMA LikeFill ==
    ASSUME Lists, NEW x, NEW v
    PROVE  Like(UpdateFill(mem, x, v), {}, x, v)
<1>1. CASE ~Has(mem, x)
  BY <1>1, LikeMem DEF UpdateFill
<1>2. CASE Has(mem, x)
  <2> DEFINE e == [At(mem, x) EXCEPT !.filled = v, !.status = "placed"]
  <2>1. /\ DOMAIN e = EntryFields /\ SameOrder(e, mem.obj[mem.index[x]]) /\ e.filled = v
        /\ x \in DOMAIN Index /\ mem.index[x] = Index[x]
    BY <1>2 DEF Lists, At, EntryFields, SameOrder, Has, Index, Obj
  <2> HIDE DEF e
  <2>2. Like(Rewritten(mem, mem.index[x], e), {}, x, v)
    BY <2>1, LikeMem, LikeRewritten
  <2> QED
    BY <1>2, <2>2 DEF UpdateFill, e
<1> QED
  BY <1>1, <1>2

LEMMA LikeRemoved ==
    ASSUME NEW m, NEW x, NEW v, Like(m, {}, x, v), NEW u
    PROVE  Like(RemoveOrder(m, u), {u}, x, v)
<1>1. /\ RemoveOrder(m, u).obj = m.obj
      /\ DOMAIN RemoveOrder(m, u).index = DOMAIN m.index \ {u}
      /\ \A w \in DOMAIN m.index \ {u} : RemoveOrder(m, u).index[w] = m.index[w]
  BY DEF RemoveOrder, Restrict
<1> QED
  BY <1>1 DEF Like

LEMMA StaysOf ==
    ASSUME NEW m, NEW G, NEW x, NEW v, Like(m, G, x, v), Memory(m)
    PROVE  Stays(G, x, v)
<1>1. /\ Index' = m.index /\ DOMAIN Obj' \subseteq DOMAIN m.obj
      /\ \A d \in DOMAIN Obj' : Obj'[d] = m.obj[d]
  BY MemoryIs
<1>2. DOMAIN Index' = DOMAIN Index \ G /\ \A u \in DOMAIN Index' : Index'[u] = Index[u]
  BY <1>1 DEF Like
<1>3. DOMAIN Obj' \subseteq DOMAIN Obj
  BY <1>1 DEF Like
<1>4. ASSUME NEW d \in DOMAIN Obj'
      PROVE  /\ SameOrder(Obj'[d], Obj[d])
             /\ \/ Obj'[d].filled = Obj[d].filled
                \/ x \in DOMAIN Index /\ d = Index[x] /\ Obj'[d].filled = v
  <2>1. d \in DOMAIN Obj /\ Obj'[d] = m.obj[d]
    BY <1>1, <1>3
  <2> QED
    BY <2>1 DEF Like
<1> QED
  BY <1>2, <1>3, <1>4 DEF Stays

LEMMA SoldIsNat ==
    ASSUME Lists, Amounts
    PROVE  \A b : Volumes(mem, b) /\ Sold(b) \in Nat
<1>1. ASSUME NEW b PROVE Volumes(mem, b) /\ Sold(b) \in Nat
  <2>1. LinkedSells(mem, b) \subseteq AnyUuid /\ \A u \in LinkedSells(mem, b) : u \in DOMAIN Index
    BY DEF LinkedSells, Lists, Index
  <2>2. IsFiniteSet(LinkedSells(mem, b))
    BY <2>1, UuidsAreFinite
  <2>3. \A u \in LinkedSells(mem, b) : Vol(mem, u) \in Nat
    BY <2>1 DEF Vol, At, Amounts, Lists, Index, Obj
  <2> QED
    BY <2>2, <2>3, VolumeIsNat DEF Volumes, Sold
<1> QED
  BY <1>1

LEMMA SoldShrinks ==
    ASSUME Lists, Lists', Amounts, NEW G, NEW x, NEW v, Stays(G, x, v)
    PROVE  \A b : Sold(b)' \in Nat /\ Sold(b)' <= Sold(b)
<1>1. ASSUME NEW b PROVE Sold(b)' \in Nat /\ Sold(b)' <= Sold(b)
  <2>1. ASSUME NEW u \in LinkedSells(mem', b)
        PROVE  u \in LinkedSells(mem, b) /\ At(mem', u).vol = At(mem, u).vol
    <3>1. u \in DOMAIN Index' /\ Obj'[Index'[u]].kind = "sell" /\ Obj'[Index'[u]].of = b
      BY DEF LinkedSells, At, Index, Obj
    <3>2. u \in DOMAIN Index /\ Index'[u] = Index[u] /\ Index[u] \in DOMAIN Obj'
      BY <3>1 DEF Stays, Lists
    <3>3. SameOrder(Obj'[Index[u]], Obj[Index[u]])
      BY <3>2 DEF Stays
    <3> QED
      BY <3>1, <3>2, <3>3 DEF SameOrder, LinkedSells, At, Index, Obj
  <2>2. Volumes(mem, b)
    BY SoldIsNat
  <2>3. Volumes(mem', b) /\ LinkedVolume(mem', b) <= LinkedVolume(mem, b)
    BY <2>1, <2>2, VolumeShrinks
  <2> QED
    BY <2>3, VolumeIsNat DEF Sold
<1> QED
  BY <1>1

\* What such a turn leaves as it was, whoever takes it.
LEMMA StaysKeeps ==
    ASSUME Lists, Lists', FillPart, NEW G, NEW x, NEW v \in Nat, Stays(G, x, v),
           ex' = ex, orphaned \subseteq orphaned', x \in DOMAIN Index /\ IsBid(x) => Sold(x) <= v
    PROVE  /\ \A d \in DOMAIN Obj' :
                /\ d \in DOMAIN Obj /\ Obj'[d].uuid = Obj[d].uuid
                /\ Obj'[d].vol \in Nat /\ Obj'[d].filled \in Nat
                /\ IsBuy(d)' <=> IsBuy(d)
                /\ IsBuy(d)' <=> IsBid(Obj[d].uuid)'
           /\ ListedBuys' \subseteq ListedBuys
           /\ SoldWithinBought' /\ SoldWithinFill'
<1>0. Amounts /\ Sides /\ SoldWithinBought /\ SoldWithinFill
  BY DEF FillPart
<1>1. \A b : Sold(b)' \in Nat /\ Sold(b)' <= Sold(b) /\ Sold(b) \in Nat
  BY <1>0, SoldShrinks, SoldIsNat
<1>2. ASSUME NEW d \in DOMAIN Obj'
      PROVE  /\ d \in DOMAIN Obj /\ Obj'[d].uuid = Obj[d].uuid
             /\ Obj'[d].vol \in Nat /\ Obj'[d].filled \in Nat
             /\ IsBuy(d)' <=> IsBuy(d)
             /\ IsBuy(d)' <=> IsBid(Obj[d].uuid)'
  <2>1. /\ d \in DOMAIN Obj /\ SameOrder(Obj'[d], Obj[d])
        /\ Obj'[d].filled = Obj[d].filled \/ Obj'[d].filled = v
    BY DEF Stays
  <2>2. Obj[d].vol \in Nat /\ Obj[d].filled \in Nat /\ (IsBuy(d) <=> IsBid(Obj[d].uuid))
    BY <1>0, <2>1 DEF Amounts, Sides
  <2> QED
    BY <2>1, <2>2 DEF SameOrder, IsBuy, IsBid
<1>3. ListedBuys' \subseteq ListedBuys
  <2>1. ASSUME NEW d \in Range(Index'), IsBuy(d)' PROVE d \in Range(Index) /\ IsBuy(d)
    <3>1. PICK u \in DOMAIN Index' : d = Index'[u]
      BY DEF Range
    <3>2. d \in DOMAIN Obj' /\ u \in DOMAIN Index /\ d = Index[u]
      BY <3>1 DEF Lists, Stays
    <3> QED
      BY <1>2, <2>1, <3>2 DEF Range
  <2> QED
    BY <2>1 DEF ListedBuys
<1>4. SoldWithinBought'
  <2>1. ASSUME NEW b \in AnyUuid, IsBid(b)' PROVE Sold(b)' <= Bought(b)'
    <3>1. IsBid(b) /\ Bought(b)' = Bought(b) /\ Bought(b) \in Nat
      BY <1>0, <2>1 DEF IsBid, Bought, Amounts
    <3>2. Sold(b) <= Bought(b)
      BY <1>0, <3>1 DEF SoldWithinBought
    <3> QED
      BY <1>1, <3>1, <3>2
  <2> QED
    BY <2>1 DEF SoldWithinBought
<1>5. SoldWithinFill'
  <2>1. ASSUME NEW b \in DOMAIN Index', IsBid(b)', b \notin orphaned'
        PROVE  Sold(b)' <= Obj'[Index'[b]].filled
    <3>1. b \in DOMAIN Index /\ Index'[b] = Index[b] /\ Index[b] \in DOMAIN Obj' /\ Index[b] \in DOMAIN Obj
      BY DEF Stays, Lists
    <3>2. IsBid(b) /\ b \notin orphaned
      BY <2>1 DEF IsBid
    <3>3. Sold(b) <= Obj[Index[b]].filled
      BY <1>0, <3>1, <3>2 DEF SoldWithinFill, At, Index, Obj
    <3>4. \/ Obj'[Index[b]].filled = Obj[Index[b]].filled
          \/ x \in DOMAIN Index /\ Index[b] = Index[x] /\ Obj'[Index[b]].filled = v
      BY <3>1 DEF Stays
    <3>5. x \in DOMAIN Index /\ Index[b] = Index[x] => b = x
      BY <3>1 DEF Lists
    <3>6. Sold(b) <= Obj'[Index[b]].filled
      BY <3>2, <3>3, <3>4, <3>5
    <3>7. Obj'[Index[b]].filled \in Nat
      BY <1>2, <3>1
    <3> QED
      BY <1>1, <3>1, <3>6, <3>7
  <2> QED
    BY <2>1 DEF SoldWithinFill, At, Index, Obj
<1> QED
  BY <1>2, <1>3, <1>4, <1>5

(***************************************************************************)
(* The loop is on with one dict.                                           *)
(***************************************************************************)
\* What the loop's job must be like after a turn about dict d.
SellJob(d) ==
    LET j == job'["loop"]
    IN  /\ j.ref \in {NoDict, d} /\ j.n \in Nat /\ j.ans.exec \in Nat
        /\ j.hit = Reserved \/ j.pc \notin Creating \cup {"look"}
        /\ j.pc = "sell" =>
             /\ IsBuy(d) /\ Sold(Obj[d].uuid) + j.n <= j.ans.exec
             /\ j.ans.exec <= Bought(Obj[d].uuid) /\ Meets(j.ans.exec)

Turn(d, G, x, v) ==
    /\ On(d) /\ job'["api"] = job["api"] /\ SellJob(d)
    /\ Stays(G, x, v) /\ v \in Nat
    /\ x \in DOMAIN Index => (IsBid(x) => Sold(x) <= v) /\ (IsBuy(Index[x]) => Meets(v))
    /\ \A u \in G : u = Obj[d].uuid /\ job'["loop"].ref = NoDict

LEMMA TurnHands ==
    ASSUME Good, Good', NEW d, On(d), SellJob(d)
    PROVE  /\ InHand' \subseteq InHand /\ Visited' \subseteq Visited \ {d}
           /\ InHand' \subseteq DOMAIN Obj' /\ InHand \subseteq DOMAIN Obj /\ d \in InHand
           /\ job'["loop"].ref = NoDict => d \notin InHand'
<1>1. d \in InHand /\ Visited' \subseteq Visited \ {d} /\ d # NoDict
  BY InHandHas DEF On, Visited
<1>2. Ref' \in {NoDict, d}
  BY DEF SellJob, Ref
<1>3. InHand' \subseteq DOMAIN Obj' /\ InHand \subseteq DOMAIN Obj
  BY InHandIsKnown, InHandStaysKnown DEF Good, MemoryPart
<1> QED
  BY <1>1, <1>2, <1>3 DEF InHand, Ref

LEMMA MeetsLater ==
    ASSUME Good, Good', NEW v \in Nat, Meets(v), job'["api"] = job["api"], ex' = ex, orphaned \subseteq orphaned',
           \A b : Sold(b)' \in Nat /\ Sold(b)' <= Sold(b) /\ Sold(b) \in Nat
    PROVE  Meets(v)'
<1>1. PICK u : u = job["api"].hit
  OBVIOUS
<1>2. Hits("api") /\ IsBid(u) /\ u \notin orphaned => Sold(u) <= v
  BY <1>1 DEF Meets
<1>3. Hits("api")' /\ IsBid(u)' /\ u \notin orphaned' => Hits("api") /\ IsBid(u) /\ u \notin orphaned
  BY DEF Hits, Reached, IsBid
<1>4. Sold(u)' \in Nat /\ Sold(u)' <= Sold(u) /\ Sold(u) \in Nat
  OBVIOUS
<1>5. Hits("api")' /\ IsBid(u)' /\ u \notin orphaned' => Sold(u)' <= v
  BY <1>2, <1>3, <1>4
<1> QED
  BY <1>1, <1>5 DEF Meets, Sold, IsBid

LEMMA TurnKeeps ==
    ASSUME Good, Good', FillPart, NEW d, NEW G, NEW x, NEW v, Turn(d, G, x, v)
    PROVE  FillPart'
<1>0. /\ On(d) /\ job'["api"] = job["api"] /\ SellJob(d) /\ Stays(G, x, v) /\ v \in Nat
      /\ ex' = ex /\ orphaned \subseteq orphaned' /\ Lists /\ Lists' /\ loop'.phase = loop.phase
  BY DEF Turn, On, Quiet, Good, MemoryPart
<1>1. /\ \A e \in DOMAIN Obj' :
           /\ e \in DOMAIN Obj /\ Obj'[e].uuid = Obj[e].uuid
           /\ Obj'[e].vol \in Nat /\ Obj'[e].filled \in Nat
           /\ IsBuy(e)' <=> IsBuy(e)
           /\ IsBuy(e)' <=> IsBid(Obj[e].uuid)'
      /\ ListedBuys' \subseteq ListedBuys
      /\ SoldWithinBought' /\ SoldWithinFill'
  BY <1>0, StaysKeeps DEF Turn
<1>2. \A b : Sold(b)' \in Nat /\ Sold(b)' <= Sold(b) /\ Sold(b) \in Nat
  BY <1>0, SoldShrinks, SoldIsNat DEF FillPart
<1>3. /\ InHand' \subseteq InHand /\ Visited' \subseteq Visited \ {d}
      /\ InHand' \subseteq DOMAIN Obj' /\ InHand \subseteq DOMAIN Obj /\ d \in InHand
      /\ job'["loop"].ref = NoDict => d \notin InHand'
  BY <1>0, TurnHands
<1>4. BuysInHand' \subseteq BuysInHand
  BY <1>1, <1>3 DEF BuysInHand
<1>5. Amounts'
  <2>1. \A u \in Uuids :
          /\ DOMAIN ex'[u] = OrderFields /\ ex'[u].exec \in Nat
          /\ ex'[u].state = "none" => ex'[u].side = "bid" /\ ex'[u].exec = 0
    BY <1>0 DEF FillPart, Amounts
  <2>2. \A a \in Actors : job'[a].n \in Nat /\ job'[a].ans.exec \in Nat
    BY <1>0 DEF FillPart, Amounts, SellJob, Actors
  <2>3. \A e \in DOMAIN loop'.answers : loop'.answers[e].exec \in Nat
    BY <1>0 DEF FillPart, Amounts, On
  <2> QED
    BY <1>1, <2>1, <2>2, <2>3 DEF Amounts
<1>6. Sides'
  <2>1. ASSUME NEW e \in DOMAIN Obj' PROVE (IsBuy(e) <=> IsBid(Obj[e].uuid))'
    BY <1>1 DEF IsBid, IsBuy
  <2>2. ASSUME NEW a \in Actors, Hits(a)' PROVE (IsBid(job[a].hit) <=> IsBuy(job[a].ref))'
    <3>1. a = "api"
      BY <1>0, <2>2 DEF SellJob, Hits, Reached, Creating, Actors
    <3>2. job["api"].ref # NoDict /\ job["api"].ref \in DOMAIN Obj'
      <4>1. job'["api"].ref # NoDict
        BY <2>2, <3>1 DEF Good, Shapes, Actors, Hits
      <4>2. job'["api"].ref \in Held'
        BY DEF Held, Actors
      <4> QED
        BY <1>0, <4>1, <4>2 DEF Good, MemoryPart, Dictionaries
    <3>3. Hits("api")
      BY <1>0, <2>2, <3>1 DEF Hits, Reached
    <3>4. IsBid(job["api"].hit) <=> IsBuy(job["api"].ref)
      BY <3>3 DEF FillPart, Sides, Actors
    <3> QED
      BY <1>0, <1>1, <3>1, <3>2, <3>4 DEF IsBid, IsBuy
  <2>3. \A a \in Actors : (job[a].pc = "look" => ~Reached(a))'
    BY <1>0 DEF FillPart, Sides, SellJob, Reached, Actors
  <2>4. Pc' \in {"sell", "place"} => ~Reached("loop")'
    BY <1>0 DEF SellJob, Reached, Creating, Pc
  <2> QED
    BY <2>1, <2>2, <2>3, <2>4 DEF Sides, IsBuy, IsBid, Hits, Reached
<1>7. OneBuy'
  BY <1>1, <1>4 DEF OneBuy, FillPart
<1>8. Recovering'
  <2>1. ASSUME loop.phase = "recover" PROVE Free("api") /\ \A e \in loop.todo : IsBuy(e)
    <3>1. ~Idle
      <4>1. Free("loop") => Ref = NoDict
        BY DEF Good, Shapes, Actors, Free, Ref
      <4> QED
        BY <1>3, <4>1 DEF Idle, InHand, Visited
    <3> QED
      BY <2>1, <3>1 DEF FillPart, Recovering
  <2>2. loop'.todo \subseteq loop.todo /\ loop'.todo \subseteq DOMAIN Obj'
    BY <1>0, <1>3 DEF On, InHand, Visited
  <2> QED
    BY <1>0, <1>1, <2>1, <2>2 DEF Recovering, Free
<1>9. SoldWithinAnswers'
  <2>1. ASSUME NEW e \in DOMAIN loop'.answers, IsBid(Obj[e].uuid)', loop'.answers[e] # NoAnswer
        PROVE  /\ Sold(Obj[e].uuid)' <= loop'.answers[e].exec
               /\ loop'.answers[e].exec <= Bought(Obj[e].uuid)'
    <3>1. PICK b : b = Obj[e].uuid
      OBVIOUS
    <3>2. e \in DOMAIN loop.answers /\ loop'.answers[e] = loop.answers[e] /\ e \in DOMAIN Obj' /\ Obj'[e].uuid = b
      BY <1>0, <1>1, <1>3, <3>1 DEF On, InHand, Visited
    <3>3. IsBid(b) /\ Bought(b)' = Bought(b)
      BY <1>0, <2>1, <3>2 DEF IsBid, Bought
    <3>4. Sold(b) <= loop.answers[e].exec /\ loop.answers[e].exec <= Bought(b) /\ loop.answers[e].exec \in Nat
      BY <2>1, <3>1, <3>2, <3>3 DEF FillPart, SoldWithinAnswers, Amounts
    <3>5. Sold(b)' <= loop'.answers[e].exec
      BY <1>2, <3>2, <3>4
    <3> QED
      BY <3>2, <3>3, <3>4, <3>5 DEF Sold, Bought
  <2> QED
    BY <2>1 DEF SoldWithinAnswers
<1>10. Selling'
  <2>1. ASSUME Pc' = "sell"
        PROVE  /\ IsBuy(Ref)'
               /\ Sold(Obj[Ref].uuid)' + job'["loop"].n <= job'["loop"].ans.exec
               /\ job'["loop"].ans.exec <= Bought(Obj[Ref].uuid)'
    <3>1. PICK b : b = Obj[d].uuid
      OBVIOUS
    <3>2. /\ IsBuy(d) /\ Sold(b) + job'["loop"].n <= job'["loop"].ans.exec /\ job'["loop"].ans.exec <= Bought(b)
          /\ job'["loop"].n \in Nat /\ job'["loop"].ans.exec \in Nat
      BY <1>0, <2>1, <3>1 DEF SellJob, Pc
    <3>3. Ref' = d /\ d \in DOMAIN Obj'
      <4>1. Ref' # NoDict
        BY <2>1 DEF Good, Shapes, Actors, Pc, Ref
      <4>2. Ref' = d
        BY <1>0, <4>1 DEF SellJob, Ref
      <4> QED
        BY <1>3, <4>1, <4>2 DEF InHand
    <3>4. IsBuy(d)' /\ Obj'[d].uuid = b /\ Bought(b)' = Bought(b)
      BY <1>0, <1>1, <3>1, <3>2, <3>3 DEF Bought
    <3>5. Sold(b)' + job'["loop"].n <= job'["loop"].ans.exec
      BY <1>2, <3>2
    <3> QED
      BY <3>2, <3>3, <3>4, <3>5 DEF IsBuy, Sold, Bought
  <2> QED
    BY <2>1 DEF Selling
<1>11. NewBuys'
  <2>1. ~Hits("loop")'
    BY <1>0 DEF SellJob, Hits, Reached, Creating
  <2>2. ASSUME NEW e \in ListedBuys' \cup BuysInHand' PROVE Meets(Obj[e].filled)'
    <3>1. e \in ListedBuys \cup BuysInHand /\ e \in DOMAIN Obj'
      BY <1>0, <1>1, <1>3, <1>4, <2>2 DEF Lists, Range, ListedBuys, BuysInHand
    <3>2. IsBuy(e) /\ Meets(Obj[e].filled)
      BY <3>1 DEF FillPart, NewBuys, ListedBuys, BuysInHand
    <3>3. PICK f : f = Obj'[e].filled
      OBVIOUS
    <3>4. f \in Nat /\ (f = Obj[e].filled \/ (x \in DOMAIN Index /\ e = Index[x] /\ f = v))
      BY <1>0, <1>1, <3>1, <3>3 DEF Stays
    <3>5. Meets(f)
      BY <3>2, <3>4 DEF Turn
    <3>6. Meets(f)'
      BY <1>0, <1>2, <3>4, <3>5, MeetsLater
    <3> QED
      BY <3>3, <3>6 DEF Meets
  <2>3. Pc' = "sell" => Meets(job["loop"].ans.exec)'
    <3>1. PICK f : f = job'["loop"].ans.exec
      OBVIOUS
    <3>2. ASSUME Pc' = "sell" PROVE Meets(f)'
      <4>1. f \in Nat /\ Meets(f)
        BY <1>0, <3>1, <3>2 DEF SellJob, Pc
      <4> QED
        BY <1>0, <1>2, <4>1, MeetsLater
    <3> QED
      BY <3>1, <3>2 DEF Meets
  <2>4. ASSUME Hits("api")', IsBid(job["api"].hit)', NEW e \in InHand', Obj'[e].uuid = job'["api"].hit
        PROVE  e \in Range(Index')
    <3>1. PICK u : u = job["api"].hit
      OBVIOUS
    <3>2. Hits("api") /\ IsBid(u) /\ e \in InHand /\ Obj[e].uuid = u
      BY <1>0, <1>1, <1>3, <2>4, <3>1 DEF Hits, Reached, IsBid
    <3>3. e \in Range(Index)
      BY <3>1, <3>2 DEF FillPart, NewBuys
    <3>4. u \in DOMAIN Index /\ Index[u] = e
      BY <1>0, <3>2, <3>3 DEF Lists, Range
    <3>5. u \notin G
      <4>1. ASSUME u \in G PROVE FALSE
        <5>1. u = Obj[d].uuid /\ d \notin InHand'
          BY <1>3, <4>1 DEF Turn
        <5>2. e = d
          BY <1>3, <3>2, <5>1 DEF Good, ControlPart, Apart
        <5> QED
          BY <2>4, <5>1, <5>2
      <4> QED
        BY <4>1
    <3> QED
      BY <1>0, <3>4, <3>5 DEF Stays, Range
  <2> QED
    BY <2>1, <2>2, <2>3, <2>4 DEF NewBuys
<1> QED
  BY <1>1, <1>5, <1>6, <1>7, <1>8, <1>9, <1>10, <1>11 DEF FillPart

\* The fill of x may be written as v.
Writes(x, v) ==
    /\ v \in Nat
    /\ x \in DOMAIN Index => (IsBid(x) => Sold(x) <= v) /\ (IsBuy(Index[x]) => Meets(v))

LEMMA NothingWritten == ASSUME Lists PROVE Writes(NoBuy, 0)
<1>1. NoBuy \notin AnyUuid
  BY SyncAssumption DEF NoBuy, AnyUuid, Uuids, Reserved
<1> QED
  BY <1>1 DEF Writes, Lists

LEMMA NoJobSells == NoJob.ref = NoDict /\ NoJob.n = 0 /\ NoJob.ans.exec = 0 /\ NoJob.pc = "free" /\ NoJob.hit = Reserved
  BY DEF NoJob, NoAnswer

LEMMA LoopStops ==
    ASSUME Good, Good', FillPart, NEW d, On(d), Finish("loop"), NEW m, NEW G, NEW x, NEW v,
           Like(m, G, x, v), Memory(m), Writes(x, v), \A u \in G : u = Obj[d].uuid
    PROVE  FillPart'
<1>1. job'["loop"] = NoJob /\ job'["api"] = job["api"]
  BY FinishIs DEF Good, Goes, Actors
<1>2. SellJob(d)
  BY <1>1, NoJobSells DEF SellJob, Creating
<1>3. Turn(d, G, x, v)
  BY <1>1, <1>2, StaysOf, NoJobSells DEF Turn, Writes
<1> QED
  BY <1>3, TurnKeeps

LEMMA LoopWaits ==
    ASSUME Good, Good', FillPart, NEW d, On(d), NEW pc, NEW ans, NEW n \in Nat, Await("loop", pc, d, ans, n),
           ans.exec \in Nat, NEW m, NEW x, NEW v, Like(m, {}, x, v), Memory(m), Writes(x, v),
           pc = "sell" => /\ IsBuy(d) /\ Sold(Obj[d].uuid) + n <= ans.exec
                          /\ ans.exec <= Bought(Obj[d].uuid) /\ Meets(ans.exec)
    PROVE  FillPart'
<1>1. Goes("loop", pc, d) /\ job'["loop"].ans = ans
  BY AwaitIs DEF Good, Actors
<1>2. job'["loop"].n = n
  BY DEF Await, NoJob, Good, Shapes, Actors
<1>3. SellJob(d) /\ job'["api"] = job["api"]
  BY <1>1, <1>2 DEF SellJob, Goes, Actors
<1>4. Turn(d, {}, x, v)
  BY <1>3, StaysOf DEF Turn, Writes
<1> QED
  BY <1>4, TurnKeeps

LEMMA LoopWaitsWith ==
    ASSUME Good, Good', FillPart, NEW d, On(d), NEW pc, NEW n \in Nat, NEW u, NEW own,
           AwaitWith("loop", pc, d, n, u, own), Memory(mem), pc # "sell"
    PROVE  FillPart'
<1>1. Goes("loop", pc, d)
  BY AwaitWithIs DEF Good, Actors
<1>2. job'["loop"].n = n /\ job'["loop"].ans = NoAnswer
  BY DEF AwaitWith, NoJob, Good, Shapes, Actors
<1>3. SellJob(d) /\ job'["api"] = job["api"]
  BY <1>1, <1>2 DEF SellJob, Goes, Actors, NoAnswer
<1>4. Writes(NoBuy, 0) /\ Stays({}, NoBuy, 0)
  BY NothingWritten, LikeMem, StaysOf DEF Good, MemoryPart
<1>5. Turn(d, {}, NoBuy, 0)
  BY <1>3, <1>4 DEF Turn, Writes
<1> QED
  BY <1>5, TurnKeeps

\* The loop goes by; nothing is in its job.
LEMMA LoopGoesBy ==
    ASSUME Good, Good', FillPart, NEW d, On(d), Free("loop"), job' = job, NEW m, NEW G,
           Like(m, G, NoBuy, 0), Memory(m), \A u \in G : u = Obj[d].uuid
    PROVE  FillPart'
<1>1. job["loop"].ref = NoDict /\ job["loop"].pc = "free"
  BY DEF Good, Shapes, Actors, Free
<1>2. job["loop"].n \in Nat /\ job["loop"].ans.exec \in Nat
  BY DEF FillPart, Amounts, Actors
<1>3. SellJob(d)
  BY <1>1, <1>2 DEF SellJob, Creating
<1>4. Writes(NoBuy, 0) /\ Stays(G, NoBuy, 0)
  BY NothingWritten, StaysOf DEF Good, MemoryPart
<1>5. Turn(d, G, NoBuy, 0)
  BY <1>1, <1>3, <1>4 DEF Turn, Writes
<1> QED
  BY <1>5, TurnKeeps

LEMMA SettleSells ==
    ASSUME Good, Good', FillPart, NEW d, On(d), NEW m, NEW x, NEW v, Like(m, {}, x, v), Writes(x, v),
           NEW ans, ans.exec \in Nat, Settle("loop", m, d, ans)
    PROVE  FillPart'
<1>0. PICK u : u = Obj[d].uuid
  OBVIOUS
<1>1. m.obj[d].uuid = u
  BY <1>0, InHandHas DEF Like, SameOrder, On
<1>2. ASSUME NEW n \in {m, UpdateStatus(m, u, "waiting"), UpdateStatus(m, u, "placed")}, Finish("loop"), Memory(n)
      PROVE  FillPart'
  <2>1. Like(n, {}, x, v)
    BY <1>2, LikeStatus
  <2> QED
    BY <1>2, <2>1, LoopStops
<1>3. ASSUME Finish("loop"), Memory(RemoveOrder(m, u)) PROVE FillPart'
  <2>1. Like(RemoveOrder(m, u), {u}, x, v)
    BY LikeRemoved
  <2>2. \A w \in {u} : w = Obj[d].uuid
    BY <1>0
  <2> QED
    BY <1>3, <2>1, <2>2, LoopStops
<1>4. ASSUME Await("loop", "drop", d, ans, 0), Memory(m) PROVE FillPart'
  BY <1>4, LoopWaits
<1>5. \/ Finish("loop") /\ Memory(RemoveOrder(m, u))
      \/ Finish("loop") /\ Memory(UpdateStatus(m, u, "waiting"))
      \/ Await("loop", "drop", d, ans, 0) /\ Memory(m)
      \/ Finish("loop") /\ \E told \in {m, UpdateStatus(m, u, "placed")} : Memory(told)
  BY <1>1 DEF Settle, NewStatus
<1> QED
  BY <1>2, <1>3, <1>4, <1>5

\* What an answer about dict d may be: not less than was sold, not more than was bought.
Tells(d, ans) ==
    /\ ans.exec \in Nat
    /\ IsBid(Obj[d].uuid) => Sold(Obj[d].uuid) <= ans.exec /\ ans.exec <= Bought(Obj[d].uuid)

\* An answer that says more than dict d, a buy, does.
LEMMA MoreFilled ==
    ASSUME Good, FillPart, NEW d \in InHand, IsBuy(d), NEW v \in Nat, v > Obj[d].filled
    PROVE  Meets(v)
<1>1. Meets(Obj[d].filled)
  BY DEF FillPart, NewBuys, BuysInHand
<1>2. Obj[d].filled \in Nat /\ Sold(job["api"].hit) \in Nat
  BY InHandHas, SoldIsNat DEF FillPart, Amounts, Good, MemoryPart
<1> QED
  BY <1>1, <1>2 DEF Meets

\* A dict and the one that is listed for its uuid are of one kind.
LEMMA SameKind ==
    ASSUME Good, FillPart, NEW d \in InHand, Obj[d].uuid \in DOMAIN Index
    PROVE  IsBuy(Index[Obj[d].uuid]) <=> IsBuy(d)
<1>1. d \in DOMAIN Obj /\ Index[Obj[d].uuid] \in DOMAIN Obj /\ Obj[Index[Obj[d].uuid]].uuid = Obj[d].uuid
  BY InHandHas DEF Good, MemoryPart, Lists
<1> QED
  BY <1>1 DEF FillPart, Sides

LEMMA ToldFill ==
    ASSUME Good, FillPart, NEW d \in InHand, NEW ans, Tells(d, ans), ans.exec > Obj[d].filled
    PROVE  Writes(Obj[d].uuid, ans.exec)
<1>1. IsBuy(d) => Meets(ans.exec)
  BY MoreFilled DEF Tells
<1> QED
  BY <1>1, SameKind DEF Writes, Tells

LEMMA ProcessFillSells ==
    ASSUME Good, Good', FillPart, NEW d, On(d), NEW ans, Tells(d, ans), ProcessFill("loop", d, ans)
    PROVE  FillPart'
<1>0. PICK u : u = Obj[d].uuid
  OBVIOUS
<1>1. d \in InHand /\ d \in DOMAIN Obj /\ Lists /\ ans.exec \in Nat /\ 0 \in Nat
  BY InHandHas DEF On, Tells, Good, MemoryPart
<1> DEFINE told == UpdateFill(mem, u, ans.exec)
<1>2. Like(told, {}, u, ans.exec) /\ Like(mem, {}, NoBuy, 0) /\ Writes(NoBuy, 0)
  BY <1>1, LikeFill, LikeMem, NothingWritten
<1>3. ans.exec > Obj[d].filled => Writes(u, ans.exec)
  BY <1>0, <1>1, ToldFill
<1> HIDE DEF told
<1>4. CASE /\ ans.exec > Obj[d].filled /\ IsBuy(d) /\ Sold(u) < ans.exec
           /\ Await("loop", "sell", d, ans, ans.exec - Sold(u)) /\ Memory(mem)
  <2>1. PICK s \in Nat : s = Sold(u)
    BY <1>1, SoldIsNat DEF FillPart
  <2>2. ans.exec - s \in Nat /\ s + (ans.exec - s) <= ans.exec
    BY <1>1, <1>4, <2>1
  <2>3. IsBid(u)
    BY <1>0, <1>1, <1>4 DEF FillPart, Sides
  <2>4. ans.exec <= Bought(u) /\ Meets(ans.exec)
    BY <1>0, <1>1, <1>4, <2>3, MoreFilled DEF Tells
  <2> QED
    BY <1>0, <1>1, <1>2, <1>4, <2>1, <2>2, <2>4, LoopWaits
<1>5. CASE ans.exec > Obj[d].filled /\ Settle("loop", told, d, ans)
  BY <1>1, <1>2, <1>3, <1>5, SettleSells
<1>6. CASE ans.exec > Obj[d].filled /\ Await("loop", "settle", d, ans, 0) /\ Memory(told)
  BY <1>1, <1>2, <1>3, <1>6, LoopWaits
<1>7. CASE Settle("loop", mem, d, ans)
  BY <1>1, <1>2, <1>7, SettleSells
<1>8. ProcessFill("loop", d, ans) =>
        \/ /\ ans.exec > Obj[d].filled /\ IsBuy(d) /\ Sold(u) < ans.exec
           /\ Await("loop", "sell", d, ans, ans.exec - Sold(u)) /\ Memory(mem)
        \/ ans.exec > Obj[d].filled /\ Settle("loop", told, d, ans)
        \/ ans.exec > Obj[d].filled /\ Await("loop", "settle", d, ans, 0) /\ Memory(told)
        \/ Settle("loop", mem, d, ans)
  BY <1>0 DEF ProcessFill, told, Sold, IsBuy, Obj
<1> QED
  BY <1>4, <1>5, <1>6, <1>7, <1>8

(***************************************************************************)
(* The loop's steps with the order in its job.                             *)
(***************************************************************************)
LEMMA MemStays == ASSUME Good PROVE Like(mem, {}, NoBuy, 0) /\ Writes(NoBuy, 0)
  BY LikeMem, NothingWritten DEF Good, MemoryPart

\* The loop lets go of the dict, and the order stays.
LEMMA LoopLets ==
    ASSUME Good, Good', FillPart, NEW d, On(d), Finish("loop"), NEW m, Like(m, {}, NoBuy, 0), Memory(m)
    PROVE  FillPart'
  BY MemStays, LoopStops

\* The loop lets go of the dict and removes the order.
LEMMA LoopLoses ==
    ASSUME Good, Good', FillPart, NEW d, On(d), Finish("loop"), NEW u, u = Obj[d].uuid, Memory(RemoveOrder(mem, u))
    PROVE  FillPart'
<1>1. Like(RemoveOrder(mem, u), {u}, NoBuy, 0) /\ Writes(NoBuy, 0)
  BY MemStays, LikeRemoved
<1> QED
  BY <1>1, LoopStops

LEMMA ToldLike ==
    ASSUME Good, NEW e, NEW told \in NewStatus(mem, e)
    PROVE  Like(told, {}, NoBuy, 0)
  BY MemStays, LikeStatus DEF NewStatus

LEMMA SellFailsSells == ASSUME Good, Good', FillPart, SellFails PROVE FillPart'
<1>1. On(Ref)
  BY OnRef DEF SellFails, Pc, bounds
<1>2. CASE Finish("loop") /\ Memory(mem)
  BY <1>1, <1>2, MemStays, LoopLets
<1>3. CASE KeepForRetry("loop", Ref, job["loop"].ans)
  <2>1. PICK told \in NewStatus(mem, mem.obj[Ref]) : Memory(told)
    BY <1>3 DEF KeepForRetry
  <2>2. Finish("loop")
    BY <1>3 DEF KeepForRetry
  <2> QED
    BY <1>1, <2>1, <2>2, ToldLike, LoopLets
<1> QED
  BY <1>2, <1>3 DEF SellFails, SellPutOff, Ref

LEMMA SellSkippedSells == ASSUME Good, Good', FillPart, SellSkipped PROVE FillPart'
<1>1. On(Ref) /\ Ref \in InHand /\ Pc = "sell"
  BY OnRef DEF SellSkipped, Pc, bounds
<1>2. PICK u : u = Obj[Ref].uuid
  OBVIOUS
<1>3. PICK v : v = job["loop"].ans.exec
  OBVIOUS
<1>4. v \in Nat /\ job["loop"].n \in Nat /\ Sold(u) \in Nat /\ Sold(u) + job["loop"].n <= v /\ Meets(v)
  BY <1>1, <1>2, <1>3, SoldIsNat DEF FillPart, Amounts, Selling, NewBuys, Actors, Good, MemoryPart
<1>5. Writes(u, v)
  BY <1>4 DEF Writes
<1>6. Like(UpdateFill(mem, u, v), {}, u, v)
  BY LikeFill DEF Good, MemoryPart
<1>7. Memory(UpdateFill(mem, u, v)) /\ (Finish("loop") \/ Await("loop", "settle", Ref, job["loop"].ans, 0))
  BY <1>2, <1>3 DEF SellSkipped, SellDone, Ord, Ref, Obj
<1>8. CASE Finish("loop")
  BY <1>1, <1>5, <1>6, <1>7, <1>8, LoopStops
<1>9. CASE Await("loop", "settle", Ref, job["loop"].ans, 0)
  BY <1>1, <1>3, <1>4, <1>5, <1>6, <1>7, <1>9, LoopWaits
<1> QED
  BY <1>7, <1>8, <1>9

LEMMA SettleOrderSells == ASSUME Good, Good', FillPart, SettleOrder PROVE FillPart'
<1>1. On(Ref)
  BY OnRef DEF SettleOrder, Pc, bounds, hist, Lost, Creating
<1>2. Settle("loop", mem, Ref, job["loop"].ans) /\ job["loop"].ans.exec \in Nat
  BY DEF SettleOrder, Ref, FillPart, Amounts, Actors
<1> QED
  BY <1>1, <1>2, MemStays, SettleSells

LEMMA DropOrderSells == ASSUME Good, Good', FillPart, DropOrder PROVE FillPart'
<1>1. On(Ref)
  BY OnRef DEF DropOrder, Pc, bounds, hist, Lost, Creating
<1> QED
  BY <1>1, LoopLoses DEF DropOrder, Ord, Ref, Obj

LEMMA MessageFailsSells == ASSUME Good, Good', FillPart, MessageFails PROVE FillPart'
<1>1. /\ loop'.phase = loop.phase /\ loop'.todo = {} /\ loop'.asked = {} /\ DOMAIN loop'.answers = {}
      /\ DOMAIN loop' = LoopFields
  BY DEF MessageFails, NothingToDo, LoopFields
<1>2. Quiet /\ Lost("loop") = {}
  BY <1>1 DEF MessageFails, Quiet, bounds, hist, Lost, Creating
<1>3. PICK d : d \in InHand
  <2>1. ~Free("loop") => Ref # NoDict
    BY DEF Good, Shapes, Actors, Free, Ref
  <2> QED
    BY <2>1 DEF MessageFails, Idle, InHand, Visited
<1>4. On(d)
  BY <1>1, <1>2, <1>3 DEF On
<1> QED
  BY <1>4, MemStays, LoopLets DEF MessageFails

\* A job goes on with its dict.
LEMMA LoopGoesOn ==
    ASSUME Good, Good', FillPart, Pc # "free", ex' = ex, reserving' = reserving, orphaned \subseteq orphaned', loop' = loop,
           Lost("loop") \subseteq orphaned', NEW pc, Continues("loop", pc), pc # "sell", job'["loop"].n \in Nat,
           job'["loop"].hit = Reserved \/ pc \notin Creating \cup {"look"}, Stays({}, NoBuy, 0)
    PROVE  FillPart'
<1>1. On(Ref)
  BY OnRef
<1>2. job'["loop"].ref = Ref /\ job'["loop"].ans = job["loop"].ans /\ job'["loop"].pc = pc /\ job'["api"] = job["api"]
  BY DEF Continues, Ref, Actors
<1>3. job["loop"].ans.exec \in Nat
  BY DEF FillPart, Amounts, Actors
<1>4. SellJob(Ref)
  BY <1>2, <1>3 DEF SellJob
<1>5. Turn(Ref, {}, NoBuy, 0)
  BY <1>1, <1>2, <1>4, MemStays DEF Turn, Writes
<1> QED
  BY <1>5, TurnKeeps

LEMMA SameStays ==
    ASSUME mem' = mem
    PROVE  Stays({}, NoBuy, 0)
<1>1. Index' = Index /\ Obj' = Obj
  BY DEF Index, Obj
<1> QED
  BY <1>1 DEF Stays, SameOrder

LEMMA NewPcHas ==
    ASSUME Good, NEW a \in Actors, NEW pc, job' = [job EXCEPT ![a].pc = pc]
    PROVE  job'[a].n = job[a].n
<1>1. job'[a] = [job[a] EXCEPT !.pc = pc] /\ DOMAIN job[a] = JobFields
  BY DEF Good, Shapes
<1> QED
  BY <1>1 DEF JobFields

LEMMA LoopCreatesSells ==
    ASSUME Good, Good', FillPart, NoOpenOrder("loop")
    PROVE  FillPart'
<1>1. Continues("loop", "create") /\ job'["loop"].hit = job["loop"].hit /\ job'["loop"].n = job["loop"].n
  BY NewPcIs, NewPcHas DEF NoOpenOrder, Actors
<1>2. Lost("loop") = {} /\ Pc = "look" /\ job["loop"].hit = Reserved /\ job["loop"].n \in Nat
  BY DEF NoOpenOrder, Lost, Creating, Pc, FillPart, Sides, Reached, Actors, Amounts
<1> QED
  BY <1>1, <1>2, SameStays, LoopGoesOn DEF NoOpenOrder, bounds, hist

LEMMA LoopRechecksSells ==
    ASSUME Good, Good', FillPart, CancelFails("loop")
    PROVE  FillPart'
<1>1. Continues("loop", "recheck") /\ job'["loop"].n = job["loop"].n
  BY NewPcIs, NewPcHas DEF CancelFails, Actors
<1>2. Lost("loop") = {} /\ Pc = "cancel" /\ job["loop"].n \in Nat /\ "recheck" \notin Creating \cup {"look"}
  BY DEF CancelFails, Lost, Creating, Pc, FillPart, Actors, Amounts
<1> QED
  BY <1>1, <1>2, SameStays, LoopGoesOn DEF CancelFails, bounds, hist

LEMMA RemainingIsNat ==
    ASSUME Good, FillPart, NEW d \in DOMAIN Obj
    PROVE  Remaining(Obj[d]) \in Nat
<1>1. Obj[d].vol \in Nat /\ Obj[d].filled \in Nat
  BY DEF FillPart, Amounts
<1> QED
  BY <1>1 DEF Remaining, Max2

LEMMA StopCancelledSells == ASSUME Good, Good', FillPart, StopCancelled PROVE FillPart'
<1> DEFINE j == job["loop"]
           n == Remaining(Ord("loop"))
<1>0. Ref \in DOMAIN Obj /\ Lost("loop") = {} /\ Pc = "stop"
  BY OnRef DEF StopCancelled, Pc, bounds, hist, Lost, Creating
<1>1. DOMAIN job' = Actors /\ job'["loop"] = [j EXCEPT !.pc = "place", !.hit = Reserved, !.n = n]
      /\ job'["api"] = job["api"]
  BY DEF StopCancelled, Good, Shapes, Actors
<1>2. DOMAIN j = JobFields /\ n \in Nat
  BY <1>0, RemainingIsNat DEF Good, Shapes, Actors, Ord, Obj, Ref
<1> HIDE DEF n
<1>3. /\ DOMAIN job'["loop"] = JobFields /\ job'["loop"].pc = "place" /\ job'["loop"].ref = j.ref
      /\ job'["loop"].ans = j.ans /\ job'["loop"].u = j.u /\ job'["loop"].own = j.own
      /\ job'["loop"].hit = Reserved /\ job'["loop"].n = n
  BY <1>1, <1>2 DEF JobFields
<1>4. Continues("loop", "place")
  BY <1>1, <1>3 DEF Continues, Actors
<1> QED
  BY <1>0, <1>2, <1>3, <1>4, SameStays, LoopGoesOn DEF StopCancelled, bounds, hist

LEMMA StopNotCancelledSells == ASSUME Good, Good', FillPart, StopNotCancelled PROVE FillPart'
<1>1. On(Ref)
  BY OnRef DEF StopNotCancelled, Pc, bounds, hist, Lost, Creating
<1> QED
  BY <1>1, MemStays, LoopLets DEF StopNotCancelled

LEMMA StopFailsSells == ASSUME Good, Good', FillPart, StopFails PROVE FillPart'
<1>1. On(Ref) /\ Lost("loop") \subseteq orphaned' /\ Pc = "place"
  BY OnRef DEF StopFails, Pc, bounds
<1>2. CASE Finish("loop") /\ Memory(RemoveOrder(mem, Ord("loop").uuid))
  BY <1>1, <1>2, LoopLoses DEF Ord, Ref, Obj
<1>3. CASE job' = [job EXCEPT !["loop"] = [@ EXCEPT !.tries = job["loop"].tries + 1, !.hit = Reserved]] /\ Memory(mem)
  <2> DEFINE j == job["loop"]
  <2>0. PICK n : job' = [job EXCEPT !["loop"] = [j EXCEPT !.tries = n, !.hit = Reserved]]
    BY <1>3
  <2>1. DOMAIN job' = Actors /\ job'["loop"] = [j EXCEPT !.tries = n, !.hit = Reserved]
        /\ job'["api"] = job["api"]
    BY <2>0 DEF Good, Shapes, Actors
  <2>2. DOMAIN j = JobFields /\ j.n \in Nat
    BY DEF Good, Shapes, Actors, FillPart, Amounts
  <2>3. /\ DOMAIN job'["loop"] = JobFields /\ job'["loop"].pc = j.pc /\ job'["loop"].ref = j.ref
        /\ job'["loop"].ans = j.ans /\ job'["loop"].u = j.u /\ job'["loop"].own = j.own
        /\ job'["loop"].hit = Reserved /\ job'["loop"].n = j.n
    BY <2>1, <2>2 DEF JobFields
  <2>4. Continues("loop", "place")
    BY <1>1, <2>1, <2>3 DEF Continues, Actors, Pc
  <2>5. Stays({}, NoBuy, 0)
    BY <1>3, MemStays, StaysOf
  <2> QED
    BY <1>1, <2>2, <2>3, <2>4, <2>5, LoopGoesOn DEF StopFails, bounds
<1> QED
  BY <1>2, <1>3 DEF StopFails

LEMMA LoopCancelAcceptedSells ==
    ASSUME Good, Good', FillPart, CancelAccepted("loop")
    PROVE  FillPart'
<1>1. On(Ref)
  BY OnRef DEF CancelAccepted, Pc, bounds, Lost, Creating
<1>2. job["loop"].u = Obj[Ref].uuid
  BY DEF Good, ControlPart, JobsHold, CancelAccepted, Pc
<1> QED
  BY <1>1, <1>2, LoopLoses DEF CancelAccepted

LEMMA LoopRecheckSells ==
    ASSUME Good, Good', FillPart, Recheck("loop")
    PROVE  FillPart'
<1>1. On(Ref)
  BY OnRef DEF Recheck, Pc, bounds, Lost, Creating
<1>2. job["loop"].u = Obj[Ref].uuid
  BY DEF Good, ControlPart, JobsHold, Recheck, Pc
<1>3. Finish("loop") /\ (Memory(RemoveOrder(mem, job["loop"].u)) \/ Memory(mem))
  BY DEF Recheck
<1> QED
  BY <1>1, <1>2, <1>3, MemStays, LoopLets, LoopLoses

\* What the exchange says of an order.
LEMMA AnswerTells ==
    ASSUME Good, FillPart, NEW d \in InHand, NEW ans \in Answers(Obj[d].uuid), ans # NoAnswer
    PROVE  Tells(d, ans)
<1>1. PICK u : u = Obj[d].uuid
  OBVIOUS
<1>2. ans = Answer(u) /\ u \in Uuids /\ u \in AnyUuid
  BY <1>1, InHandHas DEF Answers, Answer, AnyUuid
<1>3. ans.exec = ex[u].exec
  BY <1>2 DEF Answer
<1>4. ans.exec = Bought(u) /\ ans.exec \in Nat
  BY <1>2, <1>3 DEF Bought, FillPart, Amounts
<1> QED
  BY <1>1, <1>2, <1>4 DEF Tells, FillPart, SoldWithinBought

LEMMA AskBeforeCancelSells == ASSUME Good, Good', FillPart, AskBeforeCancel PROVE FillPart'
<1>1. On(Ref) /\ Ref \in InHand /\ Ref \in DOMAIN Obj
  BY OnRef DEF AskBeforeCancel, Pc, bounds, hist, Lost, Creating
<1>2. job["loop"].own = Obj[Ref].uuid
  BY DEF Good, ControlPart, JobsHold, AskBeforeCancel, Pc
<1>3. PICK ans \in Answers(Obj[Ref].uuid) :
        \/ ans.state = "done" /\ ProcessFill("loop", Ref, ans)
        \/ /\ AwaitWith("loop", "cancel", Ref, Max2(Obj[Ref].filled, ans.exec), Ord("loop").uuid, job["loop"].own)
           /\ Memory(mem)
  BY <1>2 DEF AskBeforeCancel, Ref, Ord, Obj
<1>4. CASE ans.state = "done" /\ ProcessFill("loop", Ref, ans)
  <2>1. ans # NoAnswer
    BY <1>4 DEF NoAnswer
  <2> QED
    BY <1>1, <1>3, <1>4, <2>1, AnswerTells, ProcessFillSells
<1>5. CASE /\ AwaitWith("loop", "cancel", Ref, Max2(Obj[Ref].filled, ans.exec), Ord("loop").uuid, job["loop"].own)
           /\ Memory(mem)
  <2>1. ans.exec \in Nat
    BY <1>1, <1>3, AnswerTells DEF Tells, NoAnswer
  <2>2. Max2(Obj[Ref].filled, ans.exec) \in Nat
    BY <1>1, <2>1 DEF Max2, FillPart, Amounts
  <2> QED
    BY <1>1, <1>5, <2>2, LoopWaitsWith
<1> QED
  BY <1>3, <1>4, <1>5

LEMMA LoopSubmitFailsSells ==
    ASSUME Good, Good', FillPart, SubmitFails("loop")
    PROVE  FillPart'
<1>1. On(Ref)
  BY OnRef DEF SubmitFails, Pc, bounds
<1>2. Finish("loop") /\ (Memory(RemoveOrder(mem, Obj[Ref].uuid)) \/ Memory(mem))
  BY DEF SubmitFails, Ord, Ref, Obj
<1> QED
  BY <1>1, <1>2, MemStays, LoopLets, LoopLoses

(***************************************************************************)
(* The loop's job stays as it is.                                          *)
(***************************************************************************)
ApiHits == Hits("api")' => Hits("api") /\ job'["api"].hit = job["api"].hit /\ job'["api"].ref = job["api"].ref

Aside(G, x, v) ==
    /\ ex' = ex /\ orphaned \subseteq orphaned' /\ job'["loop"] = job["loop"]
    /\ loop'.phase = loop.phase /\ loop'.todo \subseteq loop.todo /\ Visited' = Visited
    /\ \A d \in DOMAIN loop'.answers :
         loop'.answers[d].exec \in Nat /\ (loop'.answers[d] = NoAnswer \/ Tells(d, loop'.answers[d]))
    /\ job'["api"].n \in Nat /\ job'["api"].ans.exec \in Nat /\ ApiHits
    /\ job'["api"].pc = "look" => job'["api"].hit = Reserved
    /\ loop.phase = "recover" => Idle' \/ Free("api")'
    /\ Stays(G, x, v) /\ Writes(x, v) /\ (G = {} \/ ~Hits("api")')

LEMMA MeetsAside ==
    ASSUME Good, Good', NEW v \in Nat, Meets(v), ApiHits, ex' = ex, orphaned \subseteq orphaned',
           \A b : Sold(b)' \in Nat /\ Sold(b)' <= Sold(b) /\ Sold(b) \in Nat
    PROVE  Meets(v)'
<1>1. PICK u : u = job["api"].hit
  OBVIOUS
<1>2. Hits("api") /\ IsBid(u) /\ u \notin orphaned => Sold(u) <= v
  BY <1>1 DEF Meets
<1>3. Sold(u)' \in Nat /\ Sold(u)' <= Sold(u) /\ Sold(u) \in Nat
  OBVIOUS
<1>4. ASSUME Hits("api")', IsBid(job["api"].hit)', job'["api"].hit \notin orphaned'
      PROVE  Sold(job["api"].hit)' <= v
  <2>1. job'["api"].hit = u /\ Hits("api") /\ IsBid(u) /\ u \notin orphaned
    BY <1>1, <1>4 DEF ApiHits, IsBid
  <2> QED
    BY <1>2, <1>3, <2>1 DEF Sold
<1> QED
  BY <1>4 DEF Meets

LEMMA AsideKeeps ==
    ASSUME Good, Good', FillPart, NEW G, NEW x, NEW v, Aside(G, x, v)
    PROVE  FillPart'
<1>0. /\ ex' = ex /\ orphaned \subseteq orphaned' /\ job'["loop"] = job["loop"] /\ loop'.phase = loop.phase
      /\ Stays(G, x, v) /\ Writes(x, v) /\ v \in Nat /\ ApiHits /\ Lists /\ Lists' /\ Visited' = Visited
      /\ Ref' = Ref /\ Pc' = Pc
  BY DEF Aside, Writes, Good, MemoryPart, Ref, Pc
<1>1. /\ \A e \in DOMAIN Obj' :
           /\ e \in DOMAIN Obj /\ Obj'[e].uuid = Obj[e].uuid
           /\ Obj'[e].vol \in Nat /\ Obj'[e].filled \in Nat
           /\ IsBuy(e)' <=> IsBuy(e)
           /\ IsBuy(e)' <=> IsBid(Obj[e].uuid)'
      /\ ListedBuys' \subseteq ListedBuys
      /\ SoldWithinBought' /\ SoldWithinFill'
  BY <1>0, StaysKeeps DEF Writes
<1>2. \A b : Sold(b)' \in Nat /\ Sold(b)' <= Sold(b) /\ Sold(b) \in Nat
  BY <1>0, SoldShrinks, SoldIsNat DEF FillPart
<1>3. InHand' = InHand /\ InHand \subseteq DOMAIN Obj' /\ InHand \subseteq DOMAIN Obj
  BY <1>0, InHandIsKnown, InHandStaysKnown DEF Good, MemoryPart, InHand
<1>4. BuysInHand' \subseteq BuysInHand
  BY <1>1, <1>3 DEF BuysInHand
<1>5. Amounts'
  <2>1. \A u \in Uuids :
          /\ DOMAIN ex'[u] = OrderFields /\ ex'[u].exec \in Nat
          /\ ex'[u].state = "none" => ex'[u].side = "bid" /\ ex'[u].exec = 0
    BY <1>0 DEF FillPart, Amounts
  <2>2. \A a \in Actors : job'[a].n \in Nat /\ job'[a].ans.exec \in Nat
    BY <1>0 DEF FillPart, Amounts, Aside, Actors
  <2>3. \A e \in DOMAIN loop'.answers : loop'.answers[e].exec \in Nat
    BY DEF Aside
  <2> QED
    BY <1>1, <2>1, <2>2, <2>3 DEF Amounts
<1>6. Sides'
  <2>1. ASSUME NEW e \in DOMAIN Obj' PROVE (IsBuy(e) <=> IsBid(Obj[e].uuid))'
    BY <1>1 DEF IsBid, IsBuy
  <2>2. ASSUME NEW a \in Actors, Hits(a)' PROVE (IsBid(job[a].hit) <=> IsBuy(job[a].ref))'
    <3>1. Hits(a) /\ job'[a].hit = job[a].hit /\ job'[a].ref = job[a].ref
      BY <1>0, <2>2 DEF ApiHits, Hits, Reached, Actors
    <3>2. job[a].ref \in DOMAIN Obj'
      <4>1. job'[a].ref # NoDict
        BY <2>2 DEF Good, Shapes, Hits
      <4>2. job'[a].ref \in Held'
        BY DEF Held
      <4> QED
        BY <3>1, <4>1, <4>2 DEF Good, MemoryPart, Dictionaries
    <3>3. IsBid(job[a].hit) <=> IsBuy(job[a].ref)
      BY <3>1 DEF FillPart, Sides
    <3> QED
      BY <1>0, <1>1, <3>1, <3>2, <3>3 DEF IsBid, IsBuy
  <2>3. \A a \in Actors : (job[a].pc = "look" => ~Reached(a))'
    BY <1>0 DEF FillPart, Sides, Aside, Reached, Actors
  <2>4. Pc' \in {"sell", "place"} /\ Reached("loop")' => ~IsBid(job["loop"].hit)'
    BY <1>0 DEF FillPart, Sides, Reached, IsBid
  <2> QED
    BY <2>1, <2>2, <2>3, <2>4 DEF Sides, IsBuy, IsBid, Hits, Reached
<1>7. OneBuy'
  BY <1>1, <1>4 DEF OneBuy, FillPart
<1>8. Recovering'
  <2>1. loop'.todo \subseteq loop.todo /\ loop.todo \subseteq InHand
    BY DEF Aside, InHand, Visited
  <2> QED
    BY <1>0, <1>1, <1>3, <2>1 DEF FillPart, Recovering, Aside
<1>9. SoldWithinAnswers'
  <2>1. ASSUME NEW e \in DOMAIN loop'.answers, IsBid(Obj[e].uuid)', loop'.answers[e] # NoAnswer
        PROVE  /\ Sold(Obj[e].uuid)' <= loop'.answers[e].exec
               /\ loop'.answers[e].exec <= Bought(Obj[e].uuid)'
    <3>1. PICK b : b = Obj[e].uuid
      OBVIOUS
    <3>2. Tells(e, loop'.answers[e]) /\ e \in DOMAIN Obj' /\ Obj'[e].uuid = b
      <4>1. e \in InHand
        BY <1>0 DEF Visited, InHand
      <4> QED
        BY <1>1, <1>3, <2>1, <3>1, <4>1 DEF Aside
    <3>3. IsBid(b) /\ Bought(b)' = Bought(b)
      BY <1>0, <2>1, <3>2 DEF IsBid, Bought
    <3>4. Sold(b) <= loop'.answers[e].exec /\ loop'.answers[e].exec <= Bought(b) /\ loop'.answers[e].exec \in Nat
      BY <3>1, <3>2, <3>3 DEF Tells
    <3>5. Sold(b)' <= loop'.answers[e].exec
      BY <1>2, <3>4
    <3> QED
      BY <3>2, <3>3, <3>4, <3>5 DEF Sold, Bought
  <2> QED
    BY <2>1 DEF SoldWithinAnswers
<1>10. Selling'
  <2>1. ASSUME Pc' = "sell"
        PROVE  /\ IsBuy(Ref)'
               /\ Sold(Obj[Ref].uuid)' + job'["loop"].n <= job'["loop"].ans.exec
               /\ job'["loop"].ans.exec <= Bought(Obj[Ref].uuid)'
    <3>1. PICK b : b = Obj[Ref].uuid
      OBVIOUS
    <3>2. /\ IsBuy(Ref) /\ Sold(b) + job["loop"].n <= job["loop"].ans.exec /\ job["loop"].ans.exec <= Bought(b)
          /\ job["loop"].n \in Nat /\ job["loop"].ans.exec \in Nat
      BY <1>0, <2>1, <3>1 DEF FillPart, Selling, Amounts, Actors
    <3>3. Ref \in DOMAIN Obj'
      <4>1. Ref # NoDict
        BY <1>0, <2>1 DEF Good, Shapes, Actors, Pc, Ref
      <4> QED
        BY <1>3, <4>1 DEF InHand
    <3>4. IsBuy(Ref)' /\ Obj'[Ref].uuid = b /\ Bought(b)' = Bought(b)
      BY <1>0, <1>1, <3>1, <3>2, <3>3 DEF Bought, IsBuy
    <3>5. Sold(b)' + job["loop"].n <= job["loop"].ans.exec
      BY <1>2, <3>2
    <3> QED
      BY <1>0, <3>2, <3>3, <3>4, <3>5 DEF IsBuy, Sold, Bought
  <2> QED
    BY <2>1 DEF Selling
<1>11. NewBuys'
  <2>1. Hits("loop")' /\ IsBid(job["loop"].hit)' => Sold(job["loop"].hit)' = 0
    <3>1. PICK u : u = job["loop"].hit
      OBVIOUS
    <3>2. Hits("loop") /\ IsBid(u) => Sold(u) = 0
      BY <3>1 DEF FillPart, NewBuys
    <3>3. Hits("loop")' /\ IsBid(u)' => Hits("loop") /\ IsBid(u)
      BY <1>0 DEF Hits, Reached, IsBid
    <3>4. Sold(u)' \in Nat /\ Sold(u)' <= Sold(u)
      BY <1>2
    <3>5. Hits("loop")' /\ IsBid(u)' => Sold(u)' = 0
      BY <3>2, <3>3, <3>4
    <3>6. job'["loop"].hit = u
      BY <1>0, <3>1
    <3> QED
      BY <3>5, <3>6 DEF Sold, IsBid
  <2>2. ASSUME NEW e \in ListedBuys' \cup BuysInHand' PROVE Meets(Obj[e].filled)'
    <3>1. e \in ListedBuys \cup BuysInHand /\ e \in DOMAIN Obj'
      BY <1>0, <1>1, <1>3, <1>4, <2>2 DEF Lists, Range, ListedBuys, BuysInHand
    <3>2. IsBuy(e) /\ Meets(Obj[e].filled)
      BY <3>1 DEF FillPart, NewBuys, ListedBuys, BuysInHand
    <3>3. PICK f : f = Obj'[e].filled
      OBVIOUS
    <3>4. f \in Nat /\ (f = Obj[e].filled \/ (x \in DOMAIN Index /\ e = Index[x] /\ f = v))
      BY <1>0, <1>1, <3>1, <3>3 DEF Stays
    <3>5. Meets(f)
      BY <1>0, <3>2, <3>4 DEF Writes
    <3>6. Meets(f)'
      BY <1>0, <1>2, <3>4, <3>5, MeetsAside
    <3> QED
      BY <3>3, <3>6 DEF Meets
  <2>3. Pc' = "sell" => Meets(job["loop"].ans.exec)'
    <3>1. PICK f : f = job["loop"].ans.exec
      OBVIOUS
    <3>2. ASSUME Pc' = "sell" PROVE Meets(f)'
      <4>1. f \in Nat /\ Meets(f)
        BY <1>0, <3>1, <3>2 DEF FillPart, NewBuys, Amounts, Actors
      <4> QED
        BY <1>0, <1>2, <4>1, MeetsAside
    <3>3. job'["loop"].ans.exec = f
      BY <1>0, <3>1
    <3> QED
      BY <3>2, <3>3 DEF Meets
  <2>4. ASSUME Hits("api")', IsBid(job["api"].hit)', NEW e \in InHand', Obj'[e].uuid = job'["api"].hit
        PROVE  e \in Range(Index')
    <3>1. PICK u : u = job["api"].hit
      OBVIOUS
    <3>2. Hits("api") /\ IsBid(u) /\ e \in InHand /\ Obj[e].uuid = u
      BY <1>0, <1>1, <1>3, <2>4, <3>1 DEF ApiHits, IsBid
    <3>3. e \in Range(Index)
      BY <3>1, <3>2 DEF FillPart, NewBuys
    <3>4. u \in DOMAIN Index /\ Index[u] = e
      BY <1>0, <3>2, <3>3 DEF Lists, Range
    <3>5. u \notin G
      BY <2>4 DEF Aside
    <3> QED
      BY <1>0, <3>4, <3>5 DEF Stays, Range
  <2> QED
    BY <2>1, <2>2, <2>3, <2>4 DEF NewBuys
<1> QED
  BY <1>1, <1>5, <1>6, <1>7, <1>8, <1>9, <1>10, <1>11 DEF FillPart

(***************************************************************************)
(* The loop's steps with an order of the list it goes through.             *)
(***************************************************************************)
LEMMA LoopSubmitsSells ==
    ASSUME Good, Good', FillPart, NEW d, On(d), Submit("loop", d)
    PROVE  FillPart'
<1>1. d \in DOMAIN Obj /\ Remaining(Obj[d]) \in Nat
  BY InHandHas, RemainingIsNat DEF On
<1>2. CASE Finish("loop") /\ Memory(RemoveOrder(mem, Obj[d].uuid))
  BY <1>2, LoopLoses
<1>3. CASE Finish("loop") /\ Memory(mem)
  BY <1>3, MemStays, LoopLets
<1>4. CASE Await("loop", "look", d, NoAnswer, Remaining(Obj[d])) /\ Memory(mem)
  <2>1. NoAnswer.exec \in Nat
    BY DEF NoAnswer
  <2> QED
    BY <1>1, <1>4, <2>1, MemStays, LoopWaits
<1> QED
  BY <1>2, <1>3, <1>4 DEF Submit, Obj

\* Nothing is done but to ask, or to note the answer.
LEMMA LoopAsks ==
    ASSUME Good, Good', FillPart, Quiet, job' = job, Free("loop"), loop.phase = "scan",
           loop'.phase = loop.phase, loop'.todo \subseteq loop.todo, Visited' = Visited, Stays({}, NoBuy, 0),
           \A d \in DOMAIN loop'.answers :
             loop'.answers[d].exec \in Nat /\ (loop'.answers[d] = NoAnswer \/ Tells(d, loop'.answers[d]))
    PROVE  FillPart'
<1>1. job["api"].n \in Nat /\ job["api"].ans.exec \in Nat /\ (job["api"].pc = "look" => job["api"].hit = Reserved)
  BY DEF FillPart, Amounts, Sides, Reached, Actors
<1>2. Aside({}, NoBuy, 0)
  BY <1>1, MemStays DEF Aside, ApiHits, Hits, Reached, Quiet
<1> QED
  BY <1>2, AsideKeeps

LEMMA AnswersTell ==
    ASSUME Good, FillPart, NEW d \in DOMAIN loop.answers
    PROVE  loop.answers[d].exec \in Nat /\ (loop.answers[d] = NoAnswer \/ Tells(d, loop.answers[d]))
  BY DEF FillPart, Amounts, SoldWithinAnswers, Tells

LEMMA ScanSells ==
    ASSUME Good, Good', FillPart, NEW d \in loop.todo, Scan(d)
    PROVE  FillPart'
<1> DEFINE e == mem.obj[d]
           visited == [loop EXCEPT !.todo = @ \ {d}]
<1>1. /\ loop.phase = "scan" /\ Free("loop") /\ ex' = ex /\ reserving' = reserving /\ orphaned' = orphaned
      /\ d \in Visited /\ e = Obj[d] /\ Shapes
  BY DEF Scan, bounds, hist, Visited, Obj, Good
<1>2. loop' = visited => On(d)
  BY <1>1, OnTodo
<1>3. CASE loop' = visited /\ job' = job /\ Memory(mem)
  BY <1>1, <1>2, <1>3, MemStays, LoopGoesBy
<1>4. CASE /\ loop' = visited
           /\ \/ job' = job /\ Memory(RemoveOrder(mem, e.uuid))
              \/ AwaitWith("loop", "ask", d, 0, Reserved, e.uuid) /\ Memory(mem)
  <2>1. CASE job' = job /\ Memory(RemoveOrder(mem, e.uuid))
    <3>1. Like(RemoveOrder(mem, e.uuid), {e.uuid}, NoBuy, 0)
      BY MemStays, LikeRemoved
    <3> QED
      BY <1>1, <1>2, <1>4, <2>1, <3>1, LoopGoesBy
  <2>2. CASE AwaitWith("loop", "ask", d, 0, Reserved, e.uuid) /\ Memory(mem)
    BY <1>1, <1>2, <1>4, <2>2, LoopWaitsWith
  <2> QED
    BY <1>4, <2>1, <2>2
<1>5. CASE /\ loop' = visited /\ job' = job
           /\ Memory(UpdateStatus(mem, e.uuid, IF Waiting(e) THEN "waiting" ELSE "placed"))
  <2>1. Like(UpdateStatus(mem, e.uuid, IF Waiting(e) THEN "waiting" ELSE "placed"), {}, NoBuy, 0)
    BY MemStays, LikeStatus
  <2> QED
    BY <1>1, <1>2, <1>5, <2>1, LoopGoesBy
<1>6. CASE loop' = visited /\ Submit("loop", d)
  BY <1>2, <1>6, LoopSubmitsSells
<1>7. CASE loop' = [visited EXCEPT !.asked = @ \cup {d}] /\ job' = job /\ Memory(mem)
  <2>1. /\ loop'.phase = loop.phase /\ loop'.todo = loop.todo \ {d} /\ loop'.asked = loop.asked \cup {d}
        /\ loop'.answers = loop.answers /\ DOMAIN loop' = LoopFields
    BY <1>1, <1>7 DEF Shapes, LoopFields
  <2>2. Visited' = Visited
    BY <1>1, <2>1 DEF Visited
  <2>3. Stays({}, NoBuy, 0) /\ Quiet
    BY <1>1, <1>7, <2>1, MemStays, StaysOf DEF Quiet
  <2> QED
    BY <1>1, <1>7, <2>1, <2>2, <2>3, AnswersTell, LoopAsks
<1> QED
  BY <1>3, <1>4, <1>5, <1>6, <1>7 DEF Scan

LEMMA QuerySells ==
    ASSUME Good, Good', FillPart, NEW d \in loop.asked, Query(d)
    PROVE  FillPart'
<1>1. PICK ans \in IF Has(mem, mem.obj[d].uuid) THEN Answers(mem.obj[d].uuid) ELSE {NoAnswer} :
        loop' = [loop EXCEPT !.asked = @ \ {d}, !.answers = Put(@, d, ans)]
  BY DEF Query
<1> DEFINE put == Put(loop.answers, d, ans)
<1>2. DOMAIN put = DOMAIN loop.answers \cup {d} /\ put[d] = ans
      /\ \A f \in DOMAIN loop.answers \ {d} : put[f] = loop.answers[f]
  BY DEF Put
<1> HIDE DEF put
<1>3. loop' = [loop EXCEPT !.asked = @ \ {d}, !.answers = put]
  BY <1>1 DEF put
<1>4. /\ loop'.phase = loop.phase /\ loop'.todo = loop.todo /\ loop'.asked = loop.asked \ {d}
      /\ loop'.answers = put /\ DOMAIN loop' = LoopFields
  BY <1>3 DEF Good, Shapes, LoopFields
<1>5. /\ loop.phase = "scan" /\ Free("loop") /\ ex' = ex /\ reserving' = reserving /\ orphaned' = orphaned
      /\ mem' = mem /\ job' = job
  BY DEF Query, bounds, hist
<1>6. Visited' = Visited /\ Quiet /\ d \in InHand
  BY <1>2, <1>4, <1>5 DEF Visited, Quiet, InHand
<1>7. ans \in Answers(Obj[d].uuid) /\ ans.exec \in Nat /\ (ans = NoAnswer \/ Tells(d, ans))
  <2>1. ans \in Answers(Obj[d].uuid)
    BY <1>1 DEF Answers, Obj
  <2>2. NoAnswer.exec \in Nat
    BY DEF NoAnswer
  <2> QED
    BY <1>6, <2>1, <2>2, AnswerTells DEF Tells
<1>8. \A f \in DOMAIN loop'.answers :
        loop'.answers[f].exec \in Nat /\ (loop'.answers[f] = NoAnswer \/ Tells(f, loop'.answers[f]))
  BY <1>2, <1>4, <1>7, AnswersTell
<1> QED
  BY <1>4, <1>5, <1>6, <1>8, SameStays, LoopAsks

LEMMA ForgottenSells ==
    ASSUME Good, Good', FillPart, NEW d \in DOMAIN loop.answers, Forgotten(d)
    PROVE  FillPart'
<1>1. On(d) /\ Free("loop")
  BY OnAnswer DEF Forgotten, bounds, hist
<1> QED
  BY <1>1, MemStays, LoopGoesBy DEF Forgotten

LEMMA UnansweredSells ==
    ASSUME Good, Good', FillPart, NEW d \in DOMAIN loop.answers, Unanswered(d)
    PROVE  FillPart'
<1>1. On(d) /\ Free("loop") /\ job' = job
  <2>1. orphaned \subseteq orphaned'
    BY DEF Unanswered
  <2> QED
    BY <2>1, OnAnswer DEF Unanswered, bounds
<1>2. PICK u : u = Obj[d].uuid
  OBVIOUS
<1>3. Memory(mem) \/ Memory(UpdateStatus(mem, u, "waiting")) \/ Memory(RemoveOrder(mem, u))
  BY <1>2 DEF Unanswered, Obj
<1>4. CASE Memory(mem)
  BY <1>1, <1>4, MemStays, LoopGoesBy
<1>5. CASE Memory(UpdateStatus(mem, u, "waiting"))
  <2>1. Like(UpdateStatus(mem, u, "waiting"), {}, NoBuy, 0)
    BY MemStays, LikeStatus
  <2> QED
    BY <1>1, <1>5, <2>1, LoopGoesBy
<1>6. CASE Memory(RemoveOrder(mem, u))
  <2>1. Like(RemoveOrder(mem, u), {u}, NoBuy, 0)
    BY MemStays, LikeRemoved
  <2> QED
    BY <1>1, <1>2, <1>6, <2>1, LoopGoesBy
<1> QED
  BY <1>3, <1>4, <1>5, <1>6

LEMMA ProcessSells ==
    ASSUME Good, Good', FillPart, NEW d \in DOMAIN loop.answers, Process(d)
    PROVE  FillPart'
<1>1. On(d)
  BY OnAnswer DEF Process, bounds, hist
<1>2. CASE AwaitWith("loop", "stop", d, 0, mem.obj[d].uuid, mem.obj[d].uuid) /\ Memory(mem)
  BY <1>1, <1>2, LoopWaitsWith
<1>3. CASE ProcessFill("loop", d, loop.answers[d])
  <2>1. Tells(d, loop.answers[d])
    BY AnswersTell DEF Process
  <2> QED
    BY <1>1, <1>3, <2>1, ProcessFillSells
<1> QED
  BY <1>2, <1>3 DEF Process

LEMMA RecoverSells ==
    ASSUME Good, Good', FillPart, NEW d \in loop.todo, Recover(d)
    PROVE  FillPart'
<1>1. On(d) /\ Free("loop") /\ d \in InHand
  BY OnTodo DEF Recover, bounds, hist, InHand, Visited
<1>2. IsBuy(d) /\ IsBid(Obj[d].uuid) /\ d \in DOMAIN Obj /\ Obj[d].filled \in Nat
  BY <1>1, InHandHas DEF Recover, FillPart, Recovering, Sides, Amounts
<1>3. PICK u : u = Obj[d].uuid
  OBVIOUS
<1>4. PICK s \in Nat : s = Sold(u)
  BY SoldIsNat DEF FillPart, Good, MemoryPart
<1>5. PICK ans \in IF Has(mem, u) THEN Answers(u) ELSE {NoAnswer} :
        \/ job' = job /\ Memory(mem)
        \/ /\ ans.exec > Obj[d].filled
           /\ job' = job /\ Memory(UpdateFill(mem, u, ans.exec))
        \/ /\ ans.exec > Obj[d].filled /\ s < ans.exec
           /\ Await("loop", "sell", d, ans, ans.exec - s) /\ Memory(mem)
  BY <1>3, <1>4 DEF Recover, Obj, Sold
<1>6. CASE job' = job /\ Memory(mem)
  BY <1>1, <1>6, MemStays, LoopGoesBy
<1>7. ans.exec > Obj[d].filled => ans \in Answers(Obj[d].uuid) /\ ans # NoAnswer
  BY <1>2, <1>3 DEF NoAnswer, Answers
<1>8. CASE ans.exec > Obj[d].filled /\ job' = job /\ Memory(UpdateFill(mem, u, ans.exec))
  <2>1. Tells(d, ans) /\ ans.exec \in Nat
    BY <1>1, <1>7, <1>8, AnswerTells DEF Tells
  <2>2. Writes(u, ans.exec) /\ Stays({}, u, ans.exec)
    BY <1>1, <1>3, <1>8, <2>1, ToldFill, LikeFill, StaysOf DEF Good, MemoryPart
  <2>3. job["loop"].ref = NoDict /\ job["loop"].pc = "free"
    BY <1>1 DEF Good, Shapes, Actors, Free
  <2>4. job["loop"].n \in Nat /\ job["loop"].ans.exec \in Nat
    BY DEF FillPart, Amounts, Actors
  <2>5. SellJob(d)
    BY <1>8, <2>3, <2>4 DEF SellJob, Creating
  <2>6. Turn(d, {}, u, ans.exec)
    BY <1>1, <1>8, <2>2, <2>5 DEF Turn, Writes
  <2> QED
    BY <2>6, TurnKeeps
<1>9. CASE /\ ans.exec > Obj[d].filled /\ s < ans.exec
           /\ Await("loop", "sell", d, ans, ans.exec - s) /\ Memory(mem)
  <2>1. Tells(d, ans) /\ ans.exec \in Nat
    BY <1>1, <1>7, <1>9, AnswerTells DEF Tells
  <2>2. ans.exec - s \in Nat /\ s + (ans.exec - s) <= ans.exec
    BY <1>4, <1>9, <2>1
  <2>3. ans.exec <= Bought(u) /\ Meets(ans.exec)
    BY <1>1, <1>2, <1>3, <1>9, <2>1, MoreFilled DEF Tells
  <2> QED
    BY <1>1, <1>2, <1>3, <1>4, <1>9, <2>1, <2>2, <2>3, MemStays, LoopWaits
<1> QED
  BY <1>5, <1>6, <1>8, <1>9

(***************************************************************************)
(* The steps of a request.                                                 *)
(***************************************************************************)
LEMMA ApiStops ==
    ASSUME Good, Good', FillPart, ex' = ex, orphaned \subseteq orphaned', loop' = loop, Finish("api"),
           NEW m, NEW G, NEW x, NEW v, Like(m, G, x, v), Memory(m), Writes(x, v)
    PROVE  FillPart'
<1>1. job'["api"] = NoJob /\ job'["loop"] = job["loop"]
  BY FinishIs DEF Good, Goes, Actors
<1>2. Stays(G, x, v) /\ Visited' = Visited /\ ~Hits("api")' /\ Free("api")'
  BY <1>1, StaysOf, NoJobSells DEF Visited, Hits, Reached, Free
<1>3. Aside(G, x, v)
  BY <1>1, <1>2, NoJobSells, AnswersTell DEF Aside, ApiHits
<1> QED
  BY <1>3, AsideKeeps

LEMMA ApiLets ==
    ASSUME Good, Good', FillPart, ex' = ex, orphaned \subseteq orphaned', loop' = loop, Finish("api"),
           NEW u, Memory(mem) \/ Memory(RemoveOrder(mem, u))
    PROVE  FillPart'
<1>1. Like(RemoveOrder(mem, u), {u}, NoBuy, 0)
  BY MemStays, LikeRemoved
<1>2. CASE Memory(mem)
  BY <1>2, MemStays, ApiStops
<1>3. CASE Memory(RemoveOrder(mem, u))
  BY <1>1, <1>3, MemStays, ApiStops
<1> QED
  BY <1>2, <1>3

LEMMA ApiWaits ==
    ASSUME Good, Good', FillPart, ex' = ex, orphaned \subseteq orphaned', loop' = loop,
           NEW pc, NEW d, Goes("api", pc, d), job'["api"].n \in Nat, job'["api"].ans.exec \in Nat,
           loop.phase = "recover" => Idle \/ ~Free("api"), Stays({}, NoBuy, 0)
    PROVE  FillPart'
<1>1. job'["loop"] = job["loop"] /\ job'["api"].hit = Reserved
  BY DEF Goes, Actors
<1>2. Visited' = Visited /\ ~Hits("api")' /\ (Idle' <=> Idle)
  BY <1>1 DEF Visited, Hits, Reached, Idle, Free
<1>3. loop.phase = "recover" => Idle'
  BY <1>2 DEF FillPart, Recovering
<1>4. Aside({}, NoBuy, 0)
  BY <1>1, <1>2, <1>3, MemStays, AnswersTell DEF Aside, ApiHits
<1> QED
  BY <1>4, AsideKeeps

LEMMA AwaitHas ==
    ASSUME Good, NEW a \in Actors, NEW pc, NEW d, NEW ans, NEW n, Await(a, pc, d, ans, n)
    PROVE  Goes(a, pc, d) /\ job'[a].ans = ans /\ job'[a].n = n
  BY AwaitIs DEF Await, NoJob, Good, Shapes

LEMMA AwaitWithHas ==
    ASSUME Good, NEW a \in Actors, NEW pc, NEW d, NEW n, NEW u, NEW own, AwaitWith(a, pc, d, n, u, own)
    PROVE  Goes(a, pc, d) /\ job'[a].ans = NoAnswer /\ job'[a].n = n
  BY AwaitWithIs DEF AwaitWith, NoJob, Good, Shapes

LEMMA ApiGoesOn ==
    ASSUME Good, Good', FillPart, ex' = ex, orphaned' = orphaned, loop' = loop, mem' = mem,
           NEW pc, job' = [job EXCEPT !["api"].pc = pc],
           \/ job["api"].pc = "look" /\ pc = "create"
           \/ job["api"].pc = "cancel" /\ pc = "recheck"
    PROVE  FillPart'
<1>1. /\ Continues("api", pc) /\ job'["api"].hit = job["api"].hit /\ job'["api"].n = job["api"].n
      /\ job'["loop"] = job["loop"] /\ job'["api"].ans = job["api"].ans /\ job'["api"].pc = pc
  BY NewPcIs, NewPcHas DEF Actors, Continues
<1>2. job["api"].n \in Nat /\ job["api"].ans.exec \in Nat /\ (job["api"].pc = "look" => job["api"].hit = Reserved)
  BY DEF FillPart, Amounts, Sides, Reached, Actors
<1>3. Visited' = Visited /\ ~Hits("api")' /\ (Idle' <=> Idle) /\ ~Free("api")
  BY <1>1, <1>2 DEF Visited, Hits, Reached, Idle, Free
<1>4. loop.phase = "recover" => Idle'
  BY <1>3 DEF FillPart, Recovering
<1>5. Aside({}, NoBuy, 0)
  BY <1>1, <1>2, <1>3, <1>4, MemStays, SameStays, AnswersTell DEF Aside, ApiHits
<1> QED
  BY <1>5, AsideKeeps

LEMMA ApiCreatesSells == ASSUME Good, Good', FillPart, NoOpenOrder("api") PROVE FillPart'
  BY ApiGoesOn DEF NoOpenOrder, hist

LEMMA ApiRechecksSells == ASSUME Good, Good', FillPart, CancelFails("api") PROVE FillPart'
  BY ApiGoesOn DEF CancelFails, hist

LEMMA ApiCancelAcceptedSells == ASSUME Good, Good', FillPart, CancelAccepted("api") PROVE FillPart'
  BY ApiLets DEF CancelAccepted

LEMMA ApiRecheckSells == ASSUME Good, Good', FillPart, Recheck("api") PROVE FillPart'
<1>1. Finish("api") /\ (Memory(mem) \/ Memory(RemoveOrder(mem, job["api"].u)))
  BY DEF Recheck
<1> QED
  BY <1>1, ApiLets DEF Recheck

LEMMA ApiSubmitFailsSells == ASSUME Good, Good', FillPart, SubmitFails("api") PROVE FillPart'
<1>1. Finish("api") /\ (Memory(mem) \/ Memory(RemoveOrder(mem, Ord("api").uuid)))
  BY DEF SubmitFails
<1>2. ex' = ex /\ orphaned \subseteq orphaned' /\ loop' = loop
  BY DEF SubmitFails
<1> QED
  BY <1>1, <1>2, ApiLets

LEMMA CancelRequestSells == ASSUME Good, Good', FillPart, NEW u, CancelRequest(u) PROVE FillPart'
<1>1. Goes("api", "cancel", mem.index[u]) /\ job'["api"].ans = NoAnswer /\ job'["api"].n = 0
  BY AwaitWithHas DEF CancelRequest, Actors
<1>2. NoAnswer.exec \in Nat /\ Stays({}, NoBuy, 0)
  BY MemStays, StaysOf DEF NoAnswer, CancelRequest
<1>3. ex' = ex /\ orphaned' = orphaned /\ loop' = loop /\ (loop.phase = "recover" => Idle)
  BY DEF CancelRequest, Accept, hist
<1> QED
  BY <1>1, <1>2, <1>3, ApiWaits

LEMMA SubmitOnRequestSells == ASSUME Good, Good', FillPart, SubmitOnRequest PROVE FillPart'
<1> DEFINE d == job["api"].ref
           n == Remaining(Obj[d])
<1>1. d \in DOMAIN Obj /\ ~Free("api")
  BY DEF Good, Shapes, Actors, SubmitOnRequest, MemoryPart, Dictionaries, Held, Free
<1>2. ex' = ex /\ orphaned' = orphaned /\ loop' = loop
  BY DEF SubmitOnRequest, hist
<1>3. CASE Finish("api") /\ (Memory(mem) \/ Memory(RemoveOrder(mem, Obj[d].uuid)))
  BY <1>2, <1>3, ApiLets
<1>4. CASE Await("api", "look", d, NoAnswer, n) /\ Memory(mem)
  <2>1. Goes("api", "look", d) /\ job'["api"].ans = NoAnswer /\ job'["api"].n = n
    BY <1>4, AwaitHas DEF Actors
  <2>2. NoAnswer.exec \in Nat /\ Stays({}, NoBuy, 0) /\ n \in Nat
    BY <1>1, <1>4, MemStays, StaysOf, RemainingIsNat DEF NoAnswer
  <2> QED
    BY <1>1, <1>2, <2>1, <2>2, ApiWaits
<1> QED
  BY <1>3, <1>4 DEF SubmitOnRequest, Submit, Ord, Obj

LEMMA QueryOnRequestSells == ASSUME Good, Good', FillPart, QueryOnRequest PROVE FillPart'
<1>1. PICK u : u = job["api"].u
  OBVIOUS
<1>2. ex' = ex /\ orphaned' = orphaned /\ loop' = loop /\ ~Hits("api")
  BY DEF QueryOnRequest, Hits
<1>3. PICK ans \in Answers(u) :
        /\ Finish("api")
        /\ \/ Memory(mem) \/ Memory(RemoveOrder(mem, u))
           \/ ans.state \in {"wait", "partial"} /\ Memory(UpdateFill(mem, u, ans.exec))
  BY <1>1 DEF QueryOnRequest
<1>4. CASE Memory(mem) \/ Memory(RemoveOrder(mem, u))
  BY <1>2, <1>3, <1>4, ApiLets
<1>5. CASE ans.state \in {"wait", "partial"} /\ Memory(UpdateFill(mem, u, ans.exec))
  <2>1. CASE u \notin DOMAIN Index
    <3>1. Memory(mem)
      BY <1>5, <2>1 DEF UpdateFill, Has, Index
    <3> QED
      BY <1>2, <1>3, <3>1, ApiLets
  <2>2. CASE u \in DOMAIN Index
    <3>1. u \in AnyUuid /\ ans # NoAnswer
      BY <1>5, <2>2 DEF Good, MemoryPart, Lists, NoAnswer
    <3>2. u \in Uuids /\ ans = Answer(u)
      BY <1>3, <3>1 DEF Answers, Answer, AnyUuid
    <3>3. ans.exec = ex[u].exec
      BY <3>1, <3>2 DEF Answer
    <3>4. ans.exec \in Nat /\ (IsBid(u) => Sold(u) <= ans.exec)
      BY <3>1, <3>2, <3>3 DEF FillPart, Amounts, SoldWithinBought, Bought
    <3>5. Writes(u, ans.exec)
      BY <1>2, <3>4 DEF Writes, Meets
    <3>6. Like(UpdateFill(mem, u, ans.exec), {}, u, ans.exec)
      BY LikeFill DEF Good, MemoryPart
    <3> QED
      BY <1>2, <1>3, <1>5, <3>5, <3>6, ApiStops
  <2> QED
    BY <2>1, <2>2
<1> QED
  BY <1>3, <1>4, <1>5

(***************************************************************************)
(* A reload puts new dicts in the list, for the same orders.               *)
(***************************************************************************)
Renews ==
    /\ DOMAIN Index' = DOMAIN Index
    /\ \A u \in DOMAIN Index :
         /\ SameOrder(Obj'[Index'[u]], Obj[Index[u]])
         /\ Obj'[Index'[u]].filled = Obj[Index[u]].filled
    /\ \A d \in DOMAIN Obj' \ Range(Index') : d \in DOMAIN Obj /\ Obj'[d] = Obj[d]

LEMMA RenewsOf ==
    ASSUME Lists, Dictionaries, NEW asked, Memory(Reload(mem, Held, asked))
    PROVE  Renews
<1> DEFINE m == Reload(mem, Held, asked)
<1>1. Index' = m.index /\ \A d \in DOMAIN Obj' : Obj'[d] = m.obj[d]
  BY MemoryIs
<1>2. /\ m.index = NewIndex
      /\ \A u \in DOMAIN Index :
           m.obj[NewIndex[u]] =
             IF u \in asked THEN [Obj[Index[u]] EXCEPT !.status = "cancel_requested"] ELSE Obj[Index[u]]
  BY ReloadReads
<1> HIDE DEF m
<1>3. Reloads /\ Index' = NewIndex
  BY ReloadsOf
<1>4. ASSUME NEW u \in DOMAIN Index
      PROVE  SameOrder(Obj'[Index'[u]], Obj[Index[u]]) /\ Obj'[Index'[u]].filled = Obj[Index[u]].filled
  <2> DEFINE e == Obj[Index[u]]
  <2>1. DOMAIN e = EntryFields
    BY DEF Lists
  <2>2. Index'[u] \in Range(Index') /\ Index'[u] \in DOMAIN Obj'
    BY <1>3 DEF Range, Reloads
  <2>3. Obj'[Index'[u]] = IF u \in asked THEN [e EXCEPT !.status = "cancel_requested"] ELSE e
    BY <1>1, <1>2, <1>3, <2>2
  <2> HIDE DEF e
  <2>4. SameOrder(Obj'[Index'[u]], e) /\ Obj'[Index'[u]].filled = e.filled
    BY <2>1, <2>3 DEF EntryFields, SameOrder
  <2> QED
    BY <2>4 DEF e
<1> QED
  BY <1>3, <1>4 DEF Renews, Reloads

LEMMA RenewsKeeps ==
    ASSUME Lists, Lists', FillPart, Renews, ex' = ex, orphaned' = orphaned
    PROVE  /\ \A d \in DOMAIN Obj' :
                /\ Obj'[d].vol \in Nat /\ Obj'[d].filled \in Nat
                /\ IsBuy(d)' <=> IsBid(Obj'[d].uuid)
           /\ \A b : Sold(b)' \in Nat /\ Sold(b)' <= Sold(b) /\ Sold(b) \in Nat
           /\ SoldWithinBought' /\ SoldWithinFill'
           /\ \A d \in ListedBuys' : \E u \in DOMAIN Index :
                d = Index'[u] /\ Index[u] \in ListedBuys /\ Obj'[d].filled = Obj[Index[u]].filled
<1>0. Amounts /\ Sides /\ SoldWithinBought /\ SoldWithinFill
  BY DEF FillPart
<1>1. ASSUME NEW u \in DOMAIN Index
      PROVE  /\ u \in DOMAIN Index' /\ Index[u] \in DOMAIN Obj /\ Index'[u] \in DOMAIN Obj'
             /\ SameOrder(Obj'[Index'[u]], Obj[Index[u]])
             /\ Obj'[Index'[u]].filled = Obj[Index[u]].filled
  BY DEF Renews, Lists
<1>2. ASSUME NEW b PROVE Sold(b)' \in Nat /\ Sold(b)' <= Sold(b) /\ Sold(b) \in Nat
  <2>1. ASSUME NEW u \in LinkedSells(mem', b)
        PROVE  u \in LinkedSells(mem, b) /\ At(mem', u).vol = At(mem, u).vol
    <3>1. u \in DOMAIN Index' /\ Obj'[Index'[u]].kind = "sell" /\ Obj'[Index'[u]].of = b
      BY DEF LinkedSells, At, Index, Obj
    <3>2. u \in DOMAIN Index /\ SameOrder(Obj'[Index'[u]], Obj[Index[u]])
      BY <3>1 DEF Renews
    <3> QED
      BY <3>1, <3>2 DEF SameOrder, LinkedSells, At, Index, Obj
  <2>2. Volumes(mem, b) /\ Sold(b) \in Nat
    BY <1>0, SoldIsNat
  <2>3. Volumes(mem', b) /\ LinkedVolume(mem', b) <= LinkedVolume(mem, b)
    BY <2>1, <2>2, VolumeShrinks
  <2> QED
    BY <2>2, <2>3, VolumeIsNat DEF Sold
<1>3. ASSUME NEW d \in DOMAIN Obj'
      PROVE  /\ Obj'[d].vol \in Nat /\ Obj'[d].filled \in Nat
             /\ IsBuy(d)' <=> IsBid(Obj'[d].uuid)
  <2>1. PICK c \in DOMAIN Obj : SameOrder(Obj'[d], Obj[c]) /\ Obj'[d].filled = Obj[c].filled
    <3>1. CASE d \in Range(Index')
      <4>1. PICK u \in DOMAIN Index' : d = Index'[u]
        BY <3>1 DEF Range
      <4> QED
        BY <1>1, <4>1 DEF Renews
    <3>2. CASE d \notin Range(Index')
      BY <3>2 DEF Renews, SameOrder
    <3> QED
      BY <3>1, <3>2
  <2> QED
    BY <1>0, <2>1 DEF Amounts, Sides, SameOrder, IsBuy
<1>4. SoldWithinBought'
  <2>1. ASSUME NEW b \in AnyUuid, IsBid(b)' PROVE Sold(b)' <= Bought(b)'
    <3>1. IsBid(b) /\ Bought(b)' = Bought(b) /\ Bought(b) \in Nat
      BY <1>0, <2>1 DEF IsBid, Bought, Amounts
    <3>2. Sold(b) <= Bought(b)
      BY <1>0, <3>1 DEF SoldWithinBought
    <3> QED
      BY <1>2, <3>1, <3>2
  <2> QED
    BY <2>1 DEF SoldWithinBought
<1>5. SoldWithinFill'
  <2>1. ASSUME NEW b \in DOMAIN Index', IsBid(b)', b \notin orphaned'
        PROVE  Sold(b)' <= Obj'[Index'[b]].filled
    <3>1. b \in DOMAIN Index /\ Obj'[Index'[b]].filled = Obj[Index[b]].filled /\ Obj[Index[b]].filled \in Nat
      BY <1>0, <1>1 DEF Renews, Amounts
    <3>2. IsBid(b) /\ b \notin orphaned
      BY <2>1 DEF IsBid
    <3>3. Sold(b) <= Obj[Index[b]].filled
      BY <1>0, <3>1, <3>2 DEF SoldWithinFill, At, Index, Obj
    <3> QED
      BY <1>2, <3>1, <3>3
  <2> QED
    BY <2>1 DEF SoldWithinFill, At, Index, Obj
<1>6. ASSUME NEW d \in ListedBuys'
      PROVE  \E u \in DOMAIN Index :
               d = Index'[u] /\ Index[u] \in ListedBuys /\ Obj'[d].filled = Obj[Index[u]].filled
  <2>1. PICK u \in DOMAIN Index' : d = Index'[u]
    BY DEF ListedBuys, Range
  <2>2. u \in DOMAIN Index /\ IsBuy(d)'
    BY DEF Renews, ListedBuys
  <2>3. IsBuy(Index[u]) /\ Index[u] \in Range(Index)
    BY <1>1, <2>1, <2>2 DEF SameOrder, IsBuy, Range
  <2> QED
    BY <1>1, <2>1, <2>2, <2>3 DEF ListedBuys
<1> QED
  BY <1>2, <1>3, <1>4, <1>5, <1>6

\* Of the buys on the list after a reload too there is one.
LEMMA RenewsOne ==
    ASSUME OneBuy,
           \A d \in ListedBuys' : \E u \in DOMAIN Index :
             d = Index'[u] /\ Index[u] \in ListedBuys /\ Obj'[d].filled = Obj[Index[u]].filled,
           Lists
    PROVE  \A d \in ListedBuys', e \in ListedBuys' : d = e
<1> SUFFICES ASSUME NEW d \in ListedBuys', NEW e \in ListedBuys' PROVE d = e
  OBVIOUS
<1>1. PICK u \in DOMAIN Index : d = Index'[u] /\ Index[u] \in ListedBuys
  OBVIOUS
<1>2. PICK v \in DOMAIN Index : e = Index'[v] /\ Index[v] \in ListedBuys
  OBVIOUS
<1>3. Index[u] = Index[v]
  BY <1>1, <1>2 DEF OneBuy
<1>4. u = v
  BY <1>3 DEF Lists
<1> QED
  BY <1>1, <1>2, <1>4

LEMMA NoHitsMeets == ASSUME ~Hits("api")', NEW v PROVE Meets(v)'
  BY DEF Meets

LEMMA SyncRequestSells ==
    ASSUME Good, Good', FillPart, NEW u, SyncRequest(u)
    PROVE  FillPart'
<1> DEFINE m == Reload(mem, Held, {})
<1>1. /\ loop' = loop /\ Free("api") /\ ex' = ex /\ orphaned' = orphaned
      /\ loop.phase = "recover" => Idle
      /\ Memory(m) /\ Lists /\ Lists' /\ Dictionaries
  BY DEF SyncRequest, Accept, hist, Good, MemoryPart
<1>2. \/ job' = job
      \/ Await("api", "submit", m.index[u], NoAnswer, 0)
      \/ AwaitWith("api", "query", m.index[u], 0, u, u)
  BY DEF SyncRequest
<1>3. Reloads /\ Renews
  BY <1>1, ReloadsOf, RenewsOf
<1> HIDE DEF m
<1>4. /\ job'["loop"] = job["loop"] /\ ~Hits("api")' /\ job'["api"].pc # "look"
      /\ job'["api"].n \in Nat /\ job'["api"].ans.exec \in Nat
  <2>0. NoAnswer.exec = 0
    BY DEF NoAnswer
  <2>1. CASE job' = job
    BY <1>1, <2>1 DEF Free, Hits, FillPart, Amounts, Actors
  <2>2. CASE Await("api", "submit", m.index[u], NoAnswer, 0)
    <3>1. Goes("api", "submit", m.index[u]) /\ job'["api"].ans = NoAnswer /\ job'["api"].n = 0
      BY <2>2, AwaitHas DEF Actors
    <3> QED
      BY <2>0, <3>1 DEF Goes, Actors, Hits
  <2>3. CASE AwaitWith("api", "query", m.index[u], 0, u, u)
    <3>1. Goes("api", "query", m.index[u]) /\ job'["api"].ans = NoAnswer /\ job'["api"].n = 0
      BY <2>3, AwaitWithHas DEF Actors
    <3> QED
      BY <2>0, <3>1 DEF Goes, Actors, Hits
  <2> QED
    BY <1>2, <2>1, <2>2, <2>3
<1>5. /\ \A d \in DOMAIN Obj' :
           /\ Obj'[d].vol \in Nat /\ Obj'[d].filled \in Nat
           /\ IsBuy(d)' <=> IsBid(Obj'[d].uuid)
      /\ \A b : Sold(b)' \in Nat /\ Sold(b)' <= Sold(b) /\ Sold(b) \in Nat
      /\ SoldWithinBought' /\ SoldWithinFill'
      /\ \A d \in ListedBuys', e \in ListedBuys' : d = e
  BY <1>1, <1>3, RenewsKeeps, RenewsOne DEF FillPart
<1>6. Ref' = Ref /\ Pc' = Pc /\ Visited' = Visited /\ InHand' = InHand
  BY <1>1, <1>4 DEF Ref, Pc, Visited, InHand
<1>7. ASSUME NEW d \in InHand PROVE d \in DOMAIN Obj /\ Obj'[d] = Obj[d]
  <2>1. d \in DOMAIN Obj' /\ d \in Held
    BY <1>6, InHandStaysKnown DEF Good, MemoryPart, InHand, Held, Visited, Ref, Actors
  <2>2. d \notin Range(Index')
    BY <1>3, <2>1 DEF Reloads, Range
  <2> QED
    BY <1>3, <2>1, <2>2 DEF Renews
<1>8. Amounts'
  BY <1>1, <1>4, <1>5 DEF FillPart, Amounts, Actors
<1>9. Sides'
  <2>1. ASSUME NEW a \in Actors, Hits(a)' PROVE (IsBid(job[a].hit) <=> IsBuy(job[a].ref))'
    <3>1. a = "loop" /\ Hits("loop")
      BY <1>4, <2>1 DEF Actors, Hits, Reached
    <3>2. Ref \in InHand
      BY <3>1 DEF Good, Shapes, Actors, Hits, InHand, Ref
    <3> QED
      BY <1>1, <1>4, <1>6, <1>7, <3>1, <3>2 DEF FillPart, Sides, IsBid, IsBuy, Ref, Actors
  <2>2. \A a \in Actors : (job[a].pc = "look" => ~Reached(a))'
    BY <1>4 DEF FillPart, Sides, Reached, Actors
  <2>3. Pc' \in {"sell", "place"} /\ Reached("loop")' => ~IsBid(job["loop"].hit)'
    BY <1>1, <1>4, <1>6 DEF FillPart, Sides, Reached, IsBid
  <2>4. \A d \in DOMAIN Obj' : (IsBuy(d) <=> IsBid(Obj[d].uuid))'
    BY <1>1, <1>5 DEF IsBuy, IsBid
  <2> QED
    BY <2>1, <2>2, <2>3, <2>4 DEF Sides, IsBuy, IsBid, Hits, Reached
<1>10. OneBuy'
  <2>1. BuysInHand' \subseteq BuysInHand
    BY <1>6, <1>7 DEF BuysInHand, IsBuy
  <2> QED
    BY <1>5, <2>1 DEF OneBuy, FillPart
<1>11. Recovering'
  <2>1. Idle' <=> Idle
    BY <1>1, <1>4 DEF Idle, Free
  <2>2. \A d \in loop.todo : IsBuy(d)' <=> IsBuy(d)
    BY <1>7 DEF IsBuy, InHand, Visited
  <2> QED
    BY <1>1, <2>1, <2>2 DEF FillPart, Recovering
<1>12. SoldWithinAnswers'
  <2>1. ASSUME NEW e \in DOMAIN loop.answers, IsBid(Obj[e].uuid)', loop.answers[e] # NoAnswer
        PROVE  /\ Sold(Obj[e].uuid)' <= loop.answers[e].exec
               /\ loop.answers[e].exec <= Bought(Obj[e].uuid)'
    <3>1. PICK b : b = Obj[e].uuid
      OBVIOUS
    <3>2. Obj'[e].uuid = b
      BY <1>7, <3>1 DEF InHand, Visited
    <3>3. IsBid(b) /\ Bought(b)' = Bought(b)
      BY <1>1, <2>1, <3>2 DEF IsBid, Bought
    <3>4. Sold(b) <= loop.answers[e].exec /\ loop.answers[e].exec <= Bought(b) /\ loop.answers[e].exec \in Nat
      BY <2>1, <3>1, <3>3 DEF FillPart, SoldWithinAnswers, Amounts
    <3>5. Sold(b)' <= loop.answers[e].exec
      BY <1>5, <3>4
    <3> QED
      BY <3>2, <3>3, <3>4, <3>5 DEF Sold, Bought
  <2> QED
    BY <1>1, <2>1 DEF SoldWithinAnswers
<1>13. Selling'
  <2>1. ASSUME Pc' = "sell"
        PROVE  /\ IsBuy(Ref)'
               /\ Sold(Obj[Ref].uuid)' + job["loop"].n <= job["loop"].ans.exec
               /\ job["loop"].ans.exec <= Bought(Obj[Ref].uuid)'
    <3>1. PICK b : b = Obj[Ref].uuid
      OBVIOUS
    <3>2. /\ IsBuy(Ref) /\ Sold(b) + job["loop"].n <= job["loop"].ans.exec /\ job["loop"].ans.exec <= Bought(b)
          /\ job["loop"].n \in Nat /\ job["loop"].ans.exec \in Nat
      BY <1>6, <2>1, <3>1 DEF FillPart, Selling, Amounts, Actors
    <3>3. Ref \in InHand
      BY <1>6, <2>1 DEF Good, Shapes, Actors, Pc, Ref, InHand
    <3>4. IsBuy(Ref)' /\ Obj'[Ref].uuid = b /\ Bought(b)' = Bought(b)
      BY <1>1, <1>6, <1>7, <3>1, <3>2, <3>3 DEF Bought, IsBuy
    <3>5. Sold(b)' + job["loop"].n <= job["loop"].ans.exec
      BY <1>5, <3>2
    <3> QED
      BY <1>6, <3>2, <3>4, <3>5 DEF IsBuy, Sold, Bought
  <2> QED
    BY <1>4, <2>1 DEF Selling
<1>14. NewBuys'
  <2>1. Hits("loop")' /\ IsBid(job["loop"].hit)' => Sold(job["loop"].hit)' = 0
    <3>1. PICK w : w = job["loop"].hit
      OBVIOUS
    <3>2. Hits("loop") /\ IsBid(w) => Sold(w) = 0
      BY <3>1 DEF FillPart, NewBuys
    <3>3. Hits("loop")' /\ IsBid(w)' => Hits("loop") /\ IsBid(w)
      BY <1>1, <1>4 DEF Hits, Reached, IsBid
    <3>4. Sold(w)' \in Nat /\ Sold(w)' <= Sold(w)
      BY <1>5
    <3>5. Hits("loop")' /\ IsBid(w)' => Sold(w)' = 0
      BY <3>2, <3>3, <3>4
    <3>6. job'["loop"].hit = w
      BY <1>4, <3>1
    <3> QED
      BY <3>5, <3>6 DEF Sold, IsBid
  <2>2. \A d : Meets(Obj[d].filled)'
    BY <1>4, NoHitsMeets
  <2>3. Meets(job["loop"].ans.exec)'
    BY <1>4, NoHitsMeets
  <2> QED
    BY <1>4, <2>1, <2>2, <2>3 DEF NewBuys
<1> QED
  BY <1>5, <1>8, <1>9, <1>10, <1>11, <1>12, <1>13, <1>14 DEF FillPart

LEMMA StartCycleSells == ASSUME Good, Good', FillPart, StartCycle PROVE FillPart'
<1>1. PICK asked : /\ Memory(Reload(mem, Held, asked)) /\ job' = job
                   /\ loop' = [loop EXCEPT !.phase = "scan", !.todo = Range(Reload(mem, Held, asked).index)]
  BY DEF StartCycle
<1>2. Reloads /\ Renews /\ Reload(mem, Held, asked).index = Index' /\ Lists /\ Lists'
  BY <1>1, ReloadsOf, RenewsOf, ReloadReads DEF Good, MemoryPart
<1>3. /\ Free("loop") /\ loop.asked = {} /\ DOMAIN loop.answers = {} /\ ex' = ex /\ orphaned' = orphaned
  BY DEF StartCycle, Idle, hist
<1>4. loop'.phase = "scan" /\ loop'.todo = Range(Index') /\ loop'.asked = {} /\ DOMAIN loop'.answers = {}
  BY <1>1, <1>2, <1>3 DEF Good, Shapes, LoopFields
<1>5. /\ \A d \in DOMAIN Obj' :
           /\ Obj'[d].vol \in Nat /\ Obj'[d].filled \in Nat
           /\ IsBuy(d)' <=> IsBid(Obj'[d].uuid)
      /\ \A b : Sold(b)' \in Nat /\ Sold(b)' <= Sold(b) /\ Sold(b) \in Nat
      /\ SoldWithinBought' /\ SoldWithinFill'
      /\ \A d \in ListedBuys' : \E u \in DOMAIN Index :
           d = Index'[u] /\ Index[u] \in ListedBuys /\ Obj'[d].filled = Obj[Index[u]].filled
      /\ \A d \in ListedBuys', e \in ListedBuys' : d = e
  BY <1>2, <1>3, RenewsKeeps, RenewsOne DEF FillPart
<1>6. Ref' = NoDict /\ Pc' = "free" /\ InHand' = Range(Index')
  BY <1>1, <1>3, <1>4 DEF Free, Good, Shapes, Actors, Ref, Pc, Visited, InHand
<1>7. BuysInHand' \subseteq ListedBuys' /\ ListedBuys' \subseteq DOMAIN Obj'
  BY <1>2, <1>6 DEF BuysInHand, ListedBuys, Lists, Range
<1>8. Amounts'
  BY <1>1, <1>3, <1>4, <1>5 DEF FillPart, Amounts
<1>9. Sides'
  <2>1. ASSUME NEW a \in Actors, Hits(a)' PROVE (IsBid(job[a].hit) <=> IsBuy(job[a].ref))'
    <3>1. Hits(a) /\ job[a].ref # NoDict
      BY <1>1, <2>1 DEF Hits, Reached, Good, Shapes
    <3>2. job[a].ref \in Held /\ job[a].ref \in DOMAIN Obj'
      BY <1>1, <3>1 DEF Held, Good, MemoryPart, Dictionaries
    <3>3. job[a].ref \notin Range(Index')
      BY <1>2, <3>2 DEF Reloads, Range
    <3>4. Obj'[job[a].ref] = Obj[job[a].ref]
      BY <1>2, <3>2, <3>3 DEF Renews
    <3> QED
      BY <1>1, <1>3, <3>1, <3>4 DEF FillPart, Sides, IsBid, IsBuy
  <2>2. \A a \in Actors : (job[a].pc = "look" => ~Reached(a))'
    BY <1>1 DEF FillPart, Sides, Reached
  <2>3. \A d \in DOMAIN Obj' : (IsBuy(d) <=> IsBid(Obj[d].uuid))'
    BY <1>3, <1>5 DEF IsBuy, IsBid
  <2> QED
    BY <1>6, <2>1, <2>2, <2>3 DEF Sides, IsBuy, IsBid, Hits, Reached
<1>10. OneBuy'
  BY <1>5, <1>7 DEF OneBuy
<1>11. Recovering' /\ SoldWithinAnswers' /\ Selling'
  BY <1>4, <1>6 DEF Recovering, SoldWithinAnswers, Selling
<1>12. NewBuys'
  <2>1. ~Hits("loop")'
    BY <1>6 DEF Hits, Pc
  <2>2. ASSUME NEW d \in ListedBuys' PROVE Meets(Obj[d].filled)'
    <3>1. PICK u \in DOMAIN Index : Index[u] \in ListedBuys /\ Obj'[d].filled = Obj[Index[u]].filled
      BY <1>5
    <3>2. PICK f : f = Obj[Index[u]].filled
      OBVIOUS
    <3>3. f \in Nat /\ Meets(f)
      BY <1>2, <3>1, <3>2 DEF FillPart, NewBuys, Amounts, Lists
    <3>4. Meets(f)'
      BY <1>1, <1>3, <1>5, <3>3, MeetsLater
    <3> QED
      BY <3>1, <3>2, <3>4 DEF Meets
  <2> QED
    BY <1>6, <1>7, <2>1, <2>2 DEF NewBuys
<1> QED
  BY <1>5, <1>8, <1>9, <1>10, <1>11, <1>12 DEF FillPart

LEMMA CrashSells == ASSUME Good, Good', FillPart, Crash PROVE FillPart'
<1>1. /\ loop'.todo = {Index[u] : u \in {v \in DOMAIN Index : At(mem, v).kind = "buy"}}
      /\ loop'.asked = {} /\ loop'.answers = <<>>
      /\ job' = [a \in Actors |-> NoJob]
      /\ orphaned \subseteq orphaned' /\ Memory(mem) /\ ex' = ex
  BY DEF Crash, Index
<1>2. Stays({}, NoBuy, 0) /\ Writes(NoBuy, 0) /\ Lists /\ Lists'
  BY <1>1, MemStays, StaysOf DEF Good, MemoryPart
<1>3. /\ \A d \in DOMAIN Obj' :
           /\ d \in DOMAIN Obj /\ Obj'[d].uuid = Obj[d].uuid
           /\ Obj'[d].vol \in Nat /\ Obj'[d].filled \in Nat
           /\ IsBuy(d)' <=> IsBuy(d)
           /\ IsBuy(d)' <=> IsBid(Obj[d].uuid)'
      /\ ListedBuys' \subseteq ListedBuys
      /\ SoldWithinBought' /\ SoldWithinFill'
  BY <1>1, <1>2, StaysKeeps DEF Writes
<1>4. \A a \in Actors : ~Hits(a)' /\ job'[a] = NoJob
  BY <1>1, NoJobSells DEF Hits, Reached
<1>5. DOMAIN loop'.answers = {} /\ Ref' = NoDict /\ Pc' = "free"
  BY <1>1, <1>4, NoJobSells DEF Actors, Ref, Pc
<1>6. ASSUME NEW d \in loop'.todo PROVE d \in Range(Index') /\ IsBuy(d)'
  <2>1. PICK u \in DOMAIN Index : d = Index[u] /\ IsBuy(Index[u])
    BY <1>1 DEF At, IsBuy, Index, Obj
  <2>2. u \in DOMAIN Index' /\ Index'[u] = d
    BY <1>2, <2>1 DEF Stays
  <2> QED
    BY <1>2, <1>3, <2>1, <2>2 DEF Lists, Range
<1>7. InHand' = loop'.todo /\ BuysInHand' \subseteq ListedBuys'
  <2>1. InHand' = loop'.todo
    BY <1>1, <1>5 DEF InHand, Visited
  <2> QED
    BY <1>6, <2>1 DEF BuysInHand, ListedBuys
<1>8. Amounts'
  BY <1>1, <1>3, <1>4, <1>5, NoJobSells DEF FillPart, Amounts
<1>9. Sides'
  <2>1. \A d \in DOMAIN Obj' : (IsBuy(d) <=> IsBid(Obj[d].uuid))'
    BY <1>3 DEF IsBuy, IsBid
  <2> QED
    BY <1>4, <1>5, <2>1, NoJobSells DEF Sides, IsBuy, IsBid, Hits, Reached
<1>10. OneBuy'
  BY <1>3, <1>7 DEF OneBuy, FillPart
<1>11. Recovering' /\ SoldWithinAnswers' /\ Selling'
  <2>1. Free("api")'
    BY <1>4, NoJobSells DEF Free, Actors
  <2> QED
    BY <1>5, <1>6, <2>1 DEF Recovering, SoldWithinAnswers, Selling
<1>12. NewBuys'
  <2>1. ~Hits("api")' /\ ~Hits("loop")'
    BY <1>4 DEF Actors
  <2>2. \A d : Meets(Obj[d].filled)'
    BY <2>1, NoHitsMeets
  <2> QED
    BY <1>5, <2>1, <2>2 DEF NewBuys
<1> QED
  BY <1>3, <1>8, <1>9, <1>10, <1>11, <1>12 DEF FillPart

(***************************************************************************)
(* The exchange's turns: its orders fill, and a new one may come.          *)
(***************************************************************************)
LEMMA ExchangeSells ==
    ASSUME Good, Good', FillPart, mem' = mem, loop' = loop, orphaned' = orphaned,
           \A a \in Actors :
             job'[a].pc = job[a].pc /\ job'[a].ref = job[a].ref /\ job'[a].ans = job[a].ans /\ job'[a].n = job[a].n,
           NEW G \in SUBSET Uuids,
           \A u \in G : ex[u].state = "none",
           \A u \in Uuids \ G : ex'[u].side = ex[u].side /\ ex[u].exec <= ex'[u].exec,
           \A u \in Uuids :
             /\ DOMAIN ex'[u] = OrderFields /\ ex'[u].exec \in Nat
             /\ ex'[u].state = "none" => ex'[u].side = "bid" /\ ex'[u].exec = 0,
           \A a \in Actors : job[a].pc = "look" => job'[a].hit = job[a].hit,
           \A a \in Actors :
             Hits(a)' => \/ Hits(a) /\ job'[a].hit = job[a].hit
                         \/ job'[a].hit \in G /\ (ex'[job'[a].hit].side = "bid" <=> IsBuy(job[a].ref)),
           Pc \in {"sell", "place"} =>
             \/ job'["loop"].hit = job["loop"].hit
             \/ job'["loop"].hit \in G /\ ex'[job'["loop"].hit].side # "bid"
    PROVE  FillPart'
<1>0. /\ Index' = Index /\ Obj' = Obj /\ Lists /\ Ref' = Ref /\ Pc' = Pc
      /\ Visited' = Visited /\ InHand' = InHand /\ ListedBuys' = ListedBuys /\ BuysInHand' = BuysInHand
      /\ Amounts /\ Sides /\ SoldWithinBought /\ SoldWithinFill
  <2>1. Index' = Index /\ Obj' = Obj /\ Ref' = Ref /\ Pc' = Pc
    BY DEF Index, Obj, Ref, Pc, Actors
  <2>2. Visited' = Visited /\ InHand' = InHand
    BY <2>1 DEF Visited, InHand
  <2> QED
    BY <2>1, <2>2 DEF ListedBuys, BuysInHand, IsBuy, Good, MemoryPart, FillPart
<1>1. \A b : Sold(b)' = Sold(b) /\ Sold(b) \in Nat
  BY <1>0, SoldIsNat DEF Sold
<1>2. \A d \in DOMAIN Obj : Obj[d].uuid \notin G
  BY <1>0 DEF Good, MemoryPart, PlacedOnes
<1>3. \A u \in G : u \in AnyUuid /\ IsBid(u) /\ Sold(u) = 0
  <2>1. ASSUME NEW u \in G PROVE u \in AnyUuid /\ IsBid(u) /\ Sold(u) = 0
    <3>1. u \in AnyUuid /\ u \in Uuids /\ IsBid(u) /\ Bought(u) = 0
      BY <1>0 DEF AnyUuid, IsBid, Bought, Amounts
    <3>2. Sold(u) <= 0
      BY <1>0, <3>1 DEF SoldWithinBought
    <3> QED
      BY <1>1, <3>1, <3>2
  <2> QED
    BY <2>1
<1>4. \A u : u \notin G => (IsBid(u)' <=> IsBid(u)) /\ Bought(u) <= Bought(u)' /\ Bought(u) \in Nat /\ Bought(u)' \in Nat
  BY <1>0 DEF IsBid, Bought, Amounts
<1>5. Amounts'
  BY <1>0 DEF Amounts
<1>6. Sides'
  <2>1. \A d \in DOMAIN Obj' : (IsBuy(d) <=> IsBid(Obj[d].uuid))'
    BY <1>0, <1>2, <1>4 DEF Sides, IsBuy, IsBid
  <2>2. ASSUME NEW a \in Actors, Hits(a)' PROVE (IsBid(job[a].hit) <=> IsBuy(job[a].ref))'
    <3>1. IsBuy(job[a].ref)' <=> IsBuy(job[a].ref)
      BY <1>0 DEF IsBuy
    <3>2. CASE job'[a].hit \in G /\ (ex'[job'[a].hit].side = "bid" <=> IsBuy(job[a].ref))
      BY <3>1, <3>2 DEF IsBid, IsBuy
    <3>3. CASE Hits(a) /\ job'[a].hit = job[a].hit
      <4>1. job[a].hit \notin G
        BY <3>3 DEF Good, MemoryPart, PlacedOnes
      <4> QED
        BY <1>0, <1>4, <3>1, <3>3, <4>1 DEF Sides, IsBid, IsBuy
    <3> QED
      BY <2>2, <3>2, <3>3
  <2>3. \A a \in Actors : (job[a].pc = "look" => ~Reached(a))'
    BY <1>0 DEF Sides, Reached
  <2>4. ASSUME Pc \in {"sell", "place"}, Reached("loop")' PROVE ~IsBid(job["loop"].hit)'
    <3>1. CASE job'["loop"].hit \in G /\ ex'[job'["loop"].hit].side # "bid"
      BY <3>1 DEF IsBid
    <3>2. CASE job'["loop"].hit = job["loop"].hit
      <4>1. Reached("loop") /\ job["loop"].hit \notin G
        BY <2>4, <3>2 DEF Reached, Good, MemoryPart, PlacedOnes, Actors
      <4>2. ~IsBid(job["loop"].hit)
        BY <1>0, <2>4, <4>1 DEF Sides
      <4> QED
        BY <1>4, <3>2, <4>1, <4>2 DEF IsBid
    <3> QED
      BY <2>4, <3>1, <3>2
  <2> QED
    BY <1>0, <2>1, <2>2, <2>3, <2>4 DEF Sides, IsBuy, IsBid, Hits, Reached
<1>7. OneBuy'
  BY <1>0 DEF OneBuy, FillPart
<1>8. Recovering'
  BY <1>0 DEF Recovering, FillPart, Idle, Free, IsBuy, Actors
<1>9. SoldWithinBought'
  <2>1. ASSUME NEW b \in AnyUuid, IsBid(b)' PROVE Sold(b)' <= Bought(b)'
    <3>1. CASE b \in G
      <4>1. Bought(b)' \in Nat /\ Sold(b)' = 0
        BY <1>1, <1>3, <3>1 DEF Bought
      <4> QED
        BY <4>1
    <3>2. CASE b \notin G
      <4>1. Sold(b) <= Bought(b)
        BY <1>0, <1>4, <2>1, <3>2 DEF SoldWithinBought
      <4> QED
        BY <1>1, <1>4, <3>2, <4>1
    <3> QED
      BY <3>1, <3>2
  <2> QED
    BY <2>1 DEF SoldWithinBought
<1>10. SoldWithinFill'
  <2>1. \A b \in DOMAIN Index : b \notin G
    BY <1>0, <1>2 DEF Lists
  <2>2. ASSUME NEW b \in DOMAIN Index, IsBid(b)', b \notin orphaned PROVE Sold(b)' <= Obj[Index[b]].filled
    BY <1>0, <1>1, <1>4, <2>1, <2>2 DEF SoldWithinFill, At, Index, Obj
  <2> QED
    BY <1>0, <2>2 DEF SoldWithinFill, At, Index, Obj
<1>11. \A d \in InHand : d \in DOMAIN Obj /\ Obj[d].uuid \notin G
  BY <1>2, InHandHas
<1>12. SoldWithinAnswers'
  <2>1. ASSUME NEW e \in DOMAIN loop.answers, IsBid(Obj[e].uuid)', loop.answers[e] # NoAnswer
        PROVE  /\ Sold(Obj[e].uuid)' <= loop.answers[e].exec
               /\ loop.answers[e].exec <= Bought(Obj[e].uuid)'
    <3>1. PICK b : b = Obj[e].uuid
      OBVIOUS
    <3>2. Obj'[e].uuid = b /\ b \notin G
      BY <1>0, <1>11, <3>1 DEF InHand, Visited
    <3>3. IsBid(b) /\ Bought(b) <= Bought(b)' /\ Bought(b) \in Nat /\ Bought(b)' \in Nat
      BY <1>4, <2>1, <3>2 DEF IsBid
    <3>4. Sold(b) <= loop.answers[e].exec /\ loop.answers[e].exec <= Bought(b) /\ loop.answers[e].exec \in Nat
      BY <2>1, <3>1, <3>3 DEF FillPart, SoldWithinAnswers, Amounts
    <3>5. Sold(b)' <= loop.answers[e].exec /\ loop.answers[e].exec <= Bought(b)'
      BY <1>1, <3>3, <3>4
    <3> QED
      BY <3>2, <3>5 DEF Sold, Bought
  <2> QED
    BY <2>1 DEF SoldWithinAnswers
<1>13. Selling'
  <2>1. ASSUME Pc = "sell"
        PROVE  /\ IsBuy(Ref)'
               /\ Sold(Obj[Ref].uuid)' + job["loop"].n <= job["loop"].ans.exec
               /\ job["loop"].ans.exec <= Bought(Obj[Ref].uuid)'
    <3>1. PICK b : b = Obj[Ref].uuid
      OBVIOUS
    <3>2. /\ IsBuy(Ref) /\ Sold(b) + job["loop"].n <= job["loop"].ans.exec /\ job["loop"].ans.exec <= Bought(b)
          /\ job["loop"].n \in Nat /\ job["loop"].ans.exec \in Nat
      BY <2>1, <3>1 DEF FillPart, Selling, Amounts, Actors
    <3>3. Ref \in InHand
      BY <2>1 DEF Good, Shapes, Actors, Pc, Ref, InHand
    <3>4. Bought(b) <= Bought(b)' /\ Bought(b) \in Nat /\ Bought(b)' \in Nat
      BY <1>4, <1>11, <3>1, <3>3
    <3>5. Sold(b)' + job["loop"].n <= job["loop"].ans.exec /\ job["loop"].ans.exec <= Bought(b)'
      BY <1>1, <3>2, <3>4
    <3> QED
      BY <1>0, <3>1, <3>2, <3>5 DEF IsBuy, Sold, Bought
  <2>2. job'["loop"].n = job["loop"].n /\ job'["loop"].ans = job["loop"].ans
    BY DEF Actors
  <2> QED
    BY <1>0, <2>1, <2>2 DEF Selling
<1>14. ASSUME NEW v \in Nat, Meets(v) PROVE Meets(v)'
  <2>1. ASSUME Hits("api")', IsBid(job["api"].hit)', job'["api"].hit \notin orphaned' PROVE Sold(job["api"].hit)' <= v
    <3>1. PICK u : u = job'["api"].hit
      OBVIOUS
    <3>2. CASE u \in G
      <4>1. Sold(u)' = 0
        BY <1>1, <1>3, <3>2
      <4> QED
        BY <3>1, <4>1 DEF Sold
    <3>3. CASE Hits("api") /\ job'["api"].hit = job["api"].hit
      <4>1. u \notin G
        BY <3>1, <3>3 DEF Good, MemoryPart, PlacedOnes, Actors
      <4>2. IsBid(u) /\ u \notin orphaned
        BY <1>4, <2>1, <3>1, <4>1 DEF IsBid
      <4>3. Sold(u) <= v
        BY <1>14, <3>1, <3>3, <4>2 DEF Meets
      <4>4. Sold(u)' <= v
        BY <1>1, <4>3
      <4> QED
        BY <3>1, <4>4 DEF Sold
    <3> QED
      BY <2>1, <3>1, <3>2, <3>3 DEF Actors
  <2> QED
    BY <2>1 DEF Meets
<1>15. NewBuys'
  <2>1. ASSUME Hits("loop")', IsBid(job["loop"].hit)' PROVE Sold(job["loop"].hit)' = 0
    <3>1. PICK u : u = job'["loop"].hit
      OBVIOUS
    <3>2. Sold(u) = 0
      <4>1. CASE u \in G
        BY <1>3, <4>1
      <4>2. CASE u \notin G
        BY <1>4, <2>1, <3>1, <4>2 DEF FillPart, NewBuys, IsBid, Actors
      <4> QED
        BY <4>1, <4>2
    <3>3. Sold(u)' = 0
      BY <1>1, <3>2
    <3> QED
      BY <3>1, <3>3 DEF Sold
  <2>2. ASSUME NEW e \in ListedBuys' \cup BuysInHand' PROVE Meets(Obj[e].filled)'
    <3>1. PICK f : f = Obj[e].filled
      OBVIOUS
    <3>2. f \in Nat /\ Meets(f)
      BY <1>0, <1>11, <3>1 DEF FillPart, NewBuys, Amounts, Lists, Range, ListedBuys, BuysInHand
    <3>3. Meets(f)'
      BY <1>14, <3>2
    <3> QED
      BY <1>0, <3>1, <3>3 DEF Meets
  <2>3. Pc' = "sell" => Meets(job["loop"].ans.exec)'
    <3>1. PICK f : f = job["loop"].ans.exec
      OBVIOUS
    <3>2. f \in Nat /\ (Pc = "sell" => Meets(f))
      BY <3>1 DEF FillPart, NewBuys, Amounts, Actors
    <3>3. Pc = "sell" => Meets(f)'
      BY <1>14, <3>2
    <3>4. job'["loop"].ans.exec = f
      BY <3>1 DEF Actors
    <3> QED
      BY <1>0, <3>3, <3>4 DEF Meets
  <2>4. ASSUME Hits("api")', IsBid(job["api"].hit)', NEW e \in InHand, Obj[e].uuid = job'["api"].hit
        PROVE  e \in Range(Index)
    <3>1. job'["api"].hit \notin G
      BY <1>11, <2>4
    <3>2. Hits("api") /\ job'["api"].hit = job["api"].hit
      BY <2>4, <3>1 DEF Actors
    <3>3. IsBid(job["api"].hit)
      BY <1>4, <2>4, <3>1, <3>2 DEF IsBid
    <3> QED
      BY <2>4, <3>2, <3>3 DEF FillPart, NewBuys
  <2> QED
    BY <1>0, <2>1, <2>2, <2>3, <2>4 DEF NewBuys
<1> QED
  BY <1>5, <1>6, <1>7, <1>8, <1>9, <1>10, <1>12, <1>13, <1>15 DEF FillPart

\* Orders fill, and none comes.
LEMMA OldOrdersSells ==
    ASSUME Good, Good', FillPart, mem' = mem, loop' = loop, orphaned' = orphaned,
           \A a \in Actors :
             job'[a].pc = job[a].pc /\ job'[a].ref = job[a].ref /\ job'[a].ans = job[a].ans /\ job'[a].n = job[a].n,
           \A u \in Uuids :
             /\ DOMAIN ex'[u] = OrderFields /\ ex'[u].exec \in Nat
             /\ ex'[u].state = "none" => ex'[u].side = "bid" /\ ex'[u].exec = 0
             /\ ex'[u].side = ex[u].side /\ ex[u].exec <= ex'[u].exec,
           \A a \in Actors : job[a].pc \in Creating \cup {"look"} => job'[a].hit = job[a].hit
    PROVE  FillPart'
<1>1. PICK G : G = {}
  OBVIOUS
<1>2. G \in SUBSET Uuids /\ \A u \in G : ex[u].state = "none"
  BY <1>1
<1>3. \A u \in Uuids \ G : ex'[u].side = ex[u].side /\ ex[u].exec <= ex'[u].exec
  BY <1>1
<1>4. \A u \in Uuids :
        /\ DOMAIN ex'[u] = OrderFields /\ ex'[u].exec \in Nat
        /\ ex'[u].state = "none" => ex'[u].side = "bid" /\ ex'[u].exec = 0
  OBVIOUS
<1>5. \A a \in Actors : job[a].pc = "look" => job'[a].hit = job[a].hit
  OBVIOUS
<1>6. \A a \in Actors :
        Hits(a)' => \/ Hits(a) /\ job'[a].hit = job[a].hit
                    \/ job'[a].hit \in G /\ (ex'[job'[a].hit].side = "bid" <=> IsBuy(job[a].ref))
  BY DEF Hits, Reached, Creating
<1>7. Pc \in {"sell", "place"} =>
        \/ job'["loop"].hit = job["loop"].hit
        \/ job'["loop"].hit \in G /\ ex'[job'["loop"].hit].side # "bid"
  BY DEF Pc, Creating, Actors
<1> QED
  BY <1>2, <1>3, <1>4, <1>5, <1>6, <1>7, ExchangeSells

LEMMA FillSomeSells ==
    ASSUME Good, Good', FillPart, NEW u \in Uuids, FillSome(u)
    PROVE  FillPart'
<1> DEFINE s == IF ex[u].exec + 1 = ex[u].vol THEN "done" ELSE "wait"
<1>1. s # "none" /\ ex' = [ex EXCEPT ![u].exec = @ + 1, ![u].state = s]
  BY DEF FillSome
<1> HIDE DEF s
<1>2. DOMAIN ex = Uuids /\ DOMAIN ex[u] = OrderFields /\ ex[u].exec \in Nat
  BY DEF Good, Shapes, FillPart, Amounts
<1>3. PICK x : x = ex[u].exec + 1
  OBVIOUS
<1>4. ex' = [ex EXCEPT ![u] = [ex[u] EXCEPT !.exec = x, !.state = s]]
  BY <1>1, <1>2, <1>3
<1>5. /\ DOMAIN ex'[u] = OrderFields /\ ex'[u].exec = x /\ ex'[u].state = s /\ ex'[u].side = ex[u].side
      /\ \A v \in Uuids \ {u} : ex'[v] = ex[v]
  BY <1>2, <1>4 DEF OrderFields
<1>6. x \in Nat /\ ex[u].exec <= x
  BY <1>2, <1>3
<1>7. \A v \in Uuids :
        /\ DOMAIN ex'[v] = OrderFields /\ ex'[v].exec \in Nat
        /\ ex'[v].state = "none" => ex'[v].side = "bid" /\ ex'[v].exec = 0
        /\ ex'[v].side = ex[v].side /\ ex[v].exec <= ex'[v].exec
  <2>1. ASSUME NEW v \in Uuids
        PROVE  /\ DOMAIN ex'[v] = OrderFields /\ ex'[v].exec \in Nat
               /\ ex'[v].state = "none" => ex'[v].side = "bid" /\ ex'[v].exec = 0
               /\ ex'[v].side = ex[v].side /\ ex[v].exec <= ex'[v].exec
    <3>1. CASE v = u
      BY <1>1, <1>5, <1>6, <3>1
    <3>2. CASE v # u
      <4>1. ex'[v] = ex[v] /\ ex[v].exec \in Nat
        BY <1>5, <3>2 DEF FillPart, Amounts
      <4> QED
        BY <4>1 DEF FillPart, Amounts
    <3> QED
      BY <3>1, <3>2
  <2> QED
    BY <2>1
<1>8. mem' = mem /\ loop' = loop /\ orphaned' = orphaned /\ job' = job
  BY DEF FillSome, hist
<1> QED
  BY <1>7, <1>8, OldOrdersSells

\* Only the state of an order changes.
LEMMA StateSells ==
    ASSUME Good, Good', FillPart, NEW u \in Uuids, ex' = [ex EXCEPT ![u].state = "cancel"],
           mem' = mem, loop' = loop, orphaned' = orphaned,
           \A a \in Actors :
             job'[a].pc = job[a].pc /\ job'[a].ref = job[a].ref /\ job'[a].ans = job[a].ans /\ job'[a].n = job[a].n,
           \A a \in Actors : job[a].pc \in Creating \cup {"look"} => job'[a].hit = job[a].hit
    PROVE  FillPart'
<1>1. DOMAIN ex = Uuids /\ DOMAIN ex[u] = OrderFields
  BY DEF Good, Shapes, FillPart, Amounts
<1>2. /\ DOMAIN ex'[u] = OrderFields /\ ex'[u].exec = ex[u].exec /\ ex'[u].state = "cancel"
      /\ ex'[u].side = ex[u].side
      /\ \A v \in Uuids \ {u} : ex'[v] = ex[v]
  BY <1>1 DEF OrderFields
<1>3. \A v \in Uuids :
        /\ DOMAIN ex'[v] = OrderFields /\ ex'[v].exec \in Nat
        /\ ex'[v].state = "none" => ex'[v].side = "bid" /\ ex'[v].exec = 0
        /\ ex'[v].side = ex[v].side /\ ex[v].exec <= ex'[v].exec
  <2>1. ASSUME NEW v \in Uuids
        PROVE  /\ DOMAIN ex'[v] = OrderFields /\ ex'[v].exec \in Nat
               /\ ex'[v].state = "none" => ex'[v].side = "bid" /\ ex'[v].exec = 0
               /\ ex'[v].side = ex[v].side /\ ex[v].exec <= ex'[v].exec
    <3>1. DOMAIN ex[v] = OrderFields /\ ex[v].exec \in Nat
      BY DEF FillPart, Amounts
    <3>2. CASE v = u
      BY <1>2, <3>1, <3>2
    <3>3. CASE v # u
      <4>1. ex'[v] = ex[v]
        BY <1>2, <3>3
      <4> QED
        BY <3>1, <4>1 DEF FillPart, Amounts
    <3> QED
      BY <3>2, <3>3
  <2> QED
    BY <2>1
<1> QED
  BY <1>3, OldOrdersSells

LEMMA CancelledThereSells ==
    ASSUME Good, Good', FillPart, NEW u \in Uuids, CancelledThere(u)
    PROVE  FillPart'
  BY StateSells DEF CancelledThere, hist

LEMMA NewHitIs ==
    ASSUME Good, NEW a \in Actors, NEW u, job' = [job EXCEPT ![a].hit = u]
    PROVE  /\ job'[a].hit = u /\ \A b \in Actors \ {a} : job'[b] = job[b]
           /\ \A b \in Actors :
                job'[b].pc = job[b].pc /\ job'[b].ref = job[b].ref /\ job'[b].ans = job[b].ans /\ job'[b].n = job[b].n
<1>1. /\ job'[a] = [job[a] EXCEPT !.hit = u] /\ DOMAIN job[a] = JobFields
      /\ \A b \in Actors \ {a} : job'[b] = job[b]
  BY DEF Good, Shapes
<1>2. /\ job'[a].hit = u /\ job'[a].pc = job[a].pc /\ job'[a].ref = job[a].ref
      /\ job'[a].ans = job[a].ans /\ job'[a].n = job[a].n
  BY <1>1 DEF JobFields
<1> QED
  BY <1>1, <1>2

LEMMA CancelArrivesSells ==
    ASSUME Good, Good', FillPart, NEW a \in Actors, CancelArrives(a)
    PROVE  FillPart'
<1>1. PICK u \in Uuids : u = job[a].u
  BY DEF CancelArrives, Live
<1>2. /\ ex' = [ex EXCEPT ![u].state = "cancel"] /\ job' = [job EXCEPT ![a].hit = u]
      /\ mem' = mem /\ loop' = loop /\ orphaned' = orphaned
  BY <1>1 DEF CancelArrives, hist
<1>3. \A b \in Actors : job[b].pc \in Creating \cup {"look"} => b # a
  BY DEF CancelArrives, Creating, Cancelling
<1>4. /\ \A b \in Actors \ {a} : job'[b] = job[b]
      /\ \A b \in Actors :
           job'[b].pc = job[b].pc /\ job'[b].ref = job[b].ref /\ job'[b].ans = job[b].ans /\ job'[b].n = job[b].n
  BY <1>2, NewHitIs
<1>5. \A b \in Actors : job[b].pc \in Creating \cup {"look"} => job'[b].hit = job[b].hit
  BY <1>3, <1>4
<1>6. ex' = [ex EXCEPT ![u].state = "cancel"] /\ mem' = mem /\ loop' = loop /\ orphaned' = orphaned
  BY <1>2
<1> QED
  BY <1>4, <1>5, <1>6, StateSells

LEMMA CreateArrivesSells ==
    ASSUME Good, Good', FillPart, NEW a \in Actors, CreateArrives(a)
    PROVE  FillPart'
<1>1. PICK u \in Uuids : u = NextUuid /\ ex[u].state = "none"
  BY DEF CreateArrives, Room, NextUuid
<1> DEFINE side == IF job[a].pc = "create" THEN Side(Ord(a).kind) ELSE "ask"
<1>2. ex' = [ex EXCEPT ![u] = NewOrder(side, job[a].n)] /\ job' = [job EXCEPT ![a].hit = u]
      /\ mem' = mem /\ loop' = loop /\ orphaned' = orphaned
  BY <1>1 DEF CreateArrives
<1>3. /\ job[a].pc = "create" => (side = "bid" <=> IsBuy(job[a].ref))
      /\ job[a].pc # "create" => side # "bid"
  BY DEF Side, Ord, IsBuy, Obj
<1> HIDE DEF side
<1>4. /\ DOMAIN ex'[u] = OrderFields /\ ex'[u].exec = 0 /\ ex'[u].state = "wait" /\ ex'[u].side = side
      /\ \A v \in Uuids \ {u} : ex'[v] = ex[v]
  BY <1>2 DEF Good, Shapes, NewOrder, OrderFields
<1>5. \A v \in Uuids :
        /\ DOMAIN ex'[v] = OrderFields /\ ex'[v].exec \in Nat
        /\ ex'[v].state = "none" => ex'[v].side = "bid" /\ ex'[v].exec = 0
  BY <1>4 DEF FillPart, Amounts
<1>6. \A v \in Uuids \ {u} : ex'[v].side = ex[v].side /\ ex[v].exec <= ex'[v].exec
  BY <1>4 DEF FillPart, Amounts
<1>7. /\ job'[a].hit = u /\ \A b \in Actors \ {a} : job'[b] = job[b]
      /\ \A b \in Actors :
           job'[b].pc = job[b].pc /\ job'[b].ref = job[b].ref /\ job'[b].ans = job[b].ans /\ job'[b].n = job[b].n
  BY <1>2, NewHitIs
<1>8. \A b \in Actors : job[b].pc = "look" => job'[b].hit = job[b].hit
  BY <1>7 DEF CreateArrives, Creating
<1>9. ASSUME NEW b \in Actors, Hits(b)'
      PROVE  \/ Hits(b) /\ job'[b].hit = job[b].hit
             \/ job'[b].hit \in {u} /\ (ex'[job'[b].hit].side = "bid" <=> IsBuy(job[b].ref))
  <2>1. CASE b = a
    BY <1>3, <1>4, <1>7, <1>9, <2>1 DEF Hits
  <2>2. CASE b # a
    BY <1>7, <1>9, <2>2 DEF Hits, Reached
  <2> QED
    BY <2>1, <2>2
<1>10. ASSUME Pc \in {"sell", "place"}
       PROVE  \/ job'["loop"].hit = job["loop"].hit
              \/ job'["loop"].hit \in {u} /\ ex'[job'["loop"].hit].side # "bid"
  BY <1>3, <1>4, <1>7, <1>10 DEF Pc, Actors
<1>11. {u} \in SUBSET Uuids /\ \A v \in {u} : ex[v].state = "none"
  BY <1>1
<1> QED
  BY <1>2, <1>5, <1>6, <1>7, <1>8, <1>9, <1>10, <1>11, ExchangeSells

(***************************************************************************)
(* The loop adds an order e under the uuid u.                              *)
(***************************************************************************)
\* Orders G leave the list, e joins it, and the fill of x is written as v.
JoinedBy(m, G, u, e, x, v) ==
    /\ DOMAIN m.index = (DOMAIN Index \ G) \cup {u}
    /\ \A w \in DOMAIN Index \ G : m.index[w] = Index[w]
    /\ m.index[u] \notin DOMAIN Obj /\ DOMAIN m.obj = DOMAIN Obj \cup {m.index[u]}
    /\ m.obj[m.index[u]] = e
    /\ \A d \in DOMAIN Obj :
         /\ DOMAIN m.obj[d] = EntryFields /\ SameOrder(m.obj[d], Obj[d])
         /\ m.obj[d].filled = IF x \in DOMAIN Index /\ d = Index[x] THEN v ELSE Obj[d].filled

Joins(G, u, e, x, v) ==
    /\ DOMAIN Index' = (DOMAIN Index \ G) \cup {u}
    /\ \A w \in DOMAIN Index \ G : Index'[w] = Index[w]
    /\ Index'[u] \notin DOMAIN Obj /\ Index'[u] \in DOMAIN Obj' /\ Obj'[Index'[u]] = e
    /\ \A d \in DOMAIN Obj' \ {Index'[u]} :
         /\ d \in DOMAIN Obj /\ SameOrder(Obj'[d], Obj[d])
         /\ Obj'[d].filled = IF x \in DOMAIN Index /\ d = Index[x] THEN v ELSE Obj[d].filled

LEMMA AddOrderJoins ==
    ASSUME Good, NEW u \in Uuids \ DOMAIN Index, NEW m, NEW G, m.obj = Obj,
           DOMAIN m.index = DOMAIN Index \ G, \A v \in DOMAIN Index \ G : m.index[v] = Index[v],
           NEW e, e.uuid = u
    PROVE  JoinedBy(AddOrder(m, e), G, u, e, u, 0)
<1> DEFINE d == FreeDict(m, 1)
<1>1. d \in Dicts \ DOMAIN Obj
  <2>1. u \in AnyUuid /\ Lists /\ Dictionaries
    BY DEF AnyUuid, Good, MemoryPart
  <2>2. Cardinality(Dicts \ DOMAIN Obj) \in Nat /\ 1 <= Cardinality(Dicts \ DOMAIN Obj)
    BY <2>1, DictsSuffice
  <2>3. 1 \in 1..Cardinality(Dicts \ DOMAIN m.obj) /\ DOMAIN m.obj \subseteq Dicts
    BY <2>1, <2>2 DEF Lists
  <2> QED
    BY <2>3, FreeDictIsFree
<1> HIDE DEF d
<1>2. AddOrder(m, e).index = Put(m.index, u, d) /\ AddOrder(m, e).obj = Put(Obj, d, e)
  BY DEF AddOrder, d
<1>3. /\ DOMAIN Put(m.index, u, d) = (DOMAIN Index \ G) \cup {u} /\ Put(m.index, u, d)[u] = d
      /\ \A v \in DOMAIN Index \ G : Put(m.index, u, d)[v] = Index[v]
  BY DEF Put
<1>4. /\ DOMAIN Put(Obj, d, e) = DOMAIN Obj \cup {d} /\ Put(Obj, d, e)[d] = e
      /\ \A f \in DOMAIN Obj : Put(Obj, d, e)[f] = Obj[f]
  BY <1>1 DEF Put
<1>5. \A f \in DOMAIN Obj : DOMAIN Obj[f] = EntryFields /\ SameOrder(Obj[f], Obj[f])
  BY DEF Good, MemoryPart, Lists, SameOrder
<1> QED
  BY <1>1, <1>2, <1>3, <1>4, <1>5 DEF JoinedBy

LEMMA UpdateFillJoins ==
    ASSUME Good, NEW u, NEW m, NEW e, JoinedBy(m, {}, u, e, u, 0), u \notin DOMAIN Index, NEW b, b # u, NEW v
    PROVE  JoinedBy(UpdateFill(m, b, v), {}, u, e, b, v)
<1>0. DOMAIN m.index = DOMAIN Index \cup {u} /\ \A w \in DOMAIN Index : m.index[w] = Index[w] /\ Index[w] \in DOMAIN Obj
  BY DEF JoinedBy, Good, MemoryPart, Lists
<1>1. CASE b \notin DOMAIN Index
  <2>1. UpdateFill(m, b, v) = m
    BY <1>0, <1>1 DEF UpdateFill, Has
  <2> QED
    BY <1>1, <2>1 DEF JoinedBy
<1>2. CASE b \in DOMAIN Index
  <2> DEFINE f == [At(m, b) EXCEPT !.filled = v, !.status = "placed"]
             d == Index[b]
  <2>1. /\ m.index[b] = d /\ d \in DOMAIN Obj /\ d \in DOMAIN m.obj /\ d # m.index[u] /\ Has(m, b)
        /\ At(m, b) = m.obj[d] /\ DOMAIN m.obj[d] = EntryFields
    BY <1>0, <1>2 DEF JoinedBy, At, Has
  <2>2. DOMAIN f = EntryFields /\ SameOrder(f, m.obj[d]) /\ f.filled = v
    BY <2>1 DEF EntryFields, SameOrder
  <2> HIDE DEF f
  <2>3. /\ UpdateFill(m, b, v).index = m.index
        /\ DOMAIN UpdateFill(m, b, v).obj = DOMAIN m.obj /\ UpdateFill(m, b, v).obj[d] = f
        /\ \A c \in DOMAIN m.obj \ {d} : UpdateFill(m, b, v).obj[c] = m.obj[c]
    BY <2>1 DEF UpdateFill, Rewritten, f
  <2>4. ASSUME NEW c \in DOMAIN Obj
        PROVE  /\ DOMAIN UpdateFill(m, b, v).obj[c] = EntryFields /\ SameOrder(UpdateFill(m, b, v).obj[c], Obj[c])
               /\ UpdateFill(m, b, v).obj[c].filled = IF b \in DOMAIN Index /\ c = Index[b] THEN v ELSE Obj[c].filled
    <3>1. DOMAIN m.obj[c] = EntryFields /\ SameOrder(m.obj[c], Obj[c]) /\ m.obj[c].filled = Obj[c].filled /\ c \in DOMAIN m.obj
      BY DEF JoinedBy
    <3>2. CASE c = d
      BY <1>2, <2>2, <2>3, <3>1, <3>2 DEF SameOrder
    <3>3. CASE c # d
      BY <1>2, <2>3, <3>1, <3>3
    <3> QED
      BY <3>2, <3>3
  <2>5. UpdateFill(m, b, v).obj[m.index[u]] = e
    BY <2>1, <2>3 DEF JoinedBy
  <2> QED
    BY <2>3, <2>4, <2>5 DEF JoinedBy
<1> QED
  BY <1>1, <1>2

LEMMA JoinsOf ==
    ASSUME NEW m, NEW G, NEW u, NEW e, NEW x, NEW v, JoinedBy(m, G, u, e, x, v), Memory(m)
    PROVE  Joins(G, u, e, x, v)
<1>1. /\ Index' = m.index
      /\ DOMAIN Obj' = DOMAIN m.obj \cap (Held' \cup Range(m.index))
      /\ \A d \in DOMAIN Obj' : Obj'[d] = m.obj[d]
  BY MemoryIs
<1>2. Index'[u] \in DOMAIN Obj'
  BY <1>1 DEF JoinedBy, Range
<1> QED
  BY <1>1, <1>2 DEF JoinedBy, Joins

\* The sums grow by what is sold with e.
LEMMA JoinsSold ==
    ASSUME Lists, Lists', Amounts, NEW G, NEW u, u \notin DOMAIN Index, NEW e, e.vol \in Nat, NEW x, NEW v,
           Joins(G, u, e, x, v)
    PROVE  \A b : /\ Sold(b)' \in Nat
                  /\ e.kind = "sell" /\ e.of = b => Sold(b)' <= Sold(b) + e.vol
                  /\ ~(e.kind = "sell" /\ e.of = b) => Sold(b)' <= Sold(b)
<1>1. ASSUME NEW b
      PROVE  /\ Sold(b)' \in Nat
             /\ e.kind = "sell" /\ e.of = b => Sold(b)' <= Sold(b) + e.vol
             /\ ~(e.kind = "sell" /\ e.of = b) => Sold(b)' <= Sold(b)
  <2>1. ASSUME NEW w \in LinkedSells(mem', b), w # u
        PROVE  w \in LinkedSells(mem, b) /\ At(mem', w).vol = At(mem, w).vol
    <3>1. w \in DOMAIN Index' /\ Obj'[Index'[w]].kind = "sell" /\ Obj'[Index'[w]].of = b
      BY DEF LinkedSells, At, Index, Obj
    <3>2. w \in DOMAIN Index /\ Index'[w] = Index[w] /\ Index[w] \in DOMAIN Obj' /\ Index[w] \in DOMAIN Obj
      BY <2>1, <3>1 DEF Joins, Lists
    <3>3. SameOrder(Obj'[Index[w]], Obj[Index[w]])
      BY <3>2 DEF Joins
    <3> QED
      BY <3>1, <3>2, <3>3 DEF SameOrder, LinkedSells, At, Index, Obj
  <2>2. Volumes(mem, b)
    BY SoldIsNat
  <2>3. At(mem', u).vol = e.vol /\ At(mem', u) = e
    BY DEF Joins, At, Index, Obj
  <2>4. Volumes(mem', b) /\ LinkedVolume(mem', b) <= LinkedVolume(mem, b) + e.vol
    BY <2>1, <2>2, <2>3, VolumeGrows
  <2>5. ASSUME ~(e.kind = "sell" /\ e.of = b) PROVE LinkedVolume(mem', b) <= LinkedVolume(mem, b)
    <3>1. u \notin LinkedSells(mem', b)
      BY <2>3, <2>5 DEF LinkedSells
    <3>2. \A w \in LinkedSells(mem', b) : w \in LinkedSells(mem, b) /\ At(mem', w).vol = At(mem, w).vol
      BY <2>1, <3>1
    <3> QED
      BY <2>2, <3>2, VolumeShrinks
  <2> QED
    BY <2>4, <2>5, VolumeIsNat DEF Sold
<1> QED
  BY <1>1

JoinTurn(G, u, e, x, v) ==
    /\ ex' = ex /\ orphaned' = orphaned /\ loop' = loop /\ job'["api"] = job["api"]
    /\ Ref # NoDict /\ job'["loop"].ref \in {NoDict, Ref} /\ job'["loop"].pc \in {"free", "settle"}
    /\ job'["loop"].n \in Nat /\ job'["loop"].ans.exec \in Nat /\ job'["loop"].hit = Reserved
    /\ Joins(G, u, e, x, v) /\ v \in Nat /\ u \in Uuids \ DOMAIN Index /\ ~IsBid(u)
    /\ e.uuid = u /\ e.kind # "buy" /\ e.vol \in Nat /\ e.filled = 0
    /\ x \in DOMAIN Index => e.kind = "sell"
    /\ e.kind = "sell" => /\ e.of = x /\ x = Obj[Ref].uuid /\ IsBuy(Ref)
                          /\ Sold(x) + e.vol <= v /\ v <= Bought(x) /\ Meets(v)
    /\ \A g \in G : g = Obj[Ref].uuid /\ job'["loop"].ref = NoDict

LEMMA JoinHands ==
    ASSUME Good, Good', NEW G, NEW u, NEW e, NEW x, NEW v, JoinTurn(G, u, e, x, v)
    PROVE  /\ Visited' = Visited /\ InHand' \subseteq InHand /\ Ref \in InHand /\ Ref \notin Visited
           /\ InHand' \subseteq DOMAIN Obj' /\ InHand \subseteq DOMAIN Obj
           /\ \A d \in InHand' : d # Index'[u]
           /\ job'["loop"].ref = NoDict => Ref \notin InHand'
<1>1. Visited' = Visited /\ Ref' \in {NoDict, Ref} /\ Ref # NoDict
  BY DEF JoinTurn, Visited, Ref
<1>2. Ref \in InHand /\ InHand' \subseteq InHand
  BY <1>1 DEF InHand
<1>3. InHand' \subseteq DOMAIN Obj' /\ InHand \subseteq DOMAIN Obj
  BY InHandIsKnown, InHandStaysKnown DEF Good, MemoryPart
<1>4. Ref \notin Visited
  BY <1>1 DEF Good, ControlPart, Apart
<1>5. Index'[u] \notin DOMAIN Obj
  BY DEF JoinTurn, Joins
<1> QED
  BY <1>1, <1>2, <1>3, <1>4, <1>5 DEF InHand, Ref

LEMMA JoinTurnKeeps ==
    ASSUME Good, Good', FillPart, NEW G, NEW u, NEW e, NEW x, NEW v, JoinTurn(G, u, e, x, v)
    PROVE  FillPart'
<1>0. /\ ex' = ex /\ orphaned' = orphaned /\ loop' = loop /\ job'["api"] = job["api"] /\ Lists /\ Lists'
      /\ Joins(G, u, e, x, v) /\ v \in Nat /\ u \in Uuids \ DOMAIN Index /\ ~IsBid(u) /\ Ref # NoDict
      /\ job'["loop"].pc \notin {"sell", "place", "create", "look"} /\ job'["loop"].hit = Reserved
      /\ Amounts /\ Sides /\ OneBuy
  BY DEF JoinTurn, Good, MemoryPart, FillPart
<1>1. /\ Visited' = Visited /\ InHand' \subseteq InHand /\ Ref \in InHand /\ Ref \notin Visited
      /\ InHand' \subseteq DOMAIN Obj' /\ InHand \subseteq DOMAIN Obj
      /\ \A d \in InHand' : d # Index'[u]
      /\ job'["loop"].ref = NoDict => Ref \notin InHand'
  BY JoinHands
<1>2. \A b : Sold(b)' \in Nat /\ Sold(b) \in Nat /\ (b # x \/ e.kind # "sell" => Sold(b)' <= Sold(b))
  BY <1>0, JoinsSold, SoldIsNat DEF JoinTurn
<1>3. e.kind = "sell" => /\ x = Obj[Ref].uuid /\ IsBuy(Ref) /\ Sold(x)' <= v /\ v <= Bought(x) /\ Meets(v)
  <2>1. ASSUME e.kind = "sell" PROVE Sold(x)' <= v
    <3>1. Sold(x)' <= Sold(x) + e.vol /\ Sold(x)' \in Nat /\ Sold(x) \in Nat
      BY <1>0, <2>1, JoinsSold, SoldIsNat DEF JoinTurn
    <3>2. Sold(x) + e.vol <= v /\ e.vol \in Nat
      BY <2>1 DEF JoinTurn
    <3> QED
      BY <1>0, <3>1, <3>2
  <2> QED
    BY <2>1 DEF JoinTurn
<1>4. \A d \in DOMAIN Obj' :
        /\ Obj'[d].vol \in Nat /\ Obj'[d].filled \in Nat
        /\ d = Index'[u] => Obj'[d].uuid = u /\ ~IsBuy(d)'
        /\ d # Index'[u] =>
             /\ d \in DOMAIN Obj /\ Obj'[d].uuid = Obj[d].uuid /\ (IsBuy(d)' <=> IsBuy(d))
             /\ Obj'[d].filled = IF x \in DOMAIN Index /\ d = Index[x] THEN v ELSE Obj[d].filled
  <2>1. ASSUME NEW d \in DOMAIN Obj', d = Index'[u]
        PROVE  Obj'[d].uuid = u /\ ~IsBuy(d)' /\ Obj'[d].vol \in Nat /\ Obj'[d].filled \in Nat
    <3>1. Obj'[d] = e
      BY <2>1 DEF JoinTurn, Joins
    <3> QED
      BY <3>1 DEF JoinTurn, IsBuy
  <2>2. ASSUME NEW d \in DOMAIN Obj', d # Index'[u]
        PROVE  /\ Obj'[d].vol \in Nat /\ Obj'[d].filled \in Nat
               /\ d \in DOMAIN Obj /\ Obj'[d].uuid = Obj[d].uuid /\ (IsBuy(d)' <=> IsBuy(d))
               /\ Obj'[d].filled = IF x \in DOMAIN Index /\ d = Index[x] THEN v ELSE Obj[d].filled
    <3>1. /\ d \in DOMAIN Obj /\ SameOrder(Obj'[d], Obj[d])
          /\ Obj'[d].filled = IF x \in DOMAIN Index /\ d = Index[x] THEN v ELSE Obj[d].filled
      BY <1>0, <2>2 DEF Joins
    <3>2. Obj[d].vol \in Nat /\ Obj[d].filled \in Nat
      BY <1>0, <3>1 DEF Amounts
    <3> QED
      BY <1>0, <3>1, <3>2 DEF SameOrder, IsBuy
  <2> QED
    BY <2>1, <2>2
<1>5. ListedBuys' \subseteq ListedBuys
  <2>1. ASSUME NEW d \in Range(Index'), IsBuy(d)' PROVE d \in Range(Index) /\ IsBuy(d)
    <3>1. PICK w \in DOMAIN Index' : d = Index'[w]
      BY DEF Range
    <3>2. d \in DOMAIN Obj'
      BY <1>0, <3>1 DEF Lists
    <3>3. d # Index'[u] /\ IsBuy(d)
      BY <1>4, <2>1, <3>2
    <3>4. w \in DOMAIN Index /\ d = Index[w]
      BY <1>0, <3>1, <3>3 DEF Joins
    <3> QED
      BY <3>3, <3>4 DEF Range
  <2> QED
    BY <2>1 DEF ListedBuys
<1>6. BuysInHand' \subseteq BuysInHand
  BY <1>1, <1>4 DEF BuysInHand
<1>7. Amounts'
  <2>1. \A w \in Uuids :
          /\ DOMAIN ex'[w] = OrderFields /\ ex'[w].exec \in Nat
          /\ ex'[w].state = "none" => ex'[w].side = "bid" /\ ex'[w].exec = 0
    BY <1>0 DEF Amounts
  <2>2. \A a \in Actors : job'[a].n \in Nat /\ job'[a].ans.exec \in Nat
    BY <1>0 DEF Amounts, JoinTurn, Actors
  <2>3. \A f \in DOMAIN loop'.answers : loop'.answers[f].exec \in Nat
    BY <1>0 DEF Amounts
  <2> QED
    BY <1>4, <2>1, <2>2, <2>3 DEF Amounts
<1>8. Sides'
  <2>1. ASSUME NEW d \in DOMAIN Obj' PROVE (IsBuy(d) <=> IsBid(Obj[d].uuid))'
    <3>1. CASE d = Index'[u]
      BY <1>0, <1>4, <3>1 DEF IsBid, IsBuy
    <3>2. CASE d # Index'[u]
      <4>1. d \in DOMAIN Obj /\ Obj'[d].uuid = Obj[d].uuid /\ (IsBuy(d)' <=> IsBuy(d))
        BY <1>4, <3>2
      <4>2. IsBuy(d) <=> IsBid(Obj[d].uuid)
        BY <1>0, <4>1 DEF Sides
      <4> QED
        BY <1>0, <4>1, <4>2 DEF IsBid
    <3> QED
      BY <3>1, <3>2
  <2>2. ASSUME NEW a \in Actors, Hits(a)' PROVE (IsBid(job[a].hit) <=> IsBuy(job[a].ref))'
    <3>1. a = "api"
      BY <1>0, <2>2 DEF Hits, Actors
    <3>2. job["api"].ref \in DOMAIN Obj' /\ job["api"].ref \in DOMAIN Obj
      <4>1. job["api"].ref # NoDict /\ job'["api"].ref # NoDict
        BY <1>0, <2>2, <3>1 DEF Good, Shapes, Actors, Hits
      <4>2. job["api"].ref \in Held /\ job'["api"].ref \in Held'
        BY DEF Held, Actors
      <4> QED
        BY <1>0, <4>1, <4>2 DEF Good, MemoryPart, Dictionaries
    <3>3. job["api"].ref # Index'[u]
      BY <1>0, <3>2 DEF Joins
    <3>4. Hits("api")
      BY <1>0, <2>2, <3>1 DEF Hits, Reached
    <3>5. IsBid(job["api"].hit) <=> IsBuy(job["api"].ref)
      BY <1>0, <3>4 DEF Sides, Actors
    <3>6. IsBuy(job["api"].ref)' <=> IsBuy(job["api"].ref)
      BY <1>0, <1>4, <3>2, <3>3 DEF IsBuy
    <3> QED
      BY <1>0, <3>1, <3>5, <3>6 DEF IsBid, IsBuy
  <2>3. \A a \in Actors : (job[a].pc = "look" => ~Reached(a))'
    BY <1>0 DEF Sides, Reached, Actors
  <2>4. Pc' \notin {"sell", "place"}
    BY <1>0 DEF Pc
  <2> QED
    BY <2>1, <2>2, <2>3, <2>4 DEF Sides, IsBuy, IsBid, Hits, Reached
<1>9. OneBuy'
  BY <1>0, <1>5, <1>6 DEF OneBuy
<1>10. Recovering'
  <2>1. ASSUME loop.phase = "recover" PROVE Free("api") /\ \A d \in loop.todo : IsBuy(d)
    <3>1. ~Free("loop")
      BY <1>0 DEF Good, Shapes, Actors, Free, Ref
    <3> QED
      BY <2>1, <3>1 DEF FillPart, Recovering, Idle
  <2>2. \A d \in loop.todo : d \in DOMAIN Obj' /\ d # Index'[u]
    <3>1. \A d \in loop.todo : d \in Visited'
      BY <1>1 DEF Visited
    <3>2. Visited' \subseteq InHand'
      BY DEF InHand
    <3> QED
      BY <1>1, <3>1, <3>2
  <2> QED
    BY <1>0, <1>4, <2>1, <2>2 DEF Recovering, Free
<1>11. SoldWithinBought'
  <2>1. ASSUME NEW b \in AnyUuid, IsBid(b)' PROVE Sold(b)' <= Bought(b)'
    <3>1. IsBid(b) /\ Bought(b)' = Bought(b) /\ Bought(b) \in Nat
      BY <1>0, <2>1 DEF IsBid, Bought, Amounts
    <3>2. Sold(b) <= Bought(b)
      BY <3>1 DEF FillPart, SoldWithinBought
    <3>3. CASE b = x /\ e.kind = "sell"
      <4>1. Sold(b)' <= v /\ v <= Bought(b) /\ Sold(b)' \in Nat
        BY <1>2, <1>3, <3>3
      <4> QED
        BY <1>0, <3>1, <4>1
    <3>4. CASE b # x \/ e.kind # "sell"
      <4>1. Sold(b)' <= Sold(b) /\ Sold(b)' \in Nat /\ Sold(b) \in Nat
        BY <1>2, <3>4
      <4> QED
        BY <3>1, <3>2, <4>1
    <3> QED
      BY <3>3, <3>4
  <2> QED
    BY <2>1 DEF SoldWithinBought
<1>12. SoldWithinFill'
  <2>1. ASSUME NEW b \in DOMAIN Index', IsBid(b)', b \notin orphaned'
        PROVE  Sold(b)' <= Obj'[Index'[b]].filled
    <3>1. b # u /\ IsBid(b)
      BY <1>0, <2>1 DEF IsBid
    <3>2. b \in DOMAIN Index /\ Index'[b] = Index[b] /\ Index[b] \in DOMAIN Obj' /\ Index[b] \in DOMAIN Obj
      BY <1>0, <3>1 DEF Joins, Lists
    <3>3. Sold(b) <= Obj[Index[b]].filled /\ Obj[Index[b]].filled \in Nat
      BY <1>0, <2>1, <3>1, <3>2 DEF FillPart, SoldWithinFill, At, Index, Obj, Amounts
    <3>4. Index[b] # Index'[u]
      BY <1>0, <3>2 DEF Joins
    <3>5. Obj'[Index[b]].filled = IF x \in DOMAIN Index /\ Index[b] = Index[x] THEN v ELSE Obj[Index[b]].filled
      BY <1>4, <3>2, <3>4
    <3>6. x \in DOMAIN Index /\ Index[b] = Index[x] => b = x
      BY <1>0, <3>2 DEF Lists
    <3>7. CASE b = x
      BY <1>3, <3>2, <3>5, <3>7 DEF JoinTurn
    <3>8. CASE b # x
      <4>1. Sold(b)' <= Sold(b) /\ Sold(b)' \in Nat /\ Sold(b) \in Nat
        BY <1>2, <3>8
      <4> QED
        BY <3>2, <3>3, <3>5, <3>6, <3>8, <4>1
    <3> QED
      BY <3>7, <3>8
  <2> QED
    BY <2>1 DEF SoldWithinFill, At, Index, Obj
<1>13. SoldWithinAnswers'
  <2>1. ASSUME NEW f \in DOMAIN loop.answers, IsBid(Obj[f].uuid)', loop.answers[f] # NoAnswer
        PROVE  /\ Sold(Obj[f].uuid)' <= loop.answers[f].exec
               /\ loop.answers[f].exec <= Bought(Obj[f].uuid)'
    <3>1. PICK b : b = Obj[f].uuid
      OBVIOUS
    <3>2. f \in Visited /\ f \in InHand' /\ f \in InHand /\ f # Ref
      BY <1>1 DEF Visited, InHand
    <3>3. f \in DOMAIN Obj' /\ Obj'[f].uuid = b /\ f \in DOMAIN Obj
      BY <1>1, <1>4, <3>1, <3>2
    <3>4. IsBid(b) /\ Bought(b)' = Bought(b) /\ Bought(b) \in Nat
      BY <1>0, <2>1, <3>3 DEF IsBid, Bought, Amounts
    <3>5. Sold(b) <= loop.answers[f].exec /\ loop.answers[f].exec <= Bought(b) /\ loop.answers[f].exec \in Nat
      BY <1>0, <2>1, <3>1, <3>4 DEF FillPart, SoldWithinAnswers, Amounts
    <3>6. e.kind = "sell" => b # x
      <4>1. IsBuy(f)
        BY <1>0, <3>1, <3>3, <3>4 DEF Sides
      <4>2. ASSUME e.kind = "sell" PROVE FALSE
        <5>1. f \in BuysInHand /\ Ref \in BuysInHand
          BY <1>1, <1>3, <3>2, <4>1, <4>2 DEF BuysInHand
        <5> QED
          BY <1>0, <3>2, <5>1 DEF OneBuy
      <4> QED
        BY <4>2
    <3>7. Sold(b)' <= Sold(b) /\ Sold(b)' \in Nat /\ Sold(b) \in Nat
      BY <1>2, <3>6
    <3>8. Sold(b)' <= loop.answers[f].exec
      BY <3>5, <3>7
    <3> QED
      BY <3>3, <3>4, <3>5, <3>8 DEF Sold, Bought
  <2> QED
    BY <1>0, <2>1 DEF SoldWithinAnswers
<1>14. Selling'
  BY <1>0 DEF Selling, Pc
<1>15. NewBuys'
  <2>1. ~Hits("loop")'
    BY <1>0 DEF Hits
  <2>2. ASSUME NEW d \in ListedBuys' \cup BuysInHand', Hits("api")', IsBid(job["api"].hit)',
               job'["api"].hit \notin orphaned'
        PROVE  Sold(job["api"].hit)' <= Obj'[d].filled
    <3>1. PICK h : h = job["api"].hit
      OBVIOUS
    <3>2. Hits("api") /\ IsBid(h) /\ h \notin orphaned
      BY <1>0, <2>2, <3>1 DEF Hits, Reached, IsBid
    <3>3. d \in ListedBuys \cup BuysInHand /\ d \in DOMAIN Obj' /\ IsBuy(d)'
      BY <1>0, <1>1, <1>5, <1>6, <2>2 DEF Lists, Range, ListedBuys, BuysInHand
    <3>4. d # Index'[u] /\ IsBuy(d)
      BY <1>4, <3>3
    <3>5. Obj'[d].filled = IF x \in DOMAIN Index /\ d = Index[x] THEN v ELSE Obj[d].filled
      BY <1>4, <3>3, <3>4
    <3>6. Sold(h) <= Obj[d].filled /\ Obj[d].filled \in Nat
      BY <1>0, <1>4, <3>1, <3>2, <3>3, <3>4 DEF FillPart, NewBuys, Meets, Amounts
    <3>7. CASE h = x /\ e.kind = "sell"
      <4>1. Ref \in Range(Index)
        BY <1>1, <1>3, <3>1, <3>2, <3>7 DEF FillPart, NewBuys
      <4>2. x \in DOMAIN Index /\ Ref = Index[x]
        BY <1>0, <1>3, <3>7, <4>1 DEF Lists, Range
      <4>3. Ref \in ListedBuys /\ Ref \in BuysInHand
        BY <1>1, <1>3, <3>7, <4>1 DEF ListedBuys, BuysInHand
      <4>4. d = Ref
        BY <1>0, <3>3, <4>3 DEF OneBuy
      <4>5. Obj'[d].filled = v /\ Sold(h)' <= v
        BY <1>3, <3>5, <3>7, <4>2, <4>4
      <4> QED
        BY <1>0, <3>1, <4>5 DEF Sold
    <3>8. CASE h # x \/ e.kind # "sell"
      <4>1. Sold(h)' <= Sold(h) /\ Sold(h)' \in Nat /\ Sold(h) \in Nat
        BY <1>2, <3>8
      <4>2. x \in DOMAIN Index => Sold(h) <= v
        BY <1>3, <3>1, <3>2 DEF JoinTurn, Meets
      <4>3. Sold(h)' <= Obj'[d].filled
        BY <1>0, <3>5, <3>6, <4>1, <4>2
      <4> QED
        BY <1>0, <3>1, <4>3 DEF Sold
    <3> QED
      BY <3>7, <3>8
  <2>3. Pc' # "sell"
    BY <1>0 DEF Pc
  <2>4. ASSUME Hits("api")', IsBid(job["api"].hit)', NEW d \in InHand', Obj'[d].uuid = job'["api"].hit
        PROVE  d \in Range(Index')
    <3>1. PICK h : h = job["api"].hit
      OBVIOUS
    <3>2. Hits("api") /\ IsBid(h) /\ d \in InHand /\ d \in DOMAIN Obj /\ Obj[d].uuid = h
      BY <1>0, <1>1, <1>4, <2>4, <3>1 DEF Hits, Reached, IsBid
    <3>3. d \in Range(Index)
      BY <3>1, <3>2 DEF FillPart, NewBuys
    <3>4. h \in DOMAIN Index /\ Index[h] = d
      BY <1>0, <3>2, <3>3 DEF Lists, Range
    <3>5. h \notin G
      <4>1. ASSUME h \in G PROVE FALSE
        <5>1. h = Obj[Ref].uuid /\ Ref \notin InHand'
          BY <1>1, <4>1 DEF JoinTurn
        <5>2. IsBuy(d) /\ IsBuy(Ref)
          BY <1>0, <1>1, <3>2, <5>1 DEF Sides
        <5>3. d = Ref
          BY <1>0, <1>1, <3>2, <5>2 DEF OneBuy, BuysInHand
        <5> QED
          BY <2>4, <5>1, <5>3
      <4> QED
        BY <4>1
    <3> QED
      BY <1>0, <3>4, <3>5 DEF Joins, Range
  <2>5. \A d \in ListedBuys' \cup BuysInHand' : Meets(Obj[d].filled)'
    BY <2>2 DEF Meets
  <2> QED
    BY <2>1, <2>3, <2>4, <2>5 DEF NewBuys
<1> QED
  BY <1>7, <1>8, <1>9, <1>10, <1>11, <1>12, <1>13, <1>14, <1>15 DEF FillPart

LEMMA SellPlacedSells ==
    ASSUME Good, Good', FillPart, SellPlaced, ~raced'
    PROVE  FillPart'
<1>1. PICK u, b, w, n : u = job["loop"].hit /\ b = Obj[Ref].uuid /\ w = job["loop"].ans.exec /\ n = job["loop"].n
  OBVIOUS
<1> DEFINE e == LinkedSell(u, n, b)
           m == UpdateFill(AddOrder(mem, e), b, w)
<1>2. u \in Uuids \ DOMAIN Index
  BY <1>1 DEF SellPlaced, Reached, Has, Index, Good, Shapes, Actors, AnyUuid
<1>3. /\ ex' = ex /\ orphaned' = orphaned /\ loop' = loop /\ Pc = "sell" /\ Reached("loop") /\ SellDone(m)
  BY <1>1 DEF SellPlaced, Pc, Ord, Ref, Obj
<1>4. Ref # NoDict /\ Ref \in DOMAIN Obj
  <2>1. Ref # NoDict
    BY <1>3 DEF Good, Shapes, Actors, Pc, Ref
  <2> QED
    BY <2>1, InHandIsKnown DEF Good, MemoryPart, InHand
<1>5. e.uuid = u /\ e.kind = "sell" /\ e.vol = n /\ e.filled = 0 /\ e.of = b
  BY DEF LinkedSell
<1> HIDE DEF e
<1>6. /\ IsBuy(Ref) /\ Sold(b) + n <= w /\ w <= Bought(b) /\ w \in Nat /\ n \in Nat /\ Meets(w)
      /\ ~IsBid(u) /\ IsBid(b)
  BY <1>1, <1>3, <1>4 DEF FillPart, Selling, Amounts, NewBuys, Sides, Actors
<1>7. b # u
  BY <1>6
<1>8. Joins({}, u, e, b, w)
  <2>1. /\ mem.obj = Obj /\ DOMAIN mem.index = DOMAIN Index \ {}
        /\ \A v \in DOMAIN Index \ {} : mem.index[v] = Index[v]
    BY DEF Index, Obj
  <2>2. JoinedBy(AddOrder(mem, e), {}, u, e, u, 0)
    BY <1>2, <1>5, <2>1, AddOrderJoins
  <2>3. JoinedBy(m, {}, u, e, b, w)
    BY <1>2, <1>7, <2>2, UpdateFillJoins
  <2> QED
    BY <1>3, <2>3, JoinsOf DEF SellDone
<1> HIDE DEF m
<1>9. /\ job'["api"] = job["api"] /\ job'["loop"].ref \in {NoDict, Ref} /\ job'["loop"].pc \in {"free", "settle"}
      /\ job'["loop"].n \in Nat /\ job'["loop"].ans.exec \in Nat /\ job'["loop"].hit = Reserved
  <2>1. CASE Finish("loop")
    <3>1. job'["loop"] = NoJob /\ job'["api"] = job["api"]
      BY <2>1, FinishIs DEF Good, Goes, Actors
    <3> QED
      BY <3>1, NoJobSells
  <2>2. CASE Await("loop", "settle", Ref, job["loop"].ans, 0)
    <3>1. Goes("loop", "settle", Ref) /\ job'["loop"].ans = job["loop"].ans
      BY <2>2, AwaitIs DEF Good, Actors
    <3>2. job'["loop"].n = 0
      BY <2>2 DEF Await, NoJob, Good, Shapes, Actors
    <3> QED
      BY <1>1, <1>6, <3>1, <3>2 DEF Goes, Actors
  <2> QED
    BY <1>3, <2>1, <2>2 DEF SellDone, Ref
<1>10. JoinTurn({}, u, e, b, w)
  BY <1>1, <1>2, <1>3, <1>4, <1>5, <1>6, <1>8, <1>9 DEF JoinTurn
<1> QED
  BY <1>10, JoinTurnKeeps

LEMMA StopPlacedSells ==
    ASSUME Good, Good', FillPart, StopPlaced, ~raced'
    PROVE  FillPart'
<1>1. PICK u, x, n : u = job["loop"].hit /\ x = Obj[Ref].uuid /\ n = job["loop"].n
  OBVIOUS
<1> DEFINE e == [uuid |-> u, kind |-> "stop", vol |-> n, filled |-> 0, status |-> "placed", of |-> NoBuy]
           rest == RemoveOrder(mem, x)
<1>2. u \in Uuids \ DOMAIN Index
  BY <1>1 DEF StopPlaced, Reached, Has, Index, Good, Shapes, Actors, AnyUuid
<1>3. /\ ex' = ex /\ orphaned' = orphaned /\ loop' = loop /\ Pc = "place" /\ Reached("loop")
      /\ Finish("loop") /\ Memory(AddOrder(rest, e))
  BY <1>1 DEF StopPlaced, Pc, Ord, Ref, Obj
<1>4. Ref # NoDict
  BY <1>3 DEF Good, Shapes, Actors, Pc, Ref
<1>5. e.uuid = u /\ e.kind = "stop" /\ e.vol = n /\ e.filled = 0
  OBVIOUS
<1>6. rest.obj = Obj /\ DOMAIN rest.index = DOMAIN Index \ {x}
      /\ \A v \in DOMAIN Index \ {x} : rest.index[v] = Index[v]
  BY DEF RemoveOrder, Restrict, Index, Obj
<1> HIDE DEF e, rest
<1>7. Joins({x}, u, e, u, 0)
  BY <1>2, <1>3, <1>5, <1>6, AddOrderJoins, JoinsOf
<1>8. n \in Nat /\ ~IsBid(u)
  BY <1>1, <1>3 DEF FillPart, Amounts, Sides, Actors
<1>9. job'["loop"] = NoJob /\ job'["api"] = job["api"]
  BY <1>3, FinishIs DEF Good, Goes, Actors
<1>10. JoinTurn({x}, u, e, u, 0)
  BY <1>1, <1>2, <1>3, <1>4, <1>5, <1>7, <1>8, <1>9, NoJobSells DEF JoinTurn
<1> QED
  BY <1>10, JoinTurnKeeps

(***************************************************************************)
(* An order goes on under the uuid `new`.                                  *)
(***************************************************************************)
Renames(old, new) ==
    /\ old \in DOMAIN Index /\ DOMAIN Index' = (DOMAIN Index \ {old}) \cup {new} /\ Index'[new] = Index[old]
    /\ \A w \in (DOMAIN Index \ {old}) \ {new} : Index'[w] = Index[w]
    /\ Index[old] \in DOMAIN Obj' /\ Obj'[Index[old]].uuid = new /\ Obj'[Index[old]].of = old
    /\ \A d \in DOMAIN Obj' :
         /\ d \in DOMAIN Obj /\ Obj'[d].kind = Obj[d].kind /\ Obj'[d].vol = Obj[d].vol /\ Obj'[d].filled = Obj[d].filled
         /\ d # Index[old] => Obj'[d] = Obj[d]

RenameTurn(a, old, new) ==
    /\ ex' = ex /\ orphaned' = orphaned /\ loop' = loop
    /\ \A b \in Actors \ {a} : job'[b] = job[b]
    /\ job'[a] = NoJob /\ job[a].pc \in {"look", "create"}
    /\ Renames(old, new) /\ (IsBid(new) <=> IsBid(old))
    /\ new # old => /\ new \notin DOMAIN Index /\ Obj[Index[old]].status = "waiting"
                    /\ new \in orphaned \cup InFlight

LEMMA ReplaceRenames ==
    ASSUME Good, NEW old \in DOMAIN Index, NEW new, new = old \/ new \notin DOMAIN Index,
           Memory(ReplaceUuid(mem, old, new))
    PROVE  Renames(old, new)
<1> DEFINE d == Index[old]
           e == [Obj[d] EXCEPT !.uuid = new, !.of = old, !.status = "placed"]
           index == Put(Restrict(Index, DOMAIN Index \ {old}), new, d)
           obj == [Obj EXCEPT ![d] = e]
<1> DEFINE m == ReplaceUuid(mem, old, new)
<1>0. m.index = index /\ m.obj = obj
  BY SMTT(30) DEF ReplaceUuid, Has, Index, Obj
<1> HIDE DEF m
<1>1. Index' = index /\ DOMAIN Obj' = DOMAIN obj \cap (Held' \cup Range(index))
      /\ \A f \in DOMAIN Obj' : Obj'[f] = obj[f]
  <2>1. Memory(m)
    BY DEF m
  <2>2. /\ Index' = m.index /\ DOMAIN Obj' = DOMAIN m.obj \cap (Held' \cup Range(m.index))
        /\ \A f \in DOMAIN Obj' : Obj'[f] = m.obj[f]
    BY <2>1, MemoryIs
  <2> HIDE DEF index, obj
  <2> QED
    BY <1>0, <2>2
<1>2. d \in DOMAIN Obj /\ DOMAIN Obj[d] = EntryFields
  BY DEF Good, MemoryPart, Lists
<1>3. e.uuid = new /\ e.of = old /\ e.kind = Obj[d].kind /\ e.vol = Obj[d].vol /\ e.filled = Obj[d].filled
  BY <1>2 DEF EntryFields
<1>4. /\ DOMAIN index = (DOMAIN Index \ {old}) \cup {new} /\ index[new] = d
      /\ \A u \in (DOMAIN Index \ {old}) \ {new} : index[u] = Index[u]
  BY DEF Put, Restrict
<1> HIDE DEF e, index
<1>5. DOMAIN obj = DOMAIN Obj /\ obj[d] = e /\ \A f \in DOMAIN Obj \ {d} : obj[f] = Obj[f]
  BY <1>2
<1> HIDE DEF obj
<1>6. d \in DOMAIN Obj' /\ Obj'[d] = e
  BY <1>1, <1>2, <1>4, <1>5 DEF Range
<1>7. ASSUME NEW f \in DOMAIN Obj'
      PROVE  /\ f \in DOMAIN Obj /\ Obj'[f].kind = Obj[f].kind /\ Obj'[f].vol = Obj[f].vol /\ Obj'[f].filled = Obj[f].filled
             /\ f # d => Obj'[f] = Obj[f]
  <2>1. f \in DOMAIN Obj /\ Obj'[f] = obj[f]
    BY <1>1, <1>5
  <2>2. CASE f = d
    BY <1>3, <1>6, <2>1, <2>2
  <2>3. CASE f # d
    BY <1>5, <2>1, <2>3
  <2> QED
    BY <2>2, <2>3
<1> QED
  BY <1>1, <1>3, <1>4, <1>6, <1>7 DEF Renames

\* A buy in flight is a submission's.
LEMMA FlyingBuys ==
    ASSUME Good, Sides, NEW u \in InFlight, IsBid(u)
    PROVE  (Hits("loop") /\ job["loop"].hit = u) \/ (Hits("api") /\ job["api"].hit = u)
<1>1. PICK a \in Actors : u \in Lost(a)
  BY DEF InFlight
<1>2. job[a].pc \in Creating /\ job[a].hit = u /\ u # Reserved
  BY <1>1 DEF Lost
<1>3. CASE a = "loop"
  <2>1. job["loop"].pc \notin {"sell", "place"}
    BY <1>2, <1>3 DEF Sides, Reached, Pc
  <2> QED
    BY <1>2, <1>3, <2>1 DEF Creating, Hits, Reached
<1>4. CASE a = "api"
  <2>1. job["api"].pc \in ApiPcs
    BY DEF Good, Shapes
  <2> QED
    BY <1>2, <1>4, <2>1 DEF Creating, Hits, Reached, ApiPcs
<1> QED
  BY <1>3, <1>4 DEF Actors

LEMMA RenamedSold ==
    ASSUME Good, Good', FillPart, NEW a, NEW old, NEW new, RenameTurn(a, old, new)
    PROVE  \A b : Sold(b)' \in Nat /\ Sold(b) \in Nat /\ (IsBid(b) => Sold(b)' <= Sold(b))
<1>0. Renames(old, new) /\ Lists /\ Lists' /\ Amounts /\ Sides /\ (new = old \/ new \notin DOMAIN Index)
  BY DEF RenameTurn, Good, MemoryPart, FillPart
<1>1. \A b : Volumes(mem, b) /\ Sold(b) \in Nat
  BY <1>0, SoldIsNat
<1>2. ASSUME NEW w \in DOMAIN Index', w # new
      PROVE  w \in DOMAIN Index /\ Index'[w] = Index[w] /\ Obj'[Index[w]] = Obj[Index[w]]
  <2>1. w \in DOMAIN Index /\ w # old /\ Index'[w] = Index[w]
    BY <1>0, <1>2 DEF Renames
  <2>2. Index[w] # Index[old] /\ Index[w] \in DOMAIN Obj'
    BY <1>0, <2>1 DEF Lists, Renames
  <2> QED
    BY <1>0, <2>1, <2>2 DEF Renames
<1>3. ASSUME NEW b
      PROVE  Sold(b)' \in Nat /\ (IsBid(b) => Sold(b)' <= Sold(b))
  <2>1. ASSUME NEW w \in LinkedSells(mem', b), w # new
        PROVE  w \in LinkedSells(mem, b) /\ At(mem', w).vol = At(mem, w).vol
    <3>1. w \in DOMAIN Index' /\ Obj'[Index'[w]].kind = "sell" /\ Obj'[Index'[w]].of = b
      BY DEF LinkedSells, At, Index, Obj
    <3> QED
      BY <1>2, <2>1, <3>1 DEF LinkedSells, At, Index, Obj
  <2>2. ASSUME IsBid(b) PROVE new \notin LinkedSells(mem', b)
    <3>1. SUFFICES ASSUME new \in LinkedSells(mem', b) PROVE FALSE
      OBVIOUS
    <3>2. Obj'[Index[old]].kind = "sell" /\ b = old
      BY <1>0, <3>1 DEF LinkedSells, At, Index, Obj, Renames
    <3>3. Index[old] \in DOMAIN Obj /\ Obj[Index[old]].uuid = old /\ ~IsBuy(Index[old])
      BY <1>0, <3>2 DEF Renames, Lists, IsBuy
    <3> QED
      BY <1>0, <2>2, <3>2, <3>3 DEF Sides
  <2>3. PICK v \in Nat : At(mem', new).vol = v
    <3>1. Index[old] \in DOMAIN Obj /\ Obj[Index[old]].vol \in Nat /\ Obj'[Index[old]].vol = Obj[Index[old]].vol
      BY <1>0 DEF Amounts, Renames
    <3> QED
      BY <1>0, <3>1 DEF At, Index, Obj, Renames
  <2>4. Volumes(mem', b)
    BY <1>1, <2>1, <2>3, VolumeGrows
  <2>5. IsBid(b) => LinkedVolume(mem', b) <= LinkedVolume(mem, b)
    <3>1. ASSUME IsBid(b)
          PROVE  \A w \in LinkedSells(mem', b) : w \in LinkedSells(mem, b) /\ At(mem', w).vol = At(mem, w).vol
      BY <2>1, <2>2, <3>1
    <3> QED
      BY <1>1, <3>1, VolumeShrinks
  <2> QED
    BY <2>4, <2>5, VolumeIsNat DEF Sold
<1> QED
  BY <1>1, <1>3

LEMMA RenameHands ==
    ASSUME Good, Good', NEW a \in Actors, NEW old, NEW new, RenameTurn(a, old, new)
    PROVE  /\ Visited' = Visited /\ InHand' \subseteq InHand /\ Ref' \in {NoDict, Ref}
           /\ InHand' \subseteq DOMAIN Obj' /\ InHand \subseteq DOMAIN Obj
<1>1. Visited' = Visited
  BY DEF RenameTurn, Visited
<1>2. Ref' \in {NoDict, Ref}
  BY NoJobSells DEF RenameTurn, Ref, Actors
<1>3. InHand' \subseteq DOMAIN Obj' /\ InHand \subseteq DOMAIN Obj
  BY InHandIsKnown, InHandStaysKnown DEF Good, MemoryPart
<1> QED
  BY <1>1, <1>2, <1>3 DEF InHand

\* The dict of the renamed order is not one that the loop is acting on.
LEMMA RenamedApart ==
    ASSUME Good, FillPart, NEW a \in Actors, NEW old, NEW new, RenameTurn(a, old, new), new # old
    PROVE  Index[old] \notin DOMAIN loop.answers /\ (Pc' = "sell" => Ref # Index[old])
<1> DEFINE d == Index[old]
<1>1. d \in Range(Index) /\ Obj[d].status = "waiting"
  BY DEF RenameTurn, Renames, Range
<1>2. loop.phase = "scan" => d \notin ActedOn
  BY <1>1 DEF Good, ControlPart, NotWaiting
<1>3. d \notin DOMAIN loop.answers
  BY <1>2 DEF Good, ControlPart, AnswersHold, ActedOn, Queried
<1>4. ASSUME Pc' = "sell", Ref = d PROVE FALSE
  <2>1. a = "api" /\ Pc = "sell"
    BY <1>4, NoJobSells DEF RenameTurn, Pc, Actors
  <2>2. loop.phase = "recover"
    BY <1>2, <1>4, <2>1 DEF ActedOn, Acting, Good, Shapes
  <2>3. ~Idle /\ ~Free("api")
    BY <2>1 DEF RenameTurn, Idle, Free, Pc
  <2> QED
    BY <2>2, <2>3 DEF FillPart, Recovering
<1> QED
  BY <1>3, <1>4

LEMMA RenameTurnKeeps ==
    ASSUME Good, Good', FillPart, NEW a \in Actors, NEW old, NEW new, RenameTurn(a, old, new)
    PROVE  FillPart'
<1> DEFINE D == Index[old]
<1>0. /\ ex' = ex /\ orphaned' = orphaned /\ loop' = loop /\ Lists /\ Lists'
      /\ \A b \in Actors \ {a} : job'[b] = job[b]
      /\ job'[a].pc = "free" /\ job'[a].hit = Reserved /\ job'[a].n = 0 /\ job'[a].ans.exec = 0
      /\ Renames(old, new) /\ (IsBid(new) <=> IsBid(old))
      /\ Amounts /\ Sides /\ OneBuy
  BY NoJobSells DEF RenameTurn, Good, MemoryPart, FillPart
<1>1. /\ Visited' = Visited /\ InHand' \subseteq InHand /\ Ref' \in {NoDict, Ref}
      /\ InHand' \subseteq DOMAIN Obj' /\ InHand \subseteq DOMAIN Obj
  BY RenameHands
<1>2. \A b : Sold(b)' \in Nat /\ Sold(b) \in Nat /\ (IsBid(b) => Sold(b)' <= Sold(b))
  BY RenamedSold
<1>3. D \in DOMAIN Obj /\ D \in DOMAIN Obj' /\ Obj[D].uuid = old /\ Obj'[D].uuid = new /\ D \in Range(Index)
  BY <1>0 DEF Renames, Lists, Range
<1>4. \A d \in DOMAIN Obj' :
        /\ d \in DOMAIN Obj /\ (IsBuy(d)' <=> IsBuy(d)) /\ Obj'[d].vol = Obj[d].vol /\ Obj'[d].filled = Obj[d].filled
        /\ d # D => Obj'[d].uuid = Obj[d].uuid
  BY <1>0 DEF Renames, IsBuy
<1>5. \A b : (IsBid(b)' <=> IsBid(b)) /\ Bought(b)' = Bought(b)
  BY <1>0 DEF IsBid, Bought
<1>6. Range(Index') = Range(Index)
  <2>1. ASSUME NEW w \in DOMAIN Index PROVE Index[w] \in Range(Index')
    <3>1. CASE w = old
      BY <1>0, <3>1 DEF Renames, Range
    <3>2. CASE w # old
      <4>1. w # new
        BY <3>2 DEF RenameTurn
      <4> QED
        BY <1>0, <3>2, <4>1 DEF Renames, Range
    <3> QED
      BY <3>1, <3>2
  <2>2. ASSUME NEW w \in DOMAIN Index' PROVE Index'[w] \in Range(Index)
    BY <1>0 DEF Renames, Range
  <2> QED
    BY <2>1, <2>2 DEF Range
<1>7. ListedBuys' \subseteq ListedBuys /\ BuysInHand' \subseteq BuysInHand
  <2>1. \A d \in Range(Index') : d \in DOMAIN Obj'
    BY <1>0 DEF Lists, Range
  <2> QED
    BY <1>1, <1>4, <1>6, <2>1 DEF ListedBuys, BuysInHand
<1>8. Amounts'
  <2>1. \A u \in Uuids :
          /\ DOMAIN ex'[u] = OrderFields /\ ex'[u].exec \in Nat
          /\ ex'[u].state = "none" => ex'[u].side = "bid" /\ ex'[u].exec = 0
    BY <1>0 DEF Amounts
  <2>2. \A b \in Actors : job'[b].n \in Nat /\ job'[b].ans.exec \in Nat
    BY <1>0 DEF Amounts
  <2>3. \A d \in DOMAIN Obj' : Obj'[d].vol \in Nat /\ Obj'[d].filled \in Nat
    BY <1>0, <1>4 DEF Amounts
  <2> QED
    BY <1>0, <2>1, <2>2, <2>3 DEF Amounts
<1>9. Sides'
  <2>1. ASSUME NEW d \in DOMAIN Obj' PROVE (IsBuy(d) <=> IsBid(Obj[d].uuid))'
    <3>1. IsBuy(d) <=> IsBid(Obj[d].uuid)
      BY <1>0, <1>4 DEF Sides
    <3>2. IsBuy(d) <=> IsBid(Obj'[d].uuid)
      BY <1>0, <1>3, <1>4, <3>1
    <3> QED
      BY <1>0, <1>4, <3>2 DEF IsBid
  <2>2. ASSUME NEW b \in Actors, Hits(b)' PROVE (IsBid(job[b].hit) <=> IsBuy(job[b].ref))'
    <3>1. b # a /\ job'[b] = job[b]
      BY <1>0, <2>2 DEF Hits
    <3>2. Hits(b)
      BY <2>2, <3>1 DEF Hits, Reached
    <3>3. job[b].ref \in DOMAIN Obj'
      <4>1. job'[b].ref # NoDict
        BY <2>2 DEF Good, Shapes, Hits
      <4>2. job'[b].ref \in Held'
        BY DEF Held
      <4> QED
        BY <3>1, <4>1, <4>2 DEF Good, MemoryPart, Dictionaries
    <3>4. IsBid(job[b].hit) <=> IsBuy(job[b].ref)
      BY <1>0, <3>2 DEF Sides
    <3>5. IsBuy(job[b].ref)' <=> IsBuy(job[b].ref)
      BY <1>4, <3>1, <3>3 DEF IsBuy
    <3> QED
      BY <1>0, <3>1, <3>4, <3>5 DEF IsBid
  <2>3. ASSUME NEW b \in Actors, job'[b].pc = "look" PROVE ~Reached(b)'
    BY <1>0, <2>3 DEF Sides, Reached
  <2>4. ASSUME Pc' \in {"sell", "place"}, Reached("loop")' PROVE ~IsBid(job["loop"].hit)'
    <3>1. job'["loop"] = job["loop"]
      BY <1>0, <2>4 DEF Pc, Actors
    <3>2. ~IsBid(job["loop"].hit)
      BY <1>0, <2>4, <3>1 DEF Sides, Pc, Reached
    <3> QED
      BY <1>0, <3>1, <3>2 DEF IsBid
  <2> QED
    BY <2>1, <2>2, <2>3, <2>4 DEF Sides, IsBuy, IsBid, Hits, Reached
<1>10. OneBuy'
  BY <1>0, <1>7 DEF OneBuy
<1>11. Recovering'
  <2>1. ASSUME loop.phase = "recover" PROVE (Idle' \/ Free("api")') /\ \A d \in loop.todo : IsBuy(d)
    <3>1. ~Free(a) /\ Free(a)'
      BY <1>0 DEF RenameTurn, Free
    <3>2. CASE a = "loop"
      <4>1. Free("api")
        BY <2>1, <3>1, <3>2 DEF FillPart, Recovering, Idle
      <4> QED
        BY <1>0, <2>1, <3>2, <4>1 DEF FillPart, Recovering, Free, Actors
    <3>3. CASE a = "api"
      BY <2>1, <3>1, <3>3 DEF FillPart, Recovering
    <3> QED
      BY <3>2, <3>3 DEF Actors
  <2>2. \A d \in loop.todo : d \in DOMAIN Obj'
    <3>1. \A d \in loop.todo : d \in Visited'
      BY <1>1 DEF Visited
    <3> QED
      BY <1>1, <3>1 DEF InHand
  <2> QED
    BY <1>0, <1>4, <2>1, <2>2 DEF Recovering
<1>12. SoldWithinBought'
  <2>1. ASSUME NEW b \in AnyUuid, IsBid(b)' PROVE Sold(b)' <= Bought(b)'
    <3>1. IsBid(b) /\ Bought(b)' = Bought(b) /\ Bought(b) \in Nat
      BY <1>0, <1>5, <2>1 DEF Bought, Amounts
    <3>2. Sold(b) <= Bought(b)
      BY <3>1 DEF FillPart, SoldWithinBought
    <3>3. Sold(b)' <= Sold(b) /\ Sold(b)' \in Nat /\ Sold(b) \in Nat
      BY <1>2, <3>1
    <3> QED
      BY <3>1, <3>2, <3>3
  <2> QED
    BY <2>1 DEF SoldWithinBought
<1>13. SoldWithinFill'
  <2>1. ASSUME NEW b \in DOMAIN Index', IsBid(b)', b \notin orphaned'
        PROVE  Sold(b)' <= Obj'[Index'[b]].filled
    <3>1. IsBid(b) /\ b \notin orphaned /\ Sold(b)' <= Sold(b) /\ Sold(b)' \in Nat /\ Sold(b) \in Nat
      BY <1>0, <1>2, <1>5, <2>1
    <3>2. PICK d : d = Index'[b]
      OBVIOUS
    <3>3. d \in DOMAIN Obj' /\ Obj'[d].filled = Obj[d].filled /\ Obj[d].filled \in Nat /\ d \in DOMAIN Obj
      BY <1>0, <1>4, <3>2 DEF Lists, Amounts
    <3>4. CASE b \in DOMAIN Index /\ d = Index[b]
      BY <3>1, <3>2, <3>3, <3>4 DEF FillPart, SoldWithinFill, At, Index, Obj
    <3>5. CASE ~(b \in DOMAIN Index /\ d = Index[b])
      <4>1. b = new /\ d = D /\ new # old
        BY <1>0, <3>2, <3>5 DEF Renames
      <4>2. new \in InFlight
        BY <3>1, <4>1 DEF RenameTurn
      <4>3. (Hits("loop") /\ job["loop"].hit = new) \/ (Hits("api") /\ job["api"].hit = new)
        BY <1>0, <3>1, <4>1, <4>2, FlyingBuys
      <4>4. CASE Hits("loop") /\ job["loop"].hit = new
        <5>1. Sold(new) = 0
          BY <3>1, <4>1, <4>4 DEF FillPart, NewBuys
        <5> QED
          BY <3>1, <3>2, <3>3, <4>1, <5>1
      <4>5. CASE Hits("api") /\ job["api"].hit = new
        <5>1. IsBuy(D) /\ D \in ListedBuys
          BY <1>0, <1>3, <3>1, <4>1 DEF Sides, ListedBuys
        <5>2. Sold(new) <= Obj[D].filled
          BY <3>1, <4>1, <4>5, <5>1 DEF FillPart, NewBuys, Meets
        <5> QED
          BY <3>1, <3>2, <3>3, <4>1, <5>2
      <4> QED
        BY <4>3, <4>4, <4>5
    <3> QED
      BY <3>4, <3>5
  <2> QED
    BY <2>1 DEF SoldWithinFill, At, Index, Obj
<1>14. SoldWithinAnswers'
  <2>1. ASSUME NEW f \in DOMAIN loop.answers, IsBid(Obj[f].uuid)', loop.answers[f] # NoAnswer
        PROVE  /\ Sold(Obj[f].uuid)' <= loop.answers[f].exec
               /\ loop.answers[f].exec <= Bought(Obj[f].uuid)'
    <3>1. PICK b : b = Obj[f].uuid
      OBVIOUS
    <3>2. f \in DOMAIN Obj' /\ f \in DOMAIN Obj
      BY <1>1, <1>4 DEF Visited, InHand
    <3>3. Obj'[f].uuid = b
      BY <1>3, <1>4, <3>1, <3>2, RenamedApart
    <3>4. IsBid(b) /\ Bought(b)' = Bought(b) /\ Bought(b) \in Nat
      BY <1>0, <1>5, <2>1, <3>3 DEF IsBid, Bought, Amounts
    <3>5. Sold(b) <= loop.answers[f].exec /\ loop.answers[f].exec <= Bought(b) /\ loop.answers[f].exec \in Nat
      BY <1>0, <2>1, <3>1, <3>4 DEF FillPart, SoldWithinAnswers, Amounts
    <3>6. Sold(b)' <= Sold(b) /\ Sold(b)' \in Nat /\ Sold(b) \in Nat
      BY <1>2, <3>4
    <3>7. Sold(b)' <= loop.answers[f].exec
      BY <3>5, <3>6
    <3> QED
      BY <3>3, <3>4, <3>5, <3>7 DEF Sold, Bought
  <2> QED
    BY <1>0, <2>1 DEF SoldWithinAnswers
<1>15. Selling'
  <2>1. ASSUME Pc' = "sell"
        PROVE  /\ IsBuy(Ref)'
               /\ Sold(Obj[Ref].uuid)' + job'["loop"].n <= job'["loop"].ans.exec
               /\ job'["loop"].ans.exec <= Bought(Obj[Ref].uuid)'
    <3>1. PICK b : b = Obj[Ref].uuid
      OBVIOUS
    <3>2. job'["loop"] = job["loop"] /\ Pc = "sell" /\ Ref' = Ref
      BY <1>0, <2>1 DEF Pc, Ref, Actors
    <3>3. /\ IsBuy(Ref) /\ Sold(b) + job["loop"].n <= job["loop"].ans.exec /\ job["loop"].ans.exec <= Bought(b)
          /\ job["loop"].n \in Nat /\ job["loop"].ans.exec \in Nat
      BY <1>0, <3>1, <3>2 DEF FillPart, Selling, Amounts, Actors
    <3>4. Ref \in DOMAIN Obj' /\ Ref \in DOMAIN Obj
      <4>1. Ref # NoDict
        BY <3>2 DEF Good, Shapes, Actors, Pc, Ref
      <4> QED
        BY <1>1, <1>4, <3>2, <4>1 DEF InHand
    <3>5. Obj'[Ref].uuid = b
      BY <1>3, <1>4, <2>1, <3>1, <3>4, RenamedApart
    <3>6. IsBid(b)
      BY <1>0, <3>1, <3>3, <3>4 DEF Sides
    <3>7. Sold(b)' <= Sold(b) /\ Sold(b)' \in Nat /\ Sold(b) \in Nat
      BY <1>2, <3>6
    <3>8. Sold(b)' + job["loop"].n <= job["loop"].ans.exec
      BY <3>3, <3>7
    <3>9. IsBuy(Ref)' /\ Bought(b)' = Bought(b)
      BY <1>4, <1>5, <3>2, <3>3, <3>4 DEF IsBuy
    <3> QED
      BY <3>2, <3>3, <3>5, <3>8, <3>9 DEF IsBuy, Sold, Bought
  <2> QED
    BY <2>1 DEF Selling
<1>16. ASSUME NEW v \in Nat, Meets(v) PROVE Meets(v)'
  <2>1. ASSUME Hits("api")', IsBid(job["api"].hit)', job'["api"].hit \notin orphaned' PROVE Sold(job["api"].hit)' <= v
    <3>1. PICK h : h = job'["api"].hit
      OBVIOUS
    <3>2. job'["api"] = job["api"]
      BY <1>0, <2>1 DEF Hits, Reached, Actors
    <3>3. Hits("api") /\ h = job["api"].hit /\ IsBid(h) /\ h \notin orphaned
      BY <1>0, <1>5, <2>1, <3>1, <3>2 DEF Hits, Reached, IsBid
    <3>4. Sold(h) <= v
      BY <1>16, <3>3 DEF Meets
    <3>5. Sold(h)' <= Sold(h) /\ Sold(h)' \in Nat /\ Sold(h) \in Nat
      BY <1>2, <3>3
    <3>6. Sold(h)' <= v
      BY <3>4, <3>5
    <3> QED
      BY <3>1, <3>6 DEF Sold
  <2> QED
    BY <2>1 DEF Meets
<1>17. NewBuys'
  <2>1. ASSUME Hits("loop")', IsBid(job["loop"].hit)' PROVE Sold(job["loop"].hit)' = 0
    <3>1. PICK h : h = job'["loop"].hit
      OBVIOUS
    <3>2. job'["loop"] = job["loop"]
      BY <1>0, <2>1 DEF Hits, Reached, Actors
    <3>3. Hits("loop") /\ h = job["loop"].hit /\ IsBid(h)
      BY <1>0, <2>1, <3>1, <3>2 DEF Hits, Reached, IsBid
    <3>4. Sold(h) = 0
      BY <3>3 DEF FillPart, NewBuys
    <3>5. Sold(h)' <= Sold(h) /\ Sold(h)' \in Nat
      BY <1>2, <3>3
    <3>6. Sold(h)' = 0
      BY <3>4, <3>5
    <3> QED
      BY <3>1, <3>6 DEF Sold
  <2>2. ASSUME NEW d \in ListedBuys' \cup BuysInHand' PROVE Meets(Obj[d].filled)'
    <3>1. PICK f : f = Obj[d].filled
      OBVIOUS
    <3>2. d \in DOMAIN Obj' /\ d \in ListedBuys \cup BuysInHand
      BY <1>0, <1>1, <1>7, <2>2 DEF ListedBuys, BuysInHand, Lists, Range
    <3>3. Obj'[d].filled = f /\ f \in Nat /\ Meets(f)
      BY <1>0, <1>4, <3>1, <3>2 DEF FillPart, NewBuys, Amounts
    <3>4. Meets(f)'
      BY <1>16, <3>3
    <3> QED
      BY <3>3, <3>4 DEF Meets
  <2>3. Pc' = "sell" => Meets(job["loop"].ans.exec)'
    <3>1. PICK f : f = job["loop"].ans.exec
      OBVIOUS
    <3>2. ASSUME Pc' = "sell" PROVE Meets(f)' /\ job'["loop"].ans.exec = f
      <4>1. job'["loop"] = job["loop"] /\ Pc = "sell"
        BY <1>0, <3>2 DEF Pc, Actors
      <4>2. f \in Nat /\ Meets(f)
        BY <1>0, <3>1, <4>1 DEF FillPart, NewBuys, Amounts, Actors
      <4> QED
        BY <1>16, <3>1, <4>1, <4>2
    <3> QED
      BY <3>2 DEF Meets
  <2>4. ASSUME Hits("api")', IsBid(job["api"].hit)', NEW d \in InHand', Obj'[d].uuid = job'["api"].hit
        PROVE  d \in Range(Index')
    <3>1. CASE d = D
      BY <1>3, <1>6, <3>1
    <3>2. CASE d # D
      <4>1. job'["api"] = job["api"]
        BY <1>0, <2>4 DEF Hits, Reached, Actors
      <4>2. Hits("api") /\ IsBid(job["api"].hit) /\ d \in InHand /\ Obj[d].uuid = job["api"].hit
        BY <1>0, <1>1, <1>4, <2>4, <3>2, <4>1 DEF Hits, Reached, IsBid
      <4> QED
        BY <1>6, <4>2 DEF FillPart, NewBuys
    <3> QED
      BY <3>1, <3>2
  <2> QED
    BY <2>1, <2>2, <2>3, <2>4 DEF NewBuys
<1> QED
  BY <1>8, <1>9, <1>10, <1>11, <1>12, <1>13, <1>14, <1>15, <1>17 DEF FillPart

LEMMA ReplacedSells ==
    ASSUME Good, Good', FillPart, NEW a \in Actors, Quiet, orphaned' = orphaned, loop' = loop,
           job[a].pc \in {"look", "create"}, Finish(a),
           NEW new \in Uuids, ex[new].state # "none", Lost(a) \subseteq {new}, IsBid(new) <=> IsBuy(job[a].ref),
           Live(new) \/ new \in Lost(a),
           Replaced(Obj[job[a].ref], new), ~raced', Memory(ReplaceUuid(mem, Obj[job[a].ref].uuid, new))
    PROVE  FillPart'
<1> DEFINE e == Obj[job[a].ref]
<1>1. job[a].ref # NoDict /\ job[a].ref \in DOMAIN Obj
  BY DEF Good, Shapes, MemoryPart, Dictionaries, Held
<1>2. job'[a] = NoJob /\ \A b \in Actors \ {a} : job'[b] = job[b]
  BY FinishIs DEF Good, Goes
<1>3. PICK old : old = e.uuid
  OBVIOUS
<1>4. new = old \/ (~Overtaken(e) /\ new \notin DOMAIN Index)
  BY <1>3 DEF Replaced, Has, Index
<1>5. CASE old \in DOMAIN Index
  <2>1. Renames(old, new)
    BY <1>3, <1>4, <1>5, ReplaceRenames
  <2>2. IsBid(new) <=> IsBid(old)
    BY <1>1, <1>3 DEF FillPart, Sides
  <2>3. new # old => Obj[Index[old]].status = "waiting"
    BY <1>3, <1>4, NotOvertaken
  <2>4. new # old => new \in orphaned \cup InFlight
    <3>1. new \in Lost(a) => new \in InFlight
      BY DEF InFlight
    <3>2. Live(new) /\ new \notin DOMAIN Index => new \in orphaned \cup InFlight
      BY DEF Good, MemoryPart, Tracked, Has, Index
    <3> QED
      BY <1>4, <3>1, <3>2
  <2>5. RenameTurn(a, old, new)
    BY <1>2, <1>4, <2>1, <2>2, <2>3, <2>4 DEF RenameTurn, Quiet
  <2> QED
    BY <2>5, RenameTurnKeeps
<1>6. CASE old \notin DOMAIN Index
  <2>1. Memory(mem) /\ new = old
    BY <1>3, <1>4, <1>6, NotOvertaken DEF ReplaceUuid, Has, Index
  <2>2. CASE a = "api"
    BY <2>1, <2>2, ApiLets DEF Quiet
  <2>3. CASE a = "loop"
    <3>1. Ref \in InHand /\ Ref \notin Visited
      BY <1>1, <2>3 DEF InHand, Ref, Good, ControlPart, Apart
    <3>2. Clear(new)'
      <4>1. Clear(new)
        BY <1>1, <1>3, <1>6, <2>1 DEF Good, MemoryPart, KnownAreTracked, Has, Index
      <4> QED
        BY <4>1, ClearKept
    <3>3. On(Ref)
      BY <2>3, <3>1, <3>2 DEF On, Visited, Settled
    <3>4. Like(mem, {}, NoBuy, 0) /\ Writes(NoBuy, 0)
      BY MemStays DEF Good, MemoryPart
    <3> QED
      BY <2>1, <2>3, <3>3, <3>4, LoopStops
  <2> QED
    BY <2>2, <2>3 DEF Actors
<1> QED
  BY <1>5, <1>6

LEMMA AdoptOpenOrderSells ==
    ASSUME Good, Good', FillPart, NEW a \in Actors, AdoptOpenOrder(a), ~raced'
    PROVE  FillPart'
<1>1. PICK u \in Uuids : /\ Live(u) /\ ex[u].side = Side(Ord(a).kind) /\ Replaced(Ord(a), u) /\ Finish(a)
                         /\ Memory(ReplaceUuid(mem, Ord(a).uuid, u))
  BY DEF AdoptOpenOrder
<1>2. Quiet /\ loop' = loop /\ job[a].pc = "look" /\ Lost(a) = {} /\ orphaned' = orphaned
  BY <1>1, QuietStands DEF AdoptOpenOrder, Replaced, bounds, Lost, Creating
<1>3. ex[u].state # "none"
  BY <1>1 DEF Live
<1>4. IsBid(u) <=> IsBuy(job[a].ref)
  BY <1>1 DEF Side, IsBid, IsBuy, Ord, Obj
<1> QED
  BY <1>1, <1>2, <1>3, <1>4, ReplacedSells DEF Ord, Obj

LEMMA OrderSubmittedSells ==
    ASSUME Good, Good', FillPart, NEW a \in Actors, OrderSubmitted(a), ~raced'
    PROVE  FillPart'
<1>1. PICK u : u = job[a].hit
  OBVIOUS
<1>2. u \in Uuids /\ ex[u].state # "none" /\ Lost(a) = {u}
  BY <1>1 DEF OrderSubmitted, Reached, Good, Shapes, MemoryPart, PlacedOnes, AnyUuid, Lost, Creating
<1>3. Quiet /\ loop' = loop /\ job[a].pc = "create" /\ Finish(a) /\ Replaced(Ord(a), u)
      /\ Memory(ReplaceUuid(mem, Ord(a).uuid, u)) /\ orphaned' = orphaned
  BY <1>1, QuietStands DEF OrderSubmitted, Replaced, bounds
<1>4. IsBid(u) <=> IsBuy(job[a].ref)
  BY <1>1 DEF OrderSubmitted, FillPart, Sides, Hits
<1> QED
  BY <1>2, <1>3, <1>4, ReplacedSells DEF Ord, Obj

(***************************************************************************)
(* All steps together.                                                     *)
(***************************************************************************)
LEMMA InitFills == Init => FillPart
<1> SUFFICES ASSUME Init PROVE FillPart
  OBVIOUS
<1>1. /\ Volume \in Nat /\ Reserved \notin Uuids /\ 1 # NoDict
  BY SyncAssumption DEF Reserved, Uuids, NoDict
<1>2. PICK u \in {1} \cup (IF reserving THEN {Reserved} ELSE {}) :
        /\ ex = [v \in Uuids |-> IF v = u THEN NewOrder("bid", Volume) ELSE Unplaced]
        /\ mem = [index |-> [v \in {u} |-> 1],
                  obj |-> [d \in {1} |->
                     [uuid |-> u, kind |-> "buy", vol |-> Volume, filled |-> 0,
                      status |-> IF u = Reserved THEN "waiting" ELSE "placed",
                      of |-> NoBuy]]]
  BY DEF Init
<1>3. /\ DOMAIN Index = {u} /\ Index[u] = 1 /\ DOMAIN Obj = {1} /\ Obj[1].uuid = u /\ Obj[1].kind = "buy"
      /\ Obj[1].vol = Volume /\ Obj[1].filled = 0
  BY <1>2 DEF Index, Obj
<1>4. \A v \in Uuids : DOMAIN ex[v] = OrderFields /\ ex[v].exec = 0 /\ ex[v].side = "bid"
  BY <1>2 DEF NewOrder, Unplaced, OrderFields
<1>5. /\ loop.phase = "scan" /\ loop.todo = {} /\ loop.asked = {} /\ DOMAIN loop.answers = {}
  BY DEF Init, NothingToDo
<1>6. \A a \in Actors : /\ job[a].pc = "free" /\ job[a].ref = NoDict /\ job[a].hit = Reserved
                        /\ job[a].n = 0 /\ job[a].ans.exec = 0
  BY NoJobSells DEF Init
<1>7. Ref = NoDict /\ Pc = "free" /\ Visited = {} /\ InHand = {} /\ BuysInHand = {}
  BY <1>5, <1>6 DEF Ref, Pc, Visited, InHand, BuysInHand, Actors
<1>8. ASSUME NEW b PROVE Sold(b) = 0 /\ IsBid(b)
  <2>1. LinkedSells(mem, b) = {}
    BY <1>3 DEF LinkedSells, At, Index, Obj
  <2> QED
    BY <1>4, <2>1, NoVolume DEF Sold, IsBid
<1>9. Amounts
  BY <1>1, <1>3, <1>4, <1>5, <1>6 DEF Amounts
<1>10. Sides
  BY <1>3, <1>6, <1>7, <1>8 DEF Sides, Hits, Reached, IsBuy, Actors
<1>11. OneBuy
  BY <1>3, <1>7 DEF OneBuy, ListedBuys, Range
<1>12. Recovering /\ Selling
  BY <1>5, <1>7 DEF Recovering, Selling
<1>13. SoldWithinBought
  BY <1>4, <1>8 DEF SoldWithinBought, Bought
<1>14. SoldWithinFill
  BY <1>3, <1>8 DEF SoldWithinFill, At, Index, Obj
<1>15. SoldWithinAnswers
  BY <1>5 DEF SoldWithinAnswers
<1>16. NewBuys
  BY <1>6, <1>7 DEF NewBuys, Meets, Hits, Actors
<1> QED
  BY <1>9, <1>10, <1>11, <1>12, <1>13, <1>14, <1>15, <1>16 DEF FillPart

LEMMA SameFills ==
    ASSUME Good, Good', FillPart, UNCHANGED vars
    PROVE  FillPart'
<1>1. mem' = mem /\ loop' = loop /\ orphaned' = orphaned /\ job' = job /\ ex' = ex
  BY DEF vars, hist
<1>2. \A u \in Uuids :
        /\ DOMAIN ex[u] = OrderFields /\ ex[u].exec \in Nat /\ ex[u].exec <= ex[u].exec
        /\ ex[u].state = "none" => ex[u].side = "bid" /\ ex[u].exec = 0
  BY DEF FillPart, Amounts
<1> QED
  BY <1>1, <1>2, OldOrdersSells

LEMMA CycleFills == ASSUME Good, Good', FillPart, CycleStep PROVE FillPart'
  BY StartCycleSells, ScanSells, RecoverSells, QuerySells, ForgottenSells, UnansweredSells, ProcessSells
  DEF CycleStep

LEMMA OrderFills ==
    ASSUME Good, Good', FillPart, ~raced', SellStep \/ SettleStep \/ AskBeforeCancel \/ StopStep
    PROVE  FillPart'
  BY SellPlacedSells, SellFailsSells, SellSkippedSells, SettleOrderSells, DropOrderSells, MessageFailsSells,
     AskBeforeCancelSells, StopCancelledSells, StopNotCancelledSells, StopPlacedSells, StopFailsSells
  DEF SellStep, SettleStep, StopStep

LEMMA ActorFills ==
    ASSUME Good, Good', FillPart, ~raced', NEW a \in Actors, Arrive(a) \/ SubmitStep(a) \/ CancelStep(a)
    PROVE  FillPart'
<1>1. CASE Arrive(a)
  BY <1>1, CreateArrivesSells, CancelArrivesSells DEF Arrive
<1>2. CASE SubmitStep(a)
  BY <1>2, AdoptOpenOrderSells, OrderSubmittedSells, LoopCreatesSells, ApiCreatesSells, LoopSubmitFailsSells,
     ApiSubmitFailsSells
  DEF SubmitStep, Actors
<1>3. CASE CancelStep(a)
  BY <1>3, LoopCancelAcceptedSells, ApiCancelAcceptedSells, LoopRechecksSells, ApiRechecksSells,
     LoopRecheckSells, ApiRecheckSells
  DEF CancelStep, Actors
<1> QED
  BY <1>1, <1>2, <1>3

LEMMA StepFills ==
    ASSUME SyncInv, SyncInv', FillInv, [Next]_vars
    PROVE  FillInv'
<1>1. SUFFICES ASSUME ~raced' PROVE FillPart'
  BY DEF FillInv
<1>2. Good'
  BY <1>1 DEF SyncInv, Good
<1>3. ~raced
  <2>1. UNCHANGED vars => raced' = raced
    BY DEF vars, hist
  <2> QED
    BY <1>1, <2>1, RacedStays
<1>4. Good /\ FillPart
  BY <1>3 DEF SyncInv, FillInv, Good
<1>5. CASE UNCHANGED vars
  BY <1>2, <1>4, <1>5, SameFills
<1>6. CASE Exchange
  BY <1>2, <1>4, <1>6, FillSomeSells, CancelledThereSells DEF Exchange
<1>7. CASE CycleStep
  BY <1>2, <1>4, <1>7, CycleFills
<1>8. CASE SellStep \/ SettleStep \/ AskBeforeCancel \/ StopStep
  BY <1>1, <1>2, <1>4, <1>8, OrderFills
<1>9. CASE \E a \in Actors : Arrive(a) \/ SubmitStep(a) \/ CancelStep(a)
  BY <1>1, <1>2, <1>4, <1>9, ActorFills
<1>10. CASE RequestStep
  BY <1>2, <1>4, <1>10, CancelRequestSells, SyncRequestSells, SubmitOnRequestSells, QueryOnRequestSells
  DEF RequestStep
<1>11. CASE Crash
  BY <1>2, <1>4, <1>11, CrashSells
<1> QED
  BY <1>5, <1>6, <1>7, <1>8, <1>9, <1>10, <1>11 DEF Next

\* Whatever the constants, what was sold for a buy stays within what it has bought,
\* and within what is written down for it.
THEOREM FillInvHolds == Spec => [](SyncInv /\ FillInv)
<1>1. Init => FillInv
  BY InitFills DEF FillInv
<1>2. SyncInv /\ SyncInv' /\ FillInv /\ [Next]_vars => FillInv'
  BY StepFills
<1> QED
  BY <1>1, <1>2, SyncInvHolds, PTL DEF Spec

\* Until two submissions of one order have met, the sells tracked for a tracked buy
\* never add up to more than the fill that is written down for it, whatever the
\* loop, a request, the exchange and restarts do between two awaits of
\* _create_linked_sell_order and its callers.
THEOREM SellsCovered == Spec => []SellsWithinFill
<1>1. SyncInv /\ FillInv => SellsWithinFill
  <2> SUFFICES ASSUME SyncInv, FillInv, ~raced, NEW b \in DOMAIN mem.index, At(mem, b).kind = "buy", b \notin orphaned
               PROVE  LinkedVolume(mem, b) <= At(mem, b).filled
    BY DEF SellsWithinFill
  <2>1. Lists /\ Sides /\ SoldWithinFill
    BY DEF SyncInv, MemoryPart, FillInv, FillPart
  <2>2. b \in DOMAIN Index /\ Index[b] \in DOMAIN Obj /\ Obj[Index[b]].uuid = b /\ IsBuy(Index[b])
    BY <2>1 DEF Lists, At, Index, Obj, IsBuy
  <2>3. IsBid(b)
    BY <2>1, <2>2 DEF Sides
  <2> QED
    BY <2>1, <2>2, <2>3 DEF SoldWithinFill, Sold
<1> QED
  BY <1>1, FillInvHolds, PTL

(***************************************************************************)
(* Types.  They hold also after two submissions of one order have met.     *)
(***************************************************************************)
ExOrders == [state: {"none", "wait", "done", "cancel"}, side: {"bid", "ask"}, vol: 0..Volume, exec: 0..Volume]
Jobs == [pc: Pcs, ref: {NoDict} \cup Dicts, ans: Answered1, n: 0..Volume, tries: Nat,
         u: AnyUuid, own: AnyUuid, hit: AnyUuid]

\* An order that is open has something left to fill.
OrdersTyped == ex \in [Uuids -> ExOrders] /\ \A u \in Uuids : Live(u) => ex[u].exec < ex[u].vol

\* The list m is typed; what is not placed yet waits, or its cancel was asked for.
Typed(m) ==
    /\ DOMAIN m.index \subseteq AnyUuid /\ DOMAIN m.obj \subseteq Dicts
    /\ \A d \in DOMAIN m.obj :
         /\ m.obj[d] \in Entries
         /\ m.obj[d].uuid = Reserved => reserving /\ m.obj[d].status \in {"waiting", "cancel_requested"}
    /\ \A u \in DOMAIN m.index : m.index[u] \in DOMAIN m.obj /\ m.obj[m.index[u]].uuid = u

\* An order that has been placed: of those in the hands of these steps the exchange answers.
Placed(m, d) == m.obj[d].uuid \in Uuids
OfPlaced == {"sell", "settle", "drop", "ask"}

LoopTyped ==
    /\ DOMAIN loop = LoopFields /\ loop.phase \in {"recover", "scan"}
    /\ \A d \in DOMAIN loop.answers : loop.answers[d] \in Answered1
    /\ loop.todo \cap Queried = {} /\ loop.asked \cap DOMAIN loop.answers = {}
    /\ NoDict \notin Visited /\ Ref \notin Visited /\ Cardinality(InHand) <= MaxOrders + 1
    /\ \A d \in Queried : Placed(mem, d)

JobsTyped ==
    /\ job \in [Actors -> Jobs]
    /\ \A a \in Actors :
         /\ job[a].pc = "free" <=> job[a].ref = NoDict
         /\ job[a].pc \in OfPlaced => Placed(mem, job[a].ref)

HeldTyped ==
    /\ Held \ {NoDict} \subseteq DOMAIN Obj
    /\ DOMAIN Obj \subseteq Held \cup Range(Index)

HistTyped ==
    /\ fails \in [{"status", "reorder"} -> [AnyUuid -> 0..(FailLimit - 1)]]
    /\ log \in [Actors -> [AnyUuid -> Nat]] /\ source \in [Uuids -> {NoBuy} \cup AnyUuid]
    /\ waived \subseteq AnyUuid \X Reasons /\ orphaned \subseteq Uuids /\ raced \in BOOLEAN

TypeInv ==
    /\ reserving \in BOOLEAN
    /\ OrdersTyped /\ Typed(mem) /\ LoopTyped /\ JobsTyped /\ HeldTyped /\ HistTyped

(***************************************************************************)
(* What a stretch of code makes of the list is typed, and has the dicts.   *)
(***************************************************************************)
Fits(m) == Typed(m) /\ \A d \in DOMAIN Obj : d \in DOMAIN m.obj /\ (Placed(mem, d) => Placed(m, d))

LEMMA FitsMem == ASSUME Typed(mem) PROVE Fits(mem)
  BY DEF Fits, Obj

LEMMA EntryFilled ==
    ASSUME NEW e \in Entries, NEW v \in 0..Volume, NEW f, f = [e EXCEPT !.filled = v, !.status = "placed"]
    PROVE  f \in Entries /\ f.uuid = e.uuid
  BY DEF Entries, Statuses

LEMMA EntryMarked ==
    ASSUME NEW e \in Entries, NEW s \in Statuses, NEW f, f = [e EXCEPT !.status = s]
    PROVE  f \in Entries /\ f.uuid = e.uuid /\ f.status = s
  BY DEF Entries

LEMMA FitsRewritten ==
    ASSUME NEW m, Fits(m), NEW d \in DOMAIN m.obj, NEW e \in Entries, e.uuid = m.obj[d].uuid,
           e.uuid = Reserved => reserving /\ e.status \in {"waiting", "cancel_requested"}
    PROVE  Fits(Rewritten(m, d, e))
<1> DEFINE n == Rewritten(m, d, e)
<1>1. n.index = m.index /\ DOMAIN n.obj = DOMAIN m.obj /\ n.obj[d] = e
      /\ \A f \in DOMAIN m.obj \ {d} : n.obj[f] = m.obj[f]
  BY DEF Rewritten
<1> HIDE DEF n
<1>2. \A f \in DOMAIN m.obj : n.obj[f].uuid = m.obj[f].uuid
  BY <1>1
<1>3. Typed(n)
  BY <1>1, <1>2 DEF Fits, Typed
<1>4. \A f \in DOMAIN Obj : f \in DOMAIN n.obj /\ (Placed(mem, f) => Placed(n, f))
  BY <1>1, <1>2 DEF Fits, Placed
<1> QED
  BY <1>3, <1>4 DEF Fits, n

LEMMA FitsFill ==
    ASSUME NEW m, Fits(m), NEW u \in Uuids, NEW v \in 0..Volume
    PROVE  Fits(UpdateFill(m, u, v))
<1>1. CASE ~Has(m, u)
  BY <1>1 DEF UpdateFill
<1>2. CASE Has(m, u)
  <2> DEFINE d == m.index[u]
             e == [At(m, u) EXCEPT !.filled = v, !.status = "placed"]
  <2>1. d \in DOMAIN m.obj /\ At(m, u) = m.obj[d] /\ m.obj[d] \in Entries /\ m.obj[d].uuid = u
    BY <1>2 DEF Has, At, Fits, Typed
  <2>2. e \in Entries /\ e.uuid = m.obj[d].uuid
    <3>1. e = [m.obj[d] EXCEPT !.filled = v, !.status = "placed"]
      BY <2>1
    <3> HIDE DEF e
    <3> QED
      BY <2>1, <3>1, EntryFilled
  <2>3. e.uuid # Reserved
    BY <2>1, <2>2, SyncAssumption DEF Uuids, Reserved
  <2> HIDE DEF e
  <2>4. Fits(Rewritten(m, d, e))
    BY <2>1, <2>2, <2>3, FitsRewritten
  <2> QED
    BY <1>2, <2>4 DEF UpdateFill, e
<1> QED
  BY <1>1, <1>2

LEMMA FitsStatus ==
    ASSUME NEW m, Fits(m), NEW u, NEW s \in Statuses,
           u \in Uuids \/ s = "waiting"
    PROVE  Fits(UpdateStatus(m, u, s))
<1>1. CASE ~Has(m, u)
  BY <1>1 DEF UpdateStatus
<1>2. CASE Has(m, u)
  <2> DEFINE d == m.index[u]
             e == [At(m, u) EXCEPT !.status = s]
  <2>1. d \in DOMAIN m.obj /\ At(m, u) = m.obj[d] /\ m.obj[d] \in Entries /\ m.obj[d].uuid = u
        /\ (m.obj[d].uuid = Reserved => reserving)
    BY <1>2 DEF Has, At, Fits, Typed
  <2>2. e \in Entries /\ e.uuid = m.obj[d].uuid /\ e.status = s
    <3>1. e = [m.obj[d] EXCEPT !.status = s]
      BY <2>1
    <3> HIDE DEF e
    <3> QED
      BY <2>1, <3>1, EntryMarked
  <2>3. e.uuid = Reserved => reserving /\ e.status \in {"waiting", "cancel_requested"}
    BY <2>1, <2>2, SyncAssumption DEF Uuids, Reserved
  <2> HIDE DEF e
  <2>4. Fits(Rewritten(m, d, e))
    BY <2>1, <2>2, <2>3, FitsRewritten
  <2> QED
    BY <1>2, <2>4 DEF UpdateStatus, e
<1> QED
  BY <1>1, <1>2

LEMMA FitsRemoved ==
    ASSUME NEW m, Fits(m), NEW u
    PROVE  Fits(RemoveOrder(m, u))
<1> DEFINE n == RemoveOrder(m, u)
<1>1. n.obj = m.obj /\ DOMAIN n.index = DOMAIN m.index \ {u} /\ \A v \in DOMAIN n.index : n.index[v] = m.index[v]
  BY DEF RemoveOrder, Restrict
<1> HIDE DEF n
<1>2. Typed(n)
  BY <1>1 DEF Fits, Typed
<1>3. \A f \in DOMAIN Obj : f \in DOMAIN n.obj /\ (Placed(mem, f) => Placed(n, f))
  BY <1>1 DEF Fits, Placed
<1> QED
  BY <1>2, <1>3 DEF Fits, n

LEMMA FitsReplaced ==
    ASSUME Typed(mem), NEW old \in AnyUuid, NEW new \in Uuids
    PROVE  Fits(ReplaceUuid(mem, old, new))
<1>1. CASE ~Has(mem, old)
  BY <1>1, FitsMem DEF ReplaceUuid
<1>2. CASE Has(mem, old)
  <2> DEFINE n == ReplaceUuid(mem, old, new)
             d == Index[old]
             e == [Obj[d] EXCEPT !.uuid = new, !.of = old, !.status = "placed"]
  <2>1. /\ n.index = Put(Restrict(Index, DOMAIN Index \ {old}), new, d) /\ n.obj = [Obj EXCEPT ![d] = e]
    BY <1>2 DEF ReplaceUuid, Index, Obj
  <2>2. /\ old \in DOMAIN Index /\ d \in DOMAIN Obj /\ Obj[d] \in Entries /\ Obj[d].uuid = old
        /\ DOMAIN Index \subseteq AnyUuid /\ DOMAIN Obj \subseteq Dicts
        /\ \A u \in DOMAIN Index : Index[u] \in DOMAIN Obj /\ Obj[Index[u]].uuid = u
        /\ \A f \in DOMAIN Obj : Obj[f] \in Entries
             /\ (Obj[f].uuid = Reserved => reserving /\ Obj[f].status \in {"waiting", "cancel_requested"})
    BY <1>2 DEF Has, Typed, Index, Obj
  <2>3. e \in Entries /\ e.uuid = new /\ new # Reserved /\ new \in AnyUuid
    <3>1. new # Reserved /\ new \in AnyUuid
      BY SyncAssumption DEF Uuids, AnyUuid, Reserved
    <3>2. e = [Obj[d] EXCEPT !.uuid = new, !.of = old, !.status = "placed"]
      OBVIOUS
    <3> HIDE DEF e
    <3>3. Obj[d] \in Entries
      BY <2>2
    <3> QED
      BY <3>1, <3>2, <3>3 DEF Entries, Statuses
  <2>4. /\ DOMAIN n.index = (DOMAIN Index \ {old}) \cup {new} /\ n.index[new] = d
        /\ \A u \in (DOMAIN Index \ {old}) \ {new} : n.index[u] = Index[u]
    BY <2>1 DEF Put, Restrict
  <2> HIDE DEF e
  <2>5. DOMAIN n.obj = DOMAIN Obj /\ n.obj[d] = e /\ \A f \in DOMAIN Obj \ {d} : n.obj[f] = Obj[f]
    BY <2>1, <2>2
  <2> HIDE DEF n
  <2>6. ASSUME NEW u \in DOMAIN n.index
        PROVE  n.index[u] \in DOMAIN n.obj /\ n.obj[n.index[u]].uuid = u
    <3>1. CASE u = new
      BY <2>2, <2>3, <2>4, <2>5, <3>1
    <3>2. CASE u # new
      <4>1. u \in DOMAIN Index /\ n.index[u] = Index[u] /\ Index[u] # d
        BY <2>2, <2>4, <3>2
      <4> QED
        BY <2>2, <2>5, <4>1
    <3> QED
      BY <3>1, <3>2
  <2>7. ASSUME NEW f \in DOMAIN n.obj
        PROVE  /\ n.obj[f] \in Entries
               /\ n.obj[f].uuid = Reserved => reserving /\ n.obj[f].status \in {"waiting", "cancel_requested"}
    BY <2>2, <2>3, <2>5
  <2>8. Typed(n)
    BY <2>2, <2>3, <2>4, <2>5, <2>6, <2>7 DEF Typed
  <2>9. \A f \in DOMAIN Obj : f \in DOMAIN n.obj /\ (Placed(mem, f) => Placed(n, f))
    BY <2>3, <2>5 DEF Placed, Obj
  <2> QED
    BY <2>8, <2>9 DEF Fits, n
<1> QED
  BY <1>1, <1>2

LEMMA EntryIs ==
    ASSUME NEW e, e \in Entries
    PROVE  DOMAIN e = EntryFields /\ e.uuid \in AnyUuid
  BY DEF Entries, EntryFields

LEMMA TypedShapes ==
    ASSUME TypeInv
    PROVE  /\ Lists /\ Dictionaries /\ IsFiniteSet(InHand)
           /\ \A d \in DOMAIN Obj : Obj[d] \in Entries
           /\ \A a \in Actors : job[a].ref \in Held
<1>1. /\ DOMAIN Index \subseteq AnyUuid /\ DOMAIN Obj \subseteq Dicts
      /\ \A u \in DOMAIN Index : Index[u] \in DOMAIN Obj /\ Obj[Index[u]].uuid = u
      /\ \A d \in DOMAIN Obj : Obj[d] \in Entries
  BY DEF TypeInv, Typed, Index, Obj
<1>2. Lists
  <2>1. \A d \in DOMAIN Obj : DOMAIN Obj[d] = EntryFields /\ Obj[d].uuid \in AnyUuid
    BY <1>1, EntryIs
  <2> QED
    BY <1>1, <2>1 DEF Lists
<1>3. NoDict \notin Visited /\ Cardinality(InHand) <= MaxOrders + 1
  BY DEF TypeInv, LoopTyped
<1>4. \A a \in Actors : job[a].ref \in Held
  BY DEF Held
<1>5. Held \ {NoDict} \subseteq DOMAIN Obj /\ DOMAIN Obj \subseteq Held \cup Range(Index)
  BY DEF TypeInv, HeldTyped
<1>6. InHand \in SUBSET Dicts
  <2>1. Visited \subseteq Held /\ Ref \in Held
    BY <1>4 DEF Visited, Ref, Held, Actors
  <2> QED
    BY <1>1, <1>3, <1>5, <2>1 DEF InHand
<1>7. IsFiniteSet(InHand)
  BY <1>6, DictsAreFinite, FS_Subset
<1>8. Cardinality(Visited) <= MaxOrders + 1
  <2>1. Visited \in SUBSET InHand
    BY DEF InHand
  <2>2. IsFiniteSet(Visited) /\ Cardinality(Visited) <= Cardinality(InHand)
    BY <1>7, <2>1, FS_Subset
  <2>3. Cardinality(Visited) \in Nat /\ Cardinality(InHand) \in Nat /\ MaxOrders \in Nat
    BY <1>7, <2>2, FS_CardinalityType, SyncAssumption
  <2> QED
    BY <1>3, <2>2, <2>3
<1>9. Dictionaries
  BY <1>3, <1>5, <1>8 DEF Dictionaries
<1> QED
  BY <1>1, <1>2, <1>4, <1>7, <1>9

\* The loop's dicts, the request's and the list's leave one dict to be used.
LEMMA DictForOne ==
    ASSUME TypeInv
    PROVE  Cardinality(Dicts \ DOMAIN Obj) \in Nat /\ 1 <= Cardinality(Dicts \ DOMAIN Obj)
<1> DEFINE hands == InHand \cup {job["api"].ref}
           listed == Range(Index)
           uuid == [d \in listed |-> Obj[d].uuid]
<1>1. Lists /\ Dictionaries /\ IsFiniteSet(InHand) /\ MaxOrders \in Nat
  BY TypedShapes, SyncAssumption
<1>2. Cardinality(InHand) \in Nat /\ Cardinality(InHand) <= MaxOrders + 1
  BY <1>1, FS_CardinalityType DEF TypeInv, LoopTyped
<1>3. IsFiniteSet(hands) /\ Cardinality(hands) \in Nat /\ Cardinality(hands) <= MaxOrders + 2
  <2>1. IsFiniteSet(hands) /\ (Cardinality(hands) = Cardinality(InHand) \/ Cardinality(hands) = Cardinality(InHand) + 1)
    BY <1>1, FS_AddElement
  <2> HIDE DEF hands
  <2> QED
    BY <1>1, <1>2, <2>1
<1>4. IsFiniteSet(DOMAIN Index) /\ Cardinality(DOMAIN Index) \in Nat /\ Cardinality(DOMAIN Index) <= MaxOrders + 1
  BY <1>1, UuidsAreFinite DEF Lists
<1>5. uuid \in Injection(listed, DOMAIN Index)
  <2>1. \A d \in listed : uuid[d] \in DOMAIN Index /\ Index[uuid[d]] = d
    BY <1>1 DEF Lists, Range
  <2>2. uuid \in [listed -> DOMAIN Index]
    BY <2>1
  <2>3. \A d \in listed, e \in listed : uuid[d] = uuid[e] => d = e
    BY <2>1
  <2> QED
    BY <2>2, <2>3 DEF Injection, IsInjective
<1>6. IsFiniteSet(listed) /\ Cardinality(listed) \in Nat /\ Cardinality(listed) <= MaxOrders + 1
  <2>1. IsFiniteSet(listed) /\ Cardinality(listed) <= Cardinality(DOMAIN Index)
    BY <1>4, <1>5, FS_Injection
  <2>2. Cardinality(listed) \in Nat
    BY <2>1, FS_CardinalityType
  <2> QED
    BY <1>1, <1>4, <2>1, <2>2
<1>7. DOMAIN Obj \in SUBSET (hands \cup listed)
  <2>1. NoDict \notin DOMAIN Obj
    BY <1>1, SyncAssumption DEF Lists, Dicts, NoDict
  <2>2. Held \ {NoDict} \subseteq hands
    BY DEF Held, Actors, InHand, Visited, Ref
  <2> QED
    BY <1>1, <2>1, <2>2 DEF Dictionaries
<1> HIDE DEF hands, listed, uuid
<1>8. /\ IsFiniteSet(hands \cup listed) /\ Cardinality(hands \cup listed) \in Nat
      /\ Cardinality(hands \cup listed) <= 2 * MaxOrders + 3
  <2>1. IsFiniteSet(hands \cup listed)
        /\ Cardinality(hands \cup listed) = Cardinality(hands) + Cardinality(listed) - Cardinality(hands \cap listed)
    BY <1>3, <1>6, FS_Union
  <2>2. Cardinality(hands \cap listed) \in Nat /\ Cardinality(hands \cup listed) \in Nat
    BY <1>3, <2>1, FS_Intersection, FS_CardinalityType
  <2> QED
    BY <1>1, <1>3, <1>6, <2>1, <2>2
<1>9. Cardinality(DOMAIN Obj) \in Nat /\ Cardinality(DOMAIN Obj) <= 2 * MaxOrders + 3
  <2>1. IsFiniteSet(DOMAIN Obj) /\ Cardinality(DOMAIN Obj) <= Cardinality(hands \cup listed)
    BY <1>7, <1>8, FS_Subset
  <2>2. Cardinality(DOMAIN Obj) \in Nat
    BY <2>1, FS_CardinalityType
  <2> QED
    BY <1>1, <1>8, <2>1, <2>2
<1>10. IsFiniteSet(Dicts) /\ Cardinality(Dicts) = 2 * MaxOrders + 4
  BY DictsAreFinite
<1>11. IsFiniteSet(Dicts \ DOMAIN Obj)
       /\ Cardinality(Dicts \ DOMAIN Obj) = Cardinality(Dicts) - Cardinality(DOMAIN Obj)
  <2>1. Dicts \cap DOMAIN Obj = DOMAIN Obj
    BY <1>1 DEF Lists
  <2> QED
    BY <1>10, <2>1, FS_Difference
<1> QED
  BY <1>1, <1>9, <1>10, <1>11

LEMMA FitsAdded ==
    ASSUME TypeInv, NEW m, Fits(m), m.obj = Obj, NEW e \in Entries, e.uuid \in Uuids
    PROVE  Fits(AddOrder(m, e))
<1> DEFINE n == AddOrder(m, e)
           d == FreeDict(m, 1)
           u == e.uuid
<1>1. d \in Dicts \ DOMAIN Obj
  <2>1. 1 \in 1..Cardinality(Dicts \ DOMAIN m.obj) /\ DOMAIN m.obj \subseteq Dicts
    BY DictForOne DEF Fits, Typed
  <2> QED
    BY <2>1, FreeDictIsFree
<1>2. n.index = Put(m.index, u, d) /\ n.obj = Put(Obj, d, e)
  BY DEF AddOrder
<1>3. u \in AnyUuid /\ u # Reserved
  BY SyncAssumption DEF AnyUuid, Uuids, Reserved
<1> HIDE DEF n, d
<1>4. /\ DOMAIN n.index = DOMAIN m.index \cup {u} /\ n.index[u] = d
      /\ \A v \in DOMAIN m.index \ {u} : n.index[v] = m.index[v]
  BY <1>2 DEF Put
<1>5. /\ DOMAIN n.obj = DOMAIN Obj \cup {d} /\ n.obj[d] = e
      /\ \A f \in DOMAIN Obj : n.obj[f] = Obj[f]
  BY <1>1, <1>2 DEF Put
<1>6. ASSUME NEW v \in DOMAIN n.index
      PROVE  n.index[v] \in DOMAIN n.obj /\ n.obj[n.index[v]].uuid = v
  <2>1. CASE v = u
    BY <1>4, <1>5, <2>1
  <2>2. CASE v # u
    <3>1. v \in DOMAIN m.index /\ n.index[v] = m.index[v]
      BY <1>4, <2>2
    <3>2. m.index[v] \in DOMAIN Obj /\ Obj[m.index[v]].uuid = v
      BY <3>1 DEF Fits, Typed
    <3> QED
      BY <1>5, <3>1, <3>2
  <2> QED
    BY <2>1, <2>2
<1>7. ASSUME NEW f \in DOMAIN n.obj
      PROVE  /\ n.obj[f] \in Entries
             /\ n.obj[f].uuid = Reserved => reserving /\ n.obj[f].status \in {"waiting", "cancel_requested"}
  BY <1>3, <1>5 DEF Fits, Typed
<1>8. Typed(n)
  <2>1. DOMAIN n.index \subseteq AnyUuid /\ DOMAIN n.obj \subseteq Dicts
    BY <1>1, <1>3, <1>4, <1>5 DEF Fits, Typed
  <2> QED
    BY <1>6, <1>7, <2>1 DEF Typed
<1>9. \A f \in DOMAIN Obj : f \in DOMAIN n.obj /\ (Placed(mem, f) => Placed(n, f))
  BY <1>5 DEF Placed, Obj
<1> QED
  BY <1>8, <1>9 DEF Fits, n

LEMMA FitsReload ==
    ASSUME TypeInv, NEW asked
    PROVE  /\ Fits(Reload(mem, Held, asked))
           /\ DOMAIN Reload(mem, Held, asked).index = DOMAIN Index
           /\ IsFiniteSet(Range(Reload(mem, Held, asked).index))
           /\ Cardinality(Range(Reload(mem, Held, asked).index)) <= MaxOrders + 1
<1> DEFINE m == Reload(mem, Held, asked)
<1>1. Lists /\ Dictionaries /\ \A d \in DOMAIN Obj : Obj[d] \in Entries
  BY TypedShapes
<1>2. /\ m.index = NewIndex
      /\ DOMAIN m.obj = DOMAIN Obj \cup Range(NewIndex)
      /\ \A u \in DOMAIN Index :
           m.obj[NewIndex[u]] =
             IF u \in asked THEN [Obj[Index[u]] EXCEPT !.status = "cancel_requested"] ELSE Obj[Index[u]]
      /\ \A d \in DOMAIN Obj \ Range(NewIndex) : m.obj[d] = Obj[d]
  BY <1>1, ReloadReads
<1> HIDE DEF m
<1>3. DOMAIN NewIndex = DOMAIN Index
  BY DEF NewIndex
<1>4. /\ \A u \in DOMAIN Index :
           /\ u \in Cut => NewIndex[u] \in Dicts \ DOMAIN Obj
           /\ u \notin Cut => NewIndex[u] = Index[u] /\ Index[u] \notin Held
      /\ \A u \in DOMAIN Index, v \in DOMAIN Index : NewIndex[u] = NewIndex[v] => u = v
  BY <1>1, NewIndexIs
<1>5. ASSUME NEW u \in DOMAIN Index
      PROVE  /\ NewIndex[u] \in Dicts /\ m.obj[NewIndex[u]] \in Entries /\ m.obj[NewIndex[u]].uuid = u
             /\ u = Reserved => reserving /\ m.obj[NewIndex[u]].status \in {"waiting", "cancel_requested"}
  <2>1. Index[u] \in DOMAIN Obj /\ Obj[Index[u]] \in Entries /\ Obj[Index[u]].uuid = u /\ Index[u] \in Dicts
        /\ (u = Reserved => reserving /\ Obj[Index[u]].status \in {"waiting", "cancel_requested"})
    BY <1>1 DEF Lists, TypeInv, Typed, Obj
  <2>2. CASE u \in asked
    <3>1. m.obj[NewIndex[u]] = [Obj[Index[u]] EXCEPT !.status = "cancel_requested"]
      BY <1>2, <2>2
    <3>2. "cancel_requested" \in Statuses
      BY DEF Statuses
    <3>3. /\ m.obj[NewIndex[u]] \in Entries /\ m.obj[NewIndex[u]].uuid = Obj[Index[u]].uuid
          /\ m.obj[NewIndex[u]].status = "cancel_requested"
      BY <2>1, <3>1, <3>2, EntryMarked
    <3> QED
      BY <1>4, <2>1, <3>3
  <2>3. CASE u \notin asked
    BY <1>2, <1>4, <2>1, <2>3
  <2> QED
    BY <2>2, <2>3
<1>6. ASSUME NEW d \in DOMAIN m.obj
      PROVE  /\ d \in Dicts /\ m.obj[d] \in Entries
             /\ m.obj[d].uuid = Reserved => reserving /\ m.obj[d].status \in {"waiting", "cancel_requested"}
  <2>1. CASE d \in Range(NewIndex)
    <3>1. PICK u \in DOMAIN Index : d = NewIndex[u]
      BY <1>3, <2>1 DEF Range
    <3> QED
      BY <1>5, <3>1
  <2>2. CASE d \notin Range(NewIndex)
    BY <1>1, <1>2, <2>2 DEF Lists, TypeInv, Typed, Obj
  <2> QED
    BY <2>1, <2>2
<1>7. ASSUME NEW d \in DOMAIN Obj
      PROVE  d \in DOMAIN m.obj /\ (Placed(mem, d) => Placed(m, d))
  <2>1. CASE d \in Range(NewIndex)
    <3>1. PICK u \in DOMAIN Index : d = NewIndex[u]
      BY <1>3, <2>1 DEF Range
    <3>2. d = Index[u]
      BY <1>4, <3>1
    <3>3. Obj[d].uuid = u /\ m.obj[d].uuid = u
      BY <1>1, <1>5, <3>1, <3>2 DEF Lists
    <3> QED
      BY <1>2, <3>3 DEF Placed, Obj
  <2>2. CASE d \notin Range(NewIndex)
    BY <1>2, <2>2 DEF Placed, Obj
  <2> QED
    BY <2>1, <2>2
<1>8. Typed(m)
  <2>1. DOMAIN m.index \subseteq AnyUuid
    BY <1>1, <1>2, <1>3 DEF Lists
  <2>2. \A u \in DOMAIN m.index : m.index[u] \in DOMAIN m.obj /\ m.obj[m.index[u]].uuid = u
    BY <1>2, <1>3, <1>5 DEF Range
  <2> QED
    BY <1>6, <2>1, <2>2 DEF Typed
<1>9. IsFiniteSet(Range(m.index)) /\ Cardinality(Range(m.index)) <= MaxOrders + 1
  <2> DEFINE uuid == [d \in Range(NewIndex) |-> m.obj[d].uuid]
  <2>1. \A d \in Range(NewIndex) : uuid[d] \in DOMAIN Index /\ NewIndex[uuid[d]] = d
    BY <1>3, <1>5 DEF Range
  <2>2. uuid \in [Range(NewIndex) -> DOMAIN Index]
    BY <2>1
  <2>3. \A d \in Range(NewIndex), e \in Range(NewIndex) : uuid[d] = uuid[e] => d = e
    BY <2>1
  <2>4. uuid \in Injection(Range(NewIndex), DOMAIN Index)
    BY <2>2, <2>3 DEF Injection, IsInjective
  <2> HIDE DEF uuid
  <2>5. IsFiniteSet(DOMAIN Index) /\ Cardinality(DOMAIN Index) \in Nat /\ Cardinality(DOMAIN Index) <= MaxOrders + 1
    BY <1>1, UuidsAreFinite DEF Lists
  <2>6. IsFiniteSet(Range(NewIndex)) /\ Cardinality(Range(NewIndex)) <= Cardinality(DOMAIN Index)
    BY <2>4, <2>5, FS_Injection
  <2>7. Cardinality(Range(NewIndex)) \in Nat /\ MaxOrders \in Nat
    BY <2>6, FS_CardinalityType, SyncAssumption
  <2> QED
    BY <1>2, <2>5, <2>6, <2>7
<1> QED
  BY <1>2, <1>3, <1>7, <1>8, <1>9 DEF Fits, m

(***************************************************************************)
(* Turns.                                                                  *)
(***************************************************************************)
\* The list becomes m, without the dicts nobody holds.
Lands(m) == Memory(m) \/ (m = mem /\ mem' = mem /\ Held \ {NoDict} \subseteq Held')

LEMMA TypedLands ==
    ASSUME TypeInv, NEW m, Fits(m), Lands(m), Held' \ {NoDict} \subseteq DOMAIN m.obj, reserving' = reserving
    PROVE  /\ Typed(mem)' /\ HeldTyped'
           /\ \A d \in Held' \ {NoDict} : Placed(m, d) => Placed(mem, d)'
<1>1. CASE Memory(m)
  <2>1. /\ Index' = m.index
        /\ DOMAIN Obj' = DOMAIN m.obj \cap (Held' \cup Range(m.index))
        /\ \A d \in DOMAIN Obj' : Obj'[d] = m.obj[d]
    BY <1>1, MemoryIs
  <2>2. /\ DOMAIN m.index \subseteq AnyUuid /\ DOMAIN m.obj \subseteq Dicts
        /\ \A u \in DOMAIN m.index : m.index[u] \in DOMAIN m.obj /\ m.obj[m.index[u]].uuid = u
    BY DEF Fits, Typed
  <2>3. \A d \in DOMAIN m.obj :
          /\ m.obj[d] \in Entries
          /\ m.obj[d].uuid = Reserved => reserving /\ m.obj[d].status \in {"waiting", "cancel_requested"}
    BY DEF Fits, Typed
  <2>4. \A u \in DOMAIN Index' : Index'[u] \in DOMAIN Obj' /\ Obj'[Index'[u]].uuid = u
    BY <2>1, <2>2 DEF Range
  <2>5. \A d \in DOMAIN Obj' :
          /\ Obj'[d] \in Entries
          /\ Obj'[d].uuid = Reserved => reserving' /\ Obj'[d].status \in {"waiting", "cancel_requested"}
    BY <2>1, <2>3
  <2>6. Typed(mem)'
    BY <2>1, <2>2, <2>4, <2>5 DEF Typed, Index, Obj
  <2>7. Held' \ {NoDict} \subseteq DOMAIN Obj' /\ DOMAIN Obj' \subseteq Held' \cup Range(Index')
    BY <2>1
  <2>8. \A d \in Held' \ {NoDict} : Placed(m, d) => Placed(mem, d)'
    BY <2>1, <2>7 DEF Placed, Obj
  <2> QED
    BY <2>6, <2>7, <2>8 DEF HeldTyped
<1>2. CASE m = mem /\ mem' = mem /\ Held \ {NoDict} \subseteq Held'
  <2>1. Typed(mem)'
    BY <1>2 DEF Fits, Typed
  <2>2. DOMAIN Obj \subseteq Held \cup Range(Index) /\ NoDict \notin DOMAIN Obj
    BY SyncAssumption DEF TypeInv, HeldTyped, Typed, Obj, Dicts, NoDict
  <2>3. Held' \ {NoDict} \subseteq DOMAIN Obj' /\ DOMAIN Obj' \subseteq Held' \cup Range(Index')
    BY <1>2, <2>2 DEF Obj, Index
  <2>4. \A d \in Held' \ {NoDict} : Placed(m, d) => Placed(mem, d)'
    BY <1>2 DEF Placed
  <2> QED
    BY <2>1, <2>3, <2>4 DEF HeldTyped
<1> QED
  BY <1>1, <1>2 DEF Lands

\* Coroutine a goes on to pc, with dict d.
Moves(a, pc, d) ==
    /\ job' \in [Actors -> Jobs] /\ job'[a].pc = pc /\ job'[a].ref = d
    /\ \A b \in Actors \ {a} : job'[b] = job[b]

\* The loop has no dict it did not have; what it asks about has been placed.
Visits(m) ==
    /\ DOMAIN loop' = LoopFields /\ loop'.phase \in {"recover", "scan"}
    /\ \A d \in DOMAIN loop'.answers : loop'.answers[d] \in Answered1
    /\ loop'.todo \cap Queried' = {} /\ loop'.asked \cap DOMAIN loop'.answers = {}
    /\ Visited' \subseteq Visited
    /\ \A d \in Queried' : d \in Queried \/ Placed(m, d)

Others == reserving' = reserving /\ OrdersTyped' /\ HistTyped'

LEMMA FewerInHand ==
    ASSUME TypeInv, InHand' \subseteq InHand
    PROVE  Cardinality(InHand') <= MaxOrders + 1
<1>1. IsFiniteSet(InHand) /\ Cardinality(InHand) <= MaxOrders + 1
  BY TypedShapes DEF TypeInv, LoopTyped
<1>2. InHand' \in SUBSET InHand
  OBVIOUS
<1>3. IsFiniteSet(InHand') /\ Cardinality(InHand') <= Cardinality(InHand)
  BY <1>1, <1>2, FS_Subset
<1>4. Cardinality(InHand) \in Nat /\ Cardinality(InHand') \in Nat /\ MaxOrders \in Nat
  BY <1>1, <1>3, FS_CardinalityType, SyncAssumption
<1> QED
  BY <1>1, <1>3, <1>4

LEMMA TurnTyped ==
    ASSUME TypeInv, Others, NEW m, Fits(m), Lands(m), Visits(m),
           NEW a \in Actors, NEW pc, NEW d, Moves(a, pc, d), pc = "free" <=> d = NoDict,
           d # NoDict => d \in DOMAIN m.obj /\ (pc \in OfPlaced => Placed(m, d)),
           a = "loop" => d \in InHand \cup {NoDict} /\ d \notin Visited'
    PROVE  TypeInv'
<1>1. /\ Held \ {NoDict} \subseteq DOMAIN Obj
      /\ NoDict \notin Visited /\ Ref \notin Visited
      /\ \A x \in Queried : Placed(mem, x)
      /\ \A b \in Actors : /\ job[b].pc = "free" <=> job[b].ref = NoDict
                           /\ job[b].pc \in OfPlaced => Placed(mem, job[b].ref)
  BY DEF TypeInv, HeldTyped, LoopTyped, JobsTyped
<1>2. \A x \in DOMAIN Obj : x \in DOMAIN m.obj /\ (Placed(mem, x) => Placed(m, x))
  BY DEF Fits
<1>3. Visited' \subseteq Visited /\ Visited \subseteq Held /\ \A b \in Actors : job[b].ref \in Held
  BY DEF Visits, Visited, Held
<1>4. ASSUME NEW x \in Held' \ {NoDict} PROVE x \in DOMAIN m.obj
  <2>1. x \in Visited' \/ \E b \in Actors : x = job'[b].ref
    BY DEF Held, Visited
  <2>2. CASE x \in Visited'
    BY <1>1, <1>2, <1>3, <2>2
  <2>3. ASSUME NEW b \in Actors, x = job'[b].ref PROVE x \in DOMAIN m.obj
    <3>1. CASE b = a
      BY <2>3, <3>1 DEF Moves
    <3>2. CASE b # a
      <4>1. x \in Held
        BY <1>3, <2>3, <3>2 DEF Moves
      <4> QED
        BY <1>1, <1>2, <4>1
    <3> QED
      BY <3>1, <3>2
  <2> QED
    BY <2>1, <2>2, <2>3
<1>5. /\ Typed(mem)' /\ HeldTyped'
      /\ \A x \in Held' \ {NoDict} : Placed(m, x) => mem'.obj[x].uuid \in Uuids
  <2>1. /\ Typed(mem)' /\ HeldTyped'
        /\ \A x \in Held' \ {NoDict} : Placed(m, x) => Placed(mem, x)'
    BY <1>4, TypedLands DEF Others
  <2> QED
    BY <2>1 DEF Placed
<1>6. NoDict \notin Visited' /\ Visited' \subseteq Held' /\ Queried' \subseteq Visited'
      /\ \A b \in Actors : job'[b].ref \in Held'
  BY <1>1, <1>3 DEF Visited, Held, Queried
<1>7. ASSUME NEW x \in Queried' PROVE mem'.obj[x].uuid \in Uuids
  <2>1. x \in Held' \ {NoDict}
    BY <1>6
  <2>2. Placed(m, x)
    <3>1. CASE x \in Queried
      <4>1. x \in DOMAIN Obj
        BY <1>1, <1>3, <3>1 DEF Queried, Visited
      <4> QED
        BY <1>1, <1>2, <3>1, <4>1
    <3>2. CASE x \notin Queried
      BY <3>2 DEF Visits
    <3> QED
      BY <3>1, <3>2
  <2> QED
    BY <1>5, <2>1, <2>2
<1>8. ASSUME NEW b \in Actors
      PROVE  /\ job'[b].pc = "free" <=> job'[b].ref = NoDict
             /\ job'[b].pc \in OfPlaced => mem'.obj[job'[b].ref].uuid \in Uuids
  <2>1. CASE b = a
    <3>1. job'[b].pc = pc /\ job'[b].ref = d
      BY <2>1 DEF Moves
    <3>2. ASSUME pc \in OfPlaced PROVE mem'.obj[d].uuid \in Uuids
      <4>1. d # NoDict
        BY <3>2 DEF OfPlaced
      <4>2. d \in Held' \ {NoDict} /\ Placed(m, d)
        BY <1>6, <3>1, <3>2, <4>1
      <4> QED
        BY <1>5, <4>2
    <3> QED
      BY <3>1, <3>2
  <2>2. CASE b # a
    <3>1. job'[b] = job[b]
      BY <2>2 DEF Moves
    <3>2. ASSUME job[b].pc \in OfPlaced PROVE mem'.obj[job[b].ref].uuid \in Uuids
      <4>1. job[b].ref # NoDict /\ job[b].ref \in DOMAIN Obj /\ Placed(mem, job[b].ref)
        BY <1>1, <1>3, <3>2 DEF OfPlaced
      <4>2. job[b].ref \in Held' \ {NoDict} /\ Placed(m, job[b].ref)
        BY <1>2, <1>6, <3>1, <4>1
      <4> QED
        BY <1>5, <4>2
    <3> QED
      BY <1>1, <3>1, <3>2
  <2> QED
    BY <2>1, <2>2
<1>9. JobsTyped'
  BY <1>8 DEF JobsTyped, Moves, Placed
<1>10. Ref' \notin Visited' /\ Ref' \in InHand \cup {NoDict}
  <2>1. CASE a = "loop"
    BY <2>1 DEF Moves, Ref
  <2>2. CASE a # "loop"
    <3>1. Ref' = Ref
      BY <2>2 DEF Moves, Ref, Actors
    <3> QED
      BY <1>1, <1>3, <3>1 DEF InHand
  <2> QED
    BY <2>1, <2>2
<1>11. Cardinality(InHand') <= MaxOrders + 1
  <2>1. InHand' \subseteq InHand
    BY <1>3, <1>10 DEF InHand
  <2> QED
    BY <2>1, FewerInHand
<1>12. LoopTyped'
  BY <1>6, <1>7, <1>10, <1>11 DEF LoopTyped, Visits, Placed
<1> QED
  BY <1>5, <1>9, <1>12 DEF TypeInv, Others

(***************************************************************************)
(* What a coroutine keeps is typed.                                        *)
(***************************************************************************)
LEMMA NoAnswerTyped == NoAnswer \in Answered1
  BY SyncAssumption DEF NoAnswer, Answered1

LEMMA NoJobTyped == NoJob \in Jobs /\ NoJob.pc = "free" /\ NoJob.ref = NoDict
  BY NoAnswerTyped, SyncAssumption DEF NoJob, Jobs, Pcs, AnyUuid

LEMMA FinishMoves ==
    ASSUME TypeInv, NEW a \in Actors, Finish(a)
    PROVE  Moves(a, "free", NoDict)
  BY NoJobTyped DEF Finish, Moves, TypeInv, JobsTyped

LEMMA StaysMoves ==
    ASSUME TypeInv, NEW a \in Actors, job' = job
    PROVE  Moves(a, job[a].pc, job[a].ref)
  BY DEF Moves, TypeInv, JobsTyped

LEMMA AwaitMoves ==
    ASSUME TypeInv, NEW a \in Actors, NEW pc \in Pcs, NEW d \in Dicts, NEW ans \in Answered1, NEW n \in 0..Volume,
           Await(a, pc, d, ans, n)
    PROVE  Moves(a, pc, d)
<1> DEFINE j == [NoJob EXCEPT !.pc = pc, !.ref = d, !.ans = ans, !.n = n]
<1>1. j \in Jobs /\ j.pc = pc /\ j.ref = d
  BY NoJobTyped DEF Jobs
<1>2. job' = [job EXCEPT ![a] = j]
  BY DEF Await
<1> HIDE DEF j
<1> QED
  BY <1>1, <1>2 DEF Moves, TypeInv, JobsTyped

LEMMA AwaitWithMoves ==
    ASSUME TypeInv, NEW a \in Actors, NEW pc \in Pcs, NEW d \in Dicts, NEW n \in 0..Volume,
           NEW u \in AnyUuid, NEW own \in AnyUuid, AwaitWith(a, pc, d, n, u, own)
    PROVE  Moves(a, pc, d)
<1> DEFINE j == [NoJob EXCEPT !.pc = pc, !.ref = d, !.n = n, !.u = u, !.own = own]
<1>1. j \in Jobs /\ j.pc = pc /\ j.ref = d
  BY NoJobTyped DEF Jobs
<1>2. job' = [job EXCEPT ![a] = j]
  BY DEF AwaitWith
<1> HIDE DEF j
<1> QED
  BY <1>1, <1>2 DEF Moves, TypeInv, JobsTyped

LEMMA AnswerTyped ==
    ASSUME TypeInv, NEW u \in AnyUuid, NEW ans \in Answers(u)
    PROVE  ans \in Answered1 /\ (ans # NoAnswer => u \in Uuids)
<1>1. CASE ans = NoAnswer
  BY <1>1, NoAnswerTyped
<1>2. CASE ans # NoAnswer
  <2>1. ans = Answer(u) /\ u \in Uuids
    BY <1>2 DEF Answers, Answer, AnyUuid
  <2>2. ex[u] \in ExOrders
    BY <2>1 DEF TypeInv, OrdersTyped
  <2>3. ex[u].state \in {"none", "wait", "done", "cancel"} /\ ex[u].exec \in 0..Volume
    BY <2>2 DEF ExOrders
  <2>4. ans = [state |-> IF ex[u].state = "wait" /\ ex[u].exec > 0 THEN "partial" ELSE ex[u].state,
               exec |-> ex[u].exec]
    BY <1>2, <2>1 DEF Answer
  <2> QED
    BY <2>1, <2>3, <2>4 DEF Answered1
<1> QED
  BY <1>1, <1>2

(***************************************************************************)
(* What is counted and noted is typed.                                     *)
(***************************************************************************)
FailsGo ==
    \/ fails' = fails
    \/ \E kind \in {"status", "reorder"}, u \in AnyUuid : fails' \in {OneMoreFailed(kind, u), NoneFailed(kind, u)}
LogGoes == log' = log \/ \E a \in Actors, u \in AnyUuid, n \in Nat : log' = Logged(a, u, n)
NotesGo ==
    waived' \subseteq waived \cup (AnyUuid \X Reasons) /\ orphaned' \subseteq orphaned \cup Uuids /\ raced' \in BOOLEAN

LEMMA FailsTyped ==
    ASSUME TypeInv, FailsGo
    PROVE  fails' \in [{"status", "reorder"} -> [AnyUuid -> 0..(FailLimit - 1)]]
<1>1. fails \in [{"status", "reorder"} -> [AnyUuid -> 0..(FailLimit - 1)]]
  BY DEF TypeInv, HistTyped
<1>2. ASSUME NEW kind \in {"status", "reorder"}, NEW u \in AnyUuid, NEW n \in 0..(FailLimit - 1),
             fails' = [fails EXCEPT ![kind][u] = n]
      PROVE  fails' \in [{"status", "reorder"} -> [AnyUuid -> 0..(FailLimit - 1)]]
  BY <1>1, <1>2
<1>3. ASSUME NEW kind \in {"status", "reorder"}, NEW u \in AnyUuid, fails' = NoneFailed(kind, u)
      PROVE  fails' \in [{"status", "reorder"} -> [AnyUuid -> 0..(FailLimit - 1)]]
  <2>1. 0 \in 0..(FailLimit - 1)
    BY SyncAssumption
  <2>2. fails' = [fails EXCEPT ![kind][u] = 0]
    BY <1>3 DEF NoneFailed
  <2> QED
    BY <1>2, <2>1, <2>2
<1>4. ASSUME NEW kind \in {"status", "reorder"}, NEW u \in AnyUuid, fails' = OneMoreFailed(kind, u)
      PROVE  fails' \in [{"status", "reorder"} -> [AnyUuid -> 0..(FailLimit - 1)]]
  <2> DEFINE n == IF TooMany(kind, u) THEN 0 ELSE fails[kind][u] + 1
  <2>1. fails[kind][u] \in 0..(FailLimit - 1)
    BY <1>1
  <2>2. n \in 0..(FailLimit - 1)
    BY <2>1, SyncAssumption DEF TooMany
  <2>3. fails' = [fails EXCEPT ![kind][u] = n]
    BY <1>1, <1>4 DEF OneMoreFailed
  <2> HIDE DEF n
  <2> QED
    BY <1>2, <2>2, <2>3
<1> QED
  BY <1>1, <1>3, <1>4 DEF FailsGo

LEMMA LogTyped ==
    ASSUME TypeInv, LogGoes
    PROVE  log' \in [Actors -> [AnyUuid -> Nat]]
<1>1. log \in [Actors -> [AnyUuid -> Nat]]
  BY DEF TypeInv, HistTyped
<1>2. ASSUME NEW a \in Actors, NEW u \in AnyUuid, NEW n \in Nat, log' = Logged(a, u, n)
      PROVE  log' \in [Actors -> [AnyUuid -> Nat]]
  BY <1>1, <1>2 DEF Logged
<1> QED
  BY <1>1, <1>2 DEF LogGoes

LEMMA OthersTyped ==
    ASSUME TypeInv, ex' = ex, reserving' = reserving, source' = source, FailsGo, LogGoes, NotesGo
    PROVE  Others
<1>1. OrdersTyped'
  BY DEF TypeInv, OrdersTyped, Live
<1>2. source' \in [Uuids -> {NoBuy} \cup AnyUuid] /\ waived' \subseteq AnyUuid \X Reasons /\ orphaned' \subseteq Uuids
  BY DEF TypeInv, HistTyped, NotesGo
<1>3. HistTyped'
  BY <1>2, FailsTyped, LogTyped DEF HistTyped, NotesGo
<1> QED
  BY <1>1, <1>3 DEF Others

LEMMA SameNotes ==
    ASSUME TypeInv, UNCHANGED <<waived, orphaned, raced>>
    PROVE  NotesGo
  BY DEF NotesGo, TypeInv, HistTyped

LEMMA OthersSame ==
    ASSUME TypeInv, UNCHANGED <<ex, fails, log, bounds, hist>>
    PROVE  Others
  BY OthersTyped, SameNotes DEF FailsGo, LogGoes, bounds, hist

LEMMA Losing ==
    ASSUME TypeInv, NEW a \in Actors
    PROVE  Lost(a) \subseteq Uuids
  BY DEF TypeInv, JobsTyped, Jobs, Lost, AnyUuid

(***************************************************************************)
(* The turn of a coroutine with the dict it holds.                         *)
(***************************************************************************)
\* The loop has no more dicts to visit than before, and d is none of them.
Passes(d) ==
    /\ DOMAIN loop' = LoopFields /\ loop'.phase \in {"recover", "scan"}
    /\ \A x \in DOMAIN loop'.answers : loop'.answers[x] \in Answered1
    /\ loop'.todo \cap Queried' = {} /\ loop'.asked \cap DOMAIN loop'.answers = {}
    /\ Visited' \subseteq Visited /\ d \notin Visited' /\ Queried' \subseteq Queried

LEMMA PassesVisits == ASSUME NEW d, Passes(d), NEW m PROVE Visits(m)
  BY DEF Passes, Visits

LEMMA SameVisits == ASSUME TypeInv, loop' = loop PROVE Passes(Ref) /\ Passes(NoDict)
  BY DEF TypeInv, LoopTyped, Passes, Visited, Queried

LEMMA LandsOn == ASSUME NEW m, Memory(m) PROVE Lands(m)
  BY DEF Lands

\* Actor a is done, and the list becomes m.
LEMMA FinishTyped ==
    ASSUME TypeInv, Others, NEW m, Fits(m), Lands(m), Visits(m), NEW a \in Actors, Finish(a)
    PROVE  TypeInv'
<1>1. NoDict \notin Visited'
  BY DEF TypeInv, LoopTyped, Visits
<1>2. Moves(a, "free", NoDict)
  BY FinishMoves
<1> QED
  BY <1>1, <1>2, TurnTyped

\* The loop goes on to the next order, and the list becomes m.
LEMMA StaysTyped ==
    ASSUME TypeInv, Others, NEW m, Fits(m), Lands(m), Visits(m), job' = job
    PROVE  TypeInv'
<1> DEFINE d == job["api"].ref
           pc == job["api"].pc
<1>1. "api" \in Actors /\ "api" # "loop" /\ Moves("api", pc, d)
  BY StaysMoves DEF Actors
<1>2. (pc = "free" <=> d = NoDict) /\ (pc \in OfPlaced => Placed(mem, d))
  BY <1>1 DEF TypeInv, JobsTyped
<1>3. d # NoDict => d \in DOMAIN Obj
  BY <1>1, TypedShapes DEF TypeInv, HeldTyped
<1>4. d # NoDict => d \in DOMAIN m.obj /\ (pc \in OfPlaced => Placed(m, d))
  BY <1>2, <1>3 DEF Fits
<1> HIDE DEF d, pc
<1> QED
  BY <1>1, <1>2, <1>4, TurnTyped

\* Actor a goes on with dict d.
LEMMA GoesOnTyped ==
    ASSUME TypeInv, Others, NEW m, Fits(m), Lands(m), Visits(m),
           NEW a \in Actors, NEW pc, NEW d, Moves(a, pc, d), pc # "free", d \in DOMAIN m.obj,
           pc \in OfPlaced => Placed(m, d), a = "loop" => d \in InHand /\ d \notin Visited'
    PROVE  TypeInv'
<1>1. d # NoDict
  BY SyncAssumption DEF Fits, Typed, Dicts, NoDict
<1> QED
  BY <1>1, TurnTyped

LEMMA PcsHas ==
    {"sell", "settle", "drop", "look", "create", "ask", "cancel", "recheck", "stop", "place", "submit", "query"}
        \subseteq Pcs \ {"free"}
  BY DEF Pcs

\* The dict of a coroutine that has one.
LEMMA OfJob ==
    ASSUME TypeInv, NEW a \in Actors, job[a].pc # "free"
    PROVE  /\ job[a] \in Jobs /\ job[a].ref # NoDict /\ job[a].ref \in DOMAIN Obj
           /\ Obj[job[a].ref] \in Entries /\ Ord(a) = Obj[job[a].ref] /\ Ord(a).uuid \in AnyUuid
           /\ job[a].pc \in OfPlaced => Ord(a).uuid \in Uuids /\ Placed(mem, job[a].ref)
           /\ a = "loop" => job[a].ref \in InHand
<1>1. job[a] \in Jobs /\ job[a].ref # NoDict /\ (job[a].pc \in OfPlaced => Placed(mem, job[a].ref))
  BY DEF TypeInv, JobsTyped
<1>2. job[a].ref \in DOMAIN Obj
  BY <1>1, TypedShapes DEF TypeInv, HeldTyped
<1>3. Obj[job[a].ref] \in Entries /\ Ord(a) = Obj[job[a].ref]
  BY <1>2, TypedShapes DEF Ord, Obj
<1>4. Ord(a).uuid \in AnyUuid
  BY <1>3, EntryIs
<1>5. job[a].pc \in OfPlaced => Ord(a).uuid \in Uuids /\ Placed(mem, job[a].ref)
  BY <1>1 DEF Placed, Ord
<1>6. a = "loop" => job[a].ref \in InHand
  BY <1>1 DEF InHand, Ref
<1> QED
  BY <1>1, <1>2, <1>3, <1>4, <1>5, <1>6

(***************************************************************************)
(* _process_order_fill.                                                    *)
(***************************************************************************)
LEMMA LogOthers ==
    ASSUME TypeInv, UNCHANGED <<ex, bounds, hist>>, FailsGo, LogGoes
    PROVE  Others
  BY OthersTyped, SameNotes DEF bounds, hist

LEMMA LogSome ==
    ASSUME NEW a \in Actors, NEW u \in AnyUuid, NEW n \in Nat, log' = Logged(a, u, n)
    PROVE  LogGoes
  BY DEF LogGoes

LEMMA NoVolumes == 0 \in 0..Volume /\ 0..Volume \subseteq Nat
  BY SyncAssumption

LEMMA AnsweredIs ==
    ASSUME NEW ans \in Answered1
    PROVE  ans.exec \in 0..Volume /\ ans.exec \in Nat /\ ans.state \in {"none", "wait", "partial", "done", "cancel"}
  BY DEF Answered1

LEMMA EntryHas ==
    ASSUME NEW e \in Entries
    PROVE  e.filled \in 0..Volume /\ e.filled \in Nat /\ e.vol \in 0..Volume /\ e.vol \in Nat
           /\ e.kind \in Kinds /\ e.status \in Statuses
  BY DEF Entries

LEMMA PlacedIsUuid == ASSUME NEW m, NEW d, Placed(m, d) PROVE m.obj[d].uuid \in Uuids /\ m.obj[d].uuid \in AnyUuid
  BY DEF Placed, AnyUuid

LEMMA LoopAwaitTyped ==
    ASSUME TypeInv, Others, NEW d \in InHand, Passes(d), NEW m, Fits(m), d \in DOMAIN m.obj, Placed(m, d), Memory(m),
           NEW pc \in Pcs \ {"free"}, NEW ans \in Answered1, NEW n \in 0..Volume, Await("loop", pc, d, ans, n)
    PROVE  TypeInv'
<1>1. "loop" \in Actors /\ d \in Dicts /\ d \notin Visited'
  BY DEF Actors, Fits, Typed, Passes
<1>2. Moves("loop", pc, d)
  BY <1>1, AwaitMoves
<1> QED
  BY <1>1, <1>2, GoesOnTyped, PassesVisits, LandsOn

LEMMA LoopFinishTyped ==
    ASSUME TypeInv, Others, NEW d, Passes(d), NEW m, Fits(m), Memory(m), Finish("loop")
    PROVE  TypeInv'
  BY FinishTyped, PassesVisits, LandsOn DEF Actors

LEMMA ToldFits ==
    ASSUME TypeInv, NEW m, Fits(m), NEW d, Placed(m, d), NEW told \in NewStatus(m, m.obj[d])
    PROVE  Fits(told)
<1>1. Fits(UpdateStatus(m, m.obj[d].uuid, "placed"))
  BY PlacedIsUuid, FitsStatus DEF Statuses
<1> QED
  BY <1>1 DEF NewStatus

LEMMA SettleTyped ==
    ASSUME TypeInv, UNCHANGED <<ex, bounds, hist>>, FailsGo, NEW d \in InHand, Passes(d),
           NEW m, Fits(m), d \in DOMAIN m.obj, Placed(m, d), NEW ans \in Answered1, Settle("loop", m, d, ans)
    PROVE  TypeInv'
<1> DEFINE e == m.obj[d]
<1>1. /\ e \in Entries /\ e.uuid \in Uuids /\ e.uuid \in AnyUuid
      /\ "loop" \in Actors
  BY PlacedIsUuid DEF Fits, Typed, Actors
<1>2. log' = log => Others
  BY LogOthers DEF LogGoes
<1>3. CASE /\ log' = Logged("loop", e.uuid, IF ans.exec > 0 THEN ans.exec ELSE e.filled)
           /\ Finish("loop") /\ Memory(RemoveOrder(m, e.uuid))
  <2>1. (IF ans.exec > 0 THEN ans.exec ELSE e.filled) \in Nat
    BY <1>1, AnsweredIs, EntryHas
  <2>2. Others
    BY <1>1, <1>3, <2>1, LogSome, LogOthers
  <2> QED
    BY <1>3, <2>2, FitsRemoved, LoopFinishTyped
<1>4. CASE Finish("loop") /\ Memory(UpdateStatus(m, e.uuid, "waiting")) /\ log' = log
  <2>1. Fits(UpdateStatus(m, e.uuid, "waiting"))
    BY FitsStatus DEF Statuses
  <2> QED
    BY <1>2, <1>4, <2>1, LoopFinishTyped
<1>5. CASE Await("loop", "drop", d, ans, 0) /\ Memory(m) /\ log' = log
  BY <1>2, <1>5, LoopAwaitTyped, PcsHas, NoVolumes
<1>6. CASE Finish("loop") /\ (\E told \in NewStatus(m, e) : Memory(told)) /\ log' = log
  BY <1>2, <1>6, ToldFits, LoopFinishTyped
<1> QED
  BY <1>3, <1>4, <1>5, <1>6 DEF Settle

\* The volume sold for a buy is a number.
LEMMA SoldVolumeIsNat ==
    ASSUME TypeInv, NEW b
    PROVE  LinkedVolume(mem, b) \in Nat
<1>1. IsFiniteSet(LinkedSells(mem, b))
  <2>1. IsFiniteSet(DOMAIN Index)
    BY UuidsAreFinite DEF TypeInv, Typed, Index
  <2>2. LinkedSells(mem, b) \in SUBSET DOMAIN Index
    BY DEF LinkedSells, Index
  <2> QED
    BY <2>1, <2>2, FS_Subset
<1>2. \A u \in LinkedSells(mem, b) : Vol(mem, u) \in Nat
  <2>1. ASSUME NEW u \in LinkedSells(mem, b) PROVE At(mem, u) \in Entries
    BY DEF LinkedSells, At, TypeInv, Typed
  <2> QED
    BY <2>1, EntryHas DEF Vol
<1> QED
  BY <1>1, <1>2, VolumeIsNat DEF Volumes

LEMMA LeftToSell ==
    ASSUME TypeInv, NEW b, NEW v \in 0..Volume, LinkedVolume(mem, b) < v
    PROVE  v - LinkedVolume(mem, b) \in 0..Volume
<1>1. LinkedVolume(mem, b) \in Nat
  BY SoldVolumeIsNat
<1> QED
  BY <1>1, SyncAssumption

LEMMA ProcessFillTyped ==
    ASSUME TypeInv, UNCHANGED <<ex, bounds, hist>>, FailsGo, NEW d \in InHand, Passes(d),
           Placed(mem, d), NEW ans \in Answered1, ProcessFill("loop", d, ans)
    PROVE  TypeInv'
<1> DEFINE e == mem.obj[d]
           sold == LinkedVolume(mem, e.uuid)
           told == UpdateFill(mem, e.uuid, ans.exec)
<1>1. e.uuid \in Uuids /\ ans.exec \in 0..Volume
  BY PlacedIsUuid, AnsweredIs
<1>2. d \in DOMAIN Obj
  BY TypedShapes, InHandIsKnown
<1>3. Fits(mem) /\ Fits(told)
  BY <1>1, FitsMem, FitsFill DEF TypeInv
<1>4. d \in DOMAIN told.obj /\ Placed(told, d) /\ d \in DOMAIN mem.obj
  BY <1>2, <1>3 DEF Fits, Obj
<1>5. log' = log => Others
  BY LogOthers DEF LogGoes
<1>6. CASE /\ sold < ans.exec /\ Await("loop", "sell", d, ans, ans.exec - sold) /\ Memory(mem) /\ log' = log
  <2>1. ans.exec - sold \in 0..Volume
    BY <1>1, <1>6, LeftToSell
  <2> HIDE DEF sold
  <2> QED
    BY <1>3, <1>4, <1>5, <1>6, <2>1, LoopAwaitTyped, PcsHas
<1>7. CASE Settle("loop", told, d, ans)
  BY <1>3, <1>4, <1>7, SettleTyped
<1>8. CASE Await("loop", "settle", d, ans, 0) /\ Memory(told) /\ log' = log
  BY <1>3, <1>4, <1>5, <1>8, LoopAwaitTyped, PcsHas, NoVolumes
<1>9. CASE Settle("loop", mem, d, ans)
  BY <1>3, <1>4, <1>9, SettleTyped
<1> QED
  BY <1>6, <1>7, <1>8, <1>9 DEF ProcessFill

(***************************************************************************)
(* The loop with the order of its job.                                     *)
(***************************************************************************)
LEMMA OfLoop ==
    ASSUME TypeInv, job["loop"].pc # "free", loop' = loop
    PROVE  /\ Ref \in InHand /\ Passes(Ref) /\ Ref \in DOMAIN Obj /\ job["loop"] \in Jobs
           /\ Ord("loop") = Obj[Ref] /\ Ord("loop") \in Entries /\ Ord("loop").uuid \in AnyUuid
           /\ Pc \in OfPlaced => Ord("loop").uuid \in Uuids /\ Placed(mem, Ref)
  BY OfJob, SameVisits DEF Ref, Pc, Actors

LEMMA JobHas ==
    ASSUME NEW j \in Jobs
    PROVE  /\ j.ans \in Answered1 /\ j.n \in 0..Volume /\ j.n \in Nat /\ j.tries \in Nat /\ j.pc \in Pcs
           /\ j.u \in AnyUuid /\ j.own \in AnyUuid /\ j.hit \in AnyUuid
           /\ j.hit # Reserved => j.hit \in Uuids
  BY DEF Jobs, AnyUuid

\* Notes of a coroutine: what it lets go of, what it waives.
LEMMA NotedOthers ==
    ASSUME TypeInv, UNCHANGED <<ex, bounds, source>>, FailsGo, LogGoes, NotesGo
    PROVE  Others
  BY OthersTyped DEF bounds

LEMMA SellDoneTyped ==
    ASSUME TypeInv, loop' = loop, job["loop"].pc = "sell", Others, NEW m, Fits(m), SellDone(m)
    PROVE  TypeInv'
<1>1. /\ Ref \in InHand /\ Passes(Ref) /\ Ref \in DOMAIN Obj /\ job["loop"].ans \in Answered1 /\ Placed(mem, Ref)
  BY OfLoop, JobHas DEF Pc, OfPlaced
<1>2. Ref \in DOMAIN m.obj /\ Placed(m, Ref)
  BY <1>1 DEF Fits
<1>3. CASE Finish("loop") /\ Memory(m)
  BY <1>1, <1>3, LoopFinishTyped
<1>4. CASE Await("loop", "settle", Ref, job["loop"].ans, 0) /\ Memory(m)
  BY <1>1, <1>2, <1>4, LoopAwaitTyped, PcsHas, NoVolumes
<1> QED
  BY <1>3, <1>4 DEF SellDone, Ref

LEMMA SellPlacedTyped == ASSUME TypeInv, SellPlaced PROVE TypeInv'
<1> DEFINE u == job["loop"].hit
           b == Ord("loop").uuid
           e == LinkedSell(u, job["loop"].n, b)
           m == AddOrder(mem, e)
           n == UpdateFill(m, b, job["loop"].ans.exec)
<1>1. /\ loop' = loop /\ job["loop"].pc = "sell" /\ u # Reserved /\ SellDone(n)
      /\ UNCHANGED <<ex, fails, bounds, source, waived, orphaned>> /\ raced' = (raced \/ Has(mem, u))
  BY DEF SellPlaced, Reached
<1>2. /\ u \in Uuids /\ job["loop"].n \in 0..Volume /\ job["loop"].ans \in Answered1 /\ b \in Uuids /\ b \in AnyUuid
  BY <1>1, OfLoop, JobHas DEF Pc, OfPlaced
<1>3. e \in Entries /\ e.uuid = u
  BY <1>2, NoVolumes DEF LinkedSell, Entries, Kinds, Statuses, AnyUuid
<1> HIDE DEF e
<1>4. Fits(m)
  BY <1>2, <1>3, FitsMem, FitsAdded DEF TypeInv, Obj
<1>5. Fits(n)
  BY <1>2, <1>4, AnsweredIs, FitsFill
<1>6. NotesGo
  BY <1>1 DEF NotesGo, TypeInv, HistTyped, Has
<1>7. log' = log
  BY <1>1 DEF SellDone
<1>8. Others
  BY <1>1, <1>6, <1>7, NotedOthers DEF FailsGo, LogGoes
<1> QED
  BY <1>1, <1>5, <1>8, SellDoneTyped

LEMMA LosesOthers ==
    ASSUME TypeInv, NEW a \in Actors, orphaned' = orphaned \cup Lost(a),
           waived' \subseteq waived \cup (AnyUuid \X Reasons), raced' \in BOOLEAN,
           UNCHANGED <<ex, bounds, source>>, FailsGo, LogGoes
    PROVE  Others
<1>1. NotesGo
  BY Losing DEF NotesGo
<1> QED
  BY <1>1, NotedOthers

LEMMA SellFailsTyped == ASSUME TypeInv, SellFails PROVE TypeInv'
<1>1. /\ loop' = loop /\ job["loop"].pc = "sell" /\ orphaned' = orphaned \cup Lost("loop") /\ SellPutOff
      /\ UNCHANGED <<ex, fails, bounds, source, waived, raced>>
  BY DEF SellFails
<1>2. Ref \in InHand /\ Passes(Ref) /\ Placed(mem, Ref) /\ Fits(mem)
  BY <1>1, OfLoop, FitsMem DEF Pc, OfPlaced, TypeInv
<1>3. /\ Finish("loop") /\ log' = log
      /\ Memory(mem) \/ \E told \in NewStatus(mem, mem.obj[Ref]) : Memory(told)
  BY <1>1 DEF SellPutOff, KeepForRetry, Ref
<1>4. Others
  BY <1>1, <1>3, LosesOthers DEF Actors, TypeInv, HistTyped, FailsGo, LogGoes
<1> QED
  BY <1>2, <1>3, <1>4, ToldFits, LoopFinishTyped

LEMMA SellSkippedTyped == ASSUME TypeInv, SellSkipped PROVE TypeInv'
<1> DEFINE b == Ord("loop").uuid
           told == UpdateFill(mem, b, job["loop"].ans.exec)
<1>1. /\ loop' = loop /\ job["loop"].pc = "sell" /\ orphaned' = orphaned \cup Lost("loop")
      /\ waived' = waived \cup {<<b, "sold elsewhere">>}
      /\ SellDone(told) \/ (Finish("loop") /\ Memory(told) /\ UNCHANGED log)
      /\ UNCHANGED <<ex, fails, bounds, source, raced>>
  BY DEF SellSkipped
<1>2. Passes(Ref) /\ b \in Uuids /\ b \in AnyUuid /\ job["loop"].ans \in Answered1
  BY <1>1, OfLoop, JobHas DEF Pc, OfPlaced
<1>3. Fits(told)
  BY <1>2, FitsMem, FitsFill, AnsweredIs DEF TypeInv
<1>4. <<b, "sold elsewhere">> \in AnyUuid \X Reasons
  BY <1>2 DEF Reasons
<1>5. log' = log
  BY <1>1 DEF SellDone
<1> HIDE DEF b
<1>6. Others
  BY <1>1, <1>4, <1>5, LosesOthers DEF Actors, TypeInv, HistTyped, FailsGo, LogGoes
<1>7. CASE SellDone(told)
  BY <1>1, <1>3, <1>6, <1>7, SellDoneTyped
<1>8. CASE Finish("loop") /\ Memory(told)
  BY <1>2, <1>3, <1>6, <1>8, LoopFinishTyped
<1> QED
  BY <1>1, <1>7, <1>8

LEMMA SettleOrderTyped == ASSUME TypeInv, SettleOrder PROVE TypeInv'
<1>1. /\ loop' = loop /\ job["loop"].pc = "settle" /\ Settle("loop", mem, Ref, job["loop"].ans)
      /\ UNCHANGED <<ex, fails, bounds, hist>>
  BY DEF SettleOrder, Ref
<1>2. /\ Ref \in InHand /\ Passes(Ref) /\ Ref \in DOMAIN mem.obj /\ Placed(mem, Ref) /\ Fits(mem)
      /\ job["loop"].ans \in Answered1
  BY <1>1, OfLoop, FitsMem, JobHas DEF Pc, OfPlaced, TypeInv, Obj
<1> QED
  BY <1>1, <1>2, SettleTyped DEF FailsGo

LEMMA DropOrderTyped == ASSUME TypeInv, DropOrder PROVE TypeInv'
<1>1. /\ loop' = loop /\ Finish("loop") /\ Memory(RemoveOrder(mem, Ord("loop").uuid))
      /\ UNCHANGED <<ex, fails, log, bounds, hist>>
  BY DEF DropOrder
<1>2. Fits(RemoveOrder(mem, Ord("loop").uuid))
  BY FitsMem, FitsRemoved DEF TypeInv
<1> QED
  BY <1>1, <1>2, SameVisits, OthersSame, LoopFinishTyped

LEMMA MessageFailsTyped == ASSUME TypeInv, MessageFails PROVE TypeInv'
<1>1. /\ loop' = NothingToDo("scan") /\ Finish("loop") /\ Memory(mem)
      /\ UNCHANGED <<ex, fails, log, bounds, hist>>
  BY DEF MessageFails
<1>2. Passes(NoDict)
  BY <1>1 DEF Passes, NothingToDo, LoopFields, Visited, Queried
<1> QED
  BY <1>1, <1>2, FitsMem, OthersSame, LoopFinishTyped DEF TypeInv

(***************************************************************************)
(* A job whose fields change.                                              *)
(***************************************************************************)
\* Actor a keeps its dict and goes on to pc, which needs no placed order that it had not.
LEMMA ChangesMoves ==
    ASSUME TypeInv, NEW a \in Actors, NEW j \in Jobs, job' = [job EXCEPT ![a] = j]
    PROVE  Moves(a, j.pc, j.ref)
  BY DEF Moves, TypeInv, JobsTyped

LEMMA ChangesTyped ==
    ASSUME TypeInv, Others, loop' = loop, NEW a \in Actors, NEW j \in Jobs, job' = [job EXCEPT ![a] = j],
           j.ref = job[a].ref, j.pc # "free", job[a].pc # "free",
           j.pc \in OfPlaced => job[a].pc \in OfPlaced, Lands(mem)
    PROVE  TypeInv'
<1>1. Moves(a, j.pc, job[a].ref)
  BY ChangesMoves
<1>2. /\ job[a].ref \in DOMAIN mem.obj /\ (j.pc \in OfPlaced => Placed(mem, job[a].ref))
      /\ a = "loop" => job[a].ref \in InHand
  BY OfJob DEF Obj
<1>3. Fits(mem) /\ Visits(mem)
  BY FitsMem, SameVisits, PassesVisits DEF TypeInv
<1>4. Visited' = Visited /\ Ref \notin Visited
  BY DEF Visited, TypeInv, LoopTyped
<1>5. a = "loop" => job[a].ref \notin Visited'
  BY <1>4 DEF Ref
<1> QED
  BY <1>1, <1>2, <1>3, <1>5, GoesOnTyped

\* The list stays as it is, and so do the dicts.
LEMMA LandsSame ==
    ASSUME TypeInv, UNCHANGED <<mem, loop>>, NEW a \in Actors, NEW j \in Jobs, job' = [job EXCEPT ![a] = j],
           j.ref = job[a].ref
    PROVE  Lands(mem)
<1>1. \A b \in Actors : job'[b].ref = job[b].ref
  BY DEF TypeInv, JobsTyped
<1>2. Held' = Held
  BY <1>1 DEF Held
<1> QED
  BY <1>2 DEF Lands

LEMMA NoOpenOrderTyped == ASSUME TypeInv, NEW a \in Actors, NoOpenOrder(a) PROVE TypeInv'
<1> DEFINE j == [job[a] EXCEPT !.pc = "create"]
<1>1. /\ UNCHANGED <<mem, loop>> /\ job[a].pc = "look" /\ job' = [job EXCEPT ![a].pc = "create"]
      /\ UNCHANGED <<ex, fails, log, bounds, hist>>
  BY DEF NoOpenOrder
<1>2. j \in Jobs /\ j.pc = "create" /\ j.ref = job[a].ref
  BY <1>1, OfJob, PcsHas DEF Jobs
<1>3. job' = [job EXCEPT ![a] = j]
  BY <1>1
<1> HIDE DEF j
<1>4. Lands(mem)
  BY <1>1, <1>2, <1>3, LandsSame
<1> QED
  BY <1>1, <1>2, <1>3, <1>4, ChangesTyped, OthersSame DEF OfPlaced

LEMMA CancelFailsTyped == ASSUME TypeInv, NEW a \in Actors, CancelFails(a) PROVE TypeInv'
<1> DEFINE j == [job[a] EXCEPT !.pc = "recheck"]
<1>1. /\ UNCHANGED <<mem, loop>> /\ job[a].pc = "cancel" /\ job' = [job EXCEPT ![a].pc = "recheck"]
      /\ UNCHANGED <<ex, fails, log, bounds, hist>>
  BY DEF CancelFails
<1>2. j \in Jobs /\ j.pc = "recheck" /\ j.ref = job[a].ref
  BY <1>1, OfJob, PcsHas DEF Jobs
<1>3. job' = [job EXCEPT ![a] = j]
  BY <1>1
<1> HIDE DEF j
<1>4. Lands(mem)
  BY <1>1, <1>2, <1>3, LandsSame
<1> QED
  BY <1>1, <1>2, <1>3, <1>4, ChangesTyped, OthersSame DEF OfPlaced

LEMMA RemainingIs ==
    ASSUME NEW e \in Entries
    PROVE  Remaining(e) \in 0..Volume
<1>1. e.vol \in 0..Volume /\ e.filled \in 0..Volume
  BY EntryHas
<1> QED
  BY <1>1, SyncAssumption DEF Remaining, Max2

LEMMA StopCancelledTyped == ASSUME TypeInv, StopCancelled PROVE TypeInv'
<1> DEFINE j == [job["loop"] EXCEPT !.pc = "place", !.hit = Reserved, !.n = Remaining(Ord("loop"))]
<1>1. /\ UNCHANGED <<mem, loop>> /\ job["loop"].pc = "stop" /\ job' = [job EXCEPT !["loop"] = j]
      /\ UNCHANGED <<ex, fails, log, bounds, hist>> /\ "loop" \in Actors
  BY DEF StopCancelled, Actors
<1>2. job["loop"] \in Jobs /\ Ord("loop") \in Entries
  BY <1>1, OfLoop
<1>3. j \in Jobs /\ j.pc = "place" /\ j.ref = job["loop"].ref
  BY <1>2, RemainingIs, PcsHas DEF Jobs, AnyUuid
<1> HIDE DEF j
<1>4. Lands(mem)
  BY <1>1, <1>3, LandsSame
<1> QED
  BY <1>1, <1>3, <1>4, ChangesTyped, OthersSame DEF OfPlaced

LEMMA StopNotCancelledTyped == ASSUME TypeInv, StopNotCancelled PROVE TypeInv'
<1>1. loop' = loop /\ Finish("loop") /\ Memory(mem) /\ UNCHANGED <<ex, fails, log, bounds, hist>>
  BY DEF StopNotCancelled
<1> QED
  BY <1>1, FitsMem, SameVisits, OthersSame, LoopFinishTyped DEF TypeInv

LEMMA StopPlacedTyped == ASSUME TypeInv, StopPlaced PROVE TypeInv'
<1> DEFINE u == job["loop"].hit
           e == [uuid |-> u, kind |-> "stop", vol |-> job["loop"].n, filled |-> 0, status |-> "placed", of |-> NoBuy]
           m == RemoveOrder(mem, Ord("loop").uuid)
<1>1. /\ loop' = loop /\ job["loop"].pc = "place" /\ u # Reserved /\ Finish("loop") /\ Memory(AddOrder(m, e))
      /\ UNCHANGED <<ex, fails, log, bounds, source, waived, orphaned>> /\ raced' = (raced \/ Has(mem, u))
  BY DEF StopPlaced, Reached
<1>2. u \in Uuids /\ job["loop"].n \in 0..Volume
  BY <1>1, OfLoop, JobHas
<1>3. e \in Entries /\ e.uuid = u
  BY <1>2, NoVolumes DEF Entries, Kinds, Statuses, AnyUuid
<1> HIDE DEF e
<1>4. Fits(m) /\ m.obj = Obj
  BY FitsMem, FitsRemoved DEF TypeInv, RemoveOrder, Obj
<1>5. Fits(AddOrder(m, e))
  BY <1>2, <1>3, <1>4, FitsAdded
<1>6. NotesGo
  BY <1>1 DEF NotesGo, TypeInv, HistTyped, Has
<1>7. Others
  BY <1>1, <1>6, NotedOthers DEF FailsGo, LogGoes
<1> QED
  BY <1>1, <1>5, <1>7, SameVisits, LoopFinishTyped

LEMMA StopFailsTyped == ASSUME TypeInv, StopFails PROVE TypeInv'
<1> DEFINE n == job["loop"].tries + 1
           j == [job["loop"] EXCEPT !.tries = n, !.hit = Reserved]
<1>1. /\ loop' = loop /\ job["loop"].pc = "place" /\ orphaned' = orphaned \cup Lost("loop")
      /\ UNCHANGED <<ex, fails, log, bounds, source, waived, raced>> /\ "loop" \in Actors
  BY DEF StopFails, Actors
<1>2. Others
  BY <1>1, LosesOthers DEF TypeInv, HistTyped, FailsGo, LogGoes
<1>3. job["loop"] \in Jobs /\ n \in Nat
  <2>1. job["loop"] \in Jobs /\ job["loop"].tries \in Nat
    BY <1>1, OfLoop, JobHas
  <2> QED
    BY <2>1
<1>4. CASE job["loop"].tries + 1 < StopRetries
  <2>1. job' = [job EXCEPT !["loop"] = [@ EXCEPT !.tries = job["loop"].tries + 1, !.hit = Reserved]] /\ Memory(mem)
    BY <1>4 DEF StopFails
  <2>2. job' = [job EXCEPT !["loop"] = j]
    BY <2>1
  <2> HIDE DEF n
  <2>3. j \in Jobs /\ j.pc = "place" /\ j.ref = job["loop"].ref
    BY <1>1, <1>3 DEF Jobs, AnyUuid
  <2> HIDE DEF j
  <2> QED
    BY <1>1, <1>2, <2>1, <2>2, <2>3, ChangesTyped, LandsOn DEF OfPlaced
<1>5. CASE ~(job["loop"].tries + 1 < StopRetries)
  <2>1. Finish("loop") /\ Memory(RemoveOrder(mem, Ord("loop").uuid))
    BY <1>5 DEF StopFails
  <2> QED
    BY <1>1, <1>2, <2>1, FitsMem, FitsRemoved, SameVisits, LoopFinishTyped DEF TypeInv
<1> QED
  BY <1>4, <1>5

(***************************************************************************)
(* Submissions and cancels, of either coroutine.                           *)
(***************************************************************************)
LEMMA ActorFinishTyped ==
    ASSUME TypeInv, Others, loop' = loop, NEW m, Fits(m), Memory(m), NEW a \in Actors, Finish(a)
    PROVE  TypeInv'
  BY FinishTyped, SameVisits, PassesVisits, LandsOn

LEMMA ReplacedOthers ==
    ASSUME TypeInv, NEW e \in Entries, NEW u \in Uuids, Replaced(e, u), fails' = NoneFailed("reorder", e.uuid),
           UNCHANGED <<ex, log, bounds>>
    PROVE  Others
<1>1. e.uuid \in AnyUuid /\ u \in AnyUuid
  BY EntryIs DEF AnyUuid
<1>2. FailsGo
  BY <1>1 DEF FailsGo
<1>3. waived' \subseteq waived \cup (AnyUuid \X Reasons)
  <2>1. <<u, "resubmitted">> \in AnyUuid \X Reasons
    BY <1>1 DEF Reasons
  <2> QED
    BY <2>1 DEF Replaced
<1>4. raced' \in BOOLEAN
  BY DEF Replaced, TypeInv, HistTyped, Overtaken, Has
<1>5. orphaned' \subseteq orphaned \cup Uuids /\ source' = source
  BY DEF Replaced
<1> QED
  BY <1>2, <1>3, <1>4, <1>5, NotedOthers DEF NotesGo, LogGoes

LEMMA AdoptOpenOrderTyped == ASSUME TypeInv, NEW a \in Actors, AdoptOpenOrder(a) PROVE TypeInv'
<1> DEFINE e == Ord(a)
<1>1. PICK u \in Uuids :
        /\ loop' = loop /\ job[a].pc = "look" /\ UNCHANGED <<ex, log, bounds>>
        /\ fails' = NoneFailed("reorder", e.uuid) /\ Replaced(e, u)
        /\ Finish(a) /\ Memory(ReplaceUuid(mem, e.uuid, u))
  BY DEF AdoptOpenOrder
<1>2. e \in Entries /\ e.uuid \in AnyUuid
  BY <1>1, OfJob
<1> HIDE DEF e
<1> QED
  BY <1>1, <1>2, ReplacedOthers, FitsReplaced, ActorFinishTyped DEF TypeInv

LEMMA OrderSubmittedTyped == ASSUME TypeInv, NEW a \in Actors, OrderSubmitted(a) PROVE TypeInv'
<1> DEFINE e == Ord(a)
           u == job[a].hit
<1>1. /\ loop' = loop /\ job[a].pc = "create" /\ u # Reserved /\ UNCHANGED <<ex, log, bounds>>
      /\ fails' = NoneFailed("reorder", e.uuid) /\ Replaced(e, u)
      /\ Finish(a) /\ Memory(ReplaceUuid(mem, e.uuid, u))
  BY DEF OrderSubmitted, Reached
<1>2. e \in Entries /\ e.uuid \in AnyUuid /\ u \in Uuids
  BY <1>1, OfJob, JobHas
<1> HIDE DEF e, u
<1> QED
  BY <1>1, <1>2, ReplacedOthers, FitsReplaced, ActorFinishTyped DEF TypeInv

LEMMA SubmitFailsTyped == ASSUME TypeInv, NEW a \in Actors, SubmitFails(a) PROVE TypeInv'
<1> DEFINE e == Ord(a)
           enough == TooMany("reorder", e.uuid)
           m == IF enough THEN RemoveOrder(mem, e.uuid) ELSE mem
<1>1. /\ loop' = loop /\ job[a].pc = "create" /\ UNCHANGED <<ex, log, bounds, source, waived>>
      /\ orphaned' = orphaned \cup Lost(a) /\ raced' = (raced \/ (enough /\ Overtaken(e)))
      /\ fails' = OneMoreFailed("reorder", e.uuid) /\ Finish(a) /\ Memory(m)
  BY DEF SubmitFails
<1>2. e.uuid \in AnyUuid
  BY <1>1, OfJob
<1>3. FailsGo
  BY <1>1, <1>2 DEF FailsGo
<1>4. raced' \in BOOLEAN
  BY <1>1 DEF TypeInv, HistTyped, Overtaken, Has, TooMany
<1>5. Others
  BY <1>1, <1>3, <1>4, LosesOthers DEF TypeInv, HistTyped, LogGoes
<1>6. Fits(m)
  BY FitsMem, FitsRemoved DEF TypeInv
<1> HIDE DEF m
<1> QED
  BY <1>1, <1>5, <1>6, ActorFinishTyped

\* What GiveUp and a cancel write down.
LEMMA CancelledOthers ==
    ASSUME TypeInv, NEW a \in Actors, job[a].pc # "free", log' = Logged(a, job[a].own, job[a].n), GiveUp(a),
           UNCHANGED <<ex, fails, bounds, source, orphaned, raced>>
    PROVE  Others
<1>1. job[a].own \in AnyUuid /\ job[a].n \in Nat /\ job[a].u \in AnyUuid
  BY OfJob, JobHas
<1>2. LogGoes
  BY <1>1, LogSome
<1>3. waived' \subseteq waived \cup (AnyUuid \X Reasons)
  <2>1. <<job[a].u, "cancelled">> \in AnyUuid \X Reasons
    BY <1>1 DEF Reasons
  <2> QED
    BY <2>1 DEF GiveUp
<1>4. NotesGo
  BY <1>3 DEF NotesGo, TypeInv, HistTyped
<1> QED
  BY <1>2, <1>4, NotedOthers DEF FailsGo

LEMMA CancelAcceptedTyped == ASSUME TypeInv, NEW a \in Actors, CancelAccepted(a) PROVE TypeInv'
<1>1. /\ loop' = loop /\ job[a].pc = "cancel" /\ log' = Logged(a, job[a].own, job[a].n) /\ GiveUp(a)
      /\ Finish(a) /\ Memory(RemoveOrder(mem, job[a].u))
      /\ UNCHANGED <<ex, fails, bounds, source, orphaned, raced>>
  BY DEF CancelAccepted
<1>2. Others
  BY <1>1, CancelledOthers
<1>3. Fits(RemoveOrder(mem, job[a].u))
  BY FitsMem, FitsRemoved DEF TypeInv
<1> QED
  BY <1>1, <1>2, <1>3, ActorFinishTyped

LEMMA RecheckTyped == ASSUME TypeInv, NEW a \in Actors, Recheck(a) PROVE TypeInv'
<1>1. /\ loop' = loop /\ job[a].pc = "recheck" /\ Finish(a)
      /\ UNCHANGED <<ex, fails, bounds, source, orphaned, raced>>
      /\ \/ log' = Logged(a, job[a].own, job[a].n) /\ GiveUp(a) /\ Memory(RemoveOrder(mem, job[a].u))
         \/ Memory(mem) /\ UNCHANGED <<log, waived>>
  BY DEF Recheck
<1>2. Fits(mem) /\ Fits(RemoveOrder(mem, job[a].u))
  BY FitsMem, FitsRemoved DEF TypeInv
<1>3. CASE log' = Logged(a, job[a].own, job[a].n) /\ GiveUp(a) /\ Memory(RemoveOrder(mem, job[a].u))
  <2>1. Others
    BY <1>1, <1>3, CancelledOthers
  <2> QED
    BY <1>1, <1>2, <1>3, <2>1, ActorFinishTyped
<1>4. CASE Memory(mem) /\ UNCHANGED <<log, waived>>
  <2>1. Others
    BY <1>1, <1>4, OthersSame DEF hist
  <2> QED
    BY <1>1, <1>2, <1>4, <2>1, ActorFinishTyped
<1> QED
  BY <1>1, <1>3, <1>4

LEMMA MostIs == ASSUME NEW x \in 0..Volume, NEW y \in 0..Volume PROVE Max2(x, y) \in 0..Volume
  BY DEF Max2

LEMMA AskBeforeCancelTyped == ASSUME TypeInv, AskBeforeCancel PROVE TypeInv'
<1> DEFINE own == job["loop"].own
<1>1. PICK ans \in Answers(own) :
        \/ ProcessFill("loop", Ref, ans)
        \/ /\ AwaitWith("loop", "cancel", Ref, Max2(Ord("loop").filled, ans.exec), Ord("loop").uuid, own)
           /\ Memory(mem) /\ UNCHANGED log
  BY DEF AskBeforeCancel, Ref
<1>2. loop' = loop /\ job["loop"].pc = "ask" /\ UNCHANGED <<ex, fails, bounds, hist>>
  BY DEF AskBeforeCancel
<1>3. /\ Ref \in InHand /\ Passes(Ref) /\ Ref \in DOMAIN mem.obj /\ Placed(mem, Ref) /\ Fits(mem)
      /\ own \in AnyUuid /\ Ord("loop") \in Entries /\ Ord("loop").uuid \in AnyUuid
  BY <1>2, OfLoop, FitsMem, JobHas DEF Pc, OfPlaced, TypeInv, Obj
<1>4. ans \in Answered1
  BY <1>3, AnswerTyped
<1>5. CASE ProcessFill("loop", Ref, ans)
  BY <1>2, <1>3, <1>4, <1>5, ProcessFillTyped DEF FailsGo
<1>6. CASE /\ AwaitWith("loop", "cancel", Ref, Max2(Ord("loop").filled, ans.exec), Ord("loop").uuid, own)
           /\ Memory(mem) /\ UNCHANGED log
  <2>1. Max2(Ord("loop").filled, ans.exec) \in 0..Volume
    BY <1>3, <1>4, EntryHas, AnsweredIs, MostIs
  <2>2. Ref \in Dicts /\ "loop" \in Actors /\ Ref \notin Visited'
    BY <1>3 DEF Actors, Fits, Typed, Passes
  <2>3. Moves("loop", "cancel", Ref)
    BY <1>3, <1>6, <2>1, <2>2, AwaitWithMoves, PcsHas
  <2>4. Visits(mem) /\ Lands(mem)
    BY <1>3, <1>6, PassesVisits, LandsOn
  <2>5. Others
    BY <1>2, <1>6, OthersSame
  <2> QED
    BY <1>3, <2>2, <2>3, <2>4, <2>5, GoesOnTyped DEF OfPlaced
<1> QED
  BY <1>1, <1>5, <1>6

(***************************************************************************)
(* The cycle.                                                              *)
(***************************************************************************)
\* A dict the loop still has to visit, or asks about.
LEMMA VisitedHas ==
    ASSUME TypeInv, NEW d \in Visited
    PROVE  /\ d \in InHand /\ d \in DOMAIN mem.obj /\ d \in Dicts
           /\ mem.obj[d] \in Entries /\ mem.obj[d].uuid \in AnyUuid
           /\ mem.obj[d].uuid = Reserved => reserving /\ mem.obj[d].status \in {"waiting", "cancel_requested"}
           /\ d \in Queried => Placed(mem, d)
<1>1. d \in InHand /\ d \in DOMAIN mem.obj
  BY TypedShapes, InHandIsKnown DEF InHand, Obj
<1>2. (d \in Queried => Placed(mem, d)) /\ Typed(mem)
  BY DEF TypeInv, LoopTyped
<1>3. mem.obj[d] \in Entries /\ d \in Dicts
      /\ (mem.obj[d].uuid = Reserved => reserving /\ mem.obj[d].status \in {"waiting", "cancel_requested"})
  BY <1>1, <1>2 DEF Typed
<1>4. mem.obj[d].uuid \in AnyUuid
  BY <1>3, EntryIs
<1> QED
  BY <1>1, <1>2, <1>3, <1>4

LEMMA UuidOr == ASSUME NEW u \in AnyUuid, u # Reserved PROVE u \in Uuids
  BY DEF AnyUuid

\* The loop has taken d from its list, or from the answers.
LEMMA TakenPasses ==
    ASSUME TypeInv, NEW d \in loop.todo, loop' = [loop EXCEPT !.todo = @ \ {d}]
    PROVE  Passes(d)
<1>1. /\ DOMAIN loop' = LoopFields /\ loop'.phase = loop.phase /\ loop'.todo = loop.todo \ {d}
      /\ loop'.asked = loop.asked /\ loop'.answers = loop.answers
  BY DEF TypeInv, LoopTyped, LoopFields
<1> QED
  BY <1>1 DEF Passes, Visited, Queried, TypeInv, LoopTyped

LEMMA AnsweredPasses ==
    ASSUME TypeInv, NEW d \in DOMAIN loop.answers, Answered(d)
    PROVE  /\ Passes(d) /\ d \in Visited /\ d \in Queried /\ loop.answers[d] \in Answered1 /\ Placed(mem, d)
<1> DEFINE rest == Restrict(loop.answers, DOMAIN loop.answers \ {d})
<1>1. DOMAIN rest = DOMAIN loop.answers \ {d} /\ \A x \in DOMAIN rest : rest[x] = loop.answers[x]
  BY DEF Restrict
<1>2. loop' = [loop EXCEPT !.answers = rest] /\ loop.todo = {} /\ loop.asked = {}
  BY DEF Answered
<1> HIDE DEF rest
<1>3. /\ DOMAIN loop' = LoopFields /\ loop'.phase = loop.phase /\ loop'.todo = {}
      /\ loop'.asked = {} /\ loop'.answers = rest
  BY <1>2 DEF TypeInv, LoopTyped, LoopFields
<1>4. Passes(d)
  BY <1>1, <1>3 DEF Passes, Visited, Queried, TypeInv, LoopTyped
<1> QED
  BY <1>4 DEF Visited, Queried, TypeInv, LoopTyped

LEMMA PassesOnTyped ==
    ASSUME TypeInv, Others, NEW d, Passes(d), NEW m, Fits(m), Memory(m), job' = job
    PROVE  TypeInv'
  BY StaysTyped, PassesVisits, LandsOn

LEMMA SubmitTyped ==
    ASSUME TypeInv, Others, NEW a \in Actors, NEW d, Visits(mem), d \in DOMAIN mem.obj, mem.obj[d] \in Entries,
           a = "loop" => d \in InHand /\ d \notin Visited', Submit(a, d)
    PROVE  TypeInv'
<1> DEFINE e == mem.obj[d]
<1>1. Fits(mem) /\ Fits(RemoveOrder(mem, e.uuid))
  BY FitsMem, FitsRemoved DEF TypeInv
<1>2. Visits(RemoveOrder(mem, e.uuid))
  BY DEF Visits, Placed, RemoveOrder
<1>3. Remaining(e) \in 0..Volume
  BY RemainingIs
<1>4. CASE Finish(a) /\ Memory(RemoveOrder(mem, e.uuid))
  BY <1>1, <1>2, <1>4, FinishTyped, LandsOn
<1>5. CASE Finish(a) /\ Memory(mem)
  BY <1>1, <1>5, FinishTyped, LandsOn
<1>6. CASE Await(a, "look", d, NoAnswer, Remaining(e)) /\ Memory(mem)
  <2>1. d \in Dicts
    BY DEF TypeInv, Typed
  <2>2. Moves(a, "look", d)
    BY <1>3, <1>6, <2>1, NoAnswerTyped, PcsHas, AwaitMoves
  <2> QED
    BY <1>1, <1>6, <2>2, GoesOnTyped, LandsOn DEF OfPlaced
<1> QED
  BY <1>4, <1>5, <1>6 DEF Submit

LEMMA ScanTyped == ASSUME TypeInv, NEW d \in loop.todo, Scan(d) PROVE TypeInv'
<1> DEFINE e == mem.obj[d]
           visited == [loop EXCEPT !.todo = @ \ {d}]
<1>1. /\ d \in InHand /\ d \in DOMAIN mem.obj /\ d \in Dicts /\ e \in Entries /\ e.uuid \in AnyUuid
      /\ e.uuid = Reserved => reserving /\ e.status \in {"waiting", "cancel_requested"}
      /\ "loop" \in Actors
  BY VisitedHas DEF Visited, Actors
<1>2. UNCHANGED <<ex, fails, log, bounds, hist>> /\ Others
  BY OthersSame DEF Scan
<1>3. Fits(mem) /\ Fits(RemoveOrder(mem, e.uuid))
  BY FitsMem, FitsRemoved DEF TypeInv
<1>4. loop' = visited => Passes(d) /\ Visits(mem) /\ d \notin Visited'
  BY TakenPasses, PassesVisits DEF Passes
<1>5. CASE loop' = visited /\ UNCHANGED job /\ Memory(mem)
  BY <1>2, <1>3, <1>4, <1>5, PassesOnTyped
<1>6. CASE loop' = visited /\ UNCHANGED job /\ Memory(RemoveOrder(mem, e.uuid))
  BY <1>2, <1>3, <1>4, <1>6, PassesOnTyped
<1>7. CASE /\ loop' = visited /\ e.uuid # Reserved
           /\ AwaitWith("loop", "ask", d, 0, Reserved, e.uuid) /\ Memory(mem)
  <2>1. Placed(mem, d)
    BY <1>1, <1>7, UuidOr DEF Placed
  <2>2. Moves("loop", "ask", d)
    BY <1>1, <1>7, NoVolumes, PcsHas, AwaitWithMoves DEF AnyUuid
  <2> QED
    BY <1>1, <1>2, <1>3, <1>4, <1>7, <2>1, <2>2, GoesOnTyped, LandsOn
<1>8. CASE /\ loop' = visited /\ e.status # "cancel_requested" /\ reserving /\ UNCHANGED job
           /\ Memory(UpdateStatus(mem, e.uuid, IF Waiting(e) THEN "waiting" ELSE "placed"))
  <2>1. CASE Waiting(e)
    <3>1. Fits(UpdateStatus(mem, e.uuid, "waiting"))
      BY <1>3, FitsStatus DEF Statuses
    <3> QED
      BY <1>2, <1>4, <1>8, <2>1, <3>1, PassesOnTyped
  <2>2. CASE ~Waiting(e)
    <3>1. e.uuid \in Uuids
      BY <1>1, <1>8, <2>2, UuidOr DEF Waiting
    <3>2. Fits(UpdateStatus(mem, e.uuid, "placed"))
      BY <1>3, <3>1, FitsStatus DEF Statuses
    <3> QED
      BY <1>2, <1>4, <1>8, <2>2, <3>2, PassesOnTyped
  <2> QED
    BY <2>1, <2>2
<1>9. CASE loop' = visited /\ Submit("loop", d)
  BY <1>1, <1>2, <1>4, <1>9, SubmitTyped
<1>10. CASE /\ e.status # "cancel_requested" /\ ~Waiting(e)
            /\ loop' = [visited EXCEPT !.asked = @ \cup {d}] /\ UNCHANGED job /\ Memory(mem)
  <2>1. Placed(mem, d)
    BY <1>1, <1>10, UuidOr DEF Placed, Waiting
  <2>2. /\ DOMAIN loop' = LoopFields /\ loop'.phase = loop.phase /\ loop'.todo = loop.todo \ {d}
        /\ loop'.asked = loop.asked \cup {d} /\ loop'.answers = loop.answers
    BY <1>10 DEF TypeInv, LoopTyped, LoopFields
  <2>3. Visits(mem)
    BY <2>1, <2>2 DEF Visits, Visited, Queried, TypeInv, LoopTyped
  <2> QED
    BY <1>2, <1>3, <1>10, <2>3, StaysTyped, LandsOn
<1> QED
  BY <1>5, <1>6, <1>7, <1>8, <1>9, <1>10 DEF Scan

LEMMA QueryTyped == ASSUME TypeInv, NEW d \in loop.asked, Query(d) PROVE TypeInv'
<1>1. PICK ans \in IF Has(mem, mem.obj[d].uuid) THEN Answers(mem.obj[d].uuid) ELSE {NoAnswer} :
        loop' = [loop EXCEPT !.asked = @ \ {d}, !.answers = Put(@, d, ans)]
  BY DEF Query
<1>2. UNCHANGED <<mem, job>> /\ Others /\ Fits(mem)
  BY OthersSame, FitsMem DEF Query, TypeInv
<1>3. ans \in Answered1
  <2>1. mem.obj[d].uuid \in AnyUuid
    BY VisitedHas DEF Visited
  <2> QED
    BY <1>1, <2>1, AnswerTyped, NoAnswerTyped
<1> DEFINE put == Put(loop.answers, d, ans)
<1>4. /\ DOMAIN put = DOMAIN loop.answers \cup {d} /\ put[d] = ans
      /\ \A x \in DOMAIN loop.answers \ {d} : put[x] = loop.answers[x]
  BY DEF Put
<1>5. loop' = [loop EXCEPT !.asked = loop.asked \ {d}, !.answers = put]
  BY <1>1
<1> HIDE DEF put
<1>6. /\ DOMAIN loop' = LoopFields /\ loop'.phase = loop.phase /\ loop'.todo = loop.todo
      /\ loop'.asked = loop.asked \ {d} /\ loop'.answers = put
  BY <1>5 DEF TypeInv, LoopTyped, LoopFields
<1>7. Visits(mem)
  BY <1>3, <1>4, <1>6 DEF Visits, Visited, Queried, TypeInv, LoopTyped
<1>8. Lands(mem)
  <2>1. Held' = Held
    BY <1>2, <1>4, <1>6 DEF Held
  <2> QED
    BY <1>2, <2>1 DEF Lands
<1> QED
  BY <1>2, <1>7, <1>8, StaysTyped

LEMMA ForgottenTyped == ASSUME TypeInv, NEW d \in DOMAIN loop.answers, Forgotten(d) PROVE TypeInv'
<1>1. Answered(d) /\ UNCHANGED job /\ Memory(mem) /\ UNCHANGED <<ex, fails, log, bounds, hist>>
  BY DEF Forgotten
<1> QED
  BY <1>1, AnsweredPasses, OthersSame, FitsMem, PassesOnTyped DEF TypeInv

LEMMA UnansweredTyped == ASSUME TypeInv, NEW d \in DOMAIN loop.answers, Unanswered(d) PROVE TypeInv'
<1> DEFINE e == mem.obj[d]
           enough == TooMany("status", e.uuid)
           m == CASE ~enough -> mem
                  [] enough /\ IsStrategy(e) -> UpdateStatus(mem, e.uuid, "waiting")
                  [] OTHER -> RemoveOrder(mem, e.uuid)
<1>1. /\ Answered(d) /\ fails' = OneMoreFailed("status", e.uuid)
      /\ orphaned' = IF enough THEN orphaned \cup {e.uuid} ELSE orphaned
      /\ UNCHANGED job /\ Memory(m) /\ UNCHANGED <<ex, log, bounds, source, waived, raced>>
  BY DEF Unanswered
<1>2. Passes(d) /\ e.uuid \in Uuids /\ e.uuid \in AnyUuid
  BY <1>1, AnsweredPasses, PlacedIsUuid
<1>3. Fits(mem) /\ Fits(UpdateStatus(mem, e.uuid, "waiting")) /\ Fits(RemoveOrder(mem, e.uuid))
  BY FitsMem, FitsStatus, FitsRemoved DEF TypeInv, Statuses
<1>4. Fits(m)
  <2> HIDE DEF e
  <2>1. m = mem \/ m = UpdateStatus(mem, e.uuid, "waiting") \/ m = RemoveOrder(mem, e.uuid)
    OBVIOUS
  <2> QED
    BY <1>3, <2>1
<1>5. Others
  <2>1. FailsGo
    BY <1>1, <1>2 DEF FailsGo
  <2>2. NotesGo
    BY <1>1, <1>2 DEF NotesGo, TypeInv, HistTyped
  <2> QED
    BY <1>1, <2>1, <2>2, NotedOthers DEF LogGoes
<1> HIDE DEF m
<1> QED
  BY <1>1, <1>2, <1>4, <1>5, PassesOnTyped

LEMMA ProcessTyped == ASSUME TypeInv, NEW d \in DOMAIN loop.answers, Process(d) PROVE TypeInv'
<1> DEFINE e == mem.obj[d]
           ans == loop.answers[d]
<1>1. /\ Answered(d) /\ fails' = NoneFailed("status", e.uuid) /\ UNCHANGED <<ex, bounds, hist>>
      /\ \/ AwaitWith("loop", "stop", d, 0, e.uuid, e.uuid) /\ Memory(mem) /\ UNCHANGED log
         \/ ProcessFill("loop", d, ans)
  BY DEF Process
<1>2. /\ Passes(d) /\ d \in Visited /\ ans \in Answered1 /\ Placed(mem, d)
  BY <1>1, AnsweredPasses
<1>3. d \in InHand /\ d \in DOMAIN mem.obj /\ d \in Dicts /\ e.uuid \in AnyUuid
  BY <1>2, VisitedHas
<1>4. FailsGo
  BY <1>1, <1>3 DEF FailsGo
<1>5. CASE ProcessFill("loop", d, ans)
  BY <1>1, <1>2, <1>3, <1>4, <1>5, ProcessFillTyped
<1>6. CASE AwaitWith("loop", "stop", d, 0, e.uuid, e.uuid) /\ Memory(mem) /\ UNCHANGED log
  <2>1. Others
    BY <1>1, <1>4, <1>6, LogOthers DEF LogGoes
  <2>2. "loop" \in Actors /\ d \notin Visited' /\ Visits(mem) /\ Lands(mem) /\ Fits(mem)
    BY <1>2, <1>6, PassesVisits, LandsOn, FitsMem DEF Actors, Passes, TypeInv
  <2>3. Moves("loop", "stop", d)
    BY <1>3, <1>6, <2>2, AwaitWithMoves, NoVolumes, PcsHas
  <2> QED
    BY <1>3, <2>1, <2>2, <2>3, GoesOnTyped DEF OfPlaced
<1> QED
  BY <1>1, <1>5, <1>6

LEMMA RecoverTyped == ASSUME TypeInv, NEW d \in loop.todo, Recover(d) PROVE TypeInv'
<1> DEFINE e == mem.obj[d]
           sold == LinkedVolume(mem, e.uuid)
<1>1. PICK ans \in IF Has(mem, e.uuid) THEN Answers(e.uuid) ELSE {NoAnswer} :
        \/ UNCHANGED job /\ Memory(mem)
        \/ ans.exec > e.filled /\ UNCHANGED job /\ Memory(UpdateFill(mem, e.uuid, ans.exec))
        \/ ans.exec > e.filled /\ sold < ans.exec /\ Await("loop", "sell", d, ans, ans.exec - sold) /\ Memory(mem)
  BY DEF Recover
<1>2. Passes(d) /\ Others /\ Fits(mem)
  BY TakenPasses, OthersSame, FitsMem DEF Recover, TypeInv
<1>3. d \in InHand /\ d \in DOMAIN mem.obj /\ e \in Entries /\ e.uuid \in AnyUuid
  BY VisitedHas DEF Visited
<1>4. ans \in Answered1 /\ (ans # NoAnswer => e.uuid \in Uuids)
  BY <1>1, <1>3, AnswerTyped, NoAnswerTyped
<1>5. ans.exec \in 0..Volume
  BY <1>4, AnsweredIs
<1>6. ans.exec > e.filled => e.uuid \in Uuids
  <2>1. NoAnswer.exec = 0
    BY DEF NoAnswer
  <2>2. e.filled \in Nat
    BY <1>3, EntryHas
  <2> QED
    BY <1>4, <1>5, <2>1, <2>2
<1>7. CASE UNCHANGED job /\ Memory(mem)
  BY <1>2, <1>7, PassesOnTyped
<1>8. CASE ans.exec > e.filled /\ UNCHANGED job /\ Memory(UpdateFill(mem, e.uuid, ans.exec))
  <2>1. Fits(UpdateFill(mem, e.uuid, ans.exec))
    BY <1>2, <1>5, <1>6, <1>8, FitsFill
  <2> QED
    BY <1>2, <1>8, <2>1, PassesOnTyped
<1>9. CASE ans.exec > e.filled /\ sold < ans.exec /\ Await("loop", "sell", d, ans, ans.exec - sold) /\ Memory(mem)
  <2>1. ans.exec - sold \in 0..Volume
    BY <1>5, <1>9, LeftToSell
  <2>2. Placed(mem, d)
    BY <1>6, <1>9 DEF Placed
  <2> HIDE DEF sold
  <2> QED
    BY <1>2, <1>3, <1>4, <1>9, <2>1, <2>2, LoopAwaitTyped, PcsHas
<1> QED
  BY <1>1, <1>7, <1>8, <1>9

\* The loop has nothing but dicts of the list.
LEMMA StartsTyped ==
    ASSUME TypeInv, Others, NEW m, Fits(m), Memory(m), \A a \in Actors : job'[a] \in {job[a], NoJob},
           DOMAIN job' = Actors, job' \in [Actors -> Jobs], job'["loop"].ref = NoDict,
           DOMAIN loop' = LoopFields, loop'.phase \in {"recover", "scan"},
           loop'.asked = {}, DOMAIN loop'.answers = {},
           loop'.todo \subseteq Range(m.index), Cardinality(loop'.todo) <= MaxOrders + 1
    PROVE  TypeInv'
<1>1. /\ DOMAIN m.obj \subseteq Dicts /\ Range(m.index) \subseteq DOMAIN m.obj
  BY DEF Fits, Typed, Range
<1>2. Visited' = loop'.todo /\ Queried' = {} /\ Ref' = NoDict /\ InHand' = loop'.todo /\ NoDict \notin loop'.todo
  BY <1>1, SyncAssumption DEF Visited, Queried, Ref, InHand, Dicts, NoDict
<1>3. Held' = loop'.todo \cup {job'[a].ref : a \in Actors}
  BY DEF Held
<1>4. \A a \in Actors : job'[a].ref \in {NoDict, job[a].ref} /\ job[a].ref \in Held
  BY TypedShapes, NoJobTyped
<1>5. Held \ {NoDict} \subseteq DOMAIN Obj
  BY DEF TypeInv, HeldTyped
<1>6. Held' \ {NoDict} \subseteq DOMAIN m.obj
  BY <1>1, <1>3, <1>4, <1>5 DEF Fits
<1>7. /\ Typed(mem)' /\ HeldTyped'
      /\ \A x \in Held' \ {NoDict} : Placed(m, x) => mem'.obj[x].uuid \in Uuids
  <2>1. /\ Typed(mem)' /\ HeldTyped'
        /\ \A x \in Held' \ {NoDict} : Placed(m, x) => Placed(mem, x)'
    BY <1>6, LandsOn, TypedLands DEF Others
  <2> QED
    BY <2>1 DEF Placed
<1>8. ASSUME NEW a \in Actors
      PROVE  /\ job'[a].pc = "free" <=> job'[a].ref = NoDict
             /\ job'[a].pc \in OfPlaced => mem'.obj[job'[a].ref].uuid \in Uuids
  <2>1. CASE job'[a] = NoJob
    BY <2>1, NoJobTyped DEF OfPlaced
  <2>2. CASE job'[a] = job[a]
    <3>1. (job[a].pc = "free" <=> job[a].ref = NoDict) /\ (job[a].pc \in OfPlaced => Placed(mem, job[a].ref))
      BY DEF TypeInv, JobsTyped
    <3>2. job[a].pc \in OfPlaced => job[a].ref \in DOMAIN Obj
      BY <1>4, <1>5, <3>1 DEF OfPlaced
    <3>3. job[a].pc \in OfPlaced => job[a].ref \in Held' \ {NoDict} /\ Placed(m, job[a].ref)
      BY <1>3, <2>2, <3>1, <3>2 DEF OfPlaced, Fits
    <3> QED
      BY <1>7, <2>2, <3>1, <3>3
  <2> QED
    BY <2>1, <2>2
<1>9. JobsTyped'
  BY <1>8 DEF JobsTyped, Placed
<1>10. LoopTyped'
  BY <1>2 DEF LoopTyped
<1> QED
  BY <1>7, <1>9, <1>10 DEF TypeInv, Others

LEMMA StartCycleTyped == ASSUME TypeInv, StartCycle PROVE TypeInv'
<1>1. PICK asked :
        /\ loop' = [loop EXCEPT !.phase = "scan", !.todo = Range(Reload(mem, Held, asked).index)]
        /\ job' = job /\ Memory(Reload(mem, Held, asked))
        /\ fails' = [kind \in DOMAIN fails |-> [u \in AnyUuid |-> IF Has(Reload(mem, Held, asked), u) THEN fails[kind][u] ELSE 0]]
  BY DEF StartCycle
<1> DEFINE m == Reload(mem, Held, asked)
<1>2. /\ UNCHANGED <<ex, log, reserving, hist>>
      /\ Free("loop") /\ loop.asked = {} /\ DOMAIN loop.answers = {}
  BY DEF StartCycle, Idle
<1>3. Fits(m) /\ Cardinality(Range(m.index)) <= MaxOrders + 1
  BY FitsReload
<1> HIDE DEF m
<1>4. /\ DOMAIN loop' = LoopFields /\ loop'.phase = "scan" /\ loop'.todo = Range(m.index)
      /\ loop'.asked = {} /\ DOMAIN loop'.answers = {}
  BY <1>1, <1>2 DEF TypeInv, LoopTyped, LoopFields, m
<1>5. fails' \in [{"status", "reorder"} -> [AnyUuid -> 0..(FailLimit - 1)]]
  <2>1. fails \in [{"status", "reorder"} -> [AnyUuid -> 0..(FailLimit - 1)]] /\ 0 \in 0..(FailLimit - 1)
    BY SyncAssumption DEF TypeInv, HistTyped
  <2>2. fails' = [kind \in DOMAIN fails |-> [u \in AnyUuid |-> IF Has(m, u) THEN fails[kind][u] ELSE 0]]
    BY <1>1 DEF m
  <2> QED
    BY <2>1, <2>2
<1>6. Others
  BY <1>2, <1>5 DEF Others, TypeInv, OrdersTyped, Live, HistTyped, hist
<1>7. /\ \A a \in Actors : job'[a] \in {job[a], NoJob}
      /\ DOMAIN job' = Actors /\ job' \in [Actors -> Jobs] /\ job'["loop"].ref = NoDict
  BY <1>1, <1>2 DEF TypeInv, JobsTyped, Free, Actors
<1>8. Memory(m)
  BY <1>1 DEF m
<1> QED
  BY <1>3, <1>4, <1>6, <1>7, <1>8, StartsTyped

LEMMA CrashTyped == ASSUME TypeInv, Crash PROVE TypeInv'
<1> DEFINE buys == {mem.index[u] : u \in {v \in DOMAIN mem.index : At(mem, v).kind = "buy"}}
<1>1. /\ loop' = [phase |-> "recover", asked |-> {}, answers |-> <<>>, todo |-> buys]
      /\ job' = [a \in Actors |-> NoJob] /\ fails' = NoFails /\ orphaned' = orphaned \cup InFlight
      /\ Memory(mem) /\ UNCHANGED <<ex, log, reserving, source, waived, raced>>
  BY DEF Crash
<1>2. buys \subseteq Range(Index) /\ Cardinality(buys) <= MaxOrders + 1
  <2>1. buys \subseteq Range(Index)
    BY DEF Range, Index
  <2> HIDE DEF buys
  <2> QED
    BY <2>1, TypedShapes, ListedAreFew
<1> HIDE DEF buys
<1>3. /\ DOMAIN loop' = LoopFields /\ loop'.phase = "recover" /\ loop'.todo = buys
      /\ loop'.asked = {} /\ DOMAIN loop'.answers = {}
  BY <1>1 DEF LoopFields
<1>4. InFlight \subseteq Uuids
  BY Losing DEF InFlight
<1>5. fails' \in [{"status", "reorder"} -> [AnyUuid -> 0..(FailLimit - 1)]]
  BY <1>1, SyncAssumption DEF NoFails
<1>6. Others
  BY <1>1, <1>4, <1>5 DEF Others, TypeInv, OrdersTyped, Live, HistTyped
<1>7. /\ \A a \in Actors : job'[a] \in {job[a], NoJob}
      /\ DOMAIN job' = Actors /\ job' \in [Actors -> Jobs] /\ job'["loop"].ref = NoDict
  BY <1>1, NoJobTyped DEF Actors
<1> QED
  BY <1>1, <1>2, <1>3, <1>6, <1>7, FitsMem, StartsTyped DEF TypeInv, Index

(***************************************************************************)
(* The requests.                                                           *)
(***************************************************************************)
LEMMA AcceptOthers ==
    ASSUME TypeInv, NEW kind, Accept(kind)
    PROVE  Others /\ loop' = loop /\ "api" \in Actors /\ \A m : Visits(m)
<1>1. UNCHANGED <<ex, fails, log, reserving, hist>> /\ loop' = loop
  BY DEF Accept
<1>2. FailsGo /\ LogGoes /\ NotesGo
  BY <1>1, SameNotes DEF FailsGo, LogGoes, hist
<1>3. Others
  BY <1>1, <1>2, OthersTyped DEF hist
<1> QED
  BY <1>1, <1>3, SameVisits, PassesVisits DEF Actors

LEMMA CancelRequestTyped == ASSUME TypeInv, NEW u \in AnyUuid, CancelRequest(u) PROVE TypeInv'
<1> DEFINE d == mem.index[u]
<1>1. Accept("cancel") /\ Has(mem, u) /\ AwaitWith("api", "cancel", d, 0, u, u) /\ Memory(mem)
  BY DEF CancelRequest
<1>2. d \in DOMAIN mem.obj /\ d \in Dicts /\ Fits(mem)
  BY <1>1, FitsMem DEF TypeInv, Typed, Has
<1>3. Moves("api", "cancel", d)
  BY <1>1, <1>2, AwaitWithMoves, NoVolumes, PcsHas DEF Actors
<1>4. Others /\ "api" \in Actors /\ Visits(mem) /\ Lands(mem)
  BY <1>1, AcceptOthers, LandsOn
<1> HIDE DEF d
<1> QED
  BY <1>2, <1>3, <1>4, GoesOnTyped DEF OfPlaced

LEMMA SyncRequestTyped == ASSUME TypeInv, NEW u \in AnyUuid, SyncRequest(u) PROVE TypeInv'
<1> DEFINE m == Reload(mem, Held, {})
           d == m.index[u]
<1>1. /\ Accept("sync") /\ Has(mem, u)
      /\ \/ UNCHANGED job /\ Memory(m)
         \/ Await("api", "submit", d, NoAnswer, 0) /\ Memory(m)
         \/ AwaitWith("api", "query", d, 0, u, u) /\ Memory(m)
  BY DEF SyncRequest
<1>2. Fits(m) /\ DOMAIN m.index = DOMAIN Index
  BY FitsReload
<1> HIDE DEF m
<1>3. d \in DOMAIN m.obj /\ d \in Dicts
  BY <1>1, <1>2 DEF Fits, Typed, Has, Index
<1>4. Others /\ "api" \in Actors /\ Visits(m)
  BY <1>1, AcceptOthers
<1>5. Lands(m)
  BY <1>1, LandsOn
<1> HIDE DEF d
<1>6. CASE UNCHANGED job
  BY <1>2, <1>4, <1>5, <1>6, StaysTyped
<1>7. CASE Await("api", "submit", d, NoAnswer, 0)
  <2>1. Moves("api", "submit", d)
    BY <1>3, <1>4, <1>7, AwaitMoves, NoAnswerTyped, NoVolumes, PcsHas
  <2> QED
    BY <1>2, <1>3, <1>4, <1>5, <2>1, GoesOnTyped DEF OfPlaced
<1>8. CASE AwaitWith("api", "query", d, 0, u, u)
  <2>1. Moves("api", "query", d)
    BY <1>3, <1>4, <1>8, AwaitWithMoves, NoVolumes, PcsHas
  <2> QED
    BY <1>2, <1>3, <1>4, <1>5, <2>1, GoesOnTyped DEF OfPlaced
<1> QED
  BY <1>1, <1>6, <1>7, <1>8

LEMMA SubmitOnRequestTyped == ASSUME TypeInv, SubmitOnRequest PROVE TypeInv'
<1> DEFINE d == job["api"].ref
<1>1. /\ loop' = loop /\ job["api"].pc = "submit" /\ "api" \in Actors /\ "api" # "loop"
      /\ Submit("api", d) \/ (Finish("api") /\ Memory(mem))
      /\ UNCHANGED <<ex, fails, log, bounds, hist>>
  BY DEF SubmitOnRequest, Actors
<1>2. d \in DOMAIN mem.obj /\ mem.obj[d] \in Entries
  BY <1>1, OfJob DEF Obj
<1>3. Others /\ Visits(mem) /\ Fits(mem)
  BY <1>1, OthersSame, SameVisits, PassesVisits, FitsMem DEF TypeInv
<1>4. CASE Submit("api", d)
  BY <1>1, <1>2, <1>3, <1>4, SubmitTyped
<1>5. CASE Finish("api") /\ Memory(mem)
  BY <1>1, <1>3, <1>5, ActorFinishTyped
<1> QED
  BY <1>1, <1>4, <1>5

LEMMA QueryOnRequestTyped == ASSUME TypeInv, QueryOnRequest PROVE TypeInv'
<1> DEFINE u == job["api"].u
<1>1. PICK ans \in Answers(u) :
        /\ Finish("api")
        /\ \/ Memory(mem) /\ UNCHANGED log
           \/ /\ log' = IF IsTradeLogged(u) THEN log ELSE Logged("api", u, ans.exec)
              /\ Memory(RemoveOrder(mem, u))
           \/ Memory(RemoveOrder(mem, u)) /\ UNCHANGED log
           \/ /\ ans.state \in {"wait", "partial"}
              /\ Memory(UpdateFill(mem, u, ans.exec)) /\ UNCHANGED log
        /\ waived' = waived \cup (IF Ord("api").kind = "buy" /\ ans.exec > 0 THEN {<<u, "synced">>} ELSE {})
  BY DEF QueryOnRequest
<1>2. /\ loop' = loop /\ job["api"].pc = "query" /\ "api" \in Actors
      /\ UNCHANGED <<ex, fails, bounds, source, orphaned, raced>>
  BY DEF QueryOnRequest, Actors
<1>3. u \in AnyUuid
  BY <1>2, OfJob, JobHas
<1>4. ans \in Answered1 /\ ans.exec \in 0..Volume /\ ans.exec \in Nat /\ (ans # NoAnswer => u \in Uuids)
  BY <1>3, AnswerTyped, AnsweredIs
<1>5. LogGoes
  BY <1>1, <1>2, <1>3, <1>4 DEF LogGoes
<1>6. NotesGo
  <2>1. <<u, "synced">> \in AnyUuid \X Reasons
    BY <1>3 DEF Reasons
  <2> QED
    BY <1>1, <1>2, <2>1 DEF NotesGo, TypeInv, HistTyped
<1>7. Others
  BY <1>2, <1>5, <1>6, NotedOthers DEF FailsGo
<1>8. Fits(mem) /\ Fits(RemoveOrder(mem, u))
  BY FitsMem, FitsRemoved DEF TypeInv
<1>9. CASE Memory(mem) \/ Memory(RemoveOrder(mem, u))
  BY <1>1, <1>2, <1>7, <1>8, <1>9, ActorFinishTyped
<1>10. CASE ans.state \in {"wait", "partial"} /\ Memory(UpdateFill(mem, u, ans.exec))
  <2>1. u \in Uuids
    BY <1>4, <1>10 DEF NoAnswer
  <2>2. Fits(UpdateFill(mem, u, ans.exec))
    BY <1>4, <1>8, <2>1, FitsFill
  <2> QED
    BY <1>1, <1>2, <1>7, <1>10, <2>2, ActorFinishTyped
<1> QED
  BY <1>1, <1>9, <1>10

(***************************************************************************)
(* The exchange.                                                           *)
(***************************************************************************)
\* The orders change, and perhaps the order a job has reached; all else stays.
LEMMA ExchangeTyped ==
    ASSUME TypeInv, UNCHANGED <<mem, loop, fails, log, reserving, waived, orphaned, raced>>, OrdersTyped',
           source' \in [Uuids -> {NoBuy} \cup AnyUuid], job' \in [Actors -> Jobs],
           \A a \in Actors : job'[a].pc = job[a].pc /\ job'[a].ref = job[a].ref
    PROVE  TypeInv'
<1>1. Held' = Held /\ Visited' = Visited /\ Queried' = Queried /\ Ref' = Ref /\ InHand' = InHand
  BY DEF Held, Visited, Queried, Ref, InHand, Actors
<1>2. Typed(mem)' /\ HeldTyped' /\ HistTyped' /\ reserving' \in BOOLEAN
  BY <1>1 DEF TypeInv, Typed, HeldTyped, HistTyped, Obj, Index
<1>3. LoopTyped'
  BY <1>1 DEF TypeInv, LoopTyped, Placed
<1>4. JobsTyped'
  BY DEF TypeInv, JobsTyped, Placed
<1> QED
  BY <1>2, <1>3, <1>4 DEF TypeInv

LEMMA OrderTyped ==
    ASSUME TypeInv, NEW u \in Uuids, NEW o \in ExOrders, ex' = [ex EXCEPT ![u] = o],
           o.state = "wait" => o.exec < o.vol
    PROVE  OrdersTyped'
  BY DEF TypeInv, OrdersTyped, Live

LEMMA FillSomeTyped == ASSUME TypeInv, NEW u \in Uuids, FillSome(u) PROVE TypeInv'
<1> DEFINE n == ex[u].exec + 1
           s == IF n = ex[u].vol THEN "done" ELSE "wait"
           o == [ex[u] EXCEPT !.exec = n, !.state = s]
<1>1. /\ Live(u) /\ UNCHANGED <<mem, loop, job, fails, log, bounds, hist>>
      /\ ex' = [ex EXCEPT ![u].exec = @ + 1, ![u].state = IF ex[u].exec + 1 = ex[u].vol THEN "done" ELSE "wait"]
  BY DEF FillSome
<1>2. ex \in [Uuids -> ExOrders] /\ ex[u].exec < ex[u].vol /\ ex[u].vol \in 0..Volume /\ ex[u].exec \in 0..Volume
  BY <1>1 DEF TypeInv, OrdersTyped, ExOrders
<1>3. n \in 0..Volume /\ (n # ex[u].vol => n < ex[u].vol)
  BY <1>2, SyncAssumption
<1>4. ex' = [ex EXCEPT ![u] = o]
  BY <1>1, <1>2
<1> HIDE DEF n
<1>5. s \in {"done", "wait"} /\ (s = "wait" => n < ex[u].vol)
  BY <1>3
<1> HIDE DEF s
<1>6. o \in ExOrders /\ (o.state = "wait" => o.exec < o.vol)
  BY <1>2, <1>3, <1>5 DEF ExOrders
<1> HIDE DEF o
<1>7. OrdersTyped'
  BY <1>4, <1>6, OrderTyped
<1> QED
  BY <1>1, <1>7, ExchangeTyped DEF bounds, hist, TypeInv, JobsTyped, HistTyped

LEMMA CancelsTyped ==
    ASSUME TypeInv, NEW u \in Uuids, ex' = [ex EXCEPT ![u].state = "cancel"]
    PROVE  OrdersTyped'
<1> DEFINE o == [ex[u] EXCEPT !.state = "cancel"]
<1>1. ex \in [Uuids -> ExOrders]
  BY DEF TypeInv, OrdersTyped
<1>2. o \in ExOrders /\ o.state = "cancel" /\ ex' = [ex EXCEPT ![u] = o]
  BY <1>1 DEF ExOrders
<1> HIDE DEF o
<1> QED
  BY <1>2, OrderTyped

LEMMA CancelledThereTyped == ASSUME TypeInv, NEW u \in Uuids, CancelledThere(u) PROVE TypeInv'
<1>1. ex' = [ex EXCEPT ![u].state = "cancel"] /\ UNCHANGED <<mem, loop, job, fails, log, bounds, hist>>
  BY DEF CancelledThere
<1> QED
  BY <1>1, CancelsTyped, ExchangeTyped DEF bounds, hist, TypeInv, JobsTyped, HistTyped

\* A job that has reached the order u of the exchange.
LEMMA ReachesTyped ==
    ASSUME TypeInv, NEW a \in Actors, NEW u \in AnyUuid, job' = [job EXCEPT ![a].hit = u]
    PROVE  /\ job' \in [Actors -> Jobs]
           /\ \A b \in Actors : job'[b].pc = job[b].pc /\ job'[b].ref = job[b].ref
<1> DEFINE j == [job[a] EXCEPT !.hit = u]
<1>1. job \in [Actors -> Jobs]
  BY DEF TypeInv, JobsTyped
<1>2. j \in Jobs /\ j.pc = job[a].pc /\ j.ref = job[a].ref /\ job' = [job EXCEPT ![a] = j]
  BY <1>1 DEF Jobs
<1> HIDE DEF j
<1> QED
  BY <1>1, <1>2

LEMMA CreateArrivesTyped == ASSUME TypeInv, NEW a \in Actors, CreateArrives(a) PROVE TypeInv'
<1> DEFINE side == IF job[a].pc = "create" THEN Side(Ord(a).kind) ELSE "ask"
           o == NewOrder(side, job[a].n)
           u == NextUuid
<1>1. /\ job[a].pc \in Creating /\ job[a].n > 0 /\ Room /\ ex' = [ex EXCEPT ![u] = o]
      /\ job' = [job EXCEPT ![a].hit = u]
      /\ source' = IF job[a].pc = "sell" THEN [source EXCEPT ![u] = Ord(a).uuid] ELSE source
      /\ UNCHANGED <<mem, loop, fails, log, bounds, waived, orphaned, raced>>
  BY DEF CreateArrives
<1>2. u \in Uuids /\ u \in AnyUuid
  BY <1>1 DEF Room, NextUuid, AnyUuid
<1>3. job[a].n \in 0..Volume /\ Ord(a).uuid \in AnyUuid
  BY <1>1, OfJob, JobHas DEF Creating
<1>4. side \in {"bid", "ask"}
  BY DEF Side
<1> HIDE DEF side, u
<1>5. o \in ExOrders /\ o.exec < o.vol
  BY <1>1, <1>3, <1>4, NoVolumes DEF NewOrder, ExOrders
<1> HIDE DEF o
<1>6. OrdersTyped'
  BY <1>1, <1>2, <1>5, OrderTyped
<1>7. source' \in [Uuids -> {NoBuy} \cup AnyUuid]
  BY <1>1, <1>2, <1>3 DEF TypeInv, HistTyped
<1> QED
  BY <1>1, <1>2, <1>6, <1>7, ReachesTyped, ExchangeTyped DEF bounds

LEMMA CancelArrivesTyped == ASSUME TypeInv, NEW a \in Actors, CancelArrives(a) PROVE TypeInv'
<1> DEFINE u == job[a].u
<1>1. /\ Live(u) /\ ex' = [ex EXCEPT ![u].state = "cancel"] /\ job' = [job EXCEPT ![a].hit = u]
      /\ UNCHANGED <<mem, loop, fails, log, bounds, hist>>
  BY DEF CancelArrives
<1>2. u \in Uuids /\ u \in AnyUuid
  BY <1>1 DEF Live, AnyUuid
<1> HIDE DEF u
<1> QED
  BY <1>1, <1>2, CancelsTyped, ReachesTyped, ExchangeTyped DEF bounds, hist, TypeInv, HistTyped

(***************************************************************************)
(* The types hold.                                                         *)
(***************************************************************************)
LEMMA InitTyped == Init => TypeInv
<1> SUFFICES ASSUME Init PROVE TypeInv
  OBVIOUS
<1>1. PICK u \in {1} \cup (IF reserving THEN {Reserved} ELSE {}) :
        /\ ex = [v \in Uuids |-> IF v = u THEN NewOrder("bid", Volume) ELSE Unplaced]
        /\ mem = [index |-> [v \in {u} |-> 1],
                  obj |-> [d \in {1} |->
                     [uuid |-> u, kind |-> "buy", vol |-> Volume, filled |-> 0,
                      status |-> IF u = Reserved THEN "waiting" ELSE "placed", of |-> NoBuy]]]
  BY DEF Init
<1>2. /\ loop = NothingToDo("scan") /\ job = [a \in Actors |-> NoJob] /\ fails = NoFails
      /\ log = [a \in Actors |-> [v \in AnyUuid |-> 0]] /\ source = [v \in Uuids |-> NoBuy]
      /\ waived = {} /\ orphaned = {} /\ raced = FALSE /\ reserving \in BOOLEAN
  BY DEF Init
<1>3. u \in AnyUuid /\ (u = Reserved => reserving) /\ 1 \in Dicts /\ 1 # NoDict /\ Volume \in 0..Volume
  BY <1>1, SyncAssumption DEF AnyUuid, Uuids, Reserved, Dicts, NoDict
<1>4. OrdersTyped
  <2>1. /\ NewOrder("bid", Volume) \in ExOrders /\ Unplaced \in ExOrders /\ Unplaced.state = "none"
        /\ NewOrder("bid", Volume).exec < NewOrder("bid", Volume).vol
    BY SyncAssumption DEF NewOrder, Unplaced, ExOrders
  <2> QED
    BY <1>1, <2>1 DEF OrdersTyped, Live
<1>5. Typed(mem) /\ DOMAIN Obj = {1} /\ Range(Index) = {1}
  <2> DEFINE e == [uuid |-> u, kind |-> "buy", vol |-> Volume, filled |-> 0,
                   status |-> IF u = Reserved THEN "waiting" ELSE "placed", of |-> NoBuy]
  <2>1. /\ e \in Entries /\ e.uuid = u
        /\ u = Reserved => e.status = "waiting"
    BY <1>3, NoVolumes DEF Entries, Kinds, Statuses
  <2>2. DOMAIN mem.index = {u} /\ mem.index[u] = 1 /\ DOMAIN mem.obj = {1} /\ mem.obj[1] = e
    BY <1>1
  <2> HIDE DEF e
  <2> QED
    BY <1>3, <2>1, <2>2 DEF Typed, Obj, Index, Range
<1>6. /\ DOMAIN loop = LoopFields /\ loop.phase = "scan" /\ loop.todo = {} /\ loop.asked = {} /\ DOMAIN loop.answers = {}
  BY <1>2 DEF NothingToDo, LoopFields
<1>7. \A a \in Actors : job[a] = NoJob
  BY <1>2
<1>8. Visited = {} /\ Queried = {} /\ Ref = NoDict /\ InHand = {} /\ Held = {NoDict}
  BY <1>6, <1>7, NoJobTyped DEF Visited, Queried, Ref, InHand, Held, Actors
<1>9. LoopTyped
  BY <1>6, <1>8, FS_EmptySet, SyncAssumption DEF LoopTyped
<1>10. JobsTyped
  BY <1>2, <1>7, NoJobTyped DEF JobsTyped, OfPlaced
<1>11. HeldTyped
  BY <1>5, <1>8 DEF HeldTyped
<1>12. HistTyped
  <2>1. 0 \in 0..(FailLimit - 1)
    BY SyncAssumption
  <2>2. fails \in [{"status", "reorder"} -> [AnyUuid -> 0..(FailLimit - 1)]]
    BY <1>2, <2>1 DEF NoFails
  <2>3. log \in [Actors -> [AnyUuid -> Nat]] /\ source \in [Uuids -> {NoBuy} \cup AnyUuid]
    BY <1>2
  <2> QED
    BY <1>2, <2>2, <2>3 DEF HistTyped
<1> QED
  BY <1>2, <1>4, <1>5, <1>9, <1>10, <1>11, <1>12 DEF TypeInv

LEMMA SameTypes == ASSUME TypeInv, UNCHANGED vars PROVE TypeInv'
<1>1. UNCHANGED <<mem, loop, fails, log, reserving, waived, orphaned, raced, ex, source, job>>
  BY DEF vars, bounds, hist
<1>2. OrdersTyped'
  BY <1>1 DEF TypeInv, OrdersTyped, Live
<1> QED
  BY <1>1, <1>2, ExchangeTyped DEF TypeInv, JobsTyped, HistTyped

LEMMA StepTyped == TypeInv /\ [Next]_vars => TypeInv'
<1> SUFFICES ASSUME TypeInv, [Next]_vars PROVE TypeInv'
  OBVIOUS
<1>1. CASE UNCHANGED vars
  BY <1>1, SameTypes
<1>2. CASE Exchange
  BY <1>2, FillSomeTyped, CancelledThereTyped DEF Exchange
<1>3. CASE CycleStep
  BY <1>3, StartCycleTyped, ScanTyped, RecoverTyped, QueryTyped, ForgottenTyped, UnansweredTyped, ProcessTyped
  DEF CycleStep
<1>4. CASE SellStep
  BY <1>4, SellPlacedTyped, SellFailsTyped, SellSkippedTyped DEF SellStep
<1>5. CASE SettleStep
  BY <1>5, SettleOrderTyped, DropOrderTyped, MessageFailsTyped DEF SettleStep
<1>6. CASE AskBeforeCancel
  BY <1>6, AskBeforeCancelTyped
<1>7. CASE StopStep
  BY <1>7, StopCancelledTyped, StopNotCancelledTyped, StopPlacedTyped, StopFailsTyped DEF StopStep
<1>8. CASE \E a \in Actors : Arrive(a) \/ SubmitStep(a) \/ CancelStep(a)
  BY <1>8, CreateArrivesTyped, CancelArrivesTyped, AdoptOpenOrderTyped, NoOpenOrderTyped, OrderSubmittedTyped,
     SubmitFailsTyped, CancelAcceptedTyped, CancelFailsTyped, RecheckTyped
  DEF Arrive, SubmitStep, CancelStep
<1>9. CASE RequestStep
  BY <1>9, CancelRequestTyped, SyncRequestTyped, SubmitOnRequestTyped, QueryOnRequestTyped DEF RequestStep
<1>10. CASE Crash
  BY <1>10, CrashTyped
<1> QED
  BY <1>1, <1>2, <1>3, <1>4, <1>5, <1>6, <1>7, <1>8, <1>9, <1>10 DEF Next

\* The variables have their types, a uuid leads to a dict that carries it, and no
\* coroutine holds a dict that does not exist, also after two submissions of one
\* order have met: the list that reloads replace while coroutines of sync_orders and
\* the internal API hold dicts of the old one.
THEOREM SyncTypes == Spec => []TypeOK
<1>1. TypeInv => TypeOK
  <2> SUFFICES ASSUME TypeInv PROVE TypeOK
    OBVIOUS
  <2>1. \A a \in Actors : job[a].pc \in Pcs /\ job[a].ans \in Answered1
    BY JobHas DEF TypeInv, JobsTyped
  <2> QED
    BY <2>1 DEF TypeInv, OrdersTyped, ExOrders, Typed, LoopTyped, HeldTyped, HistTyped, TypeOK, At, Obj
<1> QED
  BY <1>1, InitTyped, StepTyped, PTL DEF Spec
=============================================================================
