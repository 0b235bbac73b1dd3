----------------------------- MODULE SlotProofs -----------------------------
(***************************************************************************)
(* The slot table and its free list agree, and a saturated pin counter is  *)
(* permanent, for any number of objects, threads, slots and epochs.        *)
(***************************************************************************)
EXTENDS PublicSlot, SequenceTheorems, WellFoundedInduction, TLAPS

SlotEntry == [object : Objects \cup {None}, generation : Int, epoch : Int,
              multiplier : Multipliers, addend : Addends]

Object == [live : BOOLEAN, birth : Int, activeOps : Int, held : BOOLEAN,
           slot : Int, generation : Int, wrapped : BOOLEAN]

\* The types of a table and a free list.
TableTypes(tbl, list) == tbl \in Seq(SlotEntry) /\ list \in Seq(1 .. Len(tbl))

ObjTypes == obj \in [Objects -> Object]

\* A list of free slots: each once, free, and together with the exhausted
\* slots all that are free.
Frees(tbl, list) ==
    /\ \A i, j \in 1 .. Len(list) : list[i] = list[j] => i = j
    /\ \A i \in 1 .. Len(list) : tbl[list[i]].object = None
    /\ \A s \in 1 .. Len(tbl) :
         tbl[s].object = None =>
             Exhausted(tbl[s]) \/ \E i \in 1 .. Len(list) : list[i] = s

\* A registered object is the one its slot holds.
Owns ==
    \A o \in Objects : (obj[o].live \/ taskFamily) /\ obj[o].slot # 0 =>
        obj[o].slot \in 1 .. Len(slots) /\ slots[obj[o].slot].object = o

SlotInv == TableTypes(slots, free) /\ ObjTypes /\ Frees(slots, free) /\ Owns

-------------------------------------------------------------------------------
\* The constants a proof needs.
LEMMA SlotConstants ==
    /\ Multipliers \subseteq Int /\ Addends \subseteq Int
    /\ MaxEpoch \in Int /\ FamilySpan \in Int /\ Family \in Int /\ FamilySpan > 0
    /\ BusySentinel \in Nat /\ BeginLimit \in Nat /\ BusySentinel > BeginLimit + 1
    /\ None \notin Objects
<1>1. /\ MaxEpoch \in Nat /\ Multipliers \subseteq 1 .. MaxEpoch
      /\ Addends \subseteq 0 .. MaxEpoch - 1
      /\ FamilySpan \in Nat /\ Family \in 1 .. FamilySpan - 1
      /\ BusySentinel \in Nat /\ BeginLimit \in Nat /\ BusySentinel > BeginLimit + 1
      /\ None \notin Objects
  BY PublicSlotConstants, Zenon
<1> QED
  BY <1>1

\* Advancing the generation of an entry keeps its type and its object.
LEMMA RefreshEntry ==
    ASSUME NEW e \in SlotEntry
    PROVE  /\ RefreshFamilyGeneration(e) \in SlotEntry
           /\ RefreshFamilyGeneration(e).object = e.object
<1>1. NextAffineToken(e) \in Int
  <2>1. /\ e.generation \in Int /\ e.multiplier \in Int /\ e.addend \in Int
        /\ MaxEpoch \in Int /\ FamilySpan \in Int /\ FamilySpan > 0
    BY SlotConstants, Zenon DEF SlotEntry
  <2>2. (e.generation \div FamilySpan) \in Int
    BY <2>1
  <2> QED
    BY <2>1, <2>2 DEF NextAffineToken
<1>2. FamilyGeneration(NextAffineToken(e)) \in Int
  BY <1>1, SlotConstants DEF FamilyGeneration
<1> DEFINE g == FamilyGeneration(NextAffineToken(e))
           n == e.epoch + 1
<1>3. RefreshFamilyGeneration(e) = [[e EXCEPT !.epoch = n] EXCEPT !.generation = g]
  BY DEF RefreshFamilyGeneration
<1>4. n \in Int /\ g \in Int
  BY <1>2 DEF SlotEntry
<1> HIDE DEF n, g
<1> QED
  BY <1>3, <1>4, Zenon DEF SlotEntry

\* The first usable place of a free list exists.
LEMMA FirstUsable ==
    ASSUME NEW tbl, NEW list, Len(list) \in Nat, Usable(tbl, list) # {}
    PROVE  \E i \in Usable(tbl, list) : \A j \in Usable(tbl, list) : i <= j
<1> DEFINE U == Usable(tbl, list)
<1>1. U \subseteq Nat
  BY DEF Usable
<1>2. PICK i \in U : \A j \in U : ~ (<<j, i>> \in OpToRel(<, Nat))
  <2>1. U # {}
    OBVIOUS
  <2> HIDE DEF U
  <2> QED
    BY <1>1, <2>1, NatLessThanWellFounded, WFMin, Zenon
<1>3. \A j \in U : ~ (j < i)
  BY <1>1, <1>2, Zenon DEF OpToRel
<1> QED
  BY <1>1, <1>3

\* Reservation r on a table left a well-formed table and free list and gave
\* object o a slot that was free or new, or none; no other slot changed.
Reserved(tbl, r, o) ==
    /\ TableTypes(r.slots, r.free) /\ Frees(r.slots, r.free)
    /\ Len(tbl) <= Len(r.slots) /\ r.slot \in Int
    /\ \A s \in 1 .. Len(r.slots) : s \in 1 .. Len(tbl) \/ s = r.slot
    /\ \A s \in 1 .. Len(tbl) : s # r.slot => r.slots[s] = tbl[s]
    /\ r.ok => r.slot \in 1 .. Len(r.slots) /\ r.slots[r.slot].object = o
    /\ r.ok /\ r.slot \in 1 .. Len(tbl) => tbl[r.slot].object = None
    /\ ~r.ok => r.slot = 0

\* llam_public_slot_reserve_impl does so.
LEMMA ReserveTable ==
    ASSUME NEW tbl, NEW list, NEW o \in Objects,
           NEW m \in Multipliers, NEW a \in Addends,
           TableTypes(tbl, list), Frees(tbl, list),
           NEW r, r = Reserve(tbl, list, o, m, a)
    PROVE  Reserved(tbl, r, o)
<1>0. /\ tbl \in Seq(SlotEntry) /\ list \in Seq(1 .. Len(tbl))
      /\ Len(tbl) \in Nat /\ Len(list) \in Nat /\ o # None
  BY LenProperties, SlotConstants DEF TableTypes
<1>1. CASE Usable(tbl, list) # {}
  <2> DEFINE i == CHOOSE x \in Usable(tbl, list) : \A j \in Usable(tbl, list) : x <= j
             k == list[i]
             e == [RefreshFamilyGeneration(tbl[k]) EXCEPT !.object = o]
             new == [tbl EXCEPT ![k] = e]
             rest == SubSeq(list, i + 1, Len(list))
  <2>1. /\ r.ok /\ r.slot = k /\ r.free = rest /\ r.slots = new
    BY <1>1, Zenon DEF Reserve
  <2>2. i \in Usable(tbl, list) /\ \A j \in Usable(tbl, list) : i <= j
    BY <1>0, <1>1, FirstUsable
  <2>3. i \in 1 .. Len(list)
    BY <2>2 DEF Usable
  <2> HIDE DEF i
  <2>4. \A j \in 1 .. Len(list) : j < i => Exhausted(tbl[list[j]])
    <3> SUFFICES ASSUME NEW j \in 1 .. Len(list), j < i, ~Exhausted(tbl[list[j]])
                 PROVE  FALSE
      OBVIOUS
    <3>1. j \in Usable(tbl, list)
      BY DEF Usable
    <3>2. i <= j
      BY <2>2, <3>1
    <3> QED
      BY <1>0, <2>3, <3>2
  <2>5. k \in 1 .. Len(tbl)
    BY <1>0, <2>3, ElementOfSeq
  <2>6. tbl[k] \in SlotEntry
    BY <1>0, <2>5, ElementOfSeq
  <2>7. RefreshFamilyGeneration(tbl[k]) \in SlotEntry
    BY <2>6, RefreshEntry
  <2> DEFINE old == RefreshFamilyGeneration(tbl[k])
  <2>8. e \in SlotEntry /\ e.object = o
    <3>1. old \in SlotEntry
      BY <2>7
    <3> HIDE DEF old
    <3>2. [old EXCEPT !.object = o] \in SlotEntry /\ [old EXCEPT !.object = o].object = o
      BY <3>1 DEF SlotEntry
    <3> QED
      BY <3>2 DEF old
  <2> HIDE DEF e, k
  <2>9. /\ new \in Seq(SlotEntry) /\ Len(new) = Len(tbl)
        /\ \A j \in 1 .. Len(tbl) : new[j] = IF j = k THEN e ELSE tbl[j]
    BY <1>0, <2>5, <2>8, ExceptSeq
  <2>10. \A x \in 1 .. Len(list) : list[x] \in 1 .. Len(tbl)
    BY <1>0, ElementOfSeq
  <2>11. /\ rest \in Seq(1 .. Len(tbl))
         /\ Len(rest) = Len(list) - i
         /\ \A x \in 1 .. Len(list) - i : rest[x] = list[i + x]
    <3>1. \A x \in i + 1 .. Len(list) : list[x] \in 1 .. Len(tbl)
      BY <1>0, <2>3, <2>10
    <3>2. i + 1 \in Int /\ Len(list) \in Int
      BY <1>0, <2>3
    <3>3. /\ SubSeq(list, i + 1, Len(list)) \in Seq(1 .. Len(tbl))
          /\ Len(SubSeq(list, i + 1, Len(list))) =
               IF i + 1 <= Len(list) THEN Len(list) - (i + 1) + 1 ELSE 0
          /\ \A x \in 1 .. Len(list) - (i + 1) + 1 :
               SubSeq(list, i + 1, Len(list))[x] = list[(i + 1) + x - 1]
      BY <3>1, <3>2, SubSeqProperties
    <3> QED
      BY <1>0, <2>3, <3>3
  <2> HIDE DEF new, rest
  <2>16. ASSUME NEW x \in 1 .. Len(rest)
         PROVE  i + x \in 1 .. Len(list) /\ i + x # i /\ rest[x] = list[i + x]
    <3>1. i \in Int /\ i >= 1 /\ x \in 1 .. Len(list) - i
      BY <1>0, <2>3, <2>11
    <3> QED
      BY <1>0, <2>11, <3>1
  <2>12. /\ \A x, y \in 1 .. Len(list) : list[x] = list[y] => x = y
         /\ \A x \in 1 .. Len(list) : tbl[list[x]].object = None
         /\ \A s \in 1 .. Len(tbl) : tbl[s].object = None =>
              Exhausted(tbl[s]) \/ \E x \in 1 .. Len(list) : list[x] = s
    BY DEF Frees
  <2>13. k = list[i]
    BY DEF k
  <2>14. Frees(new, rest)
    <3>1. ASSUME NEW x \in 1 .. Len(rest), NEW y \in 1 .. Len(rest), rest[x] = rest[y]
          PROVE  x = y
      <4>1. /\ i + x \in 1 .. Len(list) /\ i + y \in 1 .. Len(list)
            /\ rest[x] = list[i + x] /\ rest[y] = list[i + y]
        BY <2>16
      <4>2. i + x = i + y
        BY <2>12, <3>1, <4>1, Zenon
      <4> QED
        BY <1>0, <2>3, <2>11, <4>2
    <3>2. \A x \in 1 .. Len(rest) : new[rest[x]].object = None
      <4> SUFFICES ASSUME NEW x \in 1 .. Len(rest) PROVE new[rest[x]].object = None
        OBVIOUS
      <4>1. i + x \in 1 .. Len(list) /\ i + x # i /\ rest[x] = list[i + x]
        BY <2>16
      <4>2. list[i + x] # k /\ list[i + x] \in 1 .. Len(tbl)
        BY <2>3, <2>10, <2>12, <2>13, <4>1
      <4> QED
        BY <2>9, <2>12, <4>1, <4>2
    <3>3. ASSUME NEW s \in 1 .. Len(new), new[s].object = None
          PROVE  Exhausted(new[s]) \/ \E x \in 1 .. Len(rest) : rest[x] = s
      <4>1. s \in 1 .. Len(tbl) /\ s # k /\ new[s] = tbl[s]
        BY <1>0, <2>8, <2>9, <3>3
      <4>2. CASE Exhausted(tbl[s])
        BY <4>1, <4>2
      <4>3. CASE ~Exhausted(tbl[s])
        <5>1. PICK x \in 1 .. Len(list) : list[x] = s
          BY <2>12, <3>3, <4>1, <4>3
        <5>2. x > i
          BY <1>0, <2>3, <2>4, <2>13, <4>1, <4>3, <5>1
        <5>3. x - i \in 1 .. Len(rest) /\ rest[x - i] = list[x]
          <6>1. x - i \in 1 .. Len(list) - i /\ i + (x - i) = x
            BY <1>0, <2>3, <5>2
          <6> QED
            BY <2>11, <6>1
        <5> QED
          BY <5>1, <5>3
      <4> QED
        BY <4>2, <4>3
    <3> QED
      BY <3>1, <3>2, <3>3 DEF Frees
  <2>15. TableTypes(new, rest)
    BY <2>9, <2>11 DEF TableTypes
  <2> QED
    BY <1>0, <2>1, <2>3, <2>5, <2>8, <2>9, <2>12, <2>13, <2>14, <2>15 DEF Reserved
<1>2. CASE Usable(tbl, list) = {} /\ Len(tbl) < MaxSlots
  <2> DEFINE e0 == [object |-> o, generation |-> 0, epoch |-> 0,
                    multiplier |-> m, addend |-> a]
             e == RefreshFamilyGeneration(e0)
             new == Append(tbl, e)
  <2>1. r.ok /\ r.slot = Len(tbl) + 1 /\ r.free = << >> /\ r.slots = new
    BY <1>2 DEF Reserve
  <2>2. e0 \in SlotEntry /\ e0.object = o
    BY DEF SlotEntry
  <2> HIDE DEF e0
  <2>3. e \in SlotEntry /\ e.object = o
    BY <2>2, RefreshEntry
  <2> HIDE DEF e
  <2>4. /\ new \in Seq(SlotEntry) /\ Len(new) = Len(tbl) + 1
        /\ \A x \in 1 .. Len(tbl) : new[x] = tbl[x]
        /\ new[Len(tbl) + 1] = e
    BY <1>0, <2>3, AppendProperties
  <2> HIDE DEF new
  <2>5. \A s \in 1 .. Len(tbl) : tbl[s].object = None => Exhausted(tbl[s])
    BY <1>2, Zenon DEF Frees, Usable
  <2>6. << >> \in Seq(1 .. Len(new)) /\ Len(<< >>) = 0
    BY EmptySeq
  <2>7. Frees(new, << >>)
    <3>1. ASSUME NEW s \in 1 .. Len(new), new[s].object = None
          PROVE  Exhausted(new[s])
      <4>1. s \in 1 .. Len(tbl)
        BY <1>0, <2>3, <2>4, <3>1
      <4> QED
        BY <2>4, <2>5, <3>1, <4>1
    <3> QED
      BY <2>6, <3>1 DEF Frees
  <2>8. TableTypes(new, << >>)
    BY <2>4, <2>6 DEF TableTypes
  <2> QED
    BY <1>0, <2>1, <2>3, <2>4, <2>7, <2>8 DEF Reserved
<1>3. CASE Usable(tbl, list) = {} /\ ~(Len(tbl) < MaxSlots)
  <2>1. ~r.ok /\ r.slot = 0 /\ r.free = << >> /\ r.slots = tbl
    BY <1>3 DEF Reserve
  <2>2. \A s \in 1 .. Len(tbl) : tbl[s].object = None => Exhausted(tbl[s])
    BY <1>3, Zenon DEF Frees, Usable
  <2>3. << >> \in Seq(1 .. Len(tbl)) /\ Len(<< >>) = 0
    BY EmptySeq
  <2>4. Frees(tbl, << >>)
    BY <2>2, <2>3 DEF Frees
  <2>5. TableTypes(tbl, << >>)
    BY <1>0, <2>3 DEF TableTypes
  <2> QED
    BY <1>0, <2>1, <2>4, <2>5 DEF Reserved
<1> QED
  BY <1>1, <1>2, <1>3

\* A released slot becomes the head of the free list.
LEMMA ReleaseTable ==
    ASSUME NEW tbl, NEW list, NEW s \in 1 .. Len(tbl),
           TableTypes(tbl, list), Frees(tbl, list), tbl[s].object # None
    PROVE  /\ TableTypes(Released(tbl, s), <<s>> \o list)
           /\ Frees(Released(tbl, s), <<s>> \o list)
           /\ Len(Released(tbl, s)) = Len(tbl)
           /\ \A x \in 1 .. Len(tbl) : x # s => Released(tbl, s)[x] = tbl[x]
<1>0. /\ tbl \in Seq(SlotEntry) /\ list \in Seq(1 .. Len(tbl))
      /\ Len(tbl) \in Nat /\ Len(list) \in Nat
  BY LenProperties DEF TableTypes
<1> DEFINE e == [tbl[s] EXCEPT !.object = None]
           new == [tbl EXCEPT ![s] = e]
           more == <<s>> \o list
<1>1. e \in SlotEntry /\ e.object = None
  <2>1. tbl[s] \in SlotEntry
    BY <1>0, ElementOfSeq
  <2> QED
    BY <2>1 DEF SlotEntry
<1>2. Released(tbl, s) = new
  BY DEF Released
<1> HIDE DEF e
<1>3. /\ new \in Seq(SlotEntry) /\ Len(new) = Len(tbl)
      /\ \A x \in 1 .. Len(tbl) : new[x] = IF x = s THEN e ELSE tbl[x]
  BY <1>0, <1>1, ExceptSeq
<1>4. /\ more \in Seq(1 .. Len(tbl)) /\ Len(more) = Len(list) + 1
      /\ more[1] = s
      /\ \A x \in 1 .. Len(list) : more[x + 1] = list[x]
  BY <1>0
<1>5. \A x \in 1 .. Len(list) : list[x] \in 1 .. Len(tbl) /\ list[x] # s
  BY <1>0, ElementOfSeq DEF Frees
<1>6. \A x \in 1 .. Len(more) :
        x = 1 \/ (x - 1 \in 1 .. Len(list) /\ more[x] = list[x - 1])
  <2> SUFFICES ASSUME NEW x \in 1 .. Len(more), x # 1
               PROVE  x - 1 \in 1 .. Len(list) /\ more[x] = list[x - 1]
    OBVIOUS
  <2> HIDE DEF more
  <2>1. x - 1 \in 1 .. Len(list) /\ (x - 1) + 1 = x
    BY <1>0, <1>4
  <2> QED
    BY <1>4, <2>1, Zenon
<1> HIDE DEF new, more
<1>7. Frees(new, more)
  <2>1. ASSUME NEW x \in 1 .. Len(more), NEW y \in 1 .. Len(more), more[x] = more[y]
        PROVE  x = y
    <3>1. CASE x = 1 \/ y = 1
      BY <1>4, <1>5, <1>6, <2>1, <3>1, Zenon
    <3>2. CASE x # 1 /\ y # 1
      <4>1. /\ x - 1 \in 1 .. Len(list) /\ y - 1 \in 1 .. Len(list)
            /\ list[x - 1] = list[y - 1]
        BY <1>6, <2>1, <3>2
      <4>2. x - 1 = y - 1
        BY <4>1 DEF Frees
      <4> QED
        BY <1>0, <1>4, <4>2
    <3> QED
      BY <3>1, <3>2
  <2>2. ASSUME NEW x \in 1 .. Len(more) PROVE new[more[x]].object = None
    <3>1. CASE x = 1
      BY <1>1, <1>3, <1>4, <3>1
    <3>2. CASE x # 1
      <4>1. x - 1 \in 1 .. Len(list) /\ more[x] = list[x - 1]
        BY <1>6, <3>2
      <4>2. tbl[list[x - 1]].object = None
        BY <4>1 DEF Frees
      <4> QED
        BY <1>3, <1>5, <4>1, <4>2
    <3> QED
      BY <3>1, <3>2
  <2>3. ASSUME NEW x \in 1 .. Len(new), new[x].object = None
        PROVE  Exhausted(new[x]) \/ \E y \in 1 .. Len(more) : more[y] = x
    <3>1. CASE x = s
      BY <1>0, <1>4, <3>1
    <3>2. CASE x # s
      <4>1. x \in 1 .. Len(tbl) /\ new[x] = tbl[x]
        BY <1>3, <3>2
      <4>2. Exhausted(tbl[x]) \/ \E y \in 1 .. Len(list) : list[y] = x
        BY <2>3, <4>1 DEF Frees
      <4>3. ASSUME NEW y \in 1 .. Len(list), list[y] = x
            PROVE  y + 1 \in 1 .. Len(more) /\ more[y + 1] = x
        <5>1. Len(list) \in Nat /\ Len(more) = Len(list) + 1 /\ more[y + 1] = list[y]
          BY <1>0, <1>4
        <5> QED
          BY <4>3, <5>1
      <4> QED
        BY <4>1, <4>2, <4>3
    <3> QED
      BY <3>1, <3>2
  <2> QED
    BY <2>1, <2>2, <2>3 DEF Frees
<1>8. TableTypes(new, more)
  BY <1>3, <1>4 DEF TableTypes
<1> QED
  BY <1>2, <1>3, <1>7, <1>8 DEF more

-------------------------------------------------------------------------------
\* What a step of a thread does to the objects: counters move, slots and uses
\* do not, and a counter leaves the busy sentinel only in a wrapping add.
Kept(o) ==
    /\ obj'[o] \in Object
    /\ obj'[o].live = obj[o].live /\ obj'[o].slot = obj[o].slot
    /\ obj'[o].birth = obj[o].birth /\ obj'[o].generation = obj[o].generation
    /\ obj[o].activeOps = BusySentinel /\ ~obj'[o].wrapped =>
           obj'[o].activeOps = BusySentinel

ObjectsKept == ObjTypes' /\ \A o \in Objects : Kept(o)

\* Replacing one object by a record that keeps its use keeps all objects.
LEMMA SetObject ==
    ASSUME ObjTypes, NEW x, NEW v,
           obj' = [obj EXCEPT ![x] = v],
           x \in Objects =>
               /\ v \in Object
               /\ v.live = obj[x].live /\ v.slot = obj[x].slot
               /\ v.birth = obj[x].birth /\ v.generation = obj[x].generation
               /\ obj[x].activeOps = BusySentinel /\ ~v.wrapped => v.activeOps = BusySentinel
    PROVE  ObjectsKept
<1>1. ASSUME NEW o \in Objects PROVE Kept(o)
  <2>1. obj[o] \in Object
    BY DEF ObjTypes
  <2>2. CASE o = x
    <3>1. obj'[o] = v
      BY <2>2 DEF ObjTypes
    <3> QED
      BY <2>2, <3>1 DEF Kept
  <2>3. CASE o # x
    <3>1. obj'[o] = obj[o]
      BY <2>3 DEF ObjTypes
    <3> QED
      BY <2>1, <3>1 DEF Kept
  <2> QED
    BY <2>2, <2>3
<1>2. obj' \in [Objects -> Object]
  BY <1>1, Zenon DEF ObjTypes, Kept
<1> QED
  BY <1>1, <1>2 DEF ObjTypes, ObjectsKept

\* Setting a pin counter to an integer keeps the objects, if it leaves a
\* saturated counter saturated.
LEMMA SetCounter ==
    ASSUME ObjTypes, NEW x, NEW v,
           obj' = [obj EXCEPT ![x].activeOps = v],
           x \in Objects => v \in Int,
           x \in Objects /\ obj[x].activeOps = BusySentinel => v = BusySentinel
    PROVE  ObjectsKept
<1> DEFINE w == [obj[x] EXCEPT !.activeOps = v]
<1>1. obj' = [obj EXCEPT ![x] = w]
  OBVIOUS
<1>2. ASSUME x \in Objects
      PROVE  /\ w \in Object
             /\ w.live = obj[x].live /\ w.slot = obj[x].slot
             /\ w.birth = obj[x].birth /\ w.generation = obj[x].generation
             /\ w.activeOps = v
  <2>1. obj[x] \in Object /\ v \in Int
    BY <1>2 DEF ObjTypes
  <2> QED
    BY <2>1 DEF Object
<1> HIDE DEF w
<1> QED
  BY <1>1, <1>2, SetObject, Zenon

\* The end of an operation leaves an integer, and saturation as it is.
LEMMA EndedCounter ==
    ASSUME NEW n
    PROVE  /\ n \in Int => Ended(n) \in Int
           /\ n = BusySentinel => Ended(n) = BusySentinel
  BY SlotConstants DEF Ended, ReservedThreshold

\* A handle resolves to an object of its slot, or to nothing.
LEMMA ResolveObject ==
    ASSUME TableTypes(slots, free), NEW raw, Resolve(raw) # None
    PROVE  /\ Resolve(raw) \in Objects
           /\ DecodeHandle(raw).slot \in 1 .. Len(slots)
           /\ slots[DecodeHandle(raw).slot].object = Resolve(raw)
<1>1. /\ DecodeHandle(raw).slot \in 1 .. Len(slots)
      /\ Resolve(raw) = slots[DecodeHandle(raw).slot].object
  BY DEF Resolve
<1>2. slots[DecodeHandle(raw).slot] \in SlotEntry
  BY <1>1, ElementOfSeq DEF TableTypes
<1> QED
  BY <1>1, <1>2 DEF SlotEntry

\* No step of a thread moves an object, a slot or the free list.
LEMMA ThreadKeeps ==
    ASSUME SlotInv, NEW t, ThreadStep(t)
    PROVE  ObjectsKept /\ slots' = slots /\ free' = free
<1>0. TableTypes(slots, free) /\ ObjTypes
  BY DEF SlotInv
<1>1. ASSUME NEW h, BeginOp(t, h)
      PROVE  ObjectsKept /\ slots' = slots /\ free' = free
  <2> DEFINE o == Resolve(h.raw)
  <2>1. o \in Objects
    BY <1>0, <1>1, ResolveObject DEF BeginOp
  <2>2. /\ slots' = slots /\ free' = free
        /\ \/ obj' = [obj EXCEPT ![o].activeOps = BusySentinel]
           \/ /\ ~(obj[o].activeOps >= BeginLimit)
              /\ obj' = [obj EXCEPT ![o].activeOps = obj[o].activeOps + 1]
    BY <1>1 DEF BeginOp
  <2> HIDE DEF o
  <2>3. obj[o].activeOps \in Int
    BY <1>0, <2>1 DEF ObjTypes, Object
  <2>4. CASE obj' = [obj EXCEPT ![o].activeOps = BusySentinel]
    <3>1. BusySentinel \in Int
      BY SlotConstants
    <3> QED
      BY <1>0, <2>2, <2>4, <3>1, SetCounter, Zenon
  <2>5. CASE /\ ~(obj[o].activeOps >= BeginLimit)
             /\ obj' = [obj EXCEPT ![o].activeOps = obj[o].activeOps + 1]
    <3>1. obj[o].activeOps + 1 \in Int /\ obj[o].activeOps # BusySentinel
      BY <2>3, <2>5, SlotConstants
    <3> QED
      BY <1>0, <2>2, <2>5, <3>1, SetCounter, Zenon
  <2> QED
    BY <2>2, <2>4, <2>5
<1> DEFINE x == ref[t].object
           n == obj[x].activeOps
<1>2. x \in Objects => n \in Int
  BY <1>0 DEF ObjTypes, Object
<1>3. CASE SetHeld(t)
  <2> DEFINE w == [obj[x] EXCEPT !.held = ~obj[x].held]
  <2>1. obj' = [obj EXCEPT ![x] = w] /\ slots' = slots /\ free' = free
    BY <1>3 DEF SetHeld
  <2>2. ASSUME x \in Objects
        PROVE  /\ w \in Object
               /\ w.live = obj[x].live /\ w.slot = obj[x].slot
               /\ w.birth = obj[x].birth /\ w.generation = obj[x].generation
               /\ w.activeOps = n
    <3>1. obj[x] \in Object
      BY <1>0, <2>2 DEF ObjTypes
    <3> QED
      BY <3>1, Zenon DEF Object
  <2> HIDE DEF w, x
  <2> QED
    BY <1>0, <2>1, <2>2, SetObject, Zenon
<1>4. CASE EndOp(t) \/ TimerRelease(t)
  <2>1. obj' = [obj EXCEPT ![x].activeOps = Ended(n)] /\ slots' = slots /\ free' = free
    BY <1>4 DEF EndOp, TimerRelease
  <2> HIDE DEF x, n
  <2>2. x \in Objects => Ended(n) \in Int
    BY <1>2, EndedCounter
  <2>3. n = BusySentinel => Ended(n) = BusySentinel
    BY EndedCounter
  <2> QED
    BY <1>0, <2>1, <2>2, <2>3, SetCounter, Zenon DEF n
<1>5. CASE TimerLoad(t) \/ TimerStore(t)
  <2>1. /\ slots' = slots /\ free' = free
        /\ obj' = [obj EXCEPT ![x].activeOps = BusySentinel] \/ obj' = obj
    BY <1>5 DEF TimerLoad, TimerStore
  <2>2. CASE obj' = obj
    BY <1>0, <2>1, <2>2 DEF ObjectsKept, Kept, ObjTypes
  <2>3. CASE obj' = [obj EXCEPT ![x].activeOps = BusySentinel]
    <3> HIDE DEF x
    <3>1. BusySentinel \in Int
      BY SlotConstants
    <3> QED
      BY <1>0, <2>1, <2>3, <3>1, SetCounter, Zenon
  <2> QED
    BY <2>1, <2>2, <2>3
<1>6. CASE TimerAdd(t)
  <2> DEFINE c == (n + 1) % (BusySentinel + 1)
             b == obj[x].wrapped \/ n = BusySentinel
             w == [[obj[x] EXCEPT !.activeOps = c] EXCEPT !.wrapped = b]
  <2>1. slots' = slots /\ free' = free
    BY <1>6 DEF TimerAdd
  <2>2. ASSUME x \in Objects PROVE obj' = [obj EXCEPT ![x] = w]
    BY <1>0, <1>6, <2>2, Zenon DEF TimerAdd, ObjTypes, Object
  <2>3. ASSUME x \notin Objects PROVE obj' = obj
    BY <1>0, <1>6, <2>3 DEF TimerAdd, ObjTypes
  <2>4. ASSUME x \in Objects PROVE c \in Int
    BY <1>2, <2>4, SlotConstants
  <2>5. b \in BOOLEAN /\ (n = BusySentinel => b)
    OBVIOUS
  <2> HIDE DEF b, c
  <2>6. ASSUME x \in Objects
        PROVE  /\ w \in Object
               /\ w.live = obj[x].live /\ w.slot = obj[x].slot
               /\ w.birth = obj[x].birth /\ w.generation = obj[x].generation
               /\ w.wrapped = b
    <3>1. obj[x] \in Object /\ c \in Int
      BY <1>0, <2>4, <2>6 DEF ObjTypes
    <3> QED
      BY <2>5, <3>1, Zenon DEF Object
  <2> HIDE DEF w, x
  <2>7. CASE x \in Objects
    BY <1>0, <2>1, <2>2, <2>5, <2>6, <2>7, SetObject DEF n
  <2>8. CASE x \notin Objects
    BY <1>0, <2>1, <2>3, <2>8 DEF ObjectsKept, Kept, ObjTypes
  <2> QED
    BY <2>7, <2>8
<1> QED
  BY <1>1, <1>3, <1>4, <1>5, <1>6 DEF ThreadStep

-------------------------------------------------------------------------------
\* A step that keeps the objects and the table keeps the invariant.
LEMMA KeptInv ==
    ASSUME SlotInv, ObjectsKept, slots' = slots, free' = free, taskFamily' = taskFamily
    PROVE  SlotInv'
<1>1. ASSUME NEW o \in Objects, (obj'[o].live \/ taskFamily') /\ obj'[o].slot # 0
      PROVE  obj'[o].slot \in 1 .. Len(slots') /\ slots'[obj'[o].slot].object = o
  <2>1. obj'[o].live = obj[o].live /\ obj'[o].slot = obj[o].slot
    BY DEF ObjectsKept, Kept
  <2>2. (obj[o].live \/ taskFamily) /\ obj[o].slot # 0
    BY <1>1, <2>1
  <2> QED
    BY <2>1, <2>2 DEF SlotInv, Owns
<1>2. Owns'
  BY <1>1 DEF Owns
<1>3. TableTypes(slots, free)' /\ Frees(slots, free)'
  BY DEF SlotInv, TableTypes, Frees, Exhausted
<1> QED
  BY <1>2, <1>3 DEF SlotInv, ObjectsKept

\* A step that changes one object, and no slot of another, keeps ownership.
LEMMA OneOwner ==
    ASSUME SlotInv, NEW o \in Objects, NEW v \in Object,
           obj' = [obj EXCEPT ![o] = v], taskFamily' = taskFamily,
           \A x \in 1 .. Len(slots) : slots[x].object \notin {o, None} =>
               x \in 1 .. Len(slots') /\ slots'[x].object = slots[x].object,
           (v.live \/ taskFamily) /\ v.slot # 0 =>
               v.slot \in 1 .. Len(slots') /\ slots'[v.slot].object = o
    PROVE  ObjTypes' /\ Owns'
<1>0. ObjTypes /\ Owns
  BY DEF SlotInv
<1>1. \A p \in Objects : obj'[p] = IF p = o THEN v ELSE obj[p]
  BY <1>0 DEF ObjTypes
<1>2. obj' \in [Objects -> Object]
  BY <1>0 DEF ObjTypes
<1>3. ASSUME NEW p \in Objects, (obj'[p].live \/ taskFamily') /\ obj'[p].slot # 0
      PROVE  obj'[p].slot \in 1 .. Len(slots') /\ slots'[obj'[p].slot].object = p
  <2>1. CASE p = o
    BY <1>1, <1>3, <2>1
  <2>2. CASE p # o
    <3>1. obj'[p] = obj[p]
      BY <1>1, <2>2
    <3>2. obj[p].slot \in 1 .. Len(slots) /\ slots[obj[p].slot].object = p
      BY <1>0, <1>3, <3>1 DEF Owns
    <3>3. p \notin {o, None}
      BY <2>2, SlotConstants
    <3> QED
      BY <3>1, <3>2, <3>3
  <2> QED
    BY <2>1, <2>2
<1> QED
  BY <1>2, <1>3 DEF ObjTypes, Owns

\* Creating an object keeps the invariant, and all other objects.
LEMMA CreateStep ==
    ASSUME SlotInv, NEW o \in Objects, Create(o), taskFamily' = taskFamily
    PROVE  SlotInv' /\ \A p \in Objects : p # o => obj'[p] = obj[p]
<1>0. TableTypes(slots, free) /\ Frees(slots, free) /\ ObjTypes
  BY DEF SlotInv
<1>1. PICK m \in Multipliers, a \in Addends :
        LET r == Reserve(slots, free, o, m, a)
            g == r.slots[r.slot].generation
        IN  /\ slots' = r.slots /\ free' = r.free
            /\ \/ /\ r.ok
                  /\ obj' = [obj EXCEPT ![o] =
                       [live |-> TRUE, birth |-> obj[o].birth + 1, activeOps |-> 0,
                        held |-> FALSE, slot |-> r.slot, generation |-> g,
                        wrapped |-> obj[o].wrapped]]
               \/ ~r.ok /\ obj' = obj
  BY DEF Create
<1> DEFINE r == Reserve(slots, free, o, m, a)
           v == [live |-> TRUE, birth |-> obj[o].birth + 1, activeOps |-> 0,
                 held |-> FALSE, slot |-> r.slot,
                 generation |-> r.slots[r.slot].generation,
                 wrapped |-> obj[o].wrapped]
<1>2. /\ slots' = r.slots /\ free' = r.free
      /\ (r.ok /\ obj' = [obj EXCEPT ![o] = v]) \/ (~r.ok /\ obj' = obj)
  BY <1>1
<1> HIDE DEF r
<1>3. /\ TableTypes(r.slots, r.free) /\ Frees(r.slots, r.free)
      /\ Len(slots) <= Len(r.slots) /\ r.slot \in Int
      /\ \A x \in 1 .. Len(slots) : x # r.slot => r.slots[x] = slots[x]
      /\ r.ok => r.slot \in 1 .. Len(r.slots) /\ r.slots[r.slot].object = o
      /\ r.ok /\ r.slot \in 1 .. Len(slots) => slots[r.slot].object = None
      /\ ~r.ok => r.slot = 0
  <2>1. r = Reserve(slots, free, o, m, a)
    BY DEF r
  <2>2. Reserved(slots, r, o)
    BY <1>0, <2>1, ReserveTable
  <2> QED
    BY <2>2 DEF Reserved
<1>4. (TableTypes(slots, free) /\ Frees(slots, free))'
  BY <1>2, <1>3 DEF TableTypes, Frees, Exhausted
<1>5. \A x \in 1 .. Len(slots) : slots[x].object \notin {o, None} =>
          x \in 1 .. Len(slots') /\ slots'[x].object = slots[x].object
  <2>1. Len(slots) \in Nat /\ Len(r.slots) \in Nat
    BY <1>0, <1>3, LenProperties DEF TableTypes
  <2> QED
    BY <1>2, <1>3, <2>1
<1>6. CASE r.ok /\ obj' = [obj EXCEPT ![o] = v]
  <2>1. obj[o] \in Object /\ r.slots[r.slot] \in SlotEntry
    BY <1>0, <1>3, <1>6, ElementOfSeq DEF ObjTypes, TableTypes
  <2>2. v \in Object /\ v.slot = r.slot
    BY <1>3, <2>1 DEF Object, SlotEntry
  <2> HIDE DEF v
  <2>3. ObjTypes' /\ Owns'
    BY <1>2, <1>3, <1>5, <1>6, <2>2, OneOwner, Zenon
  <2>4. \A p \in Objects : p # o => obj'[p] = obj[p]
    BY <1>0, <1>6 DEF ObjTypes
  <2> QED
    BY <1>4, <2>3, <2>4 DEF SlotInv
<1>7. CASE ~r.ok /\ obj' = obj
  <2>1. ASSUME NEW p \in Objects, (obj'[p].live \/ taskFamily') /\ obj'[p].slot # 0
        PROVE  obj'[p].slot \in 1 .. Len(slots') /\ slots'[obj'[p].slot].object = p
    <3>1. obj[p].slot \in 1 .. Len(slots) /\ slots[obj[p].slot].object = p
      BY <1>7, <2>1 DEF SlotInv, Owns
    <3>2. slots'[obj[p].slot] = slots[obj[p].slot]
      BY <1>2, <1>3, <1>7, <2>1, <3>1
    <3>3. Len(slots) \in Nat /\ Len(slots') \in Nat /\ Len(slots) <= Len(slots')
      BY <1>0, <1>2, <1>3, LenProperties DEF TableTypes
    <3> QED
      BY <1>7, <3>1, <3>2, <3>3
  <2>2. Owns'
    BY <2>1 DEF Owns
  <2> QED
    BY <1>0, <1>4, <1>7, <2>2 DEF SlotInv, ObjTypes
<1> QED
  BY <1>2, <1>6, <1>7

\* The table with the generation of slot s advanced.
Refreshed(tbl, s) == [tbl EXCEPT ![s] = RefreshFamilyGeneration(tbl[s])]

\* Advancing the generation of a used slot keeps the table and the free list.
LEMMA RefreshTable ==
    ASSUME NEW tbl, NEW list, NEW s \in 1 .. Len(tbl),
           TableTypes(tbl, list), Frees(tbl, list), tbl[s].object # None,
           NEW new, new = Refreshed(tbl, s)
    PROVE  /\ TableTypes(new, list) /\ Frees(new, list) /\ Len(new) = Len(tbl)
           /\ \A x \in 1 .. Len(tbl) : new[x].object = tbl[x].object
<1>0. tbl \in Seq(SlotEntry) /\ list \in Seq(1 .. Len(tbl))
  BY DEF TableTypes
<1> DEFINE e == RefreshFamilyGeneration(tbl[s])
<1>1. e \in SlotEntry /\ e.object = tbl[s].object
  BY <1>0, ElementOfSeq, RefreshEntry
<1>2. new = [tbl EXCEPT ![s] = e]
  BY DEF Refreshed
<1> HIDE DEF e
<1>3. /\ new \in Seq(SlotEntry) /\ Len(new) = Len(tbl)
      /\ \A x \in 1 .. Len(tbl) : new[x] = IF x = s THEN e ELSE tbl[x]
  BY <1>0, <1>1, <1>2, ExceptSeq
<1>4. \A x \in 1 .. Len(list) : list[x] \in 1 .. Len(tbl)
  BY <1>0, ElementOfSeq
<1>5. \A x \in 1 .. Len(tbl) : /\ new[x].object = tbl[x].object
                               /\ tbl[x].object = None => new[x] = tbl[x]
  BY <1>1, <1>3
<1>6. Frees(new, list)
  BY <1>3, <1>4, <1>5, Zenon DEF Frees
<1> QED
  BY <1>0, <1>3, <1>5, <1>6 DEF TableTypes

\* Consuming a task's handle keeps the invariant, and every pin counter and use.
LEMMA InvalidateStep ==
    ASSUME SlotInv, NEW o \in Objects, InvalidateTask(o), taskFamily' = taskFamily
    PROVE  /\ SlotInv'
           /\ \A p \in Objects : /\ obj'[p].activeOps = obj[p].activeOps
                                 /\ obj'[p].birth = obj[p].birth
<1>0. TableTypes(slots, free) /\ Frees(slots, free) /\ ObjTypes
  BY DEF SlotInv
<1> DEFINE s == obj[o].slot
<1>1. s \in 1 .. Len(slots) /\ slots[s].object = o /\ o # None
  BY SlotConstants, Zenon DEF InvalidateTask, SlotInv, Owns
<1>2. PICK m \in Multipliers, a \in Addends :
        LET r == IF ~Exhausted(slots[s])
                   THEN [ok |-> TRUE, slot |-> s, free |-> free, slots |->
                           [slots EXCEPT ![s] = RefreshFamilyGeneration(@)]]
                   ELSE Reserve(Released(slots, s), <<s>> \o free, o, m, a)
        IN  /\ slots' = r.slots /\ free' = r.free
            /\ obj' = [obj EXCEPT ![o] =
                 [obj[o] EXCEPT !.live = FALSE, !.slot = r.slot,
                    !.generation = IF r.ok THEN r.slots[r.slot].generation ELSE 0]]
  BY Zenon DEF InvalidateTask
<1> DEFINE r == IF ~Exhausted(slots[s])
                  THEN [ok |-> TRUE, slot |-> s, free |-> free, slots |->
                          [slots EXCEPT ![s] = RefreshFamilyGeneration(slots[s])]]
                  ELSE Reserve(Released(slots, s), <<s>> \o free, o, m, a)
           g == IF r.ok THEN r.slots[r.slot].generation ELSE 0
           v == [obj[o] EXCEPT !.live = FALSE, !.slot = r.slot, !.generation = g]
<1>3. slots' = r.slots /\ free' = r.free
  BY <1>2
<1>4. obj' = [obj EXCEPT ![o] = v]
  BY <1>2
<1>5. /\ TableTypes(r.slots, r.free) /\ Frees(r.slots, r.free) /\ r.slot \in Int
      /\ r.ok => r.slot \in 1 .. Len(r.slots) /\ r.slots[r.slot].object = o
      /\ ~r.ok => r.slot = 0
      /\ \A x \in 1 .. Len(slots) : slots[x].object \notin {o, None} =>
            x \in 1 .. Len(r.slots) /\ r.slots[x].object = slots[x].object
  <2>0. Len(slots) \in Nat
    BY <1>0, LenProperties DEF TableTypes
  <2>1. CASE ~Exhausted(slots[s])
    <3> DEFINE new == Refreshed(slots, s)
    <3>1. r.ok /\ r.slot = s /\ r.free = free /\ r.slots = new
      BY <2>1 DEF Refreshed
    <3>a. new = Refreshed(slots, s)
      OBVIOUS
    <3> HIDE DEF r, new, s
    <3>2. /\ TableTypes(new, free) /\ Frees(new, free) /\ Len(new) = Len(slots)
          /\ \A x \in 1 .. Len(slots) : new[x].object = slots[x].object
      BY <1>0, <1>1, <3>a, RefreshTable
    <3> QED
      BY <1>1, <2>0, <3>1, <3>2
  <2>2. CASE Exhausted(slots[s])
    <3> DEFINE tbl == Released(slots, s)
               list == <<s>> \o free
    <3>1. r = Reserve(tbl, list, o, m, a)
      BY <2>2
    <3>2. /\ TableTypes(tbl, list) /\ Frees(tbl, list) /\ Len(tbl) = Len(slots)
          /\ \A x \in 1 .. Len(slots) : x # s => tbl[x] = slots[x]
      BY <1>0, <1>1, ReleaseTable, Zenon
    <3> HIDE DEF r, tbl, list, s
    <3>3. /\ TableTypes(r.slots, r.free) /\ Frees(r.slots, r.free)
          /\ Len(tbl) <= Len(r.slots) /\ r.slot \in Int
          /\ \A x \in 1 .. Len(r.slots) : x \in 1 .. Len(tbl) \/ x = r.slot
          /\ \A x \in 1 .. Len(tbl) : x # r.slot => r.slots[x] = tbl[x]
          /\ r.ok => r.slot \in 1 .. Len(r.slots) /\ r.slots[r.slot].object = o
          /\ r.ok /\ r.slot \in 1 .. Len(tbl) => tbl[r.slot].object = None
          /\ ~r.ok => r.slot = 0
      <4>1. Reserved(tbl, r, o)
        BY <3>1, <3>2, ReserveTable
      <4> QED
        BY <4>1 DEF Reserved
    <3>4. Len(r.slots) \in Nat
      BY <3>3, LenProperties DEF TableTypes
    <3>5. ASSUME NEW x \in 1 .. Len(slots), slots[x].object \notin {o, None}
          PROVE  x \in 1 .. Len(r.slots) /\ r.slots[x].object = slots[x].object
      <4>1. x # s /\ tbl[x] = slots[x] /\ x \in 1 .. Len(tbl)
        BY <1>1, <3>2, <3>5
      <4>2. x # r.slot
        BY <2>0, <3>3, <3>5, <4>1
      <4>3. x \in 1 .. Len(r.slots)
        BY <2>0, <3>2, <3>3, <3>4
      <4> QED
        BY <3>3, <4>1, <4>2, <4>3
    <3> QED
      BY <3>3, <3>5
  <2> QED
    BY <2>1, <2>2, Zenon
<1> HIDE DEF r
<1>6. g \in Int
  <2>1. r.ok => r.slots[r.slot] \in SlotEntry
    BY <1>5, ElementOfSeq DEF TableTypes
  <2> QED
    BY <2>1 DEF SlotEntry
<1> HIDE DEF g
<1>7. /\ v \in Object /\ v.slot = r.slot /\ v.activeOps = obj[o].activeOps
      /\ v.birth = obj[o].birth
  <2>1. obj[o] \in Object
    BY <1>0 DEF ObjTypes
  <2> QED
    BY <1>5, <1>6, <2>1, Zenon DEF Object
<1> HIDE DEF v
<1>8. ObjTypes' /\ Owns'
  BY <1>3, <1>4, <1>5, <1>7, OneOwner, Zenon
<1>9. (TableTypes(slots, free) /\ Frees(slots, free))'
  BY <1>3, <1>5, Zenon DEF TableTypes, Frees, Exhausted
<1>10. \A p \in Objects : /\ obj'[p].activeOps = obj[p].activeOps
                          /\ obj'[p].birth = obj[p].birth
  BY <1>0, <1>4, <1>7 DEF ObjTypes
<1> QED
  BY <1>8, <1>9, <1>10 DEF SlotInv

\* Spawning a recycled task keeps the invariant, and all other objects.
LEMMA ActivateStep ==
    ASSUME SlotInv, NEW o \in Objects, ActivateTask(o), taskFamily' = taskFamily
    PROVE  SlotInv' /\ \A p \in Objects : p # o => obj'[p] = obj[p]
<1>0. TableTypes(slots, free) /\ Frees(slots, free) /\ ObjTypes /\ Owns
  BY DEF SlotInv
<1> DEFINE n == obj[o].birth + 1
           v == [obj[o] EXCEPT !.live = TRUE, !.birth = n]
<1>1. /\ slots' = slots /\ free' = free /\ taskFamily
      /\ obj' = [obj EXCEPT ![o] = v]
  BY DEF ActivateTask
<1>8. obj[o] \in Object /\ n \in Int
  BY <1>0 DEF ObjTypes, Object
<1> HIDE DEF n
<1>2. obj' = [obj EXCEPT ![o] = v]
  BY <1>0, <1>1, Zenon DEF ObjTypes, Object
<1>3. v \in Object /\ v.slot = obj[o].slot
  BY <1>8, Zenon DEF Object
<1> HIDE DEF v
<1>4. v.slot # 0 => v.slot \in 1 .. Len(slots') /\ slots'[v.slot].object = o
  BY <1>0, <1>1, <1>3 DEF Owns
<1>5. ObjTypes' /\ Owns'
  BY <1>1, <1>2, <1>3, <1>4, OneOwner, Zenon
<1>6. (TableTypes(slots, free) /\ Frees(slots, free))'
  BY <1>0, <1>1 DEF TableTypes, Frees, Exhausted
<1>7. \A p \in Objects : p # o => obj'[p] = obj[p]
  BY <1>0, <1>2 DEF ObjTypes
<1> QED
  BY <1>5, <1>6, <1>7 DEF SlotInv

\* Destroying an object keeps the invariant, and all objects that are pinned.
LEMMA DestroyStep ==
    ASSUME SlotInv, NEW h, Destroy(h), taskFamily' = taskFamily
    PROVE  /\ SlotInv'
           /\ \A p \in Objects : obj[p].activeOps # 0 => obj'[p] = obj[p]
<1>0. TableTypes(slots, free) /\ Frees(slots, free) /\ ObjTypes /\ Owns
  BY DEF SlotInv
<1> DEFINE o == Resolve(h.raw)
           s == DecodeHandle(h.raw).slot
           v == [obj[o] EXCEPT !.live = FALSE]
<1>1. /\ ~taskFamily /\ obj[o].activeOps = 0 /\ obj[o].slot = s
      /\ slots' = Released(slots, s) /\ free' = <<s>> \o free
      /\ obj' = [obj EXCEPT ![o] = v]
  BY DEF Destroy
<1>2. o \in Objects /\ s \in 1 .. Len(slots) /\ slots[s].object = o /\ o # None
  BY <1>0, ResolveObject, SlotConstants DEF Destroy
<1> HIDE DEF o, s
<1>3. v \in Object /\ ~v.live
  <2>1. obj[o] \in Object
    BY <1>0, <1>2 DEF ObjTypes
  <2> QED
    BY <2>1, Zenon DEF Object
<1> HIDE DEF v
<1>4. /\ TableTypes(slots', free') /\ Frees(slots', free')
      /\ Len(slots') = Len(slots)
      /\ \A x \in 1 .. Len(slots) : x # s => slots'[x] = slots[x]
  BY <1>0, <1>1, <1>2, ReleaseTable, Zenon
<1>5. \A x \in 1 .. Len(slots) : slots[x].object \notin {o, None} =>
          x \in 1 .. Len(slots') /\ slots'[x].object = slots[x].object
  BY <1>2, <1>4
<1>6. ObjTypes' /\ Owns'
  BY <1>1, <1>2, <1>3, <1>5, OneOwner, Zenon
<1>7. (TableTypes(slots, free) /\ Frees(slots, free))'
  BY <1>4 DEF TableTypes, Frees, Exhausted
<1>8. \A p \in Objects : obj[p].activeOps # 0 => obj'[p] = obj[p]
  BY <1>0, <1>1 DEF ObjTypes
<1> QED
  BY <1>6, <1>7, <1>8 DEF SlotInv

-------------------------------------------------------------------------------
\* Every step keeps the invariant.
LEMMA SlotStep ==
    ASSUME SlotInv, [Next]_vars
    PROVE  SlotInv'
<1>1. CASE UNCHANGED vars
  BY <1>1 DEF SlotInv, TableTypes, ObjTypes, Frees, Owns, Exhausted, vars
<1>2. CASE Next
  <2>0. taskFamily' = taskFamily
    BY <1>2 DEF Next
  <2>1. ASSUME NEW t \in Threads, ThreadStep(t) PROVE SlotInv'
    BY <2>0, <2>1, ThreadKeeps, KeptInv
  <2>2. ASSUME NEW o \in Objects, Create(o) \/ InvalidateTask(o) \/ ActivateTask(o)
        PROVE  SlotInv'
    BY <2>0, <2>2, CreateStep, InvalidateStep, ActivateStep
  <2>3. ASSUME NEW h \in handles, Destroy(h) PROVE SlotInv'
    BY <2>0, <2>3, DestroyStep
  <2> QED
    BY <1>2, <2>1, <2>2, <2>3 DEF Next
<1> QED
  BY <1>1, <1>2, Zenon

\* The empty table satisfies the invariant.
LEMMA SlotBegins == ASSUME Init PROVE SlotInv
<1>1. slots \in Seq(SlotEntry) /\ free \in Seq(1 .. Len(slots)) /\ Len(slots) = 0 /\ Len(free) = 0
  BY EmptySeq DEF Init
<1>2. TableTypes(slots, free) /\ Frees(slots, free)
  BY <1>1 DEF TableTypes, Frees
<1>3. ObjTypes
  BY DEF Init, ObjTypes, Object
<1>4. \A o \in Objects : obj[o].slot = 0
  BY DEF Init
<1> QED
  BY <1>2, <1>3, <1>4 DEF SlotInv, Owns

\* The slot table, its free list and the objects agree throughout, for any
\* number of objects, slots, epochs and uses.
THEOREM SlotInvariant == Spec => []SlotInv
<1>1. Init => SlotInv
  BY SlotBegins
<1>2. SlotInv /\ [Next]_vars => SlotInv'
  BY SlotStep
<1> QED
  BY <1>1, <1>2, PTL DEF Spec

\* The free list holds exactly the free slots that still have an epoch, each
\* once, and no live object is behind a free slot (llam_public_slot_reserve_impl
\* and llam_public_slot_release).
THEOREM FreeSlotsExact == Spec => []FreeListExact
<1>1. SlotInv => FreeListExact
  BY DEF SlotInv, Frees, Owns, FreeListExact
<1> QED
  BY <1>1, SlotInvariant, PTL

\* A saturated pin counter stays the busy sentinel and its object is never
\* destroyed or reused, unless a timer's add wraps it (runtime_public_active_op.h).
THEOREM SaturationStays == Spec => SaturationPermanent
<1> DEFINE Stays == \A o \in Objects :
               /\ obj[o].live /\ obj[o].activeOps = BusySentinel
               /\ ~obj'[o].wrapped
               => /\ obj'[o].activeOps = BusySentinel
                  /\ obj'[o].birth = obj[o].birth
                  /\ taskFamily \/ obj'[o].live
<1>1. SlotInv /\ [Next]_vars => [Stays]_vars
  <2> SUFFICES ASSUME SlotInv, Next, NEW o \in Objects,
                      obj[o].live, obj[o].activeOps = BusySentinel, ~obj'[o].wrapped
               PROVE  /\ obj'[o].activeOps = BusySentinel
                      /\ obj'[o].birth = obj[o].birth
                      /\ taskFamily \/ obj'[o].live
    OBVIOUS
  <2>0. taskFamily' = taskFamily
    BY DEF Next
  <2>1. ASSUME NEW t \in Threads, ThreadStep(t)
        PROVE  /\ obj'[o].activeOps = BusySentinel
               /\ obj'[o].birth = obj[o].birth /\ obj'[o].live
    BY <2>1, ThreadKeeps DEF ObjectsKept, Kept
  <2>2. ASSUME NEW p \in Objects, Create(p) \/ ActivateTask(p) PROVE obj'[o] = obj[o]
    <3>1. p # o
      BY <2>2 DEF Create, ActivateTask
    <3> QED
      BY <2>0, <2>2, <3>1, CreateStep, ActivateStep
  <2>3. ASSUME NEW p \in Objects, InvalidateTask(p)
        PROVE  /\ obj'[o].activeOps = obj[o].activeOps
               /\ obj'[o].birth = obj[o].birth /\ taskFamily
    <3>1. taskFamily
      BY <2>3 DEF InvalidateTask
    <3> QED
      BY <2>0, <2>3, <3>1, InvalidateStep, Zenon
  <2>4. ASSUME NEW h \in handles, Destroy(h) PROVE obj'[o] = obj[o]
    <3>1. obj[o].activeOps # 0
      BY SlotConstants
    <3> QED
      BY <2>0, <2>4, <3>1, DestroyStep
  <2> QED
    BY <2>1, <2>2, <2>3, <2>4 DEF Next
<1> QED
  BY <1>1, SlotInvariant, PTL DEF Spec, SaturationPermanent

====
