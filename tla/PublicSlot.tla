------------------------------ MODULE PublicSlot ------------------------------
(***************************************************************************)
(* Public handles (internal/runtime_public_slot*.h, _active_op.h) and the  *)
(* create, resolve, end-operation and destroy paths of the objects behind  *)
(* them (core/sync/*_lifecycle.c, core/api/cancel_api.c, task handles).    *)
(*                                                                         *)
(* A handle is a slot number and a generation.  Destroying an object gives *)
(* its slot to the free list and its storage to the allocator or a cache;  *)
(* both are reused.  `birth' numbers the uses of an object; the code has   *)
(* no such number, the properties are stated with it.  One registry lock   *)
(* per family makes create, resolve and destroy atomic; the end of an      *)
(* operation and the pin a deadline timer takes do not hold that lock.     *)
(***************************************************************************)
EXTENDS Integers, Sequences, FiniteSets

CONSTANTS
    Objects,      \* storage addresses
    Threads,
    TimerThreads, \* the threads whose operations arm a deadline timer
    MaxSlots,     \* LLAM_PUBLIC_HANDLE_MAX_SLOTS
    MaxEpoch,     \* LLAM_PUBLIC_HANDLE_EPOCH_MASK: epochs, and tokens, per slot
    Multipliers,  \* seal multipliers: coprime with MaxEpoch
    Addends,      \* seal addends
    Tables,       \* which tables: TRUE for task handles, FALSE for a sync family
    FamilySpan,   \* 2 ^ LLAM_PUBLIC_HANDLE_FAMILY_BITS
    Family,       \* the family number in the low bits of a generation
    ShiftSpan,    \* 2 ^ LLAM_SYNC_PUBLIC_HANDLE_SHIFT
    BeginLimit,   \* LLAM_PUBLIC_ACTIVE_OP_BEGIN_LIMIT
    BusySentinel, \* LLAM_PUBLIC_ACTIVE_OP_BUSY_SENTINEL, the largest counter
    MaxBirth,     \* bound on the uses of one object
    None

ASSUME PublicSlotConstants ==
    /\ TimerThreads \subseteq Threads
    /\ MaxSlots \in Nat \ {0} /\ MaxEpoch \in Nat \ {0}
    /\ FamilySpan \in Nat /\ ShiftSpan \in Nat /\ BusySentinel \in Nat
    /\ Multipliers \subseteq 1 .. MaxEpoch /\ Multipliers # {}
    /\ Addends \subseteq 0 .. MaxEpoch - 1 /\ Addends # {}
    /\ Tables \subseteq BOOLEAN
    /\ \A m \in Multipliers, k \in 1 .. MaxEpoch - 1 : (k * m) % MaxEpoch # 0
    /\ Family \in 1 .. FamilySpan - 1
    /\ ShiftSpan > MaxEpoch * FamilySpan + Family
    /\ BeginLimit \in Nat \ {0} /\ BusySentinel > BeginLimit + 1
    /\ None \notin Objects \cup Threads

ReservedThreshold == BeginLimit + 1

VARIABLES
    slots,    \* the slot table, a sequence of entries
    free,     \* its free list, head first
    obj,      \* the objects
    handles,  \* the handles ever returned, with what they were returned for
    pc,       \* where each thread is
    ref,      \* the object and birth each thread operates on
    taskFamily \* the table is the one of task handles

vars == <<slots, free, obj, handles, pc, ref, taskFamily>>

Entry == [object : Objects \cup {None}, generation : Nat, epoch : 0 .. MaxEpoch,
          multiplier : Multipliers, addend : Addends]

SlotTypeOK ==
    /\ slots \in Seq(Entry) /\ Len(slots) <= MaxSlots
    /\ free \in Seq(1 .. Len(slots))
    /\ obj \in [Objects -> [live : BOOLEAN, birth : 0 .. MaxBirth,
                            activeOps : 0 .. BusySentinel, held : BOOLEAN,
                            slot : 0 .. MaxSlots, generation : Nat,
                            wrapped : BOOLEAN]]
    /\ handles \subseteq [raw : Nat, object : Objects, birth : 1 .. MaxBirth]
    /\ pc \in [Threads -> {"idle", "op", "timerAdd", "timerStore", "timed"}]
    /\ ref \in [Threads -> [object : Objects \cup {None}, birth : 0 .. MaxBirth]]
    /\ taskFamily \in Tables

NoRef == [object |-> None, birth |-> 0]

Init ==
    /\ slots = <<>> /\ free = <<>>
    /\ obj = [o \in Objects |-> [live |-> FALSE, birth |-> 0, activeOps |-> 0,
                                 held |-> FALSE, slot |-> 0, generation |-> 0,
                                 wrapped |-> FALSE]]
    /\ handles = {}
    /\ pc = [t \in Threads |-> "idle"]
    /\ ref = [t \in Threads |-> NoRef]
    /\ taskFamily \in Tables

-------------------------------------------------------------------------------
(* Handle words.                                                           *)
FamilyGeneration(token) == token * FamilySpan + Family

(* Mutant of EncodeHandle: the generation is truncated to the family bits. *)
EncodeNarrow(slot, generation) == slot * ShiftSpan + (generation % (2 * FamilySpan))

EncodeHandle(slot, generation) == slot * ShiftSpan + generation

DecodeHandle(raw) == [slot |-> raw \div ShiftSpan, generation |-> raw % ShiftSpan]

(* The next token of a slot: one affine step in the ring of MaxEpoch       *)
(* tokens, or the first token of a slot that has none.                     *)
NextAffineToken(e) ==
    IF e.generation # 0
      THEN LET z == (e.generation \div FamilySpan) - 1 + e.multiplier
           IN  (IF z >= MaxEpoch THEN z - MaxEpoch ELSE z) + 1
      ELSE e.addend + 1

(* Mutant of RefreshFamilyGeneration: the token is not advanced on reuse.  *)
RefreshSameGeneration(e) ==
    [e EXCEPT !.epoch = @ + 1,
              !.generation = IF e.generation # 0 THEN e.generation
                              ELSE FamilyGeneration(e.addend + 1)]

RefreshFamilyGeneration(e) ==
    [e EXCEPT !.epoch = @ + 1,
              !.generation = FamilyGeneration(NextAffineToken(e))]

(* Mutant of Exhausted: one epoch too many.                                *)
ExhaustedLate(e) == e.epoch > MaxEpoch

Exhausted(e) == e.epoch >= MaxEpoch

(* llam_public_slot_reserve_impl for object o, on a given table: take the  *)
(* first free slot that has an epoch left (the exhausted ones before it    *)
(* leave the list for ever), or append one.  `ok' is FALSE for ENOMEM.     *)
Usable(tbl, list) == {i \in 1 .. Len(list) : ~Exhausted(tbl[list[i]])}

Reserve(tbl, list, o, m, a) ==
    IF Usable(tbl, list) # {}
      THEN LET i == CHOOSE i \in Usable(tbl, list) :
                        \A j \in Usable(tbl, list) : i <= j
               e == RefreshFamilyGeneration(tbl[list[i]])
           IN  [ok |-> TRUE, slot |-> list[i], free |-> SubSeq(list, i + 1, Len(list)),
                slots |-> [tbl EXCEPT ![list[i]] = [e EXCEPT !.object = o]]]
    ELSE IF Len(tbl) < MaxSlots
      THEN LET e == RefreshFamilyGeneration(
                        [object |-> o, generation |-> 0, epoch |-> 0,
                         multiplier |-> m, addend |-> a])
           IN  [ok |-> TRUE, slot |-> Len(tbl) + 1, free |-> <<>>,
                slots |-> Append(tbl, e)]
    ELSE [ok |-> FALSE, slot |-> 0, free |-> <<>>, slots |-> tbl]

(* Mutant of Released: the slot keeps its object.                          *)
ReleasedKept(tbl, s) == tbl

(* llam_public_slot_release.                                               *)
Released(tbl, s) == [tbl EXCEPT ![s].object = None]

(* llam_public_slot_resolve: the object behind a handle word.              *)
Resolve(raw) ==
    LET h == DecodeHandle(raw)
    IN  IF h.slot \in 1 .. Len(slots) /\ slots[h.slot].generation = h.generation
          THEN slots[h.slot].object ELSE None

-------------------------------------------------------------------------------
(* Create: storage from the allocator or a cache, registered in the table. *)
(* The object's counters are reset before it is visible.                   *)
Create(o) ==
    /\ ~obj[o].live /\ obj[o].birth < MaxBirth
    /\ taskFamily => obj[o].slot = 0 /\ obj[o].activeOps = 0
    /\ \E m \in Multipliers, a \in Addends :
         LET r == Reserve(slots, free, o, m, a)
             g == r.slots[r.slot].generation
             b == obj[o].birth + 1
         IN  /\ slots' = r.slots /\ free' = r.free
             /\ IF r.ok
                  THEN /\ obj' = [obj EXCEPT ![o] =
                            [live |-> TRUE, birth |-> b, activeOps |-> 0,
                             held |-> FALSE, slot |-> r.slot, generation |-> g,
                             wrapped |-> obj[o].wrapped]]
                       /\ handles' = handles \cup
                            {[raw |-> EncodeHandle(r.slot, g), object |-> o,
                              birth |-> b]}
                  ELSE UNCHANGED <<obj, handles>>
    /\ UNCHANGED <<pc, ref>>

(* Resolve a handle and pin the object: llam_public_active_op_try_begin    *)
(* inside the registry lock.  At the limit the counter becomes the busy    *)
(* sentinel for good and the operation fails with EBUSY.                   *)
BeginOp(t, h) ==
    /\ pc[t] = "idle"
    /\ Resolve(h.raw) # None
    /\ LET o == Resolve(h.raw)
       IN  IF obj[o].activeOps >= BeginLimit
             THEN /\ obj' = [obj EXCEPT ![o].activeOps = BusySentinel]
                  /\ UNCHANGED <<pc, ref>>
             ELSE /\ obj' = [obj EXCEPT ![o].activeOps = @ + 1]
                  /\ pc' = [pc EXCEPT ![t] = "op"]
                  /\ ref' = [ref EXCEPT ![t] = [object |-> o,
                                                birth |-> obj[o].birth]]
    /\ UNCHANGED <<slots, free, handles>>

(* What an operation may leave behind after it ends: a held mutex, a       *)
(* buffered channel item, a task's reference on a token.                   *)
SetHeld(t) ==
    /\ pc[t] = "op"
    /\ obj' = [obj EXCEPT ![ref[t].object].held = ~@]
    /\ UNCHANGED <<slots, free, handles, pc, ref>>

(* Mutant of Ended: a saturated counter is decremented.                    *)
EndedSaturated(n) == IF n = 0 THEN 0 ELSE n - 1

(* llam_public_active_op_end.                                              *)
Ended(n) == IF n = 0 THEN 0
            ELSE IF n >= ReservedThreshold THEN BusySentinel ELSE n - 1

EndOp(t) ==
    /\ pc[t] = "op"
    /\ obj' = [obj EXCEPT ![ref[t].object].activeOps = Ended(@)]
    /\ pc' = [pc EXCEPT ![t] = "idle"]
    /\ ref' = [ref EXCEPT ![t] = NoRef]
    /\ UNCHANGED <<slots, free, handles>>

(* A deadline timer of the operation takes a pin of its own                *)
(* (llam_timer_insert_locked), without the registry lock: the load and the *)
(* add of try_begin are separate steps, and the add wraps.  `wrapped'      *)
(* remembers an add that found the busy sentinel.                          *)
TimerLoad(t) ==
    /\ pc[t] = "op" /\ t \in TimerThreads
    /\ IF obj[ref[t].object].activeOps >= BeginLimit
         THEN /\ obj' = [obj EXCEPT ![ref[t].object].activeOps = BusySentinel]
              /\ UNCHANGED pc
         ELSE /\ pc' = [pc EXCEPT ![t] = "timerAdd"]
              /\ UNCHANGED obj
    /\ UNCHANGED <<slots, free, handles, ref>>

TimerAdd(t) ==
    /\ pc[t] = "timerAdd"
    /\ LET o == ref[t].object
           n == obj[o].activeOps
       IN  obj' = [obj EXCEPT ![o] =
             [obj[o] EXCEPT !.activeOps = (n + 1) % (BusySentinel + 1),
                            !.wrapped = obj[o].wrapped \/ n = BusySentinel]]
    /\ pc' = [pc EXCEPT ![t] =
                  IF obj[ref[t].object].activeOps < BeginLimit
                    THEN "timed" ELSE "timerStore"]
    /\ UNCHANGED <<slots, free, handles, ref>>

TimerStore(t) ==
    /\ pc[t] = "timerStore"
    /\ obj' = [obj EXCEPT ![ref[t].object].activeOps = BusySentinel]
    /\ pc' = [pc EXCEPT ![t] = "op"]
    /\ UNCHANGED <<slots, free, handles, ref>>

(* llam_timer_release_ownership.                                           *)
TimerRelease(t) ==
    /\ pc[t] = "timed"
    /\ obj' = [obj EXCEPT ![ref[t].object].activeOps = Ended(@)]
    /\ pc' = [pc EXCEPT ![t] = "op"]
    /\ UNCHANGED <<slots, free, handles, ref>>

(* Destroy through a handle: EBUSY while something is held or pinned.      *)
Destroy(h) ==
    /\ ~taskFamily
    /\ Resolve(h.raw) # None
    /\ LET o == Resolve(h.raw)
           s == DecodeHandle(h.raw).slot
       IN  /\ obj[o].slot = s
           /\ obj[o].generation = DecodeHandle(h.raw).generation
           /\ ~obj[o].held /\ obj[o].activeOps = 0
           /\ slots' = Released(slots, s)
           /\ free' = <<s>> \o free
           /\ obj' = [obj EXCEPT ![o].live = FALSE]
    /\ UNCHANGED <<handles, pc, ref>>

(* Task objects keep their slot when they are recycled.  Consuming the     *)
(* handle (join, detach, reclaim) advances the generation; when the epochs *)
(* of the slot are used up it is released and another one is reserved,     *)
(* and if there is none the object is left without a slot.                 *)
InvalidateTask(o) ==
    /\ taskFamily /\ obj[o].live /\ obj[o].slot # 0
    /\ \E m \in Multipliers, a \in Addends :
         LET s == obj[o].slot
             r == IF ~Exhausted(slots[s])
                    THEN [ok |-> TRUE, slot |-> s, free |-> free, slots |->
                            [slots EXCEPT ![s] = RefreshFamilyGeneration(@)]]
                    ELSE Reserve(Released(slots, s), <<s>> \o free, o, m, a)
         IN  /\ slots' = r.slots /\ free' = r.free
             /\ obj' = [obj EXCEPT ![o] =
                  [obj[o] EXCEPT !.live = FALSE, !.slot = r.slot,
                     !.generation = IF r.ok THEN r.slots[r.slot].generation ELSE 0]]
    /\ UNCHANGED <<handles, pc, ref>>

(* Mutant of ActivateTask: pins of the old use are not waited for.         *)
ActivatePinned(o) ==
    /\ taskFamily /\ ~obj[o].live /\ obj[o].birth < MaxBirth
    /\ obj[o].slot # 0 /\ obj[o].generation # 0
    /\ obj' = [obj EXCEPT ![o] =
                  [obj[o] EXCEPT !.live = TRUE, !.birth = obj[o].birth + 1]]
    /\ handles' = handles \cup
         {[raw |-> EncodeHandle(obj[o].slot, obj[o].generation), object |-> o,
           birth |-> obj[o].birth + 1]}
    /\ UNCHANGED <<slots, free, pc, ref>>

(* llam_task_activate_public_handle: a recycled task is spawned with the   *)
(* slot and the generation prepared when it was invalidated, without the   *)
(* registry lock.  A task without a slot goes through Create.  The reclaim *)
(* path has waited for the pins of the old use to drain (TaskLife).        *)
ActivateTask(o) ==
    /\ taskFamily /\ ~obj[o].live /\ obj[o].birth < MaxBirth
    /\ obj[o].slot # 0 /\ obj[o].generation # 0 /\ obj[o].activeOps = 0
    /\ obj' = [obj EXCEPT ![o] =
                  [obj[o] EXCEPT !.live = TRUE, !.birth = obj[o].birth + 1]]
    /\ handles' = handles \cup
         {[raw |-> EncodeHandle(obj[o].slot, obj[o].generation), object |-> o,
           birth |-> obj[o].birth + 1]}
    /\ UNCHANGED <<slots, free, pc, ref>>

-------------------------------------------------------------------------------
ThreadStep(t) ==
    \/ \E h \in handles : BeginOp(t, h)
    \/ SetHeld(t)
    \/ EndOp(t)
    \/ TimerLoad(t)
    \/ TimerAdd(t)
    \/ TimerStore(t)
    \/ TimerRelease(t)

Next ==
    /\ \/ \E t \in Threads : ThreadStep(t)
       \/ \E o \in Objects : Create(o) \/ InvalidateTask(o) \/ ActivateTask(o)
       \/ \E h \in handles : Destroy(h)
    /\ UNCHANGED taskFamily

Spec == Init /\ [][Next]_vars

-------------------------------------------------------------------------------
(* A handle resolves to the object it was returned for, in the use it was  *)
(* returned for, or to nothing: reuse of its slot, of its storage or of    *)
(* both never lets a stale handle reach the replacement.                   *)
StaleNeverResolves ==
    \A h \in handles : Resolve(h.raw) # None =>
        /\ Resolve(h.raw) = h.object
        /\ obj[h.object].live /\ obj[h.object].birth = h.birth

(* No handle word is returned twice, up to the last epoch of every slot.   *)
HandlesUnique == \A g, h \in handles : g.raw = h.raw => g = h

(* The free list holds exactly the free slots that still have an epoch,    *)
(* each once, plus exhausted ones not yet dropped; a live object is never  *)
(* behind a free slot.                                                     *)
FreeListExact ==
    /\ \A i, j \in 1 .. Len(free) : free[i] = free[j] => i = j
    /\ \A i \in 1 .. Len(free) : slots[free[i]].object = None
    /\ \A s \in 1 .. Len(slots) :
         slots[s].object = None =>
             Exhausted(slots[s]) \/ \E i \in 1 .. Len(free) : free[i] = s
    /\ \A o \in Objects : (obj[o].live \/ taskFamily) /\ obj[o].slot # 0 =>
         slots[obj[o].slot].object = o

(* Storage is not destroyed or reused while an operation has it pinned: a  *)
(* thread between begin and end works on the object it resolved.           *)
PinnedAlive ==
    \A t \in Threads : pc[t] # "idle" /\ ~obj[ref[t].object].wrapped =>
        /\ obj[ref[t].object].birth = ref[t].birth
        /\ taskFamily \/ obj[ref[t].object].live

(* A saturated counter stays the busy sentinel, so that the object is      *)
(* never destroyed: "Saturated/corrupt counters are permanent EBUSY        *)
(* sentinels."  Only the add of a timer that read the counter before it    *)
(* saturated can undo that.                                                *)
SaturationPermanent ==
    [][\A o \in Objects :
         /\ obj[o].live /\ obj[o].activeOps = BusySentinel
         /\ ~obj'[o].wrapped
         => /\ obj'[o].activeOps = BusySentinel
            /\ obj'[o].birth = obj[o].birth
            /\ taskFamily \/ obj'[o].live]_vars
===============================================================================
