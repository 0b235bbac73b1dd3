------------------------------ MODULE TimerProofs ------------------------------
(***************************************************************************)
(* The deadline timer and the wait generation: a record that outlives its  *)
(* wait never times out another, for any tasks and any number of waits.    *)
(***************************************************************************)
EXTENDS GateProofs

\* What a step may do to a wait whose generation it leaves alone ...
WaitKept == \A t \in Tasks :
    \/ gen'[t] > gen[t]
    \/ gen'[t] = gen[t] /\ (tracked'[t] => tracked[t] /\ deadline'[t] = deadline[t])
\* ... to an armed record ...
RecordKept == \A t \in Tasks : timer'[t] \in {0, timer[t]}
\* ... and to a popped one.
PoppedKept ==
    apc'[TimerM] \in {"check", "tremove"} =>
       apc[TimerM] \in {"check", "tremove"} /\ tgt'[TimerM] = tgt[TimerM] /\ agen'[TimerM] = agen[TimerM]

\* A record outlives its wait, but never names a later one.
LEMMA TimerKept ==
  ASSUME TypeOK, TypeOK', WaitInv, TimerInv, WaitKept, RecordKept, PoppedKept
  PROVE  TimerInv'
  <1>1. \A t \in Tasks : gen[t] \in Nat /\ gen'[t] \in Nat /\ timer[t] \in Nat
    BY DEF TypeOK, WaitTypeOK
  <1>2. TimerM \in Actors /\ agen[TimerM] \in Nat
    BY DEF Actors, TypeOK, WaitTypeOK
  <1>3. \A t \in Tasks : timer'[t] <= gen'[t] /\ (timer'[t] = gen'[t] /\ tracked'[t] => deadline'[t])
    BY <1>1 DEF TimerInv, WaitKept, RecordKept
  <1>4. ASSUME apc'[TimerM] \in {"check", "tremove"}
        PROVE  LET t == tgt'[TimerM] IN
               agen'[TimerM] <= gen'[t] /\ (agen'[TimerM] = gen'[t] /\ tracked'[t] => deadline'[t])
    <2>1. tgt[TimerM] \in Tasks /\ tgt'[TimerM] = tgt[TimerM] /\ agen'[TimerM] = agen[TimerM]
      BY <1>2, <1>4, ActorTarget DEF PoppedKept
    <2>2. LET t == tgt[TimerM] IN
          agen[TimerM] <= gen[t] /\ (agen[TimerM] = gen[t] /\ tracked[t] => deadline[t])
      BY <1>4 DEF PoppedKept, TimerInv
    <2> QED BY <1>1, <1>2, <2>1, <2>2 DEF WaitKept
  <1> QED BY <1>3, <1>4 DEF TimerInv

\* Nothing the waits are known by changes.
LEMMA NothingWaits ==
  ASSUME UNCHANGED <<gen, tracked, deadline>>
  PROVE  WaitKept
  BY DEF WaitKept

\* A task is not the timer thread.
LEMMA TimerOther ==
  ASSUME TypeOK, NEW a \in Actors, a # TimerM,
         \/ \E p : apc' = [apc EXCEPT ![a] = p]
         \/ UNCHANGED apc,
         \A b \in Actors \ {a} : tgt'[b] = tgt[b] /\ agen'[b] = agen[b]
  PROVE  PoppedKept
  <1>1. TimerM \in Actors
    BY DEF Actors
  <1> QED BY <1>1 DEF PoppedKept, TypeOK, WaitTypeOK

\* The waiting side arms the record for the generation it has published.
LEMMA TimerWaiter ==
  ASSUME TypeOK, TypeOK', WaitInv, TimerInv, NEW t \in Tasks, WaiterStep(t) \/ Dispatch(t)
  PROVE  TimerInv'
  <1>1. t \in Actors /\ t # TimerM
    BY WaitAssumption DEF Actors
  <1>2. PoppedKept
    <2>1. CASE Park(t)
      <3>1. \/ UNCHANGED actorVars
            \/ /\ apc' = [apc EXCEPT ![t] = "begin"]
               /\ tgt' = [tgt EXCEPT ![t] = t] /\ agen' = [agen EXCEPT ![t] = 0]
        BY <2>1 DEF Park
      <3>2. \A b \in Actors \ {t} : tgt'[b] = tgt[b] /\ agen'[b] = agen[b]
        BY <3>1 DEF actorVars, TypeOK, WaitTypeOK
      <3> QED BY <1>1, <3>1, <3>2, TimerOther DEF actorVars
    <2>2. CASE ~Park(t)
      <3>1. UNCHANGED actorVars
        BY <2>2, Zenon DEF WaiterStep, SetTracking, ArmDeadline, Register, Undo, ShouldPark, Cleanup, Dispatch
      <3> QED BY <3>1 DEF actorVars, PoppedKept
    <2> QED BY <2>1, <2>2
  <1>3. CASE SetTracking(t)
    <2>1. WaitKept
      BY <1>3 DEF SetTracking, nodeVars, WaitKept, TypeOK, WaitTypeOK
    <2> QED BY <1>2, <1>3, <2>1, TimerKept DEF SetTracking, sourceVars, RecordKept
  <1>4. CASE ArmDeadline(t)
    <2>1. UNCHANGED <<gen, tracked, deadline>> /\ UNCHANGED actorVars
      BY <1>4 DEF ArmDeadline, nodeVars, trackVars
    <2>2. CASE UNCHANGED timer
      BY <1>2, <2>1, <2>2, NothingWaits, TimerKept DEF RecordKept
    <2>3. CASE timer' = [timer EXCEPT ![t] = IF deadline[t] THEN gen[t] ELSE 0]
      <3>1. gen[t] \in Nat /\ deadline[t] \in BOOLEAN
        BY DEF TypeOK, WaitTypeOK
      <3>2. \A u \in Tasks \ {t} : timer'[u] = timer[u]
        BY <2>3 DEF TypeOK, WaitTypeOK
      <3>3. CASE deadline[t]
        <4>1. timer'[t] = gen[t]
          BY <2>3, <3>3 DEF TypeOK, WaitTypeOK
        <4> QED BY <2>1, <3>1, <3>2, <3>3, <4>1 DEF actorVars, TimerInv
      <3>4. CASE ~deadline[t]
        <4>1. timer'[t] = 0
          BY <2>3, <3>4 DEF TypeOK, WaitTypeOK
        <4>2. RecordKept
          BY <3>2, <4>1 DEF RecordKept
        <4> QED BY <1>2, <2>1, <4>2, NothingWaits, TimerKept
      <3> QED BY <3>3, <3>4
    <2> QED BY <1>4, <2>2, <2>3 DEF ArmDeadline
  <1>5. CASE ~SetTracking(t) /\ ~ArmDeadline(t)
    <2>1. UNCHANGED <<gen, tracked, deadline>>
      BY <1>5, Zenon DEF WaiterStep, Register, Undo, ShouldPark, Park, Cleanup, Dispatch,
                         nodeVars, trackVars
    <2>2. UNCHANGED timer \/ timer' = [timer EXCEPT ![t] = 0]
      BY <1>5, Zenon DEF WaiterStep, Register, Undo, ShouldPark, Park, Cleanup, Dispatch, sourceVars
    <2>3. RecordKept
      BY <2>2 DEF RecordKept, TypeOK, WaitTypeOK
    <2> QED BY <1>2, <2>1, <2>3, NothingWaits, TimerKept
  <1> QED BY <1>3, <1>4, <1>5

\* The resolving side ends generations and disarms.
LEMMA TimerActor ==
  ASSUME TypeOK, TypeOK', WaitInv, TimerInv, NEW a \in Actors, ActorStep(a)
  PROVE  TimerInv'
  <1> DEFINE t == tgt[a]
  <1>1. t \in Tasks
    BY ActorTarget DEF ActorStep, Begin, CancelRemove, ResolverEnd, PrepareWake, StoreCompleted,
                       Reinject, Requeue, Handoff
  <1> HIDE DEF t
  <1>2. WaitKept
    <2>1. CASE Requeue(a) \/ Handoff(a)
      <3>1. /\ gen' = [gen EXCEPT ![t] = gen[t] + 1] /\ tracked' = [tracked EXCEPT ![t] = FALSE]
            /\ UNCHANGED deadline
        BY <2>1 DEF Requeue, Handoff, nodeVars, t
      <3> QED BY <1>1, <3>1 DEF WaitKept, TypeOK, WaitTypeOK
    <2>2. CASE ~Requeue(a) /\ ~Handoff(a)
      <3>1. UNCHANGED <<gen, tracked, deadline>>
        BY <2>2, Zenon DEF ActorStep, Begin, CancelRemove, ResolverEnd, PrepareWake, StoreCompleted,
                           Reinject, nodeVars, trackVars
      <3> QED BY <3>1, NothingWaits
    <2> QED BY <2>1, <2>2
  <1>3. RecordKept
    <2>1. UNCHANGED timer \/ timer' = [timer EXCEPT ![t] = 0]
      BY Zenon DEF ActorStep, Begin, CancelRemove, ResolverEnd, PrepareWake, StoreCompleted,
                   Reinject, Requeue, Handoff, sourceVars, t
    <2> QED BY <1>1, <2>1 DEF RecordKept, TypeOK, WaitTypeOK
  <1>4. PoppedKept
    <2>1. Finish(a) \/ \E p \in ActorPcs \ {"check", "tremove"} : apc' = [apc EXCEPT ![a] = p]
      <3> USE DEF ActorPcs, HoldPcs, RequeuePcs
      <3>1. CASE Begin(a) \/ CancelRemove(a) \/ ResolverEnd(a)
        BY <3>1 DEF Begin, CancelRemove, ResolverEnd
      <3>2. CASE PrepareWake(a) \/ StoreCompleted(a) \/ Reinject(a)
        BY <3>2 DEF PrepareWake, StoreCompleted, Reinject
      <3>3. CASE Requeue(a) \/ Handoff(a)
        BY <3>3 DEF Requeue, Handoff
      <3> QED BY <3>1, <3>2, <3>3 DEF ActorStep
    <2>2. \A b \in Actors \ {a} : tgt'[b] = tgt[b] /\ agen'[b] = agen[b]
      <3>1. CASE Finish(a)
        BY <3>1, FinishFrees
      <3>2. CASE ~Finish(a)
        <4>1. UNCHANGED tgt /\ (UNCHANGED agen \/ agen' = [agen EXCEPT ![a] = gen[t]])
          BY <3>2, Zenon DEF ActorStep, Begin, CancelRemove, ResolverEnd, PrepareWake, StoreCompleted,
                             Reinject, Requeue, Handoff, t
        <4> QED BY <4>1 DEF TypeOK, WaitTypeOK
      <3> QED BY <3>1, <3>2
    <2>3. PICK p : apc' = [apc EXCEPT ![a] = p] /\ p \notin {"check", "tremove"}
      BY <2>1, FinishFrees
    <2>4. CASE a = TimerM
      BY <2>3, <2>4 DEF PoppedKept, TypeOK, WaitTypeOK
    <2>5. CASE a # TimerM
      BY <2>2, <2>3, <2>5, TimerOther
    <2> QED BY <2>4, <2>5
  <1> QED BY <1>2, <1>3, <1>4, TimerKept

\* Popping moves the record into the hands of the timer thread.
LEMMA TimerSource ==
  ASSUME TypeOK, TypeOK', WaitInv, TimerInv,
         \/ \E t \in Tasks : PopTimer(t) \/ Deliver(t) \/ CancelParked(t)
         \/ TimeoutCheck \/ TimeoutRemove \/ CancelToken \/ RequestStop \/ CollectParked
  PROVE  TimerInv'
  <1>1. TimerM \in Actors /\ CancelM \in Actors /\ StopM \in Actors /\ TimerM \notin {CancelM, StopM}
    BY WaitAssumption DEF Actors
  <1>2. UNCHANGED <<gen, tracked, deadline>>
    BY Zenon DEF PopTimer, Deliver, CancelParked, TimeoutCheck, TimeoutRemove, CancelToken,
                 RequestStop, CollectParked, trackVars, nodeVars
  <1>3. ASSUME NEW t \in Tasks, PopTimer(t) PROVE TimerInv'
    <2>1. tgt' = [tgt EXCEPT ![TimerM] = t] /\ agen' = [agen EXCEPT ![TimerM] = timer[t]]
      BY <1>3 DEF PopTimer
    <2>2. timer' = [timer EXCEPT ![t] = 0] /\ timer[t] # 0
      BY <1>3 DEF PopTimer
    <2>3. tgt'[TimerM] = t /\ agen'[TimerM] = timer[t]
      BY <1>1, <2>1 DEF TypeOK, WaitTypeOK
    <2>4. timer'[t] = 0 /\ \A u \in Tasks \ {t} : timer'[u] = timer[u]
      BY <2>2 DEF TypeOK, WaitTypeOK
    <2>5. timer[t] \in Nat /\ gen[t] \in Nat
      BY DEF TypeOK, WaitTypeOK
    <2>6. \A u \in Tasks : timer'[u] <= gen'[u] /\ (timer'[u] = gen'[u] /\ tracked'[u] => deadline'[u])
      BY <1>2, <2>2, <2>4, <2>5 DEF TimerInv
    <2>7. agen'[TimerM] <= gen'[t] /\ (agen'[TimerM] = gen'[t] /\ tracked'[t] => deadline'[t])
      BY <1>2, <2>3 DEF TimerInv
    <2> QED BY <2>3, <2>6, <2>7 DEF TimerInv
  <1>4. ASSUME UNCHANGED timer, PoppedKept PROVE TimerInv'
    BY <1>2, <1>4, NothingWaits, TimerKept DEF RecordKept
  <1>5. ASSUME NEW t \in Tasks, Deliver(t) PROVE TimerInv'
    <2>1. /\ apc' = [apc EXCEPT ![CancelM] = "begin"] /\ UNCHANGED timer
          /\ \A b \in Actors \ {CancelM} : tgt'[b] = tgt[b] /\ agen'[b] = agen[b]
      BY <1>1, <1>5 DEF Deliver, sourceVars, TypeOK, WaitTypeOK
    <2> QED BY <1>1, <1>4, <2>1, TimerOther
  <1>6. ASSUME NEW t \in Tasks, CancelParked(t) PROVE TimerInv'
    <2>1. /\ apc' = [apc EXCEPT ![StopM] = "begin"] /\ UNCHANGED timer
          /\ \A b \in Actors \ {StopM} : tgt'[b] = tgt[b] /\ agen'[b] = agen[b]
      BY <1>1, <1>6 DEF CancelParked, TypeOK, WaitTypeOK
    <2> QED BY <1>1, <1>4, <2>1, TimerOther
  <1>7. CASE TimeoutCheck \/ TimeoutRemove
    <2>1. /\ apc[TimerM] \in {"check", "tremove"} /\ UNCHANGED timer
          /\ \/ Finish(TimerM)
             \/ UNCHANGED <<tgt, agen>> /\ \E p : apc' = [apc EXCEPT ![TimerM] = p]
      BY <1>7 DEF TimeoutCheck, TimeoutRemove
    <2>2. CASE Finish(TimerM)
      <3>1. apc' = [apc EXCEPT ![TimerM] = "off"]
        BY <2>2 DEF Finish
      <3>2. apc'[TimerM] = "off"
        BY <1>1, <3>1 DEF TypeOK, WaitTypeOK
      <3> QED BY <1>4, <2>1, <3>2 DEF PoppedKept
    <2>3. CASE UNCHANGED <<tgt, agen>>
      BY <1>4, <2>1, <2>3 DEF PoppedKept
    <2> QED BY <2>1, <2>2, <2>3
  <1>8. CASE CancelToken \/ RequestStop \/ CollectParked
    BY <1>4, <1>8 DEF CancelToken, RequestStop, CollectParked, actorVars, PoppedKept
  <1> QED BY <1>3, <1>5, <1>6, <1>7, <1>8

\* A call sets has_deadline only between two waits.
LEMMA TimerMutex ==
  ASSUME TypeOK, TypeOK', WaitInv, TrackInv, TimerInv, NEW t \in Tasks, MutexStep(t)
  PROVE  TimerInv'
  <1>1. t \in Actors /\ t # TimerM
    BY WaitAssumption DEF Actors
  <1>2. RecordKept
    BY Zenon DEF MutexStep, TryLock, LockSlow, LockQueue, LockReturn, LeaveWait, Unlock, WakeReturn,
                 sourceVars, RecordKept
  <1>3. PoppedKept
    <2>1. CASE Unlock(t)
      <3>1. \/ UNCHANGED actorVars
            \/ /\ apc' = [apc EXCEPT ![t] = "wake"]
               /\ tgt' = [tgt EXCEPT ![t] = Head(waitq[MQ])] /\ UNCHANGED agen
        BY <2>1 DEF Unlock
      <3>2. \A b \in Actors \ {t} : tgt'[b] = tgt[b] /\ agen'[b] = agen[b]
        BY <3>1 DEF actorVars, TypeOK, WaitTypeOK
      <3> QED BY <1>1, <3>1, <3>2, TimerOther DEF actorVars
    <2>2. CASE ~Unlock(t)
      <3>1. UNCHANGED actorVars
        BY <2>2, Zenon DEF MutexStep, TryLock, LockSlow, LockQueue, LockReturn, LeaveWait, WakeReturn
      <3> QED BY <3>1 DEF actorVars, PoppedKept
    <2> QED BY <2>1, <2>2
  <1>4. WaitKept
    <2>1. CASE LockReturn(t)
      <3>1. /\ gen' = [gen EXCEPT ![t] = gen[t] + 1] /\ tracked' = [tracked EXCEPT ![t] = FALSE]
            /\ deadline' = [deadline EXCEPT ![t] = FALSE]
        BY <2>1 DEF LockReturn, LeaveWait
      <3> QED BY <3>1 DEF WaitKept, TypeOK, WaitTypeOK
    <2>2. CASE LockQueue(t)
      <3>1. /\ pc[t] = "slow" /\ UNCHANGED <<gen, tracked>>
            /\ UNCHANGED deadline \/ \E d : deadline' = [deadline EXCEPT ![t] = d]
        BY <2>2 DEF LockQueue, PublishNode, AcquireNode, nodeVars, trackVars
      <3>2. ~tracked[t]
        BY <3>1 DEF TrackInv, WaitPcs, SetupPcs, ParkPcs, DonePcs
      <3> QED BY <3>1, <3>2 DEF WaitKept, TypeOK, WaitTypeOK
    <2>3. CASE ~LockReturn(t) /\ ~LockQueue(t)
      <3>1. UNCHANGED <<gen, tracked, deadline>>
        BY <2>3, Zenon DEF MutexStep, TryLock, LockSlow, Unlock, WakeReturn, nodeVars, trackVars
      <3> QED BY <3>1, NothingWaits
    <2> QED BY <2>1, <2>2, <2>3
  <1> QED BY <1>2, <1>3, <1>4, TimerKept

-----------------------------------------------------------------------------
(* The theorems. *)

\* Every step of the system keeps the timer invariant.
LEMMA TimerStepInv ==
  ASSUME TypeOK, TypeOK', WaitInv, TrackInv, TimerInv, [Next]_vars
  PROVE  TimerInv'
  <1>1. CASE UNCHANGED vars
    BY <1>1 DEF vars, waitVars, TimerInv
  <1>2. CASE Next
    BY <1>2, TimerMutex, TimerWaiter, TimerActor, TimerSource DEF Next, WaitNext
  <1> QED BY <1>1, <1>2

\* In every reachable state a timer record, armed in the heap or popped by the
\* timer thread, that carries the generation of a published wait was armed by
\* the call that waits.
THEOREM TimerInvariant == Spec => []TimerInv
  <1>1. Init => TimerInv
    BY DEF Init, WaitInit, TimerInv, Actors
  <1>2. MutexInv /\ MutexInv' /\ TimerInv /\ [Next]_vars => TimerInv'
    BY TimerStepInv DEF MutexInv
  <1> QED BY <1>1, <1>2, MutexInvariant, PTL DEF Spec

\* A node learns ETIMEDOUT from a record of its own wait, or not at all.
LEMMA TimeoutStep ==
  ASSUME TypeOK, WaitInv, TimerInv, NoForeignTimeout, [Next]_vars
  PROVE  NoForeignTimeout'
  <1> DEFINE Kept == \A u \in Tasks : err'[u] = "ETIMEDOUT" =>
                        err[u] = "ETIMEDOUT" /\ deadline'[u] = deadline[u]
  <1>1. Kept => NoForeignTimeout'
    BY DEF NoForeignTimeout
  <1>2. ASSUME UNCHANGED deadline, NEW u, NEW e, e # "ETIMEDOUT",
               UNCHANGED err \/ err' = [err EXCEPT ![u] = e]
        PROVE  Kept
    BY <1>2 DEF TypeOK, WaitTypeOK
  <1>3. ASSUME NEW t \in Tasks, LockQueue(t) \/ LockReturn(t) PROVE Kept
    <2>1. \/ UNCHANGED <<err, deadline>>
          \/ /\ err' = [err EXCEPT ![t] = "OK"]
             /\ \E d : deadline' = [deadline EXCEPT ![t] = d]
      BY <1>3 DEF LockQueue, LockReturn, LeaveWait, PublishNode, AcquireNode, nodeVars
    <2> QED BY <2>1 DEF TypeOK, WaitTypeOK
  <1>4. ASSUME NEW t \in Tasks, MutexStep(t), ~LockQueue(t), ~LockReturn(t) PROVE Kept
    <2>1. UNCHANGED deadline /\ (UNCHANGED err \/ err' = [err EXCEPT ![Head(waitq[MQ])] = "OK"])
      BY <1>4, Zenon DEF MutexStep, TryLock, LockSlow, Unlock, WakeReturn, nodeVars
    <2> QED BY <1>2, <2>1
  <1>5. ASSUME NEW t \in Tasks, WaiterStep(t) \/ Dispatch(t) PROVE Kept
    <2>1. CASE Undo(t)
      <3>1. /\ UNCHANGED deadline
            /\ UNCHANGED err \/ \E e \in {"ENOMEM", "ECANCELED"} : err' = [err EXCEPT ![t] = e]
        BY <2>1 DEF Undo
      <3> QED BY <1>2, <3>1
    <2>2. CASE ~Undo(t)
      <3>1. UNCHANGED <<err, deadline>>
        BY <1>5, <2>2, Zenon DEF WaiterStep, SetTracking, ArmDeadline, Register, ShouldPark, Park,
                                 Cleanup, Dispatch, nodeVars
      <3> QED BY <3>1
    <2> QED BY <2>1, <2>2
  <1>6. ASSUME NEW a \in Actors, ActorStep(a) PROVE Kept
    <2>1. UNCHANGED deadline /\ (UNCHANGED err \/ err' = [err EXCEPT ![tgt[a]] = "ECANCELED"])
      BY <1>6, Zenon DEF ActorStep, Begin, CancelRemove, ResolverEnd, PrepareWake, StoreCompleted,
                         Reinject, Requeue, Handoff, nodeVars
    <2> QED BY <1>2, <2>1
  <1>7. CASE TimeoutRemove
    <2> DEFINE t == tgt[TimerM]
    <2>1. CASE UNCHANGED err
      BY <1>7, <2>1 DEF TimeoutRemove, NoForeignTimeout
    <2>2. CASE ~UNCHANGED err
      <3>1. /\ apc[TimerM] = "tremove" /\ gen[t] = agen[TimerM] /\ tracked[t]
            /\ err' = [err EXCEPT ![t] = "ETIMEDOUT"] /\ UNCHANGED deadline
        BY <1>7, <2>2 DEF TimeoutRemove
      <3>2. deadline[t]
        BY <3>1 DEF TimerInv
      <3>3. \A u \in Tasks : u # t => err'[u] = err[u]
        BY <3>1 DEF TypeOK, WaitTypeOK
      <3> QED BY <3>1, <3>2, <3>3 DEF NoForeignTimeout
    <2> QED BY <2>1, <2>2
  <1>8. ASSUME \/ \E t \in Tasks : PopTimer(t) \/ Deliver(t) \/ CancelParked(t)
               \/ TimeoutCheck \/ CancelToken \/ RequestStop \/ CollectParked
        PROVE  Kept
    <2>1. UNCHANGED <<err, deadline>>
      BY <1>8, Zenon DEF PopTimer, Deliver, CancelParked, TimeoutCheck, CancelToken, RequestStop,
                         CollectParked, nodeVars
    <2> QED BY <2>1
  <1>9. CASE UNCHANGED vars
    BY <1>9 DEF vars, waitVars, NoForeignTimeout
  <1> HIDE DEF Kept
  <1> QED BY <1>1, <1>3, <1>4, <1>5, <1>6, <1>7, <1>8, <1>9 DEF Next, WaitNext

\* A timeout reaches only the call that asked for a deadline: the generation in
\* the timer record fences a record that was popped for an earlier wait.
THEOREM TimeoutsOwn == Spec => []NoForeignTimeout
  <1>1. Init => NoForeignTimeout
    BY DEF Init, WaitInit, NoForeignTimeout
  <1>2. MutexInv /\ TimerInv /\ NoForeignTimeout /\ [Next]_vars => NoForeignTimeout'
    BY TimeoutStep DEF MutexInv
  <1> QED BY <1>1, <1>2, MutexInvariant, TimerInvariant, PTL DEF Spec
====
