------------------------------- MODULE MutexProofs -------------------------------
(***************************************************************************)
(* Ownership of the mutex through every step, and the theorems, for any    *)
(* tasks, queues and number of waits.                                      *)
(***************************************************************************)
EXTENDS WaitActions

\* A step of the wait machinery moves a task within its wait, or between two
\* control points outside.
LEMMA WaitNextPc ==
  ASSUME TypeOK, WaitInv, WaitNext, NEW u \in Tasks
  PROVE  /\ pc[u] \in WaitPcs \cup DonePcs <=> pc'[u] \in WaitPcs \cup DonePcs
         /\ pc[u] \in InPcs <=> pc'[u] \in InPcs
  <1> DEFINE Keeps == /\ pc[u] \in WaitPcs \cup DonePcs <=> pc'[u] \in WaitPcs \cup DonePcs
                      /\ pc[u] \in InPcs <=> pc'[u] \in InPcs
  <1> USE DEF WaitPcs, SetupPcs, ParkPcs, DonePcs, InPcs
  <1>1. pc \in [Tasks -> {"slow"} \cup OutPcs \cup InPcs \cup WaitPcs \cup DonePcs]
    BY DEF TypeOK, WaitTypeOK
  <1>2. CASE UNCHANGED pc
    BY <1>2
  <1>3. ASSUME NEW t \in Tasks, WaiterStep(t) PROVE Keeps
    <2>1. \E p \in WaitPcs \cup DonePcs : pc' = [pc EXCEPT ![t] = p]
      BY <1>3 DEF WaiterStep, SetTracking, ArmDeadline, Register, SetupFailed, Undo,
                  ShouldPark, Park, Cleanup
    <2>2. pc[t] \in WaitPcs \cup DonePcs
      BY <1>3 DEF WaiterStep, SetTracking, ArmDeadline, Register, Undo, ShouldPark, Park, Cleanup
    <2> QED BY <1>1, <2>1, <2>2
  <1>4. ASSUME NEW t \in Tasks, Dispatch(t) PROVE Keeps
    BY <1>1, <1>4 DEF Dispatch, SwitchedOut
  <1>5. ASSUME NEW a \in Actors, Handoff(a) PROVE Keeps
    <2>1. a \in Tasks /\ tgt[a] \in Tasks /\ pc[tgt[a]] = "parked" /\ pc[a] \in {"waking", "waking_in"}
      BY <1>5, ActorTarget DEF Handoff, SwitchedOut
    <2>2. CASE pc[a] = "waking"
      BY <1>1, <1>5, <2>1, <2>2 DEF Handoff
    <2>3. CASE pc[a] = "waking_in"
      BY <1>1, <1>5, <2>1, <2>3 DEF Handoff
    <2> QED BY <2>1, <2>2, <2>3
  <1>6. ASSUME NEW a \in Actors, ActorStep(a), ~Handoff(a) PROVE UNCHANGED pc
    BY <1>6 DEF ActorStep, Begin, CancelRemove, ResolverEnd, PrepareWake, StoreCompleted,
                Reinject, Requeue
  <1>7. ASSUME NEW t \in Tasks, PopTimer(t) \/ Deliver(t) \/ CancelParked(t) PROVE UNCHANGED pc
    BY <1>7, Zenon DEF PopTimer, Deliver, CancelParked
  <1>8. ASSUME TimeoutCheck \/ TimeoutRemove \/ CancelToken \/ RequestStop \/ CollectParked
        PROVE  UNCHANGED pc
    BY <1>8 DEF TimeoutCheck, TimeoutRemove, CancelToken, RequestStop, CollectParked
  <1> HIDE DEF WaitPcs, SetupPcs, ParkPcs, DonePcs, InPcs
  <1> QED BY <1>2, <1>3, <1>4, <1>5, <1>6, <1>7, <1>8 DEF WaitNext

\* It publishes owner fields only for a queued wait.
LEMMA WaitNextTracked ==
  ASSUME TypeOK, WaitInv, WaitNext, NEW u \in Tasks, tracked'[u]
  PROVE  tracked[u] \/ pc[u] = "queued"
  <1>1. tracked \in [Tasks -> BOOLEAN]
    BY DEF TypeOK, WaitTypeOK
  <1>2. CASE UNCHANGED tracked
    BY <1>2
  <1>3. ASSUME NEW t \in Tasks, SetTracking(t) PROVE tracked[u] \/ pc[u] = "queued"
    BY <1>1, <1>3 DEF SetTracking
  <1>4. ASSUME NEW t \in Tasks, tracked' = [tracked EXCEPT ![t] = FALSE]
        PROVE  tracked[u]
    BY <1>1, <1>4
  <1>5. ASSUME NEW a \in Actors, Requeue(a) \/ Handoff(a)
        PROVE  tgt[a] \in Tasks /\ tracked' = [tracked EXCEPT ![tgt[a]] = FALSE]
    BY <1>5, ActorTarget DEF Requeue, Handoff
  <1>6. ASSUME NEW t \in Tasks, WaiterStep(t) \/ Dispatch(t), ~SetTracking(t) PROVE UNCHANGED tracked
    BY <1>6 DEF WaiterStep, ArmDeadline, Register, Undo, ShouldPark, Park, Cleanup, Dispatch, trackVars
  <1>7. ASSUME NEW a \in Actors, ActorStep(a), ~Requeue(a), ~Handoff(a) PROVE UNCHANGED tracked
    BY <1>7, Zenon DEF ActorStep, Begin, CancelRemove, ResolverEnd, PrepareWake, StoreCompleted,
                Reinject, trackVars
  <1>8. ASSUME NEW t \in Tasks, PopTimer(t) \/ Deliver(t) \/ CancelParked(t) PROVE UNCHANGED tracked
    BY <1>8, Zenon DEF PopTimer, Deliver, CancelParked, trackVars
  <1>9. ASSUME TimeoutCheck \/ TimeoutRemove \/ CancelToken \/ RequestStop \/ CollectParked
        PROVE  UNCHANGED tracked
    BY <1>9, Zenon DEF TimeoutCheck, TimeoutRemove, CancelToken, RequestStop, CollectParked, trackVars
  <1> QED BY <1>2, <1>3, <1>4, <1>5, <1>6, <1>7, <1>8, <1>9 DEF WaitNext

\* Wait owner fields stay published only while a wait is under way.
LEMMA TrackStep ==
  ASSUME TypeOK, WaitInv, TrackInv, Next
  PROVE  TrackInv'
  <1>1. CASE WaitNext
    <2> SUFFICES ASSUME NEW u \in Tasks, tracked'[u] PROVE pc'[u] \in WaitPcs \cup DonePcs
      BY DEF TrackInv
    <2>1. tracked[u] \/ pc[u] = "queued"
      BY <1>1, WaitNextTracked
    <2>2. pc[u] \in WaitPcs \cup DonePcs
      BY <2>1, PcFacts DEF TrackInv, WaitPcs
    <2> QED BY <1>1, <2>2, WaitNextPc
  <1>2. ASSUME NEW t \in Tasks, LockReturn(t) PROVE TrackInv'
    <2>1. tracked' = [tracked EXCEPT ![t] = FALSE] /\ \E p : pc' = [pc EXCEPT ![t] = p]
      BY <1>2, Zenon DEF LockReturn, LeaveWait
    <2>2. pc \in [Tasks -> {"slow"} \cup OutPcs \cup InPcs \cup WaitPcs \cup DonePcs]
          /\ tracked \in [Tasks -> BOOLEAN]
      BY DEF TypeOK, WaitTypeOK
    <2> QED BY <2>1, <2>2 DEF TrackInv
  <1>3. ASSUME NEW t \in Tasks, MutexStep(t), ~LockReturn(t) PROVE TrackInv'
    <2>1. /\ UNCHANGED tracked /\ AtRest(pc[t]) /\ pc[t] \notin DonePcs
          /\ \E p : pc' = [pc EXCEPT ![t] = p]
      BY <1>3, PcFacts, Zenon DEF MutexStep, TryLock, LockSlow, LockQueue, PublishNode, Unlock,
                           WakeReturn, trackVars
    <2>2. pc \in [Tasks -> {"slow"} \cup OutPcs \cup InPcs \cup WaitPcs \cup DonePcs]
      BY DEF TypeOK, WaitTypeOK
    <2>3. ~tracked[t]
      BY <2>1 DEF TrackInv, AtRest
    <2> QED BY <2>1, <2>2, <2>3 DEF TrackInv
  <1> QED BY <1>1, <1>2, <1>3 DEF Next

\* Removing a node from a queue takes no grant away and gives none.
LEMMA WaitNextGranted ==
  ASSUME TypeOK, WaitInv, TrackInv, WaitNext
  PROVE  /\ \A u \in Tasks : Granted(u)' <=> Granted(u)
         /\ waitq'[MQ] # <<>> => waitq[MQ] # <<>>
  <1> DEFINE Goal == /\ \A u \in Tasks : Granted(u)' <=> Granted(u)
                     /\ waitq'[MQ] # <<>> => waitq[MQ] # <<>>
  <1>1. \A u \in Tasks : pc[u] \in WaitPcs \cup DonePcs <=> pc'[u] \in WaitPcs \cup DonePcs
    BY WaitNextPc
  <1>2. ASSUME UNCHANGED <<waitq, err, on>> PROVE Goal
    BY <1>1, <1>2 DEF Granted, Linked
  <1>3. ASSUME NEW t \in Tasks, on[t] \in Queues, Unlink(on[t], t),
               NEW e \in Errors \ {"OK"}, err' = [err EXCEPT ![t] = e], UNCHANGED on
        PROVE  Goal
    <2>1. waitq \in [Queues -> Seq(Tasks)] /\ \A r \in Queues : NoDuplicates(waitq[r])
      BY DEF TypeOK, WaitTypeOK, WaitInv, QueueInv
    <2>2. /\ Linked(on[t], t)
          /\ \A r \in Queues : \A v : Linked(r, v)' <=> Linked(r, v) /\ ~(r = on[t] /\ v = t)
      BY <1>3, <2>1, LinkedUnlink
    <2>3. err'[t] # "OK" /\ \A v \in Tasks \ {t} : err'[v] = err[v]
      BY <1>3 DEF TypeOK, WaitTypeOK
    <2>4. \A u \in Tasks : Granted(u)' <=> Granted(u)
      BY <1>1, <1>3, <2>2, <2>3, MutexAssumption DEF Granted
    <2>5. waitq'[MQ] # <<>> => waitq[MQ] # <<>>
      <3>1. CASE on[t] # MQ
        BY <1>3, <2>1, <3>1 DEF Unlink
      <3>2. CASE on[t] = MQ
        BY <2>2, <3>2 DEF Linked
      <3> QED BY <3>1, <3>2
    <2> QED BY <2>4, <2>5
  <1>4. ASSUME NEW t \in Tasks, Undo(t) PROVE Goal
    <2>1. on[t] \in Queues
      BY <1>4, PcFacts DEF Undo, WaitInv, ArmInv, WaitPcs
    <2>2. CASE UNCHANGED <<waitq, err>>
      BY <1>2, <1>4, <2>2 DEF Undo
    <2>3. CASE Unlink(on[t], t)
               /\ err' = [err EXCEPT ![t] = IF pc[t] = "undo_arm" THEN "ENOMEM" ELSE "ECANCELED"]
      <3> DEFINE e == IF pc[t] = "undo_arm" THEN "ENOMEM" ELSE "ECANCELED"
      <3>1. e \in Errors \ {"OK"}
        BY DEF Errors
      <3>2. err' = [err EXCEPT ![t] = e]
        BY <2>3
      <3> HIDE DEF e
      <3>3. UNCHANGED on
        BY <1>4, Zenon DEF Undo
      <3> QED BY <1>3, <2>1, <2>3, <3>1, <3>2, <3>3, Zenon
    <2> QED BY <1>4, <2>2, <2>3 DEF Undo
  <1>5. ASSUME NEW a \in Actors, CancelRemove(a) PROVE Goal
    <2>1. tgt[a] \in Tasks /\ (tracked[tgt[a]] => on[tgt[a]] \in Queues)
      BY <1>5, ActorTarget DEF CancelRemove, TrackInv, WaitInv, ArmInv
    <2> QED BY <1>2, <1>3, <1>5, <2>1 DEF CancelRemove, Errors
  <1>6. ASSUME TimeoutRemove PROVE Goal
    <2>1. tgt[TimerM] \in Tasks /\ (tracked[tgt[TimerM]] => on[tgt[TimerM]] \in Queues)
      BY <1>6, ActorTarget DEF TimeoutRemove, Actors, TrackInv, WaitInv, ArmInv
    <2> QED BY <1>2, <1>3, <1>6, <2>1 DEF TimeoutRemove, Errors
  <1>7. ASSUME NEW t \in Tasks, WaiterStep(t) \/ Dispatch(t), ~Undo(t) PROVE UNCHANGED <<waitq, err, on>>
    BY <1>7, Zenon DEF WaiterStep, SetTracking, ArmDeadline, Register, ShouldPark, Park, Cleanup,
                Dispatch, nodeVars
  <1>8. ASSUME NEW a \in Actors, ActorStep(a), ~CancelRemove(a) PROVE UNCHANGED <<waitq, err, on>>
    BY <1>8, Zenon DEF ActorStep, Begin, ResolverEnd, PrepareWake, StoreCompleted, Reinject, Requeue,
                Handoff, nodeVars
  <1>9. ASSUME NEW t \in Tasks, PopTimer(t) \/ Deliver(t) \/ CancelParked(t)
        PROVE  UNCHANGED <<waitq, err, on>>
    BY <1>9 DEF PopTimer, Deliver, CancelParked, nodeVars
  <1>10. ASSUME TimeoutCheck \/ CancelToken \/ RequestStop \/ CollectParked
         PROVE  UNCHANGED <<waitq, err, on>>
    BY <1>10 DEF TimeoutCheck, CancelToken, RequestStop, CollectParked, nodeVars
  <1> HIDE DEF Goal
  <1>11. Goal
    BY <1>2, <1>4, <1>5, <1>6, <1>7, <1>8, <1>9, <1>10 DEF WaitNext
  <1> QED BY <1>11 DEF Goal

\* Ownership, through every step of the mutex and of the wait machinery.
LEMMA OwnerStep ==
  ASSUME TypeOK, WaitInv, TrackInv, OwnerExact, QueueHasOwner, Next
  PROVE  OwnerExact' /\ QueueHasOwner'
  <1> USE MutexAssumption, WaitAssumption
  <1>1. /\ pc \in [Tasks -> {"slow"} \cup OutPcs \cup InPcs \cup WaitPcs \cup DonePcs]
        /\ \A r \in Queues : NoDuplicates(waitq[r])
        /\ waitq \in [Queues -> Seq(Tasks)]
    BY DEF TypeOK, WaitTypeOK, WaitInv, QueueInv
  <1>2. {"idle", "slow", "waking", "drain", "queued"} \cap InPcs = {} /\ "crit" \in InPcs
        /\ {"idle", "slow", "crit", "waking", "waking_in"} \cap (WaitPcs \cup DonePcs) = {}
    BY DEF InPcs, WaitPcs, SetupPcs, ParkPcs, DonePcs
  <1>3. CASE WaitNext /\ UNCHANGED owner
    <2>1. \A u \in Tasks : Granted(u)' <=> Granted(u)
      BY <1>3, WaitNextGranted
    <2>2. \A u \in Tasks : pc'[u] \in InPcs <=> pc[u] \in InPcs
      BY <1>3, WaitNextPc
    <2>3. OwnerExact'
      BY <1>3, <2>1, <2>2 DEF OwnerExact
    <2>5. QueueHasOwner'
      BY <1>3, WaitNextGranted DEF QueueHasOwner
    <2> QED BY <2>3, <2>5
  <1>4. ASSUME NEW t \in Tasks, TryLock(t) PROVE OwnerExact' /\ QueueHasOwner'
    <2>1. \A u \in Tasks : Granted(u)' <=> Granted(u) /\ u # t
      BY <1>1, <1>2, <1>4 DEF TryLock, Granted, Linked, nodeVars
    <2> QED BY <1>1, <1>2, <1>4, <2>1 DEF TryLock, OwnerExact, QueueHasOwner
  <1>5. ASSUME NEW t \in Tasks, LockSlow(t) PROVE OwnerExact' /\ QueueHasOwner'
    <2>1. \A u \in Tasks : Granted(u)' <=> Granted(u)
      BY <1>1, <1>2, <1>5 DEF LockSlow, Granted, Linked, nodeVars
    <2> QED BY <1>1, <1>2, <1>5, <2>1 DEF LockSlow, OwnerExact, QueueHasOwner
  <1>6. ASSUME NEW t \in Tasks, LockQueue(t) PROVE OwnerExact' /\ QueueHasOwner'
    <2>1. CASE owner = None
      <3>1. \A u \in Tasks : Granted(u)' <=> Granted(u) /\ u # t
        BY <1>1, <1>2, <1>6, <2>1 DEF LockQueue, Granted, Linked, nodeVars
      <3> QED BY <1>1, <1>2, <1>6, <2>1, <3>1 DEF LockQueue, OwnerExact, QueueHasOwner
    <2>2. CASE owner # None
      <3>1. \E d \in BOOLEAN : PublishNode(t, MQ, FALSE, d)
        BY <1>6, <2>2, Zenon DEF LockQueue
      <3>2. ~Linked(MQ, t)
        BY <1>2, <1>6 DEF LockQueue, WaitInv, QueueInv
      <3>3. \A r \in Queues : \A u : Linked(r, u)' <=> Linked(r, u) \/ (r = MQ /\ u = t)
        BY <1>1, <3>1, <3>2, LinkedAppend, Zenon DEF PublishNode
      <3>4. \A u \in Tasks \ {t} : pc'[u] = pc[u] /\ on'[u] = on[u] /\ err'[u] = err[u]
        BY <3>1 DEF PublishNode, AcquireNode, TypeOK, WaitTypeOK
      <3>5. \A u \in Tasks : Granted(u)' <=> Granted(u)
        BY <1>2, <1>6, <3>3, <3>4 DEF LockQueue, Granted
      <3>6. pc'[t] = "queued" /\ owner' = owner
        BY <1>1, <1>6, <2>2, <3>1, Zenon DEF LockQueue, PublishNode
      <3>7. pc[t] = "slow"
        BY <1>6 DEF LockQueue
      <3> QED BY <1>2, <2>2, <3>4, <3>5, <3>6, <3>7 DEF OwnerExact, QueueHasOwner
    <2> QED BY <2>1, <2>2
  <1>7. ASSUME NEW t \in Tasks, LockReturn(t) PROVE OwnerExact' /\ QueueHasOwner'
    <2>1. /\ pc[t] = "drain" /\ on[t] = MQ /\ UNCHANGED <<waitq, owner>>
          /\ \A u \in Tasks \ {t} : pc'[u] = pc[u] /\ on'[u] = on[u] /\ err'[u] = err[u]
      BY <1>7 DEF LockReturn, LeaveWait, TypeOK, WaitTypeOK
    <2>2. Granted(t) <=> err[t] = "OK"
      BY <2>1 DEF Granted, WaitInv, QueueInv, DonePcs, WaitPcs, SetupPcs, ParkPcs
    <2>3. \A u \in Tasks \ {t} : Granted(u)' <=> Granted(u)
      BY <2>1 DEF Granted, Linked
    <2>4. CASE err[t] = "OK"
      <3>1. pc'[t] = "crit"
        BY <1>1, <1>7, <2>4 DEF LockReturn
      <3> QED BY <1>2, <2>1, <2>2, <2>3, <2>4, <3>1 DEF OwnerExact, QueueHasOwner
    <2>5. CASE err[t] # "OK"
      <3>1. pc'[t] = "idle"
        BY <1>1, <1>7, <2>5 DEF LockReturn
      <3>2. ~Granted(t)'
        BY <1>2, <3>1 DEF Granted
      <3> QED BY <1>2, <2>1, <2>2, <2>3, <2>5, <3>1, <3>2 DEF OwnerExact, QueueHasOwner
    <2> QED BY <2>4, <2>5
  <1>8. ASSUME NEW t \in Tasks, Unlock(t) PROVE OwnerExact' /\ QueueHasOwner'
    <2>1. pc[t] = "crit" /\ owner = t /\ \A u \in Tasks \ {t} : ~Granted(u) /\ pc[u] \notin InPcs
      BY <1>8 DEF Unlock, OwnerExact
    <2>2. CASE waitq[MQ] = <<>>
      <3>1. UNCHANGED <<waitq, err, on>> /\ pc' = [pc EXCEPT ![t] = "idle"] /\ owner' = None
        BY <1>8, <2>2, Zenon DEF Unlock
      <3>2. \A u \in Tasks : ~Granted(u)'
        BY <1>1, <1>2, <2>1, <3>1 DEF Granted, Linked
      <3> QED BY <1>1, <1>2, <2>1, <2>2, <3>1, <3>2 DEF OwnerExact, QueueHasOwner
    <2>3. CASE waitq[MQ] # <<>>
      <3> DEFINE h == Head(waitq[MQ])
      <3>1. /\ waitq' = [waitq EXCEPT ![MQ] = Tail(waitq[MQ])] /\ owner' = h /\ on' = on
            /\ pc' = [pc EXCEPT ![t] = "waking"] /\ err' = [err EXCEPT ![h] = "OK"]
        BY <1>8, <2>3, Zenon DEF Unlock
      <3>2. /\ h \in Tasks /\ Linked(MQ, h)
            /\ \A r \in Queues : \A u : Linked(r, u)' <=> Linked(r, u) /\ ~(r = MQ /\ u = h)
        BY <1>1, <2>3, <3>1, LinkedTail, Zenon
      <3> HIDE DEF h
      <3>3. pc[h] \in WaitPcs /\ on[h] = MQ /\ h # t
        BY <1>2, <2>1, <3>2 DEF WaitInv, QueueInv
      <3>4. err'[h] = "OK" /\ \A u \in Tasks \ {h} : err'[u] = err[u]
        BY <3>1, <3>2 DEF TypeOK, WaitTypeOK
      <3>5. pc'[t] = "waking" /\ \A u \in Tasks \ {t} : pc'[u] = pc[u]
        BY <1>1, <3>1
      <3>6. \A u \in Tasks : Granted(u)' <=> u = h
        BY <1>2, <2>1, <3>1, <3>2, <3>3, <3>4, <3>5, Zenon DEF Granted
      <3>7. \A u \in Tasks : pc'[u] \notin InPcs
        BY <1>2, <2>1, <3>5
      <3>8. owner' # None
        BY <3>1, <3>2
      <3> QED BY <3>1, <3>6, <3>7, <3>8 DEF OwnerExact, QueueHasOwner
    <2> QED BY <2>2, <2>3
  <1>9. ASSUME NEW t \in Tasks, WakeReturn(t) PROVE OwnerExact' /\ QueueHasOwner'
    <2>1. UNCHANGED <<waitq, err, on, owner>>
      BY <1>9 DEF WakeReturn, nodeVars
    <2>2. \/ pc[t] = "waking" /\ pc' = [pc EXCEPT ![t] = "idle"]
          \/ pc[t] = "waking_in" /\ pc' = [pc EXCEPT ![t] = "crit"]
      BY <1>9, Zenon DEF WakeReturn
    <2>3. \A u \in Tasks : Granted(u)' <=> Granted(u)
      BY <1>1, <1>2, <2>1, <2>2, Zenon DEF Granted, Linked
    <2>4. \A u \in Tasks : pc'[u] \in InPcs <=> pc[u] \in InPcs
      BY <1>1, <2>2 DEF InPcs
    <2> QED BY <2>1, <2>3, <2>4 DEF OwnerExact, QueueHasOwner
  <1> QED BY <1>3, <1>4, <1>5, <1>6, <1>7, <1>8, <1>9 DEF Next, MutexStep

\* The wait invariants hold through every step.
LEMMA WaitStep ==
  ASSUME TypeOK, WaitInv, TrackInv, Next
  PROVE  WaitInv'
  <1>1. CASE WaitNext
    BY <1>1, WaiterStepInv, ActorStepInv, SourceStepInv DEF WaitNext
  <1> QED BY <1>1, MutexStepInv DEF Next

\* An idle runtime with an unlocked mutex satisfies the invariant.
LEMMA InitMutexInv == Init => MutexInv
  <1> SUFFICES ASSUME Init PROVE MutexInv
    OBVIOUS
  <1> USE WaitAssumption, MutexAssumption
  <1>1. TypeOK
    <2>1. /\ pc \in PcFun /\ waitq \in [Queues -> Seq(Tasks)] /\ runq \in [Tasks -> Nat]
          /\ owner \in Tasks \cup {None}
      BY DEF Init, WaitInit, PcFun, OutPcs
    <2>2. /\ armed \in ArmFun /\ completed \in [Tasks -> BOOLEAN] /\ err \in [Tasks -> Errors]
          /\ unint \in [Tasks -> BOOLEAN] /\ on \in [Tasks -> Queues \cup {None}]
          /\ deadline \in [Tasks -> BOOLEAN]
      BY DEF Init, WaitInit, ArmFun, Errors
    <2>3. /\ tracked \in [Tasks -> BOOLEAN] /\ closed \in [Tasks -> BOOLEAN]
          /\ refs \in [Tasks -> SUBSET Actors] /\ gen \in [Tasks -> Nat] /\ state \in StateFun
      BY DEF Init, WaitInit, StateFun
    <2>4. /\ timer \in [Tasks -> Nat] /\ link \in LinkFun /\ linkgen \in [Tasks -> Nat]
          /\ cancelled \in BOOLEAN /\ stop \in BOOLEAN /\ scan \in SUBSET Tasks
      BY Zenon DEF Init, WaitInit, LinkFun
    <2>5. /\ apc \in [Actors -> ActorPcs] /\ tgt \in [Actors -> Tasks \cup {None}]
          /\ agen \in [Actors -> Nat]
      BY DEF Init, WaitInit, ActorPcs
    <2> QED BY <2>1, <2>2, <2>3, <2>4, <2>5
            DEF TypeOK, WaitTypeOK, PcFun, ArmFun, StateFun, LinkFun
  <1>2. /\ \A t \in Tasks : pc[t] = "idle" /\ runq[t] = 0 /\ ~tracked[t]
        /\ \A a \in Actors : apc[a] = "off"
        /\ \A q \in Queues, t \in Tasks : ~Linked(q, t)
        /\ \A q \in Queues : waitq[q] = <<>>
        /\ owner = None
    BY DEF Init, WaitInit, Linked
  <1>3. "idle" \notin InPcs \cup YieldPcs \cup WaitPcs \cup DonePcs \cup SetupPcs \cup ParkPcs
    BY DEF InPcs, YieldPcs, WaitPcs, SetupPcs, ParkPcs, DonePcs
  <1>4. "off" \notin HoldPcs \cup RequeuePcs
    BY DEF HoldPcs, RequeuePcs
  <1>5. WaitInv
    <2>1. QueueInv
      BY <1>2 DEF QueueInv, NoDuplicates
    <2>2. ArmInv /\ ActorInv
      BY <1>2, <1>3 DEF ArmInv, ActorInv, Actors
    <2>3. HoldInv /\ CoverInv
      BY <1>2, <1>3, <1>4 DEF HoldInv, CoverInv
    <2>4. RequeueInv /\ RunqInv
      BY <1>2, <1>3, <1>4 DEF RequeueInv, RunqInv
    <2> QED BY <2>1, <2>2, <2>3, <2>4 DEF WaitInv
  <1>6. TrackInv /\ OwnerExact /\ QueueHasOwner
    BY <1>2, <1>3 DEF TrackInv, OwnerExact, Granted, QueueHasOwner
  <1> QED BY <1>1, <1>5, <1>6 DEF MutexInv

\* Every reachable state of the mutex satisfies the inductive invariant: each
\* queued node belongs to one unresolved wait, each unresolved wait is queued or
\* held by one resolver, each completed parked waiter is requeued by one actor,
\* and ownership is exact.  From any number of tasks, queues and waits.
THEOREM MutexInvariant == Spec => []MutexInv
  <1>1. MutexInv /\ [Next]_vars => MutexInv'
    <2> SUFFICES ASSUME MutexInv, [Next]_vars PROVE MutexInv'
      OBVIOUS
    <2>1. CASE Next
      <3>1. TypeOK'
        BY <2>1, TypeStep DEF MutexInv, WaitInv
      <3>2. WaitInv'
        BY <2>1, WaitStep DEF MutexInv
      <3>3. TrackInv'
        BY <2>1, TrackStep DEF MutexInv
      <3>4. OwnerExact' /\ QueueHasOwner'
        BY <2>1, OwnerStep DEF MutexInv
      <3> QED BY <3>1, <3>2, <3>3, <3>4 DEF MutexInv
    <2>2. CASE UNCHANGED vars
      <3>1. UNCHANGED <<pc, waitq, armed, completed, err, unint, on, deadline, tracked,
                        closed, refs, gen, state, timer, link, linkgen, cancelled, stop,
                        scan, runq, apc, tgt, agen, owner>>
        BY <2>2 DEF vars, waitVars
      <3>2. TypeOK'
        BY <3>1 DEF MutexInv, TypeOK, WaitTypeOK
      <3>3. QueueInv' /\ ArmInv' /\ ActorInv' /\ HoldInv'
        BY <3>1 DEF MutexInv, WaitInv, QueueInv, ArmInv, ActorInv, HoldInv, Linked
      <3>4. CoverInv' /\ RequeueInv' /\ RunqInv' /\ TrackInv'
        BY <3>1 DEF MutexInv, WaitInv, CoverInv, RequeueInv, RunqInv, TrackInv, Linked
      <3>5. OwnerExact' /\ QueueHasOwner'
        BY <3>1, Zenon DEF MutexInv, OwnerExact, QueueHasOwner, Granted, Linked
      <3> QED BY <3>2, <3>3, <3>4, <3>5 DEF MutexInv, WaitInv
    <2> QED BY <2>1, <2>2
  <1> QED BY <1>1, InitMutexInv, PTL DEF Spec

\* The fields of tasks, nodes and actors keep the values of the enums and
\* counters of the C structures through every step of a lock, unlock, timeout,
\* cancellation and stop.
THEOREM TypeCorrect == Spec => []TypeOK
  <1>1. MutexInv => TypeOK
    BY DEF MutexInv
  <1> QED BY <1>1, MutexInvariant, PTL

\* llam_mutex_unlock hands the mutex to a waiter it popped before that waiter
\* runs: at every moment the recorded owner is exactly the task that is in its
\* critical section or has been granted the lock, so two tasks never hold it and
\* no timeout or cancellation leaves it with a task that will not unlock it.
THEOREM OwnershipExact == Spec => []OwnerExact
  <1>1. MutexInv => OwnerExact
    BY DEF MutexInv
  <1> QED BY <1>1, MutexInvariant, PTL

\* A mutex with queued waiters has an owner, whose unlock will serve them: no
\* order of enqueue, unlock, timeout and cancellation strands the queue.
THEOREM WaitersServed == Spec => []QueueHasOwner
  <1>1. MutexInv => QueueHasOwner
    BY DEF MutexInv
  <1> QED BY <1>1, MutexInvariant, PTL

\* A wait is resolved by one party: the waker, the timer, the token and the stop
\* scan never both unlink or complete the same node (llam_wait_queue_remove and
\* llam_wait_node_prepare_wake).
THEOREM OneResolver == Spec => []ResolvedOnce
  <1>1. MutexInv => ResolvedOnce
    <2> SUFFICES ASSUME MutexInv, NEW t \in Tasks, pc[t] \in WaitPcs
                 PROVE  LET inq == {q \in Queues : Linked(q, t)} IN
                        IF armed[t] \in {"UNARMED", "ARMED"}
                        THEN \/ inq = {on[t]} /\ Holders(t) = {}
                             \/ inq = {} /\ \E a \in Actors : Holders(t) = {a}
                        ELSE inq = {} /\ Holders(t) = {}
      BY DEF ResolvedOnce, ResolvedOnceBy
    <2> DEFINE inq == {q \in Queues : Linked(q, t)}
    <2>1. on[t] \in Queues /\ \A q \in Queues : Linked(q, t) => on[t] = q /\ armed[t] \in Pending
      BY DEF MutexInv, WaitInv, ArmInv, QueueInv
    <2>2. \A a \in Holders(t) : armed[t] \in Pending /\ inq = {}
      BY DEF MutexInv, WaitInv, HoldInv, Holders
    <2>3. \A a, b \in Holders(t) : a = b
      BY DEF MutexInv, WaitInv, HoldInv, Holders
    <2>4. armed[t] \in Pending => Linked(on[t], t) \/ Holders(t) # {}
      BY DEF MutexInv, WaitInv, CoverInv, Holders
    <2>5. Holders(t) \subseteq Actors
      BY DEF Holders
    <2>6. CASE armed[t] \notin Pending
      BY <2>1, <2>2, <2>6 DEF Pending
    <2>7. CASE armed[t] \in Pending /\ Linked(on[t], t)
      <3>1. inq = {on[t]}
        BY <2>1, <2>7
      <3>2. Holders(t) = {}
        BY <2>1, <2>2, <3>1
      <3> QED BY <2>7, <3>1, <3>2 DEF Pending
    <2>8. CASE armed[t] \in Pending /\ Holders(t) # {}
      <3>1. PICK a \in Holders(t) : TRUE
        BY <2>8
      <3>2. Holders(t) = {a}
        BY <2>3, <3>1
      <3>3. inq = {}
        BY <2>2, <3>1
      <3> QED BY <2>5, <2>8, <3>1, <3>2, <3>3 DEF Pending
    <2> QED BY <2>4, <2>6, <2>7, <2>8
  <1> QED BY <1>1, MutexInvariant, PTL

\* A task is on a run queue at most once, and never while it runs: the handshake
\* on wake_armed reinjects a waiter once or not at all.
THEOREM OneQueueEntry == Spec => []QueuedOnce
  <1>1. MutexInv => QueuedOnce
    <2> SUFFICES ASSUME MutexInv, NEW t \in Tasks
                 PROVE  /\ runq[t] \in {0, 1}
                        /\ runq[t] = 1 => Requeuers(t) = {} /\ pc[t] \in ParkPcs \cup YieldPcs
                        /\ pc[t] \in YieldPcs => runq[t] = 1
                        /\ pc[t] \in ParkPcs /\ armed[t] = "COMPLETED_QUEUED" /\ runq[t] = 0
                              => \E a \in Actors : Requeuers(t) = {a}
                        /\ Requeuers(t) # {} => pc[t] \in ParkPcs /\ armed[t] = "COMPLETED_QUEUED"
      BY DEF QueuedOnce
    <2>1. \A a \in Requeuers(t) : pc[t] \in ParkPcs /\ armed[t] = "COMPLETED_QUEUED" /\ runq[t] = 0
      BY DEF MutexInv, WaitInv, RequeueInv, Requeuers
    <2>2. \A a, b \in Requeuers(t) : a = b
      BY DEF MutexInv, WaitInv, RequeueInv, Requeuers
    <2>3. pc[t] \in ParkPcs /\ armed[t] = "COMPLETED_QUEUED" /\ runq[t] = 0
             => \E a \in Actors : a \in Requeuers(t)
      BY DEF MutexInv, WaitInv, RequeueInv, Requeuers
    <2>4. ASSUME NEW a \in Actors, a \in Requeuers(t) PROVE Requeuers(t) = {a}
      BY <2>2, <2>4
    <2>5. /\ runq[t] \in {0, 1}
          /\ pc[t] \in YieldPcs => runq[t] = 1
          /\ runq[t] = 1 => pc[t] \in ParkPcs \cup YieldPcs
      BY DEF MutexInv, WaitInv, RunqInv
    <2>6. runq[t] = 1 => Requeuers(t) = {}
      BY <2>1
    <2> QED BY <2>1, <2>3, <2>4, <2>5, <2>6
  <1> QED BY <1>1, MutexInvariant, PTL
====
