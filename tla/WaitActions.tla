----------------------------- MODULE WaitActions -----------------------------
(***************************************************************************)
(* Every action of the wait protocol and of the mutex is a step of one of  *)
(* the kinds of WaitKinds, and so preserves WaitInv.                       *)
(***************************************************************************)
EXTENDS WaitKinds

\* The task is queued and its requeuer is done.
LEMMA TaskQueued ==
  ASSUME TypeOK, WaitInv, NEW a \in Actors, apc[a] \in RequeuePcs,
         apc' = [apc EXCEPT ![a] = "off"],
         \A b \in Actors \ {a} : tgt'[b] = tgt[b],
         runq' = [runq EXCEPT ![tgt[a]] = runq[tgt[a]] + 1],
         UNCHANGED <<pc, waitq, armed, err, on>>
  PROVE  WaitInv'
  <1> DEFINE t == tgt[a]
  <1>1. /\ t \in Tasks /\ pc[t] \in ParkPcs /\ armed[t] = "COMPLETED_QUEUED" /\ runq[t] = 0
        /\ \A b \in Actors \ {a} : apc[b] \in RequeuePcs => tgt[b] # t
    BY DEF WaitInv, ActorInv, RequeueInv, RequeuePcs
  <1> HIDE DEF t
  <1>2. apc'[a] = "off" /\ \A b \in Actors \ {a} : apc'[b] = apc[b]
    BY DEF TypeOK, WaitTypeOK
  <1>3. runq'[t] = 1 /\ \A u \in Tasks \ {t} : runq'[u] = runq[u]
    BY <1>1 DEF t, TypeOK, WaitTypeOK
  <1>4. \A q, u : Linked(q, u)' <=> Linked(q, u)
    BY DEF Linked
  <1>5. "off" \notin HoldPcs \cup RequeuePcs /\ apc[a] \notin HoldPcs
    BY DEF HoldPcs, RequeuePcs
  <1>6. QueueInv'
    BY <1>4 DEF WaitInv, QueueInv
  <1>7. ArmInv'
    BY DEF WaitInv, ArmInv
  <1>8. ActorInv'
    BY <1>2 DEF WaitInv, ActorInv, Actors
  <1>9. HoldInv'
    BY <1>2, <1>4, <1>5 DEF WaitInv, HoldInv
  <1>10. CoverInv'
    BY <1>2, <1>4, <1>5 DEF WaitInv, CoverInv
  <1>11. RequeueInv'
    BY <1>1, <1>2, <1>3, <1>5 DEF t, WaitInv, RequeueInv, ActorInv
  <1>12. RunqInv'
    BY <1>1, <1>3 DEF WaitInv, RunqInv, ParkPcs, YieldPcs
  <1> QED BY <1>6, <1>7, <1>8, <1>9, <1>10, <1>11, <1>12 DEF WaitInv

\* A task hands its worker to the task it is to requeue and is queued itself.
LEMMA WorkerHandedOver ==
  ASSUME WaitInv, NEW a \in Tasks, NEW t \in Tasks, apc[a] \in RequeuePcs, tgt[a] = t,
         pc[a] \in {"waking", "waking_in"}, pc[t] = "parked", apc[t] = "off",
         pc'[t] = "cleanup", pc'[a] \in YieldPcs,
         \A u \in Tasks \ {a, t} : pc'[u] = pc[u],
         apc'[a] = "off", \A b \in Actors \ {a} : apc'[b] = apc[b] /\ tgt'[b] = tgt[b],
         runq'[a] = runq[a] + 1, \A u \in Tasks \ {a} : runq'[u] = runq[u],
         UNCHANGED <<waitq, armed, err, on>>
  PROVE  WaitInv'
  <1>1. /\ a \in Actors /\ t # a
        /\ pc[t] \in WaitPcs /\ pc[t] \in ParkPcs /\ on[t] \in Queues
        /\ armed[t] = "COMPLETED_QUEUED" /\ armed[t] \notin Pending /\ runq[t] = 0
        /\ \A b \in Actors \ {a} : apc[b] \in RequeuePcs => tgt[b] # t
    BY DEF WaitInv, ArmInv, ActorInv, RequeueInv, RequeuePcs, Actors, ParkPcs, WaitPcs, Pending
  <1>2. /\ pc[a] \notin WaitPcs \cup SetupPcs \cup ParkPcs \cup YieldPcs
        /\ pc'[a] \notin WaitPcs \cup SetupPcs \cup ParkPcs \cup DonePcs
        /\ pc'[t] \notin WaitPcs \cup SetupPcs \cup ParkPcs \cup YieldPcs
    BY DEF WaitPcs, SetupPcs, ParkPcs, YieldPcs, DonePcs
  <1>3. runq[a] = 0 /\ runq'[a] = 1
    BY <1>2 DEF WaitInv, RunqInv
  <1>4. \A q, u : Linked(q, u)' <=> Linked(q, u)
    BY DEF Linked
  <1>5. "off" \notin HoldPcs \cup RequeuePcs /\ apc[a] \notin HoldPcs
    BY DEF HoldPcs, RequeuePcs
  <1>6. QueueInv'
    BY <1>1, <1>2, <1>4 DEF WaitInv, QueueInv
  <1>7. ArmInv'
    BY <1>1, <1>2 DEF WaitInv, ArmInv
  <1>8. ActorInv'
    BY <1>1 DEF WaitInv, ActorInv, Actors
  <1>9. HoldInv'
    BY <1>1, <1>2, <1>4, <1>5 DEF WaitInv, HoldInv, ActorInv, HoldPcs
  <1>10. CoverInv'
    BY <1>2, <1>4, <1>5 DEF WaitInv, CoverInv
  <1>11. RequeueInv'
    BY <1>1, <1>2, <1>3, <1>5 DEF WaitInv, RequeueInv, ActorInv, RequeuePcs
  <1>12. RunqInv'
    BY <1>1, <1>2, <1>3 DEF WaitInv, RunqInv
  <1> QED BY <1>6, <1>7, <1>8, <1>9, <1>10, <1>11, <1>12 DEF WaitInv

\* A step that touches no node, queue, actor or program counter.
LEMMA NothingMoves ==
  ASSUME WaitInv, UNCHANGED <<pc, waitq, armed, err, on, runq, apc, tgt>>
  PROVE  WaitInv'
  <1>1. \A q, u : Linked(q, u)' <=> Linked(q, u)
    BY DEF Linked
  <1>2. QueueInv' /\ HoldInv' /\ CoverInv'
    BY <1>1 DEF WaitInv, QueueInv, HoldInv, CoverInv
  <1>3. ArmInv' /\ ActorInv' /\ RequeueInv' /\ RunqInv'
    BY DEF WaitInv, ArmInv, ActorInv, RequeueInv, RunqInv
  <1> QED BY <1>2, <1>3 DEF WaitInv

-----------------------------------------------------------------------------
(* Every step is of one of these kinds. *)

\* Control points of the tasks and actors, as the kinds of step see them.
LEMMA PcFacts ==
  /\ {"queued", "arm", "register", "undo_arm", "undo_reg", "wait_ready"} \subseteq SetupPcs
  /\ {"park", "parked"} \subseteq ParkPcs /\ {"yielded", "yielded_in"} \subseteq YieldPcs
  /\ \A p \in {"idle", "crit", "slow", "waking", "waking_in", "cleanup", "drain"} : AtRest(p)
  /\ {"cleanup", "drain"} \subseteq DonePcs
  /\ {"idle", "crit", "slow", "waking", "waking_in"} \cap DonePcs = {}
  /\ {"end", "wake"} \subseteq HoldPcs /\ {"reinject", "redrain"} \subseteq RequeuePcs
  /\ \A p \in {"off", "begin", "remove", "leave", "check", "tremove", "store"} : Neutral(p)
  BY DEF AtRest, Neutral, WaitPcs, SetupPcs, ParkPcs, DonePcs, YieldPcs, HoldPcs, RequeuePcs

\* A task that is not inside a wake or park call acts on no other node.
LEMMA TaskOff ==
  ASSUME WaitInv, NEW t \in Tasks, pc[t] \notin {"waking", "waking_in", "parked"}
  PROVE  apc[t] = "off"
  BY DEF WaitInv, ActorInv

\* An actor at work has a task as its target.
LEMMA ActorTarget ==
  ASSUME WaitInv, NEW a \in Actors, apc[a] # "off"
  PROVE  tgt[a] \in Tasks
  BY DEF WaitInv, ActorInv

\* Every step of a waiter is of one of the kinds.
LEMMA WaiterStepInv ==
  ASSUME TypeOK, WaitInv, NEW t \in Tasks, WaiterStep(t) \/ Dispatch(t)
  PROVE  WaitInv'
  <1>1. CASE SetTracking(t)
    BY <1>1, PcFacts, SetupMoves, Zenon DEF SetTracking, nodeVars, actorVars
  <1>2. CASE ArmDeadline(t)
    <2>1. pc[t] = "arm" /\ \E p \in {"register", "wait_ready", "undo_arm"} : pc' = [pc EXCEPT ![t] = p]
      BY <1>2 DEF ArmDeadline, SetupFailed
    <2> QED BY <1>2, <2>1, PcFacts, SetupMoves, Zenon DEF ArmDeadline, nodeVars, actorVars
  <1>3. CASE Register(t)
    <2>1. pc[t] = "register" /\ \E p \in {"wait_ready", "undo_reg"} : pc' = [pc EXCEPT ![t] = p]
      BY <1>3 DEF Register, SetupFailed
    <2> QED BY <1>3, <2>1, PcFacts, SetupMoves, Zenon DEF Register, nodeVars, actorVars
  <1>4. CASE Undo(t)
    <2>1. pc[t] \in SetupPcs
      BY <1>4, PcFacts DEF Undo
    <2>2. CASE ~Linked(on[t], t) /\ pc' = [pc EXCEPT ![t] = "wait_ready"] /\ UNCHANGED <<waitq, err>>
      BY <1>4, <2>1, <2>2, PcFacts, SetupMoves, Zenon DEF Undo, actorVars
    <2>3. CASE Unlink(on[t], t) /\ pc' = [pc EXCEPT ![t] = "cleanup"]
      <3>1. \A u \in Tasks \ {t} : err'[u] = err[u]
        BY <1>4 DEF Undo, TypeOK, WaitTypeOK
      <3> QED BY <1>4, <2>1, <2>3, <3>1, WaitWithdrawn, Zenon DEF Undo, actorVars
    <2> QED BY <1>4, <2>2, <2>3 DEF Undo
  <1>5. CASE ShouldPark(t)
    <2>1. CASE armed[t] = "UNARMED"
      BY <1>5, <2>1, PcFacts, WaitArmed DEF ShouldPark, actorVars
    <2>2. CASE armed[t] = "COMPLETED_INLINE"
      <3>1. runq' = [runq EXCEPT ![t] = 0]
        BY <1>5, PcFacts, Zenon DEF ShouldPark, TypeOK, WaitTypeOK, WaitInv, RunqInv, ParkPcs, YieldPcs
      <3>2. apc[t] = "off"
        BY <1>5, TaskOff DEF ShouldPark
      <3> QED BY <1>5, <2>2, <3>1, <3>2, PcFacts, TaskResumes, Zenon DEF ShouldPark, actorVars
    <2> QED BY <1>5, <2>1, <2>2 DEF ShouldPark
  <1>6. CASE Park(t)
    <2>1. t \in Actors /\ apc[t] = "off"
      BY <1>6, TaskOff DEF Park, Actors
    <2>2. \A a \in Actors \ {t} : apc'[a] = apc[a] /\ tgt'[a] = tgt[a]
      BY <1>6 DEF Park, actorVars, TypeOK, WaitTypeOK
    <2>3. \/ apc'[t] = "off"
          \/ apc'[t] = "begin" /\ tgt'[t] \in Tasks
      BY <1>6, <2>1 DEF Park, actorVars, TypeOK, WaitTypeOK
    <2> QED BY <1>6, <2>2, <2>3, WaitParked, Zenon DEF Park, nodeVars
  <1>7. CASE Cleanup(t)
    <2>1. apc[t] = "off" /\ on[t] \in Queues
      BY <1>7, TaskOff, PcFacts DEF Cleanup, WaitInv, ArmInv
    <2> QED BY <1>7, <2>1, PcFacts, RestMoves, Zenon DEF Cleanup, nodeVars, actorVars
  <1>8. CASE Dispatch(t)
    <2>1. runq[t] = 1
      BY <1>8 DEF Dispatch, WaitInv, RunqInv
    <2>2. apc[t] = "off"
      BY <1>8, TaskOff DEF Dispatch, SwitchedOut
    <2>3. runq' = [runq EXCEPT ![t] = 0]
      BY <1>8, <2>1 DEF Dispatch
    <2> QED BY <1>8, <2>2, <2>3, PcFacts, TaskResumes, Zenon DEF Dispatch, SwitchedOut, nodeVars, actorVars
  <1> QED BY <1>1, <1>2, <1>3, <1>4, <1>5, <1>6, <1>7, <1>8 DEF WaiterStep

\* An actor that lets go of a node it neither holds nor requeues.
LEMMA FinishMoves ==
  ASSUME TypeOK, WaitInv, NEW a \in Actors, apc[a] # "off", Neutral(apc[a]), Finish(a),
         UNCHANGED <<pc, waitq, armed, err, on, runq>>
  PROVE  WaitInv'
  <1>1. \A b \in Actors \ {a} : tgt'[b] = tgt[b]
    BY DEF Finish, TypeOK, WaitTypeOK
  <1> QED BY <1>1, PcFacts, ActorMoves, Zenon DEF Finish

\* A resolver takes the node of a published wait.
LEMMA ResolverTakes ==
  ASSUME TypeOK, WaitInv, TrackInv, NEW a \in Actors, NEW p \in HoldPcs,
         apc[a] # "off", Neutral(apc[a]), tracked[tgt[a]], Unlink(on[tgt[a]], tgt[a]),
         apc' = [apc EXCEPT ![a] = p], NEW e, err' = [err EXCEPT ![tgt[a]] = e],
         UNCHANGED <<pc, armed, on, runq, tgt>>
  PROVE  WaitInv'
  <1> DEFINE t == tgt[a]
             q == on[t]
  <1>1. t \in Tasks
    BY ActorTarget
  <1>2. q \in Queues /\ waitq \in [Queues -> Seq(Tasks)]
        /\ \A r \in Queues : NoDuplicates(waitq[r])
    BY <1>1 DEF TrackInv, WaitInv, ArmInv, QueueInv, TypeOK, WaitTypeOK
  <1>3. /\ Linked(q, t)
        /\ \A r \in Queues : \A u : Linked(r, u)' <=> Linked(r, u) /\ ~(r = q /\ u = t)
        /\ \A r \in Queues : NoDuplicates(waitq[r])'
    BY <1>2, LinkedUnlink
  <1>4. \A u \in Tasks \ {t} : err'[u] = err[u]
    BY <1>1 DEF TypeOK, WaitTypeOK
  <1> QED BY <1>1, <1>2, <1>3, <1>4, NodeTaken, Zenon

\* Every step of an actor is of one of the kinds.
LEMMA ActorStepInv ==
  ASSUME TypeOK, WaitInv, TrackInv, NEW a \in Actors, ActorStep(a)
  PROVE  WaitInv'
  <1>1. CASE Begin(a)
    <2>1. apc[a] # "off" /\ Neutral(apc[a]) /\ tgt[a] \in Tasks
      BY <1>1, PcFacts, ActorTarget DEF Begin
    <2>2. CASE Finish(a)
      BY <1>1, <2>1, <2>2, FinishMoves DEF Begin, nodeVars
    <2>3. CASE ~Finish(a)
      <3>1. tgt' = tgt /\ \E p \in {"remove", "leave"} : apc' = [apc EXCEPT ![a] = p]
        BY <1>1, <2>3 DEF Begin
      <3> QED BY <1>1, <2>1, <3>1, PcFacts, ActorMoves, Zenon DEF Begin, nodeVars
    <2> QED BY <2>2, <2>3
  <1>2. CASE CancelRemove(a)
    <2>1. apc[a] # "off" /\ Neutral(apc[a]) /\ tgt[a] \in Tasks
      BY <1>2, PcFacts, ActorTarget DEF CancelRemove
    <2>2. CASE apc' = [apc EXCEPT ![a] = "leave"] /\ UNCHANGED <<waitq, err>>
      BY <1>2, <2>1, <2>2, PcFacts, ActorMoves, Zenon DEF CancelRemove
    <2>3. CASE tracked[tgt[a]] /\ Unlink(on[tgt[a]], tgt[a])
               /\ err' = [err EXCEPT ![tgt[a]] = "ECANCELED"]
               /\ apc' = [apc EXCEPT ![a] = "end"]
      BY <1>2, <2>1, <2>3, PcFacts, ResolverTakes, Zenon DEF CancelRemove
    <2> QED BY <1>2, <2>2, <2>3 DEF CancelRemove
  <1>3. CASE ResolverEnd(a)
    <2>1. CASE apc[a] = "end"
      BY <1>3, <2>1, PcFacts, ActorKeeps DEF ResolverEnd, nodeVars
    <2>2. CASE apc[a] = "leave"
      BY <1>3, <2>2, PcFacts, FinishMoves DEF ResolverEnd, nodeVars
    <2> QED BY <1>3, <2>1, <2>2 DEF ResolverEnd
  <1>4. CASE PrepareWake(a)
    <2>1. apc[a] \in HoldPcs /\ armed[tgt[a]] \in Pending
      BY <1>4, PcFacts DEF PrepareWake, WaitInv, HoldInv
    <2>2. CASE armed[tgt[a]] = "UNARMED"
      BY <1>4, <2>1, <2>2, NodeCompleted DEF PrepareWake
    <2>3. CASE armed[tgt[a]] = "ARMED"
      BY <1>4, <2>1, <2>3, NodeCompleted DEF PrepareWake
    <2> QED BY <2>1, <2>2, <2>3 DEF Pending
  <1>5. CASE StoreCompleted(a)
    BY <1>5, PcFacts, FinishMoves DEF StoreCompleted
  <1>6. CASE Reinject(a)
    BY <1>6, PcFacts, ActorKeeps, Zenon DEF Reinject, nodeVars
  <1>7. CASE Requeue(a)
    <2>1. apc[a] \in RequeuePcs /\ apc' = [apc EXCEPT ![a] = "off"]
      BY <1>7, PcFacts DEF Requeue, Finish
    <2>2. \A b \in Actors \ {a} : tgt'[b] = tgt[b]
      BY <1>7 DEF Requeue, Finish, TypeOK, WaitTypeOK
    <2> QED BY <1>7, <2>1, <2>2, TaskQueued, Zenon DEF Requeue, nodeVars
  <1>8. CASE Handoff(a)
    <2> DEFINE t == tgt[a]
    <2>1. a \in Tasks /\ apc[a] \in RequeuePcs /\ t \in Tasks
      BY <1>8, PcFacts, ActorTarget DEF Handoff
    <2>2. pc[t] = "parked" /\ apc[t] = "off" /\ pc[a] \in {"waking", "waking_in"} /\ t # a
      BY <1>8 DEF Handoff, SwitchedOut
    <2>3. \E p \in YieldPcs : pc' = [pc EXCEPT ![t] = "cleanup", ![a] = p]
      BY <1>8, <2>1, PcFacts, Zenon DEF Handoff
    <2>4. pc'[t] = "cleanup" /\ pc'[a] \in YieldPcs /\ \A u \in Tasks \ {a, t} : pc'[u] = pc[u]
      BY <2>1, <2>2, <2>3 DEF TypeOK, WaitTypeOK
    <2>5. apc'[a] = "off" /\ \A b \in Actors \ {a} : apc'[b] = apc[b] /\ tgt'[b] = tgt[b]
      BY <1>8 DEF Handoff, Finish, TypeOK, WaitTypeOK
    <2>6. runq'[a] = runq[a] + 1 /\ \A u \in Tasks \ {a} : runq'[u] = runq[u]
      BY <1>8, <2>1 DEF Handoff, TypeOK, WaitTypeOK
    <2>7. UNCHANGED <<waitq, armed, err, on>>
      BY <1>8 DEF Handoff, nodeVars
    <2> HIDE DEF t
    <2>8. tgt[a] = t
      BY DEF t
    <2> QED BY <2>1, <2>2, <2>4, <2>5, <2>6, <2>7, <2>8, WorkerHandedOver
  <1> QED BY <1>1, <1>2, <1>3, <1>4, <1>5, <1>6, <1>7, <1>8 DEF ActorStep

\* Every step of a timer, a token or a stop request is of one of the kinds.
LEMMA SourceStepInv ==
  ASSUME TypeOK, WaitInv, TrackInv,
         \/ \E t \in Tasks : PopTimer(t) \/ Deliver(t) \/ CancelParked(t)
         \/ TimeoutCheck \/ TimeoutRemove \/ CancelToken \/ RequestStop \/ CollectParked
  PROVE  WaitInv'
  <1> DEFINE Starts(a, t, p) == /\ apc[a] = "off" /\ apc' = [apc EXCEPT ![a] = p]
                                /\ tgt' = [tgt EXCEPT ![a] = t]
  <1>1. ASSUME NEW a \in {TimerM, CancelM, StopM}, NEW t \in Tasks, NEW p \in {"check", "begin"},
               Starts(a, t, p), UNCHANGED <<pc, waitq, armed, err, on, runq>>
        PROVE  WaitInv'
    <2>1. a \in Actors /\ a \notin Tasks
      BY WaitAssumption DEF Actors
    <2>2. tgt'[a] = t /\ \A b \in Actors \ {a} : tgt'[b] = tgt[b]
      BY <1>1, <2>1 DEF TypeOK, WaitTypeOK
    <2> QED BY <1>1, <2>1, <2>2, PcFacts, ActorMoves, Zenon
  <1>2. ASSUME NEW t \in Tasks, PopTimer(t) PROVE WaitInv'
    BY <1>1, <1>2, Zenon DEF PopTimer, nodeVars
  <1>3. ASSUME NEW t \in Tasks, Deliver(t) PROVE WaitInv'
    BY <1>1, <1>3, Zenon DEF Deliver, nodeVars
  <1>4. ASSUME NEW t \in Tasks, CancelParked(t) PROVE WaitInv'
    BY <1>1, <1>4, Zenon DEF CancelParked, nodeVars
  <1>5. CASE TimeoutCheck
    <2>1. TimerM \in Actors /\ TimerM \notin Tasks /\ apc[TimerM] = "check"
      BY <1>5, WaitAssumption DEF TimeoutCheck, Actors
    <2>2. CASE Finish(TimerM)
      BY <1>5, <2>1, <2>2, PcFacts, FinishMoves, Zenon DEF TimeoutCheck, nodeVars
    <2>3. CASE apc' = [apc EXCEPT ![TimerM] = "tremove"] /\ UNCHANGED tgt
      BY <1>5, <2>1, <2>3, PcFacts, ActorTarget, ActorMoves, Zenon DEF TimeoutCheck, nodeVars
    <2> QED BY <1>5, <2>2, <2>3 DEF TimeoutCheck
  <1>6. CASE TimeoutRemove
    <2>1. TimerM \in Actors /\ apc[TimerM] = "tremove"
      BY <1>6 DEF TimeoutRemove, Actors
    <2>2. CASE Finish(TimerM) /\ UNCHANGED <<waitq, err>>
      BY <1>6, <2>1, <2>2, PcFacts, FinishMoves DEF TimeoutRemove
    <2>3. CASE tracked[tgt[TimerM]] /\ Unlink(on[tgt[TimerM]], tgt[TimerM])
               /\ err' = [err EXCEPT ![tgt[TimerM]] = "ETIMEDOUT"]
               /\ apc' = [apc EXCEPT ![TimerM] = "wake"] /\ UNCHANGED tgt
      BY <1>6, <2>1, <2>3, PcFacts, ResolverTakes, Zenon DEF TimeoutRemove
    <2> QED BY <1>6, <2>2, <2>3, Zenon DEF TimeoutRemove
  <1>7. CASE CancelToken \/ RequestStop \/ CollectParked
    BY <1>7, NothingMoves DEF CancelToken, RequestStop, CollectParked, nodeVars, actorVars
  <1> QED BY <1>2, <1>3, <1>4, <1>5, <1>6, <1>7

\* Every step of the mutex operations is of one of the kinds.
LEMMA MutexStepInv ==
  ASSUME TypeOK, WaitInv, NEW t \in Tasks, MutexStep(t)
  PROVE  WaitInv'
  <1>1. ASSUME NEW p \in {"idle", "crit", "slow"}, pc' = [pc EXCEPT ![t] = p],
               pc[t] \in {"idle", "crit", "slow", "waking", "waking_in", "drain"}, apc[t] = "off",
               \A u \in Tasks \ {t} : armed'[u] = armed[u] /\ err'[u] = err[u] /\ on'[u] = on[u],
               UNCHANGED <<waitq, runq, apc, tgt>>
        PROVE  WaitInv'
    BY <1>1, PcFacts, RestMoves, Zenon
  <1>2. CASE TryLock(t)
    BY <1>1, <1>2, TaskOff, Zenon DEF TryLock, nodeVars, actorVars
  <1>3. CASE LockSlow(t)
    BY <1>1, <1>3, TaskOff DEF LockSlow, nodeVars, actorVars
  <1>4. CASE LockQueue(t)
    <2>1. apc[t] = "off" /\ AtRest(pc[t])
      BY <1>4, TaskOff, PcFacts DEF LockQueue
    <2>2. CASE owner = None
      BY <1>1, <1>4, <2>1, <2>2 DEF LockQueue, nodeVars, actorVars
    <2>3. CASE owner # None
      <3>1. \E d \in BOOLEAN : PublishNode(t, MQ, FALSE, d)
        BY <1>4, <2>3, Zenon DEF LockQueue
      <3> QED BY <1>4, <2>1, <3>1, MutexAssumption, WaitBegins, Zenon
              DEF LockQueue, PublishNode, AcquireNode, actorVars
    <2> QED BY <2>2, <2>3
  <1>5. CASE LockReturn(t)
    <2>1. apc[t] = "off" /\ pc[t] = "drain"
      BY <1>5, TaskOff DEF LockReturn, LeaveWait
    <2>2. \A u \in Tasks \ {t} : armed'[u] = armed[u] /\ err'[u] = err[u] /\ on'[u] = on[u]
      BY <1>5 DEF LockReturn, LeaveWait, TypeOK, WaitTypeOK
    <2>3. \E p \in {"crit", "idle"} : pc' = [pc EXCEPT ![t] = p]
      BY <1>5, Zenon DEF LockReturn
    <2> QED BY <1>1, <1>5, <2>1, <2>2, <2>3, Zenon DEF LockReturn, LeaveWait, actorVars
  <1>6. CASE Unlock(t)
    <2>1. apc[t] = "off" /\ pc[t] = "crit" /\ t \in Actors
      BY <1>6, TaskOff DEF Unlock, Actors
    <2>2. CASE waitq[MQ] = <<>>
      BY <1>1, <1>6, <2>1, <2>2 DEF Unlock, actorVars
    <2>3. CASE waitq[MQ] # <<>>
      <3> DEFINE h == Head(waitq[MQ])
      <3>1. waitq' = [waitq EXCEPT ![MQ] = Tail(waitq[MQ])]
        BY <1>6, <2>3 DEF Unlock
      <3>2. waitq \in [Queues -> Seq(Tasks)] /\ \A r \in Queues : NoDuplicates(waitq[r])
        BY DEF TypeOK, WaitTypeOK, WaitInv, QueueInv
      <3>3. /\ h \in Tasks /\ Linked(MQ, h)
            /\ \A r \in Queues : \A u : Linked(r, u)' <=> Linked(r, u) /\ ~(r = MQ /\ u = h)
            /\ \A r \in Queues : NoDuplicates(waitq[r])'
        BY <2>3, <3>1, <3>2, MutexAssumption, LinkedTail, Zenon
      <3>4. tgt'[t] = h /\ (\A b \in Actors \ {t} : tgt'[b] = tgt[b])
            /\ \A u \in Tasks \ {h} : err'[u] = err[u]
        BY <1>6, <2>1, <2>3, <3>3 DEF Unlock, TypeOK, WaitTypeOK
      <3>5. apc' = [apc EXCEPT ![t] = "wake"] /\ pc' = [pc EXCEPT ![t] = "waking"]
            /\ UNCHANGED <<armed, on, runq>>
        BY <1>6, <2>3 DEF Unlock
      <3> HIDE DEF h
      <3> QED BY <2>1, <3>3, <3>4, <3>5, PcFacts, MutexAssumption, NodeTaken, Zenon
    <2> QED BY <2>2, <2>3
  <1>7. CASE WakeReturn(t)
    <2>1. \E p \in {"crit", "idle"} : pc' = [pc EXCEPT ![t] = p]
      BY <1>7, Zenon DEF WakeReturn
    <2> QED BY <1>1, <1>7, <2>1, Zenon DEF WakeReturn, nodeVars, actorVars
  <1> QED BY <1>2, <1>3, <1>4, <1>5, <1>6, <1>7 DEF MutexStep

-----------------------------------------------------------------------------
(* The other parts. *)
====
