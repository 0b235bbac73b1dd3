-------------------------------- MODULE MutexTypes --------------------------------
(***************************************************************************)
(* Every step of the wait protocol and of the mutex preserves the types.   *)
(***************************************************************************)
EXTENDS MutexInvariants, TLAPS

PcFun == [Tasks -> {"slow"} \cup OutPcs \cup InPcs \cup WaitPcs \cup DonePcs]
ArmFun == [Tasks -> {"UNARMED", "ARMED", "COMPLETED_INLINE", "COMPLETED_QUEUED"}]
StateFun == [Tasks -> {"RUNNING", "RUNNABLE", "PARKED"}]
LinkFun == [Tasks -> {"none", "registered", "delivering"}]

\* Dropping one entry of a sequence leaves a sequence over the same set.
LEMMA DropAtType ==
  ASSUME NEW S, NEW s \in Seq(S), NEW i \in 1..Len(s)
  PROVE  DropAt(s, i) \in Seq(S)
  <1>1. Len(s) - 1 \in Nat
    OBVIOUS
  <1>2. \A j \in 1..Len(s) - 1 : DropAt(s, i)[j] \in S
    BY DEF DropAt
  <1> QED BY <1>1, <1>2 DEF DropAt

\* llam_wait_queue_remove leaves a queue of tasks.
LEMMA UnlinkType ==
  ASSUME waitq \in [Queues -> Seq(Tasks)], NEW q, NEW t, Unlink(q, t)
  PROVE  waitq' \in [Queues -> Seq(Tasks)]
  <1>1. PICK i \in 1..Len(waitq[q]) :
             waitq' = [waitq EXCEPT ![q] = DropAt(waitq[q], i)]
    BY Zenon DEF Unlink
  <1>2. CASE q \in Queues
    <2>1. DropAt(waitq[q], i) \in Seq(Tasks)
      BY <1>2, DropAtType
    <2> QED BY <1>1, <1>2, <2>1
  <1>3. CASE q \notin Queues
    BY <1>1, <1>3, Zenon
  <1> QED BY <1>2, <1>3

\* What an actor resets when it is done with a node keeps its type.
LEMMA FinishType ==
  ASSUME TypeOK, NEW a \in Actors, tgt[a] \in Tasks, Finish(a)
  PROVE  /\ apc' \in [Actors -> ActorPcs] /\ tgt' \in [Actors -> Tasks \cup {None}]
         /\ agen' \in [Actors -> Nat]
         /\ link' \in LinkFun
  <1> DEFINE l == IF a = CancelM THEN "none" ELSE link[tgt[a]]
  <1>1. l \in {"none", "registered", "delivering"}
    BY DEF TypeOK, WaitTypeOK
  <1>2. link' = [link EXCEPT ![tgt[a]] = l]
    BY DEF Finish
  <1> HIDE DEF l
  <1>3. link' \in LinkFun
    BY <1>1, <1>2 DEF TypeOK, WaitTypeOK, LinkFun
  <1>4. apc' \in [Actors -> ActorPcs]
    BY DEF Finish, TypeOK, WaitTypeOK, ActorPcs
  <1>5. tgt' \in [Actors -> Tasks \cup {None}]
    BY DEF Finish, TypeOK, WaitTypeOK
  <1>6. agen' \in [Actors -> Nat]
    BY DEF Finish, TypeOK, WaitTypeOK
  <1> QED BY <1>3, <1>4, <1>5, <1>6

\* llam_set_wait_node_tracking keeps the types.
LEMMA SetTrackingType ==
  ASSUME TypeOK, ActorInv, NEW t \in Tasks, SetTracking(t), UNCHANGED owner
  PROVE  TypeOK'
  <1> DEFINE Touched ==
             /\ gen \in [Tasks -> Nat] /\ tracked \in [Tasks -> BOOLEAN]
             /\ closed \in [Tasks -> BOOLEAN] /\ state \in StateFun /\ pc \in PcFun
  <1>1. Touched
    BY DEF TypeOK, WaitTypeOK, StateFun, PcFun
  <1>2. Touched'
    BY <1>1 DEF SetTracking, StateFun, PcFun, OutPcs, InPcs, WaitPcs, SetupPcs, ParkPcs, DonePcs
  <1> QED BY <1>2, SMTT(30) DEF SetTracking, TypeOK, WaitTypeOK, nodeVars, trackVars, sourceVars, actorVars, StateFun, PcFun

\* llam_arm_wait_deadline keeps the types.
LEMMA ArmDeadlineType ==
  ASSUME TypeOK, ActorInv, NEW t \in Tasks, ArmDeadline(t), UNCHANGED owner
  PROVE  TypeOK'
  <1> DEFINE Touched ==
             /\ timer \in [Tasks -> Nat] /\ pc \in PcFun
  <1>1. Touched
    BY DEF TypeOK, WaitTypeOK, PcFun
  <1>2. gen \in [Tasks -> Nat]
    BY DEF TypeOK, WaitTypeOK
  <1>3. Touched'
    BY <1>1, <1>2 DEF ArmDeadline, SetupFailed, PcFun, OutPcs, InPcs, WaitPcs, SetupPcs, ParkPcs, DonePcs
  <1> QED BY <1>3, SMTT(30) DEF ArmDeadline, SetupFailed, TypeOK, WaitTypeOK, nodeVars, trackVars, sourceVars, actorVars, PcFun

\* Registration with a cancellation token keeps the types.
LEMMA RegisterType ==
  ASSUME TypeOK, ActorInv, NEW t \in Tasks, Register(t), UNCHANGED owner
  PROVE  TypeOK'
  <1> DEFINE Touched ==
             /\ pc \in PcFun /\ link \in LinkFun /\ linkgen \in [Tasks -> Nat]
  <1>1. Touched
    BY DEF TypeOK, WaitTypeOK, PcFun, LinkFun
  <1>2. gen \in [Tasks -> Nat]
    BY DEF TypeOK, WaitTypeOK
  <1>3. Touched'
    BY <1>1, <1>2 DEF Register, SetupFailed, PcFun, LinkFun, OutPcs, InPcs, WaitPcs, SetupPcs, ParkPcs, DonePcs
  <1> QED BY <1>3 DEF Register, SetupFailed, TypeOK, WaitTypeOK, nodeVars, trackVars, sourceVars, actorVars, PcFun, LinkFun

\* The rollback of a wait whose setup failed keeps the types.
LEMMA UndoType ==
  ASSUME TypeOK, ActorInv, NEW t \in Tasks, Undo(t), UNCHANGED owner
  PROVE  TypeOK'
  <1> DEFINE Touched ==
             /\ timer \in [Tasks -> Nat] /\ waitq \in [Queues -> Seq(Tasks)]
             /\ err \in [Tasks -> Errors] /\ state \in StateFun /\ pc \in PcFun
  <1>1. Touched
    BY DEF TypeOK, WaitTypeOK, StateFun, PcFun
  <1>2. waitq' \in [Queues -> Seq(Tasks)]
    BY <1>1, UnlinkType DEF Undo
  <1>3. Touched'
    BY <1>1, <1>2, Zenon DEF Undo, StateFun, PcFun, OutPcs, InPcs, WaitPcs, SetupPcs, ParkPcs, DonePcs, Errors
  <1> QED BY <1>3, Zenon DEF Undo, TypeOK, WaitTypeOK, nodeVars, trackVars, sourceVars, actorVars, StateFun, PcFun

\* The waiter's last check before it parks keeps the types.
LEMMA ShouldParkType ==
  ASSUME TypeOK, ActorInv, NEW t \in Tasks, ShouldPark(t), UNCHANGED owner
  PROVE  TypeOK'
  <1> DEFINE Touched ==
             /\ armed \in ArmFun /\ state \in StateFun /\ pc \in PcFun
  <1>1. Touched
    BY DEF TypeOK, WaitTypeOK, ArmFun, StateFun, PcFun
  <1>2. Touched'
    BY <1>1 DEF ShouldPark, ArmFun, StateFun, PcFun, OutPcs, InPcs, WaitPcs, SetupPcs, ParkPcs, DonePcs
  <1> QED BY <1>2 DEF ShouldPark, TypeOK, WaitTypeOK, nodeVars, trackVars, sourceVars, actorVars, ArmFun, StateFun, PcFun

\* llam_park_task keeps the types.
LEMMA ParkType ==
  ASSUME TypeOK, ActorInv, NEW t \in Tasks, Park(t), UNCHANGED owner
  PROVE  TypeOK'
  <1> DEFINE Touched ==
             /\ state \in StateFun /\ pc \in PcFun /\ apc \in [Actors -> ActorPcs]
             /\ tgt \in [Actors -> Tasks \cup {None}] /\ agen \in [Actors -> Nat]
  <1>1. Touched
    BY DEF TypeOK, WaitTypeOK, StateFun, PcFun
  <1>2. Touched'
    <2>1. state' \in StateFun /\ pc' \in PcFun
      BY <1>1 DEF Park, PcFun, StateFun, OutPcs, InPcs, WaitPcs, SetupPcs, ParkPcs, DonePcs
    <2>2. CASE stop
      BY <1>1, <2>1, <2>2 DEF Park, ActorPcs, Actors
    <2>3. CASE ~stop
      BY <1>1, <2>1, <2>3 DEF Park, actorVars
    <2> QED BY <2>2, <2>3
  <1> QED BY <1>2 DEF Park, TypeOK, WaitTypeOK, nodeVars, trackVars, sourceVars, StateFun, PcFun

\* Disarming, unregistering and closing the gate after a wait keeps the types.
LEMMA CleanupType ==
  ASSUME TypeOK, ActorInv, NEW t \in Tasks, Cleanup(t), UNCHANGED owner
  PROVE  TypeOK'
  <1> DEFINE Touched ==
             /\ timer \in [Tasks -> Nat] /\ link \in LinkFun
             /\ closed \in [Tasks -> BOOLEAN] /\ pc \in PcFun
  <1>1. Touched
    BY DEF TypeOK, WaitTypeOK, LinkFun, PcFun
  <1>2. Touched'
    BY <1>1 DEF Cleanup, LinkFun, PcFun, OutPcs, InPcs, WaitPcs, SetupPcs, ParkPcs, DonePcs
  <1> QED BY <1>2 DEF Cleanup, TypeOK, WaitTypeOK, nodeVars, trackVars, sourceVars, actorVars, LinkFun, PcFun

\* llam_wait_resolver_try_begin keeps the types.
LEMMA BeginType ==
  ASSUME TypeOK, ActorInv, NEW a \in Actors, Begin(a), UNCHANGED owner
  PROVE  TypeOK'
  <1> DEFINE Touched ==
             /\ refs \in [Tasks -> SUBSET Actors] /\ agen \in [Actors -> Nat]
             /\ apc \in [Actors -> ActorPcs] /\ tgt \in [Actors -> Tasks \cup {None}]
             /\ link \in LinkFun
  <1>1. Touched
    BY DEF TypeOK, WaitTypeOK, LinkFun
  <1>2. tgt[a] \in Tasks
    BY DEF Begin, ActorInv
  <1>3. Finish(a) => /\ apc' \in [Actors -> ActorPcs] /\ tgt' \in [Actors -> Tasks \cup {None}]
                     /\ agen' \in [Actors -> Nat] /\ link' \in LinkFun
    BY <1>2, FinishType
  <1>4. gen \in [Tasks -> Nat]
    BY DEF TypeOK, WaitTypeOK
  <1>5. Touched'
    BY <1>1, <1>2, <1>3, <1>4 DEF Begin, LinkFun, ActorPcs, HoldPcs, RequeuePcs
  <1> QED BY <1>5, Zenon DEF Begin, TypeOK, WaitTypeOK, nodeVars, trackVars, sourceVars, LinkFun

\* The unlink of a cancelling resolver keeps the types.
LEMMA CancelRemoveType ==
  ASSUME TypeOK, ActorInv, NEW a \in Actors, CancelRemove(a), UNCHANGED owner
  PROVE  TypeOK'
  <1> DEFINE Touched ==
             /\ waitq \in [Queues -> Seq(Tasks)] /\ err \in [Tasks -> Errors]
             /\ apc \in [Actors -> ActorPcs]
  <1>1. Touched
    BY DEF TypeOK, WaitTypeOK
  <1>2. tgt[a] \in Tasks
    BY DEF CancelRemove, ActorInv
  <1>3. waitq' \in [Queues -> Seq(Tasks)]
    BY <1>1, UnlinkType DEF CancelRemove
  <1>4. Touched'
    BY <1>1, <1>2, <1>3, Zenon DEF CancelRemove, ActorPcs, HoldPcs, RequeuePcs, Errors
  <1> QED BY <1>4, SMTT(30) DEF CancelRemove, TypeOK, WaitTypeOK, nodeVars, trackVars, sourceVars, actorVars

\* llam_wait_resolver_end keeps the types.
LEMMA ResolverEndType ==
  ASSUME TypeOK, ActorInv, NEW a \in Actors, ResolverEnd(a), UNCHANGED owner
  PROVE  TypeOK'
  <1> DEFINE Touched ==
             /\ refs \in [Tasks -> SUBSET Actors] /\ apc \in [Actors -> ActorPcs]
             /\ tgt \in [Actors -> Tasks \cup {None}] /\ agen \in [Actors -> Nat]
             /\ link \in LinkFun
  <1>1. Touched
    BY DEF TypeOK, WaitTypeOK, LinkFun
  <1>2. tgt[a] \in Tasks
    BY DEF ResolverEnd, ActorInv
  <1>3. Finish(a) => /\ apc' \in [Actors -> ActorPcs] /\ tgt' \in [Actors -> Tasks \cup {None}]
                     /\ agen' \in [Actors -> Nat] /\ link' \in LinkFun
    BY <1>2, FinishType
  <1>4. Touched'
    BY <1>1, <1>2, <1>3 DEF ResolverEnd, LinkFun, ActorPcs, HoldPcs, RequeuePcs
  <1> QED BY <1>4, Zenon DEF ResolverEnd, TypeOK, WaitTypeOK, nodeVars, trackVars, sourceVars, LinkFun

\* The compare-and-swap of llam_wait_node_prepare_wake keeps the types.
LEMMA PrepareWakeType ==
  ASSUME TypeOK, ActorInv, NEW a \in Actors, PrepareWake(a), UNCHANGED owner
  PROVE  TypeOK'
  <1> DEFINE Touched ==
             /\ armed \in ArmFun /\ completed \in [Tasks -> BOOLEAN]
             /\ apc \in [Actors -> ActorPcs] /\ tgt \in [Actors -> Tasks \cup {None}]
             /\ agen \in [Actors -> Nat] /\ link \in LinkFun
  <1>1. Touched
    BY DEF TypeOK, WaitTypeOK, ArmFun, LinkFun
  <1>2. tgt[a] \in Tasks
    BY SMTT(30) DEF PrepareWake, ActorInv
  <1>3. Finish(a) => /\ apc' \in [Actors -> ActorPcs] /\ tgt' \in [Actors -> Tasks \cup {None}]
                     /\ agen' \in [Actors -> Nat] /\ link' \in LinkFun
    BY <1>2, FinishType
  <1>4. Touched'
    BY <1>1, <1>2, <1>3, ZenonT(30) DEF PrepareWake, ArmFun, LinkFun, ActorPcs, HoldPcs, RequeuePcs
  <1> QED BY <1>4, Zenon DEF PrepareWake, TypeOK, WaitTypeOK, nodeVars, trackVars, sourceVars, ArmFun, LinkFun

\* The late store of wake_completed keeps the types.
LEMMA StoreCompletedType ==
  ASSUME TypeOK, ActorInv, NEW a \in Actors, StoreCompleted(a), UNCHANGED owner
  PROVE  TypeOK'
  <1> DEFINE Touched ==
             /\ completed \in [Tasks -> BOOLEAN] /\ apc \in [Actors -> ActorPcs]
             /\ tgt \in [Actors -> Tasks \cup {None}] /\ agen \in [Actors -> Nat]
             /\ link \in LinkFun
  <1>1. Touched
    BY DEF TypeOK, WaitTypeOK, LinkFun
  <1>2. tgt[a] \in Tasks
    BY SMTT(30) DEF StoreCompleted, ActorInv
  <1>3. Finish(a) => /\ apc' \in [Actors -> ActorPcs] /\ tgt' \in [Actors -> Tasks \cup {None}]
                     /\ agen' \in [Actors -> Nat] /\ link' \in LinkFun
    BY <1>2, FinishType
  <1>4. Touched'
    BY <1>1, <1>2, <1>3 DEF StoreCompleted, LinkFun, ActorPcs, HoldPcs, RequeuePcs
  <1> QED BY <1>4, SMTT(30) DEF StoreCompleted, TypeOK, WaitTypeOK, nodeVars, trackVars, sourceVars, LinkFun

\* Disarming and closing the gate before a reinjection keeps the types.
LEMMA ReinjectType ==
  ASSUME TypeOK, ActorInv, NEW a \in Actors, Reinject(a), UNCHANGED owner
  PROVE  TypeOK'
  <1> DEFINE Touched ==
             /\ timer \in [Tasks -> Nat] /\ closed \in [Tasks -> BOOLEAN]
             /\ apc \in [Actors -> ActorPcs]
  <1>1. Touched
    BY DEF TypeOK, WaitTypeOK
  <1>2. tgt[a] \in Tasks
    BY SMTT(30) DEF Reinject, ActorInv
  <1>3. Touched'
    BY <1>1, <1>2 DEF Reinject, ActorPcs, HoldPcs, RequeuePcs
  <1> QED BY <1>3, SMTT(30) DEF Reinject, TypeOK, WaitTypeOK, nodeVars, trackVars, sourceVars, actorVars

\* The publication of a runnable task keeps the types.
LEMMA RequeueType ==
  ASSUME TypeOK, ActorInv, NEW a \in Actors, Requeue(a), UNCHANGED owner
  PROVE  TypeOK'
  <1> DEFINE Touched ==
             /\ gen \in [Tasks -> Nat] /\ tracked \in [Tasks -> BOOLEAN]
             /\ state \in StateFun /\ runq \in [Tasks -> Nat]
             /\ apc \in [Actors -> ActorPcs] /\ tgt \in [Actors -> Tasks \cup {None}]
             /\ agen \in [Actors -> Nat] /\ link \in LinkFun
  <1>1. Touched
    BY DEF TypeOK, WaitTypeOK, StateFun, LinkFun
  <1>2. tgt[a] \in Tasks
    BY SMTT(30) DEF Requeue, ActorInv
  <1>3. Finish(a) => /\ apc' \in [Actors -> ActorPcs] /\ tgt' \in [Actors -> Tasks \cup {None}]
                     /\ agen' \in [Actors -> Nat] /\ link' \in LinkFun
    BY <1>2, FinishType
  <1>4. Touched'
    BY <1>1, <1>2, <1>3 DEF Requeue, StateFun, LinkFun, ActorPcs, HoldPcs, RequeuePcs
  <1> QED BY <1>4, Zenon DEF Requeue, TypeOK, WaitTypeOK, nodeVars, trackVars, sourceVars, StateFun, LinkFun

\* The direct handoff of a worker to the woken task keeps the types.
LEMMA HandoffType ==
  ASSUME TypeOK, ActorInv, NEW a \in Actors, Handoff(a), UNCHANGED owner
  PROVE  TypeOK'
  <1> DEFINE Touched ==
             /\ closed \in [Tasks -> BOOLEAN] /\ gen \in [Tasks -> Nat]
             /\ tracked \in [Tasks -> BOOLEAN] /\ state \in StateFun /\ pc \in PcFun
             /\ runq \in [Tasks -> Nat] /\ apc \in [Actors -> ActorPcs]
             /\ tgt \in [Actors -> Tasks \cup {None}] /\ agen \in [Actors -> Nat]
             /\ link \in LinkFun
  <1>1. Touched
    BY DEF TypeOK, WaitTypeOK, StateFun, PcFun, LinkFun
  <1>2. tgt[a] \in Tasks
    BY DEF Handoff, ActorInv
  <1>3. Finish(a) => /\ apc' \in [Actors -> ActorPcs] /\ tgt' \in [Actors -> Tasks \cup {None}]
                     /\ agen' \in [Actors -> Nat] /\ link' \in LinkFun
    BY <1>2, FinishType
  <1>4. Touched'
    BY <1>1, <1>2, <1>3 DEF Handoff, StateFun, PcFun, LinkFun, OutPcs, InPcs, WaitPcs, SetupPcs, ParkPcs, DonePcs, ActorPcs, HoldPcs, RequeuePcs
  <1> QED BY <1>4, Zenon DEF Handoff, TypeOK, WaitTypeOK, nodeVars, trackVars, sourceVars, StateFun, PcFun, LinkFun

\* The dispatch of a runnable task keeps the types.
LEMMA DispatchType ==
  ASSUME TypeOK, ActorInv, NEW t \in Tasks, Dispatch(t), UNCHANGED owner
  PROVE  TypeOK'
  <1> DEFINE Touched ==
             /\ pc \in PcFun /\ runq \in [Tasks -> Nat] /\ state \in StateFun
  <1>1. Touched
    BY DEF TypeOK, WaitTypeOK, PcFun, StateFun
  <1>2. Touched'
    BY <1>1 DEF Dispatch, PcFun, StateFun, OutPcs, InPcs, WaitPcs, SetupPcs, ParkPcs, DonePcs
  <1> QED BY <1>2, SMTT(30) DEF Dispatch, TypeOK, WaitTypeOK, nodeVars, trackVars, sourceVars, actorVars, PcFun, StateFun

\* The pop of an expired timer keeps the types.
LEMMA PopTimerType ==
  ASSUME TypeOK, ActorInv, NEW t \in Tasks, PopTimer(t), UNCHANGED owner
  PROVE  TypeOK'
  <1> DEFINE Touched ==
             /\ timer \in [Tasks -> Nat] /\ apc \in [Actors -> ActorPcs]
             /\ tgt \in [Actors -> Tasks \cup {None}] /\ agen \in [Actors -> Nat]
  <1>1. Touched
    BY DEF TypeOK, WaitTypeOK
  <1>2. Touched'
    BY <1>1 DEF PopTimer, ActorPcs, HoldPcs, RequeuePcs, Actors
  <1> QED BY <1>2, SMTT(30) DEF PopTimer, TypeOK, WaitTypeOK, nodeVars, trackVars, sourceVars

\* The delivery of a cancellation to one observer keeps the types.
LEMMA DeliverType ==
  ASSUME TypeOK, ActorInv, NEW t \in Tasks, Deliver(t), UNCHANGED owner
  PROVE  TypeOK'
  <1> DEFINE Touched ==
             /\ apc \in [Actors -> ActorPcs] /\ tgt \in [Actors -> Tasks \cup {None}]
             /\ agen \in [Actors -> Nat]
  <1>1. Touched
    BY DEF TypeOK, WaitTypeOK
  <1>2. linkgen \in [Tasks -> Nat]
    BY DEF TypeOK, WaitTypeOK
  <1>3. Touched'
    BY <1>1, <1>2 DEF Deliver, ActorPcs, HoldPcs, RequeuePcs, Actors
  <1> QED BY <1>3, SMTT(30) DEF Deliver, TypeOK, WaitTypeOK, nodeVars, trackVars, sourceVars

\* The cancellation of one parked waiter by a stop keeps the types.
LEMMA CancelParkedType ==
  ASSUME TypeOK, ActorInv, NEW t \in Tasks, CancelParked(t), UNCHANGED owner
  PROVE  TypeOK'
  <1> DEFINE Touched ==
             /\ scan \in SUBSET Tasks /\ apc \in [Actors -> ActorPcs]
             /\ tgt \in [Actors -> Tasks \cup {None}] /\ agen \in [Actors -> Nat]
  <1>1. Touched
    BY DEF TypeOK, WaitTypeOK
  <1>2. Touched'
    BY <1>1 DEF CancelParked, ActorPcs, HoldPcs, RequeuePcs, Actors
  <1> QED BY <1>2, SMTT(30) DEF CancelParked, TypeOK, WaitTypeOK, nodeVars, trackVars, sourceVars

\* The timer's check of the wait generation keeps the types.
LEMMA TimeoutCheckType ==
  ASSUME TypeOK, ActorInv, TimeoutCheck, UNCHANGED owner
  PROVE  TypeOK'
  <1> DEFINE Touched ==
             /\ apc \in [Actors -> ActorPcs] /\ tgt \in [Actors -> Tasks \cup {None}]
             /\ agen \in [Actors -> Nat] /\ link \in LinkFun
  <1>1. Touched
    BY DEF TypeOK, WaitTypeOK, LinkFun
  <1>2. tgt[TimerM] \in Tasks
    BY Zenon DEF TimeoutCheck, ActorInv, Actors
  <1>3. Finish(TimerM) => /\ apc' \in [Actors -> ActorPcs] /\ tgt' \in [Actors -> Tasks \cup {None}]
                          /\ agen' \in [Actors -> Nat] /\ link' \in LinkFun
    BY <1>2, FinishType DEF Actors
  <1>4. Touched'
    BY <1>1, <1>2, <1>3 DEF TimeoutCheck, LinkFun, ActorPcs, HoldPcs, RequeuePcs, Actors
  <1> QED BY <1>4, SMTT(30) DEF TimeoutCheck, TypeOK, WaitTypeOK, nodeVars, trackVars, sourceVars, LinkFun

\* The timer's unlink keeps the types.
LEMMA TimeoutRemoveType ==
  ASSUME TypeOK, ActorInv, TimeoutRemove, UNCHANGED owner
  PROVE  TypeOK'
  <1> DEFINE Touched ==
             /\ waitq \in [Queues -> Seq(Tasks)] /\ err \in [Tasks -> Errors]
             /\ apc \in [Actors -> ActorPcs] /\ tgt \in [Actors -> Tasks \cup {None}]
             /\ agen \in [Actors -> Nat] /\ link \in LinkFun
  <1>1. Touched
    BY DEF TypeOK, WaitTypeOK, LinkFun
  <1>2. tgt[TimerM] \in Tasks
    BY DEF TimeoutRemove, ActorInv, Actors
  <1>3. Finish(TimerM) => /\ apc' \in [Actors -> ActorPcs] /\ tgt' \in [Actors -> Tasks \cup {None}]
                          /\ agen' \in [Actors -> Nat] /\ link' \in LinkFun
    BY <1>2, FinishType DEF Actors
  <1>4. Touched'
    <2>1. waitq' \in [Queues -> Seq(Tasks)]
      BY <1>1, UnlinkType DEF TimeoutRemove
    <2>2. err' \in [Tasks -> Errors]
      BY <1>1, <1>2 DEF TimeoutRemove, Errors
    <2>3. CASE Finish(TimerM)
      BY <1>3, <2>1, <2>2, <2>3
    <2>4. CASE ~Finish(TimerM)
      BY <1>1, <2>1, <2>2, <2>4 DEF TimeoutRemove, ActorPcs, HoldPcs, Actors
    <2> QED BY <2>3, <2>4
  <1> QED BY <1>4, Zenon DEF TimeoutRemove, TypeOK, WaitTypeOK, nodeVars, trackVars, sourceVars, LinkFun

\* llam_cancel_token_cancel keeps the types.
LEMMA CancelTokenType ==
  ASSUME TypeOK, ActorInv, CancelToken, UNCHANGED owner
  PROVE  TypeOK'
  <1> DEFINE Touched ==
             /\ cancelled \in BOOLEAN /\ link \in LinkFun
  <1>1. Touched
    BY DEF TypeOK, WaitTypeOK, LinkFun
  <1>2. Touched'
    BY <1>1 DEF CancelToken, LinkFun
  <1> QED BY <1>2 DEF CancelToken, TypeOK, WaitTypeOK, nodeVars, trackVars, sourceVars, actorVars, LinkFun

\* A stop request keeps the types.
LEMMA RequestStopType ==
  ASSUME TypeOK, ActorInv, RequestStop, UNCHANGED owner
  PROVE  TypeOK'
  <1> DEFINE Touched ==
             /\ stop \in BOOLEAN
  <1>1. Touched
    BY DEF TypeOK, WaitTypeOK
  <1>2. Touched'
    BY <1>1 DEF RequestStop
  <1> QED BY <1>2 DEF RequestStop, TypeOK, WaitTypeOK, nodeVars, trackVars, sourceVars, actorVars

\* The collection of the parked tasks by a stop keeps the types.
LEMMA CollectParkedType ==
  ASSUME TypeOK, ActorInv, CollectParked, UNCHANGED owner
  PROVE  TypeOK'
  <1> DEFINE Touched ==
             /\ scan \in SUBSET Tasks
  <1>1. Touched
    BY DEF TypeOK, WaitTypeOK
  <1>2. Touched'
    BY <1>1 DEF CollectParked
  <1> QED BY <1>2 DEF CollectParked, TypeOK, WaitTypeOK, nodeVars, trackVars, sourceVars, actorVars

\* llam_mutex_trylock and the fast path of a lock keeps the types.
LEMMA TryLockType ==
  ASSUME TypeOK, ActorInv, NEW t \in Tasks, TryLock(t)
  PROVE  TypeOK'
  <1> DEFINE Touched ==
             /\ pc \in PcFun
  <1>1. Touched
    BY DEF TypeOK, WaitTypeOK, PcFun
  <1>2. Touched'
    BY <1>1 DEF TryLock, PcFun, OutPcs, InPcs, WaitPcs, SetupPcs, ParkPcs, DonePcs
  <1> QED BY <1>2 DEF TryLock, TypeOK, WaitTypeOK, nodeVars, trackVars, sourceVars, actorVars, PcFun

\* The entry to the slow path of a lock keeps the types.
LEMMA LockSlowType ==
  ASSUME TypeOK, ActorInv, NEW t \in Tasks, LockSlow(t)
  PROVE  TypeOK'
  <1> DEFINE Touched ==
             /\ pc \in PcFun
  <1>1. Touched
    BY DEF TypeOK, WaitTypeOK, PcFun
  <1>2. Touched'
    BY <1>1 DEF LockSlow, PcFun, OutPcs, InPcs, WaitPcs, SetupPcs, ParkPcs, DonePcs
  <1> QED BY <1>2 DEF LockSlow, TypeOK, WaitTypeOK, nodeVars, trackVars, sourceVars, actorVars, PcFun

\* The enqueue under the lock of the mutex keeps the types.
LEMMA LockQueueType ==
  ASSUME TypeOK, ActorInv, NEW t \in Tasks, LockQueue(t)
  PROVE  TypeOK'
  <1> DEFINE Touched ==
             /\ pc \in PcFun /\ waitq \in [Queues -> Seq(Tasks)] /\ armed \in ArmFun
             /\ completed \in [Tasks -> BOOLEAN] /\ err \in [Tasks -> Errors]
             /\ unint \in [Tasks -> BOOLEAN] /\ on \in [Tasks -> Queues \cup {None}]
             /\ deadline \in [Tasks -> BOOLEAN]
  <1>1. Touched
    BY DEF TypeOK, WaitTypeOK, PcFun, ArmFun
  <1>2. Touched'
    <2>1. CASE owner = None
      BY <1>1, <2>1 DEF LockQueue, nodeVars, PcFun, OutPcs, InPcs, WaitPcs, SetupPcs, ParkPcs, DonePcs
    <2>2. ASSUME NEW d \in BOOLEAN, PublishNode(t, MQ, FALSE, d) PROVE Touched'
      <3>1. pc' \in PcFun
        BY <1>1, <2>2 DEF PublishNode, PcFun, OutPcs, InPcs, WaitPcs, SetupPcs, ParkPcs, DonePcs
      <3>2. Append(waitq[MQ], t) \in Seq(Tasks)
        BY <1>1, MutexAssumption
      <3>3. waitq' \in [Queues -> Seq(Tasks)]
        BY <1>1, <2>2, <3>2, Zenon DEF PublishNode
      <3>4. armed' \in ArmFun /\ completed' \in [Tasks -> BOOLEAN] /\ err' \in [Tasks -> Errors]
        BY <1>1, <2>2 DEF PublishNode, AcquireNode, ArmFun, Errors
      <3>5. /\ unint' \in [Tasks -> BOOLEAN] /\ on' \in [Tasks -> Queues \cup {None}]
            /\ deadline' \in [Tasks -> BOOLEAN]
        BY <1>1, <2>2, MutexAssumption DEF PublishNode, AcquireNode
      <3> QED BY <3>1, <3>3, <3>4, <3>5
    <2> QED BY <2>1, <2>2, Zenon DEF LockQueue
  <1> QED BY <1>2 DEF LockQueue, PublishNode, AcquireNode, TypeOK, WaitTypeOK, trackVars, sourceVars, actorVars, PcFun, ArmFun

\* The return of a lock keeps the types.
LEMMA LockReturnType ==
  ASSUME TypeOK, ActorInv, NEW t \in Tasks, LockReturn(t)
  PROVE  TypeOK'
  <1> DEFINE Touched ==
             /\ pc \in PcFun /\ gen \in [Tasks -> Nat]
             /\ tracked \in [Tasks -> BOOLEAN] /\ armed \in ArmFun
             /\ completed \in [Tasks -> BOOLEAN] /\ err \in [Tasks -> Errors]
             /\ unint \in [Tasks -> BOOLEAN] /\ on \in [Tasks -> Queues \cup {None}]
             /\ deadline \in [Tasks -> BOOLEAN]
  <1>1. Touched
    BY DEF TypeOK, WaitTypeOK, PcFun, ArmFun
  <1>2. Touched'
    BY <1>1 DEF LockReturn, LeaveWait, PcFun, ArmFun, OutPcs, InPcs, WaitPcs, SetupPcs, ParkPcs, DonePcs, Errors
  <1> QED BY <1>2, SMTT(30) DEF LockReturn, LeaveWait, TypeOK, WaitTypeOK, trackVars, sourceVars, actorVars, PcFun, ArmFun

\* llam_mutex_unlock keeps the types.
LEMMA UnlockType ==
  ASSUME TypeOK, ActorInv, NEW t \in Tasks, Unlock(t)
  PROVE  TypeOK'
  <1> DEFINE Touched ==
             /\ pc \in PcFun /\ waitq \in [Queues -> Seq(Tasks)]
             /\ err \in [Tasks -> Errors] /\ apc \in [Actors -> ActorPcs]
             /\ tgt \in [Actors -> Tasks \cup {None}] /\ owner \in Tasks \cup {None}
  <1>1. Touched
    BY DEF TypeOK, WaitTypeOK, PcFun
  <1>2. Touched'
    <2>1. CASE waitq[MQ] = <<>>
      BY <1>1, <2>1, WaitAssumption DEF Unlock, actorVars, PcFun, OutPcs, InPcs, WaitPcs, SetupPcs, ParkPcs, DonePcs
    <2>2. CASE waitq[MQ] # <<>>
      <3> DEFINE h == Head(waitq[MQ])
      <3>1. h \in Tasks /\ Tail(waitq[MQ]) \in Seq(Tasks)
        BY <1>1, <2>2, MutexAssumption
      <3>2. pc' \in PcFun
        BY <1>1, <2>2 DEF Unlock, PcFun, OutPcs, InPcs, WaitPcs, SetupPcs, ParkPcs, DonePcs
      <3>3. waitq' \in [Queues -> Seq(Tasks)]
        BY <1>1, <2>2, <3>1, Zenon DEF Unlock
      <3>4. err' \in [Tasks -> Errors]
        BY <1>1, <2>2, <3>1, Zenon DEF Unlock, Errors
      <3>5. apc' \in [Actors -> ActorPcs] /\ tgt' \in [Actors -> Tasks \cup {None}]
        <4>1. /\ apc' = [apc EXCEPT ![t] = "wake"] /\ tgt' = [tgt EXCEPT ![t] = h]
              /\ t \in Actors /\ "wake" \in ActorPcs
          BY <2>2 DEF Unlock, Actors, ActorPcs, HoldPcs
        <4> HIDE DEF h
        <4> QED BY <1>1, <3>1, <4>1
      <3>6. owner' \in Tasks \cup {None}
        BY <2>2, <3>1 DEF Unlock
      <3> QED BY <3>2, <3>3, <3>4, <3>5, <3>6
    <2> QED BY <2>1, <2>2, SMTT(30)
  <1> QED BY <1>2 DEF Unlock, TypeOK, WaitTypeOK, nodeVars, trackVars, sourceVars, actorVars, PcFun

\* The return of an unlock from its wake keeps the types.
LEMMA WakeReturnType ==
  ASSUME TypeOK, ActorInv, NEW t \in Tasks, WakeReturn(t)
  PROVE  TypeOK'
  <1> DEFINE Touched ==
             /\ pc \in PcFun
  <1>1. Touched
    BY DEF TypeOK, WaitTypeOK, PcFun
  <1>2. Touched'
    BY <1>1 DEF WakeReturn, PcFun, OutPcs, InPcs, WaitPcs, SetupPcs, ParkPcs, DonePcs
  <1> QED BY <1>2, SMTT(30) DEF WakeReturn, TypeOK, WaitTypeOK, nodeVars, trackVars, sourceVars, actorVars, PcFun

\* Types are kept by every step.
LEMMA TypeStep ==
  ASSUME TypeOK, ActorInv, Next
  PROVE  TypeOK'
  <1>1. ASSUME NEW t \in Tasks, MutexStep(t) PROVE TypeOK'
    BY <1>1, TryLockType, LockSlowType, LockQueueType, LockReturnType, UnlockType,
       WakeReturnType DEF MutexStep
  <1>2. ASSUME NEW t \in Tasks, WaiterStep(t), UNCHANGED owner PROVE TypeOK'
    BY <1>2, SetTrackingType, ArmDeadlineType, RegisterType, UndoType, ShouldParkType,
       ParkType, CleanupType DEF WaiterStep
  <1>3. ASSUME NEW a \in Actors, ActorStep(a), UNCHANGED owner PROVE TypeOK'
    BY <1>3, BeginType, CancelRemoveType, ResolverEndType, PrepareWakeType,
       StoreCompletedType, ReinjectType, RequeueType, HandoffType DEF ActorStep
  <1>4. CASE WaitNext /\ UNCHANGED owner
    BY <1>2, <1>3, <1>4, DispatchType, PopTimerType, DeliverType, CancelParkedType,
       TimeoutCheckType, TimeoutRemoveType, CancelTokenType, RequestStopType,
       CollectParkedType DEF WaitNext
  <1> QED BY <1>1, <1>4 DEF Next

====
