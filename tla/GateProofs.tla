------------------------------- MODULE GateProofs -------------------------------
(***************************************************************************)
(* The resolver gate and the wait generation: whoever works on a wait from *)
(* outside works on the one that is published, for any tasks and any       *)
(* number of waits.                                                        *)
(***************************************************************************)
EXTENDS MutexProofs

\* Control points of an actor inside the gate.
GatedPcs == {"remove", "leave", "end"}
OpenPcs  == WaitPcs \cup {"cleanup"}

-----------------------------------------------------------------------------
(* Kinds of step, as the gate sees them. *)

\* The gate does not move, no actor enters or leaves it, and a task with an open
\* gate stays in its wait.
LEMMA GateStays ==
  ASSUME GateInv, UNCHANGED <<tracked, closed, refs, gen>>,
         \A u \in Tasks : ~closed[u] => pc'[u] \in OpenPcs,
         \A b \in Actors :
            \/ apc'[b] = apc[b] /\ tgt'[b] = tgt[b] /\ agen'[b] = agen[b]
            \/ apc[b] \notin GatedPcs /\ apc'[b] \notin GatedPcs \cup {"redrain"}
            \/ apc[b] \in GatedPcs /\ apc'[b] \in GatedPcs /\ tgt'[b] = tgt[b] /\ agen'[b] = agen[b]
  PROVE  GateInv'
  <1>1. \A t \in Tasks, a \in Actors : a \in refs'[t] <=> apc'[a] \in GatedPcs /\ tgt'[a] = t
    BY DEF GateInv, GatedPcs
  <1>2. \A t \in Tasks, a \in Actors : a \in refs'[t] => tracked'[t] /\ gen'[t] = agen'[a]
    BY <1>1 DEF GateInv, GatedPcs
  <1>3. \A t \in Tasks : ~closed'[t] => tracked'[t] /\ pc'[t] \in OpenPcs
    BY DEF GateInv
  <1>4. \A a \in Actors : apc'[a] = "redrain" => closed'[tgt'[a]]
    BY DEF GateInv, GatedPcs
  <1> QED BY <1>1, <1>2, <1>3, <1>4 DEF GateInv, GatedPcs, OpenPcs

\* Nobody moves on the resolving side; one task moves, and stays in its wait if
\* it is in one.
LEMMA GateTaskMoves ==
  ASSUME TypeOK, GateInv, NEW t \in Tasks, NEW p, pc' = [pc EXCEPT ![t] = p],
         pc[t] \in OpenPcs => p \in OpenPcs,
         UNCHANGED <<tracked, closed, refs, gen, apc, tgt, agen>>
  PROVE  GateInv'
  <1>1. \A u \in Tasks : ~closed[u] => pc'[u] \in OpenPcs
    <2>1. pc'[t] = p /\ \A u \in Tasks \ {t} : pc'[u] = pc[u]
      BY DEF TypeOK, WaitTypeOK
    <2> QED BY <2>1 DEF GateInv, OpenPcs
  <1> QED BY <1>1, GateStays

\* One actor moves outside the gate, or within it; nothing else does.
LEMMA GateActorMoves ==
  ASSUME TypeOK, GateInv, NEW a \in Actors, NEW p, apc' = [apc EXCEPT ![a] = p],
         \A b \in Actors \ {a} : tgt'[b] = tgt[b] /\ agen'[b] = agen[b],
         \/ apc[a] \notin GatedPcs /\ p \notin GatedPcs \cup {"redrain"}
         \/ apc[a] \in GatedPcs /\ p \in GatedPcs /\ tgt'[a] = tgt[a] /\ agen'[a] = agen[a],
         UNCHANGED <<tracked, closed, refs, gen>>,
         \A u \in Tasks : ~closed[u] => pc'[u] \in OpenPcs
  PROVE  GateInv'
  <1>1. apc'[a] = p /\ \A b \in Actors \ {a} : apc'[b] = apc[b]
    BY DEF TypeOK, WaitTypeOK
  <1> QED BY <1>1, GateStays

\* An actor forgets its node.
LEMMA FinishFrees ==
  ASSUME TypeOK, NEW a \in Actors, Finish(a)
  PROVE  /\ apc' = [apc EXCEPT ![a] = "off"]
         /\ \A b \in Actors \ {a} : tgt'[b] = tgt[b] /\ agen'[b] = agen[b]
  BY DEF Finish, TypeOK, WaitTypeOK

-----------------------------------------------------------------------------
(* The waiting side. *)

\* Only SetTracking opens a gate, for a wait that has just been published.
LEMMA GateWaiter ==
  ASSUME TypeOK, WaitInv, TrackInv, GateInv, NEW t \in Tasks, WaiterStep(t) \/ Dispatch(t)
  PROVE  GateInv'
  <1> USE DEF OpenPcs, WaitPcs, SetupPcs, ParkPcs
  <1>1. CASE SetTracking(t)
    <2>1. /\ pc'[t] = "arm" /\ tracked'[t] /\ refs[t] = {} /\ refs' = refs
          /\ apc' = apc /\ tgt' = tgt /\ agen' = agen
          /\ \A u \in Tasks \ {t} : /\ pc'[u] = pc[u] /\ tracked'[u] = tracked[u]
                                    /\ closed'[u] = closed[u] /\ gen'[u] = gen[u]
      BY <1>1 DEF SetTracking, actorVars, TypeOK, WaitTypeOK
    <2>2. \A a \in Actors : apc[a] = "redrain" => tgt[a] # t
      BY <1>1 DEF WaitInv, RequeueInv, RequeuePcs, SetTracking
    <2>3. \A a \in Actors : apc[a] = "redrain" => tgt[a] \in Tasks
      BY ActorTarget
    <2> QED BY <2>1, <2>2, <2>3 DEF GateInv
  <1>2. CASE ArmDeadline(t)
    <2>1. \E p \in {"register", "wait_ready", "undo_arm"} : pc' = [pc EXCEPT ![t] = p]
      BY <1>2 DEF ArmDeadline, SetupFailed
    <2> QED BY <1>2, <2>1, GateTaskMoves DEF ArmDeadline, trackVars, actorVars
  <1>3. CASE Register(t)
    <2>1. \E p \in {"wait_ready", "undo_reg"} : pc' = [pc EXCEPT ![t] = p]
      BY <1>3 DEF Register, SetupFailed
    <2> QED BY <1>3, <2>1, GateTaskMoves DEF Register, trackVars, actorVars
  <1>4. CASE Undo(t)
    <2>1. \E p \in {"wait_ready", "cleanup"} : pc' = [pc EXCEPT ![t] = p]
      BY <1>4 DEF Undo
    <2> QED BY <1>4, <2>1, GateTaskMoves DEF Undo, actorVars
  <1>5. CASE ShouldPark(t)
    <2>1. \E p \in {"park", "cleanup"} : pc' = [pc EXCEPT ![t] = p]
      BY <1>5 DEF ShouldPark
    <2> QED BY <1>5, <2>1, GateTaskMoves DEF ShouldPark, actorVars
  <1>6. CASE Park(t)
    <2>1. \A u \in Tasks : ~closed[u] => pc'[u] \in OpenPcs
      BY <1>6 DEF Park, GateInv, TypeOK, WaitTypeOK
    <2>2. apc[t] = "off" /\ t \in Actors
      BY <1>6, TaskOff DEF Park, Actors
    <2>3. CASE stop
      <3>1. /\ apc' = [apc EXCEPT ![t] = "begin"]
            /\ \A b \in Actors \ {t} : tgt'[b] = tgt[b] /\ agen'[b] = agen[b]
        BY <1>6, <2>3 DEF Park, TypeOK, WaitTypeOK
      <3> QED BY <1>6, <2>1, <2>2, <3>1, GateActorMoves DEF Park, GatedPcs
    <2>4. CASE ~stop
      BY <1>6, <2>1, <2>4, GateStays DEF Park, actorVars
    <2> QED BY <2>3, <2>4
  <1>7. CASE Cleanup(t)
    <2>1. /\ closed'[t] /\ tracked' = tracked /\ refs' = refs /\ gen' = gen
          /\ apc' = apc /\ tgt' = tgt /\ agen' = agen
          /\ \A u \in Tasks \ {t} : pc'[u] = pc[u] /\ closed'[u] = closed[u]
      BY <1>7 DEF Cleanup, actorVars, TypeOK, WaitTypeOK
    <2>2. \A a \in Actors : apc[a] = "redrain" => tgt[a] \in Tasks
      BY ActorTarget
    <2> QED BY <2>1, <2>2 DEF GateInv
  <1>8. CASE Dispatch(t)
    <2>1. \E p \in {"cleanup", "idle", "crit"} :
             pc' = [pc EXCEPT ![t] = p] /\ (pc[t] \in OpenPcs => p \in OpenPcs)
      BY <1>8 DEF Dispatch, SwitchedOut
    <2> QED BY <1>8, <2>1, GateTaskMoves DEF Dispatch, actorVars
  <1> QED BY <1>1, <1>2, <1>3, <1>4, <1>5, <1>6, <1>7, <1>8 DEF WaiterStep

-----------------------------------------------------------------------------
(* The resolving side. *)

\* A task whose gate is open stays where it is.
LEMMA GateHolds ==
  ASSUME GateInv, UNCHANGED pc
  PROVE  \A u \in Tasks : ~closed[u] => pc'[u] \in OpenPcs
  BY DEF GateInv, OpenPcs

\* The gate counts the same actors when one moves outside it.
LEMMA RefsKept ==
  ASSUME GateInv, UNCHANGED refs, NEW a \in Actors,
         apc[a] \notin GatedPcs, apc'[a] \notin GatedPcs,
         \A b \in Actors \ {a} : apc'[b] = apc[b] /\ tgt'[b] = tgt[b]
  PROVE  \A u \in Tasks, b \in Actors : b \in refs'[u] <=> apc'[b] \in GatedPcs /\ tgt'[b] = u
  <1> SUFFICES ASSUME NEW u \in Tasks, NEW b \in Actors
               PROVE  b \in refs[u] <=> apc'[b] \in GatedPcs /\ tgt'[b] = u
    OBVIOUS
  <1>1. b \in refs[u] <=> apc[b] \in GatedPcs /\ tgt[b] = u
    BY DEF GateInv, GatedPcs
  <1> QED BY <1>1

\* ... and they work on the same waits, when one whose gate is empty ends.
LEMMA PinsKept ==
  ASSUME TypeOK, GateInv, UNCHANGED refs, NEW a \in Actors, NEW t \in Tasks, refs[t] = {},
         apc[a] \notin GatedPcs,
         \A b \in Actors \ {a} : agen'[b] = agen[b],
         \A u \in Tasks \ {t} : gen'[u] = gen[u] /\ tracked'[u] = tracked[u]
  PROVE  \A u \in Tasks, b \in Actors : b \in refs'[u] => tracked'[u] /\ gen'[u] = agen'[b]
  <1> SUFFICES ASSUME NEW u \in Tasks, NEW b \in Actors, b \in refs[u]
               PROVE  tracked'[u] /\ gen'[u] = agen'[b]
    OBVIOUS
  <1>1. u # t /\ b # a
    BY DEF GateInv, GatedPcs
  <1> QED BY <1>1 DEF GateInv

\* Resolvers enter an open gate only, and generations pass only through a gate
\* that is closed and empty.
LEMMA GateActor ==
  ASSUME TypeOK, WaitInv, TrackInv, GateInv, NEW a \in Actors, ActorStep(a)
  PROVE  GateInv'
  <1> DEFINE t == tgt[a]
  <1>0. apc[a] # "off" => t \in Tasks
    BY ActorTarget
  <1>9. \A b \in Actors : apc[b] = "redrain" => tgt[b] \in Tasks
    BY ActorTarget
  <1> HIDE DEF t
  <1>1. CASE Begin(a)
    <2>1. t \in Tasks /\ apc[a] = "begin"
      BY <1>0, <1>1 DEF Begin
    <2>2. CASE closed[t]
      <3>1. Finish(a) /\ UNCHANGED <<tracked, closed, refs, gen, pc>>
        BY <1>1, <2>2 DEF Begin, t
      <3> QED BY <2>1, <3>1, FinishFrees, GateHolds, GateActorMoves DEF GatedPcs
    <2>3. CASE ~closed[t]
      <3>1. /\ refs' = [refs EXCEPT ![t] = @ \cup {a}] /\ agen' = [agen EXCEPT ![a] = gen[t]]
            /\ \E p \in {"remove", "leave"} : apc' = [apc EXCEPT ![a] = p]
            /\ UNCHANGED <<tracked, closed, gen, pc, tgt>>
        BY <1>1, <2>3 DEF Begin, t
      <3>2. /\ refs'[t] = refs[t] \cup {a} /\ \A u \in Tasks \ {t} : refs'[u] = refs[u]
            /\ agen'[a] = gen[t] /\ \A b \in Actors \ {a} : agen'[b] = agen[b]
            /\ apc'[a] \in GatedPcs /\ \A b \in Actors \ {a} : apc'[b] = apc[b]
        BY <2>1, <3>1 DEF TypeOK, WaitTypeOK, GatedPcs
      <3>3. tracked[t]
        BY <2>1, <2>3 DEF GateInv
      <3>4. \A u \in Tasks, b \in Actors : b \in refs'[u] <=> apc'[b] \in GatedPcs /\ tgt'[b] = u
        BY <2>1, <3>1, <3>2 DEF t, GateInv, GatedPcs
      <3>5. \A u \in Tasks, b \in Actors : b \in refs'[u] => tracked'[u] /\ gen'[u] = agen'[b]
        <4> SUFFICES ASSUME NEW u \in Tasks, NEW b \in Actors, b \in refs'[u]
                     PROVE  tracked[u] /\ gen[u] = agen'[b]
          BY <3>1
        <4>1. CASE b = a
          BY <2>1, <3>1, <3>2, <3>3, <3>4, <4>1 DEF t
        <4>2. CASE b # a
          BY <2>1, <3>1, <3>2, <4>2 DEF GateInv
        <4> QED BY <4>1, <4>2
      <3>6. \A b \in Actors : apc'[b] = "redrain" => closed'[tgt'[b]]
        BY <3>1, <3>2 DEF GateInv, GatedPcs
      <3> QED BY <3>1, <3>4, <3>5, <3>6 DEF GateInv, GatedPcs
    <2> QED BY <2>2, <2>3
  <1>2. CASE CancelRemove(a)
    <2>1. /\ apc[a] \in GatedPcs /\ UNCHANGED <<tracked, closed, refs, gen, pc, tgt, agen>>
          /\ \E p \in GatedPcs : apc' = [apc EXCEPT ![a] = p]
      BY <1>2 DEF CancelRemove, trackVars, GatedPcs
    <2> QED BY <2>1, GateHolds, GateActorMoves
  <1>3. CASE ResolverEnd(a)
    <2>1. /\ t \in Tasks /\ apc[a] \in GatedPcs
          /\ refs' = [refs EXCEPT ![t] = @ \ {a}]
          /\ UNCHANGED <<tracked, closed, gen, pc>>
      BY <1>0, <1>3 DEF ResolverEnd, GatedPcs, t
    <2>2. /\ \E p \in {"wake", "off"} : apc' = [apc EXCEPT ![a] = p]
          /\ \A b \in Actors \ {a} : tgt'[b] = tgt[b] /\ agen'[b] = agen[b]
      BY <1>3, FinishFrees DEF ResolverEnd
    <2>3. /\ refs'[t] = refs[t] \ {a} /\ \A u \in Tasks \ {t} : refs'[u] = refs[u]
          /\ apc'[a] \notin GatedPcs \cup {"redrain"} /\ \A b \in Actors \ {a} : apc'[b] = apc[b]
      BY <2>1, <2>2 DEF TypeOK, WaitTypeOK, GatedPcs
    <2>4. \A u \in Tasks, b \in Actors : b \in refs'[u] <=> apc'[b] \in GatedPcs /\ tgt'[b] = u
      <3> SUFFICES ASSUME NEW u \in Tasks, NEW b \in Actors
                   PROVE  b \in refs'[u] <=> apc'[b] \in GatedPcs /\ tgt'[b] = u
        OBVIOUS
      <3>1. b \in refs[u] <=> apc[b] \in GatedPcs /\ tgt[b] = u
        BY DEF GateInv, GatedPcs
      <3>2. CASE b = a
        <4>1. apc'[b] \notin GatedPcs /\ (b \in refs[u] => u = t)
          BY <2>3, <3>1, <3>2 DEF t
        <4> QED BY <2>3, <3>2, <4>1
      <3>3. CASE b # a
        <4>1. apc'[b] = apc[b] /\ tgt'[b] = tgt[b] /\ (b \in refs'[u] <=> b \in refs[u])
          BY <2>2, <2>3, <3>3
        <4> QED BY <3>1, <4>1
      <3> QED BY <3>2, <3>3
    <2>5. \A u \in Tasks, b \in Actors : b \in refs'[u] => tracked'[u] /\ gen'[u] = agen'[b]
      BY <2>1, <2>2, <2>3, <2>4 DEF GateInv
    <2>6. \A b \in Actors : apc'[b] = "redrain" => closed'[tgt'[b]]
      BY <2>1, <2>2, <2>3 DEF GateInv
    <2> QED BY <2>1, <2>4, <2>5, <2>6 DEF GateInv, GatedPcs
  <1>4. CASE PrepareWake(a)
    <2>1. /\ apc[a] = "wake" /\ UNCHANGED <<tracked, closed, refs, gen, pc>>
          /\ \E p \in {"store", "reinject", "off"} : apc' = [apc EXCEPT ![a] = p]
          /\ \A b \in Actors \ {a} : tgt'[b] = tgt[b] /\ agen'[b] = agen[b]
      BY <1>4, FinishFrees DEF PrepareWake, trackVars
    <2> QED BY <2>1, GateHolds, GateActorMoves DEF GatedPcs
  <1>5. CASE StoreCompleted(a)
    <2>1. apc[a] = "store" /\ Finish(a) /\ UNCHANGED <<tracked, closed, refs, gen, pc>>
      BY <1>5 DEF StoreCompleted, trackVars
    <2> QED BY <2>1, FinishFrees, GateHolds, GateActorMoves DEF GatedPcs
  <1>6. CASE Reinject(a)
    <2>1. /\ t \in Tasks /\ apc[a] = "reinject" /\ closed' = [closed EXCEPT ![t] = TRUE]
          /\ apc' = [apc EXCEPT ![a] = "redrain"] /\ tgt[a] = t
          /\ UNCHANGED <<tracked, refs, gen, pc, tgt, agen>>
      BY <1>0, <1>6 DEF Reinject, t
    <2>2. /\ closed'[t] /\ \A u \in Tasks \ {t} : closed'[u] = closed[u]
          /\ apc'[a] = "redrain" /\ \A b \in Actors \ {a} : apc'[b] = apc[b]
      BY <2>1 DEF TypeOK, WaitTypeOK
    <2>3. \A u \in Tasks, b \in Actors : b \in refs'[u] <=> apc'[b] \in GatedPcs /\ tgt'[b] = u
      BY <2>1, <2>2, RefsKept DEF GatedPcs
    <2>4. \A u \in Tasks : ~closed'[u] => tracked'[u] /\ pc'[u] \in OpenPcs
      BY <2>1, <2>2 DEF GateInv, OpenPcs
    <2>5. \A b \in Actors : apc'[b] = "redrain" => closed'[tgt'[b]]
      BY <1>9, <2>1, <2>2 DEF GateInv
    <2>6. \A u \in Tasks, b \in Actors : b \in refs'[u] => tracked'[u] /\ gen'[u] = agen'[b]
      BY <2>1 DEF GateInv
    <2> QED BY <2>3, <2>4, <2>5, <2>6 DEF GateInv, GatedPcs, OpenPcs
  <1>7. CASE Requeue(a)
    <2>1. /\ gen' = [gen EXCEPT ![t] = gen[t] + 1] /\ tracked' = [tracked EXCEPT ![t] = FALSE]
          /\ apc' = [apc EXCEPT ![a] = "off"]
      BY <1>7 DEF Requeue, Finish, t
    <2>2. /\ t \in Tasks /\ apc[a] = "redrain" /\ tgt[a] = t /\ refs[t] = {}
          /\ UNCHANGED <<closed, refs, pc>>
      BY <1>0, <1>7 DEF Requeue, t
    <2>3. /\ apc'[a] = "off" /\ \A b \in Actors \ {a} : apc'[b] = apc[b]
          /\ \A u \in Tasks \ {t} : gen'[u] = gen[u] /\ tracked'[u] = tracked[u]
      BY <2>1, <2>2 DEF TypeOK, WaitTypeOK
    <2>4. \A b \in Actors \ {a} : tgt'[b] = tgt[b] /\ agen'[b] = agen[b]
      BY <1>7, FinishFrees DEF Requeue
    <2>5. closed[t]
      BY <2>2 DEF GateInv
    <2>6. apc[a] \notin GatedPcs /\ apc'[a] \notin GatedPcs
      BY <2>2, <2>3 DEF GatedPcs
    <2>7. \A u \in Tasks, b \in Actors : b \in refs'[u] <=> apc'[b] \in GatedPcs /\ tgt'[b] = u
      BY <2>2, <2>3, <2>4, <2>6, RefsKept
    <2>8. \A u \in Tasks, b \in Actors : b \in refs'[u] => tracked'[u] /\ gen'[u] = agen'[b]
      BY <2>2, <2>3, <2>4, <2>6, PinsKept
    <2>9. \A u \in Tasks : ~closed'[u] => tracked'[u] /\ pc'[u] \in OpenPcs
      BY <2>2, <2>3, <2>5 DEF GateInv, OpenPcs
    <2>10. \A b \in Actors : apc'[b] = "redrain" => closed'[tgt'[b]]
      BY <2>2, <2>3, <2>4 DEF GateInv
    <2> QED BY <2>7, <2>8, <2>9, <2>10 DEF GateInv, GatedPcs, OpenPcs
  <1>8. CASE Handoff(a)
    <2>1. /\ closed' = [closed EXCEPT ![t] = TRUE] /\ apc' = [apc EXCEPT ![a] = "off"]
          /\ gen' = [gen EXCEPT ![t] = gen[t] + 1] /\ tracked' = [tracked EXCEPT ![t] = FALSE]
      BY <1>8 DEF Handoff, Finish, t
    <2>2. /\ a \in Tasks /\ pc[a] \in {"waking", "waking_in"} /\ apc[a] = "reinject"
          /\ t \in Tasks /\ refs[t] = {} /\ UNCHANGED refs
      BY <1>0, <1>8 DEF Handoff, t
    <2>3. /\ apc'[a] = "off" /\ \A b \in Actors \ {a} : apc'[b] = apc[b]
          /\ closed'[t] /\ \A u \in Tasks \ {t} : closed'[u] = closed[u]
          /\ \A u \in Tasks \ {t} : gen'[u] = gen[u] /\ tracked'[u] = tracked[u]
      BY <2>1, <2>2 DEF TypeOK, WaitTypeOK
    <2>4. \A b \in Actors \ {a} : tgt'[b] = tgt[b] /\ agen'[b] = agen[b]
      BY <1>8, FinishFrees DEF Handoff
    <2>5. \A u \in Tasks \ {t, a} : pc'[u] = pc[u]
      BY <1>8, <2>2 DEF Handoff, t, TypeOK, WaitTypeOK
    <2>6. closed[a] /\ apc[a] \notin GatedPcs /\ apc'[a] \notin GatedPcs
      BY <2>2, <2>3 DEF GateInv, GatedPcs, WaitPcs, SetupPcs, ParkPcs
    <2>7. \A u \in Tasks, b \in Actors : b \in refs'[u] <=> apc'[b] \in GatedPcs /\ tgt'[b] = u
      BY <2>2, <2>3, <2>4, <2>6, RefsKept
    <2>8. \A u \in Tasks, b \in Actors : b \in refs'[u] => tracked'[u] /\ gen'[u] = agen'[b]
      BY <2>2, <2>3, <2>4, <2>6, PinsKept
    <2>9. \A u \in Tasks : ~closed'[u] => tracked'[u] /\ pc'[u] \in OpenPcs
      <3> SUFFICES ASSUME NEW u \in Tasks, ~closed'[u] PROVE tracked'[u] /\ pc'[u] \in OpenPcs
        OBVIOUS
      <3>1. u # t /\ ~closed[u] /\ u # a
        BY <2>3, <2>6
      <3>2. tracked'[u] = tracked[u] /\ pc'[u] = pc[u]
        BY <2>3, <2>5, <3>1
      <3> QED BY <3>1, <3>2 DEF GateInv, OpenPcs
    <2>10. \A b \in Actors : apc'[b] = "redrain" => closed'[tgt'[b]]
      <3> SUFFICES ASSUME NEW b \in Actors, apc'[b] = "redrain" PROVE closed'[tgt'[b]]
        OBVIOUS
      <3>1. b # a /\ apc[b] = "redrain" /\ tgt'[b] = tgt[b]
        BY <2>3, <2>4
      <3>2. tgt[b] \in Tasks /\ closed[tgt[b]]
        BY <1>9, <3>1 DEF GateInv
      <3> QED BY <2>3, <3>1, <3>2
    <2> QED BY <2>7, <2>8, <2>9, <2>10 DEF GateInv, GatedPcs, OpenPcs
  <1> QED BY <1>1, <1>2, <1>3, <1>4, <1>5, <1>6, <1>7, <1>8 DEF ActorStep

\* The timer, the token and the stop pass reach a wait without touching its gate.
LEMMA GateSource ==
  ASSUME TypeOK, WaitInv, GateInv,
         \/ \E t \in Tasks : PopTimer(t) \/ Deliver(t) \/ CancelParked(t)
         \/ TimeoutCheck \/ TimeoutRemove \/ CancelToken \/ RequestStop \/ CollectParked
  PROVE  GateInv'
  <1> DEFINE Moves(a) ==
        /\ apc[a] \notin GatedPcs
        /\ \E p \in {"off", "begin", "check", "tremove", "wake"} : apc' = [apc EXCEPT ![a] = p]
        /\ \A b \in Actors \ {a} : tgt'[b] = tgt[b] /\ agen'[b] = agen[b]
  <1>1. UNCHANGED <<tracked, closed, refs, gen, pc>>
    BY Zenon DEF PopTimer, Deliver, CancelParked, TimeoutCheck, TimeoutRemove, CancelToken,
                 RequestStop, CollectParked, trackVars
  <1>2. ASSUME NEW a \in Actors, Moves(a) PROVE GateInv'
    <2>1. \A p \in {"off", "begin", "check", "tremove", "wake"} : p \notin GatedPcs \cup {"redrain"}
      BY DEF GatedPcs
    <2> QED BY <1>1, <1>2, <2>1, GateHolds, GateActorMoves
  <1>3. TimerM \in Actors /\ CancelM \in Actors /\ StopM \in Actors
    BY DEF Actors
  <1>4. ASSUME NEW t \in Tasks, PopTimer(t) PROVE Moves(TimerM)
    BY <1>3, <1>4 DEF PopTimer, TypeOK, WaitTypeOK, GatedPcs
  <1>5. ASSUME NEW t \in Tasks, Deliver(t) PROVE Moves(CancelM)
    BY <1>3, <1>5 DEF Deliver, TypeOK, WaitTypeOK, GatedPcs
  <1>6. ASSUME NEW t \in Tasks, CancelParked(t) PROVE Moves(StopM)
    BY <1>3, <1>6 DEF CancelParked, TypeOK, WaitTypeOK, GatedPcs
  <1>7. CASE TimeoutCheck
    <2>1. Moves(TimerM)
      BY <1>3, <1>7, FinishFrees DEF TimeoutCheck, GatedPcs
    <2> QED BY <1>2, <1>3, <2>1
  <1>8. CASE TimeoutRemove
    <2>1. Moves(TimerM)
      BY <1>3, <1>8, FinishFrees DEF TimeoutRemove, GatedPcs
    <2> QED BY <1>2, <1>3, <2>1
  <1>9. CASE CancelToken \/ RequestStop \/ CollectParked
    <2>1. UNCHANGED <<apc, tgt, agen>>
      BY <1>9 DEF CancelToken, RequestStop, CollectParked, actorVars
    <2> QED BY <1>1, <2>1, GateHolds, GateStays
  <1> HIDE DEF Moves
  <1> QED BY <1>2, <1>3, <1>4, <1>5, <1>6, <1>7, <1>8, <1>9

\* A lock or unlock call moves a task whose gate is closed.
LEMMA GateMutex ==
  ASSUME TypeOK, WaitInv, GateInv, NEW t \in Tasks, MutexStep(t)
  PROVE  GateInv'
  <1> USE DEF OpenPcs, WaitPcs, SetupPcs, ParkPcs
  <1>1. CASE TryLock(t) \/ LockSlow(t) \/ LockQueue(t) \/ WakeReturn(t)
    <2>1. /\ UNCHANGED <<tracked, closed, refs, gen, apc, tgt, agen>> /\ pc[t] \notin OpenPcs
          /\ \E p : pc' = [pc EXCEPT ![t] = p]
      BY <1>1 DEF TryLock, LockSlow, LockQueue, PublishNode, WakeReturn, trackVars, actorVars
    <2> QED BY <2>1, GateTaskMoves
  <1>2. CASE Unlock(t)
    <2>1. pc[t] = "crit" /\ \E p \in {"idle", "waking"} : pc' = [pc EXCEPT ![t] = p]
      BY <1>2 DEF Unlock
    <2>2. closed[t]
      BY <2>1 DEF GateInv
    <2>3. \A u \in Tasks \ {t} : pc'[u] = pc[u]
      BY <2>1 DEF TypeOK, WaitTypeOK
    <2>4. \A u \in Tasks : ~closed[u] => pc'[u] \in OpenPcs
      BY <2>2, <2>3 DEF GateInv
    <2>5. apc[t] = "off" /\ t \in Actors
      BY <1>2, TaskOff DEF Unlock, Actors
    <2>6. CASE waitq[MQ] # <<>>
      <3>1. /\ apc' = [apc EXCEPT ![t] = "wake"]
            /\ \A b \in Actors \ {t} : tgt'[b] = tgt[b] /\ agen'[b] = agen[b]
        BY <1>2, <2>6 DEF Unlock, TypeOK, WaitTypeOK
      <3> QED BY <1>2, <2>4, <2>5, <3>1, GateActorMoves DEF Unlock, trackVars, GatedPcs
    <2>7. CASE waitq[MQ] = <<>>
      BY <1>2, <2>4, <2>7, GateStays DEF Unlock, trackVars, actorVars
    <2> QED BY <2>6, <2>7
  <1>3. CASE LockReturn(t)
    <2>1. /\ pc[t] = "drain" /\ refs[t] = {}
          /\ gen' = [gen EXCEPT ![t] = gen[t] + 1] /\ tracked' = [tracked EXCEPT ![t] = FALSE]
          /\ UNCHANGED <<closed, refs, apc, tgt, agen>> /\ \E p : pc' = [pc EXCEPT ![t] = p]
      BY <1>3 DEF LockReturn, LeaveWait, actorVars
    <2>2. \A u \in Tasks \ {t} : gen'[u] = gen[u] /\ tracked'[u] = tracked[u] /\ pc'[u] = pc[u]
      BY <2>1 DEF TypeOK, WaitTypeOK
    <2>3. closed[t]
      BY <2>1 DEF GateInv
    <2> QED BY <2>1, <2>2, <2>3 DEF GateInv
  <1> QED BY <1>1, <1>2, <1>3 DEF MutexStep

-----------------------------------------------------------------------------
(* The theorems. *)

\* Every step of the system keeps the gate invariant.
LEMMA GateStep ==
  ASSUME TypeOK, WaitInv, TrackInv, GateInv, [Next]_vars
  PROVE  GateInv'
  <1>1. CASE UNCHANGED vars
    BY <1>1 DEF vars, waitVars, GateInv
  <1>2. CASE Next
    BY <1>2, GateMutex, GateWaiter, GateActor, GateSource DEF Next, WaitNext
  <1> QED BY <1>1, <1>2

\* The gate is exact in every reachable state: it counts the resolvers at work,
\* it is open only on a published wait, and no generation passes while it is
\* occupied.
THEOREM GateInvariant == Spec => []GateInv
  <1>1. Init => GateInv
    BY DEF Init, WaitInit, GateInv
  <1>2. MutexInv /\ GateInv /\ [Next]_vars => GateInv'
    BY GateStep DEF MutexInv
  <1> QED BY <1>1, <1>2, MutexInvariant, PTL DEF Spec

\* A resolver counted in the gate works on the wait whose owner fields are
\* published: llam_task_clear_wait_tracking drains the gate before it recycles
\* the node.
THEOREM ResolversPinned == Spec => []ResolverPinsWait
  <1>1. MutexInv /\ GateInv => ResolverPinsWait
    <2> SUFFICES ASSUME TypeOK, GateInv, NEW t \in Tasks, NEW a \in refs[t]
                 PROVE  /\ tgt[a] = t /\ apc[a] \in {"remove", "leave", "end"}
                        /\ tracked[t] /\ gen[t] = agen[a]
      BY DEF ResolverPinsWait, MutexInv
    <2>1. a \in Actors
      BY DEF TypeOK, WaitTypeOK
    <2> QED BY <2>1 DEF GateInv
  <1> QED BY <1>1, MutexInvariant, GateInvariant, PTL
====
