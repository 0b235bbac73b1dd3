-------------------------------- MODULE Cond --------------------------------
(***************************************************************************)
(* The LLAM condition variable together with the mutex it releases and     *)
(* reacquires.  A wait publishes its node and hands the mutex over, waking *)
(* the next mutex waiter, all under cond->lock; its return path reacquires *)
(* the mutex with an uninterruptible wait.                                 *)
(***************************************************************************)
EXTENDS Mutex, FiniteSets

CONSTANT CQ     \* cond->waiters

ASSUME CondAssumption == CQ \in Queues \ {MQ}

VARIABLES
    clock,      \* task that holds cond->lock while it hands the mutex over
    popped,     \* node->scalar_value: signal or broadcast took the node
    inflight,   \* cond->inflight_waiters
    wakes       \* private wake list of a broadcast

condVars == <<clock, popped, inflight, wakes>>
cvars == <<vars, condVars>>

CondInit ==
    /\ Init
    /\ clock = None
    /\ popped = [t \in Tasks |-> FALSE]
    /\ inflight = 0
    /\ wakes = [t \in Tasks |-> <<>>]

\* llam_cond_wait_impl up to the hand-over of the mutex.  With a mutex waiter
\* to wake, cond->lock stays held until the wake is delivered.
CondWait(t) ==
    /\ pc[t] = "crit" /\ owner = t /\ clock = None /\ gen[t] < MaxGen
    /\ \E d \in BOOLEAN : (d => t \in TimedTasks) /\ AcquireNode(t, CQ, FALSE, d)
    /\ \/ /\ waitq[MQ] = <<>>
          /\ owner' = None
          /\ waitq' = [waitq EXCEPT ![CQ] = Append(@, t)]
          /\ err' = [err EXCEPT ![t] = "OK"]
          /\ pc' = [pc EXCEPT ![t] = "queued"]
          /\ UNCHANGED clock /\ UNCHANGED actorVars
       \/ /\ waitq[MQ] # <<>>
          /\ owner' = Head(waitq[MQ])
          /\ waitq' = [waitq EXCEPT ![CQ] = Append(waitq[CQ], t),
                                   ![MQ] = Tail(waitq[MQ])]
          /\ err' = [err EXCEPT ![t] = "OK", ![Head(waitq[MQ])] = "OK"]
          /\ pc' = [pc EXCEPT ![t] = "handover"]
          /\ clock' = t
          /\ apc' = [apc EXCEPT ![t] = "wake"]
          /\ tgt' = [tgt EXCEPT ![t] = Head(waitq[MQ])]
          /\ UNCHANGED agen
    /\ UNCHANGED <<runq, popped, inflight, wakes>>
    /\ UNCHANGED trackVars /\ UNCHANGED sourceVars

\* The mutex waiter is woken: release cond->lock.
HandedOver(t) ==
    /\ pc[t] = "handover" /\ apc[t] = "off"
    /\ pc' = [pc EXCEPT ![t] = "queued"]
    /\ clock' = None
    /\ UNCHANGED <<waitq, runq, owner, popped, inflight, wakes>>
    /\ UNCHANGED nodeVars /\ UNCHANGED trackVars
    /\ UNCHANGED sourceVars /\ UNCHANGED actorVars

\* Mutant of CondWaitOver: drop a reference for a node nobody popped, too.
CondWaitOverAlways(t) ==
    /\ on[t] = CQ /\ LeaveWait(t)
    /\ on' = [on EXCEPT ![t] = None]
    /\ pc' = [pc EXCEPT ![t] = "reacquire"]
    /\ inflight' = inflight - 1
    /\ popped' = [popped EXCEPT ![t] = FALSE]
    /\ UNCHANGED <<owner, clock, wakes>>

\* The condition wait is over: drop the in-flight reference of a popped node.
CondWaitOver(t) ==
    /\ on[t] = CQ /\ LeaveWait(t)
    /\ on' = [on EXCEPT ![t] = None]
    /\ pc' = [pc EXCEPT ![t] = "reacquire"]
    /\ inflight' = IF popped[t] THEN inflight - 1 ELSE inflight
    /\ popped' = [popped EXCEPT ![t] = FALSE]
    /\ UNCHANGED <<owner, clock, wakes>>

\* llam_cond_reacquire_mutex: the owner word, then the fast exchange ...
Reacquire(t) ==
    /\ pc[t] = "reacquire"
    /\ \/ /\ owner \in {None, t} /\ owner' = t
          /\ pc' = [pc EXCEPT ![t] = "crit"]
       \/ /\ owner \notin {None, t} /\ UNCHANGED owner
          /\ pc' = [pc EXCEPT ![t] = "reslow"]
    /\ UNCHANGED <<waitq, runq>> /\ UNCHANGED condVars
    /\ UNCHANGED nodeVars /\ UNCHANGED trackVars
    /\ UNCHANGED sourceVars /\ UNCHANGED actorVars

\* ... then the queue, with a node that no deadline, token or stop may end.
ReacquireQueue(t) ==
    /\ pc[t] = "reslow"
    /\ \/ /\ owner = None /\ owner' = t
          /\ pc' = [pc EXCEPT ![t] = "crit"]
          /\ UNCHANGED waitq /\ UNCHANGED nodeVars
       \/ owner # None /\ UNCHANGED owner /\ PublishNode(t, MQ, TRUE, FALSE)
    /\ UNCHANGED runq /\ UNCHANGED condVars
    /\ UNCHANGED trackVars /\ UNCHANGED sourceVars /\ UNCHANGED actorVars

\* llam_cond_signal, by a task with or without the mutex.
Signal(t) ==
    /\ pc[t] \in {"idle", "crit"} /\ clock = None /\ waitq[CQ] # <<>>
    /\ LET h == Head(waitq[CQ]) IN
       /\ popped' = [popped EXCEPT ![h] = TRUE]
       /\ err' = [err EXCEPT ![h] = "OK"]
       /\ tgt' = [tgt EXCEPT ![t] = h]
    /\ waitq' = [waitq EXCEPT ![CQ] = Tail(@)]
    /\ inflight' = inflight + 1
    /\ apc' = [apc EXCEPT ![t] = "wake"]
    /\ pc' = [pc EXCEPT ![t] = IF @ = "idle" THEN "waking" ELSE "waking_in"]
    /\ UNCHANGED <<runq, owner, clock, wakes, agen,
                   armed, completed, unint, on, deadline>>
    /\ UNCHANGED trackVars /\ UNCHANGED sourceVars

\* llam_cond_broadcast: detach the whole queue under cond->lock ...
Broadcast(t) ==
    /\ pc[t] \in {"idle", "crit"} /\ clock = None /\ waitq[CQ] # <<>>
    /\ wakes' = [wakes EXCEPT ![t] = waitq[CQ]]
    /\ popped' = [u \in Tasks |-> popped[u] \/ Linked(CQ, u)]
    /\ err' = [u \in Tasks |-> IF Linked(CQ, u) THEN "OK" ELSE err[u]]
    /\ inflight' = inflight + Len(waitq[CQ])
    /\ waitq' = [waitq EXCEPT ![CQ] = <<>>]
    /\ pc' = [pc EXCEPT ![t] = IF @ = "idle" THEN "waking_all" ELSE "waking_all_in"]
    /\ UNCHANGED <<runq, owner, clock, armed, completed, unint, on, deadline>>
    /\ UNCHANGED trackVars /\ UNCHANGED sourceVars /\ UNCHANGED actorVars

\* Mutant of BroadcastWake: wake the head of the detached list and forget the
\* rest.
BroadcastWakeFirst(t) ==
    /\ pc[t] \in {"waking_all", "waking_all_in"} /\ apc[t] = "off"
    /\ \/ /\ wakes[t] # <<>>
          /\ apc' = [apc EXCEPT ![t] = "wake"]
          /\ tgt' = [tgt EXCEPT ![t] = Head(wakes[t])]
          /\ wakes' = [wakes EXCEPT ![t] = <<>>]
          /\ UNCHANGED <<pc, agen>>
       \/ /\ wakes[t] = <<>>
          /\ pc' = [pc EXCEPT ![t] = IF @ = "waking_all" THEN "idle" ELSE "crit"]
          /\ UNCHANGED wakes /\ UNCHANGED actorVars
    /\ UNCHANGED <<waitq, runq, owner, clock, popped, inflight>>
    /\ UNCHANGED nodeVars /\ UNCHANGED trackVars /\ UNCHANGED sourceVars

\* ... then wake the detached nodes one by one, without a handoff.
BroadcastWake(t) ==
    /\ pc[t] \in {"waking_all", "waking_all_in"} /\ apc[t] = "off"
    /\ \/ /\ wakes[t] # <<>>
          /\ apc' = [apc EXCEPT ![t] = "wake"]
          /\ tgt' = [tgt EXCEPT ![t] = Head(wakes[t])]
          /\ wakes' = [wakes EXCEPT ![t] = Tail(@)]
          /\ UNCHANGED <<pc, agen>>
       \/ /\ wakes[t] = <<>>
          /\ pc' = [pc EXCEPT ![t] = IF @ = "waking_all" THEN "idle" ELSE "crit"]
          /\ UNCHANGED wakes /\ UNCHANGED actorVars
    /\ UNCHANGED <<waitq, runq, owner, clock, popped, inflight>>
    /\ UNCHANGED nodeVars /\ UNCHANGED trackVars /\ UNCHANGED sourceVars

\* A step of the wait machinery.  One that unlinks a condition node, whether
\* a resolver's or a rollback's, needs cond->lock.
Apart(A) ==
    /\ A /\ UNCHANGED <<owner, clock, popped, inflight, wakes>>
    /\ clock # None => waitq'[CQ] = waitq[CQ]

CondStep(t) ==
    \/ CondWait(t) \/ HandedOver(t) \/ CondWaitOver(t) \/ Reacquire(t)
    \/ ReacquireQueue(t) \/ Signal(t) \/ Broadcast(t) \/ BroadcastWake(t)

CondNext ==
    \/ \E t \in Tasks : CondStep(t) \/ (MutexStep(t) /\ UNCHANGED condVars)
    \/ Apart(WaitNext)

CondSpec == CondInit /\ [][CondNext]_cvars

\* The scheduling assumptions of the mutex, with a mutex that is always
\* released; waiting, signalling, cancelling and stopping remain choices.
CondFairness ==
    /\ \A t \in Tasks :
          WF_cvars(\/ Apart(ParkStep(t))
                   \/ HandedOver(t) \/ CondWaitOver(t) \/ Reacquire(t)
                   \/ ReacquireQueue(t) \/ BroadcastWake(t)
                   \/ /\ LockQueue(t) \/ LockReturn(t) \/ WakeReturn(t) \/ Unlock(t)
                      /\ UNCHANGED condVars)
    /\ WF_cvars(Apart(TimerStep)) /\ WF_cvars(Apart(CancelStep)) /\ WF_cvars(Apart(StopStep))

CondFairSpec == CondSpec /\ CondFairness

-----------------------------------------------------------------------------
CondTypeOK ==
    /\ WaitTypeOK({"slow", "handover", "reacquire", "reslow"})
    /\ owner \in Tasks \cup {None} /\ clock \in Tasks \cup {None}
    /\ popped \in [Tasks -> BOOLEAN]
    /\ inflight \in Nat
    /\ wakes \in [Tasks -> Seq(Tasks)]

\* A broadcast also holds the nodes of its private list that it has yet to
\* wake; until it reaches them nobody else completes or recycles them.
CondResolvedOnce ==
    ResolvedOnceBy(LAMBDA t : Holders(t) \cup
                     {a \in Tasks : \E i \in 1..Len(wakes[a]) : wakes[a][i] = t})

\* The reacquisition of the mutex never fails, which llam_cond_reacquire_mutex
\* would answer with abort(): no deadline of the condition wait just ended, no
\* token and no stop reaches it.
ReacquireSucceeds == \A t \in Tasks : unint[t] => err[t] = "OK" /\ timer[t] = 0

\* A signal is never lost on a waiter that reports another outcome: a waiter
\* taken by signal or broadcast returns 0 whatever timer, token or stop does
\* meanwhile, and inflight_waiters counts exactly these waiters.
SignalNotLost ==
    /\ \A t \in Tasks : popped[t] =>
          on[t] = CQ /\ pc[t] \in WaitPcs \cup DonePcs /\ err[t] = "OK"
    /\ inflight = Cardinality({t \in Tasks : popped[t]})

\* A signalled waiter gets back into its critical section.
SignalledReturns == \A t \in Tasks : popped[t] ~> pc[t] = "crit"

\* A stop request ends every condition wait, and its caller gets the mutex.
StopEndsCondWaits ==
    \A t \in Tasks : stop /\ on[t] = CQ ~> pc[t] = "crit"
====
