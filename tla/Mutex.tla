-------------------------------- MODULE Mutex --------------------------------
(***************************************************************************)
(* The LLAM runtime mutex: an atomic owner word, a FIFO of wait nodes, and *)
(* direct transfer of ownership to the head of the queue at unlock, before *)
(* that waiter is woken.                                                   *)
(***************************************************************************)
EXTENDS WaitNode

CONSTANT MQ     \* mutex->waiters

ASSUME MutexAssumption == MQ \in Queues

VARIABLE owner  \* mutex->owner

vars == <<waitVars, owner>>

Init == WaitInit /\ owner = None

\* llam_mutex_trylock and the fast path of llam_mutex_lock_resolved_impl.
TryLock(t) ==
    /\ pc[t] = "idle" /\ owner = None
    /\ owner' = t
    /\ pc' = [pc EXCEPT ![t] = "crit"]
    /\ UNCHANGED <<waitq, runq>> /\ UNCHANGED nodeVars
    /\ UNCHANGED trackVars /\ UNCHANGED sourceVars /\ UNCHANGED actorVars

\* The fast exchange fails and the deadline has not passed.
LockSlow(t) ==
    /\ pc[t] = "idle" /\ owner \notin {None, t} /\ gen[t] < MaxGen
    /\ pc' = [pc EXCEPT ![t] = "slow"]
    /\ UNCHANGED <<waitq, runq, owner>> /\ UNCHANGED nodeVars
    /\ UNCHANGED trackVars /\ UNCHANGED sourceVars /\ UNCHANGED actorVars

\* Under mutex->lock: take a mutex released meanwhile, or join the queue.
LockQueue(t) ==
    /\ pc[t] = "slow"
    /\ \/ /\ owner = None /\ owner' = t
          /\ pc' = [pc EXCEPT ![t] = "crit"]
          /\ UNCHANGED waitq /\ UNCHANGED nodeVars
       \/ /\ owner # None /\ UNCHANGED owner
          /\ \E d \in BOOLEAN : (d => t \in TimedTasks) /\ PublishNode(t, MQ, FALSE, d)
    /\ UNCHANGED runq
    /\ UNCHANGED trackVars /\ UNCHANGED sourceVars /\ UNCHANGED actorVars

\* The wait is over: rc = node->error_code.
LockReturn(t) ==
    /\ on[t] = MQ /\ LeaveWait(t)
    /\ on' = [on EXCEPT ![t] = None]
    /\ pc' = [pc EXCEPT ![t] = IF err[t] = "OK" THEN "crit" ELSE "idle"]
    /\ UNCHANGED owner

\* Mutant of Unlock: release the mutex and let the woken waiter find out.
UnlockReleases(t) ==
    /\ pc[t] = "crit" /\ owner = t
    /\ owner' = None
    /\ \/ /\ waitq[MQ] = <<>>
          /\ pc' = [pc EXCEPT ![t] = "idle"]
          /\ UNCHANGED <<waitq, err>> /\ UNCHANGED actorVars
       \/ /\ waitq[MQ] # <<>>
          /\ waitq' = [waitq EXCEPT ![MQ] = Tail(waitq[MQ])]
          /\ err' = [err EXCEPT ![Head(waitq[MQ])] = "OK"]
          /\ pc' = [pc EXCEPT ![t] = "waking"]
          /\ apc' = [apc EXCEPT ![t] = "wake"]
          /\ tgt' = [tgt EXCEPT ![t] = Head(waitq[MQ])]
          /\ UNCHANGED agen
    /\ UNCHANGED <<runq, armed, completed, unint, on, deadline>>
    /\ UNCHANGED trackVars /\ UNCHANGED sourceVars

\* llam_mutex_unlock under mutex->lock: the head of the queue becomes the
\* owner and is then woken.
Unlock(t) ==
    /\ pc[t] = "crit" /\ owner = t
    /\ \/ /\ waitq[MQ] = <<>>
          /\ owner' = None
          /\ pc' = [pc EXCEPT ![t] = "idle"]
          /\ UNCHANGED <<waitq, err>> /\ UNCHANGED actorVars
       \/ /\ waitq[MQ] # <<>>
          /\ owner' = Head(waitq[MQ])
          /\ waitq' = [waitq EXCEPT ![MQ] = Tail(waitq[MQ])]
          /\ err' = [err EXCEPT ![Head(waitq[MQ])] = "OK"]
          /\ pc' = [pc EXCEPT ![t] = "waking"]
          /\ apc' = [apc EXCEPT ![t] = "wake"]
          /\ tgt' = [tgt EXCEPT ![t] = Head(waitq[MQ])]
          /\ UNCHANGED agen
    /\ UNCHANGED <<runq, armed, completed, unint, on, deadline>>
    /\ UNCHANGED trackVars /\ UNCHANGED sourceVars

\* The call that woke a peer returns.
WakeReturn(t) ==
    /\ pc[t] \in {"waking", "waking_in"} /\ apc[t] = "off"
    /\ pc' = [pc EXCEPT ![t] = IF @ = "waking" THEN "idle" ELSE "crit"]
    /\ UNCHANGED <<waitq, runq, owner>> /\ UNCHANGED nodeVars
    /\ UNCHANGED trackVars /\ UNCHANGED sourceVars /\ UNCHANGED actorVars

MutexStep(t) ==
    \/ TryLock(t) \/ LockSlow(t) \/ LockQueue(t) \/ LockReturn(t)
    \/ Unlock(t) \/ WakeReturn(t)

Next == (\E t \in Tasks : MutexStep(t)) \/ (WaitNext /\ UNCHANGED owner)

Spec == Init /\ [][Next]_vars

\* The weak fairness a live runtime gives: workers run the tasks they have
\* dispatched, schedulers drain their queues and their timer heaps, and the
\* cancelling threads run on.  Locking, cancelling and stopping are choices.
Fairness ==
    /\ \A t \in Tasks :
          WF_vars((ParkStep(t) /\ UNCHANGED owner) \/ LockQueue(t) \/ LockReturn(t)
                    \/ WakeReturn(t))
    /\ WF_vars(TimerStep /\ UNCHANGED owner)
    /\ WF_vars(CancelStep /\ UNCHANGED owner)
    /\ WF_vars(StopStep /\ UNCHANGED owner)

\* The holder may keep the mutex for ever.
FairSpec == Spec /\ Fairness

-----------------------------------------------------------------------------
TypeOK ==
    /\ WaitTypeOK({"slow"})
    /\ owner \in Tasks \cup {None}

\* t was made the owner and has not returned from its lock call.
Granted(t) ==
    /\ pc[t] \in WaitPcs \cup DonePcs /\ on[t] = MQ
    /\ ~Linked(MQ, t) /\ err[t] = "OK"

\* The owner word names exactly the task that is inside the critical section
\* or was handed the mutex and is on its way to it.  So the mutex excludes; it
\* is never orphaned on a waiter that returns ETIMEDOUT, ECANCELED or ENOMEM;
\* and no lock call returns 0 to a task that does not own it.
OwnerExact ==
    \A t \in Tasks : owner = t <=> pc[t] \in InPcs \/ Granted(t)

\* While tasks queue, the mutex has an owner whose unlock will serve them: no
\* interleaving of fast exchange, queueing and unlock strands a waiter, and no
\* newcomer can barge past the queue.
QueueHasOwner == waitq[MQ] # <<>> => owner # None

\* Under a holder that always unlocks, every lock call returns.
EveryLockReturns ==
    \A t \in Tasks :
        pc[t] \in WaitPcs /\ on[t] = MQ ~> pc[t] \in {"crit", "idle"}

\* A stop request ends every lock wait, even if the holder never unlocks.
StopEndsWaits ==
    \A t \in Tasks : stop /\ pc[t] \in WaitPcs ~> pc[t] \notin WaitPcs

\* Cancelling the token ends every lock wait of a task that carries it, even
\* if the holder never unlocks.
CancelEndsWaits ==
    \A t \in TokenTasks : cancelled /\ pc[t] \in WaitPcs ~> pc[t] \notin WaitPcs
====
