----------------------------- MODULE MutexInvariants -----------------------------
(***************************************************************************)
(* The inductive invariants of the wait protocol and of the mutex.  TLC    *)
(* checks MutexInv on a small instance.  MutexProofs proves MutexInv,      *)
(* GateProofs GateInv and TimerProofs TimerInv for all.                    *)
(***************************************************************************)
EXTENDS Mutex

Pending == {"UNARMED", "ARMED"}

NoDuplicates(s) == \A i, j \in 1..Len(s) : s[i] = s[j] => i = j

\* A linked node belongs to a wait that nobody has resolved.
QueueInv ==
    /\ \A q \in Queues : NoDuplicates(waitq[q])
    /\ \A q \in Queues, t \in Tasks : Linked(q, t) =>
          /\ pc[t] \in WaitPcs /\ on[t] = q
          /\ err[t] = "OK" /\ armed[t] \in Pending

\* wake_armed follows the waiter: it is set by the step that commits to park.
ArmInv ==
    \A t \in Tasks :
       /\ pc[t] \in SetupPcs => armed[t] \in {"UNARMED", "COMPLETED_INLINE"}
       /\ pc[t] \in ParkPcs => armed[t] \in {"ARMED", "COMPLETED_QUEUED"}
       /\ pc[t] \in WaitPcs \cup DonePcs => on[t] \in Queues

\* A task acts on another node only inside its own wake or park call.
ActorInv ==
    /\ \A a \in Actors : apc[a] # "off" => tgt[a] \in Tasks
    /\ \A t \in Tasks : apc[t] # "off" => pc[t] \in {"waking", "waking_in", "parked"}

\* An actor that unlinked a node is the only one to complete it ...
HoldInv ==
    /\ \A a \in Actors : apc[a] \in HoldPcs =>
          /\ pc[tgt[a]] \in WaitPcs /\ armed[tgt[a]] \in Pending
          /\ \A q \in Queues : ~Linked(q, tgt[a])
    /\ \A a, b \in Actors :
          apc[a] \in HoldPcs /\ apc[b] \in HoldPcs /\ tgt[a] = tgt[b] => a = b

\* ... and every unresolved node is linked or held.
CoverInv ==
    \A t \in Tasks : pc[t] \in WaitPcs /\ armed[t] \in Pending =>
       \/ Linked(on[t], t)
       \/ \E a \in Actors : apc[a] \in HoldPcs /\ tgt[a] = t

\* A parked task whose node was completed is being requeued by one actor, or
\* has been.
RequeueInv ==
    /\ \A a \in Actors : apc[a] \in RequeuePcs =>
          /\ pc[tgt[a]] \in ParkPcs /\ armed[tgt[a]] = "COMPLETED_QUEUED"
          /\ runq[tgt[a]] = 0
    /\ \A a, b \in Actors :
          apc[a] \in RequeuePcs /\ apc[b] \in RequeuePcs /\ tgt[a] = tgt[b] => a = b
    /\ \A t \in Tasks :
          pc[t] \in ParkPcs /\ armed[t] = "COMPLETED_QUEUED" /\ runq[t] = 0 =>
             \E a \in Actors : apc[a] \in RequeuePcs /\ tgt[a] = t

RunqInv ==
    \A t \in Tasks :
       /\ runq[t] \in {0, 1}
       /\ pc[t] \in YieldPcs => runq[t] = 1
       /\ runq[t] = 1 => \/ pc[t] \in YieldPcs
                         \/ pc[t] \in ParkPcs /\ armed[t] = "COMPLETED_QUEUED"

WaitInv == QueueInv /\ ArmInv /\ ActorInv /\ HoldInv /\ CoverInv /\ RequeueInv /\ RunqInv

\* Only a wait under way has its owner fields published.
TrackInv == \A t \in Tasks : tracked[t] => pc[t] \in WaitPcs \cup DonePcs

\* The gate counts exactly the resolvers at work, and is open only on a
\* published wait.
GateInv ==
    /\ \A t \in Tasks, a \in Actors : a \in refs[t] <=>
          apc[a] \in {"remove", "leave", "end"} /\ tgt[a] = t
    /\ \A t \in Tasks, a \in Actors : a \in refs[t] =>
          tracked[t] /\ gen[t] = agen[a]
    /\ \A t \in Tasks : ~closed[t] => tracked[t] /\ pc[t] \in WaitPcs \cup {"cleanup"}
    /\ \A a \in Actors : apc[a] = "redrain" => closed[tgt[a]]

\* A timer record, armed or popped, that names the live wait was armed by it.
TimerInv ==
    /\ \A t \in Tasks :
          /\ timer[t] <= gen[t]
          /\ timer[t] = gen[t] /\ tracked[t] => deadline[t]
    /\ apc[TimerM] \in {"check", "tremove"} =>
          LET t == tgt[TimerM] IN
          /\ agen[TimerM] <= gen[t]
          /\ agen[TimerM] = gen[t] /\ tracked[t] => deadline[t]

\* What MutexProofs shows to be inductive.
MutexInv == TypeOK /\ WaitInv /\ TrackInv /\ OwnerExact /\ QueueHasOwner

====
