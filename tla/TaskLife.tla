------------------------------- MODULE TaskLife -------------------------------
(***************************************************************************)
(* The life of a task object: spawn, exit, join, detach and reclaim        *)
(* (core/task, the exit paths of core/sched and io/api/issue.c).           *)
(*                                                                         *)
(* Task storage is recycled: a reclaimed object goes back to its           *)
(* allocator and the next spawn resets and reuses it.  `life' counts the   *)
(* lives of an object; it is history the code does not have, and the       *)
(* properties are stated with it.  Who may free the object is settled by   *)
(* four flags (join_claimed, detached, reclaim_ready, reclaim_claimed)     *)
(* and two counters (active_ops, scan_refs) that no single lock covers.    *)
(*                                                                         *)
(* The stores of `detached' and `reclaim_ready' are release stores and the *)
(* loads that follow them are acquire loads, so a store may still be in    *)
(* its thread's store buffer when the load is done: `pending' holds such a *)
(* store, Drain completes it, and a locked instruction waits for it.       *)
(***************************************************************************)
EXTENDS Naturals, FiniteSets

CONSTANTS
    Tasks,       \* task objects (slab storage)
    Workers,     \* scheduler threads
    Clients,     \* callers of spawn, join, detach, and stop or status scans
    HostClients, \* the clients that are unmanaged OS threads
    Modes,       \* "managed" (managed_scheduler.c), "legacy" (scheduler.c)
    MaxLife,     \* bound on the lives of one object, managed scheduler
    LegacyLife,  \* the same for the legacy scheduler
    None

ASSUME TaskLifeConstants ==
    /\ HostClients \subseteq Clients
    /\ Workers \cap Clients = {}
    /\ IsFiniteSet(Workers) /\ IsFiniteSet(Clients)
    /\ Modes \subseteq {"managed", "legacy"}
    /\ MaxLife \in Nat \ {0} /\ LegacyLife \in 1 .. MaxLife
    /\ None \notin Workers \cup Clients \cup Tasks

Actors == Workers \cup Clients

VARIABLES
    task,     \* the task objects
    handles,  \* public handles given to the program, with the life they name
    pc,       \* where each actor is
    ref,      \* the object and life each actor works on
    pinned,   \* clients that hold a public operation pin
    pending,  \* the object whose release store an actor still has buffered
    mode      \* rt->execution_lease_mode, fixed when the runtime starts

vars == <<task, handles, pc, ref, pinned, pending, mode>>

Managed == mode = "managed"
LifeBound == IF Managed THEN MaxLife ELSE LegacyLife

Fresh == [state |-> "free", completed |-> FALSE, reclaimReady |-> FALSE,
          reclaimClaimed |-> FALSE, joinClaimed |-> FALSE, detached |-> FALSE,
          joinWaiter |-> None, activeOps |-> 0, scanRefs |-> 0,
          generation |-> 1, life |-> 0, consumed |-> 0]

NoRef == [task |-> None, life |-> 0, handleLife |-> 0]

WorkerSteps == {"exit", "wake", "borrow", "mark", "loadDetached", "loadReady",
                "claim", "return"}
ClientSteps == {"joinFast", "joinLock", "parked", "timedOut", "reclaimJoined",
                "hostPoll", "hostGiveUp", "hostDone", "detachLoad",
                "detachUnlock", "detachWon", "look", "scan"}
ReclaimSteps == {"invalidate", "waitRefs", "waitOps"}

TypeOK ==
    /\ task \in [Tasks ->
         [state : {"free", "live", "dead"}, completed : BOOLEAN,
          reclaimReady : BOOLEAN, reclaimClaimed : BOOLEAN,
          joinClaimed : BOOLEAN, detached : BOOLEAN,
          joinWaiter : Clients \cup {None}, activeOps : Nat, scanRefs : Nat,
          generation : Nat, life : 0 .. MaxLife, consumed : Nat]]
    /\ handles \subseteq [task : Tasks, generation : Nat, life : 1 .. MaxLife]
    /\ pc \in [Actors -> {"idle"} \cup WorkerSteps \cup ClientSteps
                           \cup ReclaimSteps]
    /\ ref \in [Actors -> [task : Tasks \cup {None}, life : 0 .. MaxLife,
                           handleLife : 0 .. MaxLife]]
    /\ pinned \subseteq Clients
    /\ pending \in [Actors -> Tasks \cup {None}]
    /\ mode \in Modes

Init ==
    /\ task = [t \in Tasks |-> Fresh]
    /\ handles = {}
    /\ pc = [a \in Actors |-> "idle"]
    /\ ref = [a \in Actors |-> NoRef]
    /\ pinned = {}
    /\ pending = [a \in Actors |-> None]
    /\ mode \in Modes

(* The actor's object, and the next step of an actor.                      *)
Of(a) == task[ref[a].task]
Goto(a, step) == pc' = [pc EXCEPT ![a] = step]
Finish(a) == Goto(a, "idle") /\ ref' = [ref EXCEPT ![a] = NoRef]

(* Detach holds g_llam_task_registry_lock and the task lock from its claim *)
(* to its unlock; every other user of either lock is one atomic step.      *)
Detaching == {c \in Clients : pc[c] \in {"detachLoad", "detachUnlock", "detachWon"}}
RegistryUnlocked == Detaching = {}
TaskUnlocked(t) == \A c \in Detaching : ref[c].task # t

-------------------------------------------------------------------------------
(* llam_spawn: take an object from the allocator, reset it, keep the       *)
(* generation that the last reclaim prepared, publish it as runnable.      *)
Spawn(c, t) ==
    /\ pc[c] = "idle"
    /\ task[t].state = "free" /\ task[t].life < LifeBound
    /\ LET life == task[t].life + 1
           gen == task[t].generation
       IN  /\ task' = [task EXCEPT ![t] =
                [Fresh EXCEPT !.state = "live", !.generation = gen,
                              !.life = life]]
           /\ handles' = handles \cup
                {[task |-> t, generation |-> gen, life |-> life]}
    /\ UNCHANGED <<pc, ref, pinned, pending>>

(* A scheduler thread takes a runnable task; its queue lock drains stores. *)
Run(w, t) ==
    /\ pc[w] = "idle" /\ pending[w] = None
    /\ task[t].state = "live"
    /\ \A v \in Workers : ~(pc[v] = "exit" /\ ref[v].task = t)
    /\ Goto(w, "exit")
    /\ ref' = [ref EXCEPT ![w] = [task |-> t, life |-> task[t].life,
                                  handleLife |-> task[t].life]]
    /\ UNCHANGED <<task, handles, pinned, pending>>

(* llam_task_exit_internal: the entry function returned.                   *)
ExitCompleted(w) ==
    /\ pc[w] = "exit"
    /\ TaskUnlocked(ref[w].task)
    /\ task' = [task EXCEPT ![ref[w].task] =
                  [Of(w) EXCEPT !.state = "dead", !.completed = TRUE]]
    /\ Goto(w, "wake")
    /\ UNCHANGED <<handles, ref, pinned, pending>>

(* llam_reinject_join_waiters: take the waiter list and wake it.  There is *)
(* at most one waiter because a join claims the handle first.              *)
ReinjectJoinWaiters(w) ==
    /\ pc[w] = "wake"
    /\ TaskUnlocked(ref[w].task)
    /\ task' = [task EXCEPT ![ref[w].task].joinWaiter = None]
    /\ pc' = [a \in Actors |->
                IF a = w THEN IF Managed THEN "borrow" ELSE "mark"
                ELSE IF a = Of(w).joinWaiter THEN "reclaimJoined" ELSE pc[a]]
    /\ UNCHANGED <<handles, ref, pinned, pending>>

(* Mutant of Borrow: the dead task is not pinned.                          *)
BorrowUnpinned(w) ==
    /\ pc[w] = "borrow"
    /\ Goto(w, "mark")
    /\ UNCHANGED <<task, handles, ref, pinned, pending>>

(* The managed scheduler pins the dead task with a scan reference.         *)
Borrow(w) ==
    /\ pc[w] = "borrow"
    /\ task' = [task EXCEPT ![ref[w].task].scanRefs = @ + 1]
    /\ Goto(w, "mark")
    /\ UNCHANGED <<handles, ref, pinned, pending>>

(* llam_task_mark_reclaim_ready: a release store after the stack is left.  *)
MarkReclaimReady(w) ==
    /\ pc[w] = "mark"
    /\ pending' = [pending EXCEPT ![w] = ref[w].task]
    /\ Goto(w, "loadDetached")
    /\ UNCHANGED <<task, handles, ref, pinned>>

(* Nothing to reclaim: the managed scheduler still has to drop its         *)
(* reference, the legacy one has no more use for the task.                 *)
LeaveDead(w) ==
    IF Managed THEN Goto(w, "return") /\ UNCHANGED ref ELSE Finish(w)

(* llam_try_reclaim_detached_task: load detached, then (legacy only)       *)
(* reclaim_ready, where the worker sees its own buffered store.            *)
LoadDetached(w) ==
    /\ pc[w] = "loadDetached"
    /\ IF Of(w).detached
         THEN Goto(w, IF Managed THEN "claim" ELSE "loadReady") /\ UNCHANGED ref
         ELSE LeaveDead(w)
    /\ UNCHANGED <<task, handles, pinned, pending>>

LoadReclaimReady(w) ==
    /\ pc[w] = "loadReady"
    /\ IF pending[w] # None \/ Of(w).reclaimReady
         THEN Goto(w, "claim") /\ UNCHANGED ref
         ELSE Finish(w)
    /\ UNCHANGED <<task, handles, pinned, pending>>

(* Compare-and-swap of reclaim_claimed; the managed scheduler then drops   *)
(* its scan reference, and only the winner goes on to reclaim.             *)
ClaimDetached(w) ==
    /\ pc[w] = "claim"
    /\ pending[w] = None
    /\ task' = [task EXCEPT ![ref[w].task] =
                  [Of(w) EXCEPT !.reclaimClaimed = TRUE,
                     !.scanRefs = Of(w).scanRefs - IF Managed THEN 1 ELSE 0]]
    /\ IF Of(w).reclaimClaimed
         THEN Finish(w)
         ELSE Goto(w, "invalidate") /\ UNCHANGED ref
    /\ UNCHANGED <<handles, pinned, pending>>

ReturnBorrow(w) ==
    /\ pc[w] = "return"
    /\ pending[w] = None
    /\ task' = [task EXCEPT ![ref[w].task].scanRefs = @ - 1]
    /\ Finish(w)
    /\ UNCHANGED <<handles, pinned, pending>>

(* A buffered store reaches memory.                                        *)
Drain(a) ==
    /\ pending[a] # None
    /\ pending' = [pending EXCEPT ![a] = None]
    /\ task' = IF a \in Workers
                 THEN [task EXCEPT ![pending[a]].reclaimReady = TRUE]
                 ELSE [task EXCEPT ![pending[a]].detached = TRUE]
    /\ UNCHANGED <<handles, pc, ref, pinned>>

-------------------------------------------------------------------------------
(* Resolving a public handle: the generation must be the slot's.           *)
Resolves(h) ==
    /\ RegistryUnlocked
    /\ task[h.task].generation = h.generation
    /\ task[h.task].state # "free"

Take(c, h) ==
    ref' = [ref EXCEPT ![c] = [task |-> h.task, life |-> task[h.task].life,
                               handleLife |-> h.life]]

(* Mutant of JoinClaim: join_claimed is not compared before it is set.     *)
JoinClaimBlind(c, h) ==
    /\ pc[c] = "idle"
    /\ Resolves(h)
    /\ ~task[h.task].detached
    /\ task' = [task EXCEPT ![h.task] =
                  [task[h.task] EXCEPT !.joinClaimed = TRUE,
                     !.activeOps = task[h.task].activeOps
                                     + IF c \in HostClients THEN 1 ELSE 0]]
    /\ pinned' = IF c \in HostClients THEN pinned \cup {c} ELSE pinned
    /\ Goto(c, IF c \in HostClients THEN "hostPoll" ELSE "joinFast")
    /\ Take(c, h)
    /\ UNCHANGED <<handles, pending>>

(* llam_task_claim_join_public_handle: refuse a detached task, claim the   *)
(* handle; a host thread also pins the object before it unlocks.           *)
JoinClaim(c, h) ==
    /\ pc[c] = "idle"
    /\ Resolves(h)
    /\ ~task[h.task].detached /\ ~task[h.task].joinClaimed
    /\ task' = [task EXCEPT ![h.task] =
                  [task[h.task] EXCEPT !.joinClaimed = TRUE,
                     !.activeOps = task[h.task].activeOps
                                     + IF c \in HostClients THEN 1 ELSE 0]]
    /\ pinned' = IF c \in HostClients THEN pinned \cup {c} ELSE pinned
    /\ Goto(c, IF c \in HostClients THEN "hostPoll" ELSE "joinFast")
    /\ Take(c, h)
    /\ UNCHANGED <<handles, pending>>

(* llam_join_try_completed_fast: reclaim_ready seen without the lock.      *)
JoinFast(c) ==
    /\ pc[c] = "joinFast"
    /\ Goto(c, IF Of(c).reclaimReady THEN "reclaimJoined" ELSE "joinLock")
    /\ UNCHANGED <<task, handles, ref, pinned, pending>>

(* Mutant of JoinLock: parks without looking at `completed' again.         *)
JoinLockBlind(c) ==
    /\ pc[c] = "joinLock"
    /\ TaskUnlocked(ref[c].task)
    /\ task' = [task EXCEPT ![ref[c].task].joinWaiter = c]
    /\ Goto(c, "parked")
    /\ UNCHANGED <<handles, ref, pinned, pending>>

(* Under the task lock: the target is complete, or the caller becomes its  *)
(* waiter and parks.                                                       *)
JoinLock(c) ==
    /\ pc[c] = "joinLock"
    /\ TaskUnlocked(ref[c].task)
    /\ IF Of(c).completed
         THEN Goto(c, "reclaimJoined") /\ UNCHANGED task
         ELSE /\ task' = [task EXCEPT ![ref[c].task].joinWaiter = c]
              /\ Goto(c, "parked")
    /\ UNCHANGED <<handles, ref, pinned, pending>>

(* A deadline or cancellation that removes the waiter wakes it with an     *)
(* error; the caller then gives the claim back and the task stays joinable.*)
JoinTimeout(c) ==
    /\ pc[c] = "parked"
    /\ TaskUnlocked(ref[c].task)
    /\ Of(c).joinWaiter = c
    /\ task' = [task EXCEPT ![ref[c].task].joinWaiter = None]
    /\ Goto(c, "timedOut")
    /\ UNCHANGED <<handles, ref, pinned, pending>>

ReleaseJoinClaim(c) ==
    /\ pc[c] = "timedOut"
    /\ task' = [task EXCEPT ![ref[c].task].joinClaimed = FALSE]
    /\ Finish(c)
    /\ UNCHANGED <<handles, pinned, pending>>

(* An unmanaged join polls `completed' with the object pinned.             *)
HostPoll(c) ==
    /\ pc[c] = "hostPoll"
    /\ \/ Of(c).completed /\ Goto(c, "hostDone") /\ UNCHANGED task
       \/ /\ ~Of(c).completed
          /\ task' = [task EXCEPT ![ref[c].task].joinClaimed = FALSE]
          /\ Goto(c, "hostGiveUp")
    /\ UNCHANGED <<handles, ref, pinned, pending>>

Unpin(c) ==
    /\ task' = [task EXCEPT ![ref[c].task].activeOps = @ - 1]
    /\ pinned' = pinned \ {c}

HostUnpin(c) ==
    /\ pc[c] \in {"hostDone", "hostGiveUp"}
    /\ Unpin(c)
    /\ IF pc[c] = "hostDone"
         THEN Goto(c, "reclaimJoined") /\ UNCHANGED ref
         ELSE Finish(c)
    /\ UNCHANGED <<handles, pending>>

(* Mutant of ReclaimJoined: does not wait for reclaim_ready.               *)
ReclaimJoinedEarly(c) ==
    /\ pc[c] = "reclaimJoined"
    /\ task' = [task EXCEPT ![ref[c].task] =
                  [Of(c) EXCEPT !.reclaimClaimed = TRUE,
                                !.consumed = Of(c).consumed + 1]]
    /\ IF Of(c).reclaimClaimed
         THEN Finish(c)
         ELSE Goto(c, "invalidate") /\ UNCHANGED ref
    /\ UNCHANGED <<handles, pinned, pending>>

(* llam_try_reclaim_joined_task: wait for reclaim_ready, then claim.       *)
ReclaimJoined(c) ==
    /\ pc[c] = "reclaimJoined"
    /\ Of(c).reclaimReady
    /\ task' = [task EXCEPT ![ref[c].task] =
                  [Of(c) EXCEPT !.reclaimClaimed = TRUE,
                                !.consumed = Of(c).consumed + 1]]
    /\ IF Of(c).reclaimClaimed
         THEN Finish(c)
         ELSE Goto(c, "invalidate") /\ UNCHANGED ref
    /\ UNCHANGED <<handles, pinned, pending>>

(* llam_task_claim_detach_public_handle, up to the store of `detached':    *)
(* claim the handle, pin a finished task for a host thread, advance the    *)
(* generation so that no handle resolves any more.                         *)
DetachClaim(c, h) ==
    /\ pc[c] = "idle"
    /\ Resolves(h)
    /\ ~task[h.task].detached /\ ~task[h.task].joinClaimed
    /\ task[h.task].joinWaiter = None
    /\ LET pin == c \in HostClients /\ task[h.task].reclaimReady
           obj == task[h.task]
       IN  /\ task' = [task EXCEPT ![h.task] =
                [obj EXCEPT !.joinClaimed = TRUE,
                            !.generation = obj.generation + 1,
                            !.consumed = obj.consumed + 1,
                            !.activeOps = obj.activeOps + IF pin THEN 1 ELSE 0]]
           /\ pinned' = IF pin THEN pinned \cup {c} ELSE pinned
    /\ pending' = [pending EXCEPT ![c] = h.task]
    /\ Goto(c, "detachLoad")
    /\ Take(c, h)
    /\ UNCHANGED handles

(* Mutant of DetachLoad: reclaims without winning reclaim_claimed.         *)
DetachLoadUnclaimed(c) ==
    /\ pc[c] = "detachLoad"
    /\ \/ ~Of(c).reclaimReady /\ Goto(c, "detachUnlock") /\ UNCHANGED task
       \/ /\ Of(c).reclaimReady
          /\ pending[c] = None
          /\ task' = [task EXCEPT ![ref[c].task].reclaimClaimed = TRUE]
          /\ Goto(c, "detachWon")
    /\ UNCHANGED <<handles, ref, pinned, pending>>

(* ... and from there: a task that is already off its stack is claimed for *)
(* reclaim by the detaching thread.                                        *)
DetachLoad(c) ==
    /\ pc[c] = "detachLoad"
    /\ \/ ~Of(c).reclaimReady /\ Goto(c, "detachUnlock") /\ UNCHANGED task
       \/ /\ Of(c).reclaimReady
          /\ pending[c] = None
          /\ task' = [task EXCEPT ![ref[c].task].reclaimClaimed = TRUE]
          /\ Goto(c, IF Of(c).reclaimClaimed THEN "detachUnlock"
                     ELSE "detachWon")
    /\ UNCHANGED <<handles, ref, pinned, pending>>

(* The two unlocks; a pin that is not needed goes before them, one that is *)
(* needed before the reclaim.                                              *)
DetachUnlock(c) ==
    /\ pc[c] \in {"detachUnlock", "detachWon"}
    /\ pending[c] = None
    /\ IF c \in pinned THEN Unpin(c) ELSE UNCHANGED <<task, pinned>>
    /\ IF pc[c] = "detachWon"
         THEN Goto(c, "invalidate") /\ UNCHANGED ref
         ELSE Finish(c)
    /\ UNCHANGED <<handles, pending>>

(* Mutant of EndLook: the pin is dropped twice.                            *)
EndLookTwice(c) ==
    /\ pc[c] = "look"
    /\ task' = [task EXCEPT ![ref[c].task].activeOps = @ - 2]
    /\ pinned' = pinned \ {c}
    /\ Finish(c)
    /\ UNCHANGED <<handles, pending>>

(* A status query (llam_task_resolve_public_handle ... end_public_op).     *)
Look(c, h) ==
    /\ pc[c] = "idle"
    /\ Resolves(h)
    /\ task' = [task EXCEPT ![h.task].activeOps = @ + 1]
    /\ pinned' = pinned \cup {c}
    /\ Goto(c, "look")
    /\ Take(c, h)
    /\ UNCHANGED <<handles, pending>>

EndLook(c) ==
    /\ pc[c] = "look"
    /\ Unpin(c)
    /\ Finish(c)
    /\ UNCHANGED <<handles, pending>>

(* A stop or diagnostic scan takes a reference on a listed task that is    *)
(* not claimed, works on it outside the list lock, and drops it.           *)
Scan(c, t) ==
    /\ pc[c] = "idle"
    /\ task[t].state = "live" /\ ~task[t].reclaimClaimed
    /\ task' = [task EXCEPT ![t].scanRefs = @ + 1]
    /\ ref' = [ref EXCEPT ![c] = [task |-> t, life |-> task[t].life,
                                  handleLife |-> task[t].life]]
    /\ Goto(c, "scan")
    /\ UNCHANGED <<handles, pinned, pending>>

EndScan(c) ==
    /\ pc[c] = "scan"
    /\ task' = [task EXCEPT ![ref[c].task].scanRefs = @ - 1]
    /\ Finish(c)
    /\ UNCHANGED <<handles, pinned, pending>>

(* Mutant of Invalidate: the generation of the consumed handle stays.      *)
InvalidateSkipped(a) ==
    /\ pc[a] = "invalidate"
    /\ RegistryUnlocked
    /\ Goto(a, "waitRefs")
    /\ UNCHANGED <<task, handles, ref, pinned, pending>>

-------------------------------------------------------------------------------
(* llam_reclaim_claimed_task, run by whoever won reclaim_claimed.          *)
Invalidate(a) ==
    /\ pc[a] = "invalidate"
    /\ RegistryUnlocked
    /\ task' = [task EXCEPT ![ref[a].task].generation = @ + 1]
    /\ Goto(a, "waitRefs")
    /\ UNCHANGED <<handles, ref, pinned, pending>>

WaitScanRefs(a) ==
    /\ pc[a] = "waitRefs"
    /\ Of(a).scanRefs = 0
    /\ Goto(a, "waitOps")
    /\ UNCHANGED <<task, handles, ref, pinned, pending>>

(* No public operation is left: llam_free_task returns the storage.        *)
FreeTask(a) ==
    /\ pc[a] = "waitOps"
    /\ Of(a).activeOps = 0
    /\ task' = [task EXCEPT ![ref[a].task].state = "free"]
    /\ Finish(a)
    /\ UNCHANGED <<handles, pinned, pending>>

-------------------------------------------------------------------------------
WorkerStep(w) ==
    \/ \E t \in Tasks : Run(w, t)
    \/ ExitCompleted(w)
    \/ ReinjectJoinWaiters(w)
    \/ Borrow(w)
    \/ MarkReclaimReady(w)
    \/ LoadDetached(w)
    \/ LoadReclaimReady(w)
    \/ ClaimDetached(w)
    \/ ReturnBorrow(w)

(* What a client starts ...                                                *)
Call(c) ==
    \/ \E t \in Tasks : Spawn(c, t) \/ Scan(c, t)
    \/ \E h \in handles : JoinClaim(c, h) \/ DetachClaim(c, h) \/ Look(c, h)

(* ... and the steps with which the call goes on.                          *)
ClientStep(c) ==
    \/ JoinFast(c)
    \/ JoinLock(c)
    \/ ReleaseJoinClaim(c)
    \/ HostPoll(c)
    \/ HostUnpin(c)
    \/ ReclaimJoined(c)
    \/ DetachLoad(c)
    \/ DetachUnlock(c)
    \/ EndLook(c)
    \/ EndScan(c)

ReclaimStep(a) == Invalidate(a) \/ WaitScanRefs(a) \/ FreeTask(a)

Next ==
    /\ \/ \E w \in Workers : WorkerStep(w)
       \/ \E c \in Clients : Call(c) \/ ClientStep(c) \/ JoinTimeout(c)
       \/ \E a \in Actors : Drain(a) \/ ReclaimStep(a)
    /\ UNCHANGED mode

Spec == Init /\ [][Next]_vars

(* Threads that are in the middle of a call or of a task's exit keep       *)
(* running, workers pick up runnable tasks, and stores do not stay         *)
(* buffered.  Nothing obliges the program to call anything.                *)
Fairness ==
    /\ \A w \in Workers : WF_vars(WorkerStep(w) /\ UNCHANGED mode)
    /\ \A c \in Clients : WF_vars(ClientStep(c) /\ UNCHANGED mode)
    /\ \A a \in Actors :
          /\ WF_vars(Drain(a) /\ UNCHANGED mode)
          /\ WF_vars(ReclaimStep(a) /\ UNCHANGED mode)

FairSpec == Spec /\ Fairness

-------------------------------------------------------------------------------
(* A thread that works on a task object works on the life it took it for:  *)
(* the object is neither free nor already reset for its next task.  Join   *)
(* claims, pins and scan references together have to guarantee this,       *)
(* because llam_free_task recycles storage while other threads hold raw    *)
(* task pointers.  The legacy scheduler reads a dead task without a        *)
(* reference; only the managed one makes the guarantee.                    *)
BorrowValid ==
    Managed => \A a \in Actors : pc[a] # "idle" =>
        Of(a).state # "free" /\ Of(a).life = ref[a].life

(* A public handle only ever reaches the task that llam_spawn returned it  *)
(* for, however often the storage behind it was reused.                    *)
HandleExact == \A a \in Actors : ref[a].life = ref[a].handleLife

(* A task handle is consumed by exactly one successful join or detach.     *)
ConsumedOnce == \A t \in Tasks : task[t].consumed <= 1

(* A task is reclaimed only after it has fully returned to the scheduler   *)
(* and only when its handle was joined or detached.                        *)
ReclaimReturned ==
    \A a \in Actors : pc[a] \in {"waitRefs", "waitOps"} =>
        Of(a).state = "dead" /\ Of(a).reclaimReady /\ Of(a).consumed = 1

(* The exit path, a join and a detach never reclaim one object together.   *)
OneReclaimer ==
    \A a, b \in Actors :
        (/\ pc[a] \in ReclaimSteps /\ pc[b] \in ReclaimSteps
         /\ ref[a].task = ref[b].task) => a = b

(* A join that has claimed the handle of a task that finishes returns to   *)
(* its caller, with the storage reclaimed or its claim given back.         *)
JoinReturns ==
    \A c \in Clients :
        (/\ pc[c] \in {"joinFast", "joinLock", "parked", "hostPoll",
                       "reclaimJoined"}
         /\ Of(c).completed) ~> (pc[c] = "idle")

(* Detaching releases the task's storage, and with it its admission        *)
(* capacity and token references, once the task has exited and the pins    *)
(* are gone: llam_detach or the exit path reclaims it.                     *)
DetachReleases ==
    \A t \in Tasks :
        (task[t].completed /\ task[t].detached) ~> (task[t].state = "free")
===============================================================================
