------------------------------ MODULE WaitNode ------------------------------
(***************************************************************************)
(* Parking and waking of LLAM tasks: the wait node a task publishes on a   *)
(* primitive's FIFO queue, the wake_armed state machine that decides       *)
(* between an inline and a queued wake, the resolver gate and the wait     *)
(* generation that fence off stale resolvers, and the four parties that    *)
(* may resolve a wait besides the primitive itself: the deadline timer, a  *)
(* cancellation token, runtime stop, and the parking task itself.          *)
(*                                                                         *)
(* The primitives (Mutex, Cond, Channel) extend this module.  A task waits *)
(* with its embedded node, so a node is named by its task.                 *)
(***************************************************************************)
EXTENDS Integers, Sequences

CONSTANTS
    Tasks,          \* managed tasks
    Queues,         \* wait queues of the primitive(s) under test
    TimedTasks,     \* tasks that call the _until form of an operation
    TokenTasks,     \* tasks spawned with a cancellation token
    MayStop,        \* whether the runtime may be asked to stop
    TimerM,         \* native thread that fires expired timers
    CancelM,        \* native thread inside llam_cancel_token_cancel
    StopM,          \* scheduler that runs the stop cancellation pass
    None,           \* null pointer
    MaxGen          \* bound on wait_generation: no wait starts above it

ASSUME WaitAssumption ==
    /\ TimedTasks \subseteq Tasks /\ TokenTasks \subseteq Tasks
    /\ MayStop \in BOOLEAN
    /\ MaxGen \in Nat
    /\ None \notin Tasks \cup Queues
    /\ TimerM \notin Tasks /\ CancelM \notin Tasks /\ StopM \notin Tasks
    /\ TimerM # CancelM /\ TimerM # StopM /\ CancelM # StopM

VARIABLES
    pc,         \* control of the waiting side of each task
    waitq,      \* FIFO of each wait queue
    armed,      \* node->wake_armed
    completed,  \* node->wake_completed
    err,        \* node->error_code
    unint,      \* node->uninterruptible
    on,         \* queue the current wait uses
    deadline,   \* has_deadline of the current call
    tracked,    \* active_wait_node/queue published
    closed,     \* CLOSED bit of wait_resolver_state
    refs,       \* actors counted in wait_resolver_state
    gen,        \* wait_generation
    state,      \* task->state
    timer,      \* generation in the armed timer record, 0 when none
    link,       \* cancel registration
    linkgen,    \* generation recorded in the registration
    cancelled,  \* token->cancelled
    stop,       \* runtime->stop_requested
    scan,       \* tasks collected by the stop pass
    runq,       \* run-queue entries per task
    apc,        \* control of the resolving side of each actor
    tgt,        \* node the actor works on
    agen        \* generation the actor was asked to resolve, 0 for any

nodeVars   == <<armed, completed, err, unint, on, deadline>>
trackVars  == <<tracked, closed, refs, gen, state>>
sourceVars == <<timer, link, linkgen, cancelled, stop, scan>>
actorVars  == <<apc, tgt, agen>>
waitVars   == <<pc, waitq, armed, completed, err, unint, on, deadline,
                tracked, closed, refs, gen, state, timer, link, linkgen,
                cancelled, stop, scan, runq, apc, tgt, agen>>

Actors == Tasks \cup {TimerM, CancelM, StopM}

\* Control points of a task between publishing its node and its return.
SetupPcs == {"queued", "arm", "register", "undo_arm", "undo_reg", "wait_ready"}
ParkPcs  == {"park", "parked"}
DonePcs  == {"cleanup", "drain"}
WaitPcs  == SetupPcs \cup ParkPcs
\* Control points of a caller outside any wait: at rest, waking one peer or
\* a list of them, or switched out by a wake handoff; "crit" and _in when it
\* holds the mutex.
OutPcs   == {"idle", "waking", "waking_all", "yielded"}
InPcs    == {"crit", "waking_in", "waking_all_in", "yielded_in"}
YieldPcs == {"yielded", "yielded_in"}
\* Control points of an actor that has unlinked a node and not completed it.
HoldPcs  == {"end", "wake"}
\* Control points of an actor that completed a parked node.
RequeuePcs == {"reinject", "redrain"}
ActorPcs == {"off", "begin", "remove", "leave", "check", "tremove", "store"}
              \cup HoldPcs \cup RequeuePcs
Errors == {"OK", "ETIMEDOUT", "ECANCELED", "ENOMEM"}

Linked(q, t) == \E i \in 1..Len(waitq[q]) : waitq[q][i] = t
DropAt(s, i) == [j \in 1..Len(s) - 1 |-> IF j < i THEN s[j] ELSE s[j + 1]]
\* llam_wait_queue_remove: unlink the node of t wherever it is queued.
Unlink(q, t) ==
    \E i \in 1..Len(waitq[q]) :
       /\ waitq[q][i] = t
       /\ waitq' = [waitq EXCEPT ![q] = DropAt(waitq[q], i)]

WaitInit ==
    /\ pc = [t \in Tasks |-> "idle"]
    /\ waitq = [q \in Queues |-> <<>>]
    /\ armed = [t \in Tasks |-> "UNARMED"]
    /\ completed = [t \in Tasks |-> FALSE]
    /\ err = [t \in Tasks |-> "OK"]
    /\ unint = [t \in Tasks |-> FALSE]
    /\ on = [t \in Tasks |-> None]
    /\ deadline = [t \in Tasks |-> FALSE]
    /\ tracked = [t \in Tasks |-> FALSE]
    /\ closed = [t \in Tasks |-> TRUE]
    /\ refs = [t \in Tasks |-> {}]
    /\ gen = [t \in Tasks |-> 0]
    /\ state = [t \in Tasks |-> "RUNNING"]
    /\ timer = [t \in Tasks |-> 0]
    /\ link = [t \in Tasks |-> "none"]
    /\ linkgen = [t \in Tasks |-> 0]
    /\ cancelled = FALSE
    /\ stop = FALSE
    /\ scan = {}
    /\ runq = [t \in Tasks |-> 0]
    /\ apc = [a \in Actors |-> "off"]
    /\ tgt = [a \in Actors |-> None]
    /\ agen = [a \in Actors |-> 0]

-----------------------------------------------------------------------------
(* The waiting side. *)

\* llam_sync_wait_node_acquire for a wait on q: d is has_deadline, u marks the
\* uninterruptible reacquisition of a condition wait.
AcquireNode(t, q, u, d) ==
    /\ armed' = [armed EXCEPT ![t] = "UNARMED"]
    /\ completed' = [completed EXCEPT ![t] = FALSE]
    /\ unint' = [unint EXCEPT ![t] = u]
    /\ on' = [on EXCEPT ![t] = q]
    /\ deadline' = [deadline EXCEPT ![t] = d]

\* ... followed by llam_wait_queue_push_tail in the primitive's critical
\* section.
PublishNode(t, q, u, d) ==
    /\ AcquireNode(t, q, u, d)
    /\ err' = [err EXCEPT ![t] = "OK"]
    /\ waitq' = [waitq EXCEPT ![q] = Append(waitq[q], t)]
    /\ pc' = [pc EXCEPT ![t] = "queued"]

\* llam_task_set_wait_node_tracking: a fresh generation (clear advances it
\* once, prepare once more), the owner fields, and the gate opened last.
SetTracking(t) ==
    /\ pc[t] = "queued" /\ refs[t] = {}
    /\ gen' = [gen EXCEPT ![t] = gen[t] + 2]
    /\ tracked' = [tracked EXCEPT ![t] = TRUE]
    /\ closed' = [closed EXCEPT ![t] = FALSE]
    /\ state' = [state EXCEPT ![t] = "PARKED"]
    /\ pc' = [pc EXCEPT ![t] = "arm"]
    /\ UNCHANGED <<waitq, refs, runq>> /\ UNCHANGED nodeVars
    /\ UNCHANGED sourceVars /\ UNCHANGED actorVars

\* Where a failed setup step goes: a node its producer already completed is
\* consumed, any other is withdrawn.
SetupFailed(t, undo) ==
    pc' = [pc EXCEPT ![t] = IF completed[t] THEN "wait_ready" ELSE undo]

\* Mutant of ArmDeadline: the timer of a call without a deadline is armed too.
ArmDeadlineAlways(t) ==
    /\ pc[t] = "arm"
    /\ timer' = [timer EXCEPT ![t] = gen[t]]
    /\ pc' = [pc EXCEPT ![t] = "register"]
    /\ UNCHANGED <<waitq, runq, link, linkgen, cancelled, stop, scan>>
    /\ UNCHANGED nodeVars /\ UNCHANGED trackVars /\ UNCHANGED actorVars

\* llam_arm_task_wait_deadline: insert the timer, or fail for want of memory.
ArmDeadline(t) ==
    /\ pc[t] = "arm"
    /\ \/ /\ timer' = [timer EXCEPT ![t] = IF deadline[t] THEN gen[t] ELSE 0]
          /\ pc' = [pc EXCEPT ![t] = "register"]
       \/ /\ deadline[t]
          /\ SetupFailed(t, "undo_arm")
          /\ UNCHANGED timer
    /\ UNCHANGED <<waitq, runq, link, linkgen, cancelled, stop, scan>>
    /\ UNCHANGED nodeVars /\ UNCHANGED trackVars /\ UNCHANGED actorVars

\* llam_cancel_token_register_task, skipped by uninterruptible waits.
Register(t) ==
    /\ pc[t] = "register"
    /\ \/ /\ t \notin TokenTasks \/ unint[t]
          /\ pc' = [pc EXCEPT ![t] = "wait_ready"]
          /\ UNCHANGED <<link, linkgen>>
       \/ /\ t \in TokenTasks /\ ~unint[t] /\ cancelled
          /\ SetupFailed(t, "undo_reg")
          /\ UNCHANGED <<link, linkgen>>
       \/ /\ t \in TokenTasks /\ ~unint[t] /\ ~cancelled
          /\ link' = [link EXCEPT ![t] = "registered"]
          /\ linkgen' = [linkgen EXCEPT ![t] = gen[t]]
          /\ pc' = [pc EXCEPT ![t] = "wait_ready"]
    /\ UNCHANGED <<waitq, runq, timer, cancelled, stop, scan>>
    /\ UNCHANGED nodeVars /\ UNCHANGED trackVars /\ UNCHANGED actorVars

\* Mutant of Undo: report the setup error of a node that was already popped.
UndoBlind(t) ==
    /\ pc[t] \in {"undo_arm", "undo_reg"}
    /\ timer' = [timer EXCEPT ![t] = 0]
    /\ Unlink(on[t], t) \/ (~Linked(on[t], t) /\ UNCHANGED waitq)
    /\ err' = [err EXCEPT ![t] =
                 IF pc[t] = "undo_arm" THEN "ENOMEM" ELSE "ECANCELED"]
    /\ state' = [state EXCEPT ![t] = "RUNNING"]
    /\ pc' = [pc EXCEPT ![t] = "cleanup"]
    /\ UNCHANGED <<armed, completed, unint, on, deadline, tracked, closed,
                   refs, gen, link, linkgen, cancelled, stop, scan, runq>>
    /\ UNCHANGED actorVars

\* Withdraw after a failed setup: disarm, then remove the node under the
\* primitive's lock.  A node that is gone was popped, so its completion is
\* awaited instead.  The errno of the failed step is kept in err.
Undo(t) ==
    /\ pc[t] \in {"undo_arm", "undo_reg"}
    /\ timer' = [timer EXCEPT ![t] = 0]
    /\ \/ /\ Unlink(on[t], t)
          /\ err' = [err EXCEPT ![t] =
                       IF pc[t] = "undo_arm" THEN "ENOMEM" ELSE "ECANCELED"]
          /\ state' = [state EXCEPT ![t] = "RUNNING"]
          /\ pc' = [pc EXCEPT ![t] = "cleanup"]
       \/ /\ ~Linked(on[t], t)
          /\ pc' = [pc EXCEPT ![t] = "wait_ready"]
          /\ UNCHANGED <<waitq, err, state>>
    /\ UNCHANGED <<armed, completed, unint, on, deadline, tracked, closed,
                   refs, gen, link, linkgen, cancelled, stop, scan, runq>>
    /\ UNCHANGED actorVars

\* Mutant of ShouldPark: arm with a plain store, blind to an inline wake.
ShouldParkBlind(t) ==
    /\ pc[t] = "wait_ready"
    /\ armed' = [armed EXCEPT ![t] = "ARMED"]
    /\ pc' = [pc EXCEPT ![t] = "park"]
    /\ UNCHANGED <<waitq, completed, err, unint, on, deadline, runq>>
    /\ UNCHANGED trackVars /\ UNCHANGED sourceVars /\ UNCHANGED actorVars

\* llam_wait_node_should_park: commit to parking, or consume an inline wake.
ShouldPark(t) ==
    /\ pc[t] = "wait_ready"
    /\ \/ /\ armed[t] = "UNARMED"
          /\ armed' = [armed EXCEPT ![t] = "ARMED"]
          /\ pc' = [pc EXCEPT ![t] = "park"]
          /\ UNCHANGED state
       \/ /\ armed[t] = "COMPLETED_INLINE"
          /\ state' = [state EXCEPT ![t] = "RUNNING"]
          /\ pc' = [pc EXCEPT ![t] = "cleanup"]
          /\ UNCHANGED armed
    /\ UNCHANGED <<waitq, completed, err, unint, on, deadline, tracked, closed,
                   refs, gen, runq>>
    /\ UNCHANGED sourceVars /\ UNCHANGED actorVars

\* llam_park_current_task: publish PARKED, and resolve the own wait when stop
\* was requested before the publication.  The task has switched away once it
\* is at "parked" with no resolver step of its own left.
Park(t) ==
    /\ pc[t] = "park"
    /\ state' = [state EXCEPT ![t] = "PARKED"]
    /\ pc' = [pc EXCEPT ![t] = "parked"]
    /\ IF stop
       THEN /\ apc' = [apc EXCEPT ![t] = "begin"]
            /\ tgt' = [tgt EXCEPT ![t] = t]
            /\ agen' = [agen EXCEPT ![t] = 0]
       ELSE UNCHANGED actorVars
    /\ UNCHANGED <<waitq, tracked, closed, refs, gen, runq>>
    /\ UNCHANGED nodeVars /\ UNCHANGED sourceVars

SwitchedOut(t) == pc[t] = "parked" /\ apc[t] = "off"

\* A scheduler takes the task off its run queue, never before its context is
\* saved: the parked shard's inject queue is drained by the M that still runs
\* the task, and llam_queue_pop_available skips a task whose dispatch
\* reservation its source M has not released.  (A full inject queue spills to
\* a queue that any M drains: NormQueue.)
Dispatch(t) ==
    /\ runq[t] > 0
    /\ \/ SwitchedOut(t) /\ pc' = [pc EXCEPT ![t] = "cleanup"]
       \/ pc[t] = "yielded" /\ pc' = [pc EXCEPT ![t] = "idle"]
       \/ pc[t] = "yielded_in" /\ pc' = [pc EXCEPT ![t] = "crit"]
    /\ runq' = [runq EXCEPT ![t] = runq[t] - 1]
    /\ state' = [state EXCEPT ![t] = "RUNNING"]
    /\ UNCHANGED <<waitq, tracked, closed, refs, gen>>
    /\ UNCHANGED nodeVars /\ UNCHANGED sourceVars /\ UNCHANGED actorVars

\* Mutant of Cleanup: leave the deadline of the finished wait armed.
CleanupArmed(t) ==
    /\ pc[t] = "cleanup"
    /\ link' = [link EXCEPT ![t] = IF @ = "registered" THEN "none" ELSE @]
    /\ closed' = [closed EXCEPT ![t] = TRUE]
    /\ pc' = [pc EXCEPT ![t] = "drain"]
    /\ UNCHANGED <<waitq, tracked, refs, gen, state, linkgen, cancelled, stop,
                   scan, runq, timer>>
    /\ UNCHANGED nodeVars /\ UNCHANGED actorVars

\* After the wait: disarm the deadline, unregister from the token unless the
\* registration already belongs to a delivery, close the resolver gate.
Cleanup(t) ==
    /\ pc[t] = "cleanup"
    /\ timer' = [timer EXCEPT ![t] = 0]
    /\ link' = [link EXCEPT ![t] = IF @ = "registered" THEN "none" ELSE @]
    /\ closed' = [closed EXCEPT ![t] = TRUE]
    /\ pc' = [pc EXCEPT ![t] = "drain"]
    /\ UNCHANGED <<waitq, tracked, refs, gen, state, linkgen, cancelled, stop,
                   scan, runq>>
    /\ UNCHANGED nodeVars /\ UNCHANGED actorVars

\* Mutant of LeaveWait: recycle the node without draining the resolvers.
LeaveWaitUndrained(t) ==
    /\ pc[t] = "drain"
    /\ gen' = [gen EXCEPT ![t] = gen[t] + 1]
    /\ tracked' = [tracked EXCEPT ![t] = FALSE]
    /\ armed' = [armed EXCEPT ![t] = "UNARMED"]
    /\ completed' = [completed EXCEPT ![t] = FALSE]
    /\ err' = [err EXCEPT ![t] = "OK"]
    /\ unint' = [unint EXCEPT ![t] = FALSE]
    /\ deadline' = [deadline EXCEPT ![t] = FALSE]
    /\ UNCHANGED <<waitq, closed, refs, state, runq>>
    /\ UNCHANGED sourceVars /\ UNCHANGED actorVars

\* llam_task_clear_wait_tracking once the resolvers have left, then the node
\* is reset for reuse.  The primitive reads err[t] in the same step.
LeaveWait(t) ==
    /\ pc[t] = "drain" /\ refs[t] = {}
    /\ gen' = [gen EXCEPT ![t] = gen[t] + 1]
    /\ tracked' = [tracked EXCEPT ![t] = FALSE]
    /\ armed' = [armed EXCEPT ![t] = "UNARMED"]
    /\ completed' = [completed EXCEPT ![t] = FALSE]
    /\ err' = [err EXCEPT ![t] = "OK"]
    /\ unint' = [unint EXCEPT ![t] = FALSE]
    /\ deadline' = [deadline EXCEPT ![t] = FALSE]
    /\ UNCHANGED <<waitq, closed, refs, state, runq>>
    /\ UNCHANGED sourceVars /\ UNCHANGED actorVars

-----------------------------------------------------------------------------
(* The resolving side.  Every actor works on one node at a time. *)

\* The actor is done with its node; a token delivery releases its link last.
Finish(a) ==
    /\ apc' = [apc EXCEPT ![a] = "off"]
    /\ tgt' = [tgt EXCEPT ![a] = None]
    /\ agen' = [agen EXCEPT ![a] = 0]
    /\ link' = [link EXCEPT ![tgt[a]] = IF a = CancelM THEN "none" ELSE @]

\* The part of llam_cancel_task_wait_impl before the primitive's lock: enter
\* the gate, then drop out if the wait is another one or is not parked.
Begin(a) ==
    LET t == tgt[a] IN
    /\ apc[a] = "begin"
    /\ \/ closed[t] /\ Finish(a) /\ UNCHANGED refs
       \/ /\ ~closed[t]
          /\ refs' = [refs EXCEPT ![t] = @ \cup {a}]
          /\ agen' = [agen EXCEPT ![a] = gen[t]]
          /\ apc' = [apc EXCEPT ![a] =
                       IF agen[a] \in {0, gen[t]} /\ state[t] = "PARKED"
                       THEN "remove" ELSE "leave"]
          /\ UNCHANGED <<link, tgt>>
    /\ UNCHANGED <<pc, waitq, tracked, closed, gen, state, timer, linkgen,
                   cancelled, stop, scan, runq>>
    /\ UNCHANGED nodeVars

\* Mutant of CancelRemove: record ECANCELED for a node that was already popped.
CancelRemoveBlind(a) ==
    LET t == tgt[a] IN
    /\ apc[a] = "remove"
    /\ Unlink(on[t], t) \/ (~Linked(on[t], t) /\ UNCHANGED waitq)
    /\ err' = [err EXCEPT ![t] = "ECANCELED"]
    /\ apc' = [apc EXCEPT ![a] = "end"]
    /\ UNCHANGED <<pc, armed, completed, unint, on, deadline, runq, tgt, agen>>
    /\ UNCHANGED trackVars /\ UNCHANGED sourceVars

\* Mutant of CancelRemove: no exception for uninterruptible waits.
CancelRemoveAny(a) ==
    LET t == tgt[a] IN
    /\ apc[a] = "remove"
    /\ \/ /\ Unlink(on[t], t)
          /\ err' = [err EXCEPT ![t] = "ECANCELED"]
          /\ apc' = [apc EXCEPT ![a] = "end"]
       \/ /\ ~Linked(on[t], t)
          /\ apc' = [apc EXCEPT ![a] = "leave"]
          /\ UNCHANGED <<waitq, err>>
    /\ UNCHANGED <<pc, armed, completed, unint, on, deadline, runq, tgt, agen>>
    /\ UNCHANGED trackVars /\ UNCHANGED sourceVars

\* Its part under the primitive's lock: revalidate, unlink, record ECANCELED.
CancelRemove(a) ==
    LET t == tgt[a] IN
    /\ apc[a] = "remove"
    /\ \/ /\ tracked[t] /\ gen[t] = agen[a] /\ state[t] = "PARKED" /\ ~unint[t]
          /\ Unlink(on[t], t)
          /\ err' = [err EXCEPT ![t] = "ECANCELED"]
          /\ apc' = [apc EXCEPT ![a] = "end"]
       \/ /\ \/ ~(tracked[t] /\ gen[t] = agen[a] /\ state[t] = "PARKED")
             \/ unint[t] \/ ~Linked(on[t], t)
          /\ apc' = [apc EXCEPT ![a] = "leave"]
          /\ UNCHANGED <<waitq, err>>
    /\ UNCHANGED <<pc, armed, completed, unint, on, deadline, runq, tgt, agen>>
    /\ UNCHANGED trackVars /\ UNCHANGED sourceVars

\* Mutant of ResolverEnd: leave the gate without waking the unlinked node.
ResolverEndSilent(a) ==
    /\ apc[a] \in {"end", "leave"}
    /\ refs' = [refs EXCEPT ![tgt[a]] = @ \ {a}]
    /\ Finish(a)
    /\ UNCHANGED <<pc, waitq, tracked, closed, gen, state, timer, linkgen,
                   cancelled, stop, scan, runq>>
    /\ UNCHANGED nodeVars

\* llam_task_wait_resolver_end, with a node to wake or without.
ResolverEnd(a) ==
    /\ refs' = [refs EXCEPT ![tgt[a]] = @ \ {a}]
    /\ \/ /\ apc[a] = "end"
          /\ apc' = [apc EXCEPT ![a] = "wake"]
          /\ UNCHANGED <<link, tgt, agen>>
       \/ apc[a] = "leave" /\ Finish(a)
    /\ UNCHANGED <<pc, waitq, tracked, closed, gen, state, timer, linkgen,
                   cancelled, stop, scan, runq>>
    /\ UNCHANGED nodeVars

\* Mutant of PrepareWake: requeue a waiter that has not committed to park.
PrepareWakeEager(a) ==
    LET t == tgt[a] IN
    /\ apc[a] = "wake"
    /\ armed' = [armed EXCEPT ![t] = "COMPLETED_QUEUED"]
    /\ completed' = [completed EXCEPT ![t] = TRUE]
    /\ apc' = [apc EXCEPT ![a] = "reinject"]
    /\ UNCHANGED <<pc, waitq, err, unint, on, deadline, timer, linkgen, link,
                   tgt, agen, cancelled, stop, scan, runq>>
    /\ UNCHANGED trackVars

\* llam_wait_node_prepare_wake: 0->2 completes inline, 1->3 obliges the actor
\* to requeue the task.
PrepareWake(a) ==
    LET t == tgt[a] IN
    /\ apc[a] = "wake"
    /\ \/ /\ armed[t] = "UNARMED"
          /\ armed' = [armed EXCEPT ![t] = "COMPLETED_INLINE"]
          /\ apc' = [apc EXCEPT ![a] = "store"]
          /\ UNCHANGED <<completed, link, tgt, agen>>
       \/ /\ armed[t] = "ARMED"
          /\ armed' = [armed EXCEPT ![t] = "COMPLETED_QUEUED"]
          /\ completed' = [completed EXCEPT ![t] = TRUE]
          /\ apc' = [apc EXCEPT ![a] = "reinject"]
          /\ UNCHANGED <<link, tgt, agen>>
       \/ /\ armed[t] \in {"COMPLETED_INLINE", "COMPLETED_QUEUED"}
          /\ Finish(a)
          /\ UNCHANGED <<armed, completed>>
    /\ UNCHANGED <<pc, waitq, err, unint, on, deadline, timer, linkgen,
                   cancelled, stop, scan, runq>>
    /\ UNCHANGED trackVars

\* The store of wake_completed that follows the inline exchange.  The waiter
\* may have left, and even queued its node again, by now.
StoreCompleted(a) ==
    /\ apc[a] = "store"
    /\ completed' = [completed EXCEPT ![tgt[a]] = TRUE]
    /\ Finish(a)
    /\ UNCHANGED <<pc, waitq, armed, err, unint, on, deadline, timer, linkgen,
                   cancelled, stop, scan, runq>>
    /\ UNCHANGED trackVars

\* llam_reinject_task_on_shard: disarm the deadline and close the gate ...
Reinject(a) ==
    LET t == tgt[a] IN
    /\ apc[a] = "reinject"
    /\ timer' = [timer EXCEPT ![t] = 0]
    /\ closed' = [closed EXCEPT ![t] = TRUE]
    /\ apc' = [apc EXCEPT ![a] = "redrain"]
    /\ UNCHANGED <<pc, waitq, tracked, refs, gen, state, link, linkgen,
                   cancelled, stop, scan, runq, tgt, agen>>
    /\ UNCHANGED nodeVars

\* ... then, once its resolvers have left, clear the tracking and queue the
\* task (llam_mark_runnable_locked).
Requeue(a) ==
    LET t == tgt[a] IN
    /\ apc[a] = "redrain" /\ refs[t] = {}
    /\ gen' = [gen EXCEPT ![t] = gen[t] + 1]
    /\ tracked' = [tracked EXCEPT ![t] = FALSE]
    /\ state' = [state EXCEPT ![t] = "RUNNABLE"]
    /\ runq' = [runq EXCEPT ![t] = runq[t] + 1]
    /\ Finish(a)
    /\ UNCHANGED <<pc, waitq, closed, refs, timer, linkgen, cancelled, stop,
                   scan>>
    /\ UNCHANGED nodeVars

\* llam_reinject_task_on_shard_and_yield_current: a task waking a peer without
\* deadline on its own shard switches to it and queues itself.
Handoff(a) ==
    LET t == tgt[a] IN
    /\ a \in Tasks /\ pc[a] \in {"waking", "waking_in"} /\ apc[a] = "reinject"
    /\ SwitchedOut(t) /\ timer[t] = 0 /\ refs[t] = {}
    /\ closed' = [closed EXCEPT ![t] = TRUE]
    /\ gen' = [gen EXCEPT ![t] = gen[t] + 1]
    /\ tracked' = [tracked EXCEPT ![t] = FALSE]
    /\ state' = [state EXCEPT ![t] = "RUNNING", ![a] = "RUNNABLE"]
    /\ pc' = [pc EXCEPT ![t] = "cleanup",
                        ![a] = IF pc[a] = "waking"
                                 THEN "yielded" ELSE "yielded_in"]
    /\ runq' = [runq EXCEPT ![a] = runq[a] + 1]
    /\ Finish(a)
    /\ UNCHANGED <<waitq, refs, timer, linkgen, cancelled, stop, scan>>
    /\ UNCHANGED nodeVars

\* llam_fire_expired_timers: pop an expired record under the shard lock ...
PopTimer(t) ==
    /\ timer[t] # 0 /\ apc[TimerM] = "off"
    /\ timer' = [timer EXCEPT ![t] = 0]
    /\ apc' = [apc EXCEPT ![TimerM] = "check"]
    /\ tgt' = [tgt EXCEPT ![TimerM] = t]
    /\ agen' = [agen EXCEPT ![TimerM] = timer[t]]
    /\ UNCHANGED <<pc, waitq, link, linkgen, cancelled, stop, scan, runq>>
    /\ UNCHANGED nodeVars /\ UNCHANGED trackVars

\* ... llam_timeout_task_wait: drop it unless it names the live wait ...
TimeoutCheck ==
    LET t == tgt[TimerM] IN
    /\ apc[TimerM] = "check"
    /\ IF gen[t] = agen[TimerM] /\ state[t] = "PARKED"
       THEN /\ apc' = [apc EXCEPT ![TimerM] = "tremove"]
            /\ UNCHANGED <<link, tgt, agen>>
       ELSE Finish(TimerM)
    /\ UNCHANGED <<pc, waitq, runq, timer, linkgen, cancelled, stop, scan>>
    /\ UNCHANGED nodeVars /\ UNCHANGED trackVars

\* ... and unlink the node under the primitive's lock.
TimeoutRemove ==
    LET t == tgt[TimerM] IN
    /\ apc[TimerM] = "tremove"
    /\ \/ /\ gen[t] = agen[TimerM] /\ tracked[t]
          /\ Unlink(on[t], t)
          /\ err' = [err EXCEPT ![t] = "ETIMEDOUT"]
          /\ apc' = [apc EXCEPT ![TimerM] = "wake"]
          /\ UNCHANGED <<link, tgt, agen>>
       \/ /\ ~(gen[t] = agen[TimerM] /\ tracked[t] /\ Linked(on[t], t))
          /\ Finish(TimerM)
          /\ UNCHANGED <<waitq, err>>
    /\ UNCHANGED <<pc, armed, completed, unint, on, deadline, runq, timer,
                   linkgen, cancelled, stop, scan>>
    /\ UNCHANGED trackVars

\* llam_cancel_token_cancel under the token lock: detach every registration.
CancelToken ==
    /\ TokenTasks # {} /\ ~cancelled
    /\ cancelled' = TRUE
    /\ link' = [t \in Tasks |->
                  IF link[t] = "registered" THEN "delivering" ELSE link[t]]
    /\ UNCHANGED <<pc, waitq, timer, linkgen, stop, scan, runq>>
    /\ UNCHANGED nodeVars /\ UNCHANGED trackVars /\ UNCHANGED actorVars

\* Its delivery loop, one detached registration at a time.
Deliver(t) ==
    /\ link[t] = "delivering" /\ apc[CancelM] = "off"
    /\ apc' = [apc EXCEPT ![CancelM] = "begin"]
    /\ tgt' = [tgt EXCEPT ![CancelM] = t]
    /\ agen' = [agen EXCEPT ![CancelM] = linkgen[t]]
    /\ UNCHANGED <<pc, waitq, runq>> /\ UNCHANGED nodeVars
    /\ UNCHANGED trackVars /\ UNCHANGED sourceVars

\* llam_runtime_request_stop_rt.
RequestStop ==
    /\ MayStop /\ ~stop /\ stop' = TRUE
    /\ UNCHANGED <<pc, waitq, timer, link, linkgen, cancelled, scan, runq>>
    /\ UNCHANGED nodeVars /\ UNCHANGED trackVars /\ UNCHANGED actorVars

\* llam_runtime_cancel_parked_waiters: collect the parked tasks ...
CollectParked ==
    /\ stop /\ scan = {} /\ apc[StopM] = "off"
    /\ scan' = {t \in Tasks : state[t] = "PARKED"}
    /\ scan' # {}
    /\ UNCHANGED <<pc, waitq, timer, link, linkgen, cancelled, stop, runq>>
    /\ UNCHANGED nodeVars /\ UNCHANGED trackVars /\ UNCHANGED actorVars

\* ... then resolve them one by one.
CancelParked(t) ==
    /\ t \in scan /\ apc[StopM] = "off"
    /\ scan' = scan \ {t}
    /\ apc' = [apc EXCEPT ![StopM] = "begin"]
    /\ tgt' = [tgt EXCEPT ![StopM] = t]
    /\ agen' = [agen EXCEPT ![StopM] = 0]
    /\ UNCHANGED <<pc, waitq, timer, link, linkgen, cancelled, stop, runq>>
    /\ UNCHANGED nodeVars /\ UNCHANGED trackVars

WaiterStep(t) ==
    \/ SetTracking(t) \/ ArmDeadline(t) \/ Register(t) \/ Undo(t)
    \/ ShouldPark(t) \/ Park(t) \/ Cleanup(t)

ActorStep(a) ==
    \/ Begin(a) \/ CancelRemove(a) \/ ResolverEnd(a) \/ PrepareWake(a)
    \/ StoreCompleted(a) \/ Reinject(a) \/ Requeue(a) \/ Handoff(a)

\* The steps each native thread has to take: the one that fires timers, the one
\* that cancels the token, and the scheduler that runs the stop pass.
TimerStep  == (\E t \in Tasks : PopTimer(t)) \/ TimeoutCheck \/ TimeoutRemove
                \/ ActorStep(TimerM)
CancelStep == (\E t \in Tasks : Deliver(t)) \/ ActorStep(CancelM)
StopStep   == CollectParked \/ (\E t \in Tasks : CancelParked(t)) \/ ActorStep(StopM)
\* ... and those of a task inside a wait, or waking another.
ParkStep(t) == WaiterStep(t) \/ Dispatch(t) \/ ActorStep(t)

WaitNext ==
    \/ \E t \in Tasks : WaiterStep(t) \/ Dispatch(t) \/ PopTimer(t)
                          \/ Deliver(t) \/ CancelParked(t)
    \/ \E a \in Actors : ActorStep(a)
    \/ TimeoutCheck \/ TimeoutRemove
    \/ CancelToken \/ RequestStop \/ CollectParked

-----------------------------------------------------------------------------
(* What the protocol promises. *)

Holders(t)   == {a \in Actors : tgt[a] = t /\ apc[a] \in HoldPcs}
Requeuers(t) == {a \in Actors : tgt[a] = t /\ apc[a] \in RequeuePcs}

\* Types of the wait state; Pcs are the control points of the primitive.
WaitTypeOK(Pcs) ==
    /\ pc \in [Tasks -> Pcs \cup OutPcs \cup InPcs \cup WaitPcs \cup DonePcs]
    /\ waitq \in [Queues -> Seq(Tasks)]
    /\ armed \in [Tasks -> {"UNARMED", "ARMED", "COMPLETED_INLINE", "COMPLETED_QUEUED"}]
    /\ completed \in [Tasks -> BOOLEAN]
    /\ err \in [Tasks -> Errors]
    /\ unint \in [Tasks -> BOOLEAN]
    /\ on \in [Tasks -> Queues \cup {None}]
    /\ deadline \in [Tasks -> BOOLEAN]
    /\ tracked \in [Tasks -> BOOLEAN]
    /\ closed \in [Tasks -> BOOLEAN]
    /\ refs \in [Tasks -> SUBSET Actors]
    /\ gen \in [Tasks -> Nat]
    /\ state \in [Tasks -> {"RUNNING", "RUNNABLE", "PARKED"}]
    /\ timer \in [Tasks -> Nat]
    /\ link \in [Tasks -> {"none", "registered", "delivering"}]
    /\ linkgen \in [Tasks -> Nat]
    /\ cancelled \in BOOLEAN /\ stop \in BOOLEAN
    /\ scan \in SUBSET Tasks
    /\ runq \in [Tasks -> Nat]
    /\ apc \in [Actors -> ActorPcs]
    /\ tgt \in [Actors -> Tasks \cup {None}]
    /\ agen \in [Actors -> Nat]

\* A wait is resolved by one party only.  Until its node is completed it is
\* either linked in its queue or in the hands of exactly one actor that will
\* complete it; a completed node is in neither place.  The races are those of
\* unlock, timeout, token delivery, stop and setup rollback on one node.
ResolvedOnceBy(Held(_)) ==
    \A t \in Tasks : pc[t] \in WaitPcs =>
       LET inq == {q \in Queues : Linked(q, t)} IN
       IF armed[t] \in {"UNARMED", "ARMED"}
       THEN \/ inq = {on[t]} /\ Held(t) = {}
            \/ inq = {} /\ \E a \in Actors : Held(t) = {a}
       ELSE inq = {} /\ Held(t) = {}

ResolvedOnce == ResolvedOnceBy(Holders)

\* No lost and no double wake-up: a parked task whose node was completed has
\* exactly one of a pending requeue and a run-queue entry, and a task that
\* executes has neither, so no two workers can ever run it.
QueuedOnce ==
    \A t \in Tasks :
       /\ runq[t] \in {0, 1}
       /\ runq[t] = 1 => Requeuers(t) = {} /\ pc[t] \in ParkPcs \cup YieldPcs
       /\ pc[t] \in YieldPcs => runq[t] = 1
       /\ pc[t] \in ParkPcs /\ armed[t] = "COMPLETED_QUEUED" /\ runq[t] = 0
             => \E a \in Actors : Requeuers(t) = {a}
       /\ Requeuers(t) # {} => pc[t] \in ParkPcs /\ armed[t] = "COMPLETED_QUEUED"

\* A resolver counted in the gate works on the wait whose owner fields are
\* published: no generation passes and no node is recycled under it.
ResolverPinsWait ==
    \A t \in Tasks : \A a \in refs[t] :
       /\ tgt[a] = t /\ apc[a] \in {"remove", "leave", "end"}
       /\ tracked[t] /\ gen[t] = agen[a]

\* A timeout reaches only the call that asked for a deadline: a timer record
\* popped for an earlier wait of the same task never times out a later one.
NoForeignTimeout ==
    \A t \in Tasks : err[t] = "ETIMEDOUT" => deadline[t]
====
