------------------------------ MODULE NormQueue ------------------------------
(***************************************************************************)
(* The normal run queues of a compatibility runtime (legacy execution      *)
(* lease, one worker per shard): core/sched/norm_queue.c,                  *)
(* norm_queue_depth.c, core_queue.c, the steal loop of                     *)
(* engine/scheduler/scheduler_engine.c, llam_yield and direct handoff.     *)
(* Without LLAM_RUNTIME_EXPERIMENTAL_F_LOCKFREE_NORMQ the queue is a list  *)
(* under the shard lock, which thieves take from at the tail.  With it the *)
(* owner pushes and pops the bottom of a Chase-Lev deque, thieves take     *)
(* from the top, and the list holds the tasks that yielded.                *)
(*                                                                         *)
(* The deque's stores of push and pop are not sequentially consistent.     *)
(* They wait in the owner's store buffer, in order, until Flush; a         *)
(* fence, a compare-and-swap and a lock wait for the buffer to be empty.   *)
(* Indices are modular, as size_t is.  A task that yields or parks is      *)
(* published before its context is saved: `unsaved'.                       *)
(***************************************************************************)
EXTENDS Naturals, Sequences, FiniteSets

CONSTANTS
    Shards,      \* shards, and the worker of each
    Tasks,
    Pinned,      \* tasks spawned with LLAM_SPAWN_F_PINNED
    Home,        \* the home shard of the pinned tasks
    Cap,         \* LLAM_NORM_QUEUE_CAP, of the deque and of the FIFO
    InjectCap,   \* LLAM_INJECT_QUEUE_CAP
    IndexMod,    \* number of index values: SIZE_MAX + 1
    Start,       \* index the deques start from
    Burst,       \* LLAM_DIRECT_YIELD_FIFO_FAIRNESS_BURST
    Budget,      \* rt->direct_handoff_budget, 0 for no bound
    KeepTurns,   \* turns a lone task may keep running for
    StealMin,    \* smallest deque depth worth stealing from
    StealShare,  \* a thief takes depth / StealShare tasks of a deque
    Lanes,       \* values of rt->experimental_lockfree_normq to explore
    MaxWakes,    \* bound on the number of spawns and wakes
    None

ASSUME NormQueueConstants ==
    /\ Pinned \subseteq Tasks /\ Home \in Shards
    /\ Cap \in Nat \ {0} /\ InjectCap \in Nat \ {0}
    /\ IndexMod % Cap = 0 /\ Cap < IndexMod \div 2
    /\ Start \in 0 .. IndexMod - 1
    /\ Burst \in Nat \ {0} /\ Budget \in Nat /\ KeepTurns \in Nat
    /\ StealMin \in Nat \ {0, 1} /\ StealShare \in Nat \ {0}
    /\ Lanes \subseteq BOOLEAN
    /\ None \notin Tasks \cup Shards

VARIABLES
    top, bottom, buffer,  \* norm_cldeque of each shard, as memory holds it
    stores,               \* store buffer of each worker: a sequence of writes
    fifo,                 \* norm_q, the lane of tasks that yielded
    depth,                \* norm_depth
    inject,               \* inject_q
    overflow,             \* rt->overflow_q
    running,              \* the task each worker runs
    unsaved,              \* the task whose context a worker still has to save
    streak,               \* direct_handoff_streak
    pc, loc, ret,         \* where a worker is, its locals, who called it
    wakeOn,               \* shards a new or parked task may be queued on
    wakes,                \* number of spawns and wakes so far
    spilled,              \* tasks that have been in the overflow queue
    fatal,                \* llam_record_fatal was called
    lockfree              \* rt->experimental_lockfree_normq

dequeVars == <<top, bottom, buffer, stores>>
queueVars == <<fifo, depth, inject, overflow, spilled, fatal>>
taskVars == <<running, unsaved, streak, wakeOn, wakes>>
vars == <<dequeVars, queueVars, taskVars, pc, loc, ret, lockfree>>

Index == 0 .. IndexMod - 1
Bottom == Cap   \* the address of `bottom' in a store buffer
Steps == {"run", "yield", "push", "sched", "pop", "popCas", "deq", "hungry",
          "failed", "stealTop", "stealBottom", "stealSlot", "stealCas",
          "stealDeq", "stolen", "switch"}
Callers == {"run", "exchange", "prefer", "park", "take", "retake", "stolen"}
StreakCap == CHOOSE n \in {Burst, Budget, KeepTurns} :
                \A k \in {Burst, Budget, KeepTurns} : k <= n
NoLoc == [task |-> None, top |-> Start, victim |-> None, quota |-> 0]

TypeOK ==
    /\ top \in [Shards -> Index] /\ bottom \in [Shards -> Index]
    /\ buffer \in [Shards -> [0 .. Cap - 1 -> Tasks \cup {None}]]
    /\ \A s \in Shards : \A i \in 1 .. Len(stores[s]) : stores[s][i].at \in 0 .. Cap
    /\ fifo \in [Shards -> Seq(Tasks)] /\ \A s \in Shards : Len(fifo[s]) <= Cap
    /\ depth \in [Shards -> Nat]
    /\ inject \in [Shards -> Seq(Tasks)]
    /\ overflow \in Seq(Tasks) /\ spilled \subseteq Tasks
    /\ running \in [Shards -> Tasks \cup {None}]
    /\ unsaved \in [Shards -> Tasks \cup {None}]
    /\ streak \in [Shards -> 0 .. StreakCap]
    /\ pc \in [Shards -> Steps] /\ ret \in [Shards -> Callers]
    /\ loc \in [Shards -> [task : Tasks \cup {None}, top : Index,
                           victim : Shards \cup {None}, quota : Nat]]
    /\ wakeOn \in [Tasks -> SUBSET Shards] /\ wakes \in 0 .. MaxWakes
    /\ fatal \in BOOLEAN /\ lockfree \in Lanes

Init ==
    /\ top = [s \in Shards |-> Start] /\ bottom = [s \in Shards |-> Start]
    /\ buffer = [s \in Shards |-> [i \in 0 .. Cap - 1 |-> None]]
    /\ stores = [s \in Shards |-> <<>>] /\ fifo = [s \in Shards |-> <<>>]
    /\ depth = [s \in Shards |-> 0] /\ inject = [s \in Shards |-> <<>>]
    /\ overflow = <<>> /\ spilled = {} /\ fatal = FALSE
    /\ running = [s \in Shards |-> None] /\ unsaved = [s \in Shards |-> None]
    /\ streak = [s \in Shards |-> 0] /\ lockfree \in Lanes
    /\ pc = [s \in Shards |-> "sched"] /\ loc = [s \in Shards |-> NoLoc]
    /\ ret = [s \in Shards |-> "take"]
    /\ wakeOn = [t \in Tasks |-> IF t \in Pinned THEN {Home} ELSE Shards]
    /\ wakes = 0

Longer(n) == IF n < StreakCap THEN n + 1 ELSE n
InBudget(w) == Budget = 0 \/ streak[w] < Budget
Goto(w, step) == pc' = [pc EXCEPT ![w] = step]
-------------------------------------------------------------------------------
(* Indices.                                                                *)
Add(i, n) == (i + n) % IndexMod
Distance(b, t) == (b + IndexMod - t) % IndexMod
IsNegative(d) == d >= IndexMod \div 2

(* What the owner reads: its own latest buffered store, else memory.       *)
Latest(s, at) == {i \in 1 .. Len(stores[s]) :
                    /\ stores[s][i].at = at
                    /\ \A j \in i + 1 .. Len(stores[s]) : stores[s][j].at # at}
OwnBottom(s) == IF Latest(s, Bottom) = {} THEN bottom[s]
                ELSE stores[s][CHOOSE i \in Latest(s, Bottom) : TRUE].val
OwnSlot(s, k) == IF Latest(s, k) = {} THEN buffer[s][k]
                 ELSE stores[s][CHOOSE i \in Latest(s, k) : TRUE].val

Store(s, at, val) == [stores EXCEPT ![s] = Append(@, [at |-> at, val |-> val])]
Fenced(w) == stores[w] = <<>>

Flush(w) ==
    /\ stores[w] # <<>>
    /\ LET st == Head(stores[w]) IN
         IF st.at = Bottom
           THEN bottom' = [bottom EXCEPT ![w] = st.val] /\ UNCHANGED buffer
           ELSE buffer' = [buffer EXCEPT ![w][st.at] = st.val] /\ UNCHANGED bottom
    /\ stores' = [stores EXCEPT ![w] = Tail(@)]
    /\ UNCHANGED top /\ UNCHANGED queueVars /\ UNCHANGED taskVars
    /\ UNCHANGED <<pc, loc, ret>>

(* llam_enqueue_overflow_task, and a bounded queue in front of it.         *)
Spill(t) == overflow' = Append(overflow, t) /\ spilled' = spilled \cup {t}

PushInject(s, t) ==
    IF Len(inject[s]) < InjectCap
      THEN /\ inject' = [inject EXCEPT ![s] = Append(@, t)]
           /\ UNCHANGED <<overflow, spilled>>
      ELSE Spill(t) /\ UNCHANGED inject

(* llam_norm_queue_note_enqueue, llam_norm_queue_note_dequeue.             *)
NoteEnqueue(s) == depth' = [depth EXCEPT ![s] = @ + 1] /\ UNCHANGED fatal
NoteDequeue(s) ==
    IF depth[s] = 0 THEN fatal' = TRUE /\ UNCHANGED depth
    ELSE depth' = [depth EXCEPT ![s] = @ - 1] /\ UNCHANGED fatal
-------------------------------------------------------------------------------
(* A wake or spawn by a thread that does not run on shard s, under its     *)
(* lock: a parked task returns to the shard it parked on.                  *)
Wake(t, s) ==
    /\ s \in wakeOn[t] /\ wakes < MaxWakes
    /\ PushInject(s, t)
    /\ wakeOn' = [wakeOn EXCEPT ![t] = {}] /\ wakes' = wakes + 1
    /\ UNCHANGED dequeVars /\ UNCHANGED <<fifo, depth, fatal>>
    /\ UNCHANGED <<running, unsaved, streak, pc, loc, ret>>

(* A spawn by the running task (llam_norm_queue_push_owner_unlocked), or a *)
(* wake by it (llam_norm_queue_commit_owner_locked): first the depth ...   *)
PushOwner(w, t) ==
    /\ pc[w] = "run" /\ Fenced(w)
    /\ w \in wakeOn[t] /\ wakes < MaxWakes
    /\ NoteEnqueue(w)
    /\ loc' = [loc EXCEPT ![w].task = t]
    /\ ret' = [ret EXCEPT ![w] = "run"] /\ Goto(w, "push")
    /\ wakeOn' = [wakeOn EXCEPT ![t] = {}] /\ wakes' = wakes + 1
    /\ UNCHANGED dequeVars /\ UNCHANGED <<fifo, inject, overflow, spilled>>
    /\ UNCHANGED <<running, unsaved, streak>>

(* What follows a push: the caller of a spawn runs on, the inject queue is *)
(* drained further, a thief steals on or takes what it has.                *)
AfterPush(w) ==
    /\ loc' = [loc EXCEPT ![w] = IF ret[w] = "stolen"
                                   THEN [loc[w] EXCEPT !.task = None] ELSE NoLoc]
    /\ \/ ret[w] = "run" /\ Goto(w, "run") /\ UNCHANGED ret
       \/ ret[w] = "take" /\ Goto(w, "sched") /\ UNCHANGED ret
       \/ /\ ret[w] = "stolen"
          /\ Goto(w, IF loc[w].quota = 0 THEN "sched" ELSE "stealTop")
          /\ ret' = [ret EXCEPT ![w] = "retake"]

(* Mutant of Push: a task that does not fit keeps its depth.               *)
PushKeepsDepth(w) ==
    /\ pc[w] = "push" /\ lockfree
    /\ LET b == OwnBottom(w)
           d == Distance(b, top[w])
       IN  IF IsNegative(d) \/ d >= Cap
             THEN /\ Fenced(w)
                  /\ Spill(loc[w].task)
                  /\ UNCHANGED stores /\ UNCHANGED <<depth, fatal>>
             ELSE /\ stores' = [stores EXCEPT ![w] = @ \o
                        <<[at |-> b % Cap, val |-> loc[w].task],
                          [at |-> Bottom, val |-> Add(b, 1)]>>]
                  /\ UNCHANGED <<depth, fatal, overflow, spilled>>
    /\ AfterPush(w)
    /\ UNCHANGED <<top, bottom, buffer, fifo, inject>> /\ UNCHANGED taskVars

(* ... then llam_cldeque_push_bottom; a full deque undoes the depth and    *)
(* spills the task.                                                        *)
Push(w) ==
    /\ pc[w] = "push" /\ lockfree
    /\ LET b == OwnBottom(w)
           d == Distance(b, top[w])
       IN  IF IsNegative(d) \/ d >= Cap
             THEN /\ Fenced(w)
                  /\ NoteDequeue(w) /\ Spill(loc[w].task)
                  /\ UNCHANGED stores
             ELSE /\ stores' = [stores EXCEPT ![w] = @ \o
                        <<[at |-> b % Cap, val |-> loc[w].task],
                          [at |-> Bottom, val |-> Add(b, 1)]>>]
                  /\ UNCHANGED <<depth, fatal, overflow, spilled>>
    /\ AfterPush(w)
    /\ UNCHANGED <<top, bottom, buffer, fifo, inject>> /\ UNCHANGED taskVars

(* The same in the locked lane: llam_queue_commit_bounded_locked.          *)
PushLocked(w) ==
    /\ pc[w] = "push" /\ ~lockfree
    /\ IF Len(fifo[w]) < Cap
         THEN /\ fifo' = [fifo EXCEPT ![w] = Append(@, loc[w].task)]
              /\ UNCHANGED <<depth, fatal, overflow, spilled>>
         ELSE NoteDequeue(w) /\ Spill(loc[w].task) /\ UNCHANGED fifo
    /\ AfterPush(w)
    /\ UNCHANGED dequeVars /\ UNCHANGED inject /\ UNCHANGED taskVars

(* llam_cldeque_pop_bottom: lower bottom ...                               *)
PopStore(w, caller) ==
    /\ stores' = Store(w, Bottom, Add(OwnBottom(w), IndexMod - 1))
    /\ Goto(w, "pop") /\ ret' = [ret EXCEPT ![w] = caller]
    /\ UNCHANGED <<top, bottom, buffer>>

(* What the callers of the pop do with its result x.  The pops of the      *)
(* scheduler and of a parking task go on to the FIFO; a direct yield       *)
(* queues the running task in exchange, and the depth does not change.     *)
Popped(w, x) ==
    \/ /\ ret[w] \in {"take", "retake", "park"}
       /\ LET next == IF x = None /\ fifo[w] # <<>> THEN Head(fifo[w]) ELSE x
          IN  /\ fifo' = IF next # x THEN [fifo EXCEPT ![w] = Tail(@)] ELSE fifo
              /\ loc' = [loc EXCEPT ![w] = [NoLoc EXCEPT !.task = next]]
              /\ Goto(w, IF next # None THEN "deq"
                         ELSE CASE ret[w] = "take" -> "hungry"
                                [] ret[w] = "retake" -> "failed"
                                [] ret[w] = "park" -> "switch")
       /\ UNCHANGED <<running, streak, ret>>
    \/ /\ ret[w] \in {"exchange", "prefer"} /\ x # None
       /\ fifo' = [fifo EXCEPT ![w] = Append(@, running[w])]
       /\ running' = [running EXCEPT ![w] = x]
       /\ streak' = [streak EXCEPT ![w] = IF ret[w] = "prefer" THEN 1 ELSE Longer(@)]
       /\ loc' = [loc EXCEPT ![w] = NoLoc]
       /\ Goto(w, "run") /\ ret' = [ret EXCEPT ![w] = "run"]
    \/ /\ ret[w] \in {"exchange", "prefer"} /\ x = None
       /\ loc' = [loc EXCEPT ![w] = NoLoc]
       /\ Goto(w, "yield") /\ ret' = [ret EXCEPT ![w] = "run"]
       /\ UNCHANGED <<fifo, running, streak>>

PopBody(w) ==
    /\ pc[w] = "pop"
    /\ LET b == OwnBottom(w)
           d == Distance(b, top[w])
       IN  \/ /\ IsNegative(d)
              /\ stores' = Store(w, Bottom, top[w])
              /\ Popped(w, None)
           \/ /\ ~IsNegative(d) /\ d > 0
              /\ Popped(w, OwnSlot(w, b % Cap))
              /\ UNCHANGED stores
           \/ /\ d = 0
              /\ loc' = [loc EXCEPT ![w] =
                     [loc[w] EXCEPT !.task = OwnSlot(w, b % Cap), !.top = top[w]]]
              /\ Goto(w, "popCas")
              /\ UNCHANGED <<stores, fifo, running, streak, ret>>
    /\ UNCHANGED <<top, bottom, buffer, depth, inject, overflow, spilled, fatal>>
    /\ UNCHANGED <<unsaved, wakeOn, wakes>>

(* Mutant of PopFence: no fence between the store and the load.            *)
PopUnfenced(w) == PopBody(w)

(* ... and, after the fence, look at top.  Empty: restore bottom.  More    *)
(* than one task: the last one is the owner's.                             *)
PopFence(w) == Fenced(w) /\ PopBody(w)

(* One task left: the owner and the thieves compete for top.               *)
PopCas(w) ==
    /\ pc[w] = "popCas" /\ Fenced(w)
    /\ IF top[w] = loc[w].top
         THEN /\ top' = [top EXCEPT ![w] = Add(@, 1)]
              /\ Popped(w, loc[w].task)
         ELSE Popped(w, None) /\ UNCHANGED top
    /\ stores' = Store(w, Bottom, Add(loc[w].top, 1))
    /\ UNCHANGED <<bottom, buffer, depth, inject, overflow, spilled, fatal>>
    /\ UNCHANGED <<unsaved, wakeOn, wakes>>

(* The depth follows the pop; then the task runs.                          *)
PopDequeue(w) ==
    /\ pc[w] = "deq" /\ Fenced(w)
    /\ NoteDequeue(w)
    /\ running' = [running EXCEPT ![w] = loc[w].task]
    /\ streak' = [streak EXCEPT ![w] = IF ret[w] = "park" THEN Longer(@) ELSE @]
    /\ unsaved' = [unsaved EXCEPT ![w] = None]
    /\ loc' = [loc EXCEPT ![w] = NoLoc]
    /\ Goto(w, "run") /\ ret' = [ret EXCEPT ![w] = "run"]
    /\ UNCHANGED dequeVars /\ UNCHANGED <<fifo, inject, overflow, spilled>>
    /\ UNCHANGED <<wakeOn, wakes>>
-------------------------------------------------------------------------------
(* Mutant of PreferOwnerDeque: the FIFO always goes first.                 *)
PreferNever(w) == FALSE

(* Now and then a direct yield takes owner-deque work before the FIFO.     *)
PreferOwnerDeque(w) ==
    LET d == Distance(OwnBottom(w), top[w])
    IN  streak[w] >= Burst /\ d # 0 /\ ~IsNegative(d)

(* llam_norm_queue_exchange_yield_unlocked: swap the running task with     *)
(* the head of the FIFO, or with the bottom of the deque.                  *)
YieldDirect(w) ==
    /\ pc[w] = "run" /\ lockfree /\ InBudget(w)
    /\ \/ /\ ~PreferOwnerDeque(w) /\ fifo[w] # <<>>
          /\ running' = [running EXCEPT ![w] = Head(fifo[w])]
          /\ fifo' = [fifo EXCEPT ![w] = Append(Tail(@), running[w])]
          /\ streak' = [streak EXCEPT ![w] = Longer(@)]
          /\ UNCHANGED dequeVars /\ UNCHANGED <<pc, ret>>
       \/ /\ PreferOwnerDeque(w) \/ fifo[w] = <<>>
          /\ Len(fifo[w]) < Cap
          /\ PopStore(w, IF PreferOwnerDeque(w) THEN "prefer" ELSE "exchange")
          /\ UNCHANGED <<fifo, running, streak>>
    /\ UNCHANGED <<depth, inject, overflow, spilled, fatal>>
    /\ UNCHANGED <<unsaved, wakeOn, wakes, loc>>

(* llam_yield_keep_running_if_idle: nothing to exchange with.              *)
YieldKeep(w) ==
    /\ pc[w] = "yield" /\ inject[w] = <<>> /\ streak[w] < KeepTurns
    /\ streak' = [streak EXCEPT ![w] = Longer(@)]
    /\ Goto(w, "run")
    /\ UNCHANGED dequeVars /\ UNCHANGED queueVars
    /\ UNCHANGED <<running, unsaved, wakeOn, wakes, loc, ret>>

(* Mutant of YieldCommit: the FIFO is not bounded.                         *)
YieldUnbounded(w) ==
    /\ pc[w] \in {"run", "yield"} /\ Fenced(w)
    /\ fifo' = [fifo EXCEPT ![w] = Append(@, running[w])]
    /\ NoteEnqueue(w) /\ UNCHANGED <<overflow, spilled>>
    /\ running' = [running EXCEPT ![w] = None]
    /\ unsaved' = [unsaved EXCEPT ![w] = running[w]]
    /\ streak' = [streak EXCEPT ![w] = 0]
    /\ Goto(w, "switch")
    /\ UNCHANGED dequeVars /\ UNCHANGED <<inject, wakeOn, wakes, loc, ret>>

(* llam_yield through the scheduler (llam_norm_queue_commit_yield_locked): *)
(* by policy, when the handoff budget is used up, or after a direct yield  *)
(* that found nothing.                                                     *)
YieldCommit(w) ==
    /\ pc[w] \in {"run", "yield"} /\ Fenced(w)
    /\ IF Len(fifo[w]) < Cap
         THEN /\ fifo' = [fifo EXCEPT ![w] = Append(@, running[w])]
              /\ NoteEnqueue(w) /\ UNCHANGED <<overflow, spilled>>
         ELSE Spill(running[w]) /\ UNCHANGED <<fifo, depth, fatal>>
    /\ running' = [running EXCEPT ![w] = None]
    /\ unsaved' = [unsaved EXCEPT ![w] = running[w]]
    /\ streak' = [streak EXCEPT ![w] = 0]
    /\ Goto(w, "switch")
    /\ UNCHANGED dequeVars /\ UNCHANGED <<inject, wakeOn, wakes, loc, ret>>

(* The running task blocks: llam_park_try_local_handoff pops the next one  *)
(* (llam_norm_queue_pop_owner_unlocked), or the scheduler takes over.      *)
Park(w) ==
    /\ pc[w] = "run"
    /\ wakeOn' = [wakeOn EXCEPT ![running[w]] = {w}]
    /\ running' = [running EXCEPT ![w] = None]
    /\ unsaved' = [unsaved EXCEPT ![w] = running[w]]
    /\ \/ lockfree /\ InBudget(w) /\ PopStore(w, "park") /\ UNCHANGED streak
       \/ /\ Goto(w, "switch") /\ UNCHANGED dequeVars /\ UNCHANGED ret
          /\ streak' = [streak EXCEPT ![w] = IF InBudget(w) THEN @ ELSE 0]
    /\ UNCHANGED queueVars /\ UNCHANGED <<wakes, loc>>

(* llam_switch_task_to_scheduler: the context is saved.                    *)
Switch(w) ==
    /\ pc[w] = "switch"
    /\ unsaved' = [unsaved EXCEPT ![w] = None]
    /\ Goto(w, "sched") /\ ret' = [ret EXCEPT ![w] = "take"]
    /\ UNCHANGED dequeVars /\ UNCHANGED queueVars
    /\ UNCHANGED <<running, streak, wakeOn, wakes, loc>>
-------------------------------------------------------------------------------
(* A pass of the scheduler loop: llam_drain_inject_queue moves one task    *)
(* after the other to the deque, then llam_take_local_task pops one.       *)
DrainInject(w) ==
    /\ pc[w] = "sched" /\ ret[w] = "take" /\ inject[w] # <<>> /\ Fenced(w)
    /\ NoteEnqueue(w)
    /\ loc' = [loc EXCEPT ![w].task = Head(inject[w])]
    /\ inject' = [inject EXCEPT ![w] = Tail(@)]
    /\ Goto(w, "push") /\ UNCHANGED ret
    /\ UNCHANGED dequeVars /\ UNCHANGED <<fifo, overflow, spilled>>
    /\ UNCHANGED taskVars

TakeLocal(w) ==
    /\ pc[w] = "sched" /\ Fenced(w)
    /\ ret[w] = "retake" \/ inject[w] = <<>>
    /\ \/ lockfree /\ PopStore(w, ret[w]) /\ UNCHANGED <<fifo, running, streak, loc>>
       \/ ~lockfree /\ Popped(w, None) /\ UNCHANGED dequeVars
    /\ UNCHANGED <<depth, inject, overflow, spilled, fatal>>
    /\ UNCHANGED <<unsaved, wakeOn, wakes>>

(* llam_should_steal_from_victim, with what the thief sees right now.      *)
ShouldSteal(w, v) ==
    /\ v # w /\ depth[v] >= 2 /\ depth[v] >= 2 * depth[w]
    /\ inject[v] = <<>>
    /\ lockfree => depth[v] >= StealMin

(* No local work: the overflow queue (before stealing under pressure,      *)
(* after it otherwise), a victim, or an idle wait.                         *)
TakeOverflow(w) ==
    /\ pc[w] \in {"hungry", "failed"} /\ Fenced(w) /\ overflow # <<>>
    /\ running' = [running EXCEPT ![w] = Head(overflow)]
    /\ overflow' = Tail(overflow)
    /\ loc' = [loc EXCEPT ![w] = NoLoc]
    /\ Goto(w, "run") /\ ret' = [ret EXCEPT ![w] = "run"]
    /\ UNCHANGED dequeVars /\ UNCHANGED <<fifo, depth, inject, spilled, fatal>>
    /\ UNCHANGED <<unsaved, streak, wakeOn, wakes>>

StealBegin(w, v) ==
    /\ pc[w] = "hungry" /\ Fenced(w) /\ ShouldSteal(w, v)
    /\ LET share == depth[v] \div (IF lockfree THEN StealShare ELSE 2)
       IN  loc' = [loc EXCEPT ![w] = [NoLoc EXCEPT !.victim = v,
                     !.quota = IF share = 0 THEN 1 ELSE share]]
    /\ Goto(w, "stealTop") /\ ret' = [ret EXCEPT ![w] = "take"]
    /\ UNCHANGED dequeVars /\ UNCHANGED queueVars /\ UNCHANGED taskVars

Idle(w) ==
    /\ \/ pc[w] = "hungry" /\ \A v \in Shards : ~ShouldSteal(w, v)
       \/ pc[w] = "failed"
    /\ overflow = <<>>
    /\ loc' = [loc EXCEPT ![w] = NoLoc]
    /\ Goto(w, "sched") /\ ret' = [ret EXCEPT ![w] = "take"]
    /\ UNCHANGED dequeVars /\ UNCHANGED queueVars /\ UNCHANGED taskVars

(* llam_cldeque_steal_top, one shared access a step: load top, fence, load *)
(* bottom, load the slot, exchange top.  A thief that comes away empty     *)
(* stops; what it has stolen before is in its own deque.                   *)
GiveUp(w) == Goto(w, IF ret[w] = "retake" THEN "sched" ELSE "failed")

StealTop(w) ==
    /\ pc[w] = "stealTop" /\ lockfree /\ Fenced(w)
    /\ loc' = [loc EXCEPT ![w].top = top[loc[w].victim]]
    /\ Goto(w, "stealBottom")
    /\ UNCHANGED dequeVars /\ UNCHANGED queueVars /\ UNCHANGED taskVars
    /\ UNCHANGED ret

StealBottom(w) ==
    /\ pc[w] = "stealBottom"
    /\ LET d == Distance(bottom[loc[w].victim], loc[w].top)
       IN  IF d = 0 \/ IsNegative(d) THEN GiveUp(w) ELSE Goto(w, "stealSlot")
    /\ UNCHANGED dequeVars /\ UNCHANGED queueVars /\ UNCHANGED taskVars
    /\ UNCHANGED <<loc, ret>>

StealSlot(w) ==
    /\ pc[w] = "stealSlot"
    /\ LET x == buffer[loc[w].victim][loc[w].top % Cap]
       IN  /\ loc' = [loc EXCEPT ![w].task = x]
           /\ IF x = None THEN GiveUp(w) ELSE Goto(w, "stealCas")
    /\ UNCHANGED dequeVars /\ UNCHANGED queueVars /\ UNCHANGED taskVars
    /\ UNCHANGED ret

StealCas(w) ==
    /\ pc[w] = "stealCas"
    /\ LET v == loc[w].victim IN
         IF top[v] = loc[w].top
           THEN top' = [top EXCEPT ![v] = Add(@, 1)] /\ Goto(w, "stealDeq") /\ UNCHANGED loc
           ELSE GiveUp(w) /\ UNCHANGED top /\ loc' = [loc EXCEPT ![w].task = None]
    /\ UNCHANGED <<bottom, buffer, stores>>
    /\ UNCHANGED queueVars /\ UNCHANGED taskVars /\ UNCHANGED ret

StealDequeue(w) ==
    /\ pc[w] = "stealDeq"
    /\ NoteDequeue(loc[w].victim)
    /\ Goto(w, "stolen")
    /\ UNCHANGED dequeVars /\ UNCHANGED <<fifo, inject, overflow, spilled>>
    /\ UNCHANGED taskVars /\ UNCHANGED <<loc, ret>>

(* The locked lane: the tail of the victim's list, under its lock.         *)
StealTail(w) ==
    /\ pc[w] = "stealTop" /\ ~lockfree
    /\ LET v == loc[w].victim
           n == Len(fifo[v])
       IN  \/ /\ n > 0 /\ NoteDequeue(v)
              /\ fifo' = [fifo EXCEPT ![v] = SubSeq(@, 1, n - 1)]
              /\ loc' = [loc EXCEPT ![w].task = fifo[v][n]]
              /\ Goto(w, "stolen")
           \/ n = 0 /\ GiveUp(w) /\ UNCHANGED <<fifo, depth, fatal, loc>>
    /\ UNCHANGED dequeVars /\ UNCHANGED <<inject, overflow, spilled>>
    /\ UNCHANGED taskVars /\ UNCHANGED ret

(* Mutant of Stolen: pinned tasks migrate like any other.                  *)
StolenUnpinned(w) ==
    /\ pc[w] = "stolen"
    /\ NoteEnqueue(w) /\ UNCHANGED <<inject, overflow, spilled>>
    /\ Goto(w, "push") /\ ret' = [ret EXCEPT ![w] = "stolen"]
    /\ loc' = [loc EXCEPT ![w].quota = @ - 1]
    /\ UNCHANGED dequeVars /\ UNCHANGED fifo /\ UNCHANGED taskVars

(* llam_steal_from_victim: a pinned task goes back to the victim's inject  *)
(* queue, another one to the deque of the thief.                           *)
Stolen(w) ==
    /\ pc[w] = "stolen"
    /\ IF loc[w].task \in Pinned
         THEN /\ PushInject(loc[w].victim, loc[w].task)
              /\ IF loc[w].quota = 1 THEN GiveUp(w) ELSE Goto(w, "stealTop")
              /\ loc' = [loc EXCEPT ![w] =
                     [loc[w] EXCEPT !.task = None, !.quota = loc[w].quota - 1]]
              /\ UNCHANGED <<depth, fatal, ret>>
         ELSE /\ NoteEnqueue(w) /\ UNCHANGED <<inject, overflow, spilled>>
              /\ Goto(w, "push") /\ ret' = [ret EXCEPT ![w] = "stolen"]
              /\ loc' = [loc EXCEPT ![w].quota = @ - 1]
    /\ UNCHANGED dequeVars /\ UNCHANGED fifo /\ UNCHANGED taskVars
-------------------------------------------------------------------------------
(* Steps of a worker that is between two tasks or inside a queue operation,*)
(* and of the task it runs.                                                *)
WorkerStep(w) ==
    \/ Push(w) \/ PushLocked(w) \/ PopFence(w) \/ PopCas(w) \/ PopDequeue(w)
    \/ DrainInject(w) \/ TakeLocal(w) \/ TakeOverflow(w) \/ Idle(w)
    \/ \E v \in Shards : StealBegin(w, v)
    \/ StealTop(w) \/ StealBottom(w) \/ StealSlot(w) \/ StealCas(w)
    \/ StealDequeue(w) \/ StealTail(w) \/ Stolen(w) \/ Switch(w)

TaskStep(w) == YieldDirect(w) \/ YieldKeep(w) \/ YieldCommit(w) \/ Park(w)

Next ==
    /\ \E w \in Shards :
         \/ WorkerStep(w) \/ TaskStep(w) \/ Flush(w)
         \/ \E t \in Tasks : PushOwner(w, t) \/ Wake(t, w)
    /\ UNCHANGED lockfree

Spec == Init /\ [][Next]_vars

(* Workers keep running, running tasks yield or block in the end, stores   *)
(* reach memory.  Nothing obliges anyone to wake a task.                   *)
FairSpec ==
    /\ Spec
    /\ \A w \in Shards :
         /\ WF_vars(WorkerStep(w) /\ UNCHANGED lockfree)
         /\ WF_vars(TaskStep(w) /\ UNCHANGED lockfree)
         /\ WF_vars(Flush(w) /\ UNCHANGED lockfree)
-------------------------------------------------------------------------------
(* The deque's contents: from top to the owner's bottom, and one more      *)
(* while the owner's pop has lowered bottom and not decided yet.           *)
Undecided(s) == pc[s] \in {"pop", "popCas"}
Count(s) == LET d == Distance(Add(OwnBottom(s), IF Undecided(s) THEN 1 ELSE 0), top[s])
            IN  IF IsNegative(d) THEN 0 ELSE d
InDeque(s) == {Add(top[s], k) : k \in 0 .. Count(s) - 1}

InHand(w) == pc[w] \in {"push", "deq", "stealDeq", "stolen"}

(* Where a task is.                                                        *)
Places(t) ==
    {<<"parked">> : s \in wakeOn[t]}
    \cup {<<"running", w>> : w \in {w \in Shards : running[w] = t}}
    \cup {<<"hand", w>> : w \in {w \in Shards : InHand(w) /\ loc[w].task = t}}
    \cup UNION {{<<"deque", s, i>> : i \in {i \in InDeque(s) : OwnSlot(s, i % Cap) = t}}
                : s \in Shards}
    \cup UNION {{<<"fifo", s, i>> : i \in {i \in 1 .. Len(fifo[s]) : fifo[s][i] = t}}
                : s \in Shards}
    \cup UNION {{<<"inject", s, i>> : i \in {i \in 1 .. Len(inject[s]) : inject[s][i] = t}}
                : s \in Shards}
    \cup {<<"overflow", i>> : i \in {i \in 1 .. Len(overflow) : overflow[i] = t}}

(* No task is lost and none is there twice: whatever owner and thieves do  *)
(* to the deque at once, a runnable task is in exactly one queue, in one   *)
(* worker's hands or on one worker's stack.                                *)
TaskOnce == \A t \in Tasks : Cardinality(Places(t)) = 1

(* norm_depth counts the tasks of the deque and of the FIFO, and the task  *)
(* of a push or a pop in progress: the counter never reaches zero under a  *)
(* dequeue, which would be recorded as a fatal error of the runtime.       *)
DepthExact ==
    /\ ~fatal
    /\ \A s \in Shards : depth[s] =
         Count(s) + Len(fifo[s])
         + Cardinality({w \in Shards :
              \/ w = s /\ pc[w] \in {"push", "deq"}
              \/ pc[w] = "stealDeq" /\ loc[w].victim = s})

(* A pinned task is queued and run on its home shard, unless it has been   *)
(* through the overflow queue: thieves put it back.                        *)
PinnedHome ==
    \A t \in Pinned \ spilled : \A p \in Places(t) :
        p[1] \in {"running", "deque", "fifo", "inject"} => p[2] = Home

(* No worker resumes a task whose context another one has still to save.   *)
SavedBeforeRun ==
    \A w, v \in Shards : unsaved[w] # None => running[v] # unsaved[w]

(* Tasks that keep yielding to each other directly do not starve the work  *)
(* of the owner's deque, even without a bound on direct handoffs; nor does *)
(* the deque starve the tasks that yielded, once spawns and wakes end.     *)
Queued(t, s) == \E p \in Places(t) : p[1] \in {"deque", "fifo"} /\ p[2] = s
YieldersDoNotStarve ==
    \A t \in Tasks \ Pinned : \A s \in Shards :
        Queued(t, s) ~> (t \in spilled \/ \E w \in Shards : running[w] = t)
===============================================================================
