------------------------------- MODULE Channel -------------------------------
(***************************************************************************)
(* LLAM channels: send, receive, the try forms, close, and select over two *)
(* channels, against deadlines and a cancellation token.  A channel is a   *)
(* bounded buffer and two FIFO queues of wait nodes under one lock.  A     *)
(* select has a node in the queue of every arm and one completion word     *)
(* that all of its peers race for; nodes and word live in the frame of the *)
(* suspended call.                                                         *)
(*                                                                         *)
(* A critical section under one channel lock is one step.  A select locks  *)
(* its channels one after the other, in address order; the section starts  *)
(* with the last of them.  The handshake of a plain node (wake_armed) is   *)
(* the one of WaitNode, its states named as those of the select word.      *)
(***************************************************************************)
EXTENDS Integers, Sequences, SequencesExt, FiniteSetsExt

CONSTANTS
    Tasks,
    Channels,       \* channels, numbered by the address of their lock
    Capacity,
    Programs,       \* what each task may call: sequences of arms and flags
    TimedTasks,     \* tasks whose blocking calls have a deadline
    TokenTasks,     \* tasks spawned with the cancellation token
    TimerM,         \* native thread that fires expired timers
    CancelM,        \* native thread inside llam_cancel_token_cancel
    MaxCalls,       \* bound on the calls of each task
    None

ASSUME ChannelAssumption ==
    /\ Channels \subseteq Nat /\ Capacity \in Nat \ {0}
    /\ MaxCalls \in [Tasks -> Nat]
    /\ TimedTasks \subseteq Tasks /\ TokenTasks \subseteq Tasks
    /\ TimerM \notin Tasks /\ CancelM \notin Tasks /\ TimerM # CancelM

VARIABLES
    buf,        \* channel->buffer, count values from head on
    shut,       \* channel->closed
    queue,      \* send_waiters and recv_waiters of each channel
    inflight,   \* channel->inflight_waiters
    lock,       \* holder of a channel lock between two steps
    call,       \* the call a task is in
    calls,      \* number of calls begun; identifies a wait generation
    pc,         \* control of the calling side
    start,      \* first arm of the next pass of a select
    probed,     \* arms that pass has probed
    word,       \* completion word of the call: select state or wake_armed
    outcome,    \* error_code, value and selected_index of the call
    open,       \* gate of the published wait: resolvers may enter
    refs,       \* resolvers inside the gate
    timer,      \* deadline armed in the heap
    link,       \* wait registered with the token, 0 for none
    cancelled,  \* token->cancelled
    todo,       \* detached registrations <<task, wait>> to be delivered
    woken,      \* the parked task is in a run queue
    wakes,      \* tasks an actor still has to wake
    rpc,        \* control of a resolver
    rtgt, rgen, \* task and wait it was asked to end
    rkind       \* what it ends: a plain node, a select, an armed select

chanVars  == <<buf, shut, queue, inflight>>
callVars  == <<call, calls, start, probed>>
waitVars  == <<open, refs, timer, link, woken>>
resVars   == <<cancelled, todo, rpc, rtgt, rgen, rkind>>
vars == <<buf, shut, queue, inflight, lock, call, calls, pc, start, probed,
          word, outcome, open, refs, timer, link, woken, wakes,
          cancelled, todo, rpc, rtgt, rgen, rkind>>

Resolvers == {TimerM, CancelM}
Actors    == Tasks \cup Resolvers
Sides     == {"send", "recv"}
Peer(k)   == IF k = "send" THEN "recv" ELSE "send"

Arm(t, i)   == call[t].arms[i]
ArmsOf(t)   == DOMAIN call[t].arms
IsSelect(t) == call[t].select
LockSet(t)  == {Arm(t, i).ch : i \in ArmsOf(t)}
Done(i, v, e) == [arm |-> i, val |-> v, err |-> e]

Init ==
    /\ buf = [c \in Channels |-> <<>>]
    /\ shut = [c \in Channels |-> FALSE]
    /\ queue = [c \in Channels |-> [k \in Sides |-> <<>>]]
    /\ inflight = [c \in Channels |-> 0]
    /\ lock = [c \in Channels |-> None]
    /\ call = [t \in Tasks |-> None]
    /\ calls = [t \in Tasks |-> 0]
    /\ pc = [t \in Tasks |-> "idle"]
    /\ start = [t \in Tasks |-> 1]
    /\ probed = [t \in Tasks |-> 0]
    /\ word = [t \in Tasks |-> "PENDING"]
    /\ outcome = [t \in Tasks |-> None]
    /\ open = [t \in Tasks |-> FALSE]
    /\ refs = [t \in Tasks |-> {}]
    /\ timer = [t \in Tasks |-> FALSE]
    /\ link = [t \in Tasks |-> 0]
    /\ cancelled = FALSE /\ todo = {}
    /\ woken = [t \in Tasks |-> FALSE]
    /\ wakes = [a \in Actors |-> <<>>]
    /\ rpc = [m \in Resolvers |-> "off"]
    /\ rtgt = [m \in Resolvers |-> None]
    /\ rgen = [m \in Resolvers |-> 0]
    /\ rkind = [m \in Resolvers |-> "plain"]

-----------------------------------------------------------------------------
(* Wait queues and completions.  A node is <<task, arm>>. *)

\* Mutant of LiveNode: a stale select node is completed once more.
LiveNodeAny(n) == TRUE

\* A select node whose call was completed elsewhere is stale; the node of a
\* plain call leaves its queue with its completion.
LiveNode(n) == IsSelect(n[1]) => word[n[1]] \in {"PENDING", "ARMED"}

\* llam_channel_pop_live_receiver and _sender: position of the first live
\* node, 0 for none, and the queue once it and the stale ones are popped.
FirstLive(q) == SelectInSeq(q, LiveNode)
PopLive(q) == IF FirstLive(q) = 0 THEN <<>> ELSE SubSeq(q, FirstLive(q) + 1, Len(q))

\* llam_channel_select_complete_node: the word a peer leaves behind.  Only a
\* waiter that has armed it has to be queued.
Completed(t) == IF ~IsSelect(t) THEN word[t]
                ELSE IF word[t] = "ARMED" THEN "QUEUED" ELSE "INLINE"
\* Mutant of NeedsWake: a parked select is not requeued.
NeedsWakePlain(t) == ~IsSelect(t)

\* wake_required
NeedsWake(t) == IsSelect(t) => word[t] = "ARMED"

\* Mutant of NextLock: channels are locked in the order of the arms.
NextLockByArm(a, t) == Arm(t, Min({i \in ArmsOf(t) : lock[Arm(t, i).ch] # a})).ch

\* Acquire order of llam_channel_select_lock_channels.
NextLock(a, t) == Min({c \in LockSet(t) : lock[c] # a})

\* Lock one more channel of the call of t, short of the last one.
LockNext(a, t) ==
    /\ Cardinality({c \in LockSet(t) : lock[c] # a}) > 1
    /\ lock[NextLock(a, t)] = None
    /\ lock' = [lock EXCEPT ![NextLock(a, t)] = a]

\* Lock the last one, for a section that ends by unlocking them all.
LockLast(a, t) ==
    /\ Cardinality({c \in LockSet(t) : lock[c] # a}) = 1
    /\ lock[NextLock(a, t)] = None
    /\ lock' = [c \in Channels |-> IF lock[c] = a THEN None ELSE lock[c]]

\* llam_channel_select_cleanup_nodes, its locks held.
WithoutNodes(t) ==
    [c \in Channels |-> [k \in Sides |->
        SelectSeq(queue[c][k], LAMBDA n : n[1] # t)]]

-----------------------------------------------------------------------------
(* One operation under one lock, for the call itself or for an arm that a  *)
(* select probes.                                                          *)

\* The live peer n = <<p, j>> that arm i of t meets gets its result in the
\* critical section; a wake-up it needs is left to be done after the unlock.
Meet(t, i, n, mine, theirs) ==
    /\ outcome' = [outcome EXCEPT ![t] = mine, ![n[1]] = theirs]
    /\ word' = [word EXCEPT ![n[1]] = Completed(n[1])]
    /\ inflight' = [inflight EXCEPT ![Arm(t, i).ch] = @ + 1]
    /\ wakes' = [wakes EXCEPT ![t] = IF NeedsWake(n[1]) THEN <<n[1]>> ELSE <<>>]
    /\ pc' = [pc EXCEPT ![t] = "finish"]

Alone(t, mine) ==
    /\ outcome' = [outcome EXCEPT ![t] = mine]
    /\ pc' = [pc EXCEPT ![t] = "finish"]
    /\ UNCHANGED <<word, inflight, wakes>>

\* Mutant of Send: one value more than the buffer holds.
SendOverfull(t, i) ==
    LET c == Arm(t, i).ch
        k == FirstLive(queue[c]["recv"])
        n == queue[c]["recv"][k]
    IN  /\ lock[c] = None
        /\ \/ shut[c] /\ Alone(t, Done(i, None, "EPIPE")) /\ UNCHANGED <<buf, queue>>
           \/ /\ ~shut[c]
              /\ queue' = [queue EXCEPT ![c]["recv"] = PopLive(@)]
              /\ \/ /\ k # 0
                    /\ Meet(t, i, n, Done(i, None, "OK"), Done(n[2], call[t].value, "OK"))
                    /\ UNCHANGED buf
                 \/ /\ k = 0 /\ Len(buf[c]) <= Capacity
                    /\ buf' = [buf EXCEPT ![c] = Append(@, call[t].value)]
                    /\ Alone(t, Done(i, None, "OK"))
        /\ UNCHANGED <<shut, lock>>
        /\ UNCHANGED callVars /\ UNCHANGED waitVars /\ UNCHANGED resVars

\* The successful part of llam_channel_send_impl and llam_channel_try_send.
Send(t, i) ==
    LET c == Arm(t, i).ch
        k == FirstLive(queue[c]["recv"])
        n == queue[c]["recv"][k]
    IN  /\ lock[c] = None
        /\ \/ shut[c] /\ Alone(t, Done(i, None, "EPIPE")) /\ UNCHANGED <<buf, queue>>
           \/ /\ ~shut[c]
              /\ queue' = [queue EXCEPT ![c]["recv"] = PopLive(@)]
              /\ \/ /\ k # 0
                    /\ Meet(t, i, n, Done(i, None, "OK"), Done(n[2], call[t].value, "OK"))
                    /\ UNCHANGED buf
                 \/ /\ k = 0 /\ Len(buf[c]) < Capacity
                    /\ buf' = [buf EXCEPT ![c] = Append(@, call[t].value)]
                    /\ Alone(t, Done(i, None, "OK"))
        /\ UNCHANGED <<shut, lock>>
        /\ UNCHANGED callVars /\ UNCHANGED waitVars /\ UNCHANGED resVars

\* The successful part of llam_channel_recv_result_impl and
\* llam_channel_try_recv_result: a buffered value first, a parked sender
\* refills the buffer or hands its value over.
Recv(t, i) ==
    LET c == Arm(t, i).ch
        k == FirstLive(queue[c]["send"])
        n == queue[c]["send"][k]
        v == IF buf[c] # <<>> THEN Head(buf[c]) ELSE call[n[1]].value
    IN  /\ lock[c] = None
        /\ queue' = [queue EXCEPT ![c]["send"] = PopLive(@)]
        /\ \/ /\ k # 0
              /\ Meet(t, i, n, Done(i, v, "OK"), Done(n[2], None, "OK"))
              /\ buf' = [buf EXCEPT ![c] = IF @ = <<>> THEN <<>>
                                           ELSE Append(Tail(@), call[n[1]].value)]
           \/ /\ k = 0 /\ buf[c] # <<>>
              /\ Alone(t, Done(i, v, "OK"))
              /\ buf' = [buf EXCEPT ![c] = Tail(@)]
           \/ /\ k = 0 /\ buf[c] = <<>> /\ shut[c]
              /\ Alone(t, Done(i, None, "EPIPE"))
              /\ UNCHANGED buf
        /\ UNCHANGED <<shut, lock>>
        /\ UNCHANGED callVars /\ UNCHANGED waitVars /\ UNCHANGED resVars

\* The operation finds nothing to do; the stale nodes it met are popped.
Blocked(t, i) ==
    LET c == Arm(t, i).ch
        p == Peer(Arm(t, i).kind)
    IN  /\ lock[c] = None /\ ~shut[c] /\ FirstLive(queue[c][p]) = 0
        /\ Len(buf[c]) = IF p = "recv" THEN Capacity ELSE 0

Operate(t, i) ==
    \/ Arm(t, i).kind = "send" /\ Send(t, i)
    \/ Arm(t, i).kind = "recv" /\ Recv(t, i)

-----------------------------------------------------------------------------
(* Calls. *)

Values == UNION {{t} \X (1..MaxCalls[t]) : t \in Tasks}
Calls  == {[arms |-> p.arms, select |-> p.select, block |-> p.block, value |-> v] :
             p \in UNION {Programs[t] : t \in Tasks}, v \in Values}

Invoke(t) ==
    /\ pc[t] = "idle" /\ calls[t] < MaxCalls[t]
    /\ \E p \in Programs[t] :
          /\ call' = [call EXCEPT ![t] =
                [arms |-> p.arms, select |-> p.select, block |-> p.block,
                 value |-> <<t, calls[t] + 1>>]]
          /\ pc' = [pc EXCEPT ![t] = IF p.select THEN "probe"
                                     ELSE IF p.arms[1].kind = "close" THEN "close" ELSE "op"]
    /\ calls' = [calls EXCEPT ![t] = @ + 1]
    /\ start' = [start EXCEPT ![t] = 1]
    /\ probed' = [probed EXCEPT ![t] = 0]
    /\ word' = [word EXCEPT ![t] = "PENDING"]
    /\ UNCHANGED <<lock, outcome, wakes>>
    /\ UNCHANGED chanVars /\ UNCHANGED waitVars /\ UNCHANGED resVars

\* The call ends with e and no arm.
Fail(t, e) ==
    /\ outcome' = [outcome EXCEPT ![t] = Done(0, None, e)]
    /\ pc' = [pc EXCEPT ![t] = "finish"]

\* Why a blocking call gives up before it waits: its deadline is already in
\* the past, or there is no memory for its nodes.
EarlyErrors(t) == {"ENOMEM"} \cup (IF t \in TimedTasks THEN {"ETIMEDOUT"} ELSE {})

\* A plain operation that cannot proceed: EAGAIN for a try form, an early
\* error, or a node at the tail of its queue.
Wait(t) ==
    LET c == Arm(t, 1).ch
        p == Peer(Arm(t, 1).kind)
        q == [queue EXCEPT ![c][p] = <<>>]
    IN  /\ pc[t] = "op" /\ Blocked(t, 1)
        /\ \/ ~call[t].block /\ Fail(t, "EAGAIN") /\ queue' = q
           \/ call[t].block /\ queue' = q /\ \E e \in EarlyErrors(t) : Fail(t, e)
           \/ /\ call[t].block
              /\ queue' = [q EXCEPT ![c][Arm(t, 1).kind] = Append(@, <<t, 1>>)]
              /\ pc' = [pc EXCEPT ![t] = "queued"]
              /\ UNCHANGED outcome
        /\ UNCHANGED <<buf, shut, inflight, lock, word, wakes>>
        /\ UNCHANGED callVars /\ UNCHANGED waitVars /\ UNCHANGED resVars

\* llam_channel_close: every waiter is detached under the lock, a select that
\* has several nodes here by the first of them, and woken afterwards.
Close(t) ==
    LET c    == Arm(t, 1).ch
        all  == queue[c]["send"] \o queue[c]["recv"]
        hit  == {j \in 1..Len(all) :
                    LiveNode(all[j]) /\ \A i \in 1..j - 1 : all[i][1] # all[j][1]}
        arm  == [w \in {all[j][1] : j \in hit} |->
                    (CHOOSE n \in {all[j] : j \in hit} : n[1] = w)[2]]
        list == SelectSeq([j \in 1..Len(all) |-> <<j, all[j][1]>>],
                          LAMBDA x : x[1] \in hit /\ NeedsWake(x[2]))
    IN  /\ pc[t] = "close" /\ lock[c] = None
        /\ shut' = [shut EXCEPT ![c] = TRUE]
        /\ queue' = [queue EXCEPT ![c] = [k \in Sides |-> <<>>]]
        /\ inflight' = [inflight EXCEPT ![c] = @ + Cardinality(hit)]
        /\ outcome' = [w \in Tasks |->
              IF w = t THEN Done(1, None, "OK")
              ELSE IF w \in DOMAIN arm THEN Done(arm[w], None, "EPIPE") ELSE outcome[w]]
        /\ word' = [w \in Tasks |-> IF w \in DOMAIN arm THEN Completed(w) ELSE word[w]]
        /\ wakes' = [wakes EXCEPT ![t] = [j \in 1..Len(list) |-> list[j][2]]]
        /\ pc' = [pc EXCEPT ![t] = "finish"]
        /\ UNCHANGED <<buf, lock>>
        /\ UNCHANGED callVars /\ UNCHANGED waitVars /\ UNCHANGED resVars

\* One arm of a pass of a select over its ready arms, from start on.
ProbeArm(t) == ((start[t] + probed[t] - 1) % Len(call[t].arms)) + 1

Probe(t) ==
    /\ pc[t] = "probe" /\ probed[t] < Len(call[t].arms)
    /\ LET i == ProbeArm(t)
           c == Arm(t, i).ch
       IN \/ Operate(t, i)
          \/ /\ Blocked(t, i)
             /\ queue' = [queue EXCEPT ![c][Peer(Arm(t, i).kind)] = <<>>]
             /\ probed' = [probed EXCEPT ![t] = @ + 1]
             /\ UNCHANGED <<buf, shut, inflight, lock, call, calls, pc, start,
                            word, outcome, wakes>>
             /\ UNCHANGED waitVars /\ UNCHANGED resVars

\* No arm was ready: a poll or an early error ends the call, any other select
\* locks its channels.
NotReady(t) ==
    /\ pc[t] = "probe" /\ probed[t] = Len(call[t].arms)
    /\ \/ ~call[t].block /\ Fail(t, "ETIMEDOUT")
       \/ call[t].block /\ \E e \in EarlyErrors(t) : Fail(t, e)
       \/ call[t].block /\ pc' = [pc EXCEPT ![t] = "enqueue"] /\ UNCHANGED outcome
    /\ UNCHANGED <<lock, word, wakes>>
    /\ UNCHANGED chanVars /\ UNCHANGED callVars
    /\ UNCHANGED waitVars /\ UNCHANGED resVars

\* llam_channel_select_op_may_run_locked: even a stale peer counts.
MayRun(t, i) ==
    LET c == Arm(t, i).ch
    IN  \/ shut[c]
        \/ queue[c][Peer(Arm(t, i).kind)] # <<>>
        \/ Arm(t, i).kind = "send" /\ Len(buf[c]) < Capacity
        \/ Arm(t, i).kind = "recv" /\ buf[c] # <<>>

\* llam_channel_select_enqueue_nodes_locked, in the order of the arms.
WithNodes(t) ==
    [c \in Channels |-> [k \in Sides |->
        queue[c][k] \o [j \in 1..Cardinality({i \in ArmsOf(t) : Arm(t, i) = [kind |-> k, ch |-> c]}) |->
            <<t, CHOOSE i \in ArmsOf(t) :
                   /\ Arm(t, i) = [kind |-> k, ch |-> c]
                   /\ Cardinality({h \in 1..i : Arm(t, h) = Arm(t, i)}) = j>>]]]

\* Mutant of EnqueueSelect: queue the nodes without looking at the arms again.
EnqueueSelectBlind(t) ==
    /\ pc[t] = "enqueue"
    /\ \/ LockNext(t, t) /\ UNCHANGED <<queue, pc>>
       \/ /\ LockLast(t, t)
          /\ queue' = WithNodes(t)
          /\ pc' = [pc EXCEPT ![t] = "queued"]
    /\ UNCHANGED <<buf, shut, inflight, word, outcome, wakes>>
    /\ UNCHANGED callVars /\ UNCHANGED waitVars /\ UNCHANGED resVars

\* All locks held: an arm that became ready sends the select into another
\* pass, otherwise one node is queued for every arm.
EnqueueSelect(t) ==
    /\ pc[t] = "enqueue"
    /\ \/ LockNext(t, t) /\ UNCHANGED <<queue, pc, start, probed>>
       \/ /\ LockLast(t, t)
          /\ IF \E i \in ArmsOf(t) : MayRun(t, i)
             THEN /\ start' = [start EXCEPT ![t] = (@ % Len(call[t].arms)) + 1]
                  /\ probed' = [probed EXCEPT ![t] = 0]
                  /\ pc' = [pc EXCEPT ![t] = "probe"]
                  /\ UNCHANGED queue
             ELSE /\ queue' = WithNodes(t)
                  /\ pc' = [pc EXCEPT ![t] = "queued"]
                  /\ UNCHANGED <<start, probed>>
    /\ UNCHANGED <<buf, shut, inflight, call, calls, word, outcome, wakes>>
    /\ UNCHANGED waitVars /\ UNCHANGED resVars

-----------------------------------------------------------------------------
(* The wait. *)

\* llam_task_set_wait_node_tracking, llam_task_set_select_tracking.
Track(t) ==
    /\ pc[t] = "queued"
    /\ open' = [open EXCEPT ![t] = TRUE]
    /\ pc' = [pc EXCEPT ![t] = "setup"]
    /\ UNCHANGED <<lock, word, outcome, wakes, refs, timer, link, woken>>
    /\ UNCHANGED chanVars /\ UNCHANGED callVars /\ UNCHANGED resVars

\* Arm the deadline, register with the token; either may fail.
Setup(t) ==
    /\ pc[t] = "setup"
    /\ \/ /\ t \in TimedTasks
          /\ pc' = [pc EXCEPT ![t] = "undo_arm"]
          /\ UNCHANGED <<timer, link>>
       \/ /\ timer' = [timer EXCEPT ![t] = t \in TimedTasks]
          /\ \/ /\ t \in TokenTasks /\ cancelled
                /\ pc' = [pc EXCEPT ![t] = "undo_register"]
                /\ UNCHANGED link
             \/ /\ ~(t \in TokenTasks /\ cancelled)
                /\ link' = [link EXCEPT ![t] = IF t \in TokenTasks THEN calls[t] ELSE 0]
                /\ pc' = [pc EXCEPT ![t] = "ready"]
    /\ UNCHANGED <<lock, word, outcome, wakes, open, refs, woken>>
    /\ UNCHANGED chanVars /\ UNCHANGED callVars /\ UNCHANGED resVars

UndoPcs == {"undo_arm", "undo_register"}
\* errno of the failed setup step.
SetupError(p) == IF p \in {"undo_arm", "withdraw_arm"} THEN "ENOMEM" ELSE "ECANCELED"

\* A plain call whose setup failed takes its node back, or consumes the
\* completion of the peer that popped it.  wake_completed may also be seen
\* set by the late store for an earlier wait of the task (see WaitNode).
UndoPlain(t) ==
    LET n == <<t, 1>>
        c == Arm(t, 1).ch
        k == Arm(t, 1).kind
    IN  /\ pc[t] \in UndoPcs /\ ~IsSelect(t)
        /\ \/ /\ word[t] = "INLINE" \/ calls[t] > 1
              /\ pc' = [pc EXCEPT ![t] = "ready"]
              /\ UNCHANGED <<queue, outcome, timer>>
           \/ /\ word[t] = "PENDING" /\ lock[c] = None
              /\ timer' = [timer EXCEPT ![t] = FALSE]
              /\ queue' = [queue EXCEPT ![c][k] = Remove(@, n)]
              /\ IF Contains(queue[c][k], n)
                 THEN /\ outcome' = [outcome EXCEPT ![t] = Done(0, None, SetupError(pc[t]))]
                      /\ pc' = [pc EXCEPT ![t] = "abandon"]
                 ELSE /\ pc' = [pc EXCEPT ![t] = "ready"]
                      /\ UNCHANGED outcome
        /\ UNCHANGED <<buf, shut, inflight, lock, word, wakes, open, refs, link, woken>>
        /\ UNCHANGED callVars /\ UNCHANGED resVars

\* A select whose setup failed: unless it was completed meanwhile, it disarms
\* its deadline ...
UndoSelect(t) ==
    /\ pc[t] \in UndoPcs /\ IsSelect(t) /\ word[t] # "COMPLETING"
    /\ IF word[t] = "PENDING"
       THEN /\ timer' = [timer EXCEPT ![t] = FALSE]
            /\ pc' = [pc EXCEPT ![t] = IF @ = "undo_arm" THEN "withdraw_arm"
                                       ELSE "withdraw_register"]
       ELSE /\ pc' = [pc EXCEPT ![t] = "ready"]
            /\ UNCHANGED timer
    /\ UNCHANGED <<lock, word, outcome, wakes, open, refs, link, woken>>
    /\ UNCHANGED chanVars /\ UNCHANGED callVars /\ UNCHANGED resVars

WithdrawPcs == {"withdraw_arm", "withdraw_register"}

\* ... waits for a timer callback that holds the select, unlinks its nodes and
\* looks again.
Withdraw(t) ==
    /\ pc[t] \in WithdrawPcs /\ rtgt[TimerM] # t
    /\ \/ LockNext(t, t) /\ UNCHANGED <<queue, outcome, pc>>
       \/ /\ LockLast(t, t)
          /\ queue' = WithoutNodes(t)
          /\ IF word[t] = "PENDING"
             THEN /\ outcome' = [outcome EXCEPT ![t] = Done(0, None, SetupError(pc[t]))]
                  /\ pc' = [pc EXCEPT ![t] = "abandon"]
             ELSE /\ pc' = [pc EXCEPT ![t] = "ready"]
                  /\ UNCHANGED outcome
    /\ UNCHANGED <<buf, shut, inflight, word, wakes>>
    /\ UNCHANGED callVars /\ UNCHANGED waitVars /\ UNCHANGED resVars

\* Close the gate of a call that took its nodes back and let resolvers leave.
Abandon(t) ==
    /\ pc[t] = "abandon" /\ refs[t] = {}
    /\ open' = [open EXCEPT ![t] = FALSE]
    /\ pc' = [pc EXCEPT ![t] = "finish"]
    /\ UNCHANGED <<lock, word, outcome, wakes, refs, timer, link, woken>>
    /\ UNCHANGED chanVars /\ UNCHANGED callVars /\ UNCHANGED resVars

\* llam_wait_node_should_park, llam_channel_select_arm_wait: commit to parking
\* or consume an inline completion.  A claim in progress is waited out.
Ready(t) ==
    /\ pc[t] = "ready"
    /\ \/ /\ word[t] = "PENDING"
          /\ word' = [word EXCEPT ![t] = "ARMED"]
          /\ pc' = [pc EXCEPT ![t] = "parked"]
       \/ /\ word[t] = "INLINE"
          /\ pc' = [pc EXCEPT ![t] = "cleanup"]
          /\ UNCHANGED word
    /\ UNCHANGED <<lock, outcome, wakes>>
    /\ UNCHANGED chanVars /\ UNCHANGED callVars
    /\ UNCHANGED waitVars /\ UNCHANGED resVars

Dispatch(t) ==
    /\ pc[t] = "parked" /\ woken[t]
    /\ woken' = [woken EXCEPT ![t] = FALSE]
    /\ pc' = [pc EXCEPT ![t] = "cleanup"]
    /\ UNCHANGED <<lock, word, outcome, wakes, open, refs, timer, link>>
    /\ UNCHANGED chanVars /\ UNCHANGED callVars /\ UNCHANGED resVars

\* Mutant of Consumed: the completion stays counted.
ConsumedNever(t) == UNCHANGED inflight

\* llam_channel_waiter_consumed, for a completion by a peer.
Consumed(t) ==
    inflight' = [c \in Channels |->
        IF outcome[t].arm # 0 /\ Arm(t, outcome[t].arm).ch = c
        THEN inflight[c] - 1 ELSE inflight[c]]

\* Mutant of Cleanup: the timer callback that holds the select is not awaited.
CleanupUnpinned(t) ==
    /\ pc[t] = "cleanup"
    /\ refs[t] = {}
    /\ timer' = [timer EXCEPT ![t] = FALSE]
    /\ link' = [link EXCEPT ![t] = 0]
    /\ open' = [open EXCEPT ![t] = FALSE]
    /\ IF IsSelect(t)
       THEN pc' = [pc EXCEPT ![t] = "unlink"] /\ UNCHANGED inflight
       ELSE pc' = [pc EXCEPT ![t] = "finish"] /\ Consumed(t)
    /\ UNCHANGED <<buf, shut, queue, lock, word, outcome, wakes, refs, woken>>
    /\ UNCHANGED callVars /\ UNCHANGED resVars

\* After the wait: disarm the deadline, unregister, close the gate and let the
\* resolvers leave.  A select also waits for a timer callback that holds it.
Cleanup(t) ==
    /\ pc[t] = "cleanup"
    /\ IsSelect(t) => rtgt[TimerM] # t
    /\ refs[t] = {}
    /\ timer' = [timer EXCEPT ![t] = FALSE]
    /\ link' = [link EXCEPT ![t] = 0]
    /\ open' = [open EXCEPT ![t] = FALSE]
    /\ IF IsSelect(t)
       THEN pc' = [pc EXCEPT ![t] = "unlink"] /\ UNCHANGED inflight
       ELSE pc' = [pc EXCEPT ![t] = "finish"] /\ Consumed(t)
    /\ UNCHANGED <<buf, shut, queue, lock, word, outcome, wakes, refs, woken>>
    /\ UNCHANGED callVars /\ UNCHANGED resVars

\* A select then takes the nodes of its other arms out of their queues.
UnlinkNodes(t) ==
    /\ pc[t] = "unlink"
    /\ \/ LockNext(t, t) /\ UNCHANGED <<queue, inflight, pc>>
       \/ /\ LockLast(t, t)
          /\ queue' = WithoutNodes(t)
          /\ Consumed(t)
          /\ pc' = [pc EXCEPT ![t] = "finish"]
    /\ UNCHANGED <<buf, shut, word, outcome, wakes>>
    /\ UNCHANGED callVars /\ UNCHANGED waitVars /\ UNCHANGED resVars

\* The call returns once it has woken the peers it completed.
Return(t) ==
    /\ pc[t] = "finish" /\ wakes[t] = <<>>
    /\ call' = [call EXCEPT ![t] = None]
    /\ outcome' = [outcome EXCEPT ![t] = None]
    /\ pc' = [pc EXCEPT ![t] = "idle"]
    /\ UNCHANGED <<lock, calls, start, probed, word, wakes>>
    /\ UNCHANGED chanVars /\ UNCHANGED waitVars /\ UNCHANGED resVars

-----------------------------------------------------------------------------
(* Wake-ups and resolvers. *)

\* llam_wake_wait_node: a plain waiter that has not armed its node is
\* completed inline, any other is requeued once its gate is drained.
Wake(a) ==
    /\ wakes[a] # <<>>
    /\ LET w == Head(wakes[a]) IN
       \/ /\ word[w] = "PENDING"
          /\ word' = [word EXCEPT ![w] = "INLINE"]
          /\ UNCHANGED <<open, timer, woken>>
       \/ /\ word[w] \in {"ARMED", "QUEUED"} /\ refs[w] = {}
          /\ word' = [word EXCEPT ![w] = "QUEUED"]
          /\ timer' = [timer EXCEPT ![w] = FALSE]
          /\ open' = [open EXCEPT ![w] = FALSE]
          /\ woken' = [woken EXCEPT ![w] = TRUE]
    /\ wakes' = [wakes EXCEPT ![a] = Tail(@)]
    /\ UNCHANGED <<lock, pc, outcome, refs, link>>
    /\ UNCHANGED chanVars /\ UNCHANGED callVars /\ UNCHANGED resVars

KindOf(t) == IF IsSelect(t) THEN "select" ELSE "plain"

\* llam_fire_expired_timers: pop an expired record; one of a select pins it.
PopTimer(t) ==
    /\ timer[t] /\ rpc[TimerM] = "off"
    /\ timer' = [timer EXCEPT ![t] = FALSE]
    /\ rpc' = [rpc EXCEPT ![TimerM] = "check"]
    /\ rtgt' = [rtgt EXCEPT ![TimerM] = t]
    /\ rgen' = [rgen EXCEPT ![TimerM] = calls[t]]
    /\ rkind' = [rkind EXCEPT ![TimerM] = KindOf(t)]
    /\ UNCHANGED <<lock, pc, word, outcome, wakes, open, refs, link, woken, cancelled, todo>>
    /\ UNCHANGED chanVars /\ UNCHANGED callVars

\* llam_cancel_token_cancel under the token lock.
CancelToken ==
    /\ TokenTasks # {} /\ ~cancelled
    /\ cancelled' = TRUE
    /\ todo' = {<<t, link[t]>> : t \in {u \in Tasks : link[u] # 0}}
    /\ link' = [t \in Tasks |-> 0]
    /\ UNCHANGED <<lock, pc, word, outcome, wakes, open, refs, timer, woken,
                   rpc, rtgt, rgen, rkind>>
    /\ UNCHANGED chanVars /\ UNCHANGED callVars

\* Its delivery loop; a wait is entered through its gate.
Deliver ==
    /\ rpc[CancelM] = "off"
    /\ \E d \in todo :
          LET t == d[1] IN
          /\ todo' = todo \ {d}
          /\ IF open[t]
             THEN /\ refs' = [refs EXCEPT ![t] = @ \cup {CancelM}]
                  /\ rpc' = [rpc EXCEPT ![CancelM] = "check"]
                  /\ rtgt' = [rtgt EXCEPT ![CancelM] = t]
                  /\ rgen' = [rgen EXCEPT ![CancelM] = d[2]]
                  /\ rkind' = [rkind EXCEPT ![CancelM] = KindOf(t)]
             ELSE UNCHANGED <<refs, rpc, rtgt, rgen, rkind>>
    /\ UNCHANGED <<lock, pc, word, outcome, wakes, open, timer, link, woken, cancelled>>
    /\ UNCHANGED chanVars /\ UNCHANGED callVars

SetupPcs == {"setup", "ready"} \cup UndoPcs \cup WithdrawPcs
\* The wait a resolver was sent to is the live one and is parked.
Current(m) ==
    LET t == rtgt[m]
    IN  open[t] /\ calls[t] = rgen[m] /\ pc[t] \in SetupPcs \cup {"parked"}

Check(m) ==
    /\ rpc[m] = "check"
    /\ rpc' = [rpc EXCEPT ![m] = IF Current(m) THEN "claim" ELSE "end"]
    /\ UNCHANGED <<lock, pc, word, outcome, wakes, cancelled, todo, rtgt, rgen, rkind>>
    /\ UNCHANGED chanVars /\ UNCHANGED callVars /\ UNCHANGED waitVars

ErrorOf(m) == IF m = TimerM THEN "ETIMEDOUT" ELSE "ECANCELED"

\* A plain node is unlinked under the lock, if the wait is still the same.
ClaimPlain(m) ==
    LET t == rtgt[m]
        c == Arm(t, 1).ch
        k == Arm(t, 1).kind
    IN  /\ rpc[m] = "claim" /\ rkind[m] = "plain"
        /\ Current(m) => lock[c] = None
        /\ IF Current(m) /\ Contains(queue[c][k], <<t, 1>>)
           THEN /\ queue' = [queue EXCEPT ![c][k] = Remove(@, <<t, 1>>)]
                /\ outcome' = [outcome EXCEPT ![t] = Done(0, None, ErrorOf(m))]
                /\ wakes' = [wakes EXCEPT ![m] = <<t>>]
           ELSE UNCHANGED <<queue, outcome, wakes>>
        /\ rpc' = [rpc EXCEPT ![m] = "end"]
        /\ UNCHANGED <<buf, shut, inflight, lock, pc, word, cancelled, todo, rtgt, rgen, rkind>>
        /\ UNCHANGED callVars /\ UNCHANGED waitVars

\* llam_channel_select_abort_state: claim the completion word ...
ClaimSelect(m) ==
    LET t == rtgt[m] IN
    /\ rpc[m] = "claim" /\ rkind[m] = "select"
    /\ IF word[t] \in {"PENDING", "ARMED"}
       THEN /\ word' = [word EXCEPT ![t] = "COMPLETING"]
            /\ outcome' = [outcome EXCEPT ![t] = Done(0, None, ErrorOf(m))]
            /\ rkind' = [rkind EXCEPT ![m] = IF word[t] = "ARMED" THEN "armed" ELSE @]
            /\ rpc' = [rpc EXCEPT ![m] = "unlink"]
       ELSE /\ rpc' = [rpc EXCEPT ![m] = "end"]
            /\ UNCHANGED <<word, outcome, rkind>>
    /\ UNCHANGED <<lock, pc, wakes, cancelled, todo, rtgt, rgen>>
    /\ UNCHANGED chanVars /\ UNCHANGED callVars /\ UNCHANGED waitVars

\* ... unlink every node, publish the result.
AbortSelect(m) ==
    LET t == rtgt[m] IN
    /\ rpc[m] = "unlink"
    /\ \/ LockNext(m, t) /\ UNCHANGED <<queue, word, wakes, rpc>>
       \/ /\ LockLast(m, t)
          /\ queue' = WithoutNodes(t)
          /\ word' = [word EXCEPT ![t] = IF rkind[m] = "armed" THEN "QUEUED" ELSE "INLINE"]
          /\ wakes' = [wakes EXCEPT ![m] = IF rkind[m] = "armed" THEN <<t>> ELSE <<>>]
          /\ rpc' = [rpc EXCEPT ![m] = "end"]
    /\ UNCHANGED <<buf, shut, inflight, pc, outcome, cancelled, todo, rtgt, rgen, rkind>>
    /\ UNCHANGED callVars /\ UNCHANGED waitVars

\* The canceller leaves the gate before it wakes the task; the timer keeps its
\* pin on a select until it has.
Leave(m) ==
    /\ rpc[m] = "end"
    /\ refs' = [refs EXCEPT ![rtgt[m]] = @ \ {m}]
    /\ rpc' = [rpc EXCEPT ![m] = "wake"]
    /\ UNCHANGED <<lock, pc, word, outcome, wakes, open, timer, link, woken,
                   cancelled, todo, rtgt, rgen, rkind>>
    /\ UNCHANGED chanVars /\ UNCHANGED callVars

Rest(m) ==
    /\ rpc[m] = "wake" /\ wakes[m] = <<>>
    /\ rpc' = [rpc EXCEPT ![m] = "off"]
    /\ rtgt' = [rtgt EXCEPT ![m] = None]
    /\ rgen' = [rgen EXCEPT ![m] = 0]
    /\ rkind' = [rkind EXCEPT ![m] = "plain"]
    /\ UNCHANGED <<lock, pc, word, outcome, wakes, cancelled, todo>>
    /\ UNCHANGED chanVars /\ UNCHANGED callVars /\ UNCHANGED waitVars

-----------------------------------------------------------------------------
CallStep(t) ==
    \/ pc[t] = "op" /\ Operate(t, 1)
    \/ Wait(t) \/ Close(t) \/ Probe(t) \/ NotReady(t) \/ EnqueueSelect(t)

WaiterStep(t) ==
    \/ Track(t) \/ Setup(t) \/ UndoPlain(t) \/ UndoSelect(t) \/ Withdraw(t)
    \/ Abandon(t) \/ Ready(t) \/ Dispatch(t) \/ Cleanup(t) \/ UnlinkNodes(t)

TaskStep(t) == CallStep(t) \/ WaiterStep(t) \/ Wake(t) \/ Return(t)

ResolverStep(m) ==
    \/ Check(m) \/ ClaimPlain(m) \/ ClaimSelect(m) \/ AbortSelect(m)
    \/ Leave(m) \/ Wake(m) \/ Rest(m)
    \/ m = CancelM /\ Deliver

Next ==
    \/ \E t \in Tasks : Invoke(t) \/ TaskStep(t) \/ PopTimer(t)
    \/ \E m \in Resolvers : ResolverStep(m)
    \/ CancelToken

Spec == Init /\ [][Next]_vars

Progress ==
    (\E t \in Tasks : TaskStep(t)) \/ (\E m \in Resolvers : ResolverStep(m))

\* Some thread that can run does: a task that is not parked, the timer thread
\* once it has popped a record, the thread that cancels.  Nobody has to make a
\* call, no deadline has to pass, and no thread is favoured.
Fairness == WF_vars(Progress)

FairSpec == Spec /\ Fairness

-----------------------------------------------------------------------------
(* What the channels promise. *)

WaitPcs == {"queued", "parked", "cleanup", "unlink", "abandon"} \cup SetupPcs

\* Types of the channel state.
TypeOK ==
    /\ \A c \in Channels : buf[c] \in Seq(Values) /\ Len(buf[c]) <= Capacity
    /\ shut \in [Channels -> BOOLEAN]
    /\ \A c \in Channels, k \in Sides : queue[c][k] \in Seq(Tasks \X (1..2))
    /\ inflight \in [Channels -> Nat]
    /\ lock \in [Channels -> Actors \cup {None}]
    /\ call \in [Tasks -> Calls \cup {None}]
    /\ \A t \in Tasks : calls[t] \in 0..MaxCalls[t] /\ link[t] \in 0..MaxCalls[t]
    /\ pc \in [Tasks -> {"idle", "op", "close", "probe", "enqueue", "finish"} \cup WaitPcs]
    /\ start \in [Tasks -> 1..2] /\ probed \in [Tasks -> 0..2]
    /\ word \in [Tasks -> {"PENDING", "ARMED", "COMPLETING", "INLINE", "QUEUED"}]
    /\ open \in [Tasks -> BOOLEAN] /\ refs \in [Tasks -> SUBSET {CancelM}]
    /\ timer \in [Tasks -> BOOLEAN]
    /\ woken \in [Tasks -> BOOLEAN] /\ wakes \in [Actors -> Seq(Tasks)]
    /\ cancelled \in BOOLEAN /\ todo \subseteq Values
    /\ rpc \in [Resolvers -> {"off", "check", "claim", "unlink", "end", "wake"}]
    /\ rtgt \in [Resolvers -> Tasks \cup {None}] /\ rgen \in [Resolvers -> Nat]
    /\ rkind \in [Resolvers -> {"plain", "select", "armed"}]

\* No waiter sleeps on something it could have: a live receiver is queued only
\* if the buffer is empty and no other task's sender is queued, a live sender
\* only if the buffer is full, and neither on a closed channel.  The two-channel
\* lock of select closes the window between its probe and its nodes.
NoMissedTransfer ==
    \A c \in Channels : \A k \in Sides : \A n \in Range(queue[c][k]) :
       LiveNode(n) =>
          /\ ~shut[c]
          /\ Len(buf[c]) = IF k = "send" THEN Capacity ELSE 0
          /\ \A p \in Range(queue[c][Peer(k)]) : LiveNode(p) => p[1] = n[1]

\* A suspended call owns its wait nodes and its select word in its own frame.
\* While a queue links one of the nodes, a waker or a resolver in the gate
\* holds the task, or a timer callback works on the select, the call has not
\* returned, so nobody reaches into a frame that is gone.
FrameAlive ==
    /\ \A c \in Channels, k \in Sides : \A n \in Range(queue[c][k]) : pc[n[1]] \in WaitPcs
    /\ \A a \in Actors : \A w \in Range(wakes[a]) : pc[w] \in WaitPcs
    /\ \A t \in Tasks : refs[t] # {} => pc[t] \in WaitPcs
    /\ \A m \in Resolvers : rpc[m] \in {"check", "claim", "unlink"} /\ rkind[m] # "plain" =>
          pc[rtgt[m]] \in WaitPcs
    /\ rpc[TimerM] = "claim" /\ rkind[TimerM] # "plain" => calls[rtgt[TimerM]] = rgen[TimerM]

\* inflight_waiters counts exactly the waiters a peer has completed on the
\* channel and that have not consumed the completion; destroying a channel
\* relies on it to see them.
InflightExact ==
    \A c \in Channels : inflight[c] =
       Cardinality({t \in Tasks :
          /\ pc[t] \in WaitPcs /\ outcome[t] # None
          /\ outcome[t].arm # 0 /\ Arm(t, outcome[t].arm).ch = c})

Fifo == INSTANCE FifoChannel
          WITH buf <- buf, shut <- shut, call <- call, outcome <- outcome

\* The channels implement FifoChannel: each call has one outcome, decided in
\* one step together with the peer it meets, values leave in the order they
\* entered, none is lost or delivered twice, and a timed out, cancelled or
\* failed call has neither sent nor received.
ImplementsFifo == Fifo!FifoSpec

\* Once a channel is closed, every call that waits on it or comes to it
\* returns, whatever deadlines, cancellations and peers do meanwhile.  The
\* calls of a program are bounded (MaxCalls), so that none of them is stuck for
\* ever if again and again none is pending.
CloseEndsWaits ==
    []<>(\A t \in Tasks :
            call[t] # None => \A i \in ArmsOf(t) : ~shut[Arm(t, i).ch])

\* The channel locks are always given up, and all are free again and again:
\* selects over the same channels in opposite orders do not wait for each
\* other's locks.
LocksReleased == []<>(\A c \in Channels : lock[c] = None)
====
