----------------------------- MODULE FifoChannel -----------------------------
(***************************************************************************)
(* What a set of LLAM channels promises, with no wait queue, lock, timer   *)
(* or wake-up in sight: bounded FIFO buffers, calls that each come to one  *)
(* outcome in one atomic step, and a close that is final.  Channel         *)
(* implements this specification.                                          *)
(***************************************************************************)
EXTENDS Naturals, Sequences

CONSTANTS
    Tasks, Channels, Capacity,
    Calls,      \* what a task may call: at least its arms and its value
    None

VARIABLES
    buf,        \* values stored in each channel
    shut,       \* channels that have been closed
    call,       \* call of each task: its arms and the value it offers
    outcome     \* how the call ended, None while it is undecided

fifoVars == <<buf, shut, call, outcome>>

\* An arm of a call is one operation ("send", "recv" or "close") on one
\* channel; only a select has several.  A call ends with the arm that took
\* effect, 0 for none, the value it received, and its errno.
Done(i, v, e) == [arm |-> i, val |-> v, err |-> e]
\* Ways a call ends without any of its arms taking effect.
GiveUps == {"ETIMEDOUT", "ECANCELED", "ENOMEM"}

Undecided(t) == call[t] # None /\ outcome[t] = None
\* t waits with its arm i to do k on channel c.
Offers(t, i, k, c) ==
    /\ Undecided(t)
    /\ i \in DOMAIN call[t].arms /\ call[t].arms[i] = [kind |-> k, ch |-> c]

FifoInit ==
    /\ buf = [c \in Channels |-> <<>>]
    /\ shut = [c \in Channels |-> FALSE]
    /\ call = [t \in Tasks |-> None]
    /\ outcome = [t \in Tasks |-> None]

Invoke(t) ==
    /\ call[t] = None
    /\ \E k \in Calls : call' = [call EXCEPT ![t] = k]
    /\ UNCHANGED <<buf, shut, outcome>>

Return(t) ==
    /\ outcome[t] # None
    /\ call' = [call EXCEPT ![t] = None]
    /\ outcome' = [outcome EXCEPT ![t] = None]
    /\ UNCHANGED <<buf, shut>>

\* A value enters the buffer.
Put(t, i, c) ==
    /\ Offers(t, i, "send", c) /\ ~shut[c] /\ Len(buf[c]) < Capacity
    /\ buf' = [buf EXCEPT ![c] = Append(@, call[t].value)]
    /\ outcome' = [outcome EXCEPT ![t] = Done(i, None, "OK")]
    /\ UNCHANGED <<shut, call>>

\* The oldest value leaves it.
Take(t, i, c) ==
    /\ Offers(t, i, "recv", c) /\ buf[c] # <<>>
    /\ buf' = [buf EXCEPT ![c] = Tail(@)]
    /\ outcome' = [outcome EXCEPT ![t] = Done(i, Head(buf[c]), "OK")]
    /\ UNCHANGED <<shut, call>>

\* ... and a waiting sender takes the place it frees.
TakeRefill(t, i, s, j, c) ==
    /\ Offers(t, i, "recv", c) /\ Offers(s, j, "send", c) /\ s # t
    /\ buf[c] # <<>> /\ ~shut[c]
    /\ buf' = [buf EXCEPT ![c] = Append(Tail(@), call[s].value)]
    /\ outcome' = [outcome EXCEPT ![t] = Done(i, Head(buf[c]), "OK"),
                                  ![s] = Done(j, None, "OK")]
    /\ UNCHANGED <<shut, call>>

\* A sender meets a receiver and no older value is passed over.
Transfer(t, i, s, j, c) ==
    /\ Offers(t, i, "recv", c) /\ Offers(s, j, "send", c) /\ s # t
    /\ buf[c] = <<>> /\ ~shut[c]
    /\ outcome' = [outcome EXCEPT ![t] = Done(i, call[s].value, "OK"),
                                  ![s] = Done(j, None, "OK")]
    /\ UNCHANGED <<buf, shut, call>>

\* EPIPE: nothing more can be sent, or nothing is left to receive.
Refused(w, i, c) ==
    \/ Offers(w, i, "send", c)
    \/ Offers(w, i, "recv", c) /\ buf[c] = <<>>

Refuse(t, i, c) ==
    /\ shut[c] /\ Refused(t, i, c)
    /\ outcome' = [outcome EXCEPT ![t] = Done(i, None, "EPIPE")]
    /\ UNCHANGED <<buf, shut, call>>

\* Close, with the calls W that were waiting on the channel; idempotent.
Shut(t, c, W) ==
    /\ Offers(t, 1, "close", c) /\ t \notin W
    /\ shut' = [shut EXCEPT ![c] = TRUE]
    /\ \E arm \in [W -> 1..2] :
          /\ \A w \in W : Refused(w, arm[w], c)
          /\ outcome' = [w \in Tasks |->
                IF w = t THEN Done(1, None, "OK")
                ELSE IF w \in W THEN Done(arm[w], None, "EPIPE") ELSE outcome[w]]
    /\ UNCHANGED <<buf, call>>

\* A try operation finds nothing to do right now.
Again(t, c) ==
    /\ \/ Offers(t, 1, "send", c) /\ Len(buf[c]) = Capacity
       \/ Offers(t, 1, "recv", c) /\ buf[c] = <<>>
    /\ ~shut[c]
    /\ outcome' = [outcome EXCEPT ![t] = Done(0, None, "EAGAIN")]
    /\ UNCHANGED <<buf, shut, call>>

GiveUp(t, e) ==
    /\ Undecided(t)
    /\ outcome' = [outcome EXCEPT ![t] = Done(0, None, e)]
    /\ UNCHANGED <<buf, shut, call>>

\* A step that changes something.
FifoNext ==
    /\ fifoVars' # fifoVars
    /\ \E t \in Tasks :
         \/ Invoke(t) \/ Return(t)
         \/ \E e \in GiveUps : GiveUp(t, e)
         \/ \E c \in Channels :
               \/ Again(t, c)
               \/ \E W \in SUBSET Tasks : Shut(t, c, W)
               \/ \E i \in 1..2 : Put(t, i, c) \/ Take(t, i, c) \/ Refuse(t, i, c)
               \/ \E s \in Tasks, i, j \in 1..2 :
                     TakeRefill(t, i, s, j, c) \/ Transfer(t, i, s, j, c)

FifoSpec == FifoInit /\ [][FifoNext]_fifoVars
====
