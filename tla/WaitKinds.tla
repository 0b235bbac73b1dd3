------------------------------ MODULE WaitKinds ------------------------------
(***************************************************************************)
(* The kinds of step of the wait protocol: a setup step moves on, a wait   *)
(* begins or is withdrawn, a task parks or resumes, an actor takes,        *)
(* completes or requeues a node, hands its worker over, ...  Each lemma    *)
(* shows that a kind of step preserves WaitInv.                            *)
(***************************************************************************)
EXTENDS MutexTypes

\* Unlinking a node removes that node from that queue and nothing else, and
\* keeps the queue free of duplicates.
LEMMA LinkedUnlink ==
  ASSUME waitq \in [Queues -> Seq(Tasks)], NEW q \in Queues, NEW t, Unlink(q, t),
         \A p \in Queues : NoDuplicates(waitq[p])
  PROVE  /\ Linked(q, t)
         /\ \A p \in Queues : \A u : Linked(p, u)' <=> Linked(p, u) /\ ~(p = q /\ u = t)
         /\ \A p \in Queues : NoDuplicates(waitq[p])'
  <1> DEFINE s == waitq[q]
  <1>1. PICK i \in 1..Len(s) : s[i] = t /\ waitq' = [waitq EXCEPT ![q] = DropAt(s, i)]
    BY Zenon DEF Unlink
  <1>2. s \in Seq(Tasks) /\ NoDuplicates(s) /\ waitq'[q] = DropAt(s, i)
        /\ \A p \in Queues \ {q} : waitq'[p] = waitq[p]
    BY <1>1
  <1>3. DropAt(s, i) \in Seq(Tasks)
    BY <1>2, DropAtType
  <1>4. Len(DropAt(s, i)) = Len(s) - 1
    BY <1>2, <1>3 DEF DropAt
  <1>5. \A j \in 1..Len(s) - 1 : DropAt(s, i)[j] = IF j < i THEN s[j] ELSE s[j + 1]
    BY DEF DropAt
  <1>6. \A u : Linked(q, u)' <=> Linked(q, u) /\ u # t
    <2> TAKE u
    <2>1. ASSUME Linked(q, u)' PROVE Linked(q, u) /\ u # t
      <3>1. PICK j \in 1..Len(s) - 1 : DropAt(s, i)[j] = u
        BY <2>1, <1>2, <1>4 DEF Linked
      <3>2. CASE j < i
        BY <3>1, <3>2, <1>1, <1>2, <1>5 DEF Linked, NoDuplicates
      <3>3. CASE ~(j < i)
        BY <3>1, <3>3, <1>1, <1>2, <1>5 DEF Linked, NoDuplicates
      <3> QED BY <3>2, <3>3
    <2>2. ASSUME Linked(q, u), u # t PROVE Linked(q, u)'
      <3>1. PICK k \in 1..Len(s) : s[k] = u
        BY <2>2 DEF Linked
      <3>2. CASE k < i
        <4>1. k \in 1..Len(s) - 1 /\ DropAt(s, i)[k] = u
          BY <3>1, <3>2, <1>2, <1>5
        <4> QED BY <4>1, <1>2, <1>4 DEF Linked
      <3>3. CASE k > i
        <4>1. k - 1 \in 1..Len(s) - 1 /\ DropAt(s, i)[k - 1] = u
          BY <3>1, <3>3, <1>2, <1>5
        <4> QED BY <4>1, <1>2, <1>4 DEF Linked
      <3> QED BY <3>1, <3>2, <3>3, <2>2, <1>1, <1>2
    <2> QED BY <2>1, <2>2
  <1>7. NoDuplicates(DropAt(s, i))
    <2> SUFFICES ASSUME NEW j \in 1..Len(s) - 1, NEW k \in 1..Len(s) - 1,
                        DropAt(s, i)[j] = DropAt(s, i)[k]
                 PROVE  j = k
      BY <1>4 DEF NoDuplicates
    <2>1. CASE j < i /\ k < i
      BY <2>1, <1>2, <1>5 DEF NoDuplicates
    <2>2. CASE j < i /\ ~(k < i)
      BY <2>2, <1>2, <1>5 DEF NoDuplicates
    <2>3. CASE ~(j < i) /\ k < i
      BY <2>3, <1>2, <1>5 DEF NoDuplicates
    <2>4. CASE ~(j < i) /\ ~(k < i)
      BY <2>4, <1>2, <1>5 DEF NoDuplicates
    <2> QED BY <2>1, <2>2, <2>3, <2>4
  <1>8. Linked(q, t)
    BY <1>1 DEF Linked
  <1>9. \A p \in Queues \ {q} : \A u : Linked(p, u)' <=> Linked(p, u)
    BY <1>2 DEF Linked
  <1>10. \A p \in Queues : NoDuplicates(waitq[p])'
    BY <1>2, <1>7
  <1> QED BY <1>6, <1>8, <1>9, <1>10

\* Pushing an unlinked node adds it to that queue only, and keeps the queue
\* free of duplicates.
LEMMA LinkedAppend ==
  ASSUME waitq \in [Queues -> Seq(Tasks)], NEW q \in Queues, NEW t \in Tasks,
         \A p \in Queues : NoDuplicates(waitq[p]), ~Linked(q, t),
         waitq' = [waitq EXCEPT ![q] = Append(waitq[q], t)]
  PROVE  /\ \A p \in Queues : \A u : Linked(p, u)' <=> Linked(p, u) \/ (p = q /\ u = t)
         /\ \A p \in Queues : NoDuplicates(waitq[p])'
         /\ waitq'[q] # <<>>
  <1> DEFINE s == waitq[q]
             r == Append(s, t)
  <1>1. s \in Seq(Tasks) /\ NoDuplicates(s) /\ waitq'[q] = r
        /\ \A p \in Queues \ {q} : waitq'[p] = waitq[p]
    OBVIOUS
  <1>2. Len(r) = Len(s) + 1 /\ r[Len(s) + 1] = t /\ \A j \in 1..Len(s) : r[j] = s[j]
    BY <1>1
  <1>3. \A j \in 1..Len(s) : s[j] # t
    BY DEF Linked
  <1>4. \A u : Linked(q, u)' <=> Linked(q, u) \/ u = t
    <2> TAKE u
    <2>1. ASSUME Linked(q, u)' PROVE Linked(q, u) \/ u = t
      <3>1. PICK j \in 1..Len(r) : r[j] = u
        BY <2>1, <1>1 DEF Linked
      <3> QED BY <3>1, <1>1, <1>2 DEF Linked
    <2>2. ASSUME Linked(q, u) PROVE Linked(q, u)'
      <3>1. PICK j \in 1..Len(s) : s[j] = u
        BY <2>2 DEF Linked
      <3>2. j \in 1..Len(r) /\ r[j] = u
        BY <3>1, <1>1, <1>2
      <3> HIDE DEF r
      <3> QED BY <3>2, <1>1 DEF Linked
    <2>3. ASSUME u = t PROVE Linked(q, u)'
      <3>1. Len(s) + 1 \in 1..Len(r) /\ r[Len(s) + 1] = u
        BY <2>3, <1>1, <1>2
      <3> HIDE DEF r
      <3> QED BY <3>1, <1>1 DEF Linked
    <2> QED BY <2>1, <2>2, <2>3
  <1>5. NoDuplicates(r)
    <2> HIDE DEF r
    <2> SUFFICES ASSUME NEW j \in 1..Len(s) + 1, NEW k \in 1..Len(s) + 1, r[j] = r[k]
                 PROVE  j = k
      BY <1>2 DEF NoDuplicates
    <2>1. Len(s) \in Nat
      BY <1>1
    <2> QED BY <2>1, <1>1, <1>2, <1>3 DEF NoDuplicates
  <1>6. \A p \in Queues \ {q} : \A u : Linked(p, u)' <=> Linked(p, u)
    BY <1>1 DEF Linked
  <1>7. \A p \in Queues : NoDuplicates(waitq[p])'
    BY <1>1, <1>5
  <1>8. waitq'[q] # <<>>
    BY <1>1, <1>2
  <1> QED BY <1>4, <1>6, <1>7, <1>8

\* Popping the head removes that node from that queue only, and keeps the
\* queue free of duplicates.
LEMMA LinkedTail ==
  ASSUME waitq \in [Queues -> Seq(Tasks)], NEW q \in Queues, waitq[q] # <<>>,
         \A p \in Queues : NoDuplicates(waitq[p]),
         waitq' = [waitq EXCEPT ![q] = Tail(waitq[q])]
  PROVE  /\ Head(waitq[q]) \in Tasks /\ Linked(q, Head(waitq[q]))
         /\ \A p \in Queues : \A u : Linked(p, u)' <=>
                Linked(p, u) /\ ~(p = q /\ u = Head(waitq[q]))
         /\ \A p \in Queues : NoDuplicates(waitq[p])'
  <1> DEFINE s == waitq[q]
             r == Tail(s)
  <1>1. s \in Seq(Tasks) /\ s # <<>> /\ NoDuplicates(s) /\ waitq'[q] = r
        /\ \A p \in Queues \ {q} : waitq'[p] = waitq[p]
    OBVIOUS
  <1>2. /\ Len(s) \in Nat /\ Len(s) > 0
        /\ Len(r) = Len(s) - 1 /\ Head(s) = s[1] /\ s[1] \in Tasks
        /\ \A j \in 1..Len(s) - 1 : r[j] = s[j + 1]
    BY <1>1
  <1> HIDE DEF r
  <1>3. \A u : Linked(q, u)' <=> Linked(q, u) /\ u # s[1]
    <2> TAKE u
    <2>1. ASSUME Linked(q, u)' PROVE Linked(q, u) /\ u # s[1]
      <3>1. PICK j \in 1..Len(s) - 1 : r[j] = u
        BY <2>1, <1>1, <1>2 DEF Linked
      <3> QED BY <3>1, <1>1, <1>2 DEF Linked, NoDuplicates
    <2>2. ASSUME Linked(q, u), u # s[1] PROVE Linked(q, u)'
      <3>1. PICK j \in 1..Len(s) : s[j] = u
        BY <2>2 DEF Linked
      <3>2. j - 1 \in 1..Len(r) /\ r[j - 1] = u
        BY <3>1, <2>2, <1>1, <1>2
      <3> QED BY <3>2, <1>1 DEF Linked
    <2> QED BY <2>1, <2>2
  <1>4. NoDuplicates(r)
    BY <1>1, <1>2 DEF NoDuplicates
  <1>5. Linked(q, s[1])
    BY <1>2 DEF Linked
  <1>6. \A p \in Queues \ {q} : \A u : Linked(p, u)' <=> Linked(p, u)
    BY <1>1 DEF Linked
  <1>7. \A p \in Queues : NoDuplicates(waitq[p])'
    BY <1>1, <1>4, Zenon
  <1> QED BY <1>2, <1>3, <1>5, <1>6, <1>7

\* The requeueing actors and the parked tasks stay what they are.
LEMMA RequeueKept ==
  ASSUME RequeueInv,
         \A b \in Actors : apc'[b] \in RequeuePcs <=> apc[b] \in RequeuePcs,
         \A b \in Actors : apc[b] \in RequeuePcs => tgt'[b] = tgt[b] /\ tgt[b] \in Tasks,
         \A u \in Tasks : pc'[u] \in ParkPcs <=> pc[u] \in ParkPcs,
         UNCHANGED <<armed, runq>>
  PROVE  RequeueInv'
  BY DEF RequeueInv

(***************************************************************************)
(* Kinds of step that preserve WaitInv.  coreVars are the variables it is  *)
(* about; a control point is at rest when it is in no wait and not yielded.*)
(***************************************************************************)
AtRest(p) == p \notin WaitPcs \cup YieldPcs
\* An actor at such a control point owes nothing to its node.
Neutral(p) == p \notin HoldPcs \cup RequeuePcs

\* A waiter moves on within its setup.
LEMMA SetupMoves ==
  ASSUME TypeOK, WaitInv, NEW t \in Tasks, NEW p \in SetupPcs, pc[t] \in SetupPcs,
         pc' = [pc EXCEPT ![t] = p],
         UNCHANGED <<waitq, armed, err, on, runq, apc, tgt>>
  PROVE  WaitInv'
  <1>1. pc'[t] = p /\ \A u \in Tasks \ {t} : pc'[u] = pc[u]
    BY DEF TypeOK, WaitTypeOK
  <1>2. \A q, u : Linked(q, u)' <=> Linked(q, u)
    BY DEF Linked
  <1>3. /\ p \in WaitPcs /\ pc[t] \in WaitPcs
        /\ p \notin ParkPcs \cup YieldPcs \cup DonePcs \cup {"waking", "waking_in", "parked"}
        /\ pc[t] \notin ParkPcs \cup YieldPcs \cup {"waking", "waking_in", "parked"}
    BY DEF WaitPcs, SetupPcs, ParkPcs, YieldPcs, DonePcs
  <1>4. QueueInv'
    BY <1>1, <1>2, <1>3 DEF WaitInv, QueueInv
  <1>5. ArmInv'
    BY <1>1, <1>3 DEF WaitInv, ArmInv
  <1>6. ActorInv'
    BY <1>1, <1>3 DEF WaitInv, ActorInv
  <1>7. HoldInv'
    BY <1>1, <1>2, <1>3 DEF WaitInv, HoldInv
  <1>8. CoverInv'
    BY <1>1, <1>2, <1>3 DEF WaitInv, CoverInv
  <1>9. RequeueInv'
    BY <1>1, <1>3 DEF WaitInv, RequeueInv
  <1>10. RunqInv'
    BY <1>1, <1>3 DEF WaitInv, RunqInv
  <1> QED BY <1>4, <1>5, <1>6, <1>7, <1>8, <1>9, <1>10 DEF WaitInv

\* A task outside any wait moves on, whatever happens to its idle node.
LEMMA RestMoves ==
  ASSUME TypeOK, WaitInv, NEW t \in Tasks, NEW p, AtRest(p), AtRest(pc[t]), apc[t] = "off",
         pc' = [pc EXCEPT ![t] = p],
         p \in DonePcs => on'[t] \in Queues,
         \A u \in Tasks \ {t} : armed'[u] = armed[u] /\ err'[u] = err[u] /\ on'[u] = on[u],
         UNCHANGED <<waitq, runq, apc, tgt>>
  PROVE  WaitInv'
  <1>1. pc'[t] = p /\ \A u \in Tasks \ {t} : pc'[u] = pc[u]
    BY DEF TypeOK, WaitTypeOK
  <1>2. \A q, u : Linked(q, u)' <=> Linked(q, u)
    BY DEF Linked
  <1>3. p \notin WaitPcs \cup SetupPcs \cup ParkPcs \cup YieldPcs
        /\ pc[t] \notin WaitPcs \cup SetupPcs \cup ParkPcs \cup YieldPcs
    BY DEF AtRest, WaitPcs
  <1>4. QueueInv'
    BY <1>1, <1>2, <1>3 DEF WaitInv, QueueInv
  <1>5. ArmInv'
    BY <1>1, <1>3 DEF WaitInv, ArmInv
  <1>6. ActorInv'
    BY <1>1, <1>3 DEF WaitInv, ActorInv
  <1>7. HoldInv'
    BY <1>1, <1>2, <1>3 DEF WaitInv, HoldInv, ActorInv, HoldPcs
  <1>8. CoverInv'
    BY <1>1, <1>2, <1>3 DEF WaitInv, CoverInv
  <1>9. RequeueInv'
    BY <1>1, <1>3 DEF WaitInv, RequeueInv, ActorInv, RequeuePcs
  <1>10. RunqInv'
    BY <1>1, <1>3 DEF WaitInv, RunqInv
  <1> QED BY <1>4, <1>5, <1>6, <1>7, <1>8, <1>9, <1>10 DEF WaitInv

\* A wait begins: the node is linked and unresolved.
LEMMA WaitBegins ==
  ASSUME TypeOK, WaitInv, NEW t \in Tasks, NEW q \in Queues, AtRest(pc[t]), apc[t] = "off",
         pc' = [pc EXCEPT ![t] = "queued"],
         armed' = [armed EXCEPT ![t] = "UNARMED"],
         err' = [err EXCEPT ![t] = "OK"],
         on' = [on EXCEPT ![t] = q],
         waitq' = [waitq EXCEPT ![q] = Append(waitq[q], t)],
         UNCHANGED <<runq, apc, tgt>>
  PROVE  WaitInv'
  <1>1. /\ pc'[t] = "queued" /\ armed'[t] = "UNARMED" /\ err'[t] = "OK" /\ on'[t] = q
        /\ \A u \in Tasks \ {t} : /\ pc'[u] = pc[u] /\ armed'[u] = armed[u]
                                  /\ err'[u] = err[u] /\ on'[u] = on[u]
    BY DEF TypeOK, WaitTypeOK
  <1>2. ~Linked(q, t) /\ waitq \in [Queues -> Seq(Tasks)]
        /\ \A r \in Queues : NoDuplicates(waitq[r])
    BY DEF WaitInv, QueueInv, AtRest, TypeOK, WaitTypeOK
  <1>3. /\ \A r \in Queues : \A u : Linked(r, u)' <=> Linked(r, u) \/ (r = q /\ u = t)
        /\ \A r \in Queues : NoDuplicates(waitq[r])'
    BY <1>2, LinkedAppend, Zenon
  <1>4. /\ "queued" \in WaitPcs /\ "queued" \in SetupPcs
        /\ "queued" \notin ParkPcs \cup YieldPcs \cup {"waking", "waking_in", "parked"}
        /\ pc[t] \notin WaitPcs \cup ParkPcs \cup YieldPcs
    BY DEF WaitPcs, SetupPcs, ParkPcs, YieldPcs, AtRest
  <1>5. QueueInv'
    BY <1>1, <1>3, <1>4 DEF WaitInv, QueueInv, Pending
  <1>6. ArmInv'
    BY <1>1, <1>4 DEF WaitInv, ArmInv
  <1>7. ActorInv'
    BY <1>1, <1>4 DEF WaitInv, ActorInv
  <1>8. HoldInv'
    BY <1>1, <1>3, <1>4 DEF WaitInv, HoldInv, ActorInv, HoldPcs
  <1>9. CoverInv'
    BY <1>1, <1>3, <1>4 DEF WaitInv, CoverInv, ArmInv
  <1>10. RequeueInv'
    BY <1>1, <1>4 DEF WaitInv, RequeueInv, ActorInv, RequeuePcs
  <1>11. RunqInv'
    BY <1>1, <1>4 DEF WaitInv, RunqInv
  <1> QED BY <1>5, <1>6, <1>7, <1>8, <1>9, <1>10, <1>11 DEF WaitInv

\* The waiter withdraws its own node.
LEMMA WaitWithdrawn ==
  ASSUME TypeOK, WaitInv, NEW t \in Tasks, pc[t] \in SetupPcs,
         pc' = [pc EXCEPT ![t] = "cleanup"], Unlink(on[t], t),
         \A u \in Tasks \ {t} : err'[u] = err[u],
         UNCHANGED <<armed, on, runq, apc, tgt>>
  PROVE  WaitInv'
  <1>1. pc'[t] = "cleanup" /\ \A u \in Tasks \ {t} : pc'[u] = pc[u]
    BY DEF TypeOK, WaitTypeOK
  <1>2. /\ on[t] \in Queues /\ waitq \in [Queues -> Seq(Tasks)]
        /\ \A r \in Queues : NoDuplicates(waitq[r])
    BY DEF WaitInv, ArmInv, QueueInv, TypeOK, WaitTypeOK, WaitPcs
  <1>3. /\ Linked(on[t], t)
        /\ \A r \in Queues : \A u : Linked(r, u)' <=> Linked(r, u) /\ ~(r = on[t] /\ u = t)
        /\ \A r \in Queues : NoDuplicates(waitq[r])'
    BY <1>2, LinkedUnlink
  <1>4. "cleanup" \notin WaitPcs \cup SetupPcs \cup ParkPcs \cup YieldPcs
        /\ pc[t] \notin ParkPcs \cup YieldPcs \cup {"waking", "waking_in", "parked"}
    BY DEF WaitPcs, SetupPcs, ParkPcs, YieldPcs
  <1>5. QueueInv'
    BY <1>1, <1>2, <1>3, <1>4 DEF WaitInv, QueueInv
  <1>6. ArmInv'
    BY <1>1, <1>2, <1>4 DEF WaitInv, ArmInv
  <1>7. ActorInv'
    BY <1>1, <1>4 DEF WaitInv, ActorInv
  <1>8. HoldInv'
    BY <1>1, <1>2, <1>3, <1>4 DEF WaitInv, HoldInv, ActorInv, HoldPcs
  <1>9. CoverInv'
    <2> SUFFICES ASSUME NEW u \in Tasks, pc'[u] \in WaitPcs, armed'[u] \in Pending
                 PROVE  Linked(on[u], u)' \/ \E a \in Actors : apc'[a] \in HoldPcs /\ tgt'[a] = u
      BY DEF CoverInv
    <2>1. u # t /\ pc[u] \in WaitPcs /\ on[u] \in Queues
      BY <1>1, <1>4 DEF WaitInv, ArmInv
    <2> QED BY <1>3, <2>1 DEF WaitInv, CoverInv
  <1>10. RequeueInv'
    BY <1>1, <1>4 DEF WaitInv, RequeueInv
  <1>11. RunqInv'
    BY <1>1, <1>4 DEF WaitInv, RunqInv
  <1> QED BY <1>5, <1>6, <1>7, <1>8, <1>9, <1>10, <1>11 DEF WaitInv

\* The waiter commits to parking.
LEMMA WaitArmed ==
  ASSUME TypeOK, WaitInv, NEW t \in Tasks, pc[t] \in SetupPcs, armed[t] = "UNARMED",
         pc' = [pc EXCEPT ![t] = "park"],
         armed' = [armed EXCEPT ![t] = "ARMED"],
         UNCHANGED <<waitq, err, on, runq, apc, tgt>>
  PROVE  WaitInv'
  <1>1. /\ pc'[t] = "park" /\ armed'[t] = "ARMED"
        /\ \A u \in Tasks \ {t} : pc'[u] = pc[u] /\ armed'[u] = armed[u]
    BY DEF TypeOK, WaitTypeOK
  <1>2. \A q, u : Linked(q, u)' <=> Linked(q, u)
    BY DEF Linked
  <1>3. /\ "park" \in WaitPcs /\ "park" \in ParkPcs /\ pc[t] \in WaitPcs
        /\ "park" \notin SetupPcs \cup YieldPcs \cup DonePcs \cup {"waking", "waking_in", "parked"}
        /\ pc[t] \notin ParkPcs \cup YieldPcs \cup {"waking", "waking_in", "parked"}
    BY DEF WaitPcs, SetupPcs, ParkPcs, YieldPcs, DonePcs
  <1>4. QueueInv'
    BY <1>1, <1>2, <1>3 DEF WaitInv, QueueInv, Pending
  <1>5. ArmInv'
    BY <1>1, <1>3 DEF WaitInv, ArmInv
  <1>6. ActorInv'
    BY <1>1, <1>3 DEF WaitInv, ActorInv
  <1>7. HoldInv'
    BY <1>1, <1>2, <1>3 DEF WaitInv, HoldInv, Pending
  <1>8. CoverInv'
    BY <1>1, <1>2, <1>3 DEF WaitInv, CoverInv, Pending
  <1>9. RequeueInv'
    BY <1>1, <1>3 DEF WaitInv, RequeueInv
  <1>10. RunqInv'
    BY <1>1, <1>3 DEF WaitInv, RunqInv
  <1> QED BY <1>4, <1>5, <1>6, <1>7, <1>8, <1>9, <1>10 DEF WaitInv

\* The task publishes PARKED, and may turn to its own wait as a resolver.
LEMMA WaitParked ==
  ASSUME TypeOK, WaitInv, NEW t \in Tasks, pc[t] = "park", NEW p \in {"off", "begin"},
         pc' = [pc EXCEPT ![t] = "parked"],
         apc'[t] = p, tgt'[t] \in Tasks \/ p = "off",
         \A a \in Actors \ {t} : apc'[a] = apc[a] /\ tgt'[a] = tgt[a],
         UNCHANGED <<waitq, armed, err, on, runq>>
  PROVE  WaitInv'
  <1>1. pc'[t] = "parked" /\ \A u \in Tasks \ {t} : pc'[u] = pc[u]
    BY DEF TypeOK, WaitTypeOK
  <1>2. \A q, u : Linked(q, u)' <=> Linked(q, u)
    BY DEF Linked
  <1>3. /\ "parked" \in WaitPcs /\ "parked" \in ParkPcs
        /\ pc[t] \in WaitPcs /\ pc[t] \in ParkPcs /\ pc[t] \notin YieldPcs
        /\ "parked" \notin SetupPcs \cup YieldPcs \cup DonePcs
    BY DEF WaitPcs, SetupPcs, ParkPcs, YieldPcs, DonePcs
  <1>4. apc[t] = "off" /\ t \in Actors
    BY DEF WaitInv, ActorInv, Actors
  <1>5. p \notin HoldPcs \cup RequeuePcs /\ "off" \notin HoldPcs \cup RequeuePcs
    BY DEF HoldPcs, RequeuePcs
  <1>6. QueueInv'
    BY <1>1, <1>2, <1>3 DEF WaitInv, QueueInv
  <1>7. ArmInv'
    BY <1>1, <1>3 DEF WaitInv, ArmInv
  <1>8. ActorInv'
    BY <1>1, <1>4 DEF WaitInv, ActorInv, Actors
  <1>9. HoldInv'
    BY <1>1, <1>2, <1>3, <1>4, <1>5 DEF WaitInv, HoldInv
  <1>10. CoverInv'
    BY <1>1, <1>2, <1>3, <1>4, <1>5 DEF WaitInv, CoverInv
  <1>11. RequeueInv'
    BY <1>1, <1>3, <1>4, <1>5 DEF WaitInv, RequeueInv
  <1>12. RunqInv'
    BY <1>1, <1>3 DEF WaitInv, RunqInv
  <1> QED BY <1>6, <1>7, <1>8, <1>9, <1>10, <1>11, <1>12 DEF WaitInv

\* A task resumes: from a completed wait that nobody has still to requeue, or
\* from a handoff.
LEMMA TaskResumes ==
  ASSUME TypeOK, WaitInv, NEW t \in Tasks, NEW p, AtRest(p), apc[t] = "off",
         \/ pc[t] \in SetupPcs /\ armed[t] = "COMPLETED_INLINE" /\ p = "cleanup"
         \/ pc[t] \in ParkPcs /\ runq[t] > 0 /\ p = "cleanup"
         \/ pc[t] \in YieldPcs /\ runq[t] > 0 /\ p \in {"idle", "crit"},
         pc' = [pc EXCEPT ![t] = p],
         runq' = [runq EXCEPT ![t] = 0],
         UNCHANGED <<waitq, armed, err, on, apc, tgt>>
  PROVE  WaitInv'
  <1>1. /\ pc'[t] = p /\ runq'[t] = 0
        /\ \A u \in Tasks \ {t} : pc'[u] = pc[u] /\ runq'[u] = runq[u]
    BY DEF TypeOK, WaitTypeOK
  <1>2. \A q, u : Linked(q, u)' <=> Linked(q, u)
    BY Zenon DEF Linked
  <1>3. p \notin WaitPcs \cup SetupPcs \cup ParkPcs \cup YieldPcs
    BY DEF AtRest, WaitPcs
  <1>4. /\ pc[t] \in WaitPcs => armed[t] \notin Pending /\ on[t] \in Queues
        /\ p \in DonePcs => pc[t] \in WaitPcs
    BY DEF WaitInv, RunqInv, ArmInv, Pending, WaitPcs, SetupPcs, ParkPcs, YieldPcs, DonePcs
  <1>5. \A a \in Actors : apc[a] \in RequeuePcs => tgt[a] # t
    BY DEF WaitInv, RequeueInv, SetupPcs, ParkPcs, YieldPcs
  <1>6. QueueInv'
    BY <1>1, <1>2, <1>4 DEF WaitInv, QueueInv
  <1>7. ArmInv'
    BY <1>1, <1>3, <1>4 DEF WaitInv, ArmInv
  <1>8. ActorInv'
    BY <1>1 DEF WaitInv, ActorInv
  <1>9. HoldInv'
    BY <1>1, <1>2, <1>4 DEF WaitInv, HoldInv, ActorInv, HoldPcs
  <1>10. CoverInv'
    BY <1>1, <1>2, <1>3 DEF WaitInv, CoverInv
  <1>11. RequeueInv'
    BY <1>1, <1>3, <1>5 DEF WaitInv, RequeueInv, ActorInv, RequeuePcs
  <1>12. RunqInv'
    BY <1>1, <1>3 DEF WaitInv, RunqInv
  <1> QED BY <1>6, <1>7, <1>8, <1>9, <1>10, <1>11, <1>12 DEF WaitInv

\* An actor that owes nothing goes on owing nothing.
LEMMA ActorMoves ==
  ASSUME TypeOK, WaitInv, NEW a \in Actors, NEW p, Neutral(p), Neutral(apc[a]),
         apc' = [apc EXCEPT ![a] = p],
         \A b \in Actors \ {a} : tgt'[b] = tgt[b],
         p # "off" => tgt'[a] \in Tasks,
         a \in Tasks => apc[a] # "off",
         UNCHANGED <<pc, waitq, armed, err, on, runq>>
  PROVE  WaitInv'
  <1>1. apc'[a] = p /\ \A b \in Actors \ {a} : apc'[b] = apc[b]
    BY DEF TypeOK, WaitTypeOK
  <1>2. \A q, u : Linked(q, u)' <=> Linked(q, u)
    BY Zenon DEF Linked
  <1>3. p \notin HoldPcs \cup RequeuePcs /\ apc[a] \notin HoldPcs \cup RequeuePcs
    BY DEF Neutral
  <1>4. QueueInv'
    BY <1>2 DEF WaitInv, QueueInv
  <1>5. ArmInv'
    BY DEF WaitInv, ArmInv
  <1>6. ActorInv'
    BY <1>1 DEF WaitInv, ActorInv, Actors
  <1>7. HoldInv'
    BY <1>1, <1>2, <1>3 DEF WaitInv, HoldInv
  <1>8. CoverInv'
    BY <1>1, <1>2, <1>3 DEF WaitInv, CoverInv
  <1>9. RequeueInv'
    BY <1>1, <1>3 DEF WaitInv, RequeueInv
  <1>10. RunqInv'
    BY DEF WaitInv, RunqInv
  <1> QED BY <1>4, <1>5, <1>6, <1>7, <1>8, <1>9, <1>10 DEF WaitInv

\* An actor moves on with a node it holds, or with a task it is to requeue.
LEMMA ActorKeeps ==
  ASSUME TypeOK, WaitInv, NEW a \in Actors, NEW p,
         \/ p \in HoldPcs /\ apc[a] \in HoldPcs
         \/ p \in RequeuePcs /\ apc[a] \in RequeuePcs,
         apc' = [apc EXCEPT ![a] = p],
         UNCHANGED <<pc, waitq, armed, err, on, runq, tgt>>
  PROVE  WaitInv'
  <1>1. apc'[a] = p /\ \A b \in Actors \ {a} : apc'[b] = apc[b]
    BY DEF TypeOK, WaitTypeOK
  <1>2. \A q, u : Linked(q, u)' <=> Linked(q, u)
    BY Zenon DEF Linked
  <1>3. \A b \in Actors : /\ apc'[b] \in HoldPcs <=> apc[b] \in HoldPcs
                          /\ apc'[b] \in RequeuePcs <=> apc[b] \in RequeuePcs
                          /\ apc'[b] # "off" <=> apc[b] # "off"
    BY <1>1 DEF HoldPcs, RequeuePcs
  <1>4. QueueInv'
    BY <1>2 DEF WaitInv, QueueInv
  <1>5. ArmInv'
    BY DEF WaitInv, ArmInv
  <1>6. ActorInv'
    BY <1>3 DEF WaitInv, ActorInv, Actors
  <1>7. HoldInv'
    BY <1>2, <1>3 DEF WaitInv, HoldInv
  <1>8. CoverInv'
    BY <1>2, <1>3 DEF WaitInv, CoverInv
  <1>9. RequeueInv'
    BY <1>3 DEF WaitInv, RequeueInv
  <1>10. RunqInv'
    BY DEF WaitInv, RunqInv
  <1> QED BY <1>4, <1>5, <1>6, <1>7, <1>8, <1>9, <1>10 DEF WaitInv

\* An actor unlinks an unresolved node and now holds it.  An unlocking task
\* leaves its critical section in the same step.
LEMMA NodeTaken ==
  ASSUME TypeOK, WaitInv, NEW a \in Actors, NEW p \in HoldPcs, NEW q \in Queues, NEW t \in Tasks,
         Neutral(apc[a]), apc' = [apc EXCEPT ![a] = p], tgt'[a] = t,
         \A b \in Actors \ {a} : tgt'[b] = tgt[b],
         Linked(q, t),
         \A r \in Queues : \A u : Linked(r, u)' <=> Linked(r, u) /\ ~(r = q /\ u = t),
         \A r \in Queues : NoDuplicates(waitq[r])',
         \A u \in Tasks \ {t} : err'[u] = err[u],
         \/ UNCHANGED pc /\ (a \in Tasks => apc[a] # "off")
         \/ a \in Tasks /\ pc[a] = "crit" /\ pc' = [pc EXCEPT ![a] = "waking"],
         UNCHANGED <<armed, on, runq>>
  PROVE  WaitInv'
  <1>1. apc'[a] = p /\ \A b \in Actors \ {a} : apc'[b] = apc[b]
    BY DEF TypeOK, WaitTypeOK
  <1>2. /\ \A u \in Tasks : /\ pc'[u] \in WaitPcs <=> pc[u] \in WaitPcs
                            /\ pc'[u] \in SetupPcs <=> pc[u] \in SetupPcs
                            /\ pc'[u] \in ParkPcs <=> pc[u] \in ParkPcs
                            /\ pc'[u] \in YieldPcs <=> pc[u] \in YieldPcs
                            /\ pc'[u] \in DonePcs => pc[u] \in DonePcs
                            /\ u # a => pc'[u] = pc[u]
        /\ a \in Tasks => pc'[a] \in {"waking", "waking_in", "parked"}
    <2>1. CASE UNCHANGED pc /\ (a \in Tasks => apc[a] # "off")
      BY <2>1 DEF WaitInv, ActorInv
    <2>2. CASE a \in Tasks /\ pc[a] = "crit" /\ pc' = [pc EXCEPT ![a] = "waking"]
      <3>1. pc'[a] = "waking" /\ \A u \in Tasks \ {a} : pc'[u] = pc[u]
        BY <2>2 DEF TypeOK, WaitTypeOK
      <3> QED BY <2>2, <3>1 DEF WaitPcs, SetupPcs, ParkPcs, YieldPcs, DonePcs
    <2> QED BY <2>1, <2>2
  <1>3. p \notin RequeuePcs /\ apc[a] \notin HoldPcs \cup RequeuePcs
    BY Zenon DEF Neutral, HoldPcs, RequeuePcs
  <1>4. pc[t] \in WaitPcs /\ on[t] = q /\ armed[t] \in Pending
    BY DEF WaitInv, QueueInv
  <1>5. \A b \in Actors : apc[b] \in HoldPcs => tgt[b] # t
    BY DEF WaitInv, HoldInv
  <1>6. \A r \in Queues : ~Linked(r, t)'
    BY DEF WaitInv, QueueInv
  <1>7. QueueInv'
    BY <1>2 DEF WaitInv, QueueInv
  <1>8. ArmInv'
    BY <1>2 DEF WaitInv, ArmInv
  <1>9. ActorInv'
    BY <1>1, <1>2 DEF WaitInv, ActorInv, Actors
  <1>10. HoldInv'
    BY <1>1, <1>2, <1>3, <1>4, <1>5, <1>6 DEF WaitInv, HoldInv, ActorInv, HoldPcs
  <1>11. CoverInv'
    <2> SUFFICES ASSUME NEW u \in Tasks, pc[u] \in WaitPcs, armed[u] \in Pending
                 PROVE  Linked(on[u], u)' \/ \E b \in Actors : apc'[b] \in HoldPcs /\ tgt'[b] = u
      BY <1>2 DEF CoverInv
    <2>1. on[u] \in Queues
      BY DEF WaitInv, ArmInv
    <2>2. CASE Linked(on[u], u)
      BY <1>1, <2>1, <2>2, Zenon
    <2>3. ASSUME NEW b \in Actors, apc[b] \in HoldPcs, tgt[b] = u
          PROVE  apc'[b] \in HoldPcs /\ tgt'[b] = u
      BY <1>1, <1>3, <2>3, Zenon
    <2>4. Linked(on[u], u) \/ \E b \in Actors : apc[b] \in HoldPcs /\ tgt[b] = u
      BY Zenon DEF WaitInv, CoverInv
    <2> QED BY <2>2, <2>3, <2>4
  <1>12. RequeueInv'
    <2>1. \A b \in Actors : apc[b] \in RequeuePcs => tgt'[b] = tgt[b] /\ tgt[b] \in Tasks
      BY <1>3, Zenon DEF WaitInv, ActorInv, RequeuePcs
    <2>2. \A b \in Actors : apc'[b] \in RequeuePcs <=> apc[b] \in RequeuePcs
      BY <1>1, <1>3, Zenon
    <2>3. RequeueInv
      BY Zenon DEF WaitInv
    <2> QED BY <1>2, <2>1, <2>2, <2>3, RequeueKept, Zenon
  <1>13. RunqInv'
    BY <1>2, Zenon DEF WaitInv, RunqInv
  <1> QED BY <1>7, <1>8, <1>9, <1>10, <1>11, <1>12, <1>13 DEF WaitInv

\* The holder completes its node: inline while the waiter has not armed it,
\* else with the obligation to requeue the task.
LEMMA NodeCompleted ==
  ASSUME TypeOK, WaitInv, NEW a \in Actors, apc[a] \in HoldPcs, NEW w, NEW p,
         \/ armed[tgt[a]] = "UNARMED" /\ w = "COMPLETED_INLINE" /\ p = "store"
         \/ armed[tgt[a]] = "ARMED" /\ w = "COMPLETED_QUEUED" /\ p = "reinject",
         apc' = [apc EXCEPT ![a] = p],
         armed' = [armed EXCEPT ![tgt[a]] = w],
         UNCHANGED <<pc, waitq, err, on, runq, tgt>>
  PROVE  WaitInv'
  <1> DEFINE t == tgt[a]
  <1>1. t \in Tasks /\ pc[t] \in WaitPcs /\ \A q \in Queues : ~Linked(q, t)
    BY DEF WaitInv, ActorInv, HoldInv, HoldPcs
  <1> HIDE DEF t
  <1>2. apc'[a] = p /\ \A b \in Actors \ {a} : apc'[b] = apc[b]
    BY DEF TypeOK, WaitTypeOK
  <1>3. armed'[t] = w /\ \A u \in Tasks \ {t} : armed'[u] = armed[u]
    BY <1>1 DEF t, TypeOK, WaitTypeOK
  <1>4. \A q, u : Linked(q, u)' <=> Linked(q, u)
    BY Zenon DEF Linked
  <1>5. /\ w \notin Pending /\ armed[t] # "COMPLETED_QUEUED"
        /\ p \notin HoldPcs /\ apc[a] \notin RequeuePcs
        /\ p \in RequeuePcs => w = "COMPLETED_QUEUED"
        /\ w = "COMPLETED_QUEUED" => p \in RequeuePcs /\ pc[t] \in ParkPcs
        /\ pc[t] \in SetupPcs => w = "COMPLETED_INLINE"
        /\ pc[t] \in ParkPcs => w = "COMPLETED_QUEUED"
    BY <1>1 DEF t, Pending, HoldPcs, RequeuePcs, WaitInv, ArmInv, WaitPcs
  <1>6. \A b \in Actors : apc[b] \in RequeuePcs => tgt[b] # t
    BY <1>5 DEF WaitInv, RequeueInv
  <1>7. QueueInv'
    BY <1>1, <1>3, <1>4 DEF WaitInv, QueueInv
  <1>8. ArmInv'
    BY <1>3, <1>5 DEF WaitInv, ArmInv
  <1>9. ActorInv'
    BY <1>2 DEF WaitInv, ActorInv, Actors, HoldPcs
  <1>10. HoldInv'
    BY <1>2, <1>3, <1>4, <1>5 DEF t, WaitInv, HoldInv
  <1>11. CoverInv'
    BY <1>2, <1>3, <1>4, <1>5 DEF t, WaitInv, CoverInv
  <1>12. runq[t] = 0
    BY <1>1, <1>5 DEF WaitInv, RunqInv, WaitPcs, SetupPcs, ParkPcs, YieldPcs
  <1>13. RequeueInv'
    <2>1. \A b \in Actors : apc'[b] \in RequeuePcs /\ b # a =>
             apc[b] \in RequeuePcs /\ tgt[b] # t /\ tgt[b] \in Tasks
      BY <1>2, <1>6 DEF WaitInv, ActorInv, RequeuePcs
    <2>2. tgt[a] = t /\ tgt' = tgt /\ pc' = pc /\ runq' = runq
      BY DEF t
    <2>3. RequeueInv
      BY DEF WaitInv
    <2>4. ASSUME NEW b \in Actors, apc'[b] \in RequeuePcs
          PROVE  pc[tgt[b]] \in ParkPcs /\ armed'[tgt[b]] = "COMPLETED_QUEUED" /\ runq[tgt[b]] = 0
      <3>1. CASE b = a
        BY <1>2, <1>3, <1>5, <1>12, <2>2, <2>4, <3>1
      <3>2. CASE b # a
        BY <1>3, <2>1, <2>3, <2>4, <3>2 DEF RequeueInv
      <3> QED BY <3>1, <3>2
    <2>5. ASSUME NEW b \in Actors, NEW c \in Actors, apc'[b] \in RequeuePcs,
                 apc'[c] \in RequeuePcs, tgt[b] = tgt[c]
          PROVE  b = c
      BY <2>1, <2>2, <2>3, <2>5 DEF RequeueInv
    <2>6. ASSUME NEW u \in Tasks, pc[u] \in ParkPcs, armed'[u] = "COMPLETED_QUEUED", runq[u] = 0
          PROVE  \E b \in Actors : apc'[b] \in RequeuePcs /\ tgt[b] = u
      <3>1. CASE u = t
        BY <1>2, <1>3, <1>5, <2>2, <2>6, <3>1
      <3>2. CASE u # t
        BY <1>2, <1>3, <1>5, <2>3, <2>6, <3>2 DEF RequeueInv
      <3> QED BY <3>1, <3>2
    <2> QED BY <2>2, <2>4, <2>5, <2>6 DEF RequeueInv
  <1>14. RunqInv'
    BY <1>3, <1>12 DEF WaitInv, RunqInv
  <1> QED BY <1>7, <1>8, <1>9, <1>10, <1>11, <1>13, <1>14 DEF WaitInv
====
