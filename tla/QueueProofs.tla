---------------------------- MODULE QueueProofs -----------------------------
(***************************************************************************)
(* The dead, reaper and debugger queues: dead_push, dead_pull, dead_wait,  *)
(* fault_push and fault_wait preserve the invariant, as the kernel calls   *)
(* and faults use them.                                                    *)
(***************************************************************************)
EXTENDS InvProofs

(* Time limits for a leaf that names no prover: the provers in their       *)
(* default order, with time to spare.                                      *)
USE SMTT(30), ZenonT(30)

(* What ev_append and ev_pop do to a thread. *)
LEMMA EventEffect ==
  ASSUME NEW k \in KernelData, NEW b \in Block, NEW e \in Event
  PROVE  /\ OnlyEvents(k, ev_append(k, b, e)) /\ OnlyEvents(k, ev_pop(k, b, e))
         /\ \A x \in Block : /\ ev_append(k, b, e).th[x].eax = k.th[x].eax
                             /\ x # b => ev_append(k, b, e).th[x].event = k.th[x].event
         /\ \A x \in Block : /\ ev_pop(k, b, e).th[x].eax = IF x = b THEN e ELSE k.th[x].eax
                             /\ x # b => ev_pop(k, b, e).th[x].event = k.th[x].event
  <1>1. \A x \in Block : ev_append(k, b, e).th[x].eax = k.th[x].eax
    BY DEF ev_append, KernelData, ThreadStruct
  <1>2. \A x \in Block : ev_pop(k, b, e).th[x].eax = IF x = b THEN e ELSE k.th[x].eax
    BY DEF ev_pop, KernelData, ThreadStruct
  <1>3. /\ OnlyEvents(k, ev_append(k, b, e))
        /\ \A x \in Block : x # b => ev_append(k, b, e).th[x].event = k.th[x].event
    BY AppendEffect
  <1>4. /\ OnlyEvents(k, ev_pop(k, b, e))
        /\ \A x \in Block : x # b => ev_pop(k, b, e).th[x].event = k.th[x].event
    BY PopEffect
  <1> QED BY Zenon, <1>1, <1>2, <1>3, <1>4

(* thread_save and TS_PAUSED for the running thread. *)
LEMMA SuspendSettled ==
  ASSUME NEW k, Settled(k), k.active \in Block
  PROVE  LET r == suspend(k, k.active)
         IN  /\ Settled(r) /\ r.active = NULL /\ Idle(r, States(r), k.active)
             /\ SameQueues(k, r)
  <1>1. PICK p : p = thread_save(k, k.active)
    BY Zenon
  <1>2. k \in KernelData
    BY DEF Settled, KInv
  <1>3. Off(p, k.active) /\ p.active = NULL
    BY <1>1, SaveOff
  <1>4. SameQueues(k, p)
    BY <1>1, <1>2, ActiveEffect DEF thread_save, Ptr
  <1>5. PICK r : r = [p EXCEPT !.th[k.active].state = TS_PAUSED]
    BY Zenon
  <1>6. Settled(r) /\ r.active = p.active /\ Idle(r, States(r), k.active) /\ SameQueues(p, r)
    BY <1>3, <1>5, PauseOff, Zenon
  <1>7. SameQueues(k, r)
    BY <1>4, <1>6 DEF SameQueues, SameSched, SameEvents, SameBlocked, SameDead, SameTable, SameLatch
  <1> QED BY <1>1, <1>3, <1>5, <1>6, <1>7 DEF suspend

(* A paused thread on no queue may be handled like one half way through. *)
LEMMA IdleOff ==
  ASSUME NEW k, Settled(k), NEW b, Idle(k, States(k), b)
  PROVE  Off(k, b)
  <1>1. States(k) \in StateFun /\ b \in Block /\ States(k)[b] = TS_PAUSED
    BY StatesType DEF Settled, KInv, Idle
  <1>2. Paused(k, b) = States(k)
    BY <1>1 DEF Paused, StateFun
  <1> QED BY <1>2 DEF Off, Settled

(* Queueing one thread leaves another one idle. *)
LEMMA IdleEnqueue ==
  ASSUME NEW k \in KernelData, NEW b \in Block, NEW x \in Block, x # b,
         Idle(k, States(k), x)
  PROVE  Idle(enqueue(k, b), States(enqueue(k, b)), x)
  <1>0. TS_QUEUED \in 0..5
    BY DEF TS_QUEUED
  <1>1. PICK p : p = schedule_push(k, b)
    BY Zenon
  <1>2. OnlySched(k, p) /\ p \in KernelData /\ States(p) = States(k)
    BY <1>1, PushEffect, SameStatesEq DEF OnlySched
  <1>3. Idle(p, States(k), x)
    BY Zenon, <1>2, TablesFrame DEF OnlySched
  <1>4. PICK r : r = [p EXCEPT !.th[b].state = TS_QUEUED]
    BY Zenon
  <1>4a. p \in KernelData
    BY <1>2
  <1>5. r \in KernelData /\ SameQueues(p, r) /\ States(r) = [States(p) EXCEPT ![b] = TS_QUEUED]
    BY <1>0, <1>4, <1>4a, StateEffect, Zenon
  <1>6. Idle(r, States(k), x)
    BY Zenon, <1>2, <1>3, <1>5, TablesFrame DEF SameQueues
  <1>7. States(r)[x] = States(k)[x]
    BY <1>2, <1>5, StatesType DEF StateFun
  <1>8. Idle(r, States(r), x)
    BY <1>6, <1>7 DEF Idle
  <1> QED BY <1>1, <1>4, <1>8 DEF enqueue

-----------------------------------------------------------------------------
(* What changes when the blocked reaper and debugger are other threads, or *)
(* none; everything else stays.                                            *)
OnlyBlocked(k, r) == /\ r \in KernelData /\ r.active = k.active /\ r.th = k.th
                     /\ SameSched(k, r) /\ SameEvents(k, r) /\ SameDead(k, r)
                     /\ SameTable(k, r) /\ SameLatch(k, r)
                     /\ r.fault_head = k.fault_head /\ r.fault_tail = k.fault_tail

(* What setting both ends of the reaper queue changes. *)
LEMMA ReaperEffect ==
  ASSUME NEW k \in KernelData, NEW v \in Ptr
  PROVE  LET r == [k EXCEPT !.reaper_head = v, !.reaper_tail = v]
         IN  /\ OnlyBlocked(k, r) /\ r.reaper_head = v /\ r.reaper_tail = v
             /\ r.debug_head = k.debug_head /\ r.debug_tail = k.debug_tail
  <1> DEFINE r == [k EXCEPT !.reaper_head = v, !.reaper_tail = v]
  <1>1. r \in KernelData
    BY SetPtr, Zenon
  <1>2. /\ r.th = k.th /\ r.active = k.active /\ r.reaper_head = v /\ r.reaper_tail = v
        /\ r.debug_head = k.debug_head /\ r.debug_tail = k.debug_tail
        /\ r.fault_head = k.fault_head /\ r.fault_tail = k.fault_tail
    BY DEF KernelData
  <1>3. SameSched(k, r) /\ SameEvents(k, r) /\ SameDead(k, r) /\ SameTable(k, r) /\ SameLatch(k, r)
    BY <1>2 DEF SameSched, SameEvents, SameDead, SameTable, SameLatch, KernelData
  <1> QED BY <1>1, <1>2, <1>3 DEF OnlyBlocked

(* What setting both ends of the debugger queue changes. *)
LEMMA DebuggerEffect ==
  ASSUME NEW k \in KernelData, NEW v \in Ptr
  PROVE  LET r == [k EXCEPT !.debug_head = v, !.debug_tail = v]
         IN  /\ OnlyBlocked(k, r) /\ r.debug_head = v /\ r.debug_tail = v
             /\ r.reaper_head = k.reaper_head /\ r.reaper_tail = k.reaper_tail
  <1> DEFINE r == [k EXCEPT !.debug_head = v, !.debug_tail = v]
  <1>1. r \in KernelData
    BY SetPtr, Zenon
  <1>2. /\ r.th = k.th /\ r.active = k.active /\ r.debug_head = v /\ r.debug_tail = v
        /\ r.reaper_head = k.reaper_head /\ r.reaper_tail = k.reaper_tail
        /\ r.fault_head = k.fault_head /\ r.fault_tail = k.fault_tail
    BY DEF KernelData
  <1>3. SameSched(k, r) /\ SameEvents(k, r) /\ SameDead(k, r) /\ SameTable(k, r) /\ SameLatch(k, r)
    BY <1>2 DEF SameSched, SameEvents, SameDead, SameTable, SameLatch, KernelData
  <1> QED BY <1>1, <1>2, <1>3 DEF OnlyBlocked

(* An idle thread blocks, or a blocked one becomes idle. *)
LEMMA BlockedSettled ==
  ASSUME NEW k, NEW r, Settled(k), OnlyBlocked(k, r),
         r.reaper_head = r.reaper_tail, r.debug_head = r.debug_tail,
         \/ r.reaper_tail = k.reaper_tail
         \/ r.reaper_tail = NULL
         \/ Idle(k, States(k), r.reaper_tail) /\ k.dead_tail = NULL,
         \/ r.debug_tail = k.debug_tail
         \/ r.debug_tail = NULL
         \/ Idle(k, States(k), r.debug_tail),
         r.reaper_tail = NULL \/ r.reaper_tail # r.debug_tail
  PROVE  Settled(r)
  <1> DEFINE s == States(k)
  <1>0. k \in KernelData /\ States(r) = s
    BY DEF Settled, KInv, OnlyBlocked, States
  <1>1. OnHeap(r) = OnHeap(k)
    BY DEF OnlyBlocked, SameTable, OnHeap
  <1>2. NextDeads(r) = NextDeads(k) /\ Dead(r) = Dead(k)
    BY Zenon, DeadSame DEF OnlyBlocked
  <1>3. BlockedInv(r, s)
    BY Zenon, <1>1 DEF BlockedInv, OnlyBlocked, SameDead, Settled, KInv, Idle
  <1>4. DeadInv(r, s)
    BY <1>1, <1>2 DEF DeadInv, OnlyBlocked, SameDead, Settled, KInv
  <1>5. TableInv(r, s)
    <2>1. TableInv(k, s) /\ r.table = k.table /\ r.heap = k.heap /\ r.th = k.th
      BY DEF OnlyBlocked, SameTable, Settled, KInv
    <2>2. ASSUME NEW b \in Block,
                 \/ s[b] \in {TS_RUNNING, TS_QUEUED, TS_WAITING}
                 \/ b \in {r.reaper_tail, r.debug_tail} \cup Dead(r)
          PROVE  r.table[r.th[b].id] = b
      <3>1. CASE \/ s[b] \in {TS_RUNNING, TS_QUEUED, TS_WAITING}
                 \/ b \in {k.reaper_tail, k.debug_tail} \cup Dead(k)
        BY <2>1, <3>1 DEF TableInv
      <3>2. CASE Idle(k, s, b)
        BY <2>1, <3>2 DEF Idle
      <3> QED BY <1>2, <2>2, <3>1, <3>2, NullIsNoBlock
    <2> QED BY <1>1, <2>1, <2>2 DEF TableInv
  <1>6. SchedInv(r, s) /\ EventInv(r, s)
    BY SchedFrame, EventFrame DEF OnlyBlocked, Settled, KInv
  <1>7. RunInv(r, s) /\ LatchInv(r)
    BY DEF RunInv, LatchInv, OnlyBlocked, SameLatch, Settled, KInv
  <1> QED BY <1>0, <1>3, <1>4, <1>5, <1>6, <1>7 DEF Settled, KInv, OnlyBlocked

(* The thread that was blocked is idle once the queue forgets it. *)
LEMMA UnblockOff ==
  ASSUME NEW k, NEW q, NEW b, Settled(k), Settled(q), OnlyBlocked(k, q), b # NULL,
         b \in {k.reaper_tail, k.debug_tail}, b # q.reaper_tail, b # q.debug_tail
  PROVE  Off(q, b)
  <1>0. k \in KernelData /\ States(q) = States(k)
    BY DEF Settled, KInv, OnlyBlocked, States
  <1>1. OnHeap(q) = OnHeap(k)
    BY DEF OnlyBlocked, SameTable, OnHeap
  <1>2. Dead(q) = Dead(k)
    BY DeadSame DEF OnlyBlocked
  <1>3. b \in Block
    BY <1>0, Types, PtrCase
  <1>4. States(k)[b] = TS_PAUSED /\ ~k.th[b].dead /\ b \notin OnHeap(k)
    BY DEF Settled, KInv, BlockedInv
  <1>5. b \notin Dead(k)
    BY <1>4 DEF Settled, KInv, DeadInv
  <1>6. k.table[k.th[b].id] = b
    BY <1>3 DEF Settled, KInv, TableInv
  <1>7. Idle(q, States(q), b)
    BY <1>0, <1>1, <1>2, <1>3, <1>4, <1>5, <1>6 DEF Idle, OnlyBlocked, SameTable
  <1> QED BY <1>7, IdleOff

(* Waking a thread that is off all queues with a result preserves the      *)
(* invariant.                                                              *)
LEMMA NotifyOff ==
  ASSUME NEW k, NEW b, NEW v \in Int, Off(k, b)
  PROVE  Settled(notify(k, b, v)) /\ notify(k, b, v).active = k.active
  <1>0. k \in KernelData /\ b \in Block
    BY DEF Off, KInv, Idle
  <1>1. PICK p : p = ret(k, b, v)
    BY Zenon
  <1>2. Off(p, b) /\ p.active = k.active
    BY <1>0, <1>1, RetKeeps
  <1>3. Settled(enqueue(p, b)) /\ enqueue(p, b).active = k.active
    BY <1>2, EnqueueOff
  <1> QED BY <1>1, <1>3 DEF notify, ret

(* Waking one thread leaves another idle thread idle. *)
LEMMA NotifyIdle ==
  ASSUME NEW k \in KernelData, NEW b \in Block, NEW v \in Int, NEW x \in Block, x # b,
         Idle(k, States(k), x)
  PROVE  Idle(notify(k, b, v), States(notify(k, b, v)), x)
  <1>1. PICK p : p = ret(k, b, v)
    BY Zenon
  <1>2. p \in KernelData /\ SameQueues(k, p) /\ States(p) = States(k)
    BY <1>1, RetKeeps, SameStatesEq
  <1>3. Idle(p, States(p), x)
    BY <1>2, TablesFrame DEF SameQueues
  <1>4. Idle(enqueue(p, b), States(enqueue(p, b)), x)
    BY <1>2, <1>3, IdleEnqueue
  <1> QED BY <1>1, <1>4 DEF notify, ret

-----------------------------------------------------------------------------
(* getfault by the only debugger: it is paused and remembered. *)
LEMMA GetfaultSettled ==
  ASSUME NEW k, Settled(k), k.active \in Block, k.debug_tail = NULL
  PROVE  Settled(kcall_getfault(k, k.active))
  <1> DEFINE a == k.active
  <1>0. k.fault_tail = NULL /\ k.debug_head = NULL
    BY DEF Settled, KInv, BlockedInv
  <1>1. PICK p : p = suspend(k, a)
    BY Zenon
  <1>2. Settled(p) /\ Idle(p, States(p), a) /\ SameQueues(k, p) /\ p \in KernelData
    BY Zenon, <1>1, SuspendSettled DEF Settled, KInv
  <1>3. p.fault_tail = NULL /\ p.debug_head = NULL
    BY <1>0, <1>2 DEF SameQueues, SameBlocked
  <1>4. PICK r : r = [p EXCEPT !.debug_head = a, !.debug_tail = a]
    BY Zenon
  <1>5. a \in Ptr
    BY DEF Ptr
  <1>6. /\ OnlyBlocked(p, r) /\ r.debug_head = a /\ r.debug_tail = a
        /\ r.reaper_head = p.reaper_head /\ r.reaper_tail = p.reaper_tail
    BY Zenon, <1>2, <1>4, <1>5, DebuggerEffect
  <1>7. p.reaper_head = p.reaper_tail /\ p.reaper_tail # a
    BY <1>2 DEF Settled, KInv, BlockedInv, Idle
  <1>8. Settled(r)
    BY Zenon, <1>2, <1>6, <1>7, BlockedSettled
  <1> QED BY <1>0, <1>1, <1>3, <1>4, <1>8 DEF kcall_getfault, fault_peek, fault_wait

(* A page fault while a debugger is blocked: the thread pauses, the        *)
(* debugger is queued with its id.                                         *)
LEMMA PageFaultSettled ==
  ASSUME NEW k, Settled(k), k.active \in Block, k.debug_tail # NULL
  PROVE  Settled(fault_page(k, k.active, 1))
  <1> DEFINE a == k.active
             d == k.debug_tail
  <1>1. PICK p : p = suspend(k, a)
    BY Zenon
  <1>2. Settled(p) /\ SameQueues(k, p) /\ p \in KernelData
    BY <1>1, SuspendSettled DEF Settled, KInv
  <1>3. p.debug_tail = d /\ p.th[d].next_fault = NULL /\ p.th[a].id \in Int
    <2>1. p.debug_tail = d
      BY <1>2 DEF SameQueues, SameBlocked
    <2>2. d \in Block
      BY <1>2, <2>1, Types, PtrCase
    <2>3. p.th[d].next_fault = NULL
      BY <1>2, <2>2 DEF Settled, KInv, BlockedInv
    <2>4. p.th[a].id \in Int
      BY <1>2, Types DEF Tid
    <2> QED BY <2>1, <2>3, <2>4
  <1>4. PICK q : q = [p EXCEPT !.debug_head = NULL, !.debug_tail = NULL]
    BY Zenon
  <1>5. NULL \in Ptr
    BY DEF Ptr
  <1>6. /\ OnlyBlocked(p, q) /\ q.debug_head = NULL /\ q.debug_tail = NULL
        /\ q.reaper_head = p.reaper_head /\ q.reaper_tail = p.reaper_tail
    BY Zenon, <1>2, <1>4, <1>5, DebuggerEffect
  <1>7. p.reaper_head = p.reaper_tail /\ p.reaper_tail # d
    BY <1>2, <1>3 DEF Settled, KInv, BlockedInv
  <1>8. Settled(q)
    BY <1>2, <1>6, <1>7, BlockedSettled
  <1>9. Off(q, d)
    BY <1>2, <1>3, <1>6, <1>7, <1>8, UnblockOff
  <1>10. Settled(notify(q, d, p.th[a].id))
    BY <1>3, <1>9, NotifyOff
  <1>11. fault_push(p, a) = notify(q, d, p.th[a].id)
    BY <1>3, <1>4 DEF fault_push
  <1> QED BY <1>1, <1>10, <1>11 DEF fault_page

-----------------------------------------------------------------------------
(* What changes when only the dead queue does. *)
OnlyDead(k, r) == /\ r \in KernelData /\ r.active = k.active
                  /\ SameSched(k, r) /\ SameEvents(k, r) /\ SameBlocked(k, r)
                  /\ SameTable(k, r) /\ SameLatch(k, r) /\ SameStates(k, r)

(* The dead queue may change as long as its members are dead, paused,      *)
(* allocated threads that nobody is blocked as.                            *)
LEMMA DeadSettled ==
  ASSUME NEW k, NEW r, Settled(k), OnlyDead(k, r), DeadInv(r, States(k)),
         \A b \in Dead(r) : b \in Block /\ k.table[k.th[b].id] = b,
         k.reaper_tail # NULL => r.dead_tail = NULL /\ ~r.th[k.reaper_tail].dead,
         k.debug_tail # NULL => ~r.th[k.debug_tail].dead
  PROVE  Settled(r)
  <1> DEFINE s == States(k)
  <1>0. k \in KernelData /\ States(r) = s
    BY SameStatesEq DEF Settled, KInv, OnlyDead
  <1>1. OnHeap(r) = OnHeap(k)
    BY DEF OnlyDead, SameTable, OnHeap
  <1>2. BlockedInv(r, s)
    BY <1>1 DEF BlockedInv, OnlyDead, SameBlocked, Settled, KInv
  <1>3. TableInv(r, s)
    <2>0. \A i \in Tid : k.table[i] # NULL => k.table[i] \in Block
      BY <1>0, Types, PtrCase
    <2>1. /\ TableInv(k, s) /\ r.table = k.table /\ r.heap = k.heap
          /\ \A b \in Block : r.th[b].id = k.th[b].id
          /\ r.reaper_tail = k.reaper_tail /\ r.debug_tail = k.debug_tail
      BY DEF OnlyDead, SameTable, SameBlocked, Settled, KInv
    <2>2. ASSUME NEW b \in Block,
                 \/ s[b] \in {TS_RUNNING, TS_QUEUED, TS_WAITING}
                 \/ b \in {r.reaper_tail, r.debug_tail} \cup Dead(r)
          PROVE  r.table[r.th[b].id] = b
      <3>1. CASE b \in Dead(r)
        BY <2>1, <3>1
      <3>2. CASE b \notin Dead(r)
        BY Zenon, <2>1, <2>2, <3>2 DEF TableInv
      <3> QED BY <3>1, <3>2
    <2>3. OnHeap(r) = OnHeap(k)
      BY Zenon, <2>1 DEF OnHeap
    <2>4. ASSUME NEW i \in Tid, r.table[i] # NULL
          PROVE  r.th[r.table[i]].id = i /\ r.table[i] \notin OnHeap(r)
      <3>1. k.table[i] \in Block /\ k.th[k.table[i]].id = i /\ k.table[i] \notin OnHeap(k)
        BY Zenon, <2>0, <2>1, <2>4 DEF TableInv
      <3> QED BY Zenon, <2>1, <2>3, <3>1
    <2>5. /\ \A i, j \in DOMAIN r.heap : r.heap[i] = r.heap[j] => i = j
          /\ \A b \in OnHeap(r) : s[b] \in {TS_FREE, TS_PAUSED}
      BY Zenon, <2>1, <2>3 DEF TableInv
    <2> QED BY Zenon, <2>2, <2>4, <2>5 DEF TableInv
  <1>4. SchedInv(r, s) /\ EventInv(r, s)
    BY SchedFrame, EventFrame DEF OnlyDead, Settled, KInv
  <1>5. RunInv(r, s) /\ LatchInv(r)
    BY DEF RunInv, LatchInv, OnlyDead, SameLatch, Settled, KInv
  <1> QED BY <1>0, <1>2, <1>3, <1>4, <1>5 DEF Settled, KInv, OnlyDead

(* dead_pull: the oldest death leaves the queue. *)
LEMMA PullSettled ==
  ASSUME NEW k, Settled(k), k.dead_tail # NULL
  PROVE  Settled(dead_pull(k).k) /\ dead_pull(k).ret = k.dead_tail
  <1> DEFINE d == k.dead_tail
             n == k.th[d].next_dead
             t == IF n = NULL THEN NULL ELSE k.dead_head
             r == [k EXCEPT !.dead_tail = n, !.dead_head = t]
             Q == Dead(k)
             l == NextDeads(k)
  <1>0. k \in KernelData /\ d \in Block
    BY Types, PtrCase DEF Settled, KInv
  <1>1. dead_pull(k) = [ret |-> d, k |-> r]
    BY <1>0 DEF dead_pull, KernelData
  <1>2. n \in Ptr /\ t \in Ptr
    BY <1>0, Types DEF Ptr
  <1> HIDE DEF t, n
  <1>3. r \in KernelData
    BY <1>0, <1>2, SetPtr, Zenon
  <1>4. r.th = k.th /\ r.active = k.active /\ r.dead_tail = n /\ r.dead_head = t
    BY <1>0 DEF KernelData
  <1>5. OnlyDead(k, r)
    <2>1. /\ SameSched(k, r) /\ SameEvents(k, r) /\ SameBlocked(k, r) /\ SameTable(k, r)
          /\ SameLatch(k, r) /\ SameStates(k, r)
      BY <1>0, <1>4 DEF SameSched, SameEvents, SameBlocked, SameTable, SameLatch, SameStates, KernelData
    <2> QED BY <1>3, <1>4, <2>1 DEF OnlyDead
  <1> HIDE DEF r
  <1>6. NextDeads(r) = l /\ n = l[d] /\ OnHeap(r) = OnHeap(k)
    BY <1>0, <1>4, <1>5 DEF NextDeads, n, OnHeap, OnlyDead, SameTable
  <1>7. Q \in SUBSET Block /\ ListInv(l, d, k.dead_head, Q)
    BY DEF Settled, KInv, DeadInv, Dead, Walked
  <1>8. DeadInv(k, States(k)) /\ TableInv(k, States(k)) /\ BlockedInv(k, States(k))
    BY DEF Settled, KInv
  <1> HIDE DEF Q, l
  <1>9. ListInv(l, l[d], IF l[d] = NULL THEN NULL ELSE k.dead_head, Q \ {d})
    BY <1>0, <1>7, NullIsNoBlock, ListPop
  <1>10. ListInv(NextDeads(r), r.dead_tail, r.dead_head, Q \ {d})
    BY <1>4, <1>6, <1>9 DEF t
  <1>11. Dead(r) = Q \ {d}
    <2>1. Q \ {d} \in SUBSET Block
      BY <1>7
    <2> QED BY <1>10, <2>1, ListMembers DEF Dead
  <1>12. DeadInv(r, States(k))
    BY <1>4, <1>6, <1>8, <1>10, <1>11 DEF DeadInv, Q
  <1>13. \A b \in Dead(r) : b \in Block /\ k.table[k.th[b].id] = b
    BY <1>7, <1>8, <1>11 DEF TableInv, Q
  <1>14. Settled(r)
    BY <1>4, <1>5, <1>8, <1>12, <1>13, DeadSettled DEF BlockedInv
  <1> QED BY <1>1, <1>14

(* getdead by the only reaper: the oldest death, or it is paused and       *)
(* remembered.                                                             *)
LEMMA GetdeadSettled ==
  ASSUME NEW k, Settled(k), k.active \in Block, k.reaper_tail = NULL
  PROVE  Settled(kcall_getdead(k, k.active))
  <1> DEFINE a == k.active
  <1>0. k \in KernelData
    BY DEF Settled, KInv
  <1>1. CASE k.dead_tail # NULL
    <2>1. PICK q : q = dead_pull(k).k
      BY Zenon
    <2>2. Settled(q) /\ dead_pull(k).ret = k.dead_tail /\ q \in KernelData
      BY <1>1, <2>1, PullSettled DEF Settled, KInv
    <2>3. k.th[k.dead_tail].id \in Int
      BY <1>0, <1>1, Types, PtrCase DEF Tid
    <2>4. Settled(ret(q, a, k.th[k.dead_tail].id))
      BY <2>2, <2>3, RetKeeps
    <2> QED BY <1>1, <2>1, <2>2, <2>4 DEF kcall_getdead, dead_peek
  <1>2. CASE k.dead_tail = NULL
    <2>1. PICK p : p = suspend(k, a)
      BY Zenon
    <2>2. Settled(p) /\ Idle(p, States(p), a) /\ SameQueues(k, p) /\ p \in KernelData
      BY Zenon, <2>1, SuspendSettled DEF Settled, KInv
    <2>3. p.dead_tail = NULL /\ p.reaper_tail = NULL /\ p.reaper_head = NULL
      BY <1>2, <2>2 DEF SameQueues, SameBlocked, SameDead, Settled, KInv, BlockedInv
    <2>4. PICK r : r = [p EXCEPT !.reaper_head = a, !.reaper_tail = a]
      BY Zenon
    <2>5. a \in Ptr
      BY DEF Ptr
    <2>6. /\ OnlyBlocked(p, r) /\ r.reaper_head = a /\ r.reaper_tail = a
          /\ r.debug_head = p.debug_head /\ r.debug_tail = p.debug_tail
      BY Zenon, <2>2, <2>4, <2>5, ReaperEffect
    <2>7. p.debug_head = p.debug_tail /\ p.debug_tail # a
      BY <2>2 DEF Settled, KInv, BlockedInv, Idle
    <2>8. Settled(r)
      BY <2>2, <2>3, <2>6, <2>7, BlockedSettled
    <2> QED BY <1>2, <2>1, <2>3, <2>4, <2>8 DEF kcall_getdead, dead_peek, dead_wait
  <1> QED BY <1>1, <1>2

-----------------------------------------------------------------------------
(* TF_DEAD of the thread b is v, and nothing else changes. *)
Marked(k, b, v, r) ==
  /\ OnlyDead(k, r) /\ r.dead_head = k.dead_head /\ r.dead_tail = k.dead_tail
  /\ \A x \in Block : r.th[x].next_dead = k.th[x].next_dead
  /\ \A x \in Block : r.th[x].dead = IF x = b THEN v ELSE k.th[x].dead

(* TF_DEAD is written. *)
LEMMA MarkEffect ==
  ASSUME NEW k \in KernelData, NEW b \in Block, NEW v \in BOOLEAN
  PROVE  Marked(k, b, v, [k EXCEPT !.th[b].dead = v])
  <1> DEFINE r == [k EXCEPT !.th[b].dead = v]
  <1>1. r \in KernelData
    BY SetData, Zenon
  <1>2. SameSched(k, r)
    BY DEF SameSched, KernelData, ThreadStruct
  <1>3. SameEvents(k, r)
    BY DEF SameEvents, KernelData, ThreadStruct
  <1>4. SameBlocked(k, r)
    BY DEF SameBlocked, KernelData, ThreadStruct
  <1>5. SameTable(k, r)
    BY DEF SameTable, KernelData, ThreadStruct
  <1>6. SameLatch(k, r) /\ r.active = k.active /\ r.dead_head = k.dead_head /\ r.dead_tail = k.dead_tail
    BY DEF SameLatch, KernelData
  <1>7. SameStates(k, r)
    BY DEF SameStates, KernelData, ThreadStruct
  <1>8. \A x \in Block : r.th[x].next_dead = k.th[x].next_dead
    BY DEF KernelData, ThreadStruct
  <1>9. \A x \in Block : r.th[x].dead = IF x = b THEN v ELSE k.th[x].dead
    BY DEF KernelData, ThreadStruct
  <1> HIDE DEF r
  <1>10. OnlyDead(k, r)
    BY Zenon, <1>1, <1>2, <1>3, <1>4, <1>5, <1>6, <1>7 DEF OnlyDead
  <1>11. Marked(k, b, v, r)
    BY Zenon, <1>6, <1>8, <1>9, <1>10 DEF Marked
  <1> QED BY Zenon, <1>11 DEF r

(* dead_push while no reaper is blocked: the links of the dead queue. *)
LEMMA DeadPushEffect ==
  ASSUME NEW k \in KernelData, NEW b \in Block, k.reaper_tail = NULL, k.th[b].next_dead = NULL
  PROVE  LET r == dead_push(k, b)
         IN  /\ OnlyDead(k, r) /\ r.dead_head = b
             /\ r.dead_tail = IF k.dead_head = NULL THEN b ELSE k.dead_tail
             /\ \A x \in Block : r.th[x].dead = k.th[x].dead
             /\ \A x \in Block : r.th[x].next_dead =
                                     IF x = b THEN NULL ELSE
                                     IF x = k.dead_head THEN b ELSE k.th[x].next_dead
  <1>1. CASE k.dead_head = NULL
    <2> DEFINE r == [k EXCEPT !.dead_head = b, !.dead_tail = b]
    <2>1. dead_push(k, b) = r
      BY <1>1 DEF dead_push
    <2>2. r \in KernelData
      BY SetPtr, Zenon DEF Ptr
    <2>3. r.th = k.th /\ r.active = k.active /\ r.dead_head = b /\ r.dead_tail = b
      BY DEF KernelData
    <2>4. /\ SameSched(k, r) /\ SameEvents(k, r) /\ SameBlocked(k, r) /\ SameTable(k, r)
          /\ SameLatch(k, r) /\ SameStates(k, r)
      BY <2>3 DEF SameSched, SameEvents, SameBlocked, SameTable, SameLatch, SameStates, KernelData
    <2> HIDE DEF r
    <2> QED BY <1>1, <2>1, <2>2, <2>3, <2>4, NullIsNoBlock DEF OnlyDead
  <1>2. CASE k.dead_head \in Block /\ k.dead_head # NULL
    <2> DEFINE h == k.dead_head
               r == [[k EXCEPT !.th[h].next_dead = b] EXCEPT !.th[b].next_dead = NULL, !.dead_head = b]
    <2>1. dead_push(k, b) = r
      BY <1>2 DEF dead_push
    <2>2. r \in KernelData
      BY <1>2, SetLink, SetPtr, Zenon DEF Ptr
    <2>3. SameSched(k, r)
      BY <1>2 DEF SameSched, KernelData, ThreadStruct
    <2>4. SameEvents(k, r)
      BY <1>2 DEF SameEvents, KernelData, ThreadStruct
    <2>5. SameBlocked(k, r)
      BY <1>2 DEF SameBlocked, KernelData, ThreadStruct
    <2>6. SameTable(k, r)
      BY <1>2 DEF SameTable, KernelData, ThreadStruct
    <2>7. SameLatch(k, r) /\ r.active = k.active /\ r.dead_head = b /\ r.dead_tail = k.dead_tail
      BY <1>2 DEF SameLatch, KernelData
    <2>8. SameStates(k, r)
      BY <1>2 DEF SameStates, KernelData, ThreadStruct
    <2>9. \A x \in Block : r.th[x].dead = k.th[x].dead
      BY <1>2 DEF KernelData, ThreadStruct
    <2>10. \A x \in Block : r.th[x].next_dead = IF x = b THEN NULL ELSE
                                                IF x = h THEN b ELSE k.th[x].next_dead
      BY <1>2 DEF KernelData, ThreadStruct
    <2> HIDE DEF r
    <2>11. OnlyDead(k, r)
      BY <2>2, <2>3, <2>4, <2>5, <2>6, <2>7, <2>8 DEF OnlyDead
    <2> QED BY <1>2, <2>1, <2>7, <2>9, <2>10, <2>11
  <1> QED BY <1>1, <1>2, Types, PtrCase

(* A death that no reaper waits for: an idle thread joins the dead queue   *)
(* and its flag is set.                                                    *)
LEMMA DeathQueued ==
  ASSUME NEW k, NEW b, Settled(k), Idle(k, States(k), b), k.reaper_tail = NULL
  PROVE  Settled([dead_push(k, b) EXCEPT !.th[b].dead = TRUE])
  <1> DEFINE Q == Dead(k)
             s == States(k)
  <1>0. k \in KernelData /\ b \in Block /\ TRUE \in BOOLEAN
    BY DEF Settled, KInv, Idle
  <1>1. k.th[b].next_dead = NULL
    BY DEF Settled, KInv, DeadInv, Idle
  <1>2. PICK q : q = dead_push(k, b)
    BY Zenon
  <1>3. /\ OnlyDead(k, q) /\ q.dead_head = b
        /\ q.dead_tail = IF k.dead_head = NULL THEN b ELSE k.dead_tail
        /\ \A x \in Block : q.th[x].dead = k.th[x].dead
        /\ \A x \in Block : q.th[x].next_dead =
                                IF x = b THEN NULL ELSE
                                IF x = k.dead_head THEN b ELSE k.th[x].next_dead
    BY <1>0, <1>1, <1>2, DeadPushEffect
  <1>4. PICK r : r = [q EXCEPT !.th[b].dead = TRUE]
    BY Zenon
  <1>5. q \in KernelData
    BY <1>3 DEF OnlyDead
  <1>6. /\ OnlyDead(q, r) /\ r.dead_head = q.dead_head /\ r.dead_tail = q.dead_tail
        /\ \A x \in Block : r.th[x].next_dead = q.th[x].next_dead
        /\ \A x \in Block : r.th[x].dead = IF x = b THEN TRUE ELSE q.th[x].dead
    <2>1. Marked(q, b, TRUE, r)
      BY Zenon, <1>0, <1>4, <1>5, MarkEffect
    <2> QED BY Zenon, <2>1 DEF Marked
  <1>7. OnlyDead(k, r)
    <2>1. SameSched(k, r) /\ SameEvents(k, r)
      BY <1>3, <1>6 DEF OnlyDead, SameSched, SameEvents
    <2>2. SameBlocked(k, r) /\ SameTable(k, r)
      BY <1>3, <1>6 DEF OnlyDead, SameBlocked, SameTable
    <2>3. SameLatch(k, r) /\ SameStates(k, r)
      BY Zenon, <1>3, <1>6 DEF OnlyDead, SameLatch, SameStates
    <2> QED BY Zenon, <1>3, <1>6, <2>1, <2>2, <2>3 DEF OnlyDead
  <1>8. Q \in SUBSET Block /\ ListInv(NextDeads(k), k.dead_tail, k.dead_head, Q) /\ b \in Block \ Q
    BY Zenon, <1>0 DEF Settled, KInv, DeadInv, Dead, Walked, Idle
  <1>9. /\ NextDeads(r)[b] = NULL
        /\ \A x \in Q : NextDeads(r)[x] = IF x = k.dead_head THEN b ELSE NextDeads(k)[x]
    BY <1>0, <1>3, <1>6, <1>8 DEF NextDeads
  <1>10. DeadInv(k, s) /\ TableInv(k, s) /\ BlockedInv(k, s) /\ OnHeap(r) = OnHeap(k)
    BY <1>7 DEF Settled, KInv, OnHeap, OnlyDead, SameTable
  <1> HIDE DEF Q
  <1>11. ListInv(NextDeads(r), IF k.dead_head = NULL THEN b ELSE k.dead_tail, b, Q \cup {b})
    BY <1>8, <1>9, NullIsNoBlock, ListAppend
  <1>12. ListInv(NextDeads(r), r.dead_tail, r.dead_head, Q \cup {b})
    BY <1>3, <1>6, <1>11
  <1>13. Dead(r) = Q \cup {b}
    <2>1. Q \cup {b} \in SUBSET Block
      BY <1>8
    <2> QED BY <1>12, <2>1, ListMembers DEF Dead
  <1>14. \A x \in Block : (r.th[x].dead <=> (x = b \/ k.th[x].dead))
    BY Zenon, <1>3, <1>6
  <1>15. DeadInv(r, s)
    <2>1. ASSUME NEW x \in Block
          PROVE  IF r.th[x].dead THEN s[x] = TS_PAUSED ELSE r.th[x].next_dead = NULL
      <3>1. x # b /\ ~k.th[x].dead => x # k.dead_head
        <4>1. k.dead_head = NULL \/ k.dead_head \in Q
          BY <1>8 DEF ListInv
        <4>2. k.dead_head \in Q => k.th[k.dead_head].dead
          BY <1>10 DEF DeadInv, Q
        <4> QED BY <4>1, <4>2, NullIsNoBlock
      <3>2. r.th[x].next_dead = IF x = b THEN NULL ELSE
                                IF x = k.dead_head THEN b ELSE k.th[x].next_dead
        BY <1>3, <1>6
      <3>3. s[b] = TS_PAUSED
        BY DEF Idle
      <3> QED BY <1>10, <1>14, <3>1, <3>2, <3>3 DEF DeadInv
    <2>2. ASSUME NEW x \in Dead(r)
          PROVE  s[x] = TS_PAUSED /\ r.th[x].dead /\ x \notin OnHeap(r)
      <3>1. CASE x = b
        BY Zenon, <1>0, <1>10, <1>14, <3>1 DEF Idle
      <3>2. CASE x \in Q
        BY Zenon, <1>8, <1>10, <1>14, <3>2 DEF DeadInv, Q
      <3> QED BY <1>13, <2>2, <3>1, <3>2
    <2> QED BY Zenon, <1>12, <1>13, <2>1, <2>2 DEF DeadInv
  <1>16. \A x \in Dead(r) : x \in Block /\ k.table[k.th[x].id] = x
    BY Zenon, <1>0, <1>8, <1>10, <1>13 DEF TableInv, Idle, Q
  <1>17. k.debug_tail # NULL => ~r.th[k.debug_tail].dead
    <2>1. k.debug_tail # NULL => k.debug_tail \in Block
      BY <1>0, Types, PtrCase
    <2> QED BY <1>10, <1>14, <2>1 DEF BlockedInv, Idle
  <1>18. Settled(r)
    BY <1>7, <1>15, <1>16, <1>17, DeadSettled
  <1> QED BY <1>2, <1>4, <1>18

(* The flag of an idle thread is set, and nobody queues it. *)
LEMMA MarkSettled ==
  ASSUME NEW k, NEW b, Settled(k), Idle(k, States(k), b)
  PROVE  Settled([k EXCEPT !.th[b].dead = TRUE])
  <1> DEFINE s == States(k)
  <1>0. k \in KernelData /\ b \in Block /\ TRUE \in BOOLEAN
    BY DEF Settled, KInv, Idle
  <1>1. PICK r : r = [k EXCEPT !.th[b].dead = TRUE]
    BY Zenon
  <1>2. /\ OnlyDead(k, r) /\ r.dead_head = k.dead_head /\ r.dead_tail = k.dead_tail
        /\ \A x \in Block : r.th[x].next_dead = k.th[x].next_dead
        /\ \A x \in Block : r.th[x].dead = IF x = b THEN TRUE ELSE k.th[x].dead
    <2>1. Marked(k, b, TRUE, r)
      BY Zenon, <1>0, <1>1, MarkEffect
    <2> QED BY Zenon, <2>1 DEF Marked
  <1>3. \A x \in Block : (r.th[x].dead <=> (x = b \/ k.th[x].dead))
    BY Zenon, <1>2
  <1>4. NextDeads(r) = NextDeads(k) /\ OnHeap(r) = OnHeap(k)
    BY Zenon, <1>2 DEF NextDeads, OnHeap, OnlyDead, SameTable
  <1>5. Dead(r) = Dead(k) /\ Dead(k) \subseteq Block
    BY <1>2, <1>4 DEF Dead, Walked
  <1>6. DeadInv(k, s) /\ TableInv(k, s) /\ BlockedInv(k, s)
    BY Zenon DEF Settled, KInv
  <1>7. DeadInv(r, s)
    <2>1. s[b] = TS_PAUSED
      BY Zenon DEF Idle
    <2> QED BY Zenon, <1>2, <1>3, <1>4, <1>5, <1>6, <2>1 DEF DeadInv
  <1>8. \A x \in Dead(r) : x \in Block /\ k.table[k.th[x].id] = x
    BY Zenon, <1>5, <1>6 DEF TableInv
  <1>9. /\ k.debug_tail # NULL => ~r.th[k.debug_tail].dead
        /\ k.reaper_tail # NULL => r.dead_tail = NULL /\ ~r.th[k.reaper_tail].dead
    <2>1. /\ k.debug_tail # NULL => k.debug_tail \in Block
          /\ k.reaper_tail # NULL => k.reaper_tail \in Block
      BY Zenon, <1>0, Types, PtrCase
    <2> QED BY Zenon, <1>2, <1>3, <1>6, <2>1 DEF BlockedInv, Idle
  <1>10. Settled(r)
    BY <1>2, <1>7, <1>8, <1>9, DeadSettled
  <1> QED BY <1>1, <1>10

(* A death that a reaper waits for: it is queued with the dead thread's id. *)
LEMMA DeathHandedOut ==
  ASSUME NEW k, NEW b, Settled(k), Idle(k, States(k), b), k.reaper_tail # NULL
  PROVE  Settled([dead_push(k, b) EXCEPT !.th[b].dead = TRUE])
  <1> DEFINE w == k.reaper_tail
  <1>0. k \in KernelData /\ b \in Block /\ w \in Block /\ w # b
    BY Zenon, Types, PtrCase DEF Settled, KInv, Idle
  <1>1. k.th[w].next_dead = NULL /\ k.th[b].id \in Int
    <2>1. k.th[w].next_dead = NULL
      BY Zenon, <1>0 DEF Settled, KInv, DeadInv, BlockedInv
    <2>2. k.th[b].id \in Tid
      BY Zenon, <1>0, Types
    <2>3. k.th[b].id \in Int
      BY <2>2 DEF Tid
    <2> QED BY Zenon, <2>1, <2>3
  <1>2. PICK q : q = [k EXCEPT !.reaper_head = NULL, !.reaper_tail = NULL]
    BY Zenon
  <1>3. NULL \in Ptr
    BY DEF Ptr
  <1>4. /\ OnlyBlocked(k, q) /\ q.reaper_head = NULL /\ q.reaper_tail = NULL
        /\ q.debug_head = k.debug_head /\ q.debug_tail = k.debug_tail
    BY Zenon, <1>0, <1>2, <1>3, ReaperEffect
  <1>5. k.debug_head = k.debug_tail /\ k.debug_tail # w
    BY DEF Settled, KInv, BlockedInv
  <1>6. Settled(q)
    BY <1>4, <1>5, BlockedSettled
  <1>7. Off(q, w) /\ q \in KernelData
    BY Zenon, <1>4, <1>5, <1>6, UnblockOff DEF Settled, KInv
  <1>8. Idle(q, States(q), b)
    <2>1. OnHeap(q) = OnHeap(k) /\ States(q) = States(k) /\ Dead(q) = Dead(k)
      BY <1>4, DeadSame DEF OnlyBlocked, SameTable, OnHeap, States
    <2> QED BY <1>0, <1>4, <2>1, NullIsNoBlock DEF Idle, OnlyBlocked, SameTable
  <1>9. PICK p : p = notify(q, w, k.th[b].id)
    BY Zenon
  <1>10. Settled(p) /\ Idle(p, States(p), b)
    BY <1>0, <1>1, <1>7, <1>8, <1>9, NotifyOff, NotifyIdle
  <1>11. dead_push(k, b) = p
    BY <1>0, <1>1, <1>2, <1>9 DEF dead_push
  <1> QED BY Zenon, <1>10, <1>11, MarkSettled

(* setstate on a thread that is idle or runs. *)
LEMMA DieSettled ==
  ASSUME NEW k, NEW b, Settled(k), Idle(k, States(k), b)
  PROVE  Settled([dead_push(k, b) EXCEPT !.th[b].dead = TRUE])
  BY Zenon, DeathHandedOut, DeathQueued

(* setstate without TF_DEAD on a live thread preserves the invariant. *)
LEMMA RewriteSettled ==
  ASSUME NEW k, NEW b \in Block, Settled(k), ~k.th[b].dead
  PROVE  Settled([k EXCEPT !.th[b].dead = FALSE])
  <1> DEFINE s == States(k)
  <1>0. k \in KernelData /\ FALSE \in BOOLEAN
    BY DEF Settled, KInv
  <1>1. PICK r : r = [k EXCEPT !.th[b].dead = FALSE]
    BY Zenon
  <1>2. /\ OnlyDead(k, r) /\ r.dead_head = k.dead_head /\ r.dead_tail = k.dead_tail
        /\ \A x \in Block : r.th[x].next_dead = k.th[x].next_dead
        /\ \A x \in Block : r.th[x].dead = IF x = b THEN FALSE ELSE k.th[x].dead
    <2>1. Marked(k, b, FALSE, r)
      BY Zenon, <1>0, <1>1, MarkEffect
    <2> QED BY Zenon, <2>1 DEF Marked
  <1>3. \A x \in Block : (r.th[x].dead <=> k.th[x].dead)
    BY Zenon, <1>2
  <1>4. NextDeads(r) = NextDeads(k) /\ OnHeap(r) = OnHeap(k)
    BY <1>2 DEF NextDeads, OnHeap, OnlyDead, SameTable
  <1>5. Dead(r) = Dead(k) /\ Dead(k) \subseteq Block
    BY <1>2, <1>4 DEF Dead, Walked
  <1>6. DeadInv(k, s) /\ TableInv(k, s) /\ BlockedInv(k, s)
    BY DEF Settled, KInv
  <1>7. DeadInv(r, s)
    BY Zenon, <1>2, <1>3, <1>4, <1>5, <1>6 DEF DeadInv
  <1>8. \A x \in Dead(r) : x \in Block /\ k.table[k.th[x].id] = x
    BY Zenon, <1>5, <1>6 DEF TableInv
  <1>9. /\ k.debug_tail # NULL => ~r.th[k.debug_tail].dead
        /\ k.reaper_tail # NULL => r.dead_tail = NULL /\ ~r.th[k.reaper_tail].dead
    <2>1. /\ k.debug_tail # NULL => k.debug_tail \in Block
          /\ k.reaper_tail # NULL => k.reaper_tail \in Block
      BY <1>0, Types, PtrCase
    <2> QED BY <1>2, <1>3, <1>6, <2>1 DEF BlockedInv
  <1>10. Settled(r)
    BY <1>2, <1>7, <1>8, <1>9, DeadSettled
  <1> QED BY <1>1, <1>10

-----------------------------------------------------------------------------
(* Who is ahead of whom in a list. *)

(* The members that a walk from the head h meets before x. *)
Front(link, h, x) == IF h = x THEN {} ELSE Walked(link, h, x)

(* A walk stays in any set that it cannot leave but at x or the end. *)
LEMMA FrontWithin ==
  ASSUME NEW link, NEW h, NEW x, NEW S \in SUBSET Block,
         h \in S \cup {x}, \A y \in S : link[y] \in S \cup {x, NULL}
  PROVE  Front(link, h, x) \subseteq S
  <1>1. CASE h = x
    BY <1>1 DEF Front
  <1>2. CASE h # x
    BY <1>2 DEF Front, Walked
  <1> QED BY <1>1, <1>2

(* What is ahead of a member: members, the head among them, and a step     *)
(* from one of them leads to another or to x.                              *)
LEMMA FrontClosed ==
  ASSUME NEW link, NEW h, NEW t, NEW Q \in SUBSET Block, NULL \notin Block,
         ListInv(link, h, t, Q), NEW x \in Q
  PROVE  LET W == Front(link, h, x)
         IN  /\ h \in Q /\ W \in SUBSET Q /\ h \in W \cup {x}
             /\ \A y \in W : link[y] \in W \cup {x, NULL}
  <1>0. h \in Q
    BY Zenon, ListMembers DEF ListInv
  <1>1. CASE h = x
    BY <1>0, <1>1 DEF Front
  <1>2. CASE h # x
    <2>1. PICK W : W = Walked(link, h, x)
      BY Zenon
    <2>2. W \subseteq Q
      BY <1>2, <2>1, ListPred, Zenon
    <2>3. h \in W
      BY <1>0, <2>1 DEF Walked
    <2>4. ASSUME NEW y \in W, link[y] \notin {x, NULL} PROVE link[y] \in W
      <3>1. link[y] \in Block
        BY <2>2, <2>4 DEF ListInv
      <3>2. ASSUME NEW S \in SUBSET Block, h \in S, \A z \in S : link[z] \in S \cup {x, NULL}
            PROVE  link[y] \in S
        <4>1. y \in S
          BY <2>1, <2>4, <3>2, Zenon DEF Walked
        <4> QED BY <4>1, <2>4, <3>2
      <3> QED BY <2>1, <3>1, <3>2, Zenon DEF Walked
    <2>5. Front(link, h, x) = W
      BY <1>2, <2>1 DEF Front
    <2> QED BY <1>0, <2>2, <2>3, <2>4, <2>5
  <1> QED BY <1>1, <1>2

(* The last member is ahead of nobody. *)
LEMMA TailLast ==
  ASSUME NEW link, NEW h, NEW t, NEW Q \in SUBSET Block, NULL \notin Block,
         ListInv(link, h, t, Q), NEW x \in Q
  PROVE  t \notin Front(link, h, x)
  <1> DEFINE S == {y \in Q : t \notin Front(link, h, y)}
  <1>0. h \in Q /\ t \in Q /\ link[t] = NULL
    BY ListMembers DEF ListInv
  <1>1. h \in S
    BY <1>0 DEF Front
  <1>2. ASSUME NEW y \in S, link[y] # NULL PROVE link[y] \in S
    <2>1. PICK z : z = link[y]
      BY Zenon
    <2>2. z \in Q /\ y \in Q /\ y # t
      BY <1>0, <1>2, <2>1 DEF ListInv
    <2>3. PICK W : W = Front(link, h, y)
      BY Zenon
    <2>4. W \in SUBSET Q /\ h \in W \cup {y} /\ \A v \in W : link[v] \in W \cup {y, NULL}
      BY <2>2, <2>3, FrontClosed, Zenon
    <2>5. t \notin W \cup {y}
      BY <1>2, <2>2, <2>3
    <2>6. PICK V \in SUBSET Block : V = W \cup {y}
      BY Zenon, <2>2, <2>4
    <2>7. h \in V \cup {z} /\ \A v \in V : link[v] \in V \cup {z, NULL}
      BY <2>1, <2>4, <2>6
    <2>8. Front(link, h, z) \subseteq V
      BY <2>6, <2>7, FrontWithin
    <2> QED BY <2>1, <2>2, <2>5, <2>6, <2>8
  <1>3. S \in SUBSET Block /\ h \in S \cup {NULL} /\ \A y \in S : link[y] \in S \cup {NULL}
    BY <1>1, <1>2
  <1> HIDE DEF S
  <1>4. Q \subseteq S
    BY <1>3, Zenon DEF ListInv
  <1> QED BY <1>4 DEF S

(* Links that differ outside the list only, or behind its last member,     *)
(* put nobody ahead: an append lets nobody overtake.                       *)
LEMMA AppendFront ==
  ASSUME NEW link, NEW link2, NEW h, NEW t, NEW Q \in SUBSET Block, NULL \notin Block,
         ListInv(link, h, t, Q), \A y \in Q \ {t} : link2[y] = link[y], NEW x \in Q
  PROVE  Front(link2, h, x) \subseteq Front(link, h, x)
  <1>1. PICK W : W = Front(link, h, x)
    BY Zenon
  <1>2. W \in SUBSET Q /\ h \in W \cup {x} /\ \A y \in W : link[y] \in W \cup {x, NULL}
    BY <1>1, FrontClosed, Zenon
  <1>3. t \notin W
    BY <1>1, TailLast, Zenon
  <1>4. W \in SUBSET Block /\ \A y \in W : link2[y] \in W \cup {x, NULL}
    BY <1>2, <1>3
  <1> QED BY <1>1, <1>2, <1>4, FrontWithin

(* Without its head the list has nobody ahead who was not. *)
LEMMA PopFront ==
  ASSUME NEW link, NEW h, NEW t, NEW Q \in SUBSET Block, NULL \notin Block,
         ListInv(link, h, t, Q), NEW x \in Q \ {h}
  PROVE  Front(link, link[h], x) \subseteq Front(link, h, x)
  <1>1. PICK W : W = Front(link, h, x)
    BY Zenon
  <1>2. h \in Q /\ W \in SUBSET Q /\ h \in W /\ \A y \in W : link[y] \in W \cup {x, NULL}
    BY <1>1, FrontClosed, Zenon
  <1>3. ListInv(link, link[h], IF link[h] = NULL THEN NULL ELSE t, Q \ {h})
    BY <1>2, ListPop
  <1>4. link[h] # NULL
    BY <1>3, ListMembers
  <1>5. PICK g : g = link[h]
    BY Zenon
  <1>6. W \in SUBSET Block /\ g \in W \cup {x}
    BY Zenon, <1>2, <1>4, <1>5
  <1> QED BY <1>1, <1>2, <1>5, <1>6, FrontWithin

(* Nor has the list without a member b further down, whose predecessor p   *)
(* is linked to what followed b.                                           *)
LEMMA RemoveFront ==
  ASSUME NEW link, NEW link2, NEW h, NEW t, NEW Q \in SUBSET Block, NULL \notin Block,
         ListInv(link, h, t, Q), NEW b \in Q, b # h, NEW p \in Q, link[p] = b,
         \A y \in Q : link2[y] = IF y = p THEN link[b] ELSE link[y], NEW x \in Q \ {b}
  PROVE  Front(link2, h, x) \subseteq Front(link, h, x)
  <1>1. PICK W : W = Front(link, h, x)
    BY Zenon
  <1>2. W \in SUBSET Q /\ h \in W \cup {x} /\ \A y \in W : link[y] \in W \cup {x, NULL}
    BY <1>1, FrontClosed, Zenon
  <1>3. ASSUME NEW y \in W PROVE link2[y] \in W \cup {x, NULL}
    <2>1. CASE y = p
      <3>1. b \in W
        BY <1>2, <2>1
      <3> QED BY <1>2, <2>1, <3>1
    <2>2. CASE y # p
      BY <1>2, <2>2
    <2> QED BY <2>1, <2>2
  <1>4. W \in SUBSET Block
    BY <1>2
  <1> QED BY <1>1, <1>2, <1>3, <1>4, FrontWithin

-----------------------------------------------------------------------------
(* What a step from k to j may not do to bystanders.                       *)

(* The threads ahead of x in the run queue. *)
Before(k, x) == Front(Nexts(k), k.sched_head, x)

(* Nobody is put ahead of a queued thread, and a waiter is only woken with *)
(* the number of its event.                                                *)
KeepsPlace(k, j, x) ==
  k.th[x].state = TS_QUEUED =>
    \/ j.th[x].state \in {TS_RUNNING, TS_PAUSED}
    \/ j.th[x].state = TS_QUEUED /\ Before(j, x) \subseteq Before(k, x)
KeepsWait(k, j, x) ==
  k.th[x].state = TS_WAITING =>
    \/ j.th[x].state = TS_WAITING /\ j.th[x].event = k.th[x].event
    \/ j.th[x].state = TS_QUEUED /\ j.th[x].eax = k.th[x].event
    \/ j.th[x].state = TS_RUNNING
Orderly(k, j) == \A x \in Block : KeepsPlace(k, j, x) /\ KeepsWait(k, j, x)

(* Nobody dies. *)
Alive(k, j) == \A x \in Block : j.th[x].dead => k.th[x].dead

(* Only thread b is touched: the others have their state, event and result *)
(* and nobody is put ahead of them.                                        *)
Same3(k, j, x) ==
  j.th[x].state = k.th[x].state /\ j.th[x].event = k.th[x].event /\ j.th[x].eax = k.th[x].eax
Touch(k, j, b) ==
  \A x \in Block \ {b} :
    Same3(k, j, x) /\ (k.th[x].state = TS_QUEUED => Before(j, x) \subseteq Before(k, x))

(* A thread that is neither queued nor waiting. *)
Steady(k, b) == k.th[b].state \notin {TS_QUEUED, TS_WAITING}

(* Touching one thread is in order when it is for that thread. *)
LEMMA OrderlyTo ==
  ASSUME NEW k0, NEW k, NEW j, NEW b, Orderly(k0, k), Touch(k, j, b),
         b \in Block => KeepsPlace(k0, j, b) /\ KeepsWait(k0, j, b)
  PROVE  Orderly(k0, j)
  <1> SUFFICES ASSUME NEW x \in Block PROVE KeepsPlace(k0, j, x) /\ KeepsWait(k0, j, x)
    BY DEF Orderly
  <1>1. CASE x = b
    BY Zenon, <1>1
  <1>2. CASE x # b
    <2>1. Same3(k, j, x) /\ (k.th[x].state = TS_QUEUED => Before(j, x) \subseteq Before(k, x))
      BY <1>2 DEF Touch
    <2>2. KeepsPlace(k0, k, x) /\ KeepsWait(k0, k, x)
      BY DEF Orderly
    <2> QED BY <2>1, <2>2 DEF Same3, KeepsPlace, KeepsWait, TS_QUEUED, TS_RUNNING, TS_PAUSED
  <1> QED BY <1>1, <1>2

(* It is for a thread that was neither queued nor waiting to begin with,   *)
(* for one that now runs, for one taken off the run queue and for one that *)
(* the event it waits for wakes.                                           *)
LEMMA OrderlyTouch ==
  ASSUME NEW k0, NEW k, NEW j, NEW b, Orderly(k0, k), Touch(k, j, b),
         b \in Block => \/ Steady(k0, b)
                        \/ j.th[b].state = TS_RUNNING
                        \/ k0.th[b].state = TS_QUEUED /\ j.th[b].state = TS_PAUSED
                        \/ /\ k.th[b].state = TS_WAITING /\ j.th[b].state = TS_QUEUED
                           /\ j.th[b].eax = k.th[b].event
  PROVE  Orderly(k0, j)
  <1>1. ASSUME b \in Block PROVE KeepsPlace(k0, j, b) /\ KeepsWait(k0, j, b)
    <2>1. KeepsPlace(k0, k, b) /\ KeepsWait(k0, k, b)
      BY <1>1 DEF Orderly
    <2> QED BY <1>1, <2>1 DEF Steady, KeepsPlace, KeepsWait, TS_QUEUED, TS_RUNNING, TS_PAUSED, TS_WAITING
  <1> QED BY Zenon, <1>1, OrderlyTo

(* It is in order for a thread that was neither queued nor waiting. *)
LEMMA OrderlySteady ==
  ASSUME NEW k0, NEW k, NEW j, NEW b, Orderly(k0, k), Touch(k, j, b), b \in Block => Steady(k0, b)
  PROVE  Orderly(k0, j)
  <1>1. b \in Block => KeepsPlace(k0, j, b) /\ KeepsWait(k0, j, b)
    BY DEF Steady, KeepsPlace, KeepsWait
  <1> QED BY <1>1, OrderlyTo

(* Two operations on the same thread. *)
LEMMA TouchTrans ==
  ASSUME NEW k, NEW j, NEW i, NEW b, Touch(k, j, b), Touch(j, i, b)
  PROVE  Touch(k, i, b)
  BY DEF Touch, Same3

(* Nobody dies in either of two steps. *)
LEMMA AliveTrans ==
  ASSUME NEW k, NEW j, NEW i, Alive(k, j), Alive(j, i)
  PROVE  Alive(k, i)
  BY DEF Alive

(* Nothing has happened yet. *)
LEMMA OrderlySelf ==
  ASSUME NEW k
  PROVE  Orderly(k, k) /\ Alive(k, k)
  BY DEF Orderly, KeepsPlace, KeepsWait, Alive

(* The order of the run queue depends on the queue alone. *)
LEMMA SameBefore ==
  ASSUME NEW k, NEW j, SameSched(k, j), NEW x
  PROVE  Before(j, x) = Before(k, x)
  <1>1. Nexts(j) = Nexts(k)
    BY DEF SameSched, Nexts
  <1> QED BY <1>1 DEF Before, SameSched

(* Operations that leave the run queue alone. *)
LEMMA TouchField ==
  ASSUME NEW k, NEW j, NEW b, SameSched(k, j), \A x \in Block \ {b} : Same3(k, j, x)
  PROVE  Touch(k, j, b)
  BY SameBefore DEF Touch

(* Operations on the static data alone: thread_save, thread_load, the      *)
(* latches, the table, the ends of the other queues, and a panic.          *)
LEMMA TouchNone ==
  ASSUME NEW k, NEW j, NEW b, j.th = k.th, j.sched_head = k.sched_head
  PROVE  Touch(k, j, b) /\ Alive(k, j)
  BY DEF Touch, Alive, Same3, Before, Nexts

(* One field of thread b is written, and not its link of the run queue. *)
LEMMA TouchWrite ==
  ASSUME NEW k \in KernelData, NEW b \in Block, NEW v
  PROVE  /\ Touch(k, [k EXCEPT !.th[b].eax = v], b) /\ Alive(k, [k EXCEPT !.th[b].eax = v])
         /\ Touch(k, [k EXCEPT !.th[b].state = v], b) /\ Alive(k, [k EXCEPT !.th[b].state = v])
         /\ Touch(k, [k EXCEPT !.th[b].event = v], b) /\ Alive(k, [k EXCEPT !.th[b].event = v])
         /\ Touch(k, [k EXCEPT !.th[b].dead = v], b)
  <1>1. ASSUME NEW j, j = [k EXCEPT !.th[b].eax = v] PROVE Touch(k, j, b) /\ Alive(k, j)
    <2>1. SameSched(k, j) /\ \A x \in Block \ {b} : Same3(k, j, x)
      BY <1>1 DEF SameSched, Same3, KernelData, ThreadStruct
    <2>2. Alive(k, j)
      BY <1>1 DEF Alive, KernelData, ThreadStruct
    <2> QED BY <2>1, <2>2, TouchField
  <1>2. ASSUME NEW j, j = [k EXCEPT !.th[b].state = v] PROVE Touch(k, j, b) /\ Alive(k, j)
    <2>1. SameSched(k, j) /\ \A x \in Block \ {b} : Same3(k, j, x)
      BY <1>2 DEF SameSched, Same3, KernelData, ThreadStruct
    <2>2. Alive(k, j)
      BY <1>2 DEF Alive, KernelData, ThreadStruct
    <2> QED BY <2>1, <2>2, TouchField
  <1>3. ASSUME NEW j, j = [k EXCEPT !.th[b].event = v] PROVE Touch(k, j, b) /\ Alive(k, j)
    <2>1. SameSched(k, j) /\ \A x \in Block \ {b} : Same3(k, j, x)
      BY <1>3 DEF SameSched, Same3, KernelData, ThreadStruct
    <2>2. Alive(k, j)
      BY <1>3 DEF Alive, KernelData, ThreadStruct
    <2> QED BY <2>1, <2>2, TouchField
  <1>4. ASSUME NEW j, j = [k EXCEPT !.th[b].dead = v] PROVE Touch(k, j, b)
    <2>1. SameSched(k, j) /\ \A x \in Block \ {b} : Same3(k, j, x)
      BY <1>4 DEF SameSched, Same3, KernelData, ThreadStruct
    <2> QED BY <2>1, TouchField
  <1> QED BY Zenon, <1>1, <1>2, <1>3, <1>4

(* enqueue of a thread on no queue. *)
LEMMA TouchEnqueue ==
  ASSUME NEW k, NEW b, Off(k, b)
  PROVE  LET r == enqueue(k, b)
         IN  /\ Touch(k, r, b) /\ Alive(k, r)
             /\ r.th[b].state = TS_QUEUED /\ r.th[b].eax = k.th[b].eax
             /\ SameBlocked(k, r) /\ SameDead(k, r) /\ SameTable(k, r)
  <1> DEFINE s == Paused(k, b)
             Q == In(s, TS_QUEUED)
  <1>0. k \in KernelData /\ b \in Block /\ SchedInv(k, s)
    BY DEF Off, KInv, Idle
  <1>1. PICK p : p = schedule_push(k, b)
    BY Zenon
  <1>2. /\ OnlySched(k, p) /\ p.sched_head = IF k.sched_tail = NULL THEN b ELSE k.sched_head
        /\ \A x \in Block : p.th[x].next = IF x = b THEN NULL ELSE
                                           IF x = k.sched_tail THEN b ELSE k.th[x].next
    BY <1>0, <1>1, PushEffect
  <1>3. \A x \in Block : p.th[x].eax = k.th[x].eax
    BY <1>0, <1>1 DEF schedule_push, KernelData, ThreadStruct
  <1>4. PICK r : r = [p EXCEPT !.th[b].state = TS_QUEUED]
    BY Zenon
  <1>5. p \in KernelData /\ TS_QUEUED \in 0..5
    BY <1>2 DEF OnlySched, TS_QUEUED
  <1>6. SameQueues(p, r) /\ r \in KernelData
    BY Zenon, <1>0, <1>4, <1>5, StateEffect
  <1>7. \A x \in Block : /\ r.th[x].eax = p.th[x].eax
                         /\ r.th[x].state = IF x = b THEN TS_QUEUED ELSE p.th[x].state
    BY <1>0, <1>4, <1>5 DEF KernelData, ThreadStruct
  <1>8. \A x \in Block \ {b} : Same3(k, r, x)
    BY <1>2, <1>3, <1>6, <1>7 DEF Same3, OnlySched, SameEvents, SameStates, SameQueues
  <1>9. SameBlocked(k, r) /\ SameDead(k, r) /\ SameTable(k, r)
    BY <1>2, <1>6 DEF OnlySched, SameQueues, SameBlocked, SameDead, SameTable
  <1>10. Alive(k, r)
    BY <1>9 DEF Alive, SameDead
  <1>11. /\ Q \in SUBSET Block /\ b \notin Q
         /\ ListInv(Nexts(k), k.sched_head, k.sched_tail, Q)
         /\ \A x \in Block \ {b} : k.th[x].state = TS_QUEUED => x \in Q
    BY <1>0, StatesType DEF SchedInv, In, TS_QUEUED, TS_PAUSED
  <1> HIDE DEF Q
  <1>12. ASSUME NEW x \in Block \ {b}, k.th[x].state = TS_QUEUED
         PROVE  Before(r, x) \subseteq Before(k, x)
    <2>1. x \in Q
      BY <1>11, <1>12
    <2>2. k.sched_tail # NULL
      BY Zenon, <1>11, <2>1, ListMembers DEF ListInv
    <2>3. r.sched_head = k.sched_head
      BY Zenon, <1>2, <1>6, <2>2 DEF SameQueues, SameSched
    <2>4. \A y \in Q \ {k.sched_tail} : Nexts(r)[y] = Nexts(k)[y]
      BY Zenon, <1>2, <1>6, <1>11 DEF Nexts, SameQueues, SameSched
    <2>5. PICK l, l2 : l = Nexts(k) /\ l2 = Nexts(r)
      BY Zenon
    <2>6. Front(l2, k.sched_head, x) \subseteq Front(l, k.sched_head, x)
      BY Zenon, <1>11, <2>1, <2>4, <2>5, NullIsNoBlock, AppendFront
    <2> QED BY <2>3, <2>5, <2>6 DEF Before
  <1>13. Touch(k, r, b)
    BY <1>8, <1>12 DEF Touch
  <1>14. r = enqueue(k, b)
    BY Zenon, <1>1, <1>4 DEF enqueue
  <1> QED BY Zenon, <1>0, <1>3, <1>7, <1>9, <1>10, <1>13, <1>14

(* schedule_remv of a queued thread. *)
LEMMA TouchRemv ==
  ASSUME NEW k, Settled(k), NEW b \in Block, k.th[b].state = TS_QUEUED
  PROVE  LET r == schedule_remv(k, b)
         IN  /\ Touch(k, r, b) /\ Alive(k, r) /\ r \in KernelData
             /\ SameBlocked(k, r) /\ SameDead(k, r) /\ SameTable(k, r)
  <1> DEFINE Q == In(States(k), TS_QUEUED)
             h == k.sched_head
  <1>0. k \in KernelData /\ SchedInv(k, States(k))
    BY Zenon DEF Settled, KInv
  <1>1. /\ Q \in SUBSET Block /\ b \in Q
        /\ ListInv(Nexts(k), h, k.sched_tail, Q)
        /\ \A x \in Block : k.th[x].state = TS_QUEUED => x \in Q
    BY Zenon, <1>0, StatesType DEF SchedInv, In
  <1> HIDE DEF Q
  <1>2. h \in Block
    BY Zenon, <1>1, ListMembers DEF ListInv
  <1>3. PICK r : r = schedule_remv(k, b)
    BY Zenon
  <1>4. \A x \in Block : r.th[x].eax = k.th[x].eax
    BY <1>0, <1>3 DEF schedule_remv, KernelData, ThreadStruct
  <1>5. PICK l, l2 : l = Nexts(k) /\ l2 = Nexts(r)
    BY Zenon
  <1>6. /\ OnlySched(k, r)
        /\ \A x \in Q \ {b} : Before(r, x) \subseteq Before(k, x)
    <2>1. CASE h = b
      <3>1. /\ OnlySched(k, r) /\ r.sched_head = k.th[b].next
            /\ \A x \in Block : r.th[x].next = k.th[x].next
        BY Zenon, <1>0, <1>3, <2>1, RemvHeadEffect
      <3>2. l2 = l /\ r.sched_head = l[h]
        BY Zenon, <1>2, <1>5, <2>1, <3>1 DEF Nexts
      <3>3. \A x \in Q \ {h} : Front(l, l[h], x) \subseteq Front(l, h, x)
        BY Zenon, <1>1, <1>5, NullIsNoBlock, PopFront
      <3> QED BY Zenon, <1>5, <2>1, <3>1, <3>2, <3>3 DEF Before
    <2>2. CASE h # b
      <3>1. Walked(l, h, b) \subseteq Q /\ \E p \in Walked(l, h, b) : l[p] = b
        BY <1>1, <1>5, <2>2, NullIsNoBlock, ListPred
      <3>2. PICK p : p = Pred(k, h, b)
        BY Zenon
      <3>3. p \in Q /\ l[p] = b
        BY Zenon, <1>1, <1>5, <3>1, <3>2 DEF Pred, Nexts
      <3>4. /\ OnlySched(k, r) /\ r.sched_head = h
            /\ \A x \in Block : r.th[x].next = IF x = p THEN k.th[b].next ELSE k.th[x].next
        BY <1>0, <1>1, <1>2, <1>3, <2>2, <3>2, <3>3, RemvMiddleEffect
      <3>5. \A y \in Q : l2[y] = IF y = p THEN l[b] ELSE l[y]
        BY Zenon, <1>1, <1>5, <3>4 DEF Nexts
      <3>6. \A x \in Q \ {b} : Front(l2, h, x) \subseteq Front(l, h, x)
        BY <1>1, <1>5, <2>2, <3>3, <3>5, NullIsNoBlock, RemoveFront
      <3> QED BY Zenon, <1>5, <3>4, <3>6 DEF Before
    <2> QED BY Zenon, <2>1, <2>2
  <1>7. \A x \in Block \ {b} : Same3(k, r, x)
    BY Zenon, <1>4, <1>6 DEF Same3, OnlySched, SameEvents, SameStates
  <1>8. Touch(k, r, b)
    BY Zenon, <1>1, <1>6, <1>7 DEF Touch
  <1> QED BY <1>3, <1>6, <1>8 DEF OnlySched, Alive, SameDead

(* event_wait's thread joins a queue. *)
LEMMA TouchAppend ==
  ASSUME NEW k \in KernelData, NEW b \in Block, NEW e \in Event
  PROVE  Touch(k, ev_append(k, b, e), b) /\ Alive(k, ev_append(k, b, e))
  <1> DEFINE r == ev_append(k, b, e)
  <1>1. OnlyEvents(k, r)
    BY EventEffect
  <1>2. \A x \in Block : r.th[x].eax = k.th[x].eax /\ (x # b => r.th[x].event = k.th[x].event)
    BY EventEffect
  <1> HIDE DEF r
  <1>3. SameSched(k, r) /\ SameDead(k, r) /\ SameStates(k, r)
    BY <1>1 DEF OnlyEvents
  <1>4. \A x \in Block \ {b} : Same3(k, r, x)
    BY <1>1, <1>2, <1>3 DEF Same3, SameStates
  <1>5. Touch(k, r, b)
    BY Zenon, <1>3, <1>4, TouchField
  <1> QED BY Zenon, <1>3, <1>5 DEF Alive, SameDead, r

(* event_send's thread leaves one, with the event for its result. *)
LEMMA TouchPop ==
  ASSUME NEW k \in KernelData, NEW b \in Block, NEW e \in Event
  PROVE  LET r == ev_pop(k, b, e)
         IN  Touch(k, r, b) /\ Alive(k, r) /\ r.th[b].eax = e
  <1> DEFINE r == ev_pop(k, b, e)
  <1>1. OnlyEvents(k, r)
    BY EventEffect
  <1>2. \A x \in Block : /\ r.th[x].eax = IF x = b THEN e ELSE k.th[x].eax
                         /\ x # b => r.th[x].event = k.th[x].event
    BY EventEffect
  <1> HIDE DEF r
  <1>3. SameSched(k, r) /\ SameDead(k, r) /\ SameStates(k, r)
    BY Zenon, <1>1 DEF OnlyEvents
  <1>4. \A x \in Block \ {b} : Same3(k, r, x)
    BY <1>1, <1>2, <1>3 DEF Same3, SameStates
  <1>5. Touch(k, r, b)
    BY <1>3, <1>4, TouchField
  <1> QED BY Zenon, <1>2, <1>3, <1>5 DEF Alive, SameDead, r

(* ret, suspend and requeue of the active thread. *)
LEMMA TouchRet ==
  ASSUME NEW k \in KernelData, NEW b \in Block, NEW v
  PROVE  Touch(k, ret(k, b, v), b) /\ Alive(k, ret(k, b, v))
  BY Zenon, TouchWrite DEF ret

(* thread_save touches no thread. *)
LEMMA TouchSave ==
  ASSUME NEW k \in KernelData, NEW b, NEW c
  PROVE  Touch(k, thread_save(k, b), c) /\ Alive(k, thread_save(k, b))
  <1>1. PICK r : r = thread_save(k, b)
    BY Zenon
  <1>2. r.th = k.th /\ r.sched_head = k.sched_head
    BY <1>1 DEF thread_save, KernelData
  <1> QED BY <1>1, <1>2, TouchNone

(* thread_save and TS_PAUSED touch the running thread alone. *)
LEMMA TouchSuspend ==
  ASSUME NEW k, Settled(k), k.active \in Block
  PROVE  Touch(k, suspend(k, k.active), k.active) /\ Alive(k, suspend(k, k.active))
  <1> DEFINE a == k.active
  <1>1. PICK p : p = thread_save(k, a)
    BY Zenon
  <1>2. Touch(k, p, a) /\ Alive(k, p)
    BY Zenon, <1>1, TouchSave DEF Settled, KInv
  <1>3. p \in KernelData
    BY <1>1, SaveOff DEF Off, KInv
  <1>4. PICK r : r = [p EXCEPT !.th[a].state = TS_PAUSED]
    BY Zenon
  <1>5. Touch(p, r, a) /\ Alive(p, r)
    BY Zenon, <1>3, <1>4, TouchWrite
  <1>6. Touch(k, r, a) /\ Alive(k, r)
    BY Zenon, <1>2, <1>5, TouchTrans, AliveTrans
  <1> QED BY <1>1, <1>4, <1>6 DEF suspend

(* thread_save, TS_PAUSED and schedule_push: the running thread alone. *)
LEMMA TouchRequeue ==
  ASSUME NEW k, Settled(k), k.active \in Block
  PROVE  Touch(k, requeue(k, k.active), k.active) /\ Alive(k, requeue(k, k.active))
  <1> DEFINE a == k.active
  <1>1. PICK p : p = thread_save(k, a)
    BY Zenon
  <1>2. Touch(k, p, a) /\ Alive(k, p)
    BY <1>1, TouchSave DEF Settled, KInv
  <1>3. Off(p, a)
    BY <1>1, SaveOff
  <1>4. PICK r : r = enqueue(p, a)
    BY Zenon
  <1>5. Touch(p, r, a) /\ Alive(p, r)
    BY Zenon, <1>3, <1>4, TouchEnqueue
  <1>6. Touch(k, r, a) /\ Alive(k, r)
    BY Zenon, <1>2, <1>5, TouchTrans, AliveTrans
  <1> QED BY Zenon, <1>1, <1>4, <1>6 DEF requeue

(* notify: thread b is queued with the given result. *)
LEMMA TouchNotify ==
  ASSUME NEW k, NEW b, NEW v \in Int, Off(k, b)
  PROVE  LET r == notify(k, b, v)
         IN  /\ Touch(k, r, b) /\ Alive(k, r)
             /\ r.th[b].state = TS_QUEUED /\ r.th[b].eax = v
             /\ SameBlocked(k, r) /\ SameDead(k, r) /\ SameTable(k, r)
  <1>0. k \in KernelData /\ b \in Block
    BY DEF Off, KInv, Idle
  <1>1. PICK p : p = ret(k, b, v)
    BY Zenon
  <1>2. Off(p, b) /\ SameQueues(k, p)
    BY <1>0, <1>1, RetKeeps
  <1>3. Touch(k, p, b) /\ Alive(k, p)
    BY Zenon, <1>0, <1>1, TouchRet
  <1>4. p.th[b].eax = v
    BY <1>0, <1>1 DEF ret, KernelData, ThreadStruct
  <1>5. PICK r : r = enqueue(p, b)
    BY Zenon
  <1>6. /\ Touch(p, r, b) /\ Alive(p, r)
        /\ r.th[b].state = TS_QUEUED /\ r.th[b].eax = p.th[b].eax
        /\ SameBlocked(p, r) /\ SameDead(p, r) /\ SameTable(p, r)
    BY Zenon, <1>2, <1>5, TouchEnqueue
  <1>7. Touch(k, r, b) /\ Alive(k, r)
    BY Zenon, <1>3, <1>6, TouchTrans, AliveTrans
  <1>8. SameBlocked(k, r) /\ SameDead(k, r) /\ SameTable(k, r)
    BY Zenon, <1>2, <1>6 DEF SameQueues, SameBlocked, SameDead, SameTable
  <1>9. r = notify(k, b, v)
    BY <1>1, <1>5 DEF notify, ret
  <1> QED BY Zenon, <1>4, <1>6, <1>7, <1>8, <1>9

(* event_send: the thread it wakes has waited for this event. *)
LEMMA OrderlySend ==
  ASSUME NEW k0, NEW k, Settled(k), Orderly(k0, k), NEW e \in Event
  PROVE  Orderly(k0, event_send(k, e)) /\ Alive(k, event_send(k, e))
  <1> DEFINE b == k.ev_front[e]
  <1>0. k \in KernelData /\ (b = NULL \/ (b \in Block /\ b # NULL))
    BY Zenon, Types, PtrCase DEF Settled, KInv
  <1>1. PICK q : q = IF b = NULL THEN k ELSE enqueue(ev_pop(k, b, e), b)
    BY Zenon
  <1>2. Orderly(k0, q) /\ Alive(k, q) /\ q \in KernelData
    <2>1. CASE b = NULL
      BY <1>0, <1>1, <2>1, OrderlySelf
    <2>2. CASE b \in Block /\ b # NULL
      <3>1. PICK p : p = ev_pop(k, b, e)
        BY Zenon
      <3>2. Off(p, b) /\ k.th[b].state = TS_WAITING
        BY Zenon, <2>2, <3>1, PopOff
      <3>3. Touch(k, p, b) /\ Alive(k, p) /\ p.th[b].eax = e
        BY <1>0, <2>2, <3>1, TouchPop
      <3>4. q = enqueue(p, b)
        BY Zenon, <1>1, <2>2, <3>1
      <3>5. /\ Touch(p, q, b) /\ Alive(p, q) /\ q.th[b].state = TS_QUEUED
            /\ q.th[b].eax = p.th[b].eax
        BY Zenon, <3>2, <3>4, TouchEnqueue
      <3>6. k.th[b].event = e
        <4>1. EventInv(k, States(k))
          BY Zenon DEF Settled, KInv
        <4>2. b \in Waiting(k, States(k), e)
          BY Zenon, <2>2, <4>1 DEF EventInv, ListInv
        <4> QED BY <4>2 DEF Waiting
      <3>7. Touch(k, q, b) /\ Alive(k, q)
        BY Zenon, <3>3, <3>5, TouchTrans, AliveTrans
      <3>8. Orderly(k0, q)
        BY Zenon, <3>2, <3>3, <3>5, <3>6, <3>7, OrderlyTouch
      <3>9. q \in KernelData
        BY Zenon, <3>2, <3>4, EnqueueOff DEF Settled, KInv
      <3> QED BY <3>7, <3>8, <3>9
    <2> QED BY Zenon, <1>0, <2>1, <2>2
  <1>3. event_send(k, e) = IF e < 240 THEN [irq_mask(q, e) EXCEPT !.irqstate[e] = 1] ELSE q
    <2>1. CASE b = NULL
      BY Zenon, <1>1, <2>1 DEF event_send
    <2>2. CASE b \in Block /\ b # NULL
      <3>1. k.th[b].state # TS_RUNNING
        BY <2>2, PopOff DEF TS_WAITING, TS_RUNNING
      <3> QED BY <1>1, <2>2, <3>1 DEF event_send, ev_pop
    <2> QED BY <1>0, <2>1, <2>2
  <1>4. CASE e < 240
    <2>1. PICK r : r = [irq_mask(q, e) EXCEPT !.irqstate[e] = 1]
      BY Zenon
    <2>2. r.th = q.th /\ r.sched_head = q.sched_head
      BY Zenon, <1>2, <2>1 DEF irq_mask, KernelData
    <2>3. Touch(q, r, NULL) /\ Alive(q, r)
      BY Zenon, <2>2, TouchNone
    <2>4. Orderly(k0, r) /\ Alive(k, r)
      BY <1>2, <2>3, OrderlyTouch, AliveTrans, NullIsNoBlock
    <2> QED BY <1>3, <1>4, <2>1, <2>4
  <1>5. CASE ~(e < 240)
    BY Zenon, <1>2, <1>3, <1>5
  <1> QED BY Zenon, <1>4, <1>5

(* The return from the interrupt touches the thread that runs next. *)
LEMMA EntryTouch ==
  ASSUME NEW k, Settled(k)
  PROVE  LET r == iret(int_return(k))
         IN  /\ \E b : Touch(k, r, b) /\ (b \in Block => r.th[b].state = TS_RUNNING)
             /\ Alive(k, r) /\ SameBlocked(k, r) /\ SameDead(k, r) /\ SameTable(k, r)
  <1>0. k \in KernelData
    BY DEF Settled, KInv
  <1>1. PICK q : q = int_return(k)
    BY Zenon
  <1>2. Settled(q) /\ q \in KernelData
    BY Zenon, <1>1, IntReturn DEF Settled, KInv
  <1>3. /\ q = k \/ (q.active \in Block /\ Touch(k, q, q.active))
        /\ Alive(k, q) /\ SameBlocked(k, q) /\ SameDead(k, q) /\ SameTable(k, q)
    <2> DEFINE b == k.sched_head
    <2>1. CASE k.halted \/ k.active # NULL \/ b = NULL
      <3>1. q = k
        BY Zenon, <1>1, <2>1 DEF int_return, schedule_next
      <3> QED BY <3>1, OrderlySelf DEF SameBlocked, SameDead, SameTable
    <2>2. CASE ~(k.halted \/ k.active # NULL \/ b = NULL)
      <3>1. b \in Block /\ k.th[b].state = TS_QUEUED
        <4>1. b \in In(States(k), TS_QUEUED)
          BY Zenon, <2>2 DEF Settled, KInv, SchedInv, ListInv
        <4> QED BY Zenon, <4>1 DEF In, States
      <3>2. PICK p : p = schedule_remv(k, b)
        BY Zenon
      <3>3. /\ Touch(k, p, b) /\ Alive(k, p) /\ p \in KernelData
            /\ SameBlocked(k, p) /\ SameDead(k, p) /\ SameTable(k, p)
        BY <3>1, <3>2, TouchRemv
      <3>4. PICK l : l = thread_load(p, b)
        BY Zenon
      <3>5. /\ l \in KernelData /\ SameQueues(p, l) /\ l.th = p.th
            /\ l.sched_head = p.sched_head /\ l.active = b
        <4>1. b \in Ptr
          BY <3>1 DEF Ptr
        <4>2. l.th = p.th /\ l.sched_head = p.sched_head
          BY <3>3, <3>4 DEF thread_load, KernelData
        <4>3. l \in KernelData /\ SameQueues(p, l) /\ l.active = b
          BY Zenon, <3>3, <3>4, <4>1, ActiveEffect DEF thread_load
        <4> QED BY <4>2, <4>3
      <3>6. Touch(p, l, b) /\ Alive(p, l)
        BY <3>5, TouchNone
      <3>7. q = [l EXCEPT !.th[b].state = TS_RUNNING]
        BY <1>1, <2>2, <3>2, <3>4 DEF int_return, schedule_next
      <3>8. Touch(l, q, b) /\ Alive(l, q)
        BY Zenon, <3>1, <3>5, <3>7, TouchWrite
      <3>9. SameQueues(l, q) /\ q.active = b
        <4>1. TS_RUNNING \in 0..5
          BY DEF TS_RUNNING
        <4> QED BY Zenon, <3>1, <3>5, <3>7, <4>1, StateEffect
      <3>10. Touch(k, q, b) /\ Alive(k, q)
        BY Zenon, <3>3, <3>6, <3>8, TouchTrans, AliveTrans
      <3>11. SameBlocked(k, q) /\ SameDead(k, q) /\ SameTable(k, q)
        BY <3>3, <3>5, <3>9 DEF SameQueues, SameBlocked, SameDead, SameTable
      <3> QED BY <3>1, <3>9, <3>10, <3>11
    <2> QED BY Zenon, <2>1, <2>2
  <1>4. CASE q.active = NULL
    <2>1. q = k /\ iret(q) = q
      BY <1>3, <1>4, NullIsNoBlock DEF iret
    <2>2. Touch(k, k, NULL)
      BY Zenon, TouchNone
    <2> QED BY Zenon, <1>1, <1>3, <2>1, <2>2, NullIsNoBlock
  <1>5. CASE q.active \in Block
    <2>1. PICK a : a = q.active
      BY Zenon
    <2>2. PICK r : r = ret(q, a, 0)
      BY Zenon
    <2>3. Touch(q, r, a) /\ Alive(q, r)
      BY Zenon, <1>2, <1>5, <2>1, <2>2, TouchRet
    <2>4. SameQueues(q, r) /\ SameStates(q, r)
      BY <1>2, <1>5, <2>1, <2>2, RetKeeps
    <2>5. q.th[a].state = TS_RUNNING
      BY Zenon, <1>2, <1>5, <2>1, ActiveSlot
    <2>6. Touch(k, r, a) /\ Alive(k, r)
      BY Zenon, <1>3, <2>1, <2>3, TouchTrans, AliveTrans
    <2>7. SameBlocked(k, r) /\ SameDead(k, r) /\ SameTable(k, r)
      BY <1>3, <2>4 DEF SameQueues, SameBlocked, SameDead, SameTable
    <2>8. r = iret(int_return(k))
      BY <1>1, <1>5, <2>1, <2>2, NullIsNoBlock DEF iret
    <2>9. r.th[a].state = TS_RUNNING
      BY <1>5, <2>1, <2>4, <2>5 DEF SameStates
    <2> QED BY <2>6, <2>7, <2>8, <2>9
  <1> QED BY Zenon, <1>2, <1>4, <1>5, Types, PtrCase

=============================================================================
