--------------------------- MODULE ContractProofs ---------------------------
(***************************************************************************)
(* The main theorems: whatever the number of threads, table slots, IRQ     *)
(* lines and timers, a kernel whose clients keep to the rules keeps its    *)
(* queues, its table and its latches in order, and does not halt.          *)
(*                                                                         *)
(* Each kernel call and each interrupt handler preserves Settled           *)
(* (CallProofs and the modules it extends); the tail of int_handler does   *)
(* too; so every entry to the kernel preserves IInv.                       *)
(***************************************************************************)
EXTENDS CallProofs, Machine

(* Time limits for a leaf that names no prover: the provers in their       *)
(* default order, with time to spare.                                      *)
USE SMTT(30), ZenonT(30)

-----------------------------------------------------------------------------
(* Machine implements Contract. *)

(* timer_handler: timers that are not in use are skipped, so the first one *)
(* in use stands for the first that fires.                                 *)
LEMMA DueStands ==
  ASSUME NEW j \in 0..MAX_VTIMER
  PROVE  \E n \in Due : \A i \in 0..15 : i \in VTimer => (i >= j <=> i >= n)
  <1> DEFINE D == {n \in Due : j <= n}
  <1>1. D \subseteq 0..11 /\ 11 \in D
    <2>1. 11 \in Due /\ \A n \in Due : n \in 0..11
      BY VTimerRange DEF Due, MAX_VTIMER
    <2> QED BY <2>1 DEF MAX_VTIMER
  <1>2. \E n \in D : \A i \in D : n <= i
    BY <1>1
  <1>3. PICK n \in D : \A i \in D : n <= i
    BY <1>2
  <1> QED
    BY <1>1, <1>3 DEF Due, MAX_VTIMER

(* The two send the same events in the same order. *)
LEMMA TimersSame ==
  ASSUME NEW k, NEW m, NEW j \in Int, NEW n \in Int,
         \A i \in 0..15 : i \in VTimer => (i >= j <=> i >= n)
  PROVE  timer_handler(k, m, j) = timer_handler(k, m, n)
  <1>1. ASSUME NEW x, NEW i \in 0..15
        PROVE  vtimer(x, j, i) = vtimer(x, n, i)
    BY <1>1 DEF vtimer
  <1>2. ASSUME NEW x, NEW i \in 0..12
        PROVE  vtimer4(x, j, i) = vtimer4(x, n, i)
    <2>1. i \in 0..15 /\ i + 1 \in 0..15 /\ i + 2 \in 0..15 /\ i + 3 \in 0..15
      BY <1>2
    <2>2. vtimer(x, j, i) = vtimer(x, n, i)
      BY Zenon, <1>1, <2>1
    <2>3. \A y : vtimer(y, j, i + 1) = vtimer(y, n, i + 1)
      BY <1>1, <2>1
    <2>4. \A y : vtimer(y, j, i + 2) = vtimer(y, n, i + 2)
      BY <1>1, <2>1
    <2>5. \A y : vtimer(y, j, i + 3) = vtimer(y, n, i + 3)
      BY <1>1, <2>1
    <2> QED BY <2>2, <2>3, <2>4, <2>5 DEF vtimer4
  <1>3. vtimer4(k, j, 0) = vtimer4(k, n, 0)
    BY <1>2
  <1>4. \A y : vtimer4(y, j, 4) = vtimer4(y, n, 4)
    BY <1>2
  <1>5. \A y : vtimer4(y, j, 8) = vtimer4(y, n, 8)
    BY <1>2
  <1>6. \A y : vtimer4(y, j, 12) = vtimer4(y, n, 12)
    BY <1>2
  <1>7. vtimers(k, j) = vtimers(k, n)
    BY <1>3, <1>4, <1>5, <1>6 DEF vtimers
  <1> QED BY <1>7 DEF timer_handler

(* The counter stays in range: it wraps with the arithmetic. *)
LEMMA TickWraps ==
  /\ MachineInit => tick \in 0..(Ticks - 1)
  /\ tick \in 0..(Ticks - 1) /\ [MachineNext]_mvars => tick' \in 0..(Ticks - 1)
  <1>1. \A t \in 0..(Ticks - 1) : (t + 1) % Ticks \in 0..(Ticks - 1)
    BY TicksWrap
  <1>2. MachineInit => tick \in 0..(Ticks - 1)
    BY TicksWrap DEF MachineInit
  <1> SUFFICES ASSUME tick \in 0..(Ticks - 1), [MachineNext]_mvars
               PROVE  tick' \in 0..(Ticks - 1)
    BY <1>2
  <1>3. tick' = tick \/ tick' = (tick + 1) % Ticks
    BY DEF MachineNext, Request, Deliver, TimerInterrupt, mvars
  <1> QED BY <1>1, <1>3

(* int_handler on the controllers: an interrupt that they pass on is one   *)
(* that the mask allows, and the timers of a tick are some that can be due. *)
LEMMA MachineStep ==
  tick \in 0..(Ticks - 1) /\ [MachineNext]_mvars => [Next]_kern
  <1> SUFFICES ASSUME tick \in 0..(Ticks - 1), [MachineNext]_mvars
               PROVE  [Next]_kern
    OBVIOUS
  <1>1. CASE Client
    BY <1>1 DEF Next
  <1>2. ASSUME NEW i \in Irq, Deliver(i)
        PROVE  Next
    <2>1. Interrupt(i)
      BY <1>2 DEF Deliver, Accepts, Passes, Enter, Interrupt
    <2> QED BY <2>1 DEF Next, Hardware
  <1>3. CASE TimerInterrupt
    <2> DEFINE t == (tick + 1) % Ticks
    <2>1. t \in 0..(Ticks - 1)
      BY TicksWrap
    <2>2. PICK j \in 0..MAX_VTIMER : Fired[t] = j..15
      BY <2>1, FiredFromOne
    <2>3. First[t] = j
      <3>1. First[t] = CHOOSE i \in Fired[t] : \A x \in Fired[t] : i <= x
        BY <2>1 DEF First
      <3>2. j \in Fired[t] /\ \A x \in Fired[t] : j <= x
        BY <2>2 DEF MAX_VTIMER
      <3>3. First[t] \in Fired[t] /\ \A x \in Fired[t] : First[t] <= x
        BY Zenon, <3>1, <3>2
      <3>4. First[t] \in j..15 /\ First[t] <= j
        BY Zenon, <2>2, <3>2, <3>3
      <3> QED BY <3>4 DEF MAX_VTIMER
    <2>4. PICK n \in Due : \A i \in 0..15 : i \in VTimer => (i >= j <=> i >= n)
      BY DueStands
    <2>5. j \in Int /\ n \in Int
      BY VTimerRange DEF Due, MAX_VTIMER
    <2>6. timer_handler(kern, image, j) = timer_handler(kern, image, n)
      BY Zenon, <2>4, <2>5, TimersSame
    <2>7. Tick(n)
      BY Zenon, <1>3, <2>3, <2>6 DEF TimerInterrupt, Enter, Tick
    <2> QED BY <2>7 DEF Next, Hardware
  <1>4. CASE UNCHANGED kern
    BY <1>4
  <1> QED BY Zenon, <1>1, <1>2, <1>3, <1>4 DEF MachineNext, Request, mvars

(* The detailed machine implements Contract: with the controllers'         *)
(* priorities and the timer's counter, every step of the kernel is one     *)
(* that Contract allows.                                                   *)
THEOREM MachineRefines ==
  MachineSpec => ContractKept
  <1> DEFINE InRange == tick \in 0..(Ticks - 1)
  <1>1. MachineInit => Init /\ InRange
    BY TickWraps DEF MachineInit
  <1>2. InRange /\ [MachineNext]_mvars => InRange'
    BY TickWraps
  <1>3. InRange /\ [MachineNext]_mvars => [Next]_kern
    BY MachineStep
  <1> HIDE DEF InRange
  <1> QED BY <1>1, <1>2, <1>3, PTL DEF MachineSpec, ContractKept, Spec

(* The rules the theorems rest on: all but the one that forbids            *)
(* exceptions, which may stop the machine but not spoil its data.          *)
SafeRules == AllRules \ {"no_exception"}

-----------------------------------------------------------------------------
(* The kernel never halts: no client that keeps to the rules, and no       *)
(* interrupt, makes it panic or walk a list for ever.                      *)

(* j is kernel data that has halted exactly when k has. *)
Calm(k, j) == "halted" \in DOMAIN j /\ j.halted = k.halted

(* Thread: the operations that walk no list. *)
LEMMA CalmThread ==
  ASSUME NEW k, NEW k0, Calm(k0, k), NEW b, NEW e
  PROVE  /\ Calm(k0, enqueue(k, b)) /\ Calm(k0, thread_save(k, b))
         /\ Calm(k0, thread_load(k, b)) /\ Calm(k0, thread_kill(k, b))
         /\ Calm(k0, [k EXCEPT !.th[b].state = e]) /\ Calm(k0, [k EXCEPT !.th[b].eax = e])
         /\ Calm(k0, [k EXCEPT !.th[b].dead = e]) /\ Calm(k0, [k EXCEPT !.irqstate[b] = e])
  <1>1. Calm(k0, enqueue(k, b))
    BY DEF Calm, enqueue, schedule_push
  <1>2. /\ Calm(k0, thread_save(k, b)) /\ Calm(k0, thread_load(k, b))
        /\ Calm(k0, thread_kill(k, b))
    BY DEF Calm, thread_save, thread_load, thread_kill
  <1>3. /\ Calm(k0, [k EXCEPT !.th[b].state = e]) /\ Calm(k0, [k EXCEPT !.th[b].eax = e])
        /\ Calm(k0, [k EXCEPT !.th[b].dead = e]) /\ Calm(k0, [k EXCEPT !.irqstate[b] = e])
    BY DEF Calm
  <1> QED BY Zenon, <1>1, <1>2, <1>3

(* Waiting for an event and sending one. *)
LEMMA CalmEvents ==
  ASSUME NEW k, NEW k0, Calm(k0, k), NEW id, NEW e
  PROVE  Calm(k0, event_wait(k, id, e).k) /\ Calm(k0, event_send(k, e))
  <1>1. Calm(k0, event_wait(k, id, e).k)
    <2> DEFINE b  == thread_get(k, id)
               k1 == IF k.ev_back[e] = NULL
                     THEN [k EXCEPT !.ev_front[e] = b]
                     ELSE [k EXCEPT !.th[k.ev_back[e]].next_evqueue = b]
               k2 == [k1 EXCEPT !.ev_back[e] = b, !.th[b].next_evqueue = NULL,
                                !.th[b].event = e]
    <2>1. Calm(k0, k1)
      BY DEF Calm
    <2>2. Calm(k0, k2)
      <3> HIDE DEF k1
      <3> QED BY <2>1 DEF Calm
    <2>3. Calm(k0, [thread_save(k2, b) EXCEPT !.th[b].state = TS_WAITING])
      <3> HIDE DEF k2
      <3>1. Calm(k0, thread_save(k2, b))
        BY <2>2, CalmThread, Zenon
      <3> QED BY <3>1, CalmThread, Zenon
    <2>4. Calm(k0, enqueue(thread_save(k, b), b))
      <3>1. Calm(k0, thread_save(k, b))
        BY CalmThread, Zenon
      <3> QED BY <3>1, CalmThread, Zenon
    <2>5. event_wait(k, id, e).k \in
            {k, enqueue(thread_save(k, b), b),
             [thread_save(k2, b) EXCEPT !.th[b].state = TS_WAITING]}
      BY Zenon DEF event_wait
    <2> HIDE DEF k2
    <2> QED BY <2>3, <2>4, <2>5
  <1>2. Calm(k0, event_send(k, e))
    <2> DEFINE b  == k.ev_front[e]
               k1 == [k EXCEPT !.ev_front[e] = k.th[b].next_evqueue,
                               !.ev_back[e]  = IF k.th[b].next_evqueue = NULL
                                               THEN NULL ELSE @,
                               !.th[b].eax = e, !.th[b].event = -1]
               k2 == IF k.th[b].state = TS_RUNNING THEN thread_save(k1, b) ELSE k1
               k3 == IF b = NULL THEN k ELSE enqueue(k2, b)
    <2>1. Calm(k0, k1)
      BY DEF Calm
    <2>2. Calm(k0, k2)
      <3> HIDE DEF k1
      <3> QED BY <2>1, CalmThread, Zenon
    <2>3. Calm(k0, k3)
      <3> HIDE DEF k2
      <3> QED BY <2>2, CalmThread, Zenon
    <2> HIDE DEF k3
    <2>4. Calm(k0, irq_mask(k3, e))
      BY <2>3 DEF Calm, irq_mask
    <2>5. Calm(k0, [irq_mask(k3, e) EXCEPT !.irqstate[e] = 1])
      BY <2>4, CalmThread, Zenon
    <2>6. event_send(k, e) \in {k3, [irq_mask(k3, e) EXCEPT !.irqstate[e] = 1]}
      BY Zenon DEF event_send, k3
    <2> QED BY Zenon, <2>3, <2>5, <2>6
  <1> QED BY Zenon, <1>1, <1>2

(* The queues of the dead, of faults, and of those who wait for them. *)
LEMMA CalmQueues ==
  ASSUME NEW k, NEW k0, Calm(k0, k), NEW b, NEW e
  PROVE  /\ Calm(k0, notify(k, b, e))
         /\ Calm(k0, dead_push(k, b)) /\ Calm(k0, dead_pull(k).k) /\ Calm(k0, dead_wait(k, b))
         /\ Calm(k0, fault_push(k, b)) /\ Calm(k0, fault_pull(k).k) /\ Calm(k0, fault_wait(k, b))
  <1>1. ASSUME NEW j, Calm(k0, j), NEW c, NEW f PROVE Calm(k0, notify(j, c, f))
    <2>1. Calm(k0, [j EXCEPT !.th[c].eax = f])
      BY <1>1, CalmThread, Zenon
    <2> QED BY <2>1, CalmThread, Zenon DEF notify
  <1>2. Calm(k0, dead_push(k, b))
    <2> DEFINE r  == k.reaper_tail
               k1 == [k EXCEPT !.reaper_head = IF k.th[r].next_dead = NULL THEN NULL ELSE @,
                               !.reaper_tail = k.th[r].next_dead]
               k2 == [[k EXCEPT !.th[k.dead_head].next_dead = b]
                        EXCEPT !.th[b].next_dead = NULL, !.dead_head = b]
               k3 == [k EXCEPT !.dead_head = b, !.dead_tail = b]
    <2>1. Calm(k0, k1) /\ Calm(k0, k2) /\ Calm(k0, k3)
      BY DEF Calm
    <2>2. dead_push(k, b) \in {notify(k1, r, k.th[b].id), k2, k3}
      BY DEF dead_push
    <2> HIDE DEF k1, k2, k3
    <2> QED BY <1>1, <2>1, <2>2
  <1>3. Calm(k0, dead_pull(k).k) /\ Calm(k0, fault_pull(k).k)
    BY DEF Calm, dead_pull, fault_pull
  <1>4. Calm(k0, dead_wait(k, b))
    <2> DEFINE k1 == dead_pull(k)
               k2 == [[k EXCEPT !.th[k.reaper_head].next_dead = b]
                        EXCEPT !.th[b].next_dead = NULL, !.reaper_head = b]
               k3 == [k EXCEPT !.reaper_head = b, !.reaper_tail = b]
    <2>1. Calm(k0, k2) /\ Calm(k0, k3)
      BY DEF Calm
    <2>2. dead_wait(k, b) \in {notify(k1.k, b, k.th[k1.ret].id), k2, k3}
      BY DEF dead_wait
    <2> HIDE DEF k2, k3
    <2> QED BY <1>1, <1>3, <2>1, <2>2
  <1>5. Calm(k0, fault_push(k, b))
    <2> DEFINE d  == k.debug_tail
               k1 == [k EXCEPT !.debug_head = IF k.th[d].next_fault = NULL THEN NULL ELSE @,
                               !.debug_tail = k.th[d].next_fault]
               k2 == [[k EXCEPT !.th[k.fault_head].next_fault = b]
                        EXCEPT !.th[b].next_fault = NULL, !.fault_head = b]
               k3 == [k EXCEPT !.fault_head = b, !.fault_tail = b]
    <2>1. Calm(k0, k1) /\ Calm(k0, k2) /\ Calm(k0, k3)
      BY DEF Calm
    <2>2. fault_push(k, b) \in {notify(k1, d, k.th[b].id), k2, k3}
      BY DEF fault_push
    <2> HIDE DEF k1, k2, k3
    <2> QED BY <1>1, <2>1, <2>2
  <1>6. Calm(k0, fault_wait(k, b))
    <2> DEFINE k1 == fault_pull(k)
               k2 == [[k EXCEPT !.th[k.debug_head].next_fault = b]
                        EXCEPT !.th[b].next_fault = NULL, !.debug_head = b]
               k3 == [k EXCEPT !.debug_head = b, !.debug_tail = b]
    <2>1. Calm(k0, k2) /\ Calm(k0, k3)
      BY DEF Calm
    <2>2. fault_wait(k, b) \in {notify(k1.k, b, k.th[k1.ret].id), k2, k3}
      BY DEF fault_wait
    <2> HIDE DEF k2, k3
    <2> QED BY Zenon, <1>1, <1>3, <2>1, <2>2
  <1> QED BY Zenon, <1>1, <1>2, <1>3, <1>4, <1>5, <1>6

-----------------------------------------------------------------------------
(* Kernel calls, faults and interrupts. *)

LEMMA CalmSteps ==
  ASSUME NEW k, NEW k0, Calm(k0, k), NEW b, NEW e
  PROVE  /\ Calm(k0, ret(k, b, e)) /\ Calm(k0, requeue(k, b)) /\ Calm(k0, suspend(k, b))
         /\ Calm(k0, thread_alloc(k).k)
  <1>1. Calm(k0, ret(k, b, e))
    BY CalmThread, Zenon DEF ret
  <1>2. Calm(k0, thread_save(k, b))
    BY CalmThread, Zenon
  <1>3. Calm(k0, requeue(k, b)) /\ Calm(k0, suspend(k, b))
    BY <1>2, CalmThread, Zenon DEF requeue, suspend
  <1>4. Calm(k0, thread_alloc(k).k)
    BY ZenonT(60) DEF Calm, thread_alloc
  <1> QED BY <1>1, <1>3, <1>4

(* The return from an interrupt takes the head off the run queue: no walk. *)
LEMMA CalmEntry ==
  ASSUME NEW k, Calm(kern, k), ~kern.halted, Entry(k)
  PROVE  ~kern'.halted
  <1> DEFINE b == k.sched_head
             r == schedule_remv(k, b)
  <1>1. b # NULL => Calm(kern, r)
    BY DEF Calm, schedule_remv
  <1>2. b # NULL => Calm(kern, [thread_load(r, b) EXCEPT !.th[b].state = TS_RUNNING])
    <2> HIDE DEF r
    <2>1. b # NULL => Calm(kern, thread_load(r, b))
      BY <1>1, CalmThread, Zenon
    <2> QED BY <2>1, CalmThread, Zenon
  <1>3. Calm(kern, int_return(k))
    BY <1>2 DEF int_return, schedule_next
  <1>4. Calm(kern, iret(int_return(k)))
    BY Zenon, <1>3, CalmSteps DEF iret
  <1> QED BY <1>4 DEF Entry, Calm

(* schedule_remv finds a queued thread: its walk ends. *)
LEMMA CalmRemv ==
  ASSUME IInv, NEW b \in Block, kern.th[b].state = TS_QUEUED
  PROVE  Calm(kern, schedule_remv(kern, b))
  <1> DEFINE Q == In(States(kern), TS_QUEUED)
             h == kern.sched_head
             hit == {x \in Walked(Nexts(kern), h, b) : kern.th[x].next = b}
  <1>0. Calm(kern, kern)
    BY DEF Calm, IInv, KInv, KernelData
  <1>1. b \in Q /\ Q \in SUBSET Block /\ ListInv(Nexts(kern), h, kern.sched_tail, Q)
    BY DEF In, States, IInv, KInv, SchedInv
  <1>2. CASE h = NULL
    BY Zenon, <1>0, <1>2 DEF schedule_remv
  <1>3. CASE h = b
    BY <1>0, <1>3, ZenonT(60) DEF schedule_remv, Calm
  <1>4. CASE h # NULL /\ h # b
    <2>1. /\ Walked(Nexts(kern), h, b) \subseteq Q
          /\ \E p \in Walked(Nexts(kern), h, b) : Nexts(kern)[p] = b
      BY Zenon, <1>1, <1>4, ListPred, NullIsNoBlock
    <2>2. hit # {} /\ hit \subseteq Block
      BY <1>1, <2>1 DEF Nexts
    <2>3. Pred(kern, h, b) \in hit
      <3> HIDE DEF hit
      <3>1. (CHOOSE x \in hit : TRUE) \in hit
        BY Zenon, <2>2
      <3>2. Pred(kern, h, b) = CHOOSE x \in hit : TRUE
        BY <2>2 DEF Pred, hit
      <3> QED BY <3>1, <3>2
    <2>4. Pred(kern, h, b) # NULL
      BY Zenon, <2>2, <2>3, NullIsNoBlock
    <2> HIDE DEF hit
    <2> QED BY <1>0, <1>4, <2>4, ZenonT(60) DEF schedule_remv, Calm
  <1> QED BY <1>2, <1>3, <1>4

(* A tick sends its timers one after the other. *)
LEMMA CalmTimers ==
  ASSUME NEW k, Calm(kern, k), NEW j
  PROVE  Calm(kern, vtimers(k, j))
  <1>1. ASSUME NEW q, Calm(kern, q), NEW i PROVE Calm(kern, vtimer(q, j, i))
    BY Zenon, <1>1, CalmEvents DEF vtimer
  <1>2. ASSUME NEW q, Calm(kern, q), NEW i PROVE Calm(kern, vtimer4(q, j, i))
    BY Zenon, <1>1, <1>2 DEF vtimer4
  <1> QED BY <1>2 DEF vtimers

(* One kernel entry, of a client that keeps to all the rules or of the     *)
(* hardware.  The rules are used where the code would panic or walk a list *)
(* that the thread is not on: an exception, the reap of an empty slot, and *)
(* the pause of a waiter.                                                  *)
LEMMA StepCalm ==
  ASSUME AllRules \subseteq Rules, IInv, ~kern.halted, Next
  PROVE  ~kern'.halted
  <1>0. /\ "pause_no_waiter" \in Rules /\ "reap_handed_out" \in Rules
        /\ "no_exception" \in Rules
    BY DEF AllRules
  <1>1. Calm(kern, kern) /\ kern \in KernelData
    BY DEF Calm, IInv, KInv, KernelData
  <1>2. CASE Spawn
    <2> DEFINE a == thread_alloc(kern)
    <2>1. Calm(kern, a.k)
      BY Zenon, <1>1, CalmSteps
    <2> HIDE DEF a
    <2>2. Calm(kern, enqueue(a.k, a.ret))
      BY <2>1, CalmThread, ZenonT(60)
    <2>3. Calm(kern, kcall_spawn(kern, image))
      BY Zenon, <2>1, <2>2, CalmSteps DEF kcall_spawn, a
    <2> QED BY Zenon, <1>2, <2>3, CalmEntry DEF Spawn
  <1>3. CASE Gettid
    BY Zenon, <1>1, <1>3, CalmSteps, CalmEntry DEF Gettid, kcall_gettid
  <1>4. CASE Yield
    BY Zenon, <1>1, <1>4, CalmSteps, CalmEntry DEF Yield, kcall_yield
  <1>5. CASE CGetdead
    <2>1. Calm(kern, dead_pull(kern).k) /\ Calm(kern, suspend(kern, image))
      BY Zenon, <1>1, CalmQueues, CalmSteps
    <2>2. Calm(kern, dead_wait(suspend(kern, image), image))
      BY Zenon, <2>1, CalmQueues
    <2>3. Calm(kern, kcall_getdead(kern, image))
      BY Zenon, <2>1, <2>2, CalmSteps DEF kcall_getdead
    <2> QED BY <1>5, <2>3, CalmEntry DEF CGetdead, Getdead
  <1>6. CASE CGetfault
    <2>1. Calm(kern, fault_pull(kern).k) /\ Calm(kern, suspend(kern, image))
      BY Zenon, <1>1, CalmQueues, CalmSteps
    <2>2. Calm(kern, fault_wait(suspend(kern, image), image))
      BY Zenon, <2>1, CalmQueues
    <2>3. Calm(kern, kcall_getfault(kern, image))
      BY <2>1, <2>2, CalmSteps DEF kcall_getfault
    <2> QED BY Zenon, <1>6, <2>3, CalmEntry DEF CGetfault, Getfault
  <1>7. CASE CPageFault
    <2>1. Calm(kern, suspend(kern, image))
      BY Zenon, <1>1, CalmSteps
    <2>2. Calm(kern, fault_page(kern, image, 1))
      BY <2>1, CalmQueues DEF fault_page
    <2> QED BY <1>7, <2>2, CalmEntry DEF CPageFault, PageFault
  <1>8. CASE CFault
    BY Zenon, <1>0, <1>8 DEF CFault, Keep
  <1>9. ASSUME NEW id \in Tid \cup {-1}, CPause(id) PROVE ~kern'.halted
    <2> DEFINE b == target_of(kern, image, id)
    <2>1. b # NULL => b \in Block /\ kern.th[b].state # TS_WAITING
      <3>1. b # NULL => b \in Block
        BY Zenon, <1>1, <1>9, Types, PtrCase DEF target_of, thread_get, image, CPause, Pause, Running
      <3> QED BY <1>0, <1>9, <3>1 DEF CPause, Keep, th
    <2> HIDE DEF b
    <2>2. Calm(kern, suspend(kern, b))
      BY Zenon, <1>1, CalmSteps
    <2>3. CASE b # NULL /\ kern.th[b].state = TS_QUEUED
      <3>1. Calm(kern, [schedule_remv(kern, b) EXCEPT !.th[b].state = TS_PAUSED])
        BY <2>1, <2>3, CalmRemv, CalmThread, ZenonT(60)
      <3>2. kcall_pause(kern, image, id) =
              ret([schedule_remv(kern, b) EXCEPT !.th[b].state = TS_PAUSED], image, 0)
        BY <2>3 DEF kcall_pause, b, TS_QUEUED, TS_RUNNING
      <3>3. Calm(kern, kcall_pause(kern, image, id))
        BY <3>1, <3>2, CalmSteps
      <3> QED BY Zenon, <1>9, <3>3, CalmEntry DEF CPause, Pause
    <2>4. CASE ~(b # NULL /\ kern.th[b].state = TS_QUEUED)
      <3>1. kcall_pause(kern, image, id) \in
              {ret(kern, image, TE_EXIST), ret(suspend(kern, b), image, 0),
               ret(kern, image, TE_STATE)}
        BY <2>1, <2>4, ZenonT(60) DEF kcall_pause, b
      <3>2. Calm(kern, kcall_pause(kern, image, id))
        BY Zenon, <1>1, <2>2, <3>1, CalmSteps
      <3> QED BY <1>9, <3>2, CalmEntry DEF CPause, Pause
    <2> QED BY Zenon, <2>3, <2>4
  <1>10. ASSUME NEW id \in Tid \cup {-1}, CResume(id) PROVE ~kern'.halted
    <2> DEFINE b == thread_get(kern, id)
               w == event_wait(kern, kern.th[b].id, kern.th[b].event)
    <2>1. Calm(kern, enqueue(kern, b)) /\ Calm(kern, w.k)
      BY <1>1, CalmThread, CalmEvents, Zenon
    <2> HIDE DEF w, b
    <2>2. Calm(kern, [w.k EXCEPT !.th[b].state = TS_WAITING])
      BY <2>1, CalmThread, Zenon
    <2>3. kcall_resume(kern, image, id) \in
            {ret(kern, image, TE_EXIST), ret(enqueue(kern, b), image, 0),
             ret([w.k EXCEPT !.th[b].state = TS_WAITING], image, 0),
             ret(kern, image, TE_STATE)}
      BY DEF kcall_resume, b, w
    <2>4. Calm(kern, kcall_resume(kern, image, id))
      BY <1>1, <2>1, <2>2, <2>3, CalmSteps
    <2> QED BY Zenon, <1>10, <2>4, CalmEntry DEF CResume, Resume
  <1>11. ASSUME NEW id \in Tid \cup {-1}, Getstate(id) PROVE ~kern'.halted
    BY Zenon, <1>1, <1>11, CalmSteps, CalmEntry DEF Getstate, kcall_getstate
  <1>12. ASSUME NEW id \in Tid \cup {-1}, CReap(id) PROVE ~kern'.halted
    <2>1. thread_get(kern, id) # NULL
      BY <1>0, <1>12 DEF CReap, Keep
    <2>2. Calm(kern, ret(kern, image, 0)) /\ Calm(kern, ret(kern, image, TE_STATE))
      BY <1>1, CalmSteps
    <2>3. Calm(kern, thread_kill(ret(kern, image, 0), thread_get(kern, id)))
      BY <2>2, CalmThread, Zenon
    <2>4. Calm(kern, kcall_reap(kern, image, id))
      BY <2>1, <2>2, <2>3 DEF kcall_reap
    <2> QED BY Zenon, <1>12, <2>4, CalmEntry DEF CReap, Reap
  <1>13. ASSUME NEW id \in Tid \cup {-1}, NEW s \in Info, CSetstate(id, s) PROVE ~kern'.halted
    <2> DEFINE b  == target_of(kern, image, id)
               k1 == IF kern.th[b].state = TS_RUNNING THEN suspend(kern, b) ELSE kern
               k2 == IF s.dead THEN dead_push(k1, b) ELSE kern
               k3 == [k2 EXCEPT !.th[b].dead = s.dead]
               k4 == IF k3.th[b].state # TS_RUNNING
                     THEN [k3 EXCEPT !.th[b].eax = s.eax] ELSE k3
    <2>1. Calm(kern, k1)
      BY <1>1, CalmSteps
    <2>2. Calm(kern, k2)
      <3> HIDE DEF k1
      <3> QED BY <1>1, <2>1, CalmQueues
    <2>3. Calm(kern, k3)
      <3> HIDE DEF k2
      <3> QED BY <2>2, CalmThread, Zenon
    <2>4. Calm(kern, k4)
      <3> HIDE DEF k3
      <3> QED BY <2>3, CalmThread, Zenon
    <2>5. kcall_setstate(kern, image, id, s) \in
            {ret(kern, image, TE_EXIST), ret(k4, image, 0), ret(kern, image, TE_STATE)}
      BY ZenonT(60) DEF kcall_setstate
    <2> HIDE DEF k4
    <2>6. Calm(kern, kcall_setstate(kern, image, id, s))
      BY Zenon, <1>1, <2>4, <2>5, CalmSteps
    <2> QED BY Zenon, <1>13, <2>6, CalmEntry DEF CSetstate, Setstate
  <1>14. ASSUME NEW e, Wait(e) PROVE ~kern'.halted
    BY Zenon, <1>1, <1>14, CalmEvents, CalmSteps, CalmEntry DEF Wait, kcall_wait
  <1>15. ASSUME NEW e \in Event, Reset(e) PROVE ~kern'.halted
    <2> DEFINE k1 == [kern EXCEPT !.irqstate[e] = 0]
    <2>1. Calm(kern, k1)
      BY <1>1, CalmThread, Zenon
    <2> HIDE DEF k1
    <2>2. Calm(kern, irq_unmask(k1, e))
      BY <2>1 DEF Calm, irq_unmask
    <2>3. Calm(kern, kcall_reset(kern, image, e))
      BY <1>1, <2>2, CalmSteps DEF kcall_reset, k1
    <2> QED BY <1>15, <2>3, CalmEntry DEF Reset
  <1>16. ASSUME NEW i \in Irq, Interrupt(i) PROVE ~kern'.halted
    BY Zenon, <1>1, <1>16, CalmEvents, CalmEntry DEF Interrupt
  <1>17. ASSUME NEW j \in Due, Tick(j) PROVE ~kern'.halted
    <2>1. Calm(kern, vtimers(kern, j))
      BY Zenon, <1>1, CalmTimers
    <2>2. Calm(kern, timer_handler(kern, image, j))
      BY Zenon, <2>1, CalmSteps DEF timer_handler
    <2> QED BY Zenon, <1>17, <2>2, CalmEntry DEF Tick
  <1> QED
    BY Zenon, <1>2, <1>3, <1>4, <1>5, <1>6, <1>7, <1>8, <1>9, <1>10, <1>11, <1>12, <1>13,
       <1>14, <1>15, <1>16, <1>17 DEF Next, Client, Hardware

-----------------------------------------------------------------------------
(* Every step of the kernel preserves the invariant. *)

(* An entry whose handler preserves the invariant preserves it. *)
LEMMA EntryInv ==
  ASSUME NEW h, Settled(h), Entry(h)
  PROVE  IInv'
  <1>1. Settled(iret(int_return(h)))
    BY EntrySettled
  <1> QED BY <1>1 DEF Entry, IInv, Settled

(* What the handler and the tail of int_handler together make of a death:  *)
(* as Delivered, or the reaper runs already.                               *)
Handed(k, j, x) ==
  IF k.reaper_tail = NULL THEN x \in Dead(j)
  ELSE /\ j.reaper_tail = NULL
       /\ \/ j.th[k.reaper_tail].state = TS_QUEUED /\ j.th[k.reaper_tail].eax = k.th[x].id
          \/ j.th[k.reaper_tail].state = TS_RUNNING

(* What a handler does, and what a whole entry does. *)
Proper(k, h) ==
  Orderly(k, h) /\ \A x \in Block : h.th[x].dead /\ ~k.th[x].dead => Delivered(k, h, x)
ProperStep ==
  /\ IInv' /\ Orderly(kern, kern')
  /\ \A x \in Block : kern'.th[x].dead /\ ~kern.th[x].dead => Handed(kern, kern', x)

(* The tail of int_handler only picks the thread to run. *)
LEMMA EntryStep ==
  ASSUME Settled(kern), NEW h, Settled(h), Proper(kern, h), Entry(h)
  PROVE  ProperStep
  <1>1. PICK j : j = iret(int_return(h))
    BY Zenon
  <1>2. kern' = j
    BY <1>1 DEF Entry
  <1>3. Alive(h, j) /\ SameBlocked(h, j) /\ SameDead(h, j)
    BY Zenon, <1>1, EntryTouch
  <1>4. PICK b : Touch(h, j, b) /\ (b \in Block => j.th[b].state = TS_RUNNING)
    BY Zenon, <1>1, EntryTouch
  <1>5. Orderly(kern, j)
    BY Zenon, <1>4, OrderlyTouch DEF Proper
  <1>6. ASSUME NEW x \in Block, j.th[x].dead, ~kern.th[x].dead
        PROVE  Handed(kern, j, x)
    <2>1. Delivered(kern, h, x)
      BY <1>3, <1>6 DEF Alive, Proper
    <2>2. CASE kern.reaper_tail = NULL
      BY Zenon, <1>3, <2>1, <2>2, DeadSame DEF Delivered, Handed
    <2>3. CASE kern.reaper_tail \in Block
      <3>1. PICK w : w = kern.reaper_tail
        BY Zenon
      <3>2. w \in Block /\ w # NULL
        BY Zenon, <2>3, <3>1, NullIsNoBlock
      <3>3. /\ h.reaper_tail = NULL /\ h.th[w].state = TS_QUEUED
            /\ h.th[w].eax = kern.th[x].id
        BY Zenon, <2>1, <3>1, <3>2 DEF Delivered
      <3>4. w # b => Same3(h, j, w)
        BY Zenon, <1>4, <3>2 DEF Touch
      <3>5. \/ j.th[w].state = TS_QUEUED /\ j.th[w].eax = kern.th[x].id
            \/ j.th[w].state = TS_RUNNING
        BY Zenon, <1>4, <3>2, <3>3, <3>4 DEF Same3
      <3>6. j.reaper_tail = NULL
        BY <1>3, <3>3 DEF SameBlocked
      <3> QED BY Zenon, <3>1, <3>2, <3>5, <3>6 DEF Handed
    <2> QED BY Zenon, <2>2, <2>3, Types, PtrCase DEF Settled, KInv
  <1>7. IInv'
    BY EntryInv
  <1> QED BY Zenon, <1>2, <1>5, <1>6, <1>7 DEF ProperStep

(* As it is for a handler in which nobody dies. *)
LEMMA EntryMild ==
  ASSUME Settled(kern), NEW h, Settled(h), Mild(kern, h), Entry(h)
  PROVE  ProperStep
  <1>1. Proper(kern, h)
    BY DEF Mild, Alive, Proper
  <1> QED BY <1>1, EntryStep

(* What the rules say of the queues, in terms of the invariant. *)
LEMMA RuleFacts ==
  ASSUME IInv
  PROVE  /\ \A b \in Block : NotBlocked(b) => b # kern.reaper_tail /\ b # kern.debug_tail
         /\ DeadQueue = Dead(kern)
  <1>1. kern \in KernelData
    BY DEF IInv, KInv
  <1>2. ASSUME NEW link, NEW b \in Block PROVE b \in List(link, b)
    BY NullIsNoBlock DEF List, Walked
  <1>3. DeadQueue = Dead(kern)
    BY DEF DeadQueue, Dead, List, NextDead, NextDeads, th
  <1> QED BY <1>2, <1>3 DEF NotBlocked, Reapers, Debuggers

(* The members of the queues in terms of the invariant. *)
LEMMA QueueMembers ==
  ASSUME IInv
  PROVE  /\ RunQueue = In(States(kern), TS_QUEUED)
         /\ \A e \in Event : Waiters(e) = Waiting(kern, States(kern), e)
         /\ DeadQueue = Dead(kern) /\ Dead(kern) \subseteq Block
         /\ Reapers = IF kern.reaper_tail = NULL THEN {} ELSE {kern.reaper_tail}
         /\ Debuggers = IF kern.debug_tail = NULL THEN {} ELSE {kern.debug_tail}
         /\ FaultQueue = {}
  <1> DEFINE s == States(kern)
  <1>0. /\ kern \in KernelData /\ SchedInv(kern, s) /\ EventInv(kern, s)
        /\ BlockedInv(kern, s) /\ DeadInv(kern, s)
    BY DEF IInv, KInv
  <1>1. RunQueue = In(s, TS_QUEUED)
    <2>1. In(s, TS_QUEUED) \in SUBSET Block
      BY DEF In
    <2> QED BY Zenon, <1>0, <2>1, ListMembers DEF RunQueue, SchedInv
  <1>2. ASSUME NEW e \in Event PROVE Waiters(e) = Waiting(kern, s, e)
    <2>1. Waiting(kern, s, e) \in SUBSET Block /\ NextEv = NextEvs(kern)
      BY DEF Waiting, In, NextEv, NextEvs, th
    <2> QED BY <1>0, <2>1, ListMembers DEF Waiters, EventInv
  <1>3. DeadQueue = Dead(kern) /\ Dead(kern) \subseteq Block
    BY RuleFacts DEF Dead, Walked
  <1>4. ASSUME NEW link, NEW b \in Block, link[b] = NULL
        PROVE  List(link, b) = {b}
    <2>1. {b} \in SUBSET Block
      OBVIOUS
    <2>2. Walked(link, b, NULL) = {b}
      BY Zenon, <1>4, <2>1 DEF Walked
    <2> QED BY <2>2, NullIsNoBlock DEF List
  <1>5. Reapers = IF kern.reaper_tail = NULL THEN {} ELSE {kern.reaper_tail}
    <2>1. CASE kern.reaper_tail = NULL
      BY <2>1 DEF Reapers, List
    <2>2. CASE kern.reaper_tail \in Block /\ kern.reaper_tail # NULL
      <3>1. NextDead[kern.reaper_tail] = NULL
        BY Zenon, <1>0, <2>2 DEF BlockedInv, DeadInv, NextDead, th
      <3> QED BY Zenon, <1>4, <2>2, <3>1 DEF Reapers
    <2> QED BY Zenon, <1>0, <2>1, <2>2, Types, PtrCase
  <1>6. Debuggers = IF kern.debug_tail = NULL THEN {} ELSE {kern.debug_tail}
    <2>1. CASE kern.debug_tail = NULL
      BY <2>1 DEF Debuggers, List
    <2>2. CASE kern.debug_tail \in Block /\ kern.debug_tail # NULL
      <3>1. NextFault[kern.debug_tail] = NULL
        BY Zenon, <1>0, <2>2 DEF BlockedInv, NextFault, th
      <3> QED BY Zenon, <1>4, <2>2, <3>1 DEF Debuggers
    <2> QED BY Zenon, <1>0, <2>1, <2>2, Types, PtrCase
  <1>7. FaultQueue = {}
    BY <1>0 DEF BlockedInv, FaultQueue, List
  <1> QED BY Zenon, <1>1, <1>2, <1>3, <1>5, <1>6, <1>7

(* The table holds structs. *)
LEMMA AllocatedStructs ==
  ASSUME IInv
  PROVE  Allocated \subseteq Block
  <1>1. kern.table \in [Tid -> Ptr]
    BY Types DEF IInv, KInv
  <1> QED BY <1>1, PtrCase DEF Allocated

(* A thread that runs, is queued, waits, is blocked or awaits its reaper   *)
(* is in the table.                                                        *)
LEMMA LiveAllocated ==
  ASSUME IInv, NEW b \in Block,
         \/ th[b].state \in {TS_RUNNING, TS_QUEUED, TS_WAITING}
         \/ b \in {kern.reaper_tail, kern.debug_tail} \cup Dead(kern)
  PROVE  b \in Allocated
  <1>1. kern \in KernelData /\ TableInv(kern, States(kern)) /\ b # NULL
    BY Zenon, NullIsNoBlock DEF IInv, KInv
  <1>2. kern.table[kern.th[b].id] = b /\ kern.th[b].id \in Tid
    BY Zenon, <1>1, Types DEF TableInv, States, th
  <1> QED BY Zenon, <1>1, <1>2 DEF Allocated

(* thread_alloc takes the least slot that is free: there is a least one,   *)
(* which is shown below, after all that rests on it.                       *)
LeastSlot == \A S \in SUBSET Tid : S # {} => \E n \in S : \A m \in S : n <= m

(* thread_alloc touches only a struct of the bucket. *)
LEMMA FreshMild ==
  ASSUME NEW k, NEW r, NEW b, NEW t, Settled(k), k.heap # <<>>, b = Head(k.heap),
         FreshStruct(k, r, b, t), FreshRest(k, r)
  PROVE  Mild(k, r) /\ Steady(k, b)
  <1> DEFINE s == States(k)
  <1>0. k \in KernelData /\ SchedInv(k, s) /\ TableInv(k, s)
    BY Zenon DEF Settled, KInv
  <1>1. k.heap \in FreeList /\ Once(k.heap) /\ Members(k.heap) = OnHeap(k)
    BY Zenon, <1>0, Types DEF TableInv, Once, Members, OnHeap
  <1>2. b \in Block /\ b \in OnHeap(k)
    BY Zenon, <1>1, HeapPop
  <1>3. k.th[b].state \in {TS_FREE, TS_PAUSED}
    BY Zenon, <1>0, <1>2 DEF TableInv, States
  <1>4. Steady(k, b) /\ k.th[b].state # TS_QUEUED
    BY <1>3 DEF Steady, TS_FREE, TS_PAUSED, TS_QUEUED, TS_WAITING
  <1>5. \A x \in Block \ {b} : r.th[x] = k.th[x]
    BY Zenon DEF FreshStruct
  <1>6. ASSUME NEW x \in Block \ {b}, k.th[x].state = TS_QUEUED
        PROVE  Before(r, x) \subseteq Before(k, x)
    <2>1. PICK Q : Q = In(s, TS_QUEUED)
      BY Zenon
    <2>2. Q \in SUBSET Block /\ b \notin Q /\ x \in Q
      BY Zenon, <1>4, <1>6, <2>1 DEF In, States
    <2>3. ListInv(Nexts(k), k.sched_head, k.sched_tail, Q)
      BY Zenon, <1>0, <2>1 DEF SchedInv
    <2>4. \A y \in Q \ {k.sched_tail} : Nexts(r)[y] = Nexts(k)[y]
      BY Zenon, <1>5, <2>2 DEF Nexts
    <2>5. Front(Nexts(r), k.sched_head, x) \subseteq Front(Nexts(k), k.sched_head, x)
      BY Zenon, <2>2, <2>3, <2>4, NullIsNoBlock, AppendFront
    <2> QED BY Zenon, <2>5 DEF Before, FreshRest
  <1>7. Touch(k, r, b)
    BY <1>5, <1>6 DEF Touch, Same3
  <1>8. Alive(k, r)
    BY <1>5 DEF Alive, FreshStruct
  <1>9. Mild(k, k)
    BY OrderlySelf DEF Mild
  <1> QED BY Zenon, <1>4, <1>7, <1>8, <1>9, MildMore

(* thread_alloc preserves the invariant, what it returns is idle or NULL,  *)
(* and no thread but that one is touched.                                  *)
LEMMA AllocSettled ==
  ASSUME NEW k, Settled(k), k.heap # <<>>, LeastSlot
  PROVE  LET a == thread_alloc(k)
         IN  /\ Settled(a.k) /\ a.ret \in Ptr
             /\ a.ret # NULL => Idle(a.k, States(a.k), a.ret) /\ Steady(k, a.ret)
             /\ Mild(k, a.k)
  <1> DEFINE b    == Head(k.heap)
             slot == {i \in Tid : k.table[i] = NULL}
             i    == CHOOSE n \in slot : \A m \in slot : n <= m
  <1>0. k \in KernelData /\ k.heap \in FreeList /\ Once(k.heap) /\ 0 \in Tid
    <2>1. k \in KernelData /\ TableInv(k, States(k))
      BY Zenon DEF Settled, KInv
    <2>2. k.heap \in FreeList /\ Once(k.heap)
      BY <2>1, Types DEF TableInv, Once
    <2>3. 0 \in Tid
      BY ThreadCountPos DEF Tid
    <2> QED BY Zenon, <2>1, <2>2, <2>3
  <1>1. b \in Block /\ Tail(k.heap) \in FreeList
    BY <1>0, HeapPop
  <1>2. /\ ZeroThread \in ThreadStruct /\ ZeroThread.state = TS_FREE /\ ZeroThread.dead = FALSE
        /\ ZeroThread.next_dead = NULL /\ ZeroThread.next_fault = NULL
    BY <1>0 DEF ZeroThread, ThreadStruct, Ptr, TS_FREE
  <1>5. b = Head(k.heap)
    OBVIOUS
  <1> HIDE DEF b
  <1>3. CASE slot = {}
    <2> DEFINE r == [k EXCEPT !.heap = Tail(k.heap), !.th[b] = ZeroThread]
    <2>1. thread_alloc(k) = [ret |-> NULL, k |-> r]
      BY <1>3 DEF thread_alloc, b
    <2>2. r \in KernelData
      BY <1>0, <1>1, <1>2, SetTable, SetThread, Zenon DEF Ptr
    <2>3. FreshRest(k, r) /\ r.table = k.table
      BY Zenon, <1>0 DEF KernelData, SameLatch, FreshRest
    <2>4. \A x \in Block : r.th[x] = IF x = b THEN ZeroThread ELSE k.th[x]
      BY Zenon, <1>0 DEF KernelData
    <2> HIDE DEF r
    <2>5. FreshStruct(k, r, b, ZeroThread) /\ FreshSlot(k, r, b, ZeroThread, 0)
      BY Zenon, <1>2, <2>3, <2>4 DEF FreshStruct, FreshSlot
    <2>6. Settled(r)
      BY Zenon, <1>0, <1>5, <2>2, <2>3, <2>5, FreshSettled
    <2>7. Mild(k, r)
      BY Zenon, <1>5, <2>3, <2>5, FreshMild
    <2> QED BY <2>1, <2>6, <2>7 DEF Ptr
  <1>4. CASE slot # {}
    <2>1. i \in slot
      <3>1. \E n \in slot : \A m \in slot : n <= m
        <4>1. slot \in SUBSET Tid
          BY Zenon
        <4> HIDE DEF slot
        <4> QED BY Zenon, <1>4, <4>1 DEF LeastSlot
      <3> QED BY <3>1
    <2>2. i \in Tid /\ k.table[i] = NULL
      BY <2>1
    <2> DEFINE t == [ZeroThread EXCEPT !.id = i, !.state = TS_PAUSED]
               r == [k EXCEPT !.heap = Tail(k.heap), !.table[i] = b, !.th[b] = t]
    <2>3. thread_alloc(k) = [ret |-> b, k |-> r]
      BY <1>4 DEF thread_alloc, b
    <2> HIDE DEF i, slot
    <2>4. /\ t \in ThreadStruct /\ t.state = TS_PAUSED /\ t.dead = FALSE /\ t.id = i
          /\ t.next_dead = NULL /\ t.next_fault = NULL
      <3>1. TS_PAUSED \in 0..5
        BY DEF TS_PAUSED
      <3>2. t \in ThreadStruct
        BY Zenon, <1>2, <2>2, <3>1 DEF ThreadStruct
      <3>3. t.state = TS_PAUSED /\ t.id = i /\ t.next_dead = NULL /\ t.next_fault = NULL
        BY <1>2 DEF ThreadStruct
      <3>4. t.dead = FALSE
        BY <1>2 DEF ThreadStruct
      <3> QED BY Zenon, <3>2, <3>3, <3>4
    <2> HIDE DEF t
    <2>5. r \in KernelData
      BY <1>0, <1>1, <2>2, <2>4, SetTable, SetThread, Zenon DEF Ptr
    <2>6. FreshRest(k, r)
      BY <1>0 DEF KernelData, SameLatch, FreshRest
    <2>7. /\ \A x \in Block : r.th[x] = IF x = b THEN t ELSE k.th[x]
          /\ \A j \in Tid : r.table[j] = IF j = i THEN b ELSE k.table[j]
      BY <1>0 DEF KernelData
    <2>8. b # NULL /\ r.table # k.table
      BY Zenon, <1>1, <2>2, <2>7, NullIsNoBlock
    <2> HIDE DEF r
    <2>9. FreshStruct(k, r, b, t) /\ FreshSlot(k, r, b, t, i)
      BY Zenon, <2>2, <2>4, <2>7, <2>8 DEF FreshStruct, FreshSlot
    <2>10. /\ Settled(r) /\ b \notin OnHeap(r) /\ b \notin Dead(r)
           /\ b # r.reaper_tail /\ b # r.debug_tail
      BY <1>5, <2>2, <2>5, <2>6, <2>9, FreshSettled, Zenon
    <2>11. Idle(r, States(r), b)
      BY Zenon, <1>1, <2>2, <2>4, <2>7, <2>10 DEF Idle, States
    <2>12. Mild(k, r) /\ Steady(k, b)
      BY Zenon, <1>5, <2>6, <2>9, FreshMild
    <2> QED BY <1>1, <2>3, <2>10, <2>11, <2>12 DEF Ptr
  <1> QED BY Zenon, <1>3, <1>4

(* kcall_spawn: the new thread is queued, or the table is full. *)
LEMMA SpawnSettled ==
  ASSUME NEW k, Settled(k), k.active \in Block, k.heap # <<>>, LeastSlot
  PROVE  Settled(kcall_spawn(k, k.active)) /\ Mild(k, kcall_spawn(k, k.active))
  <1> DEFINE a == k.active
  <1>1. PICK q, b : q = thread_alloc(k).k /\ b = thread_alloc(k).ret
    BY Zenon
  <1>2. /\ Settled(q) /\ b \in Ptr /\ Mild(k, q)
        /\ b # NULL => Idle(q, States(q), b) /\ Steady(k, b)
    BY Zenon, <1>1, AllocSettled
  <1>3. q \in KernelData /\ -1 \in Int
    BY <1>2 DEF Settled, KInv
  <1>4. CASE b = NULL
    <2>1. Settled(ret(q, a, -1))
      BY Zenon, <1>2, <1>3, RetKeeps
    <2>2. Mild(k, ret(q, a, -1))
      BY Zenon, <1>2, <1>3, MildRet
    <2> QED BY Zenon, <1>1, <1>4, <2>1, <2>2 DEF kcall_spawn
  <1>5. CASE b # NULL
    <2>1. Off(q, b)
      BY Zenon, <1>2, <1>5, IdleOff
    <2>2. PICK p : p = enqueue(q, b)
      BY Zenon
    <2>3. Settled(p) /\ p \in KernelData
      BY Zenon, <2>1, <2>2, EnqueueOff DEF Settled, KInv
    <2>4. q.th[b].id \in Int
      BY <1>2, <1>3, <1>5, Types, PtrCase DEF Tid
    <2>5. Settled(ret(p, a, q.th[b].id))
      BY Zenon, <2>3, <2>4, RetKeeps
    <2>6. Touch(q, p, b) /\ Alive(q, p)
      BY Zenon, <2>1, <2>2, TouchEnqueue
    <2>7. Mild(k, p)
      BY Zenon, <1>2, <1>5, <2>6, MildMore
    <2>8. Mild(k, ret(p, a, q.th[b].id))
      BY Zenon, <2>3, <2>7, MildRet
    <2> QED BY Zenon, <1>1, <1>5, <2>2, <2>5, <2>8 DEF kcall_spawn
  <1> QED BY <1>4, <1>5

(* Every step, of a client under the rules or of the hardware, preserves   *)
(* the invariant, puts nobody ahead of a queued thread, wakes a waiter     *)
(* only by its event and hands every death over.                           *)
LEMMA StepProper ==
  ASSUME SafeRules \subseteq Rules, LeastSlot, IInv, [Next]_kern
  PROVE  ProperStep
  <1>0. /\ "pause_no_waiter" \in Rules /\ "leave_blocked_alone" \in Rules
        /\ "one_reaper" \in Rules /\ "one_debugger" \in Rules /\ "kill_once" \in Rules
        /\ "reap_handed_out" \in Rules /\ "fault_when_debugged" \in Rules
    BY DEF SafeRules, AllRules
  <1>1. Settled(kern) /\ kern \in KernelData
    BY DEF IInv, Settled, KInv
  <1>2. Running => kern.active \in Block /\ image = kern.active
    BY Zenon, <1>1, Types, PtrCase DEF Running, image
  <1>3. CASE Spawn
    BY Zenon, <1>1, <1>2, <1>3, SpawnSettled, EntryMild DEF Spawn
  <1>4. CASE Gettid
    <2>1. kern.active \in Block /\ kern.th[kern.active].id \in Int
      BY <1>1, <1>2, <1>4, Types DEF Gettid, Tid
    <2>2. Settled(kcall_gettid(kern, image))
      BY Zenon, <1>1, <1>2, <1>4, <2>1, RetSettled DEF Gettid, kcall_gettid
    <2>3. Mild(kern, kcall_gettid(kern, image))
      BY Zenon, <1>1, <1>2, <1>4, <2>1, RetMild DEF Gettid, kcall_gettid
    <2> QED BY Zenon, <1>1, <1>4, <2>2, <2>3, EntryMild DEF Gettid
  <1>5. CASE Yield
    <2>1. Settled(kcall_yield(kern, image)) /\ Mild(kern, kcall_yield(kern, image))
      BY Zenon, <1>1, <1>2, <1>5, RequeueSettled, YieldMild DEF Yield, kcall_yield
    <2> QED BY Zenon, <1>1, <1>5, <2>1, EntryMild DEF Yield
  <1>6. CASE CGetdead
    <2>1. Settled(kcall_getdead(kern, image))
      BY Zenon, <1>0, <1>1, <1>2, <1>6, GetdeadSettled DEF CGetdead, Getdead, Keep
    <2>2. Mild(kern, kcall_getdead(kern, image))
      BY Zenon, <1>0, <1>1, <1>2, <1>6, GetdeadMild DEF CGetdead, Getdead, Keep
    <2> QED BY Zenon, <1>1, <1>6, <2>1, <2>2, EntryMild DEF CGetdead, Getdead
  <1>7. CASE CGetfault
    <2>1. Settled(kcall_getfault(kern, image))
      BY Zenon, <1>0, <1>1, <1>2, <1>7, GetfaultSettled DEF CGetfault, Getfault, Keep
    <2>2. Mild(kern, kcall_getfault(kern, image))
      BY Zenon, <1>0, <1>1, <1>2, <1>7, GetfaultMild DEF CGetfault, Getfault, Keep
    <2> QED BY Zenon, <1>1, <1>7, <2>1, <2>2, EntryMild DEF CGetfault, Getfault
  <1>8. CASE CPageFault
    <2>1. Settled(fault_page(kern, image, 1))
      BY Zenon, <1>0, <1>1, <1>2, <1>8, PageFaultSettled DEF CPageFault, PageFault, Keep
    <2>2. Mild(kern, fault_page(kern, image, 1))
      BY Zenon, <1>0, <1>1, <1>2, <1>8, PageFaultMild DEF CPageFault, PageFault, Keep
    <2> QED BY Zenon, <1>1, <1>8, <2>1, <2>2, EntryMild DEF CPageFault, PageFault
  <1>9. CASE CFault
    <2>1. PICK h : h = fault_generic(kern, image, 1)
      BY Zenon
    <2>2. h = [kern EXCEPT !.halted = TRUE]
      BY <2>1 DEF fault_generic, debug_panic
    <2>3. h \in KernelData /\ h.active = kern.active /\ SameQueues(kern, h) /\ SameStates(kern, h)
      BY Zenon, <1>1, <2>2, HaltEffect
    <2>4. Settled(h)
      BY Zenon, <1>1, <2>3, KSame, SameStatesEq DEF Settled
    <2>5. h.th = kern.th /\ h.sched_head = kern.sched_head
      BY Zenon, <1>1, <2>2 DEF KernelData
    <2>6. Mild(kern, h)
      BY Zenon, <2>5, NullIsNoBlock, TouchNone, OrderlySelf, MildMore DEF Mild
    <2> QED BY Zenon, <1>1, <1>9, <2>1, <2>4, <2>6, EntryMild DEF CFault, Fault
  <1>10. ASSUME NEW id \in Tid \cup {-1}, CPause(id) PROVE ProperStep
    <2>1. Settled(kcall_pause(kern, image, id))
      BY Zenon, <1>0, <1>1, <1>2, <1>10, PauseSettled DEF CPause, Pause, Keep, th
    <2>2. Mild(kern, kcall_pause(kern, image, id))
      BY Zenon, <1>0, <1>1, <1>2, <1>10, PauseMild DEF CPause, Pause, Keep, th
    <2> QED BY Zenon, <1>1, <1>10, <2>1, <2>2, EntryMild DEF CPause, Pause
  <1>11. ASSUME NEW id \in Tid \cup {-1}, CResume(id) PROVE ProperStep
    <2>0. kern.active \in Block
      BY Zenon, <1>2, <1>11 DEF CResume, Resume
    <2>1. thread_get(kern, id) # NULL => thread_get(kern, id) \in Block
      BY Zenon, <1>1, <2>0, TargetType
    <2>2. Settled(kcall_resume(kern, image, id))
      BY Zenon, <1>0, <1>1, <1>2, <1>11, <2>1, RuleFacts, ResumeSettled DEF CResume, Resume, Keep, th
    <2>3. Mild(kern, kcall_resume(kern, image, id))
      BY Zenon, <1>0, <1>1, <1>2, <1>11, <2>1, RuleFacts, ResumeMild DEF CResume, Resume, Keep, th
    <2> QED BY Zenon, <1>1, <1>11, <2>2, <2>3, EntryMild DEF CResume, Resume
  <1>12. ASSUME NEW id \in Tid \cup {-1}, Getstate(id) PROVE ProperStep
    <2>1. Settled(kcall_getstate(kern, image, id))
      <3>1. TE_EXIST \in Int /\ TE_STATE \in Int /\ 0 \in Int
        BY DEF TE_EXIST, TE_STATE
      <3> QED BY Zenon, <1>1, <1>2, <1>12, <3>1, RetSettled DEF Getstate, kcall_getstate
    <2>2. Mild(kern, kcall_getstate(kern, image, id))
      BY Zenon, <1>1, <1>2, <1>12, RetMild DEF Getstate, kcall_getstate
    <2> QED BY Zenon, <1>1, <1>12, <2>1, <2>2, EntryMild DEF Getstate
  <1>13. ASSUME NEW id \in Tid \cup {-1}, CReap(id) PROVE ProperStep
    <2>0. kern.active \in Block
      BY Zenon, <1>2, <1>13 DEF CReap, Reap
    <2>1. /\ thread_get(kern, id) # NULL /\ kern.th[thread_get(kern, id)].dead
          /\ thread_get(kern, id) \notin DeadQueue /\ NotBlocked(thread_get(kern, id))
      BY Zenon, <1>0, <1>13 DEF CReap, Keep, th
    <2>2. thread_get(kern, id) \in Block
      BY Zenon, <1>1, <2>0, <2>1, TargetType
    <2>3. Settled(kcall_reap(kern, image, id))
      BY Zenon, <1>1, <2>0, <2>1, <2>2, RuleFacts, ReapSettled DEF image
    <2>4. Mild(kern, kcall_reap(kern, image, id))
      BY Zenon, <1>1, <2>0, <2>1, ReapMild DEF image
    <2> QED BY Zenon, <1>1, <1>13, <2>3, <2>4, EntryMild DEF CReap, Reap
  <1>14. ASSUME NEW id \in Tid \cup {-1}, NEW s \in Info, CSetstate(id, s) PROVE ProperStep
    <2>0. kern.active \in Block
      BY Zenon, <1>2, <1>14 DEF CSetstate, Setstate
    <2>1. target_of(kern, kern.active, id) # NULL => target_of(kern, kern.active, id) \in Block
      BY Zenon, <1>1, <2>0, TargetType
    <2>2. Settled(kcall_setstate(kern, image, id, s))
      BY Zenon, <1>0, <1>1, <1>2, <1>14, <2>0, <2>1, RuleFacts, SetstateSettled
         DEF CSetstate, Setstate, Keep, th
    <2>3. Proper(kern, kcall_setstate(kern, image, id, s))
      BY Zenon, <1>0, <1>1, <1>2, <1>14, <2>0, <2>1, RuleFacts, SetstateOrderly
         DEF CSetstate, Setstate, Keep, th, Proper
    <2> QED BY Zenon, <1>1, <1>14, <2>2, <2>3, EntryStep DEF CSetstate, Setstate
  <1>15. ASSUME NEW e \in Event, NEW v \in {e, -e - 1}, Wait(v) PROVE ProperStep
    <2>0. kern.active \in Block
      BY Zenon, <1>2, <1>15 DEF Wait
    <2>1. PICK w : w = event_wait(kern, kern.th[kern.active].id, v)
      BY Zenon
    <2>2. Settled(w.k) /\ w.ret \in Int /\ w.k \in KernelData
      BY Zenon, <1>1, <2>0, <2>1, WaitSettled DEF Settled, KInv
    <2>3. Settled(ret(w.k, kern.active, w.ret))
      BY Zenon, <2>0, <2>2, RetKeeps
    <2>4. kcall_wait(kern, image, v) = ret(w.k, kern.active, w.ret)
      BY <2>1 DEF kcall_wait, image
    <2>5. Mild(kern, w.k)
      BY Zenon, <1>1, <2>0, <2>1, WaitMild
    <2>6. Mild(kern, ret(w.k, kern.active, w.ret))
      BY Zenon, <1>1, <2>0, <2>2, <2>5, MildRet
    <2> QED BY Zenon, <1>1, <1>15, <2>3, <2>4, <2>6, EntryMild DEF Wait
  <1>16. ASSUME NEW e \in Event, Reset(e) PROVE ProperStep
    <2>1. Settled(kcall_reset(kern, image, e))
      BY Zenon, <1>1, <1>2, <1>16, ResetSettled DEF Reset
    <2>2. Mild(kern, kcall_reset(kern, image, e))
      BY Zenon, <1>1, <1>2, <1>16, ResetMild DEF Reset
    <2> QED BY Zenon, <1>1, <1>16, <2>1, <2>2, EntryMild DEF Reset
  <1>17. ASSUME NEW i \in Irq, Interrupt(i) PROVE ProperStep
    <2>1. Settled(event_send(kern, i))
      BY Zenon, <1>1, EventType, SendSettled
    <2>2. Mild(kern, event_send(kern, i))
      BY Zenon, <1>1, EventType, OrderlySelf, OrderlySend DEF Mild
    <2> QED BY Zenon, <1>1, <1>17, <2>1, <2>2, EntryMild DEF Interrupt
  <1>18. ASSUME NEW j \in Due, Tick(j) PROVE ProperStep
    <2>1. Settled(timer_handler(kern, image, j))
      BY <1>1, TickSettled DEF image
    <2>2. Mild(kern, timer_handler(kern, image, j))
      BY <1>1, TickMild DEF image
    <2> QED BY Zenon, <1>1, <1>18, <2>1, <2>2, EntryMild DEF Tick
  <1>19. CASE UNCHANGED kern
    BY <1>19, OrderlySelf DEF IInv, ProperStep
  <1> QED
    BY Zenon, <1>3, <1>4, <1>5, <1>6, <1>7, <1>8, <1>9, <1>10, <1>11, <1>12, <1>13, <1>14,
       <1>15, <1>16, <1>17, <1>18, <1>19 DEF Next, Client, Hardware

-----------------------------------------------------------------------------
(* The initial state. *)

(* An empty queue. *)
LEMMA EmptyList ==
  ASSUME NEW link
  PROVE  ListInv(link, NULL, NULL, {})
  BY DEF ListInv

(* init() establishes the invariant. *)
LEMMA InitInv == Init => IInv
  <1> SUFFICES ASSUME Init PROVE IInv
    OBVIOUS
  <1> DEFINE N == Cardinality(Block)
  <1>1. N \in Nat /\ N > 0
    BY SomeBlocks
  <1>2. PICK h \in [1..N -> Block] :
          /\ \A i, j \in DOMAIN h : h[i] = h[j] => i = j
          /\ kern = [th |-> [b \in Block |-> IF b = h[1]
                                             THEN [ZeroThread EXCEPT !.state = TS_RUNNING]
                                             ELSE ZeroThread],
                     table |-> [i \in Tid |-> IF i = 0 THEN h[1] ELSE NULL],
                     heap |-> Tail(h), active |-> h[1],
                     sched_head |-> NULL, sched_tail |-> NULL,
                     ev_front |-> [e \in Event |-> NULL], ev_back |-> [e \in Event |-> NULL],
                     irqstate |-> [e \in Event |-> 0], irq_mask |-> {},
                     dead_head |-> NULL, dead_tail |-> NULL,
                     reaper_head |-> NULL, reaper_tail |-> NULL,
                     fault_head |-> NULL, fault_tail |-> NULL,
                     debug_head |-> NULL, debug_tail |-> NULL, halted |-> FALSE]
    BY Zenon DEF Init
  <1>3. /\ h \in FreeList /\ h # <<>> /\ Once(h) /\ Head(h) = h[1] /\ h[1] \in Block
    BY <1>1, <1>2 DEF FreeList, Once
  <1>4. Tail(h) \in FreeList /\ Once(Tail(h)) /\ h[1] \notin Members(Tail(h))
    BY Zenon, <1>3, HeapPop
  <1>5. /\ kern.active = h[1] /\ kern.heap = Tail(h)
        /\ kern.sched_head = NULL /\ kern.sched_tail = NULL
        /\ kern.ev_front = [e \in Event |-> NULL] /\ kern.ev_back = [e \in Event |-> NULL]
        /\ kern.irqstate = [e \in Event |-> 0] /\ kern.irq_mask = {}
        /\ kern.dead_head = NULL /\ kern.dead_tail = NULL
        /\ kern.reaper_head = NULL /\ kern.reaper_tail = NULL
        /\ kern.debug_head = NULL /\ kern.debug_tail = NULL
        /\ kern.fault_head = NULL /\ kern.fault_tail = NULL
    BY <1>2
  <1>6. /\ \A i \in Tid : kern.table[i] = IF i = 0 THEN h[1] ELSE NULL
        /\ \A b \in Block : /\ kern.th[b].id = 0
                            /\ kern.th[b].state = IF b = h[1] THEN TS_RUNNING ELSE TS_FREE
                            /\ kern.th[b].next_dead = NULL /\ kern.th[b].next_fault = NULL
    BY <1>2 DEF ZeroThread
  <1>7. \A b \in Block : ~kern.th[b].dead
    BY <1>2 DEF ZeroThread
  <1>8. kern \in KernelData
    <2>1. 0 \in Tid
      BY ThreadCountPos DEF Tid
    <2>2. ZeroThread \in ThreadStruct
      BY <2>1 DEF ZeroThread, ThreadStruct, Ptr, TS_FREE
    <2>3. TS_RUNNING \in 0..5
      BY DEF TS_RUNNING
    <2>4. [ZeroThread EXCEPT !.state = TS_RUNNING] \in ThreadStruct
      BY Zenon, <2>2, <2>3 DEF ThreadStruct
    <2> QED BY Zenon, <1>2, <1>3, <1>4, <2>2, <2>4 DEF KernelData, Ptr
  <1> DEFINE s == States(kern)
  <1>9. \A b \in Block : s[b] = IF b = h[1] THEN TS_RUNNING ELSE TS_FREE
    BY Zenon, <1>6 DEF States
  <1> HIDE DEF s
  <1>10. RunInv(kern, s)
    BY <1>3, <1>5, <1>9 DEF RunInv, TS_RUNNING, TS_FREE, TS_PAUSEDW
  <1>11. SchedInv(kern, s)
    <2>1. In(s, TS_QUEUED) = {}
      BY <1>9 DEF In, TS_QUEUED, TS_RUNNING, TS_FREE
    <2> QED BY <1>5, <2>1, EmptyList DEF SchedInv
  <1>12. EventInv(kern, s)
    <2>1. In(s, TS_WAITING) = {}
      BY <1>9 DEF In, TS_WAITING, TS_RUNNING, TS_FREE
    <2>2. \A e \in Event : Waiting(kern, s, e) = {}
      BY Zenon, <2>1 DEF Waiting
    <2> QED BY ZenonT(60), <1>5, <2>1, <2>2, EmptyList DEF EventInv
  <1>13. BlockedInv(kern, s)
    BY Zenon, <1>5, <1>6 DEF BlockedInv
  <1>14. Dead(kern) = {}
    BY Zenon, <1>5 DEF Dead
  <1>15. DeadInv(kern, s)
    BY Zenon, <1>5, <1>6, <1>7, <1>14, EmptyList DEF DeadInv
  <1>16. TableInv(kern, s)
    <2>1. OnHeap(kern) = Members(Tail(h)) /\ Once(kern.heap)
      BY <1>4, <1>5 DEF OnHeap, Members
    <2>2. OnHeap(kern) \subseteq Block
      BY <1>8, Types DEF OnHeap, FreeList
    <2>3. 0 \in Tid
      BY ThreadCountPos DEF Tid
    <2>4. \A i \in Tid : kern.table[i] # NULL => /\ kern.th[kern.table[i]].id = i
                                                 /\ kern.table[i] \notin OnHeap(kern)
      BY Zenon, <1>3, <1>4, <1>6, <2>1
    <2>5. \A b \in OnHeap(kern) : s[b] \in {TS_FREE, TS_PAUSED}
      BY Zenon, <1>4, <1>9, <2>1, <2>2
    <2>6. ASSUME NEW b \in Block,
                 \/ s[b] \in {TS_RUNNING, TS_QUEUED, TS_WAITING}
                 \/ b \in {kern.reaper_tail, kern.debug_tail} \cup Dead(kern)
          PROVE  kern.table[kern.th[b].id] = b
      <3>1. b = h[1]
        BY <1>5, <1>9, <1>14, <2>6, NullIsNoBlock
           DEF TS_RUNNING, TS_QUEUED, TS_WAITING, TS_FREE
      <3> QED BY Zenon, <1>6, <2>3, <3>1
    <2> QED BY <2>1, <2>4, <2>5, <2>6 DEF TableInv, Once
  <1>17. LatchInv(kern)
    <2>1. \A i \in Irq : kern.irqstate[i] = 0
      BY Zenon, <1>5, EventType
    <2> QED BY <1>5, <2>1 DEF LatchInv
  <1> QED BY Zenon, <1>8, <1>10, <1>11, <1>12, <1>13, <1>15, <1>16, <1>17 DEF IInv, KInv, s

-----------------------------------------------------------------------------
(* What the invariant says of the queues. *)

(* One thread runs. *)
LEMMA RunsAlone == IInv => UniqueRunning
  <1> SUFFICES ASSUME IInv PROVE UniqueRunning
    BY Zenon
  <1>1. Allocated \subseteq Block
    BY Zenon, AllocatedStructs
  <1> QED BY <1>1 DEF UniqueRunning, IInv, KInv, RunInv, States, th

(* The run queue and its tail. *)
LEMMA RunQueueFits == IInv => RunQueueExact
  <1> SUFFICES ASSUME IInv PROVE RunQueueExact
    OBVIOUS
  <1>1. Allocated \subseteq Block
    BY Zenon, AllocatedStructs
  <1>2. RunQueue = InState(TS_QUEUED)
    BY Zenon, <1>1, QueueMembers, LiveAllocated DEF InState, In, States, th
  <1>3. ListInv(Nexts(kern), kern.sched_head, kern.sched_tail, RunQueue)
    BY Zenon, QueueMembers DEF IInv, KInv, SchedInv
  <1>4. RunQueue \subseteq Block
    BY Zenon, QueueMembers DEF In
  <1> QED BY Zenon, <1>2, <1>3, <1>4 DEF RunQueueExact, ListInv, Nexts, th

(* The queues of the events and their ends. *)
LEMMA EventQueuesFit == IInv => EventQueueExact
  <1> SUFFICES ASSUME IInv, NEW e \in Event
               PROVE  /\ Waiters(e) = {b \in InState(TS_WAITING) : th[b].event = e}
                      /\ (kern.ev_front[e] = NULL) <=> (kern.ev_back[e] = NULL)
                      /\ kern.ev_back[e] # NULL => /\ kern.ev_back[e] \in Waiters(e)
                                                   /\ NextEv[kern.ev_back[e]] = NULL
    BY Zenon DEF EventQueueExact
  <1>1. Allocated \subseteq Block
    BY Zenon, AllocatedStructs
  <1>2. Waiters(e) = {b \in InState(TS_WAITING) : th[b].event = e}
    BY ZenonT(60), <1>1, QueueMembers, LiveAllocated DEF InState, Waiting, In, States, th
  <1>3. NextEv = NextEvs(kern)
    BY Zenon DEF NextEv, NextEvs, th
  <1>4. ListInv(NextEv, kern.ev_front[e], kern.ev_back[e], Waiters(e))
    BY Zenon, <1>3, QueueMembers DEF IInv, KInv, EventInv
  <1> QED BY Zenon, <1>2, <1>4 DEF ListInv

(* The dead queue and the blocked reapers and debuggers. *)
LEMMA DeadQueueFits == IInv => DeadQueueExact
  <1> SUFFICES ASSUME IInv PROVE DeadQueueExact
    OBVIOUS
  <1>0. /\ kern \in KernelData /\ DeadInv(kern, States(kern)) /\ BlockedInv(kern, States(kern))
        /\ NextDead = NextDeads(kern)
    BY Zenon DEF IInv, KInv, NextDead, NextDeads, th
  <1>1. \A b \in DeadQueue : b \in InState(TS_PAUSED) /\ th[b].dead
    BY Zenon, <1>0, QueueMembers, LiveAllocated DEF DeadInv, InState, States, th
  <1>2. ListInv(NextDead, kern.dead_tail, kern.dead_head, DeadQueue)
    BY Zenon, <1>0, QueueMembers DEF DeadInv
  <1>3. Reapers # {} => DeadQueue = {}
    BY Zenon, <1>0, QueueMembers DEF BlockedInv, Dead
  <1>4. ASSUME NEW b \in Reapers \cup Debuggers PROVE b \in InState(TS_PAUSED) /\ ~th[b].dead
    <2>1. b \in Block /\ b \in {kern.reaper_tail, kern.debug_tail} /\ b # NULL
      BY Zenon, <1>0, <1>4, QueueMembers, Types, PtrCase
    <2>2. kern.th[b].state = TS_PAUSED /\ ~kern.th[b].dead
      BY Zenon, <1>0, <2>1 DEF BlockedInv, States
    <2> QED BY Zenon, <2>1, <2>2, LiveAllocated DEF InState, th
  <1> QED BY Zenon, <1>1, <1>2, <1>3, <1>4 DEF DeadQueueExact, ListInv

(* The bucket of free structs. *)
LEMMA HeapFits == IInv => NoDangling
  <1> SUFFICES ASSUME IInv PROVE NoDangling
    OBVIOUS
  <1> DEFINE s == States(kern)
  <1>0. /\ kern \in KernelData /\ DeadInv(kern, s) /\ BlockedInv(kern, s) /\ TableInv(kern, s)
        /\ RunInv(kern, s)
    BY Zenon DEF IInv, KInv
  <1>1. \A b \in OnHeap(kern) : b \in Block /\ s[b] \notin {TS_RUNNING, TS_QUEUED, TS_WAITING}
    <2>1. OnHeap(kern) \subseteq Block
      BY <1>0, Types DEF OnHeap, FreeList
    <2> QED BY <1>0, <2>1 DEF TableInv, TS_FREE, TS_PAUSED, TS_RUNNING, TS_QUEUED, TS_WAITING
  <1>2. ASSUME NEW b \in OnHeap(kern)
        PROVE  b \notin Allocated \cup RunQueue \cup DeadQueue \cup Reapers
                        \cup FaultQueue \cup Debuggers \cup {kern.active}
                        \cup UNION {Waiters(e) : e \in Event}
    <2>1. b \notin Allocated
      BY <1>0 DEF Allocated, TableInv
    <2>2. b \notin RunQueue
      BY Zenon, <1>1, QueueMembers DEF In
    <2>3. b \notin DeadQueue
      BY Zenon, <1>0, QueueMembers DEF DeadInv
    <2>4. b \notin Reapers /\ b \notin Debuggers /\ b \notin FaultQueue
      BY Zenon, <1>0, QueueMembers DEF BlockedInv
    <2>5. b # kern.active
      BY Zenon, <1>0, <1>1 DEF RunInv
    <2>6. \A e \in Event : b \notin Waiters(e)
      BY <1>1, QueueMembers DEF Waiting, In
    <2> QED BY Zenon, <2>1, <2>2, <2>3, <2>4, <2>5, <2>6
  <1>3. \A i \in DOMAIN kern.heap : kern.heap[i] \in OnHeap(kern)
    BY Zenon DEF OnHeap
  <1>4. \A i \in Tid : kern.table[i] # NULL => th[kern.table[i]].id = i
    BY Zenon, <1>0 DEF TableInv, th
  <1>5. \A i, j \in DOMAIN kern.heap : kern.heap[i] = kern.heap[j] => i = j
    BY <1>0 DEF TableInv
  <1> QED BY Zenon, <1>2, <1>3, <1>4, <1>5 DEF NoDangling

-----------------------------------------------------------------------------
(* The slots are well-founded. *)
INSTANCE WellFoundedInduction

(* A set of slots that is not empty has a first one. *)
LEMMA LeastSlots == LeastSlot
  <1> SUFFICES ASSUME NEW S \in SUBSET Tid, S # {}
               PROVE  \E n \in S : \A m \in S : n <= m
    BY Zenon DEF LeastSlot
  <1>1. PICK R : R = OpToRel(<, Nat)
    BY Zenon
  <1>2. S \subseteq Nat
    BY ThreadCountPos DEF Tid
  <1>3. PICK n \in S : \A m \in S : ~(<<m, n>> \in R)
    BY <1>1, <1>2, NatLessThanWellFounded, WFMin
  <1>4. \A m \in S : ~(m < n)
    BY Zenon, <1>1, <1>2, <1>3 DEF OpToRel
  <1> QED BY <1>2, <1>4

-----------------------------------------------------------------------------
(* The strengthened invariant holds throughout, for clients that keep to   *)
(* the safe rules: the queues, the table, the bucket and the latches of    *)
(* thread.c stay in order across every kernel entry.                       *)
THEOREM InductiveInvariant ==
  ASSUME SafeRules \subseteq Rules
  PROVE  Spec => []IInv
  <1>1. Init => IInv
    BY InitInv
  <1>2. IInv /\ [Next]_kern => IInv'
    BY StepProper, LeastSlots DEF ProperStep
  <1> QED BY <1>1, <1>2, PTL DEF Spec

(* Types: every static variable and every struct field keeps its type,     *)
(* whichever calls the clients make under the rules.                       *)
THEOREM TypeCorrect ==
  ASSUME SafeRules \subseteq Rules
  PROVE  Spec => []TypeOK
  <1>1. IInv => TypeOK
    BY DEF IInv, KInv, TypeOK
  <1> QED BY <1>1, InductiveInvariant, PTL

(* thread_get_active returns the one thread that is TS_RUNNING. *)
THEOREM RunningIsUnique ==
  ASSUME SafeRules \subseteq Rules
  PROVE  Spec => []UniqueRunning
  BY RunsAlone, InductiveInvariant, PTL

(* The run queue is one well-formed list of exactly the queued threads. *)
THEOREM RunQueueIsExact ==
  ASSUME SafeRules \subseteq Rules
  PROVE  Spec => []RunQueueExact
  BY RunQueueFits, InductiveInvariant, PTL

(* Every waiter is on the queue of its event and nobody else is. *)
THEOREM EventQueuesAreExact ==
  ASSUME SafeRules \subseteq Rules
  PROVE  Spec => []EventQueueExact
  BY EventQueuesFit, InductiveInvariant, PTL

(* An IRQ line is masked exactly while its latch is set. *)
THEOREM LatchesMatchMasks ==
  ASSUME SafeRules \subseteq Rules
  PROVE  Spec => []LatchMask
  <1>1. IInv => LatchMask
    BY Zenon DEF IInv, KInv, LatchInv, LatchMask
  <1> QED BY <1>1, InductiveInvariant, PTL

(* The dead queue holds exactly dead, paused, unreaped threads, and no     *)
(* reaper stays blocked while one is there.                                *)
THEOREM DeadQueueIsExact ==
  ASSUME SafeRules \subseteq Rules
  PROVE  Spec => []DeadQueueExact
  BY DeadQueueFits, InductiveInvariant, PTL

(* reap frees nothing that the table or a queue still refers to, and no    *)
(* struct is free twice.                                                   *)
THEOREM NothingDangles ==
  ASSUME SafeRules \subseteq Rules
  PROVE  Spec => []NoDangling
  BY HeapFits, InductiveInvariant, PTL

(* debug_panic is never reached, and no search of a queue runs for ever:   *)
(* with clients that keep to all the rules the processor does not halt,    *)
(* however many threads, interrupt lines and timers there are.             *)
THEOREM NothingHalts ==
  ASSUME AllRules \subseteq Rules
  PROVE  Spec => []NeverHalted
  <1>1. Init => NeverHalted
    BY DEF Init, NeverHalted
  <1>2. NeverHalted /\ IInv /\ [Next]_kern => NeverHalted'
    BY StepCalm DEF NeverHalted
  <1>3. SafeRules \subseteq Rules
    BY DEF SafeRules, AllRules
  <1>4. Spec => []IInv
    BY Zenon, <1>3, InductiveInvariant
  <1> QED BY <1>1, <1>2, <1>4, PTL DEF Spec

-----------------------------------------------------------------------------
(* What a step may never do.                                               *)

(* schedule_push appends and schedule_pull takes the head: a thread ahead  *)
(* of another in the run queue was ahead of it before.                     *)
THEOREM NobodyOvertakes ==
  ASSUME SafeRules \subseteq Rules
  PROVE  Spec => NoOvertaking
  <1>1. IInv => RunQueue = In(States(kern), TS_QUEUED)
    BY QueueMembers
  <1>2. (IInv => RunQueue = In(States(kern), TS_QUEUED))'
    BY <1>1, PTL
  <1>3. IInv /\ [Next]_kern
          => [\A b \in RunQueue : b \in RunQueue' => Ahead(b)' \subseteq Ahead(b)]_kern
    <2> SUFFICES ASSUME IInv, [Next]_kern, NEW b \in RunQueue, b \in RunQueue'
                 PROVE  Ahead(b)' \subseteq Ahead(b)
      OBVIOUS
    <2>1. IInv' /\ Orderly(kern, kern')
      BY Zenon, StepProper, LeastSlots DEF ProperStep
    <2>2. b \in Block /\ kern.th[b].state = TS_QUEUED /\ kern'.th[b].state = TS_QUEUED
      BY Zenon, <1>1, <1>2, <2>1 DEF In, States
    <2>3. KeepsPlace(kern, kern', b)
      BY Zenon, <2>1, <2>2 DEF Orderly
    <2>4. Before(kern', b) \subseteq Before(kern, b)
      BY <2>2, <2>3 DEF KeepsPlace, TS_QUEUED, TS_RUNNING, TS_PAUSED
    <2> QED BY <2>4 DEF Before, Front, Ahead
  <1> QED BY <1>3, InductiveInvariant, PTL DEF Spec, NoOvertaking

(* event_send alone ends a wait: the waiter is queued with the number of   *)
(* its event in eax, or runs already.                                      *)
THEOREM WokenByItsEvent ==
  ASSUME SafeRules \subseteq Rules
  PROVE  Spec => WokenByEvent
  <1>1. IInv /\ [Next]_kern
          => [\A b \in InState(TS_WAITING) :
                th'[b].state # TS_WAITING =>
                  \/ th'[b].state = TS_QUEUED /\ th'[b].eax = th[b].event
                  \/ th'[b].state = TS_RUNNING]_kern
    <2> SUFFICES ASSUME IInv, [Next]_kern, NEW b \in InState(TS_WAITING),
                        th'[b].state # TS_WAITING
                 PROVE  \/ th'[b].state = TS_QUEUED /\ th'[b].eax = th[b].event
                        \/ th'[b].state = TS_RUNNING
      OBVIOUS
    <2>1. Orderly(kern, kern')
      BY Zenon, StepProper, LeastSlots DEF ProperStep
    <2>2. b \in Block /\ kern.th[b].state = TS_WAITING
      BY Zenon, AllocatedStructs DEF InState, th
    <2>3. KeepsWait(kern, kern', b)
      BY <2>1, <2>2 DEF Orderly
    <2> QED BY Zenon, <2>2, <2>3 DEF KeepsWait, th
  <1> QED BY <1>1, InductiveInvariant, PTL DEF Spec, WokenByEvent

(* dead_push in setstate: a death reaches the reaper blocked in getdead,   *)
(* or the dead queue when there is none.                                   *)
THEOREM DeathsDelivered ==
  ASSUME SafeRules \subseteq Rules
  PROVE  Spec => DeathDelivered
  <1> DEFINE Blocked == IF kern.reaper_tail = NULL THEN {} ELSE {kern.reaper_tail}
  <1>1. IInv => DeadQueue = Dead(kern) /\ Reapers = Blocked
    BY QueueMembers
  <1>2. (IInv => DeadQueue = Dead(kern) /\ Reapers = Blocked)'
    BY <1>1, PTL
  <1>3. IInv /\ [Next]_kern
          => [\A b \in Allocated : ~th[b].dead /\ th'[b].dead =>
                IF Reapers = {} THEN b \in DeadQueue'
                ELSE \E r \in Reapers \ Reapers' :
                       \/ th'[r].state = TS_QUEUED /\ th'[r].eax = th[b].id
                       \/ th'[r].state = TS_RUNNING]_kern
    <2> SUFFICES ASSUME IInv, [Next]_kern, NEW b \in Allocated, ~th[b].dead, th'[b].dead
                 PROVE  IF Reapers = {} THEN b \in DeadQueue'
                        ELSE \E r \in Reapers \ Reapers' :
                               \/ th'[r].state = TS_QUEUED /\ th'[r].eax = th[b].id
                               \/ th'[r].state = TS_RUNNING
      OBVIOUS
    <2>1. IInv' /\ \A x \in Block : kern'.th[x].dead /\ ~kern.th[x].dead => Handed(kern, kern', x)
      BY StepProper, LeastSlots DEF ProperStep
    <2>2. b \in Block
      BY Zenon, AllocatedStructs
    <2>3. Handed(kern, kern', b)
      BY <2>1, <2>2 DEF th
    <2>4. CASE kern.reaper_tail = NULL
      BY <1>1, <1>2, <2>1, <2>3, <2>4 DEF Handed
    <2>5. CASE kern.reaper_tail # NULL
      <3>1. Reapers = {kern.reaper_tail} /\ Reapers' = {}
        BY <1>1, <1>2, <2>1, <2>3, <2>5 DEF Handed
      <3>2. \/ th'[kern.reaper_tail].state = TS_QUEUED /\ th'[kern.reaper_tail].eax = th[b].id
            \/ th'[kern.reaper_tail].state = TS_RUNNING
        BY Zenon, <2>3, <2>5 DEF Handed, th
      <3> QED BY <3>1, <3>2
    <2> QED BY <2>4, <2>5
  <1> QED BY <1>3, InductiveInvariant, PTL DEF Spec, DeathDelivered

-----------------------------------------------------------------------------
(* The interrupt hardware. *)

(* What the processor does on the controllers, with clients that keep to   *)
(* all the rules: int_handler never panics, a line is masked exactly while *)
(* its latch is set, and only event_send ends a wait.                      *)
THEOREM MachineSafe ==
  ASSUME AllRules \subseteq Rules
  PROVE  MachineSpec => []NeverHalted /\ []LatchMask /\ WokenByEvent
  <1>1. SafeRules \subseteq Rules
    BY DEF SafeRules, AllRules
  <1>2. Spec => []NeverHalted
    BY Zenon, NothingHalts
  <1>3. Spec => []LatchMask
    BY <1>1, LatchesMatchMasks
  <1>4. Spec => WokenByEvent
    BY <1>1, WokenByItsEvent
  <1> QED BY <1>2, <1>3, <1>4, MachineRefines, PTL DEF ContractKept

=============================================================================
