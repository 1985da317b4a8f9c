------------------------------- MODULE Thread -------------------------------
(***************************************************************************)
(* src/kernel/thread.c: the thread table, the run queue, the event queues, *)
(* the dead/reaper queues and the fault/debugger queues.                   *)
(*                                                                         *)
(* The kernel runs with interrupts off on one processor, so a C function   *)
(* is not observable half way through.  Each one is an operator from the   *)
(* kernel's data k to the data it leaves behind, and carries its C name.   *)
(* k has one field per static variable; k.th[b] is the struct thread at    *)
(* address b.  Lists are kept the way the code keeps them: head and tail   *)
(* pointers and link fields in the structs, stale links included.          *)
(***************************************************************************)
EXTENDS Integers, Sequences, FiniteSets

CONSTANTS
  Block,          \* addresses the heap can hand out for a struct thread
  NULL,           \* the null pointer
  THREAD_COUNT,   \* slots of _thread_table
  Irq,            \* IRQ lines in use, of 1..15
  VTimer          \* virtual timers in use, of 0..15

ASSUME NullIsNoBlock  == NULL \notin Block
ASSUME SomeBlocks     == IsFiniteSet(Block) /\ Cardinality(Block) \in Nat \ {0}
ASSUME ThreadCountPos == THREAD_COUNT \in Nat \ {0}
ASSUME IrqRange       == Irq \subseteq 1..15
ASSUME VTimerRange    == VTimer \subseteq 0..15

-----------------------------------------------------------------------------
(* include/pinion.h *)

TS_FREE    == 0
TS_QUEUED  == 1
TS_RUNNING == 2
TS_WAITING == 3
TS_PAUSED  == 4
TS_PAUSEDW == 5

TE_STATE == 1
TE_EXIST == 2

EV_COUNT     == 256
EV_VTIMER(n) == 255 - n

Ptr   == Block \cup {NULL}
Tid   == 0..(THREAD_COUNT - 1)
Event == Irq \cup {EV_VTIMER(n) : n \in VTimer}

(* struct thread: the fields that control depends on.  dead is TF_DEAD.    *)
ThreadStruct ==
  [id : Tid, state : 0..5, dead : BOOLEAN, event : Int, eax : Int,
   next : Ptr, next_evqueue : Ptr, next_dead : Ptr, next_fault : Ptr]

(* All bytes zero, as memclr leaves a struct. *)
ZeroThread ==
  [id |-> 0, state |-> TS_FREE, dead |-> FALSE, event |-> 0,
   eax |-> 0, next |-> NULL, next_evqueue |-> NULL, next_dead |-> NULL,
   next_fault |-> NULL]

(* A bucket of the heap: the free structs, last freed first. *)
FreeList == Seq(Block)

(* The static data of thread.c, the heap bucket struct thread comes from   *)
(* (a LIFO list), the PIC mask, and whether the processor has halted.      *)
KernelData ==
  [th : [Block -> ThreadStruct], table : [Tid -> Ptr], heap : FreeList,
   active : Ptr, sched_head : Ptr, sched_tail : Ptr,
   ev_front : [Event -> Ptr], ev_back : [Event -> Ptr],
   irqstate : [Event -> {0, 1}], irq_mask : SUBSET (0..15),
   dead_head : Ptr, dead_tail : Ptr, reaper_head : Ptr, reaper_tail : Ptr,
   fault_head : Ptr, fault_tail : Ptr, debug_head : Ptr, debug_tail : Ptr,
   halted : BOOLEAN]

-----------------------------------------------------------------------------
(* thread table *)

(* Mutant: the search for a slot runs one past the end of the table. *)
thread_alloc_past_end(k) ==
  LET b    == Head(k.heap)
      slot == {i \in 0..THREAD_COUNT : i = THREAD_COUNT \/ k.table[i] = NULL}
      i    == CHOOSE n \in slot : \A m \in slot : n <= m
  IN  [ret |-> b,
       k   |-> [k EXCEPT !.heap = Tail(@), !.table[i] = b,
                         !.th[b] = [ZeroThread EXCEPT !.id = i,
                                                      !.state = TS_PAUSED]]]

(* heap_alloc pops the bucket; the struct is lost when the table is full.  *)
(* A zeroed struct is put in the first free slot.                          *)
thread_alloc(k) ==
  LET b    == Head(k.heap)
      slot == {i \in Tid : k.table[i] = NULL}
      i    == CHOOSE n \in slot : \A m \in slot : n <= m
  IN  IF slot = {}
      THEN [ret |-> NULL,
            k   |-> [k EXCEPT !.heap = Tail(@), !.th[b] = ZeroThread]]
      ELSE [ret |-> b,
            k   |-> [k EXCEPT !.heap = Tail(@), !.table[i] = b,
                              !.th[b] = [ZeroThread EXCEPT !.id = i,
                                                           !.state = TS_PAUSED]]]

thread_get(k, id) == IF id \in Tid THEN k.table[id] ELSE NULL

(* Mutant: the slot keeps pointing at the freed struct. *)
thread_kill_keeps_slot(k, b) == [k EXCEPT !.heap = <<b>> \o @]

(* The struct keeps its contents after heap_free, until it is handed out   *)
(* again: only its first word, a saved register, becomes the bucket link.  *)
thread_kill(k, b) ==
  [k EXCEPT !.table[k.th[b].id] = NULL, !.heap = <<b>> \o @]

thread_load(k, b) == [k EXCEPT !.active = b]

(* Whatever thread is saved, it is _active_thread that is cleared. *)
thread_save(k, b) == [k EXCEPT !.active = NULL]

-----------------------------------------------------------------------------
(* run queue *)

(* Mutant: pushes at the wrong end. *)
schedule_push_front(k, b) ==
  [k EXCEPT !.sched_head = b, !.th[b].next = k.sched_head,
            !.sched_tail = IF @ = NULL THEN b ELSE @]

schedule_push(k, b) ==
  LET k1 == IF k.sched_tail = NULL
            THEN [k EXCEPT !.sched_head = b]
            ELSE [k EXCEPT !.th[k.sched_tail].next = b]
  IN  [k1 EXCEPT !.sched_tail = b, !.th[b].next = NULL]

(* Every caller of schedule_push but spawn, which does it just before, sets *)
(* TS_QUEUED after it.                                                      *)
enqueue(k, b) == [schedule_push(k, b) EXCEPT !.th[b].state = TS_QUEUED]

(* The structs that a walk along a link from a visits before it meets b or *)
(* the end of the list: the least set that has a and is closed under steps. *)
Walked(link, a, b) ==
  LET Closed(S) == \A x \in S : link[x] \in S \cup {b, NULL}
  IN  {x \in Block : \A S \in SUBSET Block : a \in S /\ Closed(S) => x \in S}

Nexts(k) == [b \in Block |-> k.th[b].next]

(* The predecessor of b that the walk from a finds, or NULL. *)
Pred(k, a, b) ==
  LET hit == {x \in Walked(Nexts(k), a, b) : k.th[x].next = b}
  IN  IF hit = {} THEN NULL ELSE CHOOSE x \in hit : TRUE

(* The walk never ends when it meets neither b nor the end of the list. *)
Loops(k, a, b) ==
  \A x \in Walked(Nexts(k), a, b) : k.th[x].next \notin {b, NULL}

(* Mutant: removing the only element forgets the tail. *)
schedule_remv_keeps_tail(k, b) ==
  LET h == k.sched_head
      p == Pred(k, h, b)
  IN  IF h = NULL THEN k
      ELSE IF h = b THEN [k EXCEPT !.sched_head = k.th[h].next]
      ELSE IF p # NULL
      THEN [k EXCEPT !.th[p].next = k.th[b].next,
                     !.sched_tail = IF @ = b THEN p ELSE @]
      ELSE [k EXCEPT !.halted = @ \/ Loops(k, h, b)]

(* The removed struct keeps its next link. *)
schedule_remv(k, b) ==
  LET h == k.sched_head
      p == Pred(k, h, b)
  IN  IF h = NULL THEN k
      ELSE IF h = b
      THEN [k EXCEPT !.sched_head = k.th[h].next,
                     !.sched_tail = IF k.th[h].next = NULL THEN NULL ELSE @]
      ELSE IF p # NULL
      THEN [k EXCEPT !.th[p].next = k.th[b].next,
                     !.sched_tail = IF @ = b THEN p ELSE @]
      ELSE [k EXCEPT !.halted = @ \/ Loops(k, h, b)]

schedule_next(k) == k.sched_head

-----------------------------------------------------------------------------
(* 8259 mask register: one bit per line, the shift count taken mod 32 *)

irq_mask(k, irq)   == [k EXCEPT !.irq_mask = @ \cup ({irq % 32} \cap 0..15)]
irq_unmask(k, irq) == [k EXCEPT !.irq_mask = @ \ {irq % 32}]

-----------------------------------------------------------------------------
(* event queues *)

(* Mutant: a thread that waits again keeps its old queue link. *)
event_wait_stale_link(k, id, event) ==
  LET b   == thread_get(k, id)
      k1  == IF k.ev_back[event] = NULL
             THEN [k EXCEPT !.ev_front[event] = b]
             ELSE [k EXCEPT !.th[k.ev_back[event]].next_evqueue = b]
      k2  == [k1 EXCEPT !.ev_back[event] = b, !.th[b].event = event]
  IN  IF b = NULL THEN [ret |-> 1, k |-> k]
      ELSE IF event < 0 THEN [ret |-> k.irqstate[-event - 1], k |-> k]
      ELSE IF k.irqstate[event] = 1
      THEN [ret |-> 0, k |-> enqueue(thread_save(k, b), b)]
      ELSE [ret |-> 0, k |-> [thread_save(k2, b)
                                EXCEPT !.th[b].state = TS_WAITING]]

(* Mutant: the thread goes to the front of the queue. *)
event_wait_front(k, id, event) ==
  LET b   == thread_get(k, id)
      k2  == [k EXCEPT !.ev_front[event] = b, !.th[b].next_evqueue = k.ev_front[event],
                       !.ev_back[event] = IF @ = NULL THEN b ELSE @, !.th[b].event = event]
  IN  IF event < 0 THEN [ret |-> k.irqstate[-event - 1], k |-> k]
      ELSE IF k.irqstate[event] = 1
      THEN [ret |-> 0, k |-> enqueue(thread_save(k, b), b)]
      ELSE [ret |-> 0, k |-> [thread_save(k2, b)
                                EXCEPT !.th[b].state = TS_WAITING]]

(* A negative event polls the latch of ~event; otherwise the thread either *)
(* stays runnable, the latch being set, or joins the queue of the event.   *)
event_wait(k, id, event) ==
  LET b   == thread_get(k, id)
      k1  == IF k.ev_back[event] = NULL
             THEN [k EXCEPT !.ev_front[event] = b]
             ELSE [k EXCEPT !.th[k.ev_back[event]].next_evqueue = b]
      k2  == [k1 EXCEPT !.ev_back[event] = b, !.th[b].next_evqueue = NULL,
                        !.th[b].event = event]
  IN  IF b = NULL THEN [ret |-> 1, k |-> k]
      ELSE IF event < 0 THEN [ret |-> k.irqstate[-event - 1], k |-> k]
      ELSE IF event >= EV_COUNT THEN [ret |-> 1, k |-> k]
      ELSE IF k.irqstate[event] = 1
      THEN [ret |-> 0, k |-> enqueue(thread_save(k, b), b)]
      ELSE [ret |-> 0, k |-> [thread_save(k2, b)
                                EXCEPT !.th[b].state = TS_WAITING]]

(* Takes the thread off its event queue, following next, the run queue's   *)
(* link, and not next_evqueue.                                             *)
event_remv(k, id, event) ==
  LET b == thread_get(k, id)
      f == k.ev_front[event]
      p == Pred(k, f, b)
  IN  IF b = NULL \/ event \notin 0..(EV_COUNT - 1) THEN k
      ELSE IF f = NULL THEN k
      ELSE IF f = b
      THEN [k EXCEPT !.ev_front[event] = k.th[b].next,
                     !.ev_back[event]  = IF @ = b THEN NULL ELSE @]
      ELSE IF p # NULL
      THEN [k EXCEPT !.th[p].next = k.th[b].next,
                     !.ev_back[event] = IF @ = b THEN p ELSE @]
      ELSE [k EXCEPT !.halted = @ \/ Loops(k, f, b)]

(* Mutant: the waiter is not told which event woke it. *)
event_send_no_result(k, event) ==
  LET b  == k.ev_front[event]
      k1 == [k EXCEPT !.ev_front[event] = k.th[b].next_evqueue,
                      !.ev_back[event]  = IF k.th[b].next_evqueue = NULL
                                          THEN NULL ELSE @,
                      !.th[b].event = -1]
      k3 == IF b = NULL THEN k ELSE enqueue(k1, b)
  IN  IF event < 240
      THEN [irq_mask(k3, event) EXCEPT !.irqstate[event] = 1]
      ELSE k3

(* Wakes the first waiter, if any; an IRQ is masked and latched. *)
event_send(k, event) ==
  LET b  == k.ev_front[event]
      k1 == [k EXCEPT !.ev_front[event] = k.th[b].next_evqueue,
                      !.ev_back[event]  = IF k.th[b].next_evqueue = NULL
                                          THEN NULL ELSE @,
                      !.th[b].eax = event, !.th[b].event = -1]
      k2 == IF k.th[b].state = TS_RUNNING THEN thread_save(k1, b) ELSE k1
      k3 == IF b = NULL THEN k ELSE enqueue(k2, b)
  IN  IF event < 240
      THEN [irq_mask(k3, event) EXCEPT !.irqstate[event] = 1]
      ELSE k3

-----------------------------------------------------------------------------
(* dead queue and reaper queue; both link through next_dead *)

(* Wake thread b, blocked in getdead or getfault, with the given result. *)
notify(k, b, id) == enqueue([k EXCEPT !.th[b].eax = id], b)

(* Mutant: a death is queued although a reaper waits for it. *)
dead_push_no_wakeup(k, b) ==
  IF k.dead_head # NULL
  THEN [[k EXCEPT !.th[k.dead_head].next_dead = b]
          EXCEPT !.th[b].next_dead = NULL, !.dead_head = b]
  ELSE [k EXCEPT !.dead_head = b, !.dead_tail = b]

(* The first element of an empty queue keeps whatever next_dead it had. *)
dead_push(k, b) ==
  LET r  == k.reaper_tail
      k1 == [k EXCEPT !.reaper_head = IF k.th[r].next_dead = NULL
                                      THEN NULL ELSE @,
                      !.reaper_tail = k.th[r].next_dead]
  IN  IF r # NULL THEN notify(k1, r, k.th[b].id)
      ELSE IF k.dead_head # NULL
      THEN [[k EXCEPT !.th[k.dead_head].next_dead = b]
              EXCEPT !.th[b].next_dead = NULL, !.dead_head = b]
      ELSE [k EXCEPT !.dead_head = b, !.dead_tail = b]

dead_peek(k) == k.dead_tail

(* Mutant: the queue's head survives its last element. *)
dead_pull_keeps_head(k) ==
  LET d == k.dead_tail
  IN  IF d = NULL THEN [ret |-> NULL, k |-> k]
      ELSE [ret |-> d, k |-> [k EXCEPT !.dead_tail = k.th[d].next_dead]]

dead_pull(k) ==
  LET d == k.dead_tail
  IN  IF d = NULL THEN [ret |-> NULL, k |-> k]
      ELSE [ret |-> d,
            k   |-> [k EXCEPT !.dead_tail = k.th[d].next_dead,
                              !.dead_head = IF k.th[d].next_dead = NULL
                                            THEN NULL ELSE @]]

dead_wait(k, r) ==
  LET pull == dead_pull(k)
  IN  IF k.dead_tail # NULL THEN notify(pull.k, r, k.th[pull.ret].id)
      ELSE IF k.reaper_head # NULL
      THEN [[k EXCEPT !.th[k.reaper_head].next_dead = r]
              EXCEPT !.th[r].next_dead = NULL, !.reaper_head = r]
      ELSE [k EXCEPT !.reaper_head = r, !.reaper_tail = r]

-----------------------------------------------------------------------------
(* fault queue and debugger queue; both link through next_fault *)

fault_push(k, b) ==
  LET d  == k.debug_tail
      k1 == [k EXCEPT !.debug_head = IF k.th[d].next_fault = NULL
                                     THEN NULL ELSE @,
                      !.debug_tail = k.th[d].next_fault]
  IN  IF d # NULL THEN notify(k1, d, k.th[b].id)
      ELSE IF k.fault_head # NULL
      THEN [[k EXCEPT !.th[k.fault_head].next_fault = b]
              EXCEPT !.th[b].next_fault = NULL, !.fault_head = b]
      ELSE [k EXCEPT !.fault_head = b, !.fault_tail = b]

fault_peek(k) == k.fault_tail

(* Advances along next, the run queue's link, and not next_fault. *)
fault_pull(k) ==
  LET f == k.fault_tail
  IN  IF f = NULL THEN [ret |-> NULL, k |-> k]
      ELSE [ret |-> f,
            k   |-> [k EXCEPT !.fault_tail = k.th[f].next,
                              !.fault_head = IF k.th[f].next = NULL
                                             THEN NULL ELSE @]]

fault_wait(k, d) ==
  LET pull == fault_pull(k)
  IN  IF k.fault_tail # NULL THEN notify(pull.k, d, k.th[pull.ret].id)
      ELSE IF k.debug_head # NULL
      THEN [[k EXCEPT !.th[k.debug_head].next_fault = d]
              EXCEPT !.th[d].next_fault = NULL, !.debug_head = d]
      ELSE [k EXCEPT !.debug_head = d, !.debug_tail = d]

=============================================================================
