------------------------------- MODULE Kernel -------------------------------
(***************************************************************************)
(* The kernel as its clients see it: src/kernel/interrupt.c, kcall.c and   *)
(* fault.c on top of Thread.  Every entry to the kernel is an interrupt:   *)
(* a kernel call, a fault, an IRQ or a timer tick.  Interrupts stay off    *)
(* until the handler returns, so one action is one whole interrupt: its    *)
(* handler and the rescheduling at the end of int_handler.                 *)
(*                                                                         *)
(* The interrupted thread, image in the code, is k.active: thread_load     *)
(* points the processor's interrupt stack at the struct of the thread it   *)
(* makes active.  k.active = NULL is the processor idling in cpu_idle,     *)
(* where only IRQs and ticks occur.                                        *)
(***************************************************************************)
EXTENDS Thread

VARIABLE kern     \* the kernel's data, a KernelData record

-----------------------------------------------------------------------------
(* int_handler's tail: when no thread is active, run the next queued one,  *)
(* or idle if there is none.                                               *)
int_return(k) ==
  LET b == schedule_next(k)
  IN  IF k.halted \/ k.active # NULL \/ b = NULL THEN k
      ELSE [thread_load(schedule_remv(k, b), b)
              EXCEPT !.th[b].state = TS_RUNNING]

(* debug_panic: message, then halt for good. *)
debug_panic(k) == [k EXCEPT !.halted = TRUE]

(* The result of a kernel call, as the interrupted thread will see it. *)
ret(k, b, eax) == [k EXCEPT !.th[b].eax = eax]

(* Mutant: the thread is queued and stays the active thread. *)
requeue_still_active(k, b) == enqueue(k, b)

(* thread_save, then a new state: TS_QUEUED or TS_PAUSED. *)
requeue(k, b) == enqueue(thread_save(k, b), b)
suspend(k, b) == [thread_save(k, b) EXCEPT !.th[b].state = TS_PAUSED]

(* The target of a call whose argument may be -1 for the caller. *)
target_of(k, image, id) == IF id = -1 THEN image ELSE thread_get(k, id)

-----------------------------------------------------------------------------
(* kcall, one operator per case of the switch *)

kcall_spawn(k, image) ==
  LET a == thread_alloc(k)
      b == a.ret
  IN  IF b = NULL THEN ret(a.k, image, -1)
      ELSE ret(enqueue(a.k, b), image, a.k.th[b].id)

(* An id that names no thread makes the kernel dereference NULL: the page  *)
(* fault in kernel mode is a panic.                                        *)
kcall_reap(k, image, id) ==
  LET b == thread_get(k, id)
  IN  IF b = NULL THEN debug_panic(k)
      ELSE IF k.th[b].state # TS_PAUSED THEN ret(k, image, TE_STATE)
      ELSE thread_kill(ret(k, image, 0), b)

kcall_gettid(k, image) == ret(k, image, k.th[image].id)

kcall_yield(k, image) == requeue(k, image)

kcall_pause(k, image, id) ==
  LET b == target_of(k, image, id)
      s == k.th[b].state
  IN  IF b = NULL THEN ret(k, image, TE_EXIST)
      ELSE IF s = TS_RUNNING THEN ret(suspend(k, b), image, 0)
      ELSE IF s = TS_QUEUED
      THEN ret([schedule_remv(k, b) EXCEPT !.th[b].state = TS_PAUSED], image, 0)
      ELSE IF s = TS_WAITING
      THEN ret([event_remv(k, k.th[b].id, k.th[b].event)
                  EXCEPT !.th[b].state = TS_PAUSEDW], image, 0)
      ELSE ret(k, image, TE_STATE)

kcall_resume(k, image, id) ==
  LET b == thread_get(k, id)
      s == k.th[b].state
  IN  IF b = NULL THEN ret(k, image, TE_EXIST)
      ELSE IF s = TS_PAUSED
      THEN ret(enqueue(k, b), image, 0)
      ELSE IF s = TS_PAUSEDW
      THEN ret([event_wait(k, k.th[b].id, k.th[b].event).k
                  EXCEPT !.th[b].state = TS_WAITING], image, 0)
      ELSE ret(k, image, TE_STATE)

(* Copies the target's state out; only the verdict matters here. *)
kcall_getstate(k, image, id) ==
  LET b == target_of(k, image, id)
  IN  IF b = NULL THEN ret(k, image, TE_EXIST)
      ELSE IF k.th[b].state \notin {TS_PAUSED, TS_PAUSEDW} /\ b # image
      THEN ret(k, image, TE_STATE)
      ELSE ret(k, image, 0)

(* src is the t_info the caller passes: its TF_DEAD flag and its eax.       *)
(* Registers are written unless the target is still running.               *)
kcall_setstate(k, image, id, src) ==
  LET b  == target_of(k, image, id)
      k1 == IF k.th[b].state = TS_RUNNING THEN suspend(k, b) ELSE k
      k2 == IF src.dead THEN dead_push(k1, b) ELSE k
      k3 == [k2 EXCEPT !.th[b].dead = src.dead]
      k4 == IF k3.th[b].state # TS_RUNNING
            THEN [k3 EXCEPT !.th[b].eax = src.eax] ELSE k3
  IN  IF b = NULL THEN ret(k, image, TE_EXIST)
      ELSE IF k.th[b].state \in {TS_PAUSED, TS_PAUSEDW, TS_RUNNING}
      THEN ret(k4, image, 0)
      ELSE ret(k, image, TE_STATE)

kcall_getdead(k, image) ==
  LET pull == dead_pull(k)
  IN  IF dead_peek(k) # NULL THEN ret(pull.k, image, k.th[pull.ret].id)
      ELSE dead_wait(suspend(k, image), image)

kcall_getfault(k, image) ==
  LET pull == fault_pull(k)
  IN  IF fault_peek(k) # NULL THEN ret(pull.k, image, k.th[pull.ret].id)
      ELSE fault_wait(suspend(k, image), image)

kcall_wait(k, image, event) ==
  LET w == event_wait(k, k.th[image].id, event)
  IN  ret(w.k, image, w.ret)

(* Mutant: the latch is cleared and the line stays masked. *)
kcall_reset_stays_masked(k, image, event) ==
  ret(IF event < 240 THEN [k EXCEPT !.irqstate[event] = 0] ELSE k, image, 0)

(* Mutant: the line is unmasked and the latch stays set. *)
kcall_reset_keeps_latch(k, image, event) ==
  ret(IF event < 240 THEN irq_unmask(k, event) ELSE k, image, 0)

kcall_reset(k, image, event) ==
  LET k1 == IF event < 240
            THEN irq_unmask([k EXCEPT !.irqstate[event] = 0], event)
            ELSE k
  IN  ret(k1, image, 0)

-----------------------------------------------------------------------------
(* faults; ring is the privilege level the thread was interrupted in *)

(* The test is the code's: it panics when the fault is not the kernel's. *)
fault_generic(k, image, ring) ==
  IF ring # 0 THEN debug_panic(k)
  ELSE fault_push(suspend(k, image), image)

(* Mutant: the inverted test of fault_generic, here too. *)
fault_page_inverted(k, image, ring) ==
  IF ring # 0 THEN debug_panic(k)
  ELSE fault_push(suspend(k, image), image)

(* Mutant: the faulted thread is not stopped. *)
fault_page_runs_on(k, image, ring) ==
  IF ring = 0 THEN debug_panic(k) ELSE fault_push(k, image)

fault_page(k, image, ring) ==
  IF ring = 0 THEN debug_panic(k)
  ELSE fault_push(suspend(k, image), image)

-----------------------------------------------------------------------------
(* timer_handler.  The bits of the tick counter that changed select the    *)
(* virtual timers j..15, sent in that order; at the 64 Hz of init.c j is   *)
(* at most 11.  Then the interrupted thread, if it is still running, goes  *)
(* to the end of the run queue.                                            *)
MAX_VTIMER == 11

(* Enough values of j for every set of timers in use that a tick can fire. *)
Due == {MAX_VTIMER} \cup {n \in VTimer : n < MAX_VTIMER}

vtimer(k, j, i) ==
  IF i >= j /\ i \in VTimer THEN event_send(k, EV_VTIMER(i)) ELSE k

vtimer4(k, j, i) ==
  vtimer(vtimer(vtimer(vtimer(k, j, i), j, i + 1), j, i + 2), j, i + 3)

vtimers(k, j) == vtimer4(vtimer4(vtimer4(vtimer4(k, j, 0), j, 4), j, 8), j, 12)

(* Mutant: a tick sends the timers and does not preempt. *)
timer_handler_no_preempt(k, image, j) == vtimers(k, j)

timer_handler(k, image, j) ==
  LET k1 == vtimers(k, j)
  IN  IF image # NULL /\ k1.th[image].state = TS_RUNNING
      THEN requeue(k1, image) ELSE k1

-----------------------------------------------------------------------------
(* The first thread, as init() leaves it: id 0, running, never queued.     *)
(* Every IRQ is unmasked.  The bucket hands out addresses in any order.    *)
Init ==
  \E heap \in {s \in [1..Cardinality(Block) -> Block] :
                 \A i, j \in DOMAIN s : s[i] = s[j] => i = j} :
    kern = [th |-> [b \in Block |-> IF b = heap[1]
                                    THEN [ZeroThread EXCEPT !.state = TS_RUNNING]
                                    ELSE ZeroThread],
            table |-> [i \in Tid |-> IF i = 0 THEN heap[1] ELSE NULL],
            heap |-> Tail(heap), active |-> heap[1],
            sched_head |-> NULL, sched_tail |-> NULL,
            ev_front |-> [e \in Event |-> NULL], ev_back |-> [e \in Event |-> NULL],
            irqstate |-> [e \in Event |-> 0], irq_mask |-> {},
            dead_head |-> NULL, dead_tail |-> NULL,
            reaper_head |-> NULL, reaper_tail |-> NULL,
            fault_head |-> NULL, fault_tail |-> NULL,
            debug_head |-> NULL, debug_tail |-> NULL, halted |-> FALSE]

(* The kernel's entries, for a client that may make any call with any      *)
(* argument.  The return from the interrupt loads the registers of the     *)
(* thread that runs next: from then on the copy of eax in its struct is    *)
(* dead, 0 here, and the result is the client's.                           *)
image == kern.active

iret(k) == IF k.active = NULL THEN k ELSE ret(k, k.active, 0)

Entry(handled) == kern' = iret(int_return(handled))

Running == ~kern.halted /\ image # NULL

(* Bound: clients spawn only while the bucket has a struct left. *)
Spawn           == Running /\ kern.heap # <<>> /\ Entry(kcall_spawn(kern, image))
Reap(id)        == Running /\ Entry(kcall_reap(kern, image, id))
Gettid          == Running /\ Entry(kcall_gettid(kern, image))
Yield           == Running /\ Entry(kcall_yield(kern, image))
Pause(id)       == Running /\ Entry(kcall_pause(kern, image, id))
Resume(id)      == Running /\ Entry(kcall_resume(kern, image, id))
Getstate(id)    == Running /\ Entry(kcall_getstate(kern, image, id))
Setstate(id, s) == Running /\ Entry(kcall_setstate(kern, image, id, s))
Getdead         == Running /\ Entry(kcall_getdead(kern, image))
Getfault        == Running /\ Entry(kcall_getfault(kern, image))
Wait(e)         == Running /\ Entry(kcall_wait(kern, image, e))
Reset(e)        == Running /\ Entry(kcall_reset(kern, image, e))

(* System and user threads run in rings 1 and 3. *)
Fault(ring)     == Running /\ Entry(fault_generic(kern, image, ring))
PageFault(ring) == Running /\ Entry(fault_page(kern, image, ring))

(* The controller delivers an IRQ only while its line is unmasked. *)
Interrupt(i)    == /\ ~kern.halted
                   /\ i \notin kern.irq_mask
                   /\ Entry(event_send(kern, i))

Tick(j)         == /\ ~kern.halted
                   /\ Entry(timer_handler(kern, image, j))

=============================================================================
