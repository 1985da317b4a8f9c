------------------------------ MODULE Contract ------------------------------
(***************************************************************************)
(* The kernel with clients that keep to a set of rules, and what the       *)
(* kernel then guarantees.  Kernel allows any call with any argument.      *)
(* Several of its operations leave the queues in disorder unless the       *)
(* threads that use them are careful; each rule below names one such care. *)
(* With every rule in force the kernel keeps its promises; a rule is       *)
(* dropped from Rules to see what breaks without it.                       *)
(***************************************************************************)
EXTENDS Kernel

CONSTANTS
  Rules,          \* the rules the clients keep to
  Deaths          \* the values of TF_DEAD that they write with setstate

AllRules == {"pause_no_waiter", "leave_blocked_alone", "one_reaper",
             "one_debugger", "kill_once", "reap_handed_out",
             "fault_when_debugged", "no_exception"}

ASSUME RulesKnown     == Rules \subseteq AllRules
ASSUME DeathsAreFlags == Deaths \subseteq BOOLEAN

-----------------------------------------------------------------------------
(* What the rules talk about. *)

th        == kern.th
Allocated == {kern.table[i] : i \in Tid} \ {NULL}
InState(s) == {b \in Allocated : th[b].state = s}

NextDead  == [b \in Block |-> th[b].next_dead]
NextFault == [b \in Block |-> th[b].next_fault]
NextEv    == [b \in Block |-> th[b].next_evqueue]

(* The members of a list, given its first element. *)
List(link, first) == IF first = NULL THEN {} ELSE Walked(link, first, NULL)

RunQueue   == List(Nexts(kern), kern.sched_head)
Waiters(e) == List(NextEv, kern.ev_front[e])
DeadQueue  == List(NextDead, kern.dead_tail)
Reapers    == List(NextDead, kern.reaper_tail)
FaultQueue == List(NextFault, kern.fault_tail)
Debuggers  == List(NextFault, kern.debug_tail)

Keep(rule, condition) == rule \in Rules => condition

(* A thread blocked in getdead or getfault is TS_PAUSED like any other, and *)
(* only the queue tells them apart.                                         *)
NotBlocked(b) == b \notin Reapers \cup Debuggers

-----------------------------------------------------------------------------
(* The clients' steps.  id ranges over the thread table and -1. *)

CPause(id) ==
  LET b == target_of(kern, image, id)
  IN  /\ Keep("pause_no_waiter", b # NULL => th[b].state # TS_WAITING)
      /\ Pause(id)

CResume(id) ==
  LET b == thread_get(kern, id)
  IN  /\ Keep("leave_blocked_alone", b # NULL => NotBlocked(b))
      /\ Keep("kill_once", b # NULL => ~th[b].dead)
      /\ Resume(id)

CSetstate(id, s) ==
  LET b == target_of(kern, image, id)
  IN  /\ Keep("leave_blocked_alone", b # NULL => NotBlocked(b))
      /\ Keep("kill_once", b # NULL => ~th[b].dead)
      /\ Setstate(id, s)

CReap(id) ==
  LET b == thread_get(kern, id)
  IN  /\ Keep("reap_handed_out", /\ b # NULL
                                 /\ th[b].dead
                                 /\ b \notin DeadQueue)
      /\ Keep("leave_blocked_alone", b # NULL => NotBlocked(b))
      /\ Reap(id)

CGetdead   == Keep("one_reaper", kern.reaper_tail = NULL) /\ Getdead
CGetfault  == Keep("one_debugger", kern.debug_tail = NULL) /\ Getfault
CFault     == Keep("no_exception", FALSE) /\ Fault(1)
CPageFault == Keep("fault_when_debugged", kern.debug_tail # NULL) /\ PageFault(1)

(* What the clients write with setstate; the value of eax does not matter. *)
Info == [dead : Deaths, eax : {0}]

Client ==
  \/ Spawn
  \/ Gettid
  \/ Yield
  \/ CGetdead
  \/ CGetfault
  \/ CPageFault
  \/ CFault
  \/ \E id \in Tid \cup {-1} :
       \/ CPause(id)
       \/ CResume(id)
       \/ Getstate(id)
       \/ CReap(id)
       \/ \E s \in Info : CSetstate(id, s)
  \/ \E e \in Event : Wait(e) \/ Wait(-e - 1) \/ Reset(e)

Hardware ==
  \/ \E i \in Irq : Interrupt(i)
  \/ \E j \in Due : Tick(j)

(* After a panic the processor stays halted. *)
Next == Client \/ Hardware \/ (kern.halted /\ UNCHANGED kern)

Spec == Init /\ [][Next]_kern

-----------------------------------------------------------------------------
(* Properties *)

(* Every static variable and every struct field keeps its type. *)
TypeOK == kern \in KernelData

(* thread_get_active: the active thread is the unique thread in state      *)
(* TS_RUNNING, and there is none when the processor idles.                 *)
UniqueRunning == \A b \in Allocated : th[b].state = TS_RUNNING <=> b = kern.active

(* The run queue holds exactly the TS_QUEUED threads, ends at sched_tail,  *)
(* and is empty at both ends or at neither, so that schedule_push and      *)
(* schedule_remv always work on one well-formed list.                      *)
RunQueueExact ==
  /\ RunQueue = InState(TS_QUEUED)
  /\ (kern.sched_head = NULL) <=> (kern.sched_tail = NULL)
  /\ kern.sched_tail # NULL => /\ kern.sched_tail \in RunQueue
                               /\ th[kern.sched_tail].next = NULL

(* A TS_WAITING thread is on the queue of the event it waits for, on no    *)
(* other, and nobody else is: event_send reaches every waiter in turn.     *)
EventQueueExact ==
  \A e \in Event :
    /\ Waiters(e) = {b \in InState(TS_WAITING) : th[b].event = e}
    /\ (kern.ev_front[e] = NULL) <=> (kern.ev_back[e] = NULL)
    /\ kern.ev_back[e] # NULL => /\ kern.ev_back[e] \in Waiters(e)
                                 /\ NextEv[kern.ev_back[e]] = NULL

(* The dead queue holds dead, paused, not yet reaped threads; while one is *)
(* there no reaper is left blocked, and getdead never misses a death.      *)
DeadQueueExact ==
  /\ \A b \in DeadQueue : b \in InState(TS_PAUSED) /\ th[b].dead
  /\ (kern.dead_head = NULL) <=> (kern.dead_tail = NULL)
  /\ kern.dead_head # NULL => /\ kern.dead_head \in DeadQueue
                              /\ NextDead[kern.dead_head] = NULL
  /\ Reapers # {} => DeadQueue = {}
  /\ \A b \in Reapers \cup Debuggers : b \in InState(TS_PAUSED) /\ ~th[b].dead

(* A fault outside the kernel stops the thread, never the machine. *)
NeverHalted == ~kern.halted

(* An IRQ is masked exactly while its latch waits for a reset: no line     *)
(* stays masked with nothing latched, its driver waiting for ever, and no  *)
(* latched line can interrupt again.                                       *)
LatchMask == \A i \in Irq : kern.irqstate[i] = 1 <=> i \in kern.irq_mask

(* A slot's struct carries the slot's number, two slots never share one,   *)
(* and the bucket holds each struct once and only structs that no slot and *)
(* no queue refers to: reap frees nothing that is still in use.            *)
NoDangling ==
  /\ \A i \in Tid : kern.table[i] # NULL => th[kern.table[i]].id = i
  /\ \A i, j \in DOMAIN kern.heap : kern.heap[i] = kern.heap[j] => i = j
  /\ \A i \in DOMAIN kern.heap :
       kern.heap[i] \notin Allocated \cup RunQueue \cup DeadQueue \cup Reapers
                            \cup FaultQueue \cup Debuggers \cup {kern.active}
                            \cup UNION {Waiters(e) : e \in Event}

(* A thread ahead of b in the run queue was ahead of it before: round      *)
(* robin, nobody overtakes.                                                *)
Ahead(b) == IF kern.sched_head = b THEN {} ELSE Walked(Nexts(kern), kern.sched_head, b)
NoOvertaking ==
  [][\A b \in RunQueue : b \in RunQueue' => Ahead(b)' \subseteq Ahead(b)]_kern

(* A thread stops waiting only because its event was sent, and the number  *)
(* of that event is in eax when it runs.                                   *)
WokenByEvent ==
  [][\A b \in InState(TS_WAITING) :
       th'[b].state # TS_WAITING =>
         \/ th'[b].state = TS_QUEUED /\ th'[b].eax = th[b].event
         \/ th'[b].state = TS_RUNNING]_kern

(* A reaper blocked in getdead is woken with the id of a thread that died  *)
(* in this step, and a death no reaper waits for goes to the dead queue.   *)
DeathDelivered ==
  [][\A b \in Allocated : ~th[b].dead /\ th'[b].dead =>
       IF Reapers = {} THEN b \in DeadQueue'
       ELSE \E r \in Reapers \ Reapers' :
              \/ th'[r].state = TS_QUEUED /\ th'[r].eax = th[b].id
              \/ th'[r].state = TS_RUNNING]_kern

(* With the timer ticking, a queued thread does not stay queued for ever,  *)
(* unless the machine panics.                                              *)
QueuedRuns ==
  \A id \in Tid :
    (kern.table[id] # NULL /\ th[kern.table[id]].state = TS_QUEUED)
      ~> (\/ kern.halted
          \/ kern.table[id] = NULL
          \/ th[kern.table[id]].state # TS_QUEUED)

=============================================================================
