---------------------------- MODULE ContractInv -----------------------------
(***************************************************************************)
(* The inductive invariant behind the properties of Contract.              *)
(*                                                                         *)
(* It is stated for kernel data k and a state function s, which gives each *)
(* struct its TS_ state.  s is normally k's own.  Half way through an      *)
(* operation one thread may be off all queues while its state field still  *)
(* says otherwise; the invariant then holds for the s that counts it as    *)
(* paused.                                                                 *)
(***************************************************************************)
EXTENDS Contract

States(k)  == [b \in Block |-> k.th[b].state]
In(s, st)  == {b \in Block : s[b] = st}
OnHeap(k)  == {k.heap[i] : i \in DOMAIN k.heap}

(* The active thread and only it is running; nobody is paused in a wait. *)
RunInv(k, s) ==
  /\ \A b \in Block : s[b] = TS_RUNNING <=> b = k.active
  /\ \A b \in Block : s[b] # TS_PAUSEDW

(* The threads in Q form one list from head to tail along link: links stay *)
(* inside Q, no two meet, none returns to the head, and any set that holds *)
(* the head and is closed under link holds all of Q.                       *)
ListInv(link, head, tail, Q) ==
  /\ head = NULL <=> tail = NULL
  /\ head # NULL => head \in Q /\ tail \in Q /\ link[tail] = NULL
  /\ \A x \in Q : link[x] \in Q \cup {NULL}
  /\ \A x \in Q : link[x] # head \/ link[x] = NULL
  /\ \A x, y \in Q : link[x] = link[y] /\ link[x] # NULL => x = y
  /\ \A S \in SUBSET Block :
       head \in S \cup {NULL} /\ (\A x \in S : link[x] \in S \cup {NULL}) => Q \subseteq S

(* The run queue holds the queued threads. *)
SchedInv(k, s) ==
  ListInv(Nexts(k), k.sched_head, k.sched_tail, In(s, TS_QUEUED))

(* The queue of an event holds the threads that wait for it. *)
NextEvs(k)     == [b \in Block |-> k.th[b].next_evqueue]
Waiting(k, s, e) == {b \in In(s, TS_WAITING) : k.th[b].event = e}

EventInv(k, s) ==
  /\ \A b \in In(s, TS_WAITING) : k.th[b].event \in Event
  /\ \A e \in Event :
       ListInv(NextEvs(k), k.ev_front[e], k.ev_back[e], Waiting(k, s, e))

(* At most one thread is blocked in getdead and one in getfault; nobody    *)
(* waits on the fault queue.                                               *)
BlockedInv(k, s) ==
  /\ k.reaper_head = k.reaper_tail
  /\ k.reaper_tail # NULL => /\ s[k.reaper_tail] = TS_PAUSED
                             /\ ~k.th[k.reaper_tail].dead
                             /\ k.reaper_tail \notin OnHeap(k)
                             /\ k.reaper_tail # k.debug_tail
                             /\ k.dead_tail = NULL
  /\ k.debug_head = k.debug_tail
  /\ k.debug_tail # NULL => /\ s[k.debug_tail] = TS_PAUSED
                            /\ ~k.th[k.debug_tail].dead
                            /\ k.debug_tail \notin OnHeap(k)
  /\ k.fault_head = NULL /\ k.fault_tail = NULL
  /\ \A b \in Block : k.th[b].next_fault = NULL

(* The members of the dead queue. *)
NextDeads(k) == [b \in Block |-> k.th[b].next_dead]

Dead(k) ==
  IF k.dead_tail = NULL THEN {} ELSE Walked(NextDeads(k), k.dead_tail, NULL)

(* The dead queue runs from dead_tail to dead_head; its members are dead   *)
(* and not freed.  The dead stay paused, and only they have a next_dead    *)
(* link.                                                                   *)
DeadInv(k, s) ==
  /\ \A b \in Block : IF k.th[b].dead THEN s[b] = TS_PAUSED
                                       ELSE k.th[b].next_dead = NULL
  /\ ListInv(NextDeads(k), k.dead_tail, k.dead_head, Dead(k))
  /\ \A b \in Dead(k) : s[b] = TS_PAUSED /\ k.th[b].dead /\ b \notin OnHeap(k)

(* The table and the bucket: a slot's struct has the slot's id and is not  *)
(* free; a free struct is free once and idle; a thread that runs, is       *)
(* queued, waits, is blocked or awaits its reaper is in the table.         *)
TableInv(k, s) ==
  /\ \A i \in Tid : k.table[i] # NULL => /\ k.th[k.table[i]].id = i
                                         /\ k.table[i] \notin OnHeap(k)
  /\ \A i, j \in DOMAIN k.heap : k.heap[i] = k.heap[j] => i = j
  /\ \A b \in OnHeap(k) : s[b] \in {TS_FREE, TS_PAUSED}
  /\ \A b \in Block :
       \/ s[b] \in {TS_RUNNING, TS_QUEUED, TS_WAITING}
       \/ b \in {k.reaper_tail, k.debug_tail} \cup Dead(k)
       => k.table[k.th[b].id] = b

(* A latched IRQ is masked and a masked one latched. *)
LatchInv(k) == \A i \in Irq : k.irqstate[i] = 1 <=> i \in k.irq_mask

KInv(k, s) ==
  /\ k \in KernelData
  /\ RunInv(k, s)
  /\ SchedInv(k, s)
  /\ EventInv(k, s)
  /\ BlockedInv(k, s)
  /\ DeadInv(k, s)
  /\ TableInv(k, s)
  /\ LatchInv(k)

(* The strengthening of UniqueRunning and the queue properties that every  *)
(* kernel entry preserves while the clients keep to all the rules.         *)
IInv == KInv(kern, States(kern))

=============================================================================
