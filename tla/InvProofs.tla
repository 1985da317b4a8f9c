----------------------------- MODULE InvProofs ------------------------------
(***************************************************************************)
(* What the kernel's list operations do to a well-formed list (ListInv),   *)
(* whatever the number of structs: append, removal at the head and removal *)
(* after a search.  Then the operators of Thread and Kernel: they keep     *)
(* KernelData well typed, and what each of them leaves alone.  The second  *)
(* part shows how the operations of thread.c preserve the invariant KInv:  *)
(* one lemma per operation, over any kernel data k and state function s.   *)
(* A thread changes queue by way of Idle, on no queue at all.  The last    *)
(* part is about the event queues and the interrupt latches: event_wait,   *)
(* event_send and kcall_reset preserve the invariant.                      *)
(***************************************************************************)
EXTENDS ContractInv, TLAPS

(* Time limits for a leaf that names no prover: the provers in their       *)
(* default order, with time to spare.                                      *)
USE SMTT(30), ZenonT(30)

(* Links of structs outside the list do not matter. *)
LEMMA ListSame ==
  ASSUME NEW link, NEW link2, NEW h, NEW t, NEW Q \in SUBSET Block,
         ListInv(link, h, t, Q),
         \A x \in Q : link2[x] = link[x]
  PROVE  ListInv(link2, h, t, Q)
  <1>1. ASSUME NEW S \in SUBSET Block, h \in S \cup {NULL},
               \A x \in S : link2[x] \in S \cup {NULL}
        PROVE  Q \subseteq S
    <2>1. S \cap Q \in SUBSET Block
      OBVIOUS
    <2>2. h \in (S \cap Q) \cup {NULL}
      BY <1>1 DEF ListInv
    <2>3. \A x \in S \cap Q : link[x] \in (S \cap Q) \cup {NULL}
      BY <1>1 DEF ListInv
    <2>4. Q \subseteq S \cap Q
      BY <2>1, <2>2, <2>3, Zenon DEF ListInv
    <2> QED BY <2>4
  <1>2. /\ h = NULL <=> t = NULL
        /\ h # NULL => h \in Q /\ t \in Q /\ link2[t] = NULL
        /\ \A x \in Q : link2[x] \in Q \cup {NULL}
        /\ \A x \in Q : link2[x] # h \/ link2[x] = NULL
        /\ \A x, y \in Q : link2[x] = link2[y] /\ link2[x] # NULL => x = y
    BY DEF ListInv
  <1> QED BY <1>1, <1>2, Zenon DEF ListInv

(* Appending b, as schedule_push, event_wait and dead_push do. *)
LEMMA ListAppend ==
  ASSUME NEW link, NEW link2, NEW h, NEW t, NEW Q \in SUBSET Block,
         NEW b \in Block \ Q, NULL \notin Block,
         ListInv(link, h, t, Q),
         link2[b] = NULL,
         \A x \in Q : link2[x] = IF x = t THEN b ELSE link[x]
  PROVE  ListInv(link2, IF t = NULL THEN b ELSE h, b, Q \cup {b})
  <1> DEFINE h2 == IF t = NULL THEN b ELSE h
             Q2 == Q \cup {b}
  <1>0. t # NULL => h \in Q /\ t \in Q /\ link[t] = NULL
    BY DEF ListInv
  <1>1. ASSUME t = NULL PROVE Q = {}
    <2>1. {} \in SUBSET Block /\ h \in {} \cup {NULL}
      BY <1>1 DEF ListInv
    <2>2. Q \subseteq {}
      BY Zenon, <2>1 DEF ListInv
    <2> QED BY <2>2
  <1>2. ASSUME NEW S \in SUBSET Block, h2 \in S \cup {NULL},
               \A x \in S : link2[x] \in S \cup {NULL}
        PROVE  Q2 \subseteq S
    <2>1. CASE t = NULL
      BY <1>1, <1>2, <2>1
    <2>2. CASE t # NULL
      <3>1. S \cap Q \in SUBSET Block
        OBVIOUS
      <3>2. h \in (S \cap Q) \cup {NULL}
        BY <1>2, <1>0, <2>2
      <3>3. \A x \in S \cap Q : link[x] \in (S \cap Q) \cup {NULL}
        <4> SUFFICES ASSUME NEW x \in S \cap Q
                     PROVE  link[x] \in (S \cap Q) \cup {NULL}
          OBVIOUS
        <4>1. CASE x = t
          BY <4>1, <1>0, <2>2
        <4>2. CASE x # t
          BY <4>2, <1>2 DEF ListInv
        <4> QED BY <4>1, <4>2
      <3>4. Q \subseteq S \cap Q
        BY <3>1, <3>2, <3>3, Zenon DEF ListInv
      <3>5. t \in S /\ link2[t] = b
        BY <3>4, <1>0, <2>2
      <3>6. b \in S
        BY <3>5, <1>2
      <3> QED BY <3>4, <3>6
    <2> QED BY <2>1, <2>2
  <1>3. /\ h2 = NULL <=> b = NULL
        /\ h2 # NULL => h2 \in Q2 /\ b \in Q2 /\ link2[b] = NULL
    BY <1>0
  <1>4. \A x \in Q2 : link2[x] \in Q2 \cup {NULL}
    BY <1>0 DEF ListInv
  <1>5. \A x \in Q2 : link2[x] # h2 \/ link2[x] = NULL
    BY <1>0, <1>1 DEF ListInv
  <1>6. \A x, y \in Q2 : link2[x] = link2[y] /\ link2[x] # NULL => x = y
    <2> SUFFICES ASSUME NEW x \in Q2, NEW y \in Q2,
                        link2[x] = link2[y], link2[x] # NULL
                 PROVE  x = y
      OBVIOUS
    <2>1. x \in Q /\ y \in Q
      OBVIOUS
    <2>2. link[x] # b /\ link[y] # b
      BY <2>1 DEF ListInv
    <2> QED BY <2>1, <2>2 DEF ListInv
  <1> QED BY <1>2, <1>3, <1>4, <1>5, <1>6, Zenon DEF ListInv

(* Removing the head. *)
LEMMA ListPop ==
  ASSUME NEW link, NEW h, NEW t, NEW Q \in SUBSET Block,
         NULL \notin Block, h # NULL,
         ListInv(link, h, t, Q)
  PROVE  ListInv(link, link[h], IF link[h] = NULL THEN NULL ELSE t, Q \ {h})
  <1> DEFINE h2 == link[h]
             t2 == IF link[h] = NULL THEN NULL ELSE t
             Q2 == Q \ {h}
  <1>0. h \in Q /\ t \in Q /\ link[t] = NULL /\ h2 \in Q \cup {NULL} /\ h2 # h
    BY DEF ListInv
  <1>1. ASSUME NEW S \in SUBSET Block, h2 \in S \cup {NULL},
               \A x \in S : link[x] \in S \cup {NULL}
        PROVE  Q2 \subseteq S
    <2>1. S \cup {h} \in SUBSET Block
      BY <1>0
    <2>2. h \in (S \cup {h}) \cup {NULL}
      OBVIOUS
    <2>3. \A x \in S \cup {h} : link[x] \in (S \cup {h}) \cup {NULL}
      BY <1>1
    <2>4. Q \subseteq S \cup {h}
      BY <2>1, <2>2, <2>3, Zenon DEF ListInv
    <2> QED BY <2>4
  <1>2. h2 # NULL => h2 \in Q2 /\ t2 \in Q2 /\ link[t2] = NULL
    BY <1>0
  <1>3. h2 = NULL <=> t2 = NULL
    BY <1>0
  <1>4. /\ \A x \in Q2 : link[x] \in Q2 \cup {NULL}
        /\ \A x \in Q2 : link[x] # h2 \/ link[x] = NULL
        /\ \A x, y \in Q2 : link[x] = link[y] /\ link[x] # NULL => x = y
    BY <1>0 DEF ListInv
  <1> QED BY <1>1, <1>2, <1>3, <1>4, Zenon DEF ListInv

(* What List() collects from the head of a well-formed list is its members. *)
LEMMA ListMembers ==
  ASSUME NEW link, NEW h, NEW t, NEW Q \in SUBSET Block,
         ListInv(link, h, t, Q)
  PROVE  /\ h = NULL => Q = {}
         /\ h # NULL => Walked(link, h, NULL) = Q
         /\ List(link, h) = Q
  <1>1. ASSUME h = NULL PROVE Q = {}
    <2>1. {} \in SUBSET Block /\ h \in {} \cup {NULL}
      BY <1>1
    <2>2. Q \subseteq {}
      BY Zenon, <2>1 DEF ListInv
    <2> QED BY <2>2
  <1>2. ASSUME h # NULL PROVE Walked(link, h, NULL) = Q
    <2>1. h \in Q /\ \A x \in Q : link[x] \in Q \cup {NULL, NULL}
      BY <1>2 DEF ListInv
    <2>2. Walked(link, h, NULL) \subseteq Q
      BY <2>1 DEF Walked
    <2>3. ASSUME NEW x \in Q PROVE x \in Walked(link, h, NULL)
      <3>1. ASSUME NEW S \in SUBSET Block, h \in S,
                   \A y \in S : link[y] \in S \cup {NULL, NULL}
            PROVE  x \in S
        <4>1. h \in S \cup {NULL} /\ \A y \in S : link[y] \in S \cup {NULL}
          BY <3>1
        <4>2. Q \subseteq S
          BY <4>1, Zenon DEF ListInv
        <4> QED BY <4>2
      <3> QED BY <3>1, Zenon DEF Walked
    <2> QED BY <2>2, <2>3
  <1> QED BY <1>1, <1>2 DEF List

(* The walk of schedule_remv finds the one predecessor of a member. *)
LEMMA ListPred ==
  ASSUME NEW link, NEW h, NEW t, NEW Q \in SUBSET Block, NULL \notin Block,
         ListInv(link, h, t, Q), NEW b \in Q, b # h
  PROVE  /\ Walked(link, h, b) \subseteq Q
         /\ \E p \in Walked(link, h, b) : link[p] = b
  <1> DEFINE W == Walked(link, h, b)
  <1>0. h \in Q
    BY Zenon, ListMembers, b \in Q DEF ListInv
  <1>1. W \subseteq Q
    BY <1>0 DEF Walked, ListInv
  <1>2. b \notin W
    <2> DEFINE S == Q \ {b}
    <2>1. h \in S /\ \A x \in S : link[x] \in S \cup {b, NULL}
      BY <1>0 DEF ListInv
    <2>2. S \in SUBSET Block
      OBVIOUS
    <2>3. \A x \in W : x \in S
      BY <2>1, <2>2, Zenon DEF Walked
    <2> QED BY <2>3
  <1>3. ASSUME \A p \in W : link[p] # b PROVE FALSE
    <2>1. h \in W
      BY <1>0 DEF Walked
    <2>2. ASSUME NEW x \in W PROVE link[x] \in W \cup {NULL}
      <3>1. SUFFICES ASSUME link[x] # NULL PROVE link[x] \in W
        OBVIOUS
      <3>2. link[x] \in Block /\ link[x] # b
        BY <1>1, <1>3, <3>1 DEF ListInv
      <3>3. ASSUME NEW S \in SUBSET Block, h \in S,
                   \A y \in S : link[y] \in S \cup {b, NULL}
            PROVE  link[x] \in S
        <4>1. x \in S
          BY <3>3, Zenon DEF Walked
        <4> QED BY <4>1, <3>1, <3>2, <3>3
      <3> QED BY <3>2, <3>3, Zenon DEF Walked
    <2>3. W \in SUBSET Block
      BY <1>1
    <2> HIDE DEF W
    <2>4. Q \subseteq W
      BY <2>1, <2>2, <2>3 DEF ListInv
    <2> QED BY <2>4, <1>2
  <1> QED BY <1>1, <1>3

(* Taking out b, which is not the head, given its predecessor p. *)
LEMMA ListRemove ==
  ASSUME NEW link, NEW link2, NEW h, NEW t, NEW Q \in SUBSET Block,
         NULL \notin Block, ListInv(link, h, t, Q),
         NEW b \in Q, b # h, NEW p \in Q, link[p] = b,
         \A x \in Q : link2[x] = IF x = p THEN link[b] ELSE link[x]
  PROVE  ListInv(link2, h, IF t = b THEN p ELSE t, Q \ {b})
  <1> DEFINE t2 == IF t = b THEN p ELSE t
             Q2 == Q \ {b}
  <1>0. h \in Q /\ t \in Q /\ link[t] = NULL /\ h # NULL
    BY Zenon, ListMembers DEF ListInv
  <1>1. p # b
    <2>1. SUFFICES ASSUME p = b PROVE FALSE
      OBVIOUS
    <2>2. \A x \in Q2 : link[x] \in Q2 \cup {NULL}
      BY <2>1 DEF ListInv
    <2>3. Q2 \in SUBSET Block /\ h \in Q2 \cup {NULL}
      BY <1>0
    <2>4. Q \subseteq Q2
      BY <2>2, <2>3, Zenon DEF ListInv
    <2> QED BY <2>4
  <1>2. ASSUME NEW S \in SUBSET Block, h \in S \cup {NULL},
               \A x \in S : link2[x] \in S \cup {NULL}
        PROVE  Q2 \subseteq S
    <2> DEFINE S0 == S \cap Q2
               S1 == S0 \cup {b}
    <2>1. h \in S0
      BY <1>0, <1>2
    <2>2. \A x \in S0 : x # p => link[x] \in S0 \cup {NULL}
      BY <1>2 DEF ListInv
    <2>3. link[b] \in Q2 \cup {NULL}
      BY <1>1 DEF ListInv
    <2>4. CASE p \in S0
      <3>1. link2[p] = link[b]
        OBVIOUS
      <3>2. link[b] \in S0 \cup {NULL}
        BY <1>2, <2>3, <2>4, <3>1
      <3>3. \A x \in S1 : link[x] \in S1 \cup {NULL}
        BY <2>2, <3>2
      <3>4. S1 \in SUBSET Block /\ h \in S1 \cup {NULL}
        BY <2>1
      <3>5. Q \subseteq S1
        BY <3>3, <3>4, Zenon DEF ListInv
      <3> QED BY <3>5
    <2>5. CASE p \notin S0
      <3>1. \A x \in S0 : link[x] \in S0 \cup {NULL}
        BY <2>2, <2>5
      <3>2. S0 \in SUBSET Block /\ h \in S0 \cup {NULL}
        BY <2>1
      <3>3. Q \subseteq S0
        BY <3>1, <3>2, Zenon DEF ListInv
      <3> QED BY <3>3
    <2> QED BY <2>4, <2>5
  <1>3. t2 \in Q2 /\ link2[t2] = NULL /\ t2 # NULL /\ h \in Q2
    BY <1>0, <1>1
  <1>4. /\ \A x \in Q2 : link2[x] \in Q2 \cup {NULL}
        /\ \A x \in Q2 : link2[x] # h \/ link2[x] = NULL
    BY <1>0, <1>1 DEF ListInv
  <1>5. \A x, y \in Q2 : link2[x] = link2[y] /\ link2[x] # NULL => x = y
    BY <1>1 DEF ListInv
  <1> QED BY <1>0, <1>2, <1>3, <1>4, <1>5, Zenon DEF ListInv

-----------------------------------------------------------------------------
(* Assigning a variable or a field a value of its type. *)
LEMMA SetPtr ==
  ASSUME NEW k \in KernelData, NEW v \in Ptr
  PROVE  /\ [k EXCEPT !.active = v] \in KernelData
         /\ [k EXCEPT !.sched_head = v] \in KernelData
         /\ [k EXCEPT !.sched_tail = v] \in KernelData
         /\ [k EXCEPT !.dead_head = v] \in KernelData
         /\ [k EXCEPT !.dead_tail = v] \in KernelData
         /\ [k EXCEPT !.reaper_head = v] \in KernelData
         /\ [k EXCEPT !.reaper_tail = v] \in KernelData
         /\ [k EXCEPT !.debug_head = v] \in KernelData
         /\ [k EXCEPT !.debug_tail = v] \in KernelData
  <1>1. [k EXCEPT !.active = v] \in KernelData BY DEF KernelData
  <1>2. [k EXCEPT !.sched_head = v] \in KernelData BY DEF KernelData
  <1>3. [k EXCEPT !.sched_tail = v] \in KernelData BY DEF KernelData
  <1>4. [k EXCEPT !.dead_head = v] \in KernelData BY DEF KernelData
  <1>5. [k EXCEPT !.dead_tail = v] \in KernelData BY DEF KernelData
  <1>6. [k EXCEPT !.reaper_head = v] \in KernelData BY DEF KernelData
  <1>7. [k EXCEPT !.reaper_tail = v] \in KernelData BY DEF KernelData
  <1>8. [k EXCEPT !.debug_head = v] \in KernelData BY DEF KernelData
  <1>9. [k EXCEPT !.debug_tail = v] \in KernelData BY DEF KernelData
  <1> QED BY <1>1, <1>2, <1>3, <1>4, <1>5, <1>6, <1>7, <1>8, <1>9, Zenon

(* Assigning a whole struct thread keeps the kernel's data typed. *)
LEMMA SetThread ==
  ASSUME NEW k \in KernelData, NEW b \in Block, NEW t \in ThreadStruct
  PROVE  [k EXCEPT !.th[b] = t] \in KernelData
  BY DEF KernelData

(* Assigning one of a struct's link fields keeps the data typed. *)
LEMMA SetLink ==
  ASSUME NEW k \in KernelData, NEW b \in Block, NEW v \in Ptr
  PROVE  /\ [k EXCEPT !.th[b].next = v] \in KernelData
         /\ [k EXCEPT !.th[b].next_evqueue = v] \in KernelData
         /\ [k EXCEPT !.th[b].next_dead = v] \in KernelData
         /\ [k EXCEPT !.th[b].next_fault = v] \in KernelData
  <1>0. k.th[b] \in ThreadStruct
    BY DEF KernelData
  <1>1. [k.th[b] EXCEPT !.next = v] \in ThreadStruct
    BY <1>0 DEF ThreadStruct
  <1>2. [k.th[b] EXCEPT !.next_evqueue = v] \in ThreadStruct
    BY <1>0 DEF ThreadStruct
  <1>3. [k.th[b] EXCEPT !.next_dead = v] \in ThreadStruct
    BY <1>0 DEF ThreadStruct
  <1>4. [k.th[b] EXCEPT !.next_fault = v] \in ThreadStruct
    BY <1>0 DEF ThreadStruct
  <1>5. [k EXCEPT !.th[b].next = v] \in KernelData
    BY Zenon, <1>1 DEF KernelData
  <1>6. [k EXCEPT !.th[b].next_evqueue = v] \in KernelData
    BY Zenon, <1>2 DEF KernelData
  <1>7. [k EXCEPT !.th[b].next_dead = v] \in KernelData
    BY Zenon, <1>3 DEF KernelData
  <1>8. [k EXCEPT !.th[b].next_fault = v] \in KernelData
    BY Zenon, <1>4 DEF KernelData
  <1> QED BY <1>5, <1>6, <1>7, <1>8, Zenon

(* Assigning a struct's state, event, eax or flag keeps the data typed. *)
LEMMA SetData ==
  ASSUME NEW k \in KernelData, NEW b \in Block
  PROVE  /\ \A v \in 0..5 : [k EXCEPT !.th[b].state = v] \in KernelData
         /\ \A v \in Int : [k EXCEPT !.th[b].event = v] \in KernelData
         /\ \A v \in Int : [k EXCEPT !.th[b].eax = v] \in KernelData
         /\ \A v \in BOOLEAN : [k EXCEPT !.th[b].dead = v] \in KernelData
  <1>0. k.th[b] \in ThreadStruct
    BY DEF KernelData
  <1>1. ASSUME NEW v \in 0..5 PROVE [k EXCEPT !.th[b].state = v] \in KernelData
    <2>1. [k.th[b] EXCEPT !.state = v] \in ThreadStruct
      BY <1>0 DEF ThreadStruct
    <2> QED BY Zenon, <2>1 DEF KernelData
  <1>2. ASSUME NEW v \in Int PROVE [k EXCEPT !.th[b].event = v] \in KernelData
    <2>1. [k.th[b] EXCEPT !.event = v] \in ThreadStruct
      BY <1>0 DEF ThreadStruct
    <2> QED BY Zenon, <2>1 DEF KernelData
  <1>3. ASSUME NEW v \in Int PROVE [k EXCEPT !.th[b].eax = v] \in KernelData
    <2>1. [k.th[b] EXCEPT !.eax = v] \in ThreadStruct
      BY <1>0 DEF ThreadStruct
    <2> QED BY Zenon, <2>1 DEF KernelData
  <1>4. ASSUME NEW v \in BOOLEAN PROVE [k EXCEPT !.th[b].dead = v] \in KernelData
    <2>1. [k.th[b] EXCEPT !.dead = v] \in ThreadStruct
      BY <1>0 DEF ThreadStruct
    <2> QED BY Zenon, <2>1 DEF KernelData
  <1> QED BY <1>1, <1>2, <1>3, <1>4, Zenon

(* Assigning an event queue's ends, a latch or the mask register keeps the *)
(* data typed.                                                             *)
LEMMA SetEvent ==
  ASSUME NEW k \in KernelData, NEW e \in Event
  PROVE  /\ \A v \in Ptr : [k EXCEPT !.ev_front[e] = v] \in KernelData
         /\ \A v \in Ptr : [k EXCEPT !.ev_back[e] = v] \in KernelData
         /\ \A v \in {0, 1} : [k EXCEPT !.irqstate[e] = v] \in KernelData
         /\ \A m \in SUBSET (0..15) : [k EXCEPT !.irq_mask = m] \in KernelData
  <1>1. \A v \in Ptr : [k EXCEPT !.ev_front[e] = v] \in KernelData
    BY DEF KernelData
  <1>2. \A v \in Ptr : [k EXCEPT !.ev_back[e] = v] \in KernelData
    BY DEF KernelData
  <1>3. \A v \in {0, 1} : [k EXCEPT !.irqstate[e] = v] \in KernelData
    BY DEF KernelData
  <1>4. \A m \in SUBSET (0..15) : [k EXCEPT !.irq_mask = m] \in KernelData
    BY DEF KernelData
  <1> QED BY <1>1, <1>2, <1>3, <1>4, Zenon

(* Assigning a table slot, the bucket or the halt keeps the data typed. *)
LEMMA SetTable ==
  ASSUME NEW k \in KernelData, NEW v \in Ptr
  PROVE  /\ \A i \in Tid : [k EXCEPT !.table[i] = v] \in KernelData
         /\ \A q \in FreeList : [k EXCEPT !.heap = q] \in KernelData
         /\ \A x \in BOOLEAN : [k EXCEPT !.halted = x] \in KernelData
  <1>1. \A i \in Tid : [k EXCEPT !.table[i] = v] \in KernelData
    BY DEF KernelData
  <1>2. \A q \in FreeList : [k EXCEPT !.heap = q] \in KernelData
    BY DEF KernelData
  <1>3. \A x \in BOOLEAN : [k EXCEPT !.halted = x] \in KernelData
    BY DEF KernelData
  <1> QED BY <1>1, <1>2, <1>3, Zenon

(* A pointer is NULL or a struct, never both. *)
LEMMA PtrCase == \A p \in Ptr : p = NULL \/ (p \in Block /\ p # NULL)
  BY NullIsNoBlock DEF Ptr

(* The types of what the operators read. *)
LEMMA Types ==
  ASSUME NEW k \in KernelData
  PROVE  /\ k.active \in Ptr /\ k.sched_head \in Ptr /\ k.sched_tail \in Ptr
         /\ k.dead_head \in Ptr /\ k.dead_tail \in Ptr
         /\ k.reaper_head \in Ptr /\ k.reaper_tail \in Ptr
         /\ k.debug_head \in Ptr /\ k.debug_tail \in Ptr
         /\ k.fault_head \in Ptr /\ k.fault_tail \in Ptr
         /\ k.heap \in FreeList /\ k.table \in [Tid -> Ptr]
         /\ \A b \in Block : k.th[b] \in ThreadStruct
         /\ \A e \in Event : k.ev_front[e] \in Ptr /\ k.ev_back[e] \in Ptr
         /\ \A e \in Event : k.irqstate[e] \in {0, 1}
         /\ k.irq_mask \in SUBSET (0..15)
         /\ \A b \in Block : /\ k.th[b].id \in Tid /\ k.th[b].state \in 0..5
                             /\ k.th[b].event \in Int /\ k.th[b].eax \in Int
                             /\ k.th[b].next \in Ptr /\ k.th[b].next_evqueue \in Ptr
                             /\ k.th[b].next_dead \in Ptr /\ k.th[b].next_fault \in Ptr
  <1>1. \A b \in Block : k.th[b] \in ThreadStruct
    BY DEF KernelData
  <1>2. \A b \in Block : /\ k.th[b].id \in Tid /\ k.th[b].state \in 0..5
                         /\ k.th[b].event \in Int /\ k.th[b].eax \in Int
                         /\ k.th[b].next \in Ptr /\ k.th[b].next_evqueue \in Ptr
                         /\ k.th[b].next_dead \in Ptr /\ k.th[b].next_fault \in Ptr
    BY <1>1 DEF ThreadStruct
  <1> QED BY <1>1, <1>2 DEF KernelData

-----------------------------------------------------------------------------
(* What an operation that turns k into r leaves alone. *)
SameSched(k, r)   == /\ r.sched_head = k.sched_head /\ r.sched_tail = k.sched_tail
                     /\ \A x \in Block : r.th[x].next = k.th[x].next
SameEvents(k, r)  == /\ r.ev_front = k.ev_front /\ r.ev_back = k.ev_back
                     /\ \A x \in Block : /\ r.th[x].next_evqueue = k.th[x].next_evqueue
                                          /\ r.th[x].event = k.th[x].event
SameBlocked(k, r) == /\ r.reaper_head = k.reaper_head /\ r.reaper_tail = k.reaper_tail
                     /\ r.debug_head = k.debug_head /\ r.debug_tail = k.debug_tail
                     /\ r.fault_head = k.fault_head /\ r.fault_tail = k.fault_tail
                     /\ \A x \in Block : r.th[x].next_fault = k.th[x].next_fault
SameDead(k, r)    == /\ r.dead_head = k.dead_head /\ r.dead_tail = k.dead_tail
                     /\ \A x \in Block : /\ r.th[x].next_dead = k.th[x].next_dead
                                          /\ r.th[x].dead = k.th[x].dead
SameTable(k, r)   == /\ r.table = k.table /\ r.heap = k.heap
                     /\ \A x \in Block : r.th[x].id = k.th[x].id
SameLatch(k, r)   == r.irqstate = k.irqstate /\ r.irq_mask = k.irq_mask
SameStates(k, r)  == \A x \in Block : r.th[x].state = k.th[x].state

(* The operations that work on one part of the data. *)
OnlySched(k, r)  == /\ r \in KernelData /\ r.active = k.active
                    /\ SameEvents(k, r) /\ SameBlocked(k, r) /\ SameDead(k, r)
                    /\ SameTable(k, r) /\ SameLatch(k, r) /\ SameStates(k, r)
OnlyEvents(k, r) == /\ r \in KernelData /\ r.active = k.active
                    /\ SameSched(k, r) /\ SameBlocked(k, r) /\ SameDead(k, r)
                    /\ SameTable(k, r) /\ SameLatch(k, r) /\ SameStates(k, r)

(* schedule_push: the links of the run queue after it. *)
LEMMA PushEffect ==
  ASSUME NEW k \in KernelData, NEW b \in Block
  PROVE  /\ OnlySched(k, schedule_push(k, b))
         /\ schedule_push(k, b).sched_head = IF k.sched_tail = NULL THEN b ELSE k.sched_head
         /\ schedule_push(k, b).sched_tail = b
         /\ \A x \in Block : schedule_push(k, b).th[x].next =
                                 IF x = b THEN NULL ELSE
                                 IF x = k.sched_tail THEN b ELSE k.th[x].next
  <1> DEFINE r == schedule_push(k, b)
  <1>0. k.sched_tail = NULL \/ (k.sched_tail \in Block /\ k.sched_tail # NULL)
    BY Types, PtrCase
  <1>1. r \in KernelData
    <2>1. CASE k.sched_tail = NULL
      BY <2>1, SetLink, SetPtr, Zenon DEF schedule_push, Ptr
    <2>2. CASE k.sched_tail \in Block /\ k.sched_tail # NULL
      BY <2>2, SetLink, SetPtr, Zenon DEF schedule_push, Ptr
    <2> QED BY <1>0, <2>1, <2>2
  <1>2. SameEvents(k, r)
    BY <1>0 DEF SameEvents, KernelData, ThreadStruct, schedule_push
  <1>3. SameBlocked(k, r)
    BY <1>0 DEF SameBlocked, KernelData, ThreadStruct, schedule_push
  <1>4. SameDead(k, r)
    BY <1>0 DEF SameDead, KernelData, ThreadStruct, schedule_push
  <1>5. SameTable(k, r)
    BY <1>0 DEF SameTable, KernelData, ThreadStruct, schedule_push
  <1>6. SameLatch(k, r) /\ r.active = k.active
    BY <1>0 DEF SameLatch, KernelData, ThreadStruct, schedule_push
  <1>7. SameStates(k, r)
    BY <1>0 DEF SameStates, KernelData, ThreadStruct, schedule_push
  <1>8. /\ r.sched_head = IF k.sched_tail = NULL THEN b ELSE k.sched_head
        /\ r.sched_tail = b
    BY <1>0 DEF KernelData, ThreadStruct, schedule_push
  <1>9. \A x \in Block : r.th[x].next = IF x = b THEN NULL ELSE
                                        IF x = k.sched_tail THEN b ELSE k.th[x].next
    <2>1. CASE k.sched_tail = NULL
      BY <2>1, NullIsNoBlock DEF KernelData, ThreadStruct, schedule_push
    <2>2. CASE k.sched_tail \in Block /\ k.sched_tail # NULL
      BY <2>2 DEF KernelData, ThreadStruct, schedule_push
    <2> QED BY <1>0, <2>1, <2>2
  <1> QED BY <1>1, <1>2, <1>3, <1>4, <1>5, <1>6, <1>7, <1>8, <1>9 DEF OnlySched

(* Everything but the active thread and the threads' states and results. *)
SameQueues(k, r) == /\ SameSched(k, r) /\ SameEvents(k, r) /\ SameBlocked(k, r)
                    /\ SameDead(k, r) /\ SameTable(k, r) /\ SameLatch(k, r)

(* A result is written to a thread's saved eax. *)
LEMMA EaxEffect ==
  ASSUME NEW k \in KernelData, NEW b \in Block, NEW v \in Int
  PROVE  LET r == [k EXCEPT !.th[b].eax = v]
         IN  r \in KernelData /\ r.active = k.active /\ SameQueues(k, r) /\ SameStates(k, r)
  <1> DEFINE r == [k EXCEPT !.th[b].eax = v]
  <1>1. r \in KernelData
    BY SetData, Zenon
  <1>2. SameSched(k, r) /\ r.active = k.active
    BY DEF SameSched, KernelData, ThreadStruct
  <1>3. SameEvents(k, r)
    BY DEF SameEvents, KernelData, ThreadStruct
  <1>4. SameBlocked(k, r)
    BY DEF SameBlocked, KernelData, ThreadStruct
  <1>5. SameDead(k, r)
    BY DEF SameDead, KernelData, ThreadStruct
  <1>6. SameTable(k, r)
    BY DEF SameTable, KernelData, ThreadStruct
  <1>7. SameLatch(k, r) /\ SameStates(k, r)
    BY DEF SameLatch, SameStates, KernelData, ThreadStruct
  <1> QED BY <1>1, <1>2, <1>3, <1>4, <1>5, <1>6, <1>7, Zenon DEF SameQueues

(* A thread's state field is written. *)
LEMMA StateEffect ==
  ASSUME NEW k \in KernelData, NEW b \in Block, NEW v \in 0..5
  PROVE  LET r == [k EXCEPT !.th[b].state = v]
         IN  /\ r \in KernelData /\ r.active = k.active /\ SameQueues(k, r)
             /\ States(r) = [States(k) EXCEPT ![b] = v]
  <1> DEFINE r == [k EXCEPT !.th[b].state = v]
  <1>1. r \in KernelData
    BY SetData, Zenon
  <1>2. SameSched(k, r) /\ r.active = k.active
    BY DEF SameSched, KernelData, ThreadStruct
  <1>3. SameEvents(k, r)
    BY DEF SameEvents, KernelData, ThreadStruct
  <1>4. SameBlocked(k, r)
    BY DEF SameBlocked, KernelData, ThreadStruct
  <1>5. SameDead(k, r)
    BY DEF SameDead, KernelData, ThreadStruct
  <1>6. SameTable(k, r)
    BY DEF SameTable, KernelData, ThreadStruct
  <1>7. SameLatch(k, r)
    BY DEF SameLatch, KernelData, ThreadStruct
  <1>8. States(r) = [States(k) EXCEPT ![b] = v]
    BY Zenon DEF States, KernelData, ThreadStruct
  <1> QED BY <1>1, <1>2, <1>3, <1>4, <1>5, <1>6, <1>7, <1>8, Zenon DEF SameQueues

(* thread_load and thread_save, as far as the kernel's lists go. *)
LEMMA ActiveEffect ==
  ASSUME NEW k \in KernelData, NEW v \in Ptr
  PROVE  LET r == [k EXCEPT !.active = v]
         IN  r \in KernelData /\ r.active = v /\ SameQueues(k, r) /\ SameStates(k, r)
  <1> DEFINE r == [k EXCEPT !.active = v]
  <1>1. r \in KernelData
    BY SetPtr, Zenon
  <1>2. r.active = v /\ r.th = k.th
    BY DEF KernelData
  <1>3. SameQueues(k, r) /\ SameStates(k, r)
    BY <1>2 DEF SameQueues, SameSched, SameEvents, SameBlocked, SameDead, SameTable,
                SameLatch, SameStates, KernelData
  <1> QED BY <1>1, <1>2, <1>3

(* debug_panic and its absence touch no queue and no state. *)
LEMMA HaltEffect ==
  ASSUME NEW k \in KernelData, NEW v \in BOOLEAN
  PROVE  LET r == [k EXCEPT !.halted = v]
         IN  r \in KernelData /\ r.active = k.active /\ SameQueues(k, r) /\ SameStates(k, r)
  <1> DEFINE r == [k EXCEPT !.halted = v]
  <1>1. r \in KernelData
    BY SetTable, Zenon DEF Ptr
  <1>2. r.active = k.active /\ r.th = k.th
    BY DEF KernelData
  <1>3. SameQueues(k, r) /\ SameStates(k, r)
    BY <1>2 DEF SameQueues, SameSched, SameEvents, SameBlocked, SameDead, SameTable,
                SameLatch, SameStates, KernelData
  <1> QED BY <1>1, <1>2, <1>3

(* schedule_remv of the head. *)
LEMMA RemvHeadEffect ==
  ASSUME NEW k \in KernelData, NEW b \in Block, k.sched_head = b
  PROVE  LET r == schedule_remv(k, b)
         IN  /\ OnlySched(k, r) /\ r.sched_head = k.th[b].next
             /\ r.sched_tail = IF k.th[b].next = NULL THEN NULL ELSE k.sched_tail
             /\ \A x \in Block : r.th[x].next = k.th[x].next
  <1> DEFINE t == IF k.th[b].next = NULL THEN NULL ELSE k.sched_tail
             r == [k EXCEPT !.sched_head = k.th[b].next, !.sched_tail = t]
  <1>0. k.th[b].next \in Ptr /\ t \in Ptr
    BY Types DEF Ptr
  <1>1. schedule_remv(k, b) = r
    BY NullIsNoBlock DEF schedule_remv, KernelData
  <1> HIDE DEF t
  <1>2. r \in KernelData
    BY <1>0, SetPtr, Zenon
  <1>3. r.th = k.th /\ r.active = k.active /\ r.sched_head = k.th[b].next /\ r.sched_tail = t
    BY DEF KernelData
  <1>4. /\ SameEvents(k, r) /\ SameBlocked(k, r) /\ SameDead(k, r) /\ SameTable(k, r)
        /\ SameLatch(k, r) /\ SameStates(k, r)
    BY <1>3 DEF SameEvents, SameBlocked, SameDead, SameTable, SameLatch, SameStates, KernelData
  <1> HIDE DEF r
  <1>5. OnlySched(k, r) /\ \A x \in Block : r.th[x].next = k.th[x].next
    BY <1>2, <1>3, <1>4 DEF OnlySched
  <1> QED BY <1>1, <1>3, <1>5 DEF t

(* schedule_remv further down, after p. *)
LEMMA RemvMiddleEffect ==
  ASSUME NEW k \in KernelData, NEW b \in Block, NEW p \in Block,
         k.sched_head \in Block, k.sched_head # b, p = Pred(k, k.sched_head, b)
  PROVE  LET r == schedule_remv(k, b)
         IN  /\ OnlySched(k, r) /\ r.sched_head = k.sched_head
             /\ r.sched_tail = IF k.sched_tail = b THEN p ELSE k.sched_tail
             /\ \A x \in Block : r.th[x].next = IF x = p THEN k.th[b].next ELSE k.th[x].next
  <1> DEFINE t == IF k.sched_tail = b THEN p ELSE k.sched_tail
             r == [k EXCEPT !.th[p].next = k.th[b].next, !.sched_tail = t]
  <1>0. k.th[b].next \in Ptr /\ t \in Ptr
    BY Types DEF Ptr
  <1>1. schedule_remv(k, b) = r
    BY NullIsNoBlock DEF schedule_remv, KernelData
  <1> HIDE DEF t
  <1>2. r \in KernelData
    BY <1>0, SetPtr, SetLink, Zenon
  <1>3. SameEvents(k, r)
    BY DEF SameEvents, KernelData, ThreadStruct
  <1>4. SameBlocked(k, r)
    BY DEF SameBlocked, KernelData, ThreadStruct
  <1>5. SameDead(k, r)
    BY DEF SameDead, KernelData, ThreadStruct
  <1>6. SameTable(k, r)
    BY DEF SameTable, KernelData, ThreadStruct
  <1>7. SameLatch(k, r) /\ r.active = k.active /\ r.sched_head = k.sched_head /\ r.sched_tail = t
    BY DEF SameLatch, KernelData
  <1>8. SameStates(k, r)
    BY DEF SameStates, KernelData, ThreadStruct
  <1>9. \A x \in Block : r.th[x].next = IF x = p THEN k.th[b].next ELSE k.th[x].next
    BY DEF KernelData, ThreadStruct
  <1> HIDE DEF r
  <1>10. OnlySched(k, r)
    BY <1>2, <1>3, <1>4, <1>5, <1>6, <1>7, <1>8 DEF OnlySched
  <1> QED BY <1>1, <1>7, <1>9, <1>10 DEF t

-----------------------------------------------------------------------------
StateFun == [Block -> 0..5]
Live     == {TS_RUNNING, TS_QUEUED, TS_WAITING}

(* b is allocated and on no queue: nothing but the table refers to it. *)
Idle(k, s, b) ==
  /\ b \in Block /\ s[b] = TS_PAUSED /\ b \notin OnHeap(k) /\ ~k.th[b].dead
  /\ b # k.reaper_tail /\ b # k.debug_tail /\ b \notin Dead(k)
  /\ k.table[k.th[b].id] = b

(* A part of the invariant that the operation does not touch. *)
LEMMA SchedFrame ==
  ASSUME NEW k, NEW r, NEW s, NEW s2, SameSched(k, r), SchedInv(k, s),
         In(s2, TS_QUEUED) = In(s, TS_QUEUED)
  PROVE  SchedInv(r, s2)
  <1>1. Nexts(r) = Nexts(k)
    BY DEF SameSched, Nexts
  <1> QED BY <1>1 DEF SameSched, SchedInv

(* Data that agrees on the event queues and on who waits keeps the event   *)
(* part.                                                                   *)
LEMMA EventFrame ==
  ASSUME NEW k, NEW r, NEW s, NEW s2, SameEvents(k, r), EventInv(k, s),
         In(s2, TS_WAITING) = In(s, TS_WAITING)
  PROVE  EventInv(r, s2)
  <1>1. NextEvs(r) = NextEvs(k)
    BY DEF SameEvents, NextEvs
  <1>2. \A e : Waiting(r, s2, e) = Waiting(k, s, e)
    BY DEF SameEvents, Waiting, In
  <1>3. \A b \in In(s2, TS_WAITING) : r.th[b].event \in Event
    BY DEF SameEvents, EventInv, In
  <1> QED BY <1>1, <1>2, <1>3 DEF SameEvents, EventInv

(* Data that agrees on the dead queue has the same members in it. *)
LEMMA DeadSame ==
  ASSUME NEW k, NEW r, SameDead(k, r)
  PROVE  NextDeads(r) = NextDeads(k) /\ Dead(r) = Dead(k)
  <1>1. NextDeads(r) = NextDeads(k)
    BY DEF SameDead, NextDeads
  <1> QED BY <1>1 DEF SameDead, Dead

(* Data that agrees on them keeps the parts on blocked threads, deaths and *)
(* the table.                                                              *)
LEMMA TablesFrame ==
  ASSUME NEW k, NEW r, NEW s, SameBlocked(k, r), SameDead(k, r), SameTable(k, r),
         k \in KernelData
  PROVE  /\ BlockedInv(k, s) => BlockedInv(r, s)
         /\ DeadInv(k, s) => DeadInv(r, s)
         /\ TableInv(k, s) => TableInv(r, s)
         /\ \A b : Idle(k, s, b) => Idle(r, s, b)
  <1>0. OnHeap(r) = OnHeap(k)
    BY DEF SameTable, OnHeap
  <1>1. BlockedInv(k, s) => BlockedInv(r, s)
    <2>1. k.reaper_tail # NULL => k.reaper_tail \in Block
      BY Types, PtrCase
    <2>2. k.debug_tail # NULL => k.debug_tail \in Block
      BY Types, PtrCase
    <2> QED BY <1>0, <2>1, <2>2 DEF BlockedInv, SameBlocked, SameDead
  <1>2. DeadInv(k, s) => DeadInv(r, s)
    <2>1. Dead(k) \subseteq Block
      BY DEF Dead, Walked
    <2> QED BY <1>0, <2>1, DeadSame DEF DeadInv, SameDead
  <1>3. TableInv(k, s) => TableInv(r, s)
    <2>1. \A i \in Tid : k.table[i] # NULL => k.table[i] \in Block
      BY Types, PtrCase
    <2> QED BY <1>0, <2>1, DeadSame DEF TableInv, SameTable, SameBlocked
  <1>4. \A b : Idle(k, s, b) => Idle(r, s, b)
    BY <1>0, DeadSame DEF Idle, SameTable, SameBlocked, SameDead
  <1> QED BY <1>1, <1>2, <1>3, <1>4

(* An idle thread starts to run, to wait or to queue. *)
LEMMA Activate ==
  ASSUME NEW k \in KernelData, NEW s \in StateFun, NEW b, NEW v \in Live,
         Idle(k, s, b), BlockedInv(k, s), DeadInv(k, s), TableInv(k, s)
  PROVE  LET s2 == [s EXCEPT ![b] = v]
         IN  s2 \in StateFun /\ BlockedInv(k, s2) /\ DeadInv(k, s2) /\ TableInv(k, s2)
  <1> DEFINE s2 == [s EXCEPT ![b] = v]
  <1>0. /\ s2 \in StateFun /\ b \in Block
        /\ \A x \in Block : s2[x] = IF x = b THEN v ELSE s[x]
    BY DEF StateFun, Idle, Live, TS_RUNNING, TS_QUEUED, TS_WAITING
  <1> HIDE DEF s2
  <1>1. BlockedInv(k, s2)
    <2>1. k.reaper_tail # NULL => k.reaper_tail \in Block
      BY Types, PtrCase
    <2>2. k.debug_tail # NULL => k.debug_tail \in Block
      BY Types, PtrCase
    <2> QED BY <1>0, <2>1, <2>2 DEF BlockedInv, Idle
  <1>2. Dead(k) \subseteq Block
    BY DEF Dead, Walked
  <1>3. DeadInv(k, s2)
    BY <1>0, <1>2 DEF DeadInv, Idle
  <1>4. OnHeap(k) \subseteq Block
    BY Types DEF OnHeap, FreeList
  <1>5. TableInv(k, s2)
    BY <1>0, <1>4 DEF TableInv, Idle, Live
  <1> QED BY <1>0, <1>1, <1>3, <1>5 DEF s2

(* A thread leaves its queue, or stops running, and is idle. *)
LEMMA Deactivate ==
  ASSUME NEW k \in KernelData, NEW s \in StateFun, NEW b \in Block, s[b] \in Live,
         BlockedInv(k, s), DeadInv(k, s), TableInv(k, s)
  PROVE  LET s2 == [s EXCEPT ![b] = TS_PAUSED]
         IN  /\ s2 \in StateFun /\ BlockedInv(k, s2) /\ DeadInv(k, s2) /\ TableInv(k, s2)
             /\ Idle(k, s2, b)
  <1> DEFINE s2 == [s EXCEPT ![b] = TS_PAUSED]
  <1>0. /\ s2 \in StateFun
        /\ \A x \in Block : s2[x] = IF x = b THEN TS_PAUSED ELSE s[x]
    BY DEF StateFun, TS_PAUSED
  <1> HIDE DEF s2
  <1>1. BlockedInv(k, s2)
    <2>1. k.reaper_tail # NULL => k.reaper_tail \in Block
      BY Types, PtrCase
    <2>2. k.debug_tail # NULL => k.debug_tail \in Block
      BY Types, PtrCase
    <2> QED BY <1>0, <2>1, <2>2 DEF BlockedInv
  <1>2. Dead(k) \subseteq Block
    BY DEF Dead, Walked
  <1>3. DeadInv(k, s2)
    BY <1>0, <1>2 DEF DeadInv
  <1>4. OnHeap(k) \subseteq Block
    BY Types DEF OnHeap, FreeList
  <1>5. TableInv(k, s2)
    BY <1>0, <1>4 DEF TableInv, Live, TS_PAUSED, TS_RUNNING, TS_QUEUED, TS_WAITING
  <1>6. Idle(k, s2, b)
    <2>1. s[b] # TS_PAUSED /\ s[b] # TS_FREE
      BY DEF Live, TS_PAUSED, TS_FREE, TS_RUNNING, TS_QUEUED, TS_WAITING
    <2>2. b # NULL
      BY NullIsNoBlock
    <2> QED BY <1>0, <2>1, <2>2 DEF Idle, BlockedInv, DeadInv, TableInv, Live
  <1> QED BY <1>0, <1>1, <1>3, <1>5, <1>6 DEF s2

-----------------------------------------------------------------------------
(* schedule_push of an idle thread. *)
LEMMA KPush ==
  ASSUME NEW k, NEW s \in StateFun, NEW b, KInv(k, s), Idle(k, s, b)
  PROVE  KInv(schedule_push(k, b), [s EXCEPT ![b] = TS_QUEUED])
  <1> DEFINE r == schedule_push(k, b)
             s2 == [s EXCEPT ![b] = TS_QUEUED]
             Q == In(s, TS_QUEUED)
  <1>0. /\ k \in KernelData /\ b \in Block
        /\ \A x \in Block : s2[x] = IF x = b THEN TS_QUEUED ELSE s[x]
    BY DEF KInv, Idle, StateFun
  <1>1. /\ OnlySched(k, r)
        /\ r.sched_head = IF k.sched_tail = NULL THEN b ELSE k.sched_head
        /\ r.sched_tail = b
        /\ \A x \in Block : r.th[x].next = IF x = b THEN NULL ELSE
                                           IF x = k.sched_tail THEN b ELSE k.th[x].next
    BY <1>0, PushEffect
  <1>2. BlockedInv(k, s2) /\ DeadInv(k, s2) /\ TableInv(k, s2)
    BY Zenon, <1>0, Activate DEF KInv, Live
  <1> HIDE DEF r, s2
  <1>3. BlockedInv(r, s2) /\ DeadInv(r, s2) /\ TableInv(r, s2)
    BY <1>0, <1>1, <1>2, TablesFrame DEF OnlySched
  <1>4. RunInv(r, s2) /\ LatchInv(r) /\ r \in KernelData
    BY <1>0, <1>1 DEF OnlySched, SameLatch, RunInv, LatchInv, KInv, Idle,
                      TS_RUNNING, TS_QUEUED, TS_PAUSED, TS_PAUSEDW
  <1>5. EventInv(r, s2)
    <2>1. In(s2, TS_WAITING) = In(s, TS_WAITING)
      BY <1>0 DEF In, Idle, TS_WAITING, TS_QUEUED, TS_PAUSED
    <2> QED BY <1>1, <2>1, EventFrame DEF OnlySched, KInv
  <1>6. SchedInv(r, s2)
    <2>1. b \in Block \ Q /\ Q \in SUBSET Block
      BY <1>0 DEF In, Idle, TS_QUEUED, TS_PAUSED
    <2>2. In(s2, TS_QUEUED) = Q \cup {b}
      BY <1>0 DEF In
    <2>3. Nexts(r)[b] = NULL
      BY <1>0, <1>1 DEF Nexts
    <2>4. \A x \in Q : Nexts(r)[x] = IF x = k.sched_tail THEN b ELSE Nexts(k)[x]
      BY <1>1, <2>1 DEF Nexts
    <2>5. ListInv(Nexts(k), k.sched_head, k.sched_tail, Q)
      BY DEF KInv, SchedInv
    <2> HIDE DEF Q
    <2>6. ListInv(Nexts(r), IF k.sched_tail = NULL THEN b ELSE k.sched_head, b, Q \cup {b})
      BY <2>1, <2>3, <2>4, <2>5, NullIsNoBlock, ListAppend
    <2> QED BY <1>1, <2>2, <2>6 DEF SchedInv
  <1> QED BY <1>3, <1>4, <1>5, <1>6 DEF KInv, r, s2

(* Results, states and the halt flag are no concern of the invariant. *)
LEMMA KSame ==
  ASSUME NEW k, NEW r, NEW s, KInv(k, s), r \in KernelData, r.active = k.active,
         SameQueues(k, r)
  PROVE  KInv(r, s) /\ \A b : Idle(k, s, b) => Idle(r, s, b)
  <1>1. k \in KernelData
    BY DEF KInv
  <1>2. /\ BlockedInv(r, s) /\ DeadInv(r, s) /\ TableInv(r, s)
        /\ \A b : Idle(k, s, b) => Idle(r, s, b)
    BY Zenon, <1>1, TablesFrame DEF SameQueues, KInv
  <1>3. SchedInv(r, s)
    BY SchedFrame DEF SameQueues, KInv
  <1>4. EventInv(r, s)
    BY EventFrame DEF SameQueues, KInv
  <1>5. RunInv(r, s) /\ LatchInv(r)
    BY DEF KInv, RunInv, LatchInv, SameQueues, SameLatch
  <1> QED BY <1>2, <1>3, <1>4, <1>5 DEF KInv

(* The invariant between two operations; and within one, while thread b is *)
(* off all queues and its state field is about to be written.              *)
Settled(k) == KInv(k, States(k))
Paused(k, b) == [States(k) EXCEPT ![b] = TS_PAUSED]
Off(k, b)  == KInv(k, Paused(k, b)) /\ Idle(k, Paused(k, b), b)

(* States and Paused give each struct a TS_ state, as written. *)
LEMMA StatesType ==
  ASSUME NEW k \in KernelData
  PROVE  /\ States(k) \in StateFun
         /\ \A b \in Block : Paused(k, b) \in StateFun
         /\ \A b, x \in Block : Paused(k, b)[x] = IF x = b THEN TS_PAUSED ELSE k.th[x].state
         /\ \A x \in Block : States(k)[x] = k.th[x].state
  <1>1. \A x \in Block : k.th[x].state \in 0..5
    BY Types
  <1> QED BY <1>1 DEF States, StateFun, Paused, TS_PAUSED

(* States and Paused depend on the state fields only. *)
LEMMA SameStatesEq ==
  ASSUME NEW k, NEW r, SameStates(k, r)
  PROVE  States(r) = States(k) /\ \A b : Paused(r, b) = Paused(k, b)
  <1>1. States(r) = States(k)
    BY DEF States, SameStates
  <1> QED BY <1>1 DEF Paused

(* ret: a result for thread b. *)
LEMMA RetKeeps ==
  ASSUME NEW k \in KernelData, NEW b \in Block, NEW v \in Int
  PROVE  /\ Settled(k) => Settled(ret(k, b, v))
         /\ \A c : Off(k, c) => Off(ret(k, b, v), c)
         /\ ret(k, b, v) \in KernelData /\ ret(k, b, v).active = k.active
         /\ SameQueues(k, ret(k, b, v)) /\ SameStates(k, ret(k, b, v))
  <1> DEFINE r == ret(k, b, v)
  <1>1. r \in KernelData /\ r.active = k.active /\ SameQueues(k, r) /\ SameStates(k, r)
    BY EaxEffect DEF ret
  <1> HIDE DEF r
  <1>2. States(r) = States(k) /\ \A c : Paused(r, c) = Paused(k, c)
    BY <1>1, SameStatesEq
  <1>3. Settled(k) => Settled(r)
    BY <1>1, <1>2, KSame DEF Settled
  <1>4. \A c : Off(k, c) => Off(r, c)
    BY <1>1, <1>2, KSame DEF Off
  <1> QED BY <1>1, <1>3, <1>4 DEF r

(* thread_save of the active thread. *)
LEMMA SaveOff ==
  ASSUME NEW k, Settled(k), k.active \in Block, NEW b
  PROVE  Off(thread_save(k, b), k.active) /\ thread_save(k, b).active = NULL
  <1> DEFINE r == thread_save(k, b)
             a == k.active
             s == Paused(k, a)
  <1>0. k \in KernelData
    BY DEF Settled, KInv
  <1>1. r \in KernelData /\ r.active = NULL /\ SameQueues(k, r) /\ SameStates(k, r)
    BY <1>0, ActiveEffect DEF thread_save, Ptr
  <1> HIDE DEF r
  <1>2. Paused(r, a) = s
    BY <1>1, SameStatesEq
  <1>3. /\ s \in StateFun /\ States(k) \in StateFun /\ s = [States(k) EXCEPT ![a] = TS_PAUSED]
        /\ \A x \in Block : s[x] = IF x = a THEN TS_PAUSED ELSE States(k)[x]
    BY <1>0, StatesType DEF Paused
  <1>4. \A x \in Block : States(k)[x] = TS_RUNNING <=> x = a
    BY DEF Settled, KInv, RunInv
  <1>5. BlockedInv(k, s) /\ DeadInv(k, s) /\ TableInv(k, s) /\ Idle(k, s, a)
    BY <1>0, <1>3, <1>4, Deactivate DEF Settled, KInv, Live
  <1>6. BlockedInv(r, s) /\ DeadInv(r, s) /\ TableInv(r, s) /\ Idle(r, s, a)
    BY Zenon, <1>0, <1>1, <1>5, TablesFrame DEF SameQueues
  <1> HIDE DEF s
  <1>7. In(s, TS_QUEUED) = In(States(k), TS_QUEUED)
        /\ In(s, TS_WAITING) = In(States(k), TS_WAITING)
    BY <1>3, <1>4 DEF In, TS_QUEUED, TS_WAITING, TS_PAUSED, TS_RUNNING
  <1>8. SchedInv(r, s) /\ EventInv(r, s)
    BY <1>1, <1>7, SchedFrame, EventFrame DEF SameQueues, Settled, KInv
  <1>9. RunInv(r, s) /\ LatchInv(r)
    BY <1>1, <1>3, <1>4, NullIsNoBlock
       DEF RunInv, LatchInv, SameQueues, SameLatch, Settled, KInv, TS_PAUSED, TS_RUNNING, TS_PAUSEDW
  <1> QED BY <1>1, <1>2, <1>6, <1>8, <1>9 DEF Off, KInv, r

(* The state field is brought in line with the state function. *)
LEMMA WriteState ==
  ASSUME NEW k \in KernelData, NEW b \in Block, NEW v \in 0..5,
         KInv(k, [States(k) EXCEPT ![b] = v])
  PROVE  LET r == [k EXCEPT !.th[b].state = v]
         IN  Settled(r) /\ r.active = k.active /\ SameQueues(k, r)
  <1> DEFINE r == [k EXCEPT !.th[b].state = v]
  <1>1. /\ r \in KernelData /\ r.active = k.active /\ SameQueues(k, r)
        /\ States(r) = [States(k) EXCEPT ![b] = v]
    BY StateEffect, Zenon
  <1> HIDE DEF r
  <1>2. KInv(r, [States(k) EXCEPT ![b] = v])
    BY <1>1, KSame
  <1> QED BY <1>1, <1>2 DEF Settled, r

(* enqueue: the thread is queued and its state written. *)
LEMMA EnqueueOff ==
  ASSUME NEW k, NEW b, Off(k, b)
  PROVE  Settled(enqueue(k, b)) /\ enqueue(k, b).active = k.active
  <1>0. k \in KernelData /\ b \in Block /\ TS_QUEUED \in 0..5
    BY DEF Off, KInv, Idle, TS_QUEUED
  <1>1. PICK p : p = schedule_push(k, b)
    BY Zenon
  <1>2. KInv(p, [Paused(k, b) EXCEPT ![b] = TS_QUEUED])
    BY <1>0, <1>1, StatesType, KPush DEF Off
  <1>3. OnlySched(k, p)
    BY <1>0, <1>1, PushEffect
  <1>4. p \in KernelData /\ p.active = k.active /\ States(p) = States(k)
    BY <1>3, SameStatesEq DEF OnlySched
  <1>5. [Paused(k, b) EXCEPT ![b] = TS_QUEUED] = [States(p) EXCEPT ![b] = TS_QUEUED]
    BY Zenon, <1>0, <1>4, StatesType DEF Paused, StateFun
  <1>6. LET r == [p EXCEPT !.th[b].state = TS_QUEUED]
        IN  Settled(r) /\ r.active = p.active
    BY <1>0, <1>2, <1>4, <1>5, WriteState, Zenon
  <1> QED BY <1>1, <1>4, <1>6 DEF enqueue

(* The other end of a pause: the state is written and the thread is idle. *)
LEMMA PauseOff ==
  ASSUME NEW k, NEW b, Off(k, b)
  PROVE  LET r == [k EXCEPT !.th[b].state = TS_PAUSED]
         IN  Settled(r) /\ r.active = k.active /\ Idle(r, States(r), b) /\ SameQueues(k, r)
  <1> DEFINE r == [k EXCEPT !.th[b].state = TS_PAUSED]
  <1>0. k \in KernelData /\ b \in Block
    BY DEF Off, KInv, Idle
  <1>1. /\ r \in KernelData /\ r.active = k.active /\ SameQueues(k, r)
        /\ States(r) = Paused(k, b)
    <2>1. TS_PAUSED \in 0..5
      BY DEF TS_PAUSED
    <2> QED BY <1>0, <2>1, StateEffect, Zenon DEF Paused
  <1> HIDE DEF r
  <1>2. KInv(r, Paused(k, b)) /\ Idle(r, Paused(k, b), b)
    BY <1>1, KSame DEF Off
  <1> QED BY <1>1, <1>2 DEF Settled, r

(* schedule_remv of a queued thread. *)
LEMMA RemvOff ==
  ASSUME NEW k, Settled(k), NEW b \in Block, k.th[b].state = TS_QUEUED
  PROVE  Off(schedule_remv(k, b), b) /\ schedule_remv(k, b).active = k.active
  <1> DEFINE r == schedule_remv(k, b)
             s == Paused(k, b)
             Q == In(States(k), TS_QUEUED)
  <1>0. k \in KernelData
    BY DEF Settled, KInv
  <1>1. /\ s \in StateFun /\ States(k) \in StateFun /\ States(k)[b] = TS_QUEUED
        /\ \A x \in Block : s[x] = IF x = b THEN TS_PAUSED ELSE States(k)[x]
    BY <1>0, StatesType
  <1>2. Q \in SUBSET Block /\ b \in Q /\ ListInv(Nexts(k), k.sched_head, k.sched_tail, Q)
    BY <1>1 DEF Settled, KInv, SchedInv, In
  <1>3. k.sched_head \in Block
    BY Zenon, <1>2, ListMembers DEF ListInv
  <1>4. /\ OnlySched(k, r)
        /\ ListInv(Nexts(r), r.sched_head, r.sched_tail, Q \ {b})
    <2>1. CASE k.sched_head = b
      <3>1. /\ OnlySched(k, r) /\ r.sched_head = Nexts(k)[b]
            /\ r.sched_tail = IF Nexts(k)[b] = NULL THEN NULL ELSE k.sched_tail
            /\ Nexts(r) = Nexts(k)
        BY <1>0, <2>1, RemvHeadEffect DEF Nexts
      <3>2. ListInv(Nexts(k), Nexts(k)[b],
                    IF Nexts(k)[b] = NULL THEN NULL ELSE k.sched_tail, Q \ {b})
        BY <1>2, <2>1, NullIsNoBlock, ListPop
      <3> QED BY <3>1, <3>2
    <2>2. CASE k.sched_head # b
      <3> DEFINE W == Walked(Nexts(k), k.sched_head, b)
                 p == Pred(k, k.sched_head, b)
      <3>1. W \subseteq Q /\ \E x \in W : Nexts(k)[x] = b
        BY <1>2, <2>2, NullIsNoBlock, ListPred
      <3>2. \E x \in W : k.th[x].next = b
        BY <1>2, <3>1 DEF Nexts
      <3>3. p \in W /\ k.th[p].next = b
        BY <3>2 DEF Pred
      <3> HIDE DEF p, W
      <3>4. p \in Q /\ p \in Block /\ Nexts(k)[p] = b
        BY <1>2, <3>1, <3>3 DEF Nexts
      <3>5. /\ OnlySched(k, r) /\ r.sched_head = k.sched_head
            /\ r.sched_tail = IF k.sched_tail = b THEN p ELSE k.sched_tail
            /\ \A x \in Block : r.th[x].next = IF x = p THEN k.th[b].next ELSE k.th[x].next
        BY <1>0, <1>3, <2>2, <3>4, RemvMiddleEffect DEF p
      <3>6. \A x \in Q : Nexts(r)[x] = IF x = p THEN Nexts(k)[b] ELSE Nexts(k)[x]
        BY <1>2, <3>5 DEF Nexts
      <3> HIDE DEF Q
      <3>7. ListInv(Nexts(r), k.sched_head, IF k.sched_tail = b THEN p ELSE k.sched_tail, Q \ {b})
        BY <1>2, <2>2, <3>4, <3>6, NullIsNoBlock, ListRemove
      <3> QED BY <3>5, <3>7
    <2> QED BY <2>1, <2>2
  <1>5. BlockedInv(k, s) /\ DeadInv(k, s) /\ TableInv(k, s) /\ Idle(k, s, b)
    BY <1>0, <1>1, Deactivate DEF Settled, KInv, Live, Paused
  <1> HIDE DEF r
  <1>6. BlockedInv(r, s) /\ DeadInv(r, s) /\ TableInv(r, s) /\ Idle(r, s, b)
    BY Zenon, <1>0, <1>4, <1>5, TablesFrame DEF OnlySched
  <1> HIDE DEF s
  <1>7. In(s, TS_QUEUED) = Q \ {b} /\ In(s, TS_WAITING) = In(States(k), TS_WAITING)
    BY <1>1 DEF In, TS_QUEUED, TS_WAITING, TS_PAUSED
  <1>8. SchedInv(r, s)
    BY <1>4, <1>7 DEF SchedInv
  <1>9. EventInv(r, s)
    BY <1>4, <1>7, EventFrame DEF OnlySched, Settled, KInv
  <1>10. RunInv(r, s) /\ LatchInv(r) /\ r \in KernelData /\ r.active = k.active
    <2>1. RunInv(k, States(k)) /\ LatchInv(k)
      BY Zenon DEF Settled, KInv
    <2>2. r \in KernelData /\ r.active = k.active /\ SameLatch(k, r)
      BY Zenon, <1>4 DEF OnlySched
    <2>3. LatchInv(r)
      BY Zenon, <2>1, <2>2 DEF LatchInv, SameLatch
    <2>4. RunInv(r, s)
      BY <1>1, <2>1, <2>2 DEF RunInv, TS_PAUSED, TS_QUEUED, TS_RUNNING, TS_PAUSEDW
    <2> QED BY Zenon, <2>2, <2>3, <2>4
  <1>11. Paused(r, b) = s
    BY <1>4, SameStatesEq DEF OnlySched, s
  <1> QED BY Zenon, <1>6, <1>8, <1>9, <1>10, <1>11 DEF Off, KInv, r

-----------------------------------------------------------------------------
(* The tail of int_handler: the head of the run queue becomes active. *)
LEMMA LoadOff ==
  ASSUME NEW k, NEW b, Off(k, b), k.active = NULL
  PROVE  LET r == [thread_load(k, b) EXCEPT !.th[b].state = TS_RUNNING]
         IN  Settled(r) /\ r.active = b
  <1>0. k \in KernelData /\ b \in Block /\ TS_RUNNING \in 0..5 /\ b \in Ptr
    BY DEF Off, KInv, Idle, TS_RUNNING, Ptr
  <1>1. PICK p : p = thread_load(k, b)
    BY Zenon
  <1>2. p \in KernelData /\ p.active = b /\ SameQueues(k, p) /\ SameStates(k, p)
    BY <1>0, <1>1, ActiveEffect DEF thread_load
  <1>3. States(p) = States(k)
    BY <1>2, SameStatesEq
  <1> DEFINE s == Paused(k, b)
             s2 == [s EXCEPT ![b] = TS_RUNNING]
  <1>4. /\ s \in StateFun /\ s[b] = TS_PAUSED
        /\ \A x \in Block : s2[x] = IF x = b THEN TS_RUNNING ELSE s[x]
        /\ s2 = [States(p) EXCEPT ![b] = TS_RUNNING]
    BY Zenon, <1>0, <1>3, StatesType DEF StateFun, Paused
  <1>5. BlockedInv(k, s2) /\ DeadInv(k, s2) /\ TableInv(k, s2)
    BY Zenon, <1>0, <1>4, Activate DEF Off, KInv, Live
  <1> HIDE DEF s2
  <1>6. BlockedInv(p, s2) /\ DeadInv(p, s2) /\ TableInv(p, s2)
    BY <1>0, <1>2, <1>5, TablesFrame DEF SameQueues
  <1>7. In(s2, TS_QUEUED) = In(s, TS_QUEUED) /\ In(s2, TS_WAITING) = In(s, TS_WAITING)
    BY <1>4 DEF In, TS_QUEUED, TS_WAITING, TS_PAUSED, TS_RUNNING
  <1>8. SchedInv(p, s2) /\ EventInv(p, s2)
    BY <1>2, <1>7, SchedFrame, EventFrame DEF SameQueues, Off, KInv
  <1>9. RunInv(p, s2) /\ LatchInv(p)
    <2>1. RunInv(k, s) /\ LatchInv(k) /\ SameLatch(k, p)
      BY Zenon, <1>2 DEF Off, KInv, SameQueues
    <2>2. LatchInv(p)
      BY Zenon, <2>1 DEF LatchInv, SameLatch
    <2>3. RunInv(p, s2)
      <3> HIDE DEF s
      <3> QED BY <1>0, <1>2, <1>4, <2>1, NullIsNoBlock
                DEF RunInv, TS_PAUSED, TS_RUNNING, TS_PAUSEDW
    <2> QED BY Zenon, <2>2, <2>3
  <1>10. KInv(p, [States(p) EXCEPT ![b] = TS_RUNNING])
    BY <1>2, <1>4, <1>6, <1>8, <1>9 DEF KInv
  <1>11. LET r == [p EXCEPT !.th[b].state = TS_RUNNING]
         IN  Settled(r) /\ r.active = p.active
    BY <1>0, <1>2, <1>10, WriteState, ZenonT(60)
  <1> QED BY <1>1, <1>2, <1>11, Zenon

(* int_handler's tail preserves the invariant: it loads the head of the    *)
(* run queue when no thread is active.                                     *)
LEMMA IntReturn ==
  ASSUME NEW k, Settled(k)
  PROVE  Settled(int_return(k))
  <1> DEFINE b == k.sched_head
             Q == In(States(k), TS_QUEUED)
  <1>1. CASE k.halted \/ k.active # NULL \/ b = NULL
    BY <1>1 DEF int_return, schedule_next
  <1>2. CASE ~(k.halted \/ k.active # NULL \/ b = NULL)
    <2>0. k \in KernelData
      BY DEF Settled, KInv
    <2>1. b \in Block /\ k.th[b].state = TS_QUEUED
      <3>1. b \in Q
        BY <1>2 DEF Settled, KInv, SchedInv, ListInv
      <3> QED BY <3>1 DEF In, States
    <2>2. PICK p : p = schedule_remv(k, b)
      BY Zenon
    <2>3. Off(p, b) /\ p.active = NULL
      BY <1>2, <2>1, <2>2, RemvOff
    <2>4. Settled([thread_load(p, b) EXCEPT !.th[b].state = TS_RUNNING])
      BY <2>3, LoadOff, Zenon
    <2> QED BY <1>2, <2>2, <2>4 DEF int_return, schedule_next
  <1> QED BY <1>1, <1>2

(* What a handler leaves in order is still in order when the interrupt     *)
(* returns.                                                                *)
LEMMA EntrySettled ==
  ASSUME NEW k, Settled(k)
  PROVE  Settled(iret(int_return(k)))
  <1>1. PICK r : r = int_return(k)
    BY Zenon
  <1>2. Settled(r) /\ r \in KernelData
    BY <1>1, IntReturn DEF Settled, KInv
  <1>3. r.active = NULL \/ r.active \in Block
    BY <1>2, Types, PtrCase
  <1>4. Settled(iret(r))
    BY <1>2, <1>3, RetKeeps DEF iret
  <1> QED BY <1>1, <1>4

-----------------------------------------------------------------------------
(* event.c and the interrupt latches *)

(* IRQs are the events below 240, and their numbers fit the mask register. *)
LEMMA EventType ==
  /\ \A e \in Event : e \in 0..255 /\ (e < 240 <=> e \in Irq)
  /\ \A e \in Irq : e \in Event /\ e % 32 = e /\ e \in 0..15
  BY IrqRange, VTimerRange DEF Event, EV_VTIMER

(* Thread b joins the queue of event e: the middle of event_wait. *)
ev_append(k, b, e) ==
  LET k1 == IF k.ev_back[e] = NULL
            THEN [k EXCEPT !.ev_front[e] = b]
            ELSE [k EXCEPT !.th[k.ev_back[e]].next_evqueue = b]
  IN  [k1 EXCEPT !.ev_back[e] = b, !.th[b].next_evqueue = NULL, !.th[b].event = e]

(* Joining the queue of an event changes the queues of events alone. *)
LEMMA AppendedOnly ==
  ASSUME NEW k \in KernelData, NEW b \in Block, NEW e \in Event
  PROVE  OnlyEvents(k, ev_append(k, b, e))
  <1> DEFINE r == ev_append(k, b, e)
  <1>0. k.ev_back[e] = NULL \/ (k.ev_back[e] \in Block /\ k.ev_back[e] # NULL)
    BY Types, PtrCase
  <1>1. r \in KernelData
    <2>0. e \in Int
      BY EventType
    <2>1. CASE k.ev_back[e] = NULL
      BY <2>0, <2>1, SetLink, SetEvent, SetData, Zenon DEF ev_append, Ptr
    <2>2. CASE k.ev_back[e] \in Block /\ k.ev_back[e] # NULL
      BY <2>0, <2>2, SetLink, SetEvent, SetData, Zenon DEF ev_append, Ptr
    <2> QED BY <1>0, <2>1, <2>2
  <1>2. SameSched(k, r)
    <2>1. CASE k.ev_back[e] = NULL
      BY <2>1 DEF SameSched, KernelData, ThreadStruct, ev_append
    <2>2. CASE k.ev_back[e] \in Block /\ k.ev_back[e] # NULL
      BY <2>2 DEF SameSched, KernelData, ThreadStruct, ev_append
    <2> QED BY Zenon, <1>0, <2>1, <2>2
  <1>3. SameBlocked(k, r)
    <2>1. CASE k.ev_back[e] = NULL
      BY <2>1 DEF SameBlocked, KernelData, ThreadStruct, ev_append
    <2>2. CASE k.ev_back[e] \in Block /\ k.ev_back[e] # NULL
      BY <2>2 DEF SameBlocked, KernelData, ThreadStruct, ev_append
    <2> QED BY Zenon, <1>0, <2>1, <2>2
  <1>4. SameDead(k, r)
    <2>1. CASE k.ev_back[e] = NULL
      BY <2>1 DEF SameDead, KernelData, ThreadStruct, ev_append
    <2>2. CASE k.ev_back[e] \in Block /\ k.ev_back[e] # NULL
      BY <2>2 DEF SameDead, KernelData, ThreadStruct, ev_append
    <2> QED BY Zenon, <1>0, <2>1, <2>2
  <1>5. SameTable(k, r)
    <2>1. CASE k.ev_back[e] = NULL
      BY <2>1 DEF SameTable, KernelData, ThreadStruct, ev_append
    <2>2. CASE k.ev_back[e] \in Block /\ k.ev_back[e] # NULL
      BY <2>2 DEF SameTable, KernelData, ThreadStruct, ev_append
    <2> QED BY Zenon, <1>0, <2>1, <2>2
  <1>6. SameLatch(k, r) /\ r.active = k.active
    <2>1. CASE k.ev_back[e] = NULL
      BY <2>1 DEF SameLatch, KernelData, ThreadStruct, ev_append
    <2>2. CASE k.ev_back[e] \in Block /\ k.ev_back[e] # NULL
      BY <2>2 DEF SameLatch, KernelData, ThreadStruct, ev_append
    <2> QED BY Zenon, <1>0, <2>1, <2>2
  <1>7. SameStates(k, r)
    <2>1. CASE k.ev_back[e] = NULL
      BY <2>1 DEF SameStates, KernelData, ThreadStruct, ev_append
    <2>2. CASE k.ev_back[e] \in Block /\ k.ev_back[e] # NULL
      BY <2>2 DEF SameStates, KernelData, ThreadStruct, ev_append
    <2> QED BY Zenon, <1>0, <2>1, <2>2
  <1> QED BY Zenon, <1>1, <1>2, <1>3, <1>4, <1>5, <1>6, <1>7 DEF OnlyEvents

(* What joining the queue of an event changes, field by field. *)
LEMMA AppendEffect ==
  ASSUME NEW k \in KernelData, NEW b \in Block, NEW e \in Event
  PROVE  LET r == ev_append(k, b, e)
         IN  /\ OnlyEvents(k, r)
             /\ \A d \in Event :
                  /\ r.ev_front[d] = IF d = e /\ k.ev_back[e] = NULL THEN b ELSE k.ev_front[d]
                  /\ r.ev_back[d] = IF d = e THEN b ELSE k.ev_back[d]
             /\ \A x \in Block : r.th[x].event = IF x = b THEN e ELSE k.th[x].event
             /\ \A x \in Block : r.th[x].next_evqueue =
                                     IF x = b THEN NULL ELSE
                                     IF x = k.ev_back[e] THEN b ELSE k.th[x].next_evqueue
  <1> DEFINE r == ev_append(k, b, e)
  <1>0. k.ev_back[e] = NULL \/ (k.ev_back[e] \in Block /\ k.ev_back[e] # NULL)
    BY Types, PtrCase
  <1>1. OnlyEvents(k, r)
    BY Zenon, AppendedOnly
  <1>2. \A d \in Event :
          /\ r.ev_front[d] = IF d = e /\ k.ev_back[e] = NULL THEN b ELSE k.ev_front[d]
          /\ r.ev_back[d] = IF d = e THEN b ELSE k.ev_back[d]
    BY <1>0 DEF KernelData, ThreadStruct, ev_append
  <1>3. \A x \in Block : r.th[x].event = IF x = b THEN e ELSE k.th[x].event
    BY <1>0 DEF KernelData, ThreadStruct, ev_append
  <1>4. \A x \in Block : r.th[x].next_evqueue =
                             IF x = b THEN NULL ELSE
                             IF x = k.ev_back[e] THEN b ELSE k.th[x].next_evqueue
    <2>1. CASE k.ev_back[e] = NULL
      BY <2>1, NullIsNoBlock DEF KernelData, ThreadStruct, ev_append
    <2>2. CASE k.ev_back[e] \in Block /\ k.ev_back[e] # NULL
      BY <2>2 DEF KernelData, ThreadStruct, ev_append
    <2> QED BY <1>0, <2>1, <2>2
  <1> QED BY Zenon, <1>1, <1>2, <1>3, <1>4

(* The queues of the events after thread b, which waited for none, joins. *)
LEMMA AppendQueues ==
  ASSUME NEW k \in KernelData, NEW s, NEW s2, NEW b \in Block, NEW e \in Event,
         EventInv(k, s), b \notin In(s, TS_WAITING),
         In(s2, TS_WAITING) = In(s, TS_WAITING) \cup {b}
  PROVE  EventInv(ev_append(k, b, e), s2)
  <1> DEFINE r == ev_append(k, b, e)
             W == In(s, TS_WAITING)
  <1>1. /\ \A d \in Event :
             /\ r.ev_front[d] = IF d = e /\ k.ev_back[e] = NULL THEN b ELSE k.ev_front[d]
             /\ r.ev_back[d] = IF d = e THEN b ELSE k.ev_back[d]
        /\ \A x \in Block : r.th[x].event = IF x = b THEN e ELSE k.th[x].event
        /\ \A x \in Block : r.th[x].next_evqueue =
                                IF x = b THEN NULL ELSE
                                IF x = k.ev_back[e] THEN b ELSE k.th[x].next_evqueue
    BY AppendEffect
  <1>2. W \subseteq Block
    BY DEF In
  <1> HIDE DEF r
  <1>3. \A x \in In(s2, TS_WAITING) : r.th[x].event \in Event
    BY <1>1, <1>2 DEF EventInv
  <1>4. Waiting(r, s2, e) = Waiting(k, s, e) \cup {b}
    BY <1>1, <1>2 DEF Waiting
  <1>5. \A d \in Event : d # e => Waiting(r, s2, d) = Waiting(k, s, d)
    BY <1>1, <1>2 DEF Waiting
  <1>6. \A d \in Event : Waiting(k, s, d) \in SUBSET Block /\ b \notin Waiting(k, s, d)
    BY <1>2 DEF Waiting
  <1>7. \A d \in Event : ListInv(NextEvs(k), k.ev_front[d], k.ev_back[d], Waiting(k, s, d))
    BY DEF EventInv
  <1>8. ListInv(NextEvs(r), r.ev_front[e], r.ev_back[e], Waiting(r, s2, e))
    <2> DEFINE Q == Waiting(k, s, e)
    <2>1. NextEvs(r)[b] = NULL
      BY <1>1 DEF NextEvs
    <2>2. \A x \in Q : NextEvs(r)[x] = IF x = k.ev_back[e] THEN b ELSE NextEvs(k)[x]
      BY <1>1, <1>6 DEF NextEvs
    <2>3. Q \in SUBSET Block /\ b \in Block \ Q
      BY <1>6
    <2>4. ListInv(NextEvs(k), k.ev_front[e], k.ev_back[e], Q)
      BY <1>7
    <2> HIDE DEF Q
    <2>5. ListInv(NextEvs(r), IF k.ev_back[e] = NULL THEN b ELSE k.ev_front[e], b, Q \cup {b})
      BY <2>1, <2>2, <2>3, <2>4, NullIsNoBlock, ListAppend
    <2> QED BY <1>1, <1>4, <2>5 DEF Q
  <1>9. ASSUME NEW d \in Event, d # e
        PROVE  ListInv(NextEvs(r), r.ev_front[d], r.ev_back[d], Waiting(r, s2, d))
    <2> DEFINE Q == Waiting(k, s, d)
    <2>1. k.ev_back[e] # NULL => k.ev_back[e] \in Waiting(k, s, e)
      BY <1>7 DEF ListInv
    <2>2. k.ev_back[e] \notin Q
      BY <1>6, <1>9, <2>1, NullIsNoBlock DEF Waiting
    <2>3. \A x \in Q : NextEvs(r)[x] = NextEvs(k)[x]
      BY <1>1, <1>6, <2>2 DEF NextEvs
    <2>4. Q \in SUBSET Block /\ ListInv(NextEvs(k), k.ev_front[d], k.ev_back[d], Q)
      BY <1>6, <1>7
    <2> HIDE DEF Q
    <2>5. ListInv(NextEvs(r), k.ev_front[d], k.ev_back[d], Q)
      BY <2>3, <2>4, ListSame
    <2> QED BY <1>1, <1>5, <1>9, <2>5 DEF Q
  <1> QED BY <1>3, <1>8, <1>9 DEF EventInv, r

(* The running thread's own slot. *)
LEMMA ActiveSlot ==
  ASSUME NEW k, Settled(k), k.active \in Block
  PROVE  /\ k \in KernelData /\ k.th[k.active].state = TS_RUNNING
         /\ k.th[k.active].id \in Tid /\ thread_get(k, k.th[k.active].id) = k.active
  <1>1. k \in KernelData
    BY DEF Settled, KInv
  <1>2. States(k)[k.active] = TS_RUNNING
    BY DEF Settled, KInv, RunInv
  <1>3. k.th[k.active].state = TS_RUNNING /\ k.th[k.active].id \in Tid
    BY <1>1, <1>2, Types DEF States
  <1>4. k.table[k.th[k.active].id] = k.active
    BY <1>2 DEF Settled, KInv, TableInv
  <1> QED BY <1>1, <1>3, <1>4 DEF thread_get

(* event_wait with nothing latched: the active thread joins the queue and  *)
(* is saved as TS_WAITING.                                                 *)
LEMMA AppendSettled ==
  ASSUME NEW k, Settled(k), k.active \in Block, NEW e \in Event
  PROVE  Settled([thread_save(ev_append(k, k.active, e), k.active)
                    EXCEPT !.th[k.active].state = TS_WAITING])
  <1> DEFINE b  == k.active
             s  == States(k)
             s0 == Paused(k, b)
             s2 == [s EXCEPT ![b] = TS_WAITING]
  <1>0. k \in KernelData /\ k.th[b].state = TS_RUNNING /\ TS_WAITING \in 0..5
    BY ActiveSlot DEF TS_WAITING
  <1>1. PICK p : p = ev_append(k, b, e)
    BY Zenon
  <1>2. PICK q : q = thread_save(p, b)
    BY Zenon
  <1>3. OnlyEvents(k, p) /\ p \in KernelData
    <2>1. OnlyEvents(k, p)
      BY Zenon, <1>0, <1>1, AppendedOnly
    <2> QED BY Zenon, <2>1 DEF OnlyEvents
  <1>4. q \in KernelData /\ q.active = NULL /\ SameQueues(p, q) /\ SameStates(p, q)
    BY <1>2, <1>3, ActiveEffect DEF thread_save, Ptr
  <1>5a. s \in StateFun /\ s0 \in StateFun /\ s0 = [s EXCEPT ![b] = TS_PAUSED]
    BY <1>0, StatesType DEF Paused
  <1>5b. s2 = [s0 EXCEPT ![b] = TS_WAITING]
    BY Zenon, <1>5a DEF StateFun
  <1>5. b \in Block /\ \A x \in Block : s2[x] = IF x = b THEN TS_WAITING ELSE s[x]
    BY <1>5a DEF StateFun
  <1>6. \A x \in Block : s[x] = TS_RUNNING <=> x = b
    BY DEF Settled, KInv, RunInv
  <1>7. BlockedInv(k, s0) /\ DeadInv(k, s0) /\ TableInv(k, s0) /\ Idle(k, s0, b)
    <2>1. BlockedInv(k, s) /\ DeadInv(k, s) /\ TableInv(k, s)
      BY Zenon DEF Settled, KInv
    <2>2. s[b] \in Live
      BY Zenon, <1>6 DEF Live
    <2> HIDE DEF s, s0
    <2> QED BY Zenon, <1>0, <1>5a, <2>1, <2>2, Deactivate
  <1> HIDE DEF s0
  <1>8. BlockedInv(k, s2) /\ DeadInv(k, s2) /\ TableInv(k, s2)
    BY Zenon, <1>0, <1>5a, <1>5b, <1>7, Activate DEF Live
  <1>9. BlockedInv(p, s2) /\ DeadInv(p, s2) /\ TableInv(p, s2)
    BY <1>0, <1>3, <1>8, TablesFrame DEF OnlyEvents
  <1>10. BlockedInv(q, s2) /\ DeadInv(q, s2) /\ TableInv(q, s2)
    BY <1>3, <1>4, <1>9, TablesFrame DEF SameQueues
  <1> HIDE DEF s, s2
  <1>11. /\ In(s2, TS_QUEUED) = In(s, TS_QUEUED) /\ b \notin In(s, TS_WAITING)
         /\ In(s2, TS_WAITING) = In(s, TS_WAITING) \cup {b}
    BY <1>5, <1>6 DEF In, TS_QUEUED, TS_WAITING, TS_RUNNING
  <1>12. SchedInv(k, s) /\ EventInv(k, s) /\ RunInv(k, s) /\ LatchInv(k)
    BY DEF s, Settled, KInv
  <1>13. SchedInv(p, s2)
    BY <1>3, <1>11, <1>12, SchedFrame DEF OnlyEvents
  <1>14. SchedInv(q, s2)
    BY <1>4, <1>13, SchedFrame DEF SameQueues
  <1>15. EventInv(p, s2)
    BY <1>0, <1>1, <1>11, <1>12, AppendQueues
  <1>16. EventInv(q, s2)
    BY <1>4, <1>15, EventFrame DEF SameQueues
  <1>17. RunInv(q, s2)
    BY <1>4, <1>5, <1>6, <1>12, NullIsNoBlock DEF RunInv, TS_WAITING, TS_RUNNING, TS_PAUSEDW
  <1>18. LatchInv(q)
    BY <1>3, <1>4, <1>12 DEF LatchInv, SameQueues, SameLatch, OnlyEvents
  <1>19. States(p) = States(k) /\ States(q) = States(p)
    BY <1>3, <1>4, SameStatesEq DEF OnlyEvents
  <1>20. KInv(q, [States(q) EXCEPT ![b] = TS_WAITING])
    BY <1>4, <1>10, <1>14, <1>16, <1>17, <1>18, <1>19 DEF KInv, s, s2
  <1>21. Settled([q EXCEPT !.th[b].state = TS_WAITING])
    BY <1>0, <1>4, <1>20, WriteState, Zenon
  <1> QED BY <1>1, <1>2, <1>21

(* yield, and the timer's preemption: the active thread goes to the end of *)
(* the run queue.                                                          *)
LEMMA RequeueSettled ==
  ASSUME NEW k, Settled(k), k.active \in Block
  PROVE  Settled(requeue(k, k.active)) /\ requeue(k, k.active).active = NULL
  <1>1. PICK p : p = thread_save(k, k.active)
    BY Zenon
  <1>2. Off(p, k.active) /\ p.active = NULL
    BY <1>1, SaveOff
  <1>3. Settled(enqueue(p, k.active)) /\ enqueue(p, k.active).active = NULL
    BY <1>2, EnqueueOff
  <1> QED BY <1>1, <1>3 DEF requeue

(* event_wait on behalf of the caller preserves the invariant, latched or  *)
(* not, and returns an integer.                                            *)
LEMMA WaitSettled ==
  ASSUME NEW k, Settled(k), k.active \in Block, NEW e \in Event,
         NEW event \in {e, -e - 1}
  PROVE  LET w == event_wait(k, k.th[k.active].id, event)
         IN  Settled(w.k) /\ w.ret \in Int
  <1> DEFINE b == k.active
             i == k.th[b].id
  <1>0. /\ k \in KernelData /\ thread_get(k, i) = b /\ b # NULL
        /\ e \in 0..255 /\ k.irqstate[e] \in {0, 1}
    BY ActiveSlot, EventType, Types, NullIsNoBlock
  <1>1. CASE event = -e - 1
    <2>1. event < 0 /\ -event - 1 = e
      BY <1>0, <1>1
    <2>2. event_wait(k, i, event) = [ret |-> k.irqstate[e], k |-> k]
      BY <1>0, <2>1 DEF event_wait
    <2> QED BY <1>0, <2>2
  <1>2. CASE event = e
    <2>0. ~(event < 0) /\ ~(event >= EV_COUNT)
      BY <1>0, <1>2 DEF EV_COUNT
    <2>1. CASE k.irqstate[e] = 1
      <3>1. event_wait(k, i, event) = [ret |-> 0, k |-> requeue(k, b)]
        BY <1>0, <1>2, <2>0, <2>1 DEF event_wait, requeue
      <3> QED BY <3>1, RequeueSettled
    <2>2. CASE k.irqstate[e] # 1
      <3>1. event_wait(k, i, event) =
              [ret |-> 0, k |-> [thread_save(ev_append(k, b, e), b) EXCEPT !.th[b].state = TS_WAITING]]
        BY <1>0, <1>2, <2>0, <2>2 DEF event_wait, ev_append
      <3> QED BY <3>1, AppendSettled
    <2> QED BY <2>1, <2>2
  <1> QED BY <1>1, <1>2

-----------------------------------------------------------------------------
(* The first waiter leaves the queue of event e: the start of event_send. *)
ev_pop(k, b, e) ==
  [k EXCEPT !.ev_front[e] = k.th[b].next_evqueue,
            !.ev_back[e]  = IF k.th[b].next_evqueue = NULL THEN NULL ELSE @,
            !.th[b].eax = e, !.th[b].event = -1]

(* What leaving the front of an event's queue changes, field by field. *)
LEMMA PopEffect ==
  ASSUME NEW k \in KernelData, NEW b \in Block, NEW e \in Event
  PROVE  LET r == ev_pop(k, b, e)
             n == k.th[b].next_evqueue
         IN  /\ OnlyEvents(k, r)
             /\ \A d \in Event :
                  /\ r.ev_front[d] = IF d = e THEN n ELSE k.ev_front[d]
                  /\ r.ev_back[d] = IF d = e /\ n = NULL THEN NULL ELSE k.ev_back[d]
             /\ \A x \in Block : r.th[x].event = IF x = b THEN -1 ELSE k.th[x].event
             /\ \A x \in Block : r.th[x].next_evqueue = k.th[x].next_evqueue
  <1> DEFINE n == k.th[b].next_evqueue
             t == IF n = NULL THEN NULL ELSE k.ev_back[e]
             r == [k EXCEPT !.ev_front[e] = n, !.ev_back[e] = t,
                            !.th[b].eax = e, !.th[b].event = -1]
  <1>0. n \in Ptr /\ t \in Ptr /\ e \in Int /\ -1 \in Int
    BY Types, EventType DEF Ptr
  <1>1. ev_pop(k, b, e) = r
    BY DEF ev_pop, KernelData
  <1> HIDE DEF t, n
  <1>2. r \in KernelData
    BY <1>0, SetEvent, SetData, Zenon
  <1>3. SameSched(k, r)
    BY DEF SameSched, KernelData, ThreadStruct
  <1>4. SameBlocked(k, r)
    BY DEF SameBlocked, KernelData, ThreadStruct
  <1>5. SameDead(k, r)
    BY DEF SameDead, KernelData, ThreadStruct
  <1>6. SameTable(k, r)
    BY DEF SameTable, KernelData, ThreadStruct
  <1>7. SameLatch(k, r) /\ r.active = k.active
    BY DEF SameLatch, KernelData
  <1>8. SameStates(k, r)
    BY DEF SameStates, KernelData, ThreadStruct
  <1>9. \A d \in Event : /\ r.ev_front[d] = IF d = e THEN n ELSE k.ev_front[d]
                         /\ r.ev_back[d] = IF d = e THEN t ELSE k.ev_back[d]
    BY DEF KernelData
  <1>10. \A x \in Block : /\ r.th[x].event = IF x = b THEN -1 ELSE k.th[x].event
                          /\ r.th[x].next_evqueue = k.th[x].next_evqueue
    BY DEF KernelData, ThreadStruct
  <1> HIDE DEF r
  <1>11. OnlyEvents(k, r)
    BY Zenon, <1>2, <1>3, <1>4, <1>5, <1>6, <1>7, <1>8 DEF OnlyEvents
  <1> QED BY <1>1, <1>9, <1>10, <1>11 DEF t, n

(* The queues of the events after the first waiter for e has left. *)
LEMMA PopQueues ==
  ASSUME NEW k \in KernelData, NEW s, NEW s2, NEW e \in Event, NEW b \in Block,
         EventInv(k, s), b = k.ev_front[e],
         In(s2, TS_WAITING) = In(s, TS_WAITING) \ {b}
  PROVE  EventInv(ev_pop(k, b, e), s2)
  <1> DEFINE r == ev_pop(k, b, e)
             n == k.th[b].next_evqueue
             W == In(s, TS_WAITING)
  <1>1. /\ \A d \in Event : /\ r.ev_front[d] = IF d = e THEN n ELSE k.ev_front[d]
                            /\ r.ev_back[d] = IF d = e /\ n = NULL THEN NULL ELSE k.ev_back[d]
        /\ \A x \in Block : r.th[x].event = IF x = b THEN -1 ELSE k.th[x].event
        /\ \A x \in Block : r.th[x].next_evqueue = k.th[x].next_evqueue
    BY PopEffect
  <1>2. W \subseteq Block
    BY Zenon DEF In
  <1> HIDE DEF r
  <1>3. \A x \in In(s2, TS_WAITING) : r.th[x].event \in Event
    BY <1>1, <1>2 DEF EventInv
  <1>4. Waiting(r, s2, e) = Waiting(k, s, e) \ {b}
    BY <1>1, <1>2 DEF Waiting
  <1>5. \A d \in Event : Waiting(k, s, d) \in SUBSET Block
    BY <1>2 DEF Waiting
  <1>6. \A d \in Event : ListInv(NextEvs(k), k.ev_front[d], k.ev_back[d], Waiting(k, s, d))
    BY Zenon DEF EventInv
  <1>7. b # NULL /\ b \in Waiting(k, s, e)
    BY Zenon, <1>6, NullIsNoBlock DEF ListInv
  <1>8. \A d \in Event : d # e => Waiting(r, s2, d) = Waiting(k, s, d)
    BY <1>1, <1>2, <1>7 DEF Waiting
  <1>9. NextEvs(r) = NextEvs(k) /\ n = NextEvs(k)[b]
    BY Zenon, <1>1 DEF NextEvs
  <1>10. ListInv(NextEvs(r), r.ev_front[e], r.ev_back[e], Waiting(r, s2, e))
    <2> DEFINE Q == Waiting(k, s, e)
               l == NextEvs(k)
    <2>1. Q \in SUBSET Block /\ ListInv(l, b, k.ev_back[e], Q)
      BY Zenon, <1>5, <1>6
    <2>2. r.ev_front[e] = l[b] /\ r.ev_back[e] = IF l[b] = NULL THEN NULL ELSE k.ev_back[e]
      BY Zenon, <1>1, <1>9
    <2> HIDE DEF Q, l
    <2>3. ListInv(l, l[b], IF l[b] = NULL THEN NULL ELSE k.ev_back[e], Q \ {b})
      BY Zenon, <1>7, <2>1, NullIsNoBlock, ListPop
    <2> QED BY <1>4, <1>9, <2>2, <2>3 DEF Q, l
  <1> QED BY Zenon, <1>1, <1>3, <1>6, <1>8, <1>9, <1>10 DEF EventInv, r

(* The thread event_send takes from the front of a queue is off all        *)
(* queues.                                                                 *)
LEMMA PopOff ==
  ASSUME NEW k, Settled(k), NEW e \in Event, NEW b \in Block, b = k.ev_front[e]
  PROVE  LET r == ev_pop(k, b, e)
         IN  Off(r, b) /\ r.active = k.active /\ k.th[b].state = TS_WAITING
  <1> DEFINE r == ev_pop(k, b, e)
             s == States(k)
             s2 == Paused(k, b)
  <1>0. k \in KernelData /\ OnlyEvents(k, r)
    BY PopEffect DEF Settled, KInv
  <1>1. k.th[b].state = TS_WAITING
    <2>1. b \in Waiting(k, s, e)
      BY Zenon, NullIsNoBlock DEF Settled, KInv, EventInv, ListInv
    <2> QED BY Zenon, <2>1 DEF Waiting, In, States
  <1>2. /\ s \in StateFun /\ s2 = [s EXCEPT ![b] = TS_PAUSED] /\ s[b] = TS_WAITING
        /\ \A x \in Block : s2[x] = IF x = b THEN TS_PAUSED ELSE s[x]
    BY <1>0, <1>1, StatesType DEF Paused
  <1>3. BlockedInv(k, s2) /\ DeadInv(k, s2) /\ TableInv(k, s2) /\ Idle(k, s2, b)
    BY <1>0, <1>2, Deactivate DEF Settled, KInv, Live
  <1> HIDE DEF r
  <1>4. BlockedInv(r, s2) /\ DeadInv(r, s2) /\ TableInv(r, s2) /\ Idle(r, s2, b)
    BY Zenon, <1>0, <1>3, TablesFrame DEF OnlyEvents
  <1>5. Paused(r, b) = s2 /\ r \in KernelData /\ r.active = k.active
    BY <1>0, SameStatesEq DEF OnlyEvents
  <1> HIDE DEF s2
  <1>6. In(s2, TS_QUEUED) = In(s, TS_QUEUED) /\ In(s2, TS_WAITING) = In(s, TS_WAITING) \ {b}
    BY <1>2 DEF In, TS_QUEUED, TS_WAITING, TS_PAUSED
  <1>7. SchedInv(r, s2)
    BY <1>0, <1>6, SchedFrame DEF OnlyEvents, Settled, KInv
  <1>8. EventInv(r, s2)
    BY <1>0, <1>6, PopQueues DEF r, Settled, KInv
  <1>9. RunInv(r, s2) /\ LatchInv(r)
    <2>1. RunInv(k, s) /\ LatchInv(k) /\ SameLatch(k, r) /\ r.active = k.active
      BY Zenon, <1>0 DEF OnlyEvents, Settled, KInv
    <2>2. LatchInv(r)
      BY Zenon, <2>1 DEF LatchInv, SameLatch
    <2>3. TS_PAUSED # TS_RUNNING /\ TS_WAITING # TS_RUNNING /\ TS_PAUSED # TS_PAUSEDW
      BY DEF TS_PAUSED, TS_WAITING, TS_RUNNING, TS_PAUSEDW
    <2>4. RunInv(r, s2)
      BY Zenon, <1>2, <2>1, <2>3 DEF RunInv
    <2> QED BY Zenon, <2>2, <2>4
  <1> QED BY Zenon, <1>1, <1>4, <1>5, <1>7, <1>8, <1>9 DEF Off, KInv, r

-----------------------------------------------------------------------------
(* A line's latch and its mask bit change together. *)
LEMMA LatchSettled ==
  ASSUME NEW k, Settled(k), NEW i \in Irq, NEW v \in {0, 1}, NEW m \in SUBSET (0..15),
         \A x \in Irq : x \in m <=> IF x = i THEN v = 1 ELSE x \in k.irq_mask
  PROVE  LET r == [[k EXCEPT !.irq_mask = m] EXCEPT !.irqstate[i] = v]
         IN  Settled(r) /\ r.active = k.active
  <1> DEFINE r == [[k EXCEPT !.irq_mask = m] EXCEPT !.irqstate[i] = v]
  <1>0. k \in KernelData /\ i \in Event
    BY EventType DEF Settled, KInv
  <1>1. r \in KernelData
    BY <1>0, SetEvent, Zenon
  <1>2. r.th = k.th /\ r.active = k.active
    BY <1>0 DEF KernelData
  <1>3. SameSched(k, r) /\ SameEvents(k, r) /\ SameBlocked(k, r) /\ SameDead(k, r) /\ SameTable(k, r)
    BY <1>0, <1>2 DEF SameSched, SameEvents, SameBlocked, SameDead, SameTable, KernelData
  <1>4. States(r) = States(k)
    BY <1>2 DEF States
  <1>5. LatchInv(r)
    <2>1. r.irq_mask = m
      BY <1>0 DEF KernelData
    <2>2. \A x \in Irq : x \in Event
      BY EventType
    <2>3. \A x \in Irq : r.irqstate[x] = IF x = i THEN v ELSE k.irqstate[x]
      BY Zenon, <1>0, <2>2 DEF KernelData
    <2> QED BY <2>1, <2>3 DEF LatchInv, Settled, KInv
  <1> HIDE DEF r
  <1>6. BlockedInv(r, States(k)) /\ DeadInv(r, States(k)) /\ TableInv(r, States(k))
    BY Zenon, <1>0, <1>3, TablesFrame DEF Settled, KInv
  <1>7. SchedInv(r, States(k))
    BY Zenon, <1>3, SchedFrame DEF Settled, KInv
  <1>8. EventInv(r, States(k))
    BY <1>3, EventFrame DEF Settled, KInv
  <1>9. RunInv(r, States(k))
    BY <1>2 DEF RunInv, Settled, KInv
  <1> QED BY <1>1, <1>2, <1>4, <1>5, <1>6, <1>7, <1>8, <1>9 DEF Settled, KInv, r

(* event_send preserves the invariant and leaves the active thread alone. *)
LEMMA SendSettled ==
  ASSUME NEW k, Settled(k), NEW e \in Event
  PROVE  Settled(event_send(k, e)) /\ event_send(k, e).active = k.active
  <1> DEFINE b == k.ev_front[e]
  <1>0. k \in KernelData /\ (b = NULL \/ (b \in Block /\ b # NULL))
    BY Types, PtrCase DEF Settled, KInv
  <1>1. PICK q : q = IF b = NULL THEN k ELSE enqueue(ev_pop(k, b, e), b)
    BY Zenon
  <1>2. Settled(q) /\ q.active = k.active
    <2>1. CASE b = NULL
      BY <1>1, <2>1
    <2>2. CASE b \in Block /\ b # NULL
      <3>1. PICK p : p = ev_pop(k, b, e)
        BY Zenon
      <3>2. Off(p, b) /\ p.active = k.active
        BY Zenon, <2>2, <3>1, PopOff
      <3>3. Settled(enqueue(p, b)) /\ enqueue(p, b).active = k.active
        BY <3>2, EnqueueOff
      <3> QED BY <1>1, <2>2, <3>1, <3>3
    <2> QED BY <1>0, <2>1, <2>2
  <1>3. event_send(k, e) = IF e < 240 THEN [irq_mask(q, e) EXCEPT !.irqstate[e] = 1] ELSE q
    <2>1. CASE b = NULL
      BY <1>1, <2>1 DEF event_send
    <2>2. CASE b \in Block /\ b # NULL
      <3>1. k.th[b].state # TS_RUNNING
        BY <2>2, PopOff DEF TS_WAITING, TS_RUNNING
      <3> QED BY <1>1, <2>2, <3>1 DEF event_send, ev_pop
    <2> QED BY <1>0, <2>1, <2>2
  <1>4. CASE e < 240
    <2>1. e \in Irq /\ e % 32 = e /\ e \in 0..15 /\ q.irq_mask \in SUBSET (0..15)
      BY <1>2, <1>4, EventType, Types DEF Settled, KInv
    <2>2. PICK m : m = q.irq_mask \cup {e}
      BY Zenon
    <2>3. /\ m \in SUBSET (0..15) /\ 1 \in {0, 1}
          /\ \A x \in Irq : x \in m <=> IF x = e THEN 1 = 1 ELSE x \in q.irq_mask
      BY <2>1, <2>2
    <2>4. LET r == [[q EXCEPT !.irq_mask = m] EXCEPT !.irqstate[e] = 1]
          IN  Settled(r) /\ r.active = q.active
      <3>1. Settled(q) /\ e \in Irq
        BY Zenon, <1>2, <2>1
      <3> QED BY <2>3, <3>1, LatchSettled, Zenon
    <2>5. irq_mask(q, e) = [q EXCEPT !.irq_mask = m]
      <3>1. {e % 32} \cap 0..15 = {e}
        BY Zenon, <2>1
      <3>2. q.irq_mask \cup ({e % 32} \cap 0..15) = m
        BY <2>2, <3>1
      <3> QED BY <3>2 DEF irq_mask
    <2> QED BY Zenon, <1>2, <1>3, <1>4, <2>4, <2>5
  <1>5. CASE ~(e < 240)
    BY <1>2, <1>3, <1>5
  <1> QED BY Zenon, <1>4, <1>5

(* kcall_reset preserves the invariant: the latch is cleared and the line  *)
(* unmasked together.                                                      *)
LEMMA ResetSettled ==
  ASSUME NEW k, Settled(k), k.active \in Block, NEW e \in Event
  PROVE  Settled(kcall_reset(k, k.active, e))
  <1>0. k \in KernelData /\ 0 \in Int
    BY DEF Settled, KInv
  <1>1. CASE ~(e < 240)
    BY <1>0, <1>1, RetKeeps DEF kcall_reset
  <1>2. CASE e < 240
    <2>1. e \in Irq /\ e % 32 = e /\ e \in 0..15 /\ k.irq_mask \in SUBSET (0..15)
      BY <1>0, <1>2, EventType, Types
    <2>2. PICK m : m = k.irq_mask \ {e}
      BY Zenon
    <2>3. /\ m \in SUBSET (0..15) /\ 0 \in {0, 1}
          /\ \A x \in Irq : x \in m <=> IF x = e THEN 0 = 1 ELSE x \in k.irq_mask
      BY <2>1, <2>2
    <2>4. PICK r : r = [[k EXCEPT !.irq_mask = m] EXCEPT !.irqstate[e] = 0]
      BY Zenon
    <2>5. Settled(r) /\ r \in KernelData
      BY <2>1, <2>3, <2>4, LatchSettled, Zenon DEF Settled, KInv
    <2>6. irq_unmask([k EXCEPT !.irqstate[e] = 0], e) = r
      BY Zenon, <1>0, <2>1, <2>2, <2>4 DEF irq_unmask, KernelData
    <2>7. Settled(ret(r, k.active, 0))
      BY <1>0, <2>5, RetKeeps
    <2> QED BY <1>2, <2>6, <2>7 DEF kcall_reset
  <1> QED BY <1>1, <1>2

=============================================================================
