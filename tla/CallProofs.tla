----------------------------- MODULE CallProofs -----------------------------
(***************************************************************************)
(* The thread table and the kernel calls: thread_kill, each kernel call    *)
(* made under the rules, and the timer's handler preserve Settled.         *)
(***************************************************************************)
EXTENDS QueueProofs

(* Time limits for a leaf that names no prover: the provers in their       *)
(* default order, with time to spare.                                      *)
USE SMTT(30), ZenonT(30)

(* The bucket as a sequence: each struct once; a pop takes the first, a    *)
(* push puts one in front.                                                 *)
Once(h)    == \A i, j \in DOMAIN h : h[i] = h[j] => i = j
Members(h) == {h[i] : i \in DOMAIN h}

(* Taking the first struct from the bucket. *)
LEMMA HeapPop ==
  ASSUME NEW h \in FreeList, h # <<>>, Once(h)
  PROVE  /\ Head(h) \in Block /\ Tail(h) \in FreeList /\ Once(Tail(h))
         /\ Head(h) \in Members(h) /\ Members(Tail(h)) = Members(h) \ {Head(h)}
  <1>1. /\ h \in Seq(Block) /\ Len(h) \in Nat /\ Len(h) > 0 /\ DOMAIN h = 1..Len(h)
        /\ Head(h) = h[1]
    BY DEF FreeList
  <1>2. /\ Tail(h) \in Seq(Block) /\ DOMAIN Tail(h) = 1..(Len(h) - 1)
        /\ \A i \in 1..(Len(h) - 1) : Tail(h)[i] = h[i + 1]
    BY <1>1
  <1>3. Head(h) \in Block /\ Head(h) \in Members(h)
    BY <1>1 DEF Members
  <1>4. Once(Tail(h))
    BY <1>1, <1>2 DEF Once
  <1>5. ASSUME NEW x \in Members(Tail(h)) PROVE x \in Members(h) \ {Head(h)}
    <2>1. PICK i \in 1..(Len(h) - 1) : x = h[i + 1]
      BY <1>2 DEF Members
    <2>2. i + 1 \in 1..Len(h) /\ i + 1 # 1 /\ 1 \in 1..Len(h)
      BY <1>1
    <2> QED BY <1>1, <2>1, <2>2 DEF Members, Once
  <1>6. ASSUME NEW x \in Members(h) \ {Head(h)} PROVE x \in Members(Tail(h))
    <2>1. PICK i \in 1..Len(h) : x = h[i] /\ i # 1
      BY <1>1 DEF Members
    <2>2. i - 1 \in 1..(Len(h) - 1) /\ (i - 1) + 1 = i
      BY <1>1, <2>1
    <2>3. Tail(h)[i - 1] = x
      BY <1>2, <2>1, <2>2
    <2> QED BY Zenon, <1>2, <2>2, <2>3 DEF Members
  <1> QED BY <1>2, <1>3, <1>4, <1>5, <1>6 DEF FreeList

(* Putting a struct back on the bucket. *)
LEMMA HeapPush ==
  ASSUME NEW h \in FreeList, NEW b \in Block, Once(h), b \notin Members(h)
  PROVE  <<b>> \o h \in FreeList /\ Once(<<b>> \o h) /\ Members(<<b>> \o h) = Members(h) \cup {b}
  <1> DEFINE g == <<b>> \o h
  <1>1. h \in Seq(Block) /\ Len(h) \in Nat /\ DOMAIN h = 1..Len(h)
    BY DEF FreeList
  <1>2. /\ g \in Seq(Block) /\ DOMAIN g = 1..(Len(h) + 1) /\ g[1] = b
        /\ \A i \in 1..(Len(h) + 1) : i # 1 => g[i] = h[i - 1]
    BY <1>1
  <1>3. \A i \in 1..(Len(h) + 1) : i # 1 => i - 1 \in 1..Len(h)
    BY <1>1
  <1> HIDE DEF g
  <1>4. \A i \in 1..(Len(h) + 1) : i # 1 => g[i] # b
    BY <1>1, <1>2, <1>3 DEF Members
  <1>5. Once(g)
    <2>1. ASSUME NEW i \in 1..(Len(h) + 1), NEW j \in 1..(Len(h) + 1), g[i] = g[j]
          PROVE  i = j
      <3>1. CASE i = 1 \/ j = 1
        BY Zenon, <1>2, <1>4, <2>1, <3>1
      <3>2. CASE i # 1 /\ j # 1
        <4>1. h[i - 1] = h[j - 1] /\ i - 1 \in DOMAIN h /\ j - 1 \in DOMAIN h
          BY Zenon, <1>1, <1>2, <1>3, <2>1, <3>2
        <4>2. i - 1 = j - 1
          BY <4>1 DEF Once
        <4> QED BY <1>1, <4>2
      <3> QED BY <3>1, <3>2
    <2> QED BY <1>2, <2>1 DEF Once
  <1>6. ASSUME NEW x \in Members(g) PROVE x \in Members(h) \cup {b}
    <2>1. PICK i \in 1..(Len(h) + 1) : x = g[i]
      BY <1>2 DEF Members
    <2> QED BY Zenon, <1>1, <1>2, <1>3, <2>1 DEF Members
  <1>7. ASSUME NEW x \in Members(h) \cup {b} PROVE x \in Members(g)
    <2>1. CASE x = b
      <3>1. 1 \in 1..(Len(h) + 1)
        BY <1>1
      <3> QED BY <1>2, <2>1, <3>1 DEF Members
    <2>2. CASE x \in Members(h)
      <3>1. PICK i \in 1..Len(h) : x = h[i]
        BY <1>1, <2>2 DEF Members
      <3>2. i + 1 \in 1..(Len(h) + 1) /\ i + 1 # 1 /\ (i + 1) - 1 = i
        BY <1>1
      <3>3. g[i + 1] = x
        BY <1>2, <3>1, <3>2
      <3> QED BY <1>2, <3>2, <3>3 DEF Members
    <2> QED BY <1>7, <2>1, <2>2
  <1>8. Members(g) = Members(h) \cup {b}
    BY Zenon, <1>6, <1>7
  <1> QED BY <1>2, <1>5, <1>8 DEF FreeList, g

-----------------------------------------------------------------------------
(* What thread_alloc changes: struct b is t, fresh; the bucket loses its   *)
(* first struct; slot i of the table may take b; the rest is left alone.   *)
FreshStruct(k, r, b, t) ==
  /\ t.state \in {TS_FREE, TS_PAUSED} /\ ~t.dead
  /\ t.next_dead = NULL /\ t.next_fault = NULL
  /\ \A x \in Block : r.th[x] = IF x = b THEN t ELSE k.th[x]
FreshSlot(k, r, b, t, i) ==
  /\ k.table[i] = NULL \/ r.table = k.table
  /\ \A j \in Tid : r.table[j] = IF j = i /\ r.table # k.table THEN b ELSE k.table[j]
  /\ r.table # k.table => t.id = i
FreshRest(k, r) ==
  /\ r.heap = Tail(k.heap) /\ r.active = k.active
  /\ r.sched_head = k.sched_head /\ r.sched_tail = k.sched_tail
  /\ r.ev_front = k.ev_front /\ r.ev_back = k.ev_back /\ SameLatch(k, r)
  /\ r.dead_head = k.dead_head /\ r.dead_tail = k.dead_tail
  /\ r.reaper_head = k.reaper_head /\ r.reaper_tail = k.reaper_tail
  /\ r.debug_head = k.debug_head /\ r.debug_tail = k.debug_tail
  /\ r.fault_head = k.fault_head /\ r.fault_tail = k.fault_tail

(* thread_alloc: the first struct of the bucket becomes t.  In the table   *)
(* it takes an empty slot, or none when there is none.                     *)
LEMMA FreshSettled ==
  ASSUME NEW k, NEW r, NEW b, NEW t, Settled(k), k.heap # <<>>, b = Head(k.heap),
         r \in KernelData, FreshStruct(k, r, b, t), FreshRest(k, r),
         NEW i \in Tid, FreshSlot(k, r, b, t, i)
  PROVE  Settled(r) /\ b \in Block /\ b \notin OnHeap(r) /\ b \notin Dead(r)
         /\ b # r.reaper_tail /\ b # r.debug_tail
  <1> DEFINE s == States(k)
             s2 == States(r)
  <1>0. /\ k \in KernelData /\ TableInv(k, s) /\ BlockedInv(k, s) /\ DeadInv(k, s)
        /\ RunInv(k, s) /\ SchedInv(k, s) /\ EventInv(k, s) /\ LatchInv(k)
    BY DEF Settled, KInv
  <1>1. k.heap \in FreeList /\ Once(k.heap) /\ Members(k.heap) = OnHeap(k)
    BY <1>0, Types DEF TableInv, Once, Members, OnHeap
  <1>2. b \in Block /\ b \in OnHeap(k) /\ OnHeap(r) = OnHeap(k) \ {b} /\ Once(r.heap)
    <2>1. PICK h : h = k.heap
      BY Zenon
    <2>2. /\ Head(h) \in Block /\ Once(Tail(h)) /\ Head(h) \in Members(h)
          /\ Members(Tail(h)) = Members(h) \ {Head(h)}
      BY <1>1, <2>1, HeapPop
    <2>3. Members(r.heap) = OnHeap(r) /\ r.heap = Tail(k.heap)
      BY DEF Members, OnHeap, FreshRest
    <2> QED BY <1>1, <2>1, <2>2, <2>3
  <1>3. /\ s[b] \in {TS_FREE, TS_PAUSED} /\ b # k.reaper_tail /\ b # k.debug_tail
        /\ b \notin Dead(k) /\ \A j \in Tid : k.table[j] # b
    BY <1>0, <1>2, NullIsNoBlock DEF TableInv, BlockedInv, DeadInv
  <1>4. /\ \A x \in Block : s2[x] = IF x = b THEN t.state ELSE s[x]
        /\ s2[b] = t.state /\ t.state \in {TS_FREE, TS_PAUSED}
    BY <1>2 DEF States, FreshStruct
  <1> HIDE DEF s, s2
  <1>5. /\ In(s2, TS_QUEUED) = In(s, TS_QUEUED) /\ b \notin In(s, TS_QUEUED)
        /\ In(s2, TS_WAITING) = In(s, TS_WAITING) /\ b \notin In(s, TS_WAITING)
    BY <1>2, <1>3, <1>4 DEF In, TS_QUEUED, TS_WAITING, TS_FREE, TS_PAUSED
  <1>6. RunInv(r, s2)
    <2>1. r.active = k.active
      BY DEF FreshRest
    <2> QED BY <1>0, <1>3, <1>4, <2>1 DEF RunInv, TS_RUNNING, TS_PAUSEDW, TS_FREE, TS_PAUSED
  <1>7. SchedInv(r, s2)
    <2> DEFINE Q == In(s, TS_QUEUED)
    <2>1. Q \in SUBSET Block /\ ListInv(Nexts(k), k.sched_head, k.sched_tail, Q)
      BY <1>0 DEF SchedInv, In
    <2>2. \A x \in Q : Nexts(r)[x] = Nexts(k)[x]
      BY <1>5, <2>1 DEF Nexts, FreshStruct
    <2> HIDE DEF Q
    <2>3. ListInv(Nexts(r), k.sched_head, k.sched_tail, Q)
      BY Zenon, <2>1, <2>2, ListSame
    <2>4. r.sched_head = k.sched_head /\ r.sched_tail = k.sched_tail
      BY DEF FreshRest
    <2> QED BY <1>5, <2>3, <2>4 DEF SchedInv, Q
  <1>8. EventInv(r, s2)
    <2>0. In(s, TS_WAITING) \subseteq Block
      BY DEF In
    <2>1. \A x \in In(s, TS_WAITING) : /\ r.th[x].event = k.th[x].event
                                       /\ r.th[x].next_evqueue = k.th[x].next_evqueue
      BY <1>5, <2>0 DEF FreshStruct
    <2>2. r.ev_front = k.ev_front /\ r.ev_back = k.ev_back
      BY DEF FreshRest
    <2>3. ASSUME NEW e \in Event
          PROVE  ListInv(NextEvs(r), r.ev_front[e], r.ev_back[e], Waiting(r, s2, e))
      <3> DEFINE Q == Waiting(k, s, e)
      <3>1. Waiting(r, s2, e) = Q
        BY <1>5, <2>1 DEF Waiting
      <3>2. Q \in SUBSET Block /\ ListInv(NextEvs(k), k.ev_front[e], k.ev_back[e], Q)
        BY Zenon, <1>0, <2>0 DEF EventInv, Waiting
      <3>3. \A x \in Q : NextEvs(r)[x] = NextEvs(k)[x]
        BY <2>1, <3>2 DEF NextEvs, Waiting
      <3> HIDE DEF Q
      <3>4. ListInv(NextEvs(r), k.ev_front[e], k.ev_back[e], Q)
        BY <3>2, <3>3, ListSame
      <3> QED BY <2>2, <3>1, <3>4
    <2> QED BY Zenon, <1>0, <1>5, <2>1, <2>3 DEF EventInv
  <1>9. /\ r.dead_head = k.dead_head /\ r.dead_tail = k.dead_tail
        /\ r.reaper_head = k.reaper_head /\ r.reaper_tail = k.reaper_tail
        /\ r.debug_head = k.debug_head /\ r.debug_tail = k.debug_tail
        /\ r.fault_head = k.fault_head /\ r.fault_tail = k.fault_tail
    BY DEF FreshRest
  <1>10. /\ Dead(r) = Dead(k) /\ Dead(k) \in SUBSET Block
         /\ ListInv(NextDeads(r), r.dead_tail, r.dead_head, Dead(k))
    <2> DEFINE Q == Dead(k)
    <2>1. Q \in SUBSET Block /\ ListInv(NextDeads(k), k.dead_tail, k.dead_head, Q)
      BY <1>0 DEF DeadInv, Dead, Walked
    <2>2. \A x \in Q : NextDeads(r)[x] = NextDeads(k)[x]
      BY <1>3, <2>1 DEF NextDeads, FreshStruct
    <2> HIDE DEF Q
    <2>3. ListInv(NextDeads(r), r.dead_tail, r.dead_head, Q)
      BY <1>9, <2>1, <2>2, ListSame
    <2>4. Dead(r) = Q
      BY <2>1, <2>3, ListMembers DEF Dead
    <2> QED BY <2>1, <2>3, <2>4 DEF Q
  <1>11. \A x \in Block : /\ x # b => r.th[x] = k.th[x]
                          /\ x = b => /\ ~r.th[x].dead /\ r.th[x].next_dead = NULL
                                      /\ r.th[x].next_fault = NULL
    BY DEF FreshStruct
  <1>12. DeadInv(r, s2)
    BY <1>0, <1>2, <1>3, <1>4, <1>9, <1>10, <1>11 DEF DeadInv
  <1>13. BlockedInv(r, s2)
    <2>1. /\ k.debug_tail # NULL => k.debug_tail \in Block
          /\ k.reaper_tail # NULL => k.reaper_tail \in Block
      BY Zenon, <1>0, Types, PtrCase
    <2> QED BY <1>0, <1>2, <1>3, <1>4, <1>9, <1>11, <2>1 DEF BlockedInv
  <1>14. TableInv(r, s2)
    <2>0. \A j \in Tid : k.table[j] # NULL => k.table[j] \in Block
      BY Zenon, <1>0, Types, PtrCase
    <2>1. ASSUME NEW j \in Tid, r.table[j] # NULL
          PROVE  r.th[r.table[j]].id = j /\ r.table[j] \notin OnHeap(r)
      <3>1. CASE r.table[j] = k.table[j]
        <4>1. PICK x : x = k.table[j]
          BY Zenon
        <4>2. x # NULL /\ x \in Block
          BY Zenon, <2>0, <2>1, <3>1, <4>1
        <4>3. k.th[x].id = j /\ x \notin OnHeap(k)
          BY Zenon, <1>0, <4>1, <4>2 DEF TableInv
        <4> QED BY <1>2, <1>3, <1>11, <3>1, <4>1, <4>2, <4>3
      <3>2. CASE r.table[j] # k.table[j]
        <4>1. r.table[j] = b /\ t.id = j
          BY <3>2 DEF FreshSlot
        <4>2. r.th[b] = t
          BY <1>2 DEF FreshStruct
        <4> QED BY <1>2, <4>1, <4>2
      <3> QED BY Zenon, <3>1, <3>2
    <2>2. \A x \in OnHeap(r) : s2[x] \in {TS_FREE, TS_PAUSED}
      <3>1. OnHeap(k) \subseteq Block
        BY <1>0, Types DEF OnHeap, FreeList
      <3> QED BY Zenon, <1>0, <1>2, <1>4, <3>1 DEF TableInv
    <2>3. ASSUME NEW x \in Block,
                 \/ s2[x] \in {TS_RUNNING, TS_QUEUED, TS_WAITING}
                 \/ x \in {r.reaper_tail, r.debug_tail} \cup Dead(r)
          PROVE  r.table[r.th[x].id] = x
      <3>1. x # b
        BY <1>3, <1>4, <1>9, <1>10, <2>3
           DEF TS_RUNNING, TS_QUEUED, TS_WAITING, TS_FREE, TS_PAUSED
      <3>2. k.table[k.th[x].id] = x /\ k.th[x].id \in Tid
        BY Zenon, <1>0, <1>4, <1>9, <1>10, <2>3, <3>1, Types DEF TableInv
      <3>3. r.th[x].id = k.th[x].id /\ x # NULL
        BY <1>11, <3>1, NullIsNoBlock
      <3> QED BY <3>2, <3>3 DEF FreshSlot
    <2> QED BY Zenon, <1>2, <2>1, <2>2, <2>3 DEF TableInv, Once
  <1>15. LatchInv(r)
    BY <1>0 DEF LatchInv, SameLatch, FreshRest
  <1>16. RunInv(r, s2) /\ SchedInv(r, s2) /\ EventInv(r, s2) /\ BlockedInv(r, s2)
         /\ DeadInv(r, s2) /\ TableInv(r, s2) /\ LatchInv(r)
    BY <1>6, <1>7, <1>8, <1>12, <1>13, <1>14, <1>15
  <1>17. Settled(r)
    BY Zenon, <1>16 DEF Settled, KInv, s2
  <1> QED BY Zenon, <1>2, <1>3, <1>9, <1>10, <1>17

(* thread_kill of a paused thread that no queue refers to. *)
LEMMA KillSettled ==
  ASSUME NEW k, Settled(k), NEW b \in Block, k.table[k.th[b].id] = b,
         k.th[b].state = TS_PAUSED, b # k.reaper_tail, b # k.debug_tail, b \notin Dead(k)
  PROVE  Settled(thread_kill(k, b))
  <1> DEFINE i == k.th[b].id
             g == <<b>> \o k.heap
             r == [k EXCEPT !.table[i] = NULL, !.heap = g]
             s == States(k)
  <1>0. /\ k \in KernelData /\ TableInv(k, s) /\ BlockedInv(k, s) /\ DeadInv(k, s)
        /\ RunInv(k, s) /\ SchedInv(k, s) /\ EventInv(k, s) /\ LatchInv(k)
    BY Zenon DEF Settled, KInv
  <1>1. i \in Tid /\ b \notin OnHeap(k) /\ s[b] = TS_PAUSED
    <2>1. i \in Tid /\ b # NULL
      BY Zenon, <1>0, Types, NullIsNoBlock
    <2>2. b \notin OnHeap(k)
      BY Zenon, <1>0, <2>1 DEF TableInv
    <2>3. s[b] = TS_PAUSED
      BY Zenon DEF States
    <2> QED BY Zenon, <2>1, <2>2, <2>3
  <1>2. k.heap \in FreeList /\ Once(k.heap) /\ Members(k.heap) = OnHeap(k)
    BY <1>0, Types DEF TableInv, Once, Members, OnHeap
  <1>3. g \in FreeList /\ Once(g) /\ Members(g) = OnHeap(k) \cup {b}
    BY <1>1, <1>2, HeapPush
  <1>4. thread_kill(k, b) = r
    BY <1>0 DEF thread_kill, KernelData
  <1> HIDE DEF g
  <1>5. r \in KernelData
    BY <1>0, <1>1, <1>3, SetTable, Zenon DEF Ptr
  <1>6. r.th = k.th /\ r.active = k.active /\ r.heap = g
    BY <1>0 DEF KernelData
  <1>7. SameSched(k, r) /\ SameEvents(k, r) /\ SameBlocked(k, r) /\ SameDead(k, r) /\ SameLatch(k, r)
    BY <1>0, <1>6 DEF SameSched, SameEvents, SameBlocked, SameDead, SameLatch, KernelData
  <1>8. \A j \in Tid : r.table[j] = IF j = i THEN NULL ELSE k.table[j]
    BY <1>0, <1>1 DEF KernelData
  <1> HIDE DEF r
  <1>9. OnHeap(r) = OnHeap(k) \cup {b} /\ States(r) = s
    BY <1>3, <1>6 DEF OnHeap, Members, States
  <1>10. NextDeads(r) = NextDeads(k) /\ Dead(r) = Dead(k)
    BY Zenon, <1>7, DeadSame
  <1>11. BlockedInv(r, s)
    BY Zenon, <1>0, <1>6, <1>7, <1>9 DEF BlockedInv, SameBlocked, SameDead
  <1>12. DeadInv(r, s)
    BY <1>0, <1>6, <1>7, <1>9, <1>10 DEF DeadInv, SameDead
  <1>13. TableInv(r, s)
    <2>1. ASSUME NEW j \in Tid, r.table[j] # NULL
          PROVE  r.th[r.table[j]].id = j /\ r.table[j] \notin OnHeap(r)
      <3>1. r.table[j] = k.table[j] /\ j # i
        BY Zenon, <1>8, <2>1
      <3>2. TableInv(k, s)
        BY Zenon, <1>0
      <3>3. k.table[j] # NULL
        BY Zenon, <2>1, <3>1
      <3>4. k.th[k.table[j]].id = j /\ k.table[j] \notin OnHeap(k)
        BY Zenon, <3>2, <3>3 DEF TableInv
      <3>5. k.table[j] # b
        BY Zenon, <3>1, <3>4
      <3> QED BY Zenon, <1>6, <1>9, <3>1, <3>4, <3>5
    <2>2. \A x \in OnHeap(r) : s[x] \in {TS_FREE, TS_PAUSED}
      BY Zenon, <1>0, <1>1, <1>9 DEF TableInv
    <2>3. ASSUME NEW x \in Block,
                 \/ s[x] \in {TS_RUNNING, TS_QUEUED, TS_WAITING}
                 \/ x \in {r.reaper_tail, r.debug_tail} \cup Dead(r)
          PROVE  r.table[r.th[x].id] = x
      <3>1. x # b
        BY <1>1, <1>7, <1>10, <2>3 DEF TS_RUNNING, TS_QUEUED, TS_WAITING, TS_PAUSED, SameBlocked
      <3>2. k.table[k.th[x].id] = x /\ k.th[x].id \in Tid
        BY Zenon, <1>0, <1>7, <1>10, <2>3, Types DEF TableInv, SameBlocked
      <3> QED BY Zenon, <1>6, <1>8, <3>1, <3>2
    <2> QED BY Zenon, <1>3, <1>6, <2>1, <2>2, <2>3 DEF TableInv, Once
  <1>14. SchedInv(r, s) /\ EventInv(r, s)
    BY Zenon, <1>0, <1>7, SchedFrame, EventFrame
  <1>15. RunInv(r, s) /\ LatchInv(r)
    BY Zenon, <1>0, <1>6, <1>7 DEF RunInv, LatchInv, SameLatch
  <1> QED BY Zenon, <1>4, <1>5, <1>9, <1>11, <1>12, <1>13, <1>14, <1>15 DEF Settled, KInv

-----------------------------------------------------------------------------

(* A result alone. *)
LEMMA RetSettled ==
  ASSUME NEW k, Settled(k), k.active \in Block, NEW v \in Int
  PROVE  Settled(ret(k, k.active, v))
  BY RetKeeps DEF Settled, KInv

(* thread_get returns NULL or a slot's struct; the target of a call is     *)
(* NULL, the caller or a slot's struct.                                    *)
LEMMA TargetType ==
  ASSUME NEW k, Settled(k), k.active \in Block, NEW id
  PROVE  /\ thread_get(k, id) = NULL \/ (/\ thread_get(k, id) \in Block
                                         /\ id \in Tid /\ thread_get(k, id) = k.table[id])
         /\ \/ target_of(k, k.active, id) = NULL
            \/ target_of(k, k.active, id) = k.active
            \/ /\ target_of(k, k.active, id) \in Block
               /\ id \in Tid /\ target_of(k, k.active, id) = k.table[id]
  <1>1. \A i \in Tid : k.table[i] = NULL \/ k.table[i] \in Block
    BY Types, PtrCase DEF Settled, KInv
  <1> QED BY Zenon, <1>1 DEF thread_get, target_of

(* A paused thread of the table that is alive and not blocked is idle. *)
LEMMA PausedIdle ==
  ASSUME NEW k, Settled(k), NEW id \in Tid, NEW b \in Block, b = k.table[id],
         k.th[b].state = TS_PAUSED, ~k.th[b].dead, b # k.reaper_tail, b # k.debug_tail
  PROVE  Idle(k, States(k), b)
  <1>1. TableInv(k, States(k)) /\ DeadInv(k, States(k)) /\ b # NULL
    BY Zenon, NullIsNoBlock DEF Settled, KInv
  <1>2. b \notin OnHeap(k) /\ k.th[b].id = id
    BY <1>1 DEF TableInv
  <1>3. b \notin Dead(k)
    BY Zenon, <1>1 DEF DeadInv
  <1> QED BY Zenon, <1>2, <1>3 DEF Idle, States

(* A thread whose state is TS_RUNNING is the active thread, and nobody is  *)
(* TS_PAUSEDW.                                                             *)
LEMMA StateFacts ==
  ASSUME NEW k, Settled(k), NEW b \in Block
  PROVE  /\ k.th[b].state = TS_RUNNING => b = k.active
         /\ k.th[b].state # TS_PAUSEDW /\ k.th[b].state \in 0..5
         /\ k.th[b].dead => k.th[b].state = TS_PAUSED
  BY Zenon, Types DEF Settled, KInv, RunInv, States, DeadInv

-----------------------------------------------------------------------------
(* The kernel calls. *)

(* reap of a dead thread that getdead has handed out. *)
LEMMA ReapSettled ==
  ASSUME NEW k, Settled(k), k.active \in Block, NEW id, NEW b \in Block,
         b = thread_get(k, id), k.th[b].dead, b \notin Dead(k),
         b # k.reaper_tail, b # k.debug_tail
  PROVE  Settled(kcall_reap(k, k.active, id))
  <1> DEFINE a == k.active
  <1>0. k \in KernelData /\ TableInv(k, States(k)) /\ 0 \in Int /\ b # NULL
    BY NullIsNoBlock DEF Settled, KInv
  <1>1. id \in Tid /\ b = k.table[id] /\ k.th[b].state = TS_PAUSED
    BY Zenon, <1>0, TargetType, StateFacts
  <1>2. k.table[k.th[b].id] = b
    BY <1>0, <1>1 DEF TableInv
  <1>3. PICK p : p = ret(k, a, 0)
    BY Zenon
  <1>4. Settled(p) /\ SameQueues(k, p) /\ SameStates(k, p)
    BY Zenon, <1>0, <1>3, RetKeeps
  <1>5. /\ p.table[p.th[b].id] = b /\ p.th[b].state = TS_PAUSED
        /\ b # p.reaper_tail /\ b # p.debug_tail /\ b \notin Dead(p)
    BY Zenon, <1>1, <1>2, <1>4, DeadSame DEF SameQueues, SameStates, SameTable, SameBlocked
  <1>6. Settled(thread_kill(p, b))
    BY Zenon, <1>4, <1>5, KillSettled
  <1> QED BY Zenon, <1>0, <1>1, <1>3, <1>6 DEF kcall_reap

(* pause of a thread that does not wait. *)
LEMMA PauseSettled ==
  ASSUME NEW k, Settled(k), k.active \in Block, NEW id,
         target_of(k, k.active, id) # NULL
           => k.th[target_of(k, k.active, id)].state # TS_WAITING
  PROVE  Settled(kcall_pause(k, k.active, id))
  <1> DEFINE a == k.active
  <1>0. k \in KernelData /\ 0 \in Int /\ TE_EXIST \in Int /\ TE_STATE \in Int
    BY DEF Settled, KInv, TE_EXIST, TE_STATE
  <1>1. PICK b : b = target_of(k, a, id)
    BY Zenon
  <1>2. b = NULL \/ (b \in Block /\ b # NULL)
    BY <1>1, TargetType, NullIsNoBlock
  <1>3. CASE b = NULL
    BY <1>0, <1>1, <1>3, RetSettled DEF kcall_pause
  <1>4. CASE b \in Block /\ b # NULL /\ k.th[b].state = TS_RUNNING
    <2>1. b = a
      BY Zenon, <1>4, StateFacts
    <2>2. PICK p : p = suspend(k, a)
      BY Zenon
    <2>3. Settled(p) /\ p \in KernelData
      BY <2>2, SuspendSettled DEF Settled, KInv
    <2>4. Settled(ret(p, a, 0))
      BY Zenon, <1>0, <2>3, RetKeeps
    <2> QED BY Zenon, <1>1, <1>4, <2>1, <2>2, <2>4 DEF kcall_pause
  <1>5. CASE b \in Block /\ b # NULL /\ k.th[b].state = TS_QUEUED
    <2>1. PICK p : p = schedule_remv(k, b)
      BY Zenon
    <2>2. Off(p, b)
      BY <1>5, <2>1, RemvOff
    <2>3. PICK q : q = [p EXCEPT !.th[b].state = TS_PAUSED]
      BY Zenon
    <2>4. Settled(q)
      BY <2>2, <2>3, PauseOff, Zenon
    <2>5. Settled(ret(q, a, 0))
      BY <1>0, <2>4, RetKeeps DEF Settled, KInv
    <2>6. k.th[b].state # TS_RUNNING
      BY <1>5 DEF TS_RUNNING, TS_QUEUED
    <2> QED BY Zenon, <1>1, <1>5, <2>1, <2>3, <2>5, <2>6 DEF kcall_pause
  <1>6. CASE /\ b \in Block /\ b # NULL /\ k.th[b].state # TS_RUNNING
             /\ k.th[b].state # TS_QUEUED
    <2>1. Settled(ret(k, a, TE_STATE))
      BY <1>0, RetSettled
    <2> QED BY Zenon, <1>1, <1>6, <2>1 DEF kcall_pause
  <1> QED BY Zenon, <1>2, <1>3, <1>4, <1>5, <1>6

(* resume of a thread that is alive and not blocked. *)
LEMMA ResumeSettled ==
  ASSUME NEW k, Settled(k), k.active \in Block, NEW id,
         thread_get(k, id) # NULL => /\ thread_get(k, id) # k.reaper_tail
                                     /\ thread_get(k, id) # k.debug_tail
                                     /\ ~k.th[thread_get(k, id)].dead
  PROVE  Settled(kcall_resume(k, k.active, id))
  <1> DEFINE a == k.active
  <1>0. k \in KernelData /\ 0 \in Int /\ TE_EXIST \in Int /\ TE_STATE \in Int
    BY DEF Settled, KInv, TE_EXIST, TE_STATE
  <1>1. PICK b : b = thread_get(k, id)
    BY Zenon
  <1>2. b = NULL \/ (b \in Block /\ b # NULL /\ id \in Tid /\ b = k.table[id])
    BY <1>1, TargetType, NullIsNoBlock
  <1>3. CASE b = NULL
    BY <1>0, <1>1, <1>3, RetSettled DEF kcall_resume
  <1>4. CASE b \in Block /\ b # NULL /\ k.th[b].state = TS_PAUSED
    <2>1. Idle(k, States(k), b)
      BY <1>1, <1>2, <1>4, PausedIdle
    <2>2. Off(k, b)
      BY <2>1, IdleOff
    <2>3. PICK p : p = enqueue(k, b)
      BY Zenon
    <2>4. Settled(p) /\ p \in KernelData
      BY <2>2, <2>3, EnqueueOff DEF Settled, KInv
    <2>5. Settled(ret(p, a, 0))
      BY <1>0, <2>4, RetKeeps
    <2> QED BY <1>1, <1>4, <2>3, <2>5 DEF kcall_resume
  <1>5. CASE b \in Block /\ b # NULL /\ k.th[b].state # TS_PAUSED
    <2>1. k.th[b].state # TS_PAUSEDW
      BY <1>5, StateFacts
    <2>2. Settled(ret(k, a, TE_STATE))
      BY <1>0, RetSettled
    <2> QED BY <1>1, <1>5, <2>1, <2>2 DEF kcall_resume
  <1> QED BY <1>2, <1>3, <1>4, <1>5

-----------------------------------------------------------------------------
(* A tick: the due virtual timers, then preemption. *)
LEMMA TimerSettled ==
  ASSUME NEW k, Settled(k), NEW j, NEW i
  PROVE  Settled(vtimer(k, j, i)) /\ vtimer(k, j, i).active = k.active
  <1>1. i \in VTimer => EV_VTIMER(i) \in Event
    BY DEF Event
  <1> QED BY <1>1, SendSettled DEF vtimer

(* Four turns of the timer loop. *)
LEMMA Timer4Settled ==
  ASSUME NEW k, Settled(k), NEW j, NEW i
  PROVE  Settled(vtimer4(k, j, i)) /\ vtimer4(k, j, i).active = k.active
  <1>1. PICK p : p = vtimer(k, j, i)
    BY Zenon
  <1>2. PICK q : q = vtimer(p, j, i + 1)
    BY Zenon
  <1>3. PICK r : r = vtimer(q, j, i + 2)
    BY Zenon
  <1>4. Settled(p) /\ p.active = k.active
    BY <1>1, TimerSettled
  <1>5. Settled(q) /\ q.active = k.active
    BY <1>2, <1>4, TimerSettled
  <1>6. Settled(r) /\ r.active = k.active
    BY <1>3, <1>5, TimerSettled
  <1>7. Settled(vtimer(r, j, i + 3)) /\ vtimer(r, j, i + 3).active = k.active
    BY <1>6, TimerSettled
  <1> QED BY <1>1, <1>2, <1>3, <1>7 DEF vtimer4

(* timer_handler preserves the invariant, with a thread active or idle. *)
LEMMA TickSettled ==
  ASSUME NEW k, Settled(k), NEW j
  PROVE  Settled(timer_handler(k, k.active, j))
  <1>1. PICK p : p = vtimer4(k, j, 0)
    BY Zenon
  <1>2. PICK q : q = vtimer4(p, j, 4)
    BY Zenon
  <1>3. PICK r : r = vtimer4(q, j, 8)
    BY Zenon
  <1>4. PICK t : t = vtimer4(r, j, 12)
    BY Zenon
  <1>5. Settled(p) /\ p.active = k.active
    BY Zenon, <1>1, Timer4Settled
  <1>6. Settled(q) /\ q.active = k.active
    BY Zenon, <1>2, <1>5, Timer4Settled
  <1>7. Settled(r) /\ r.active = k.active
    BY Zenon, <1>3, <1>6, Timer4Settled
  <1>8. Settled(t) /\ t.active = k.active
    BY <1>4, <1>7, Timer4Settled
  <1>9. vtimers(k, j) = t
    BY Zenon, <1>1, <1>2, <1>3, <1>4 DEF vtimers
  <1>10. CASE k.active = NULL
    BY <1>8, <1>9, <1>10 DEF timer_handler
  <1>11. CASE k.active \in Block
    <2>1. Settled(requeue(t, k.active))
      BY Zenon, <1>8, <1>11, RequeueSettled
    <2> QED BY <1>8, <1>9, <2>1 DEF timer_handler
  <1>12. k \in KernelData
    BY DEF Settled, KInv
  <1>13. k.active \in Ptr
    BY <1>12, Types
  <1> QED BY <1>10, <1>11, <1>13, PtrCase

-----------------------------------------------------------------------------
(* The kernel calls and the order of the queues: from entry to the end of  *)
(* the handler nobody overtakes, wakes for nothing or, setstate apart,     *)
(* dies.                                                                   *)
Mild(k, h) == Orderly(k, h) /\ Alive(k, h)

(* The active thread may do as it likes with itself. *)
LEMMA MildSelf ==
  ASSUME NEW k, Settled(k), k.active \in Block, NEW h, Touch(k, h, k.active), Alive(k, h)
  PROVE  Mild(k, h)
  <1>1. k.th[k.active].state = TS_RUNNING
    BY ActiveSlot
  <1>2. Steady(k, k.active)
    BY <1>1 DEF Steady, TS_RUNNING, TS_QUEUED, TS_WAITING
  <1> QED BY <1>2, OrderlySelf, OrderlySteady DEF Mild

(* One more operation, on a thread that was neither queued nor waiting. *)
LEMMA MildMore ==
  ASSUME NEW k, NEW p, NEW q, NEW b, Mild(k, p), Touch(p, q, b), Alive(p, q),
         b \in Block => Steady(k, b)
  PROVE  Mild(k, q)
  <1>1. Orderly(k, q)
    BY OrderlySteady DEF Mild
  <1>2. Alive(k, q)
    BY AliveTrans DEF Mild
  <1> QED BY <1>1, <1>2 DEF Mild

(* The last operation of most calls is the result. *)
LEMMA MildRet ==
  ASSUME NEW k, Settled(k), k.active \in Block, NEW p \in KernelData, Mild(k, p), NEW v
  PROVE  Mild(k, ret(p, k.active, v))
  <1>1. k.th[k.active].state = TS_RUNNING
    BY ActiveSlot
  <1>2. Steady(k, k.active)
    BY <1>1 DEF Steady, TS_RUNNING, TS_QUEUED, TS_WAITING
  <1>3. PICK r : r = ret(p, k.active, v)
    BY Zenon
  <1>4. Touch(p, r, k.active) /\ Alive(p, r)
    BY <1>3, TouchRet
  <1> QED BY Zenon, <1>2, <1>3, <1>4, MildMore

(* A result alone: gettid and getstate, and calls that fail. *)
LEMMA RetMild ==
  ASSUME NEW k, Settled(k), k.active \in Block, NEW v
  PROVE  Mild(k, ret(k, k.active, v))
  <1>1. Mild(k, k) /\ k \in KernelData
    BY OrderlySelf DEF Mild, Settled, KInv
  <1> QED BY <1>1, MildRet

(* reset. *)
LEMMA ResetMild ==
  ASSUME NEW k, Settled(k), k.active \in Block, NEW e \in Event
  PROVE  Mild(k, kcall_reset(k, k.active, e))
  <1>0. k \in KernelData
    BY DEF Settled, KInv
  <1>1. CASE ~(e < 240)
    BY <1>1, RetMild DEF kcall_reset
  <1>2. CASE e < 240
    <2>1. PICK p : p = irq_unmask([k EXCEPT !.irqstate[e] = 0], e)
      BY Zenon
    <2>2. p.th = k.th /\ p.sched_head = k.sched_head
      BY <1>0, <2>1 DEF irq_unmask, KernelData
    <2>3. Touch(k, p, k.active) /\ Alive(k, p)
      BY <2>2, TouchNone
    <2>4. p \in KernelData
      <3>1. PICK q : q = [k EXCEPT !.irqstate[e] = 0]
        BY Zenon
      <3>2. q \in KernelData
        BY Zenon, <1>0, <3>1, SetEvent
      <3>3. q.irq_mask \ {e % 32} \in SUBSET (0..15)
        BY <3>2, Types
      <3>4. p = [q EXCEPT !.irq_mask = q.irq_mask \ {e % 32}]
        BY <2>1, <3>1 DEF irq_unmask
      <3> QED BY Zenon, <3>2, <3>3, <3>4, SetEvent
    <2>5. Mild(k, ret(p, k.active, 0))
      BY <2>3, <2>4, MildSelf, MildRet
    <2> QED BY <1>2, <2>1, <2>5 DEF kcall_reset
  <1> QED BY <1>1, <1>2

(* yield. *)
LEMMA YieldMild ==
  ASSUME NEW k, Settled(k), k.active \in Block
  PROVE  Mild(k, requeue(k, k.active))
  BY TouchRequeue, MildSelf

(* wait. *)
LEMMA WaitMild ==
  ASSUME NEW k, Settled(k), k.active \in Block, NEW e \in Event, NEW event \in {e, -e - 1}
  PROVE  Mild(k, event_wait(k, k.th[k.active].id, event).k)
  <1> DEFINE b == k.active
             i == k.th[b].id
  <1>0. /\ k \in KernelData /\ thread_get(k, i) = b /\ b # NULL
        /\ e \in 0..255 /\ k.irqstate[e] \in {0, 1}
    BY ActiveSlot, EventType, Types, NullIsNoBlock
  <1>1. CASE event = -e - 1
    <2>1. event < 0 /\ -event - 1 = e
      BY <1>0, <1>1
    <2>2. event_wait(k, i, event) = [ret |-> k.irqstate[e], k |-> k]
      BY <1>0, <2>1 DEF event_wait
    <2> QED BY <2>2, OrderlySelf DEF Mild
  <1>2. CASE event = e
    <2>0. ~(event < 0) /\ ~(event >= EV_COUNT)
      BY <1>0, <1>2 DEF EV_COUNT
    <2>1. CASE k.irqstate[e] = 1
      <3>1. event_wait(k, i, event) = [ret |-> 0, k |-> requeue(k, b)]
        BY Zenon, <1>0, <1>2, <2>0, <2>1 DEF event_wait, requeue
      <3> QED BY <3>1, YieldMild
    <2>2. CASE k.irqstate[e] # 1
      <3>1. PICK p : p = ev_append(k, b, e)
        BY Zenon
      <3>2. Touch(k, p, b) /\ Alive(k, p) /\ p \in KernelData
        BY <1>0, <3>1, TouchAppend, AppendEffect DEF OnlyEvents
      <3>3. PICK q : q = thread_save(p, b)
        BY Zenon
      <3>4. Touch(p, q, b) /\ Alive(p, q)
        BY <3>2, <3>3, TouchSave
      <3>5. q \in KernelData
        BY <3>2, <3>3, ActiveEffect DEF thread_save, Ptr
      <3>6. PICK r : r = [q EXCEPT !.th[b].state = TS_WAITING]
        BY Zenon
      <3>7. Touch(q, r, b) /\ Alive(q, r)
        BY Zenon, <3>5, <3>6, TouchWrite
      <3>8. Touch(k, r, b) /\ Alive(k, r)
        BY Zenon, <3>2, <3>4, <3>7, TouchTrans, AliveTrans
      <3>9. event_wait(k, i, event) = [ret |-> 0, k |-> r]
        BY Zenon, <1>0, <1>2, <2>0, <2>2, <3>1, <3>3, <3>6 DEF event_wait, ev_append
      <3> QED BY <3>8, <3>9, MildSelf
    <2> QED BY <2>1, <2>2
  <1> QED BY Zenon, <1>1, <1>2

(* getfault by the only debugger. *)
LEMMA GetfaultMild ==
  ASSUME NEW k, Settled(k), k.active \in Block, k.debug_tail = NULL
  PROVE  Mild(k, kcall_getfault(k, k.active))
  <1> DEFINE a == k.active
  <1>0. k.fault_tail = NULL /\ k.debug_head = NULL
    BY DEF Settled, KInv, BlockedInv
  <1>1. PICK p : p = suspend(k, a)
    BY Zenon
  <1>2. SameQueues(k, p) /\ p \in KernelData
    BY <1>1, SuspendSettled DEF Settled, KInv
  <1>3. Touch(k, p, a) /\ Alive(k, p)
    BY <1>1, TouchSuspend
  <1>4. p.fault_tail = NULL /\ p.debug_head = NULL
    BY <1>0, <1>2 DEF SameQueues, SameBlocked
  <1>5. PICK r : r = [p EXCEPT !.debug_head = a, !.debug_tail = a]
    BY Zenon
  <1>6. r.th = p.th /\ r.sched_head = p.sched_head
    BY <1>2, <1>5 DEF KernelData
  <1>7. Touch(p, r, a) /\ Alive(p, r)
    BY <1>6, TouchNone
  <1>8. Mild(k, r)
    BY Zenon, <1>3, <1>7, TouchTrans, AliveTrans, MildSelf
  <1> QED BY Zenon, <1>0, <1>1, <1>4, <1>5, <1>8 DEF kcall_getfault, fault_peek, fault_wait

(* getdead by the only reaper. *)
LEMMA GetdeadMild ==
  ASSUME NEW k, Settled(k), k.active \in Block, k.reaper_tail = NULL
  PROVE  Mild(k, kcall_getdead(k, k.active))
  <1> DEFINE a == k.active
  <1>0. k \in KernelData
    BY DEF Settled, KInv
  <1>1. CASE k.dead_tail # NULL
    <2>1. PICK q : q = dead_pull(k).k
      BY Zenon
    <2>2. q \in KernelData
      BY Zenon, <1>1, <2>1, PullSettled DEF Settled, KInv
    <2>3. q.th = k.th /\ q.sched_head = k.sched_head
      BY Zenon, <1>0, <1>1, <2>1 DEF dead_pull, KernelData
    <2>4. Mild(k, q)
      BY Zenon, <2>3, TouchNone, MildSelf
    <2>5. Mild(k, ret(q, a, k.th[dead_pull(k).ret].id))
      BY Zenon, <2>2, <2>4, MildRet
    <2> QED BY <1>1, <2>1, <2>5 DEF kcall_getdead, dead_peek
  <1>2. CASE k.dead_tail = NULL
    <2>1. PICK p : p = suspend(k, a)
      BY Zenon
    <2>2. Settled(p) /\ SameQueues(k, p) /\ p \in KernelData
      BY Zenon, <2>1, SuspendSettled DEF Settled, KInv
    <2>3. Touch(k, p, a) /\ Alive(k, p)
      BY Zenon, <2>1, TouchSuspend
    <2>4. p.dead_tail = NULL /\ p.reaper_head = NULL
      BY Zenon, <1>2, <2>2 DEF SameQueues, SameBlocked, SameDead, Settled, KInv, BlockedInv
    <2>5. PICK r : r = [p EXCEPT !.reaper_head = a, !.reaper_tail = a]
      BY Zenon
    <2>6. r.th = p.th /\ r.sched_head = p.sched_head
      BY Zenon, <2>2, <2>5 DEF KernelData
    <2>7. Touch(p, r, a) /\ Alive(p, r)
      BY <2>6, TouchNone
    <2>8. Mild(k, r)
      BY Zenon, <2>3, <2>7, TouchTrans, AliveTrans, MildSelf
    <2> QED BY Zenon, <1>2, <2>1, <2>4, <2>5, <2>8 DEF kcall_getdead, dead_peek, dead_wait
  <1> QED BY <1>1, <1>2

(* A page fault while a debugger is blocked. *)
LEMMA PageFaultMild ==
  ASSUME NEW k, Settled(k), k.active \in Block, k.debug_tail # NULL
  PROVE  Mild(k, fault_page(k, k.active, 1))
  <1> DEFINE a == k.active
             d == k.debug_tail
  <1>1. PICK p : p = suspend(k, a)
    BY Zenon
  <1>2. Settled(p) /\ SameQueues(k, p) /\ p \in KernelData
    BY Zenon, <1>1, SuspendSettled DEF Settled, KInv
  <1>3. p.debug_tail = d /\ d \in Block /\ p.th[d].next_fault = NULL /\ p.th[a].id \in Int
    <2>1. p.debug_tail = d
      BY Zenon, <1>2 DEF SameQueues, SameBlocked
    <2>2. d \in Block
      BY Zenon, <1>2, <2>1, Types, PtrCase
    <2>3. p.th[d].next_fault = NULL
      BY Zenon, <1>2, <2>2 DEF Settled, KInv, BlockedInv
    <2>4. p.th[a].id \in Int
      BY <1>2, Types DEF Tid
    <2> QED BY Zenon, <2>1, <2>2, <2>3, <2>4
  <1>4. PICK q : q = [p EXCEPT !.debug_head = NULL, !.debug_tail = NULL]
    BY Zenon
  <1>5. /\ OnlyBlocked(p, q) /\ q.debug_head = NULL /\ q.debug_tail = NULL
        /\ q.reaper_head = p.reaper_head /\ q.reaper_tail = p.reaper_tail
    <2>1. NULL \in Ptr
      BY Zenon DEF Ptr
    <2> QED BY Zenon, <1>2, <1>4, <2>1, DebuggerEffect
  <1>6. p.reaper_head = p.reaper_tail /\ p.reaper_tail # d
    BY Zenon, <1>2, <1>3 DEF Settled, KInv, BlockedInv
  <1>7. Settled(q)
    BY Zenon, <1>2, <1>5, <1>6, BlockedSettled
  <1>8. Off(q, d)
    BY Zenon, <1>2, <1>3, <1>5, <1>6, <1>7, UnblockOff
  <1>9. PICK r : r = notify(q, d, p.th[a].id)
    BY Zenon
  <1>10. Touch(q, r, d) /\ Alive(q, r)
    BY Zenon, <1>3, <1>8, <1>9, TouchNotify
  <1>11. Mild(k, q)
    <2>1. Touch(k, p, a) /\ Alive(k, p)
      BY Zenon, <1>1, TouchSuspend
    <2>2. Touch(p, q, a) /\ Alive(p, q)
      BY Zenon, <1>5, TouchNone DEF OnlyBlocked, SameSched
    <2> QED BY Zenon, <2>1, <2>2, TouchTrans, AliveTrans, MildSelf
  <1>12. Steady(k, d)
    <2>1. k.th[d].state = TS_PAUSED
      BY Zenon, <1>3, StatesType DEF Settled, KInv, BlockedInv
    <2> QED BY <2>1 DEF Steady, TS_PAUSED, TS_QUEUED, TS_WAITING
  <1>13. Mild(k, r)
    BY Zenon, <1>10, <1>11, <1>12, MildMore
  <1>14. fault_push(p, a) = r
    BY Zenon, <1>3, <1>4, <1>9 DEF fault_push
  <1> QED BY <1>1, <1>13, <1>14 DEF fault_page

(* reap of a paused thread. *)
LEMMA ReapMild ==
  ASSUME NEW k, Settled(k), k.active \in Block, NEW id, thread_get(k, id) # NULL
  PROVE  Mild(k, kcall_reap(k, k.active, id))
  <1> DEFINE a == k.active
  <1>0. k \in KernelData
    BY DEF Settled, KInv
  <1>1. PICK b : b = thread_get(k, id)
    BY Zenon
  <1>2. PICK p : p = ret(k, a, 0)
    BY Zenon
  <1>3. Mild(k, p) /\ p \in KernelData
    BY <1>0, <1>2, RetMild, RetKeeps
  <1>4. PICK r : r = thread_kill(p, b)
    BY Zenon
  <1>5. r.th = p.th /\ r.sched_head = p.sched_head
    BY <1>3, <1>4 DEF thread_kill, KernelData
  <1>6. Touch(p, r, NULL) /\ Alive(p, r)
    BY <1>5, TouchNone
  <1>7. Mild(k, r)
    BY <1>3, <1>6, MildMore, NullIsNoBlock
  <1>8. Mild(k, ret(k, a, TE_STATE))
    BY RetMild
  <1> QED BY Zenon, <1>1, <1>2, <1>4, <1>7, <1>8 DEF kcall_reap

(* pause of a thread that does not wait. *)
LEMMA PauseMild ==
  ASSUME NEW k, Settled(k), k.active \in Block, NEW id,
         target_of(k, k.active, id) # NULL
           => k.th[target_of(k, k.active, id)].state # TS_WAITING
  PROVE  Mild(k, kcall_pause(k, k.active, id))
  <1> DEFINE a == k.active
  <1>0. k \in KernelData
    BY DEF Settled, KInv
  <1>1. PICK b : b = target_of(k, a, id)
    BY Zenon
  <1>2. b = NULL \/ (b \in Block /\ b # NULL)
    BY <1>1, TargetType, NullIsNoBlock
  <1>3. CASE b = NULL
    BY <1>1, <1>3, RetMild DEF kcall_pause
  <1>4. CASE b \in Block /\ b # NULL /\ k.th[b].state = TS_RUNNING
    <2>1. b = a
      BY <1>4, StateFacts
    <2>2. PICK p : p = suspend(k, a)
      BY Zenon
    <2>3. p \in KernelData
      BY Zenon, <2>2, SuspendSettled DEF Settled, KInv
    <2>4. Mild(k, p)
      BY <2>2, TouchSuspend, MildSelf
    <2>5. Mild(k, ret(p, a, 0))
      BY Zenon, <2>3, <2>4, MildRet
    <2> QED BY Zenon, <1>1, <1>4, <2>1, <2>2, <2>5 DEF kcall_pause
  <1>5. CASE b \in Block /\ b # NULL /\ k.th[b].state = TS_QUEUED
    <2>1. PICK p : p = schedule_remv(k, b)
      BY Zenon
    <2>2. Touch(k, p, b) /\ Alive(k, p) /\ p \in KernelData
      BY <1>5, <2>1, TouchRemv
    <2>3. PICK q : q = [p EXCEPT !.th[b].state = TS_PAUSED]
      BY Zenon
    <2>4. Touch(p, q, b) /\ Alive(p, q)
      BY Zenon, <1>5, <2>2, <2>3, TouchWrite
    <2>5. q \in KernelData /\ q.th[b].state = TS_PAUSED
      <3>1. TS_PAUSED \in 0..5
        BY DEF TS_PAUSED
      <3>2. q \in KernelData
        BY Zenon, <1>5, <2>2, <2>3, <3>1, StateEffect
      <3>3. q.th[b].state = TS_PAUSED
        BY <1>5, <2>2, <2>3 DEF KernelData, ThreadStruct
      <3> QED BY <3>2, <3>3
    <2>6. Touch(k, q, b) /\ Alive(k, q)
      BY Zenon, <2>2, <2>4, TouchTrans, AliveTrans
    <2>7. Mild(k, q)
      BY Zenon, <1>5, <2>5, <2>6, OrderlySelf, OrderlyTouch DEF Mild
    <2>8. Mild(k, ret(q, a, 0))
      BY <2>5, <2>7, MildRet
    <2>9. k.th[b].state # TS_RUNNING
      BY <1>5 DEF TS_RUNNING, TS_QUEUED
    <2> QED BY Zenon, <1>1, <1>5, <2>1, <2>3, <2>8, <2>9 DEF kcall_pause
  <1>6. CASE /\ b \in Block /\ b # NULL /\ k.th[b].state # TS_RUNNING
             /\ k.th[b].state # TS_QUEUED
    <2>1. Mild(k, ret(k, a, TE_STATE))
      BY Zenon, RetMild
    <2> QED BY Zenon, <1>1, <1>6, <2>1 DEF kcall_pause
  <1> QED BY Zenon, <1>2, <1>3, <1>4, <1>5, <1>6

(* resume of a thread that is alive and not blocked. *)
LEMMA ResumeMild ==
  ASSUME NEW k, Settled(k), k.active \in Block, NEW id,
         thread_get(k, id) # NULL => /\ thread_get(k, id) # k.reaper_tail
                                     /\ thread_get(k, id) # k.debug_tail
                                     /\ ~k.th[thread_get(k, id)].dead
  PROVE  Mild(k, kcall_resume(k, k.active, id))
  <1> DEFINE a == k.active
  <1>1. PICK b : b = thread_get(k, id)
    BY Zenon
  <1>2. b = NULL \/ (b \in Block /\ b # NULL /\ id \in Tid /\ b = k.table[id])
    BY <1>1, TargetType, NullIsNoBlock
  <1>3. CASE b = NULL
    BY <1>1, <1>3, RetMild DEF kcall_resume
  <1>4. CASE b \in Block /\ b # NULL /\ k.th[b].state = TS_PAUSED
    <2>1. Idle(k, States(k), b)
      BY <1>1, <1>2, <1>4, PausedIdle
    <2>2. Off(k, b)
      BY <2>1, IdleOff
    <2>3. PICK p : p = enqueue(k, b)
      BY Zenon
    <2>4. p \in KernelData
      BY Zenon, <2>2, <2>3, EnqueueOff DEF Settled, KInv
    <2>5. Touch(k, p, b) /\ Alive(k, p)
      BY Zenon, <2>2, <2>3, TouchEnqueue
    <2>6. Steady(k, b)
      BY <1>4 DEF Steady, TS_PAUSED, TS_QUEUED, TS_WAITING
    <2>7. Mild(k, p)
      BY Zenon, <2>5, <2>6, OrderlySelf, MildMore DEF Mild
    <2>8. Mild(k, ret(p, a, 0))
      BY <2>4, <2>7, MildRet
    <2> QED BY Zenon, <1>1, <1>4, <2>3, <2>8 DEF kcall_resume
  <1>5. CASE b \in Block /\ b # NULL /\ k.th[b].state # TS_PAUSED
    <2>1. k.th[b].state # TS_PAUSEDW
      BY <1>5, StateFacts
    <2>2. Mild(k, ret(k, a, TE_STATE))
      BY RetMild
    <2> QED BY Zenon, <1>1, <1>5, <2>1, <2>2 DEF kcall_resume
  <1> QED BY Zenon, <1>2, <1>3, <1>4, <1>5

(* The timers that are due, and preemption. *)
LEMMA TimerOrderly ==
  ASSUME NEW k0, NEW k, Settled(k), Mild(k0, k), NEW j, NEW i
  PROVE  Mild(k0, vtimer(k, j, i))
  <1>1. i \in VTimer => EV_VTIMER(i) \in Event
    BY DEF Event
  <1>2. \A e \in Event : Mild(k0, event_send(k, e))
    BY OrderlySend, AliveTrans DEF Mild
  <1> QED BY <1>1, <1>2 DEF vtimer

(* The loop body taken four times, as the invariant is proved for it. *)
LEMMA Timer4Orderly ==
  ASSUME NEW k0, NEW k, Settled(k), Mild(k0, k), NEW j, NEW i
  PROVE  Mild(k0, vtimer4(k, j, i))
  <1>1. PICK p : p = vtimer(k, j, i)
    BY Zenon
  <1>2. PICK q : q = vtimer(p, j, i + 1)
    BY Zenon
  <1>3. PICK r : r = vtimer(q, j, i + 2)
    BY Zenon
  <1>4. Settled(p) /\ Mild(k0, p)
    BY <1>1, TimerSettled, TimerOrderly
  <1>5. Settled(q) /\ Mild(k0, q)
    BY <1>2, <1>4, TimerSettled, TimerOrderly
  <1>6. Settled(r) /\ Mild(k0, r)
    BY <1>3, <1>5, TimerSettled, TimerOrderly
  <1>7. Mild(k0, vtimer(r, j, i + 3))
    BY <1>6, TimerOrderly
  <1> QED BY <1>1, <1>2, <1>3, <1>7 DEF vtimer4

(* timer_handler: the timers that are due are sent. *)
LEMMA TickMild ==
  ASSUME NEW k, Settled(k), NEW j
  PROVE  Mild(k, timer_handler(k, k.active, j))
  <1>1. PICK p : p = vtimer4(k, j, 0)
    BY Zenon
  <1>2. PICK q : q = vtimer4(p, j, 4)
    BY Zenon
  <1>3. PICK r : r = vtimer4(q, j, 8)
    BY Zenon
  <1>4. PICK t : t = vtimer4(r, j, 12)
    BY Zenon
  <1>5. Settled(p) /\ p.active = k.active /\ Mild(k, p)
    BY Zenon, <1>1, Timer4Settled, Timer4Orderly, OrderlySelf DEF Mild
  <1>6. Settled(q) /\ q.active = k.active /\ Mild(k, q)
    BY Zenon, <1>2, <1>5, Timer4Settled, Timer4Orderly
  <1>7. Settled(r) /\ r.active = k.active /\ Mild(k, r)
    BY <1>3, <1>6, Timer4Settled, Timer4Orderly
  <1>8. Settled(t) /\ t.active = k.active /\ Mild(k, t)
    BY Zenon, <1>4, <1>7, Timer4Settled, Timer4Orderly
  <1>9. vtimers(k, j) = t
    BY <1>1, <1>2, <1>3, <1>4 DEF vtimers
  <1>10. CASE k.active = NULL
    BY Zenon, <1>8, <1>9, <1>10 DEF timer_handler
  <1>11. CASE k.active \in Block
    <2>1. PICK u : u = requeue(t, k.active)
      BY Zenon
    <2>2. Touch(t, u, k.active) /\ Alive(t, u)
      BY Zenon, <1>8, <1>11, <2>1, TouchRequeue
    <2>3. Steady(k, k.active)
      <3>1. k.th[k.active].state = TS_RUNNING
        BY Zenon, <1>11, ActiveSlot
      <3> QED BY <3>1 DEF Steady, TS_RUNNING, TS_QUEUED, TS_WAITING
    <2>4. Mild(k, u)
      BY Zenon, <1>8, <2>2, <2>3, MildMore
    <2> QED BY <1>8, <1>9, <2>1, <2>4 DEF timer_handler
  <1>12. k.active \in Ptr
    BY Types DEF Settled, KInv
  <1> QED BY Zenon, <1>10, <1>11, <1>12, PtrCase

(* setstate with TF_DEAD on an idle thread b: a blocked reaper is queued   *)
(* with its id, or b is the last of the dead queue; only these two are     *)
(* touched, and only b dies.                                               *)
Died(p, r, b) ==
  IF p.reaper_tail = NULL THEN r.dead_head = b /\ Touch(p, r, b)
  ELSE /\ r.reaper_tail = NULL
       /\ r.th[p.reaper_tail].state = TS_QUEUED
       /\ r.th[p.reaper_tail].eax = p.th[b].id
       /\ \E q : Touch(p, q, p.reaper_tail) /\ Touch(q, r, b)

(* TF_DEAD is set: thread b is touched, and no other flag changes. *)
LEMMA MarkTouch ==
  ASSUME NEW k \in KernelData, NEW b \in Block
  PROVE  LET r == [k EXCEPT !.th[b].dead = TRUE]
         IN  /\ Touch(k, r, b) /\ SameBlocked(k, r) /\ SameStates(k, r)
             /\ r.dead_head = k.dead_head
             /\ \A x \in Block \ {b} : r.th[x].dead = k.th[x].dead
  <1>1. PICK r : r = [k EXCEPT !.th[b].dead = TRUE]
    BY Zenon
  <1>2. TRUE \in BOOLEAN
    OBVIOUS
  <1>3. Touch(k, r, b)
    BY Zenon, <1>1, TouchWrite
  <1>4. /\ OnlyDead(k, r) /\ r.dead_head = k.dead_head
        /\ \A x \in Block : r.th[x].dead = IF x = b THEN TRUE ELSE k.th[x].dead
    <2>1. Marked(k, b, TRUE, r)
      BY Zenon, <1>1, <1>2, MarkEffect
    <2> QED BY Zenon, <2>1 DEF Marked
  <1>5. \A x \in Block \ {b} : r.th[x].dead = k.th[x].dead
    BY Zenon, <1>4
  <1>6. SameBlocked(k, r) /\ SameStates(k, r)
    BY <1>4 DEF OnlyDead
  <1> QED BY Zenon, <1>1, <1>3, <1>4, <1>5, <1>6

(* A death takes b off no queue but the dead queue's end. *)
LEMMA DieTouch ==
  ASSUME NEW p, NEW b, NEW r, Settled(p), Idle(p, States(p), b),
         r = [dead_push(p, b) EXCEPT !.th[b].dead = TRUE]
  PROVE  Died(p, r, b) /\ \A x \in Block \ {b} : r.th[x].dead => p.th[x].dead
  <1> DEFINE w == p.reaper_tail
  <1>0. /\ p \in KernelData /\ b \in Block /\ DeadInv(p, States(p)) /\ BlockedInv(p, States(p))
        /\ ~p.th[b].dead /\ w # b /\ p.th[b].id \in Int /\ TRUE \in BOOLEAN
    BY Types DEF Settled, KInv, Idle, Tid
  <1>1. PICK q : q = dead_push(p, b)
    BY Zenon
  <1>2. ASSUME q \in KernelData
        PROVE  /\ Touch(q, r, b) /\ SameBlocked(q, r) /\ SameStates(q, r)
               /\ r.dead_head = q.dead_head
               /\ \A x \in Block \ {b} : r.th[x].dead = q.th[x].dead
    <2>1. r = [q EXCEPT !.th[b].dead = TRUE]
      BY Zenon, <1>1
    <2>2. q \in KernelData /\ b \in Block
      BY <1>0, <1>2
    <2>3. PICK s : s = [q EXCEPT !.th[b].dead = TRUE]
      BY Zenon
    <2>4. /\ Touch(q, s, b) /\ SameBlocked(q, s) /\ SameStates(q, s)
          /\ s.dead_head = q.dead_head
          /\ \A x \in Block \ {b} : s.th[x].dead = q.th[x].dead
      BY Zenon, <2>2, <2>3, MarkTouch
    <2>5. s = r
      BY Zenon, <2>1, <2>3
    <2> QED BY Zenon, <2>4, <2>5
  <1>3. CASE w = NULL
    <2>1. p.th[b].next_dead = NULL
      BY <1>0 DEF DeadInv
    <2>2. /\ OnlyDead(p, q) /\ q.dead_head = b
          /\ \A x \in Block : q.th[x].dead = p.th[x].dead
      BY <1>0, <1>1, <1>3, <2>1, DeadPushEffect
    <2>3. q \in KernelData /\ SameSched(p, q) /\ SameEvents(p, q) /\ SameStates(p, q)
      BY Zenon, <2>2 DEF OnlyDead
    <2>4. \A x \in Block : q.th[x].eax = p.th[x].eax
      BY <1>0, <1>1, <1>3 DEF dead_push, KernelData, ThreadStruct
    <2>5. \A x \in Block \ {b} : Same3(p, q, x)
      BY <2>3, <2>4 DEF Same3, SameEvents, SameStates
    <2>6. Touch(p, q, b)
      BY <2>3, <2>5, TouchField
    <2>7. Touch(p, r, b)
      BY Zenon, <1>2, <2>3, <2>6, TouchTrans
    <2> QED BY Zenon, <1>2, <1>3, <2>2, <2>3, <2>7 DEF Died
  <1>4. CASE w # NULL
    <2>1. w \in Block
      BY <1>0, <1>4, Types, PtrCase
    <2>2. p.th[w].next_dead = NULL
      BY <1>0, <1>4, <2>1 DEF DeadInv, BlockedInv
    <2>3. PICK u : u = [p EXCEPT !.reaper_head = NULL, !.reaper_tail = NULL]
      BY Zenon
    <2>4. /\ OnlyBlocked(p, u) /\ u.reaper_head = NULL /\ u.reaper_tail = NULL
          /\ u.debug_head = p.debug_head /\ u.debug_tail = p.debug_tail
      <3>1. NULL \in Ptr
        BY DEF Ptr
      <3> QED BY Zenon, <1>0, <2>3, <3>1, ReaperEffect
    <2>5. p.debug_head = p.debug_tail /\ p.debug_tail # w
      BY <1>0, <1>4 DEF BlockedInv
    <2>6. Settled(u)
      BY <2>4, <2>5, BlockedSettled
    <2>7. Off(u, w)
      BY Zenon, <1>4, <2>4, <2>5, <2>6, UnblockOff
    <2>8. q = notify(u, w, p.th[b].id)
      BY Zenon, <1>0, <1>1, <1>4, <2>2, <2>3 DEF dead_push
    <2>9. /\ Touch(u, q, w) /\ q.th[w].state = TS_QUEUED /\ q.th[w].eax = p.th[b].id
          /\ SameBlocked(u, q) /\ SameDead(u, q)
      BY <1>0, <2>7, <2>8, TouchNotify
    <2>10. q \in KernelData
      BY Zenon, <1>0, <2>7, <2>8, NotifyOff DEF Settled, KInv
    <2>11. Touch(p, u, w)
      BY <2>4, TouchNone DEF OnlyBlocked, SameSched
    <2>12. Touch(p, q, w)
      BY <2>9, <2>11, TouchTrans
    <2>13. Same3(q, r, w)
      BY Zenon, <1>0, <1>2, <2>1, <2>10 DEF Touch
    <2>14. r.th[w].state = TS_QUEUED /\ r.th[w].eax = p.th[b].id
      BY <2>9, <2>13 DEF Same3
    <2>15. r.reaper_tail = NULL
      BY Zenon, <1>2, <2>4, <2>9, <2>10 DEF SameBlocked
    <2>16. \A x \in Block \ {b} : r.th[x].dead = p.th[x].dead
      BY Zenon, <1>2, <2>4, <2>9, <2>10 DEF SameDead, OnlyBlocked
    <2>17. Died(p, r, b)
      BY Zenon, <1>2, <1>4, <2>10, <2>12, <2>14, <2>15 DEF Died
    <2> QED BY <2>16, <2>17
  <1> QED BY Zenon, <1>3, <1>4

(* setstate taken apart: it fails, or it writes the flag and maybe eax of  *)
(* its target b; if b is to die, it is idle first.                         *)
SetDead(k, b, p, q) ==
  /\ Settled(p) /\ Idle(p, States(p), b)
  /\ p = k \/ (b = k.active /\ p = suspend(k, b))
  /\ q = [dead_push(p, b) EXCEPT !.th[b].dead = TRUE]
SetForm(k, src, b, p, q, r) ==
  /\ b \in Block /\ k.th[b].state \in {TS_PAUSED, TS_RUNNING} /\ ~k.th[b].dead
  /\ b # k.reaper_tail
  /\ IF src.dead THEN SetDead(k, b, p, q) ELSE q = [k EXCEPT !.th[b].dead = FALSE]
  /\ r = q \/ r = ret(q, b, src.eax)

(* Every outcome of setstate has one of these forms. *)
LEMMA SetstateForm ==
  ASSUME NEW k, Settled(k), k.active \in Block, NEW id, NEW src \in Info,
         target_of(k, k.active, id) # NULL
           => /\ target_of(k, k.active, id) # k.reaper_tail
              /\ target_of(k, k.active, id) # k.debug_tail
              /\ ~k.th[target_of(k, k.active, id)].dead
  PROVE  LET h == kcall_setstate(k, k.active, id, src)
         IN  \/ \E v \in Int : h = ret(k, k.active, v)
             \/ \E b, p, q, r : SetForm(k, src, b, p, q, r) /\ h = ret(r, k.active, 0)
  <1> DEFINE a == k.active
             h == kcall_setstate(k, a, id, src)
  <1>0. TE_EXIST \in Int /\ TE_STATE \in Int /\ src.dead \in BOOLEAN
    BY DeathsAreFlags DEF TE_EXIST, TE_STATE, Info
  <1>1. PICK b : b = target_of(k, a, id)
    BY Zenon
  <1>2. b = NULL \/ (b \in Block /\ b # NULL)
    BY <1>1, TargetType, NullIsNoBlock
  <1>3. CASE b = NULL
    BY Zenon, <1>0, <1>1, <1>3 DEF kcall_setstate
  <1>4. CASE b \in Block /\ b # NULL /\ k.th[b].state \notin {TS_PAUSED, TS_RUNNING}
    <2>1. k.th[b].state \notin {TS_PAUSED, TS_PAUSEDW, TS_RUNNING}
      BY Zenon, <1>4, StateFacts
    <2>2. h = ret(k, a, TE_STATE)
      BY <1>1, <1>4, <2>1 DEF kcall_setstate
    <2> QED BY Zenon, <1>0, <2>2
  <1>5. CASE b \in Block /\ b # NULL /\ k.th[b].state \in {TS_PAUSED, TS_RUNNING}
    <2> DEFINE q1 == IF k.th[b].state = TS_RUNNING THEN suspend(k, b) ELSE k
               q2 == IF src.dead THEN dead_push(q1, b) ELSE k
    <2>1. PICK q : q = [q2 EXCEPT !.th[b].dead = src.dead]
      BY Zenon
    <2>2. PICK p : p = q1
      BY Zenon
    <2>3. IF src.dead THEN SetDead(k, b, p, q) ELSE q = [k EXCEPT !.th[b].dead = FALSE]
      <3>1. CASE src.dead
        <4>1. Settled(p) /\ Idle(p, States(p), b) /\ (p = k \/ (b = k.active /\ p = suspend(k, b)))
          <5>1. CASE k.th[b].state = TS_RUNNING
            <6>1. b = a
              BY Zenon, <1>5, <5>1, StateFacts
            <6> QED BY Zenon, <2>2, <5>1, <6>1, SuspendSettled
          <5>2. CASE k.th[b].state = TS_PAUSED
            <6>1. b # a
              BY <5>2, ActiveSlot DEF TS_PAUSED, TS_RUNNING
            <6>2. id \in Tid /\ b = k.table[id]
              BY Zenon, <1>1, <1>5, <6>1, TargetType
            <6>3. Idle(k, States(k), b)
              BY Zenon, <1>1, <1>5, <5>2, <6>2, PausedIdle
            <6> QED BY <2>2, <5>2, <6>3 DEF TS_PAUSED, TS_RUNNING
          <5> QED BY Zenon, <1>5, <5>1, <5>2
        <4>2. src.dead = TRUE
          BY <1>0, <3>1, Zenon
        <4> QED BY Zenon, <2>1, <2>2, <3>1, <4>1, <4>2 DEF SetDead
      <3>2. CASE ~src.dead
        <4>1. src.dead = FALSE
          BY <1>0, <3>2, Zenon
        <4> QED BY Zenon, <2>1, <3>2, <4>1
      <3> QED BY Zenon, <3>1, <3>2
    <2>4. PICK r : r = IF q.th[b].state # TS_RUNNING
                       THEN [q EXCEPT !.th[b].eax = src.eax] ELSE q
      BY Zenon
    <2>5. r = q \/ r = ret(q, b, src.eax)
      BY Zenon, <2>4 DEF ret
    <2>6. h = ret(r, a, 0)
      <3> DEFINE B  == target_of(k, a, id)
                 d1 == IF k.th[B].state = TS_RUNNING THEN suspend(k, B) ELSE k
                 d2 == IF src.dead THEN dead_push(d1, B) ELSE k
                 d3 == [d2 EXCEPT !.th[B].dead = src.dead]
                 d4 == IF d3.th[B].state # TS_RUNNING
                       THEN [d3 EXCEPT !.th[B].eax = src.eax] ELSE d3
                 ok == k.th[B].state \in {TS_PAUSED, TS_PAUSEDW, TS_RUNNING}
      <3>1. h = IF B = NULL THEN ret(k, a, TE_EXIST)
                ELSE IF ok THEN ret(d4, a, 0) ELSE ret(k, a, TE_STATE)
        BY Zenon DEF kcall_setstate
      <3>2. B = b /\ ok
        BY Zenon, <1>1, <1>5
      <3>3. d3 = q
        BY <2>1, <3>2
      <3> HIDE DEF d3, B, ok, h
      <3>4. d4 = r
        BY Zenon, <2>4, <3>2, <3>3
      <3> HIDE DEF d4
      <3> QED BY Zenon, <1>5, <3>1, <3>2, <3>4
    <2>7. SetForm(k, src, b, p, q, r)
      BY Zenon, <1>1, <1>5, <2>3, <2>5 DEF SetForm
    <2>8. \E b1, p1, q1_, r1 : SetForm(k, src, b1, p1, q1_, r1) /\ h = ret(r1, a, 0)
      BY Zenon, <2>6, <2>7
    <2> QED BY Zenon, <2>8
  <1> QED BY Zenon, <1>2, <1>3, <1>4, <1>5

(* setstate on a thread that is alive and not blocked. *)
LEMMA SetstateSettled ==
  ASSUME NEW k, Settled(k), k.active \in Block, NEW id, NEW src \in Info,
         target_of(k, k.active, id) # NULL
           => /\ target_of(k, k.active, id) # k.reaper_tail
              /\ target_of(k, k.active, id) # k.debug_tail
              /\ ~k.th[target_of(k, k.active, id)].dead
  PROVE  Settled(kcall_setstate(k, k.active, id, src))
  <1> DEFINE a == k.active
  <1>0. 0 \in Int /\ src.eax \in Int
    BY DEF Info
  <1>1. PICK h : h = kcall_setstate(k, a, id, src)
    BY Zenon
  <1>2. \/ \E v \in Int : h = ret(k, a, v)
        \/ \E b, p, q, r : SetForm(k, src, b, p, q, r) /\ h = ret(r, a, 0)
    BY Zenon, <1>1, SetstateForm
  <1>3. CASE \E v \in Int : h = ret(k, a, v)
    BY Zenon, <1>1, <1>3, RetSettled
  <1>4. CASE \E b, p, q, r : SetForm(k, src, b, p, q, r) /\ h = ret(r, a, 0)
    <2>1. PICK b, p, q, r : SetForm(k, src, b, p, q, r) /\ h = ret(r, a, 0)
      BY <1>4
    <2>2. b \in Block /\ ~k.th[b].dead
      BY <2>1 DEF SetForm
    <2>3. Settled(q)
      <3>1. CASE src.dead
        <4>1. SetDead(k, b, p, q)
          BY <2>1, <3>1 DEF SetForm
        <4>2. /\ Settled(p) /\ Idle(p, States(p), b)
              /\ q = [dead_push(p, b) EXCEPT !.th[b].dead = TRUE]
          BY <4>1 DEF SetDead
        <4> QED BY Zenon, <4>2, DieSettled
      <3>2. CASE ~src.dead
        BY <2>1, <2>2, <3>2, RewriteSettled DEF SetForm
      <3> QED BY <3>1, <3>2
    <2>4. Settled(r)
      <3>1. q \in KernelData
        BY Zenon, <2>3 DEF Settled, KInv
      <3>2. Settled(ret(q, b, src.eax))
        BY Zenon, <1>0, <2>2, <2>3, <3>1, RetKeeps
      <3> QED BY Zenon, <2>1, <2>3, <3>2 DEF SetForm
    <2>5. Settled(ret(r, a, 0))
      BY Zenon, <1>0, <2>4, RetKeeps DEF Settled, KInv
    <2> QED BY Zenon, <1>1, <2>1, <2>5
  <1> QED BY Zenon, <1>2, <1>3, <1>4

(* What becomes of a death: it is on the dead queue, or the reaper that    *)
(* was blocked is queued with the dead thread's id.                        *)
Delivered(k, h, x) ==
  IF k.reaper_tail = NULL THEN x \in Dead(h)
  ELSE /\ h.reaper_tail = NULL
       /\ h.th[k.reaper_tail].state = TS_QUEUED
       /\ h.th[k.reaper_tail].eax = k.th[x].id

(* setstate lets nobody overtake, wakes no waiter and delivers a death. *)
LEMMA SetstateOrderly ==
  ASSUME NEW k, Settled(k), k.active \in Block, NEW id, NEW src \in Info,
         target_of(k, k.active, id) # NULL
           => /\ target_of(k, k.active, id) # k.reaper_tail
              /\ target_of(k, k.active, id) # k.debug_tail
              /\ ~k.th[target_of(k, k.active, id)].dead
  PROVE  LET h == kcall_setstate(k, k.active, id, src)
         IN  /\ Orderly(k, h)
             /\ \A x \in Block : h.th[x].dead /\ ~k.th[x].dead => Delivered(k, h, x)
  <1> DEFINE a == k.active
             w == k.reaper_tail
  <1>0. /\ k \in KernelData /\ 0 \in Int /\ src.eax \in Int
        /\ w # NULL => w \in Block /\ k.th[w].state = TS_PAUSED
        /\ k.th[a].state = TS_RUNNING
    <2>1. k \in KernelData /\ BlockedInv(k, States(k))
      BY Zenon DEF Settled, KInv
    <2>2. w # NULL => w \in Block
      BY Zenon, <2>1, Types, PtrCase
    <2> QED BY <2>1, <2>2, ActiveSlot, StatesType DEF BlockedInv, Info
  <1>1. PICK h : h = kcall_setstate(k, a, id, src)
    BY Zenon
  <1>2. \/ \E v \in Int : h = ret(k, a, v)
        \/ \E b, p, q, r : SetForm(k, src, b, p, q, r) /\ h = ret(r, a, 0)
    BY <1>1, SetstateForm
  <1>3. Settled(h)
    BY Zenon, <1>1, SetstateSettled
  <1>4. CASE \E v \in Int : h = ret(k, a, v)
    <2>1. Mild(k, h)
      BY Zenon, <1>4, RetMild
    <2> QED BY Zenon, <1>1, <2>1 DEF Mild, Alive
  <1>5. CASE \E b, p, q, r : SetForm(k, src, b, p, q, r) /\ h = ret(r, a, 0)
    <2>1. PICK b, p, q, r : SetForm(k, src, b, p, q, r) /\ h = ret(r, a, 0)
      BY <1>5
    <2>2. /\ b \in Block /\ ~k.th[b].dead /\ b # w
          /\ k.th[b].state \in {TS_PAUSED, TS_RUNNING}
      BY Zenon, <2>1 DEF SetForm
    <2>3. Steady(k, a) /\ Steady(k, b) /\ (w # NULL => Steady(k, w))
      BY <1>0, <2>2 DEF Steady, TS_PAUSED, TS_RUNNING, TS_QUEUED, TS_WAITING
    <2>4. ASSUME q \in KernelData
          PROVE  /\ Touch(q, r, b) /\ Touch(r, h, a) /\ Alive(q, h)
                 /\ SameBlocked(q, h) /\ SameDead(q, h)
      <3>1. /\ r \in KernelData /\ Touch(q, r, b) /\ Alive(q, r)
            /\ SameBlocked(q, r) /\ SameDead(q, r)
        <4>1. CASE r = q
          BY Zenon, <2>4, <4>1, TouchNone, OrderlySelf DEF SameBlocked, SameDead
        <4>2. CASE r = ret(q, b, src.eax)
          BY Zenon, <1>0, <2>2, <2>4, <4>2, TouchRet, RetKeeps DEF SameQueues
        <4> QED BY Zenon, <2>1, <4>1, <4>2 DEF SetForm
      <3>2. /\ Touch(r, h, a) /\ Alive(r, h) /\ SameBlocked(r, h) /\ SameDead(r, h)
        BY Zenon, <1>0, <2>1, <3>1, TouchRet, RetKeeps DEF SameQueues
      <3>3. SameBlocked(q, h) /\ SameDead(q, h)
        BY Zenon, <3>1, <3>2 DEF SameBlocked, SameDead
      <3> QED BY <3>1, <3>2, <3>3, AliveTrans
    <2>5. CASE ~src.dead
      <3>1. q = [k EXCEPT !.th[b].dead = FALSE]
        BY <2>1, <2>5 DEF SetForm
      <3>2. Touch(k, q, b)
        BY Zenon, <1>0, <2>2, <3>1, TouchWrite
      <3>3. q \in KernelData /\ \A x \in Block : q.th[x].dead = IF x = b THEN FALSE ELSE k.th[x].dead
        <4>1. FALSE \in BOOLEAN
          BY Zenon
        <4>2. Marked(k, b, FALSE, q)
          BY Zenon, <1>0, <2>2, <3>1, <4>1, MarkEffect
        <4> QED BY Zenon, <4>2 DEF Marked, OnlyDead
      <3>4. Orderly(k, q)
        BY Zenon, <2>3, <3>2, OrderlySelf, OrderlySteady
      <3>5. Orderly(k, r)
        BY Zenon, <2>3, <2>4, <3>3, <3>4, OrderlySteady
      <3>6. Orderly(k, h)
        BY <2>3, <2>4, <3>3, <3>5, OrderlySteady
      <3>7. \A x \in Block : h.th[x].dead => k.th[x].dead
        BY Zenon, <2>4, <3>3 DEF Alive
      <3> QED BY Zenon, <1>1, <3>6, <3>7
    <2>6. CASE src.dead
      <3>1. SetDead(k, b, p, q)
        BY <2>1, <2>6 DEF SetForm
      <3>2. Settled(p) /\ Idle(p, States(p), b) /\ (p = k \/ (b = a /\ p = suspend(k, a)))
        BY Zenon, <3>1 DEF SetDead
      <3>3. Touch(k, p, b) /\ Alive(k, p) /\ SameBlocked(k, p) /\ SameTable(k, p)
        <4>1. CASE p = k
          BY Zenon, <4>1, TouchNone, OrderlySelf DEF SameBlocked, SameTable
        <4>2. CASE b = a /\ p = suspend(k, a)
          BY Zenon, <4>2, TouchSuspend, SuspendSettled DEF SameQueues
        <4> QED BY Zenon, <3>2, <4>1, <4>2
      <3>4. p.reaper_tail = w /\ p.th[b].id = k.th[b].id
        BY <2>2, <3>3 DEF SameBlocked, SameTable
      <3>5. Died(p, q, b) /\ \A x \in Block \ {b} : q.th[x].dead => p.th[x].dead
        BY Zenon, <3>1, <3>2, DieTouch DEF SetDead
      <3>6. q \in KernelData
        BY Zenon, <3>1, <3>2, DieSettled DEF SetDead, Settled, KInv
      <3>7. Orderly(k, p)
        BY Zenon, <2>3, <3>3, OrderlySelf, OrderlySteady
      <3>8. Orderly(k, q)
        <4>1. CASE w = NULL
          <5>1. Touch(p, q, b)
            BY Zenon, <3>4, <3>5, <4>1 DEF Died
          <5> QED BY Zenon, <2>3, <3>7, <5>1, OrderlySteady
        <4>2. CASE w # NULL
          <5>1. PICK u : Touch(p, u, w) /\ Touch(u, q, b)
            BY Zenon, <3>4, <3>5, <4>2 DEF Died
          <5>2. Orderly(k, u)
            BY Zenon, <2>3, <3>7, <4>2, <5>1, OrderlySteady
          <5> QED BY Zenon, <2>3, <5>1, <5>2, OrderlySteady
        <4> QED BY Zenon, <4>1, <4>2
      <3>9. Orderly(k, r)
        BY Zenon, <2>3, <2>4, <3>6, <3>8, OrderlySteady
      <3>10. Orderly(k, h)
        BY Zenon, <2>3, <2>4, <3>6, <3>9, OrderlySteady
      <3>11. ASSUME NEW x \in Block, h.th[x].dead, ~k.th[x].dead PROVE Delivered(k, h, x)
        <4>1. x = b
          BY Zenon, <2>4, <3>3, <3>5, <3>6, <3>11 DEF Alive
        <4>2. CASE w = NULL
          <5>1. h.dead_head = b
            BY Zenon, <2>4, <3>4, <3>5, <3>6, <4>2 DEF Died, SameDead
          <5>2. DeadInv(h, States(h)) /\ b # NULL
            BY Zenon, <1>3, <2>2, NullIsNoBlock DEF Settled, KInv
          <5>3. b \in Dead(h)
            BY Zenon, <5>1, <5>2 DEF DeadInv, ListInv
          <5> QED BY Zenon, <4>1, <4>2, <5>3 DEF Delivered
        <4>3. CASE w # NULL
          <5>1. /\ q.reaper_tail = NULL /\ q.th[w].state = TS_QUEUED
                /\ q.th[w].eax = k.th[b].id
            BY Zenon, <3>4, <3>5, <4>3 DEF Died
          <5>2. h.reaper_tail = NULL
            BY Zenon, <2>4, <3>6, <5>1 DEF SameBlocked
          <5>3. w \in Block /\ w # b /\ w # a
            BY <1>0, <2>2, <4>3 DEF TS_PAUSED, TS_RUNNING
          <5>4. Same3(q, r, w) /\ Same3(r, h, w)
            BY <2>4, <3>6, <5>3 DEF Touch
          <5> QED BY Zenon, <4>1, <4>3, <5>1, <5>2, <5>4 DEF Delivered, Same3
        <4> QED BY Zenon, <4>2, <4>3
      <3> QED BY <1>1, <3>10, <3>11
    <2> QED BY <2>5, <2>6
  <1> QED BY Zenon, <1>2, <1>4, <1>5

=============================================================================
