---------------------------- MODULE SpacesProofs ----------------------------
(***************************************************************************)
(* The address spaces of Spaces keep their invariant: the calls at boot,   *)
(* then one lemma per action, then the theorems.                           *)
(***************************************************************************)
EXTENDS Spaces, PagingProofs

(* Time limits for a leaf that names no prover: the provers in their       *)
(* default order, with time to spare.                                      *)
USE SMTT(30), ZenonT(30)

(* pctx_free of the space d of context c. *)
Frees(m, c, d, r) ==
  /\ c \in Pctx \ {0} /\ d = m.pctx_table[c] /\ d # 0 /\ ~Half(m, d)
  /\ r = pctx_free(m, c)

(* Context c has no space, and the others have theirs. *)
Freed(m, h, a, c, r) ==
  /\ Owned(r, h, a) /\ Kept(m, r) /\ r.panicked = m.panicked
  /\ r.pctx_table[c] = 0 /\ \A e \in Pctx \ {c} : r.pctx_table[e] = m.pctx_table[e]

(* pctx_free, of a space without absent pages: its frames are free again.  *)
LEMMA PctxFree ==
  ASSUME NEW m, NEW h, NEW a, NEW c, NEW d, NEW r,
         Owned(m, h, a), m.cr3 \in Live(m), Frees(m, c, d, r)
  PROVE  Freed(m, h, a, c, r)
  <1>0. /\ c \in Pctx \ {0} /\ d = m.pctx_table[c] /\ d # 0 /\ ~Half(m, d)
        /\ r = pctx_free(m, c)
    BY Zenon DEF Frees
  <1> USE <1>0
  <1>1. /\ m \in MemoryData /\ m.dir \in [Frame -> [Seg -> Frame]]
        /\ m.tbl \in [Frame -> [Slot -> Entry]] /\ m.pctx_table \in [Pctx -> Frame]
        /\ d \in Live(m) /\ d \in Frame /\ m.dir[d][PGE] = d /\ d # init_kmap
        /\ cmap(m) = m.cr3 /\ m.cr3 \in Frame /\ m.free \subseteq Ram /\ c \in Pctx
    <2>1. m \in MemoryData /\ d # init_kmap
      BY DEF Owned, MemInv, MemShape
    <2>2. d \in Live(m)
      BY LiveAre
    <2> QED BY Zenon, <2>1, <2>2, MemTypes, CurrentMap DEF Owned, MemInv, MemShape, Windows
  <1>2. PICK x : x = space_exmap(m, d)
    BY Zenon
  <1> DEFINE D == [m.dir EXCEPT ![m.cr3] = [@ EXCEPT ![TMP] = d]]
  <1>3. /\ x \in MemoryData /\ x.dir = D /\ x.tbl = m.tbl /\ x.pctx_table = m.pctx_table
        /\ x.cr3 = m.cr3 /\ x.active_pctx = m.active_pctx /\ x.free = m.free
        /\ x.pool = m.pool /\ x.panicked = m.panicked
    <2>1. D \in [Frame -> [Seg -> Frame]]
      BY Zenon, <1>1, Layout
    <2>2. x = [m EXCEPT !.dir = D]
      BY <1>1, <1>2 DEF space_exmap
    <2> HIDE DEF D
    <2> QED BY Zenon, <1>1, <2>1, <2>2 DEF MemoryData
  <1>4. /\ x.dir[m.cr3][TMP] = d
        /\ \A e \in Frame, s \in Seg \ {TMP} : x.dir[e][s] = m.dir[e][s]
    <2>1. x.dir[m.cr3] = [m.dir[m.cr3] EXCEPT ![TMP] = d] /\ m.dir[m.cr3] \in [Seg -> Frame]
      BY Zenon, <1>1, <1>3
    <2>2. \A e \in Frame \ {m.cr3} : x.dir[e] = m.dir[e]
      BY <1>1, <1>3
    <2>3. x.dir[m.cr3][TMP] = d /\ \A s \in Seg \ {TMP} : x.dir[m.cr3][s] = m.dir[m.cr3][s]
      BY <2>1, Layout
    <2> QED BY <2>2, <2>3
  <1> HIDE DEF D
  <1>5. exmap(x) = d
    <2>1. m.dir[m.cr3][PGE] = m.cr3
      BY <1>1 DEF cmap
    <2>2. cmap(x) = m.cr3
      <3>1. x.dir[m.cr3][PGE] = m.cr3
        BY Zenon, <1>1, <1>4, <2>1, Layout
      <3> QED BY Zenon, <1>3, <3>1 DEF cmap
    <2>3. x.dir[d][PGE] = d
      BY Zenon, <1>1, <1>4, Layout
    <2> QED BY <1>4, <2>2, <2>3 DEF exmap
  <1> DEFINE tabs  == {x.dir[d][s] : s \in UserSeg} \ {0}
             pages == UNION {{x.tbl[t][s].frame : s \in {n \in Slot : x.tbl[t][n].pres}} :
                               t \in tabs}
             F == x.free \cup ((pages \cup tabs \cup {d}) \cap Ram)
             T == [f \in Frame |-> IF f \in tabs THEN EmptyTbl ELSE x.tbl[f]]
  <1>6. r = [x EXCEPT !.free = F, !.tbl = T, !.dir[d] = EmptyDir, !.pctx_table[c] = 0]
    <2>1. ~refused(m, c)
      BY SomeContexts DEF refused, Pctx
    <2>2. space_free(m, d) = [x EXCEPT !.free = F, !.tbl = T, !.dir[d] = EmptyDir]
      BY <1>2, <1>5 DEF space_free
    <2> HIDE DEF F, T
    <2> QED BY <2>1, <2>2 DEF pctx_free
  <1>7. tabs = UserTables(m, d)
    <2>1. \A s \in UserSeg : x.dir[d][s] = m.dir[d][s]
      BY Zenon, <1>1, <1>4, Layout
    <2> QED BY <2>1 DEF UserTables
  <1>8. pages \cap Ram = UserPages(m, d) \cap Ram
    <2>1. ASSUME NEW f \in pages \cap Ram PROVE f \in UserPages(m, d)
      <3>1. PICK t \in tabs, s \in Slot : f = m.tbl[t][s].frame
        BY <1>3
      <3>2. f # 0
        BY FramesDistinct
      <3> HIDE DEF tabs, pages
      <3> QED BY <1>7, <3>1, <3>2, UserPagesAre
    <2>2. ASSUME NEW f \in UserPages(m, d) PROVE f \in pages
      <3>1. PICK t \in UserTables(m, d), s \in Slot : m.tbl[t][s].frame = f
        BY UserPagesAre
      <3>2. f # 0 /\ t # 0 /\ \E q \in UserSeg : m.dir[d][q] = t
        BY UserPagesAre
      <3>3. m.tbl[t][s].pres
        BY Zenon, <3>1, <3>2 DEF Half
      <3> QED BY <1>3, <1>7, <3>1, <3>3
    <2> QED BY <2>1, <2>2
  <1>9. T \in [Frame -> [Slot -> Entry]] /\ F \in SUBSET Ram /\ EmptyDir \in [Seg -> Frame]
    <2>1. EmptyTbl \in [Slot -> Entry] /\ EmptyDir \in [Seg -> Frame]
      BY DEF EmptyTbl, NoEntry, Entry, Frame, EmptyDir
    <2>2. T \in [Frame -> [Slot -> Entry]]
      <3> HIDE DEF tabs
      <3> QED BY <1>1, <1>3, <2>1
    <2> HIDE DEF tabs, pages, T
    <2> QED BY Zenon, <1>1, <1>3, <2>1, <2>2
  <1>10. /\ T = [f \in Frame |-> IF f \in UserTables(m, d) THEN EmptyTbl ELSE m.tbl[f]]
         /\ F = m.free \cup ((UserPages(m, d) \cup UserTables(m, d) \cup {d}) \cap Ram)
    <2> HIDE DEF tabs, pages
    <2> QED BY <1>3, <1>7, <1>8
  <1> HIDE DEF T, F, tabs, pages
  <1> DEFINE G == [x.dir EXCEPT ![d] = EmptyDir]
             C == [m.pctx_table EXCEPT ![c] = 0]
  <1>11. /\ r \in MemoryData /\ r.dir = G /\ r.tbl = T /\ r.pctx_table = C /\ r.free = F
         /\ r.pool = m.pool /\ r.cr3 = m.cr3 /\ r.active_pctx = m.active_pctx
         /\ r.panicked = m.panicked
    <2>1. x.dir \in [Frame -> [Seg -> Frame]]
      BY <1>3, MemTypes
    <2>2. G \in [Frame -> [Seg -> Frame]] /\ C \in [Pctx -> Frame]
      BY Zenon, <1>1, <1>9, <2>1 DEF Frame
    <2>3. r = [x EXCEPT !.free = F, !.tbl = T, !.dir = G, !.pctx_table = C]
      BY Zenon, <1>3, <1>6
    <2> HIDE DEF G, C
    <2>4. /\ r \in MemoryData /\ r.dir = G /\ r.tbl = T /\ r.pctx_table = C /\ r.free = F
          /\ r.pool = x.pool /\ r.cr3 = x.cr3 /\ r.active_pctx = x.active_pctx
          /\ r.panicked = x.panicked
      BY Zenon, <1>3, <1>9, <2>2, <2>3 DEF MemoryData
    <2> QED BY <1>3, <2>4
  <1>12. \A e \in Frame \ {d}, s \in Seg \ {TMP} : r.dir[e][s] = m.dir[e][s]
    <2>1. x.dir \in [Frame -> [Seg -> Frame]]
      BY <1>3, MemTypes
    <2>2. \A e \in Frame \ {d} : r.dir[e] = x.dir[e]
      BY Zenon, <1>1, <1>11, <2>1
    <2> QED BY <1>4, <2>2
  <1> HIDE DEF G
  <1>13. FreesSpace(m, r, c, d)
    <2>1. r.pctx_table = [m.pctx_table EXCEPT ![c] = 0]
      BY <1>11
    <2> QED BY <1>10, <1>11, <1>12, <2>1 DEF FreesSpace
  <1>14. Owned(r, h, a)
    BY Zenon, <1>1, <1>13, FreeSpace
  <1>15. Kept(m, r)
    <2>1. \A s \in SharedSeg : r.dir[init_kmap][s] = m.dir[init_kmap][s]
      BY Zenon, <1>1, <1>12, Layout DEF Frame
    <2> QED BY <1>11, <2>1 DEF Kept
  <1> QED BY Zenon, <1>1, <1>11, <1>14, <1>15 DEF Freed

(* page_touch of the window, which boot calls for every segment of the     *)
(* kernel: the frame comes from the pool, and stays out of use.            *)
LEMMA TouchWindow ==
  ASSUME NEW m, Owned(m, {}, {}), m.cr3 \in Live(m), NEW t, t = page_touch(m, TMP), ~t.panicked
  PROVE  Owned(t, {}, {}) /\ Kept(m, t) /\ t.pctx_table = m.pctx_table
  <1>1. cmap(m) = m.cr3 /\ m.cr3 \in Frame /\ TMP \in Seg
    BY CurrentMap, Layout
  <1>2. CASE ctbl(m, TMP) # 0
    BY <1>2 DEF page_touch, Kept
  <1>3. CASE ctbl(m, TMP) = 0
    <2>1. PICK u, f : u = frame_new(m).m /\ f = frame_new(m).ret
      BY Zenon
    <2>2. t = [u EXCEPT !.dir[m.cr3][TMP] = f, !.tbl[f] = EmptyTbl]
      BY <1>1, <1>3, <2>1 DEF page_touch
    <2>3. ~u.panicked
      BY <2>2
    <2>4. /\ Owned(u, {f}, {}) /\ f \in Frame /\ u.dir = m.dir /\ u.tbl = m.tbl
          /\ u.pctx_table = m.pctx_table /\ u.cr3 = m.cr3 /\ u.active_pctx = m.active_pctx
      <3>1. {} \cup {f} = {f}
        OBVIOUS
      <3>2. Takes(m, u, f)
        BY Zenon, <2>1, <2>3 DEF Takes
      <3>3. /\ Owned(u, {} \cup {f}, {}) /\ f \in Frame /\ u.dir = m.dir /\ u.tbl = m.tbl
            /\ u.pctx_table = m.pctx_table /\ u.cr3 = m.cr3 /\ u.active_pctx = m.active_pctx
        <4>1. Given(m, {}, {}, u, f)
          BY Zenon, <3>2, FrameNew
        <4> QED BY Zenon, <4>1 DEF Given
      <3> QED BY Zenon, <3>1, <3>3
    <2>5. /\ u \in MemoryData /\ f \in Pool /\ f \notin Tables(u) /\ u.free = {}
          /\ Taken(u) \cap (u.free \cup u.pool \cup {}) = {}
      BY <2>4, MemTypes DEF Owned, MemInv, MemShape, OneUseOf, Taken
    <2>6. /\ u.dir \in [Frame -> [Seg -> Frame]] /\ u.tbl \in [Frame -> [Slot -> Entry]]
          /\ EmptyTbl \in [Slot -> Entry] /\ Tables(u) \subseteq Frame
      BY Zenon, <2>5, MemTypes DEF EmptyTbl, NoEntry, Entry, Frame
    <2> DEFINE D == [u.dir EXCEPT ![m.cr3] = [@ EXCEPT ![TMP] = f]]
               T == [u.tbl EXCEPT ![f] = EmptyTbl]
    <2>7. D \in [Frame -> [Seg -> Frame]] /\ T \in [Frame -> [Slot -> Entry]]
      BY <1>1, <2>4, <2>6
    <2>8. t = [u EXCEPT !.dir = D, !.tbl = T]
      BY <2>2
    <2> HIDE DEF D, T
    <2>9. /\ t \in MemoryData /\ t.dir = D /\ t.tbl = T /\ t.cr3 = u.cr3
          /\ t.pctx_table = u.pctx_table /\ t.free = u.free /\ t.pool = u.pool
          /\ t.active_pctx = u.active_pctx
      BY Zenon, <2>5, <2>7, <2>8 DEF MemoryData
    <2>10. SameButWindow(u, t)
      <3>1. \A e \in Frame \ {m.cr3} : t.dir[e] = u.dir[e]
        BY <2>6, <2>9 DEF D
      <3>2. t.dir[m.cr3] = [u.dir[m.cr3] EXCEPT ![TMP] = f] /\ u.dir[m.cr3] \in [Seg -> Frame]
        BY <1>1, <2>6, <2>9 DEF D
      <3>3. \A s \in Seg \ {TMP} : t.dir[m.cr3][s] = u.dir[m.cr3][s]
        BY <3>2
      <3> QED BY <3>1, <3>3 DEF SameButWindow
    <2>11. \A x \in Tables(u) : t.tbl[x] = u.tbl[x]
      BY <2>5, <2>6, <2>9 DEF T
    <2>12. Owned(t, {f}, {})
      BY <2>4, <2>9, <2>10, <2>11, MoveWindow
    <2>13. Owned(t, {}, {})
      <3>1. Taken(t) \cap (t.free \cup t.pool \cup {}) = {} /\ (t.free \cup {}) \cap Ram \subseteq {}
        BY <2>5, <2>9, <2>12 DEF Owned, MemInv, MemShape, OneUseOf
      <3> QED BY <2>9, <2>12, <3>1, Exchange
    <2>14. Kept(m, t)
      <3>1. \A s \in SharedSeg : t.dir[init_kmap][s] = m.dir[init_kmap][s]
        BY <2>4, <2>10, Layout DEF SameButWindow, Frame
      <3> QED BY <2>4, <2>9, <3>1 DEF Kept
    <2> QED BY <2>4, <2>9, <2>13, <2>14
  <1> QED BY <1>2, <1>3

(* heap_valloc and thread_alloc: the kernel's page tables are there, and   *)
(* the pages they ask for are absent.                                      *)
LEMMA NewPanics ==
  ASSUME NEW m, NEW s, NEW n, m.panicked
  PROVE  page_new(m, <<s, n>>).panicked
  <1>1. PICK u, e : u = frame_new(m).m /\ e = [frame |-> frame_new(m).ret, pres |-> TRUE]
    BY Zenon
  <1>2. page_new(m, <<s, n>>) = page_set(u, <<s, n>>, e)
    BY <1>1 DEF page_new
  <1>3. u.panicked
    BY <1>1 DEF frame_new
  <1>4. page_touch(u, s).panicked
    BY <1>3 DEF page_touch, frame_new
  <1>5. page_set(u, <<s, n>>, e).panicked = page_touch(u, s).panicked
    BY DEF page_set
  <1> QED BY Zenon, <1>2, <1>4, <1>5

Grows(m, P) == P = {} \/ \E p \in HeapPage : P = {p} /\ ~page_get(m, p).pres

(* heap_valloc: pages of the kernel's heap are mapped in tables that all   *)
(* spaces share, so that every space sees them.                            *)
LEMMA HeapValloc ==
  ASSUME NEW m, NEW h, NEW a, Owned(m, h, a), m.cr3 \in Live(m), TablesMade(m, Touches),
         NEW P, Grows(m, P), NEW r, r = heap_valloc(m, P), ~r.panicked
  PROVE  /\ Owned(r, h, a) /\ Kept(m, r) /\ r.pctx_table = m.pctx_table
         /\ \A Q : Grows(m, Q) => Grows(r, Q \ P)
  <1>1. CASE P = {}
    <2>1. r = m /\ \A Q : Q \ P = Q
      BY <1>1 DEF heap_valloc
    <2> QED BY <2>1 DEF Kept
  <1>2. CASE P # {}
    <2>1. PICK p \in HeapPage : P = {p} /\ ~page_get(m, p).pres
      BY <1>2 DEF Grows
    <2>2. PICK s \in (KERNEL + 1)..(TMP - 1), n \in Slot : p = <<s, n>>
      BY PagesPlaced
    <2>3. r = page_new(m, <<s, n>>)
      BY <2>1, <2>2 DEF heap_valloc
    <2>4. s \in SharedSeg /\ m.dir[m.cr3][s] # 0
      <3>1. s \in SharedSeg /\ s - KERNEL < Touches /\ s \in KERNEL..(TMP - 1)
        BY LayoutInOrder DEF SharedSeg, Touches, KERNEL_SIZE, PGE
      <3>2. m.dir[m.cr3][s] = m.dir[init_kmap][s]
        BY <3>1 DEF Owned, MemInv, MemShape, TablesShared
      <3> QED BY <3>1, <3>2 DEF TablesMade
    <2>5. Touchable(m, s)
      BY <2>4 DEF Touchable
    <2>6. /\ Owned(r, h, a) /\ Kept(m, r) /\ r.pctx_table = m.pctx_table
          /\ SameElsewhere(m, r, s, n)
      BY <2>1, <2>2, <2>3, <2>4, <2>5, PageNew
    <2>7. ASSUME NEW Q, Grows(m, Q) PROVE Grows(r, Q \ P)
      <3>1. CASE Q \ P = {}
        BY <3>1 DEF Grows
      <3>2. CASE Q \ P # {}
        <4>1. PICK q \in HeapPage : Q = {q} /\ ~page_get(m, q).pres
          BY <2>7, <3>2 DEF Grows
        <4>2. PICK x \in (KERNEL + 1)..(TMP - 1), j \in Slot : q = <<x, j>>
          BY PagesPlaced
        <4>3. x \in UserSeg \cup SharedSeg /\ (x # s \/ j # n)
          <5>1. x \in SharedSeg
            BY LayoutInOrder DEF SharedSeg
          <5> QED BY <2>1, <2>2, <3>2, <4>1, <4>2, <5>1
        <4>4. page_get(r, q) = page_get(m, q)
          BY <2>6, <4>2, <4>3 DEF SameElsewhere
        <4>5. Q \ P = {q}
          BY <2>1, <3>2, <4>1
        <4> QED BY <4>1, <4>4, <4>5 DEF Grows
      <3> QED BY <3>1, <3>2
    <2> QED BY <2>6, <2>7
  <1> QED BY <1>1, <1>2

(* thread_alloc, with a frame for each page that the heap grows by. *)
Allocs(m, P, Q, r) ==
  Grows(m, P) /\ Grows(m, Q) /\ r = thread_alloc(m, P, Q) /\ ~r.panicked

(* thread_alloc: the heap grows for the struct and for the FPU area. *)
LEMMA ThreadAlloc ==
  ASSUME NEW m, NEW h, NEW a, NEW P, NEW Q, NEW r,
         Owned(m, h, a), m.cr3 \in Live(m), TablesMade(m, Touches), Allocs(m, P, Q, r)
  PROVE  Owned(r, h, a) /\ Kept(m, r) /\ r.pctx_table = m.pctx_table
  <1>0. Grows(m, P) /\ Grows(m, Q) /\ r = thread_alloc(m, P, Q) /\ ~r.panicked
    BY Zenon DEF Allocs
  <1> USE <1>0
  <1>1. PICK x : x = heap_valloc(m, P)
    BY Zenon
  <1>2. r = heap_valloc(x, Q \ P)
    BY <1>1 DEF thread_alloc
  <1>3. ~x.panicked
    <2>1. SUFFICES ASSUME x.panicked PROVE heap_valloc(x, Q \ P).panicked
      BY <1>2
    <2>2. CASE Q \ P = {}
      BY <2>1, <2>2 DEF heap_valloc
    <2>3. CASE Q \ P # {}
      <3>1. PICK q \in HeapPage : Q \ P = {q}
        BY <2>3 DEF Grows
      <3>2. PICK s \in (KERNEL + 1)..(TMP - 1), n \in Slot : q = <<s, n>>
        BY PagesPlaced
      <3>3. heap_valloc(x, Q \ P) = page_new(x, <<s, n>>)
        BY <3>1, <3>2 DEF heap_valloc
      <3> QED BY <2>1, <3>3, NewPanics
    <2> QED BY <2>2, <2>3
  <1>4. /\ Owned(x, h, a) /\ Kept(m, x) /\ x.pctx_table = m.pctx_table /\ Grows(x, Q \ P)
    BY <1>1, <1>3, HeapValloc
  <1>5. x.cr3 \in Live(x) /\ TablesMade(x, Touches)
    BY <1>4, Layout DEF Kept, Live, TablesMade
  <1>6. Owned(r, h, a) /\ Kept(x, r) /\ r.pctx_table = x.pctx_table
    BY <1>2, <1>4, <1>5, HeapValloc
  <1> QED BY <1>4, <1>6 DEF Kept

-----------------------------------------------------------------------------
(* The actions. *)

(* A panic leaves everything as it was before the call. *)
LEMMA Panic ==
  ASSUME NEW m, NEW h, NEW a, NEW b, MemInv(m, h, a), a \subseteq b, b \subseteq Ram,
         NEW r, r = [m EXCEPT !.panicked = TRUE]
  PROVE  /\ MemInv(r, h, b) /\ r.panicked /\ r.dir = m.dir /\ r.pctx_table = m.pctx_table
         /\ r.cr3 = m.cr3 /\ r.active_pctx = m.active_pctx
  <1>1. m \in MemoryData
    BY DEF MemInv, MemShape
  <1>2. /\ r \in MemoryData /\ r.panicked /\ r.dir = m.dir /\ r.pctx_table = m.pctx_table
        /\ r.cr3 = m.cr3 /\ r.active_pctx = m.active_pctx
        /\ r.tbl = m.tbl /\ r.free = m.free /\ r.pool = m.pool
    BY Zenon, <1>1 DEF MemoryData
  <1>3. Live(r) = Live(m) /\ Tables(r) = Tables(m) /\ Mapped(r) = Mapped(m) /\ Taken(r) = Taken(m)
    BY <1>2 DEF Live, Tables, Mapped, Taken
  <1>4. OneSpace(r) /\ OneTable(r) /\ OnePage(r)
    <2>1. OneSpace(m) /\ OneTable(m) /\ OnePage(m)
      BY DEF MemInv, MemShape, OneUseOf
    <2>2. OneSpace(r)
      BY <1>2, <2>1 DEF OneSpace
    <2>3. OneTable(r)
      BY <1>2, <1>3, <2>1 DEF OneTable
    <2>4. OnePage(r)
      BY <1>2, <1>3, <2>1 DEF OnePage
    <2> QED BY <2>2, <2>3, <2>4
  <1>5. OneUseOf(r, h)
    BY Zenon, <1>2, <1>3, <1>4 DEF MemInv, MemShape, OneUseOf
  <1>6. Windows(r) /\ TablesShared(r) /\ NoneHalf(r)
    <2>1. Windows(m) /\ TablesShared(m) /\ NoneHalf(m)
      BY DEF MemInv, MemShape
    <2>2. Windows(r)
      BY <1>2, <1>3, <2>1 DEF Windows
    <2>3. TablesShared(r)
      <3>1. r.dir = m.dir /\ Live(r) = Live(m)
        BY Zenon, <1>2, <1>3
      <3> QED BY <2>1, <3>1 DEF TablesShared
    <2>4. NoneHalf(r)
      <3>1. r.dir = m.dir /\ r.tbl = m.tbl
        BY Zenon, <1>2
      <3> QED BY <2>1, <3>1 DEF NoneHalf
    <2> QED BY Zenon, <2>2, <2>3, <2>4
  <1> QED BY Zenon, <1>2, <1>3, <1>5, <1>6 DEF MemInv, MemShape

(* The loaded space is in use, and boot has only the first one. *)
LEMMA Loaded ==
  ASSUME SpacesInv
  PROVE  /\ mem.cr3 \in Live(mem) /\ mem.active_pctx \in Pctx /\ mem \in MemoryData
         /\ ~up => mem.cr3 = init_kmap /\ Live(mem) = {init_kmap}
  <1>1. mem \in MemoryData /\ mem.active_pctx \in Pctx /\ init_kmap # 0
    BY MemTypes, FramesDistinct DEF SpacesInv, MemInv, MemShape
  <1>2. /\ mem.active_pctx = 0 => mem.cr3 = init_kmap
        /\ mem.active_pctx # 0 => mem.cr3 = mem.pctx_table[mem.active_pctx] /\ mem.cr3 # 0
    BY DEF SpacesInv, ContextInv, ContextOf
  <1>3. ~up => \A c \in Pctx : mem.pctx_table[c] = 0
    BY DEF SpacesInv, BootInv
  <1>4. mem.cr3 \in Live(mem)
    BY <1>1, <1>2, LiveAre
  <1>5. ~up => Live(mem) = {init_kmap}
    BY <1>3, LiveAre
  <1> QED BY <1>1, <1>2, <1>3, <1>4, <1>5

(* Contexts that exist stay as they are. *)
LEMMA SameContexts ==
  ASSUME NEW m, NEW run, NEW ctx, ContextOf(m, run, ctx), m.active_pctx \in Pctx, NEW r,
         r.cr3 = m.cr3, r.active_pctx = m.active_pctx,
         \A c \in Pctx : m.pctx_table[c] # 0 => r.pctx_table[c] = m.pctx_table[c]
  PROVE  ContextOf(r, run, ctx)
  <1>1. \A t \in Thread : ctx[t] # 0 => r.pctx_table[ctx[t]] # 0
    BY DEF ContextOf
  <1> QED BY <1>1 DEF ContextOf

(* What a call has to keep for the invariant to hold after it, and what    *)
(* boot has to.                                                            *)
LEMMA RunStep ==
  ASSUME SpacesInv, ~mem.panicked, up, UNCHANGED <<touched, added, up>>, NEW r, Becomes(r),
         ~r.panicked => /\ Owned(r, held', added) /\ ContextOf(r, running', pctx')
                        /\ TablesMade(r, touched),
         r.panicked => held' = held /\ ContextOf(mem, running', pctx')
  PROVE  SpacesInv'
  <1>1. /\ MemInv(mem, held, added) /\ added \subseteq Ram /\ touched = Touches
        /\ TablesMade(mem, touched)
    BY DEF SpacesInv, MemInv, MemShape, BootInv
  <1>2. CASE r.panicked
    <2>1. mem' = [mem EXCEPT !.panicked = TRUE]
      BY <1>2 DEF Becomes
    <2>2. PICK n : n = mem'
      BY Zenon
    <2>3. /\ MemInv(n, held, added) /\ n.panicked /\ n.dir = mem.dir
          /\ n.pctx_table = mem.pctx_table /\ n.cr3 = mem.cr3 /\ n.active_pctx = mem.active_pctx
      BY <1>1, <2>1, <2>2, Panic
    <2>4. ContextOf(n, running', pctx')
      BY <1>2, <2>3, Loaded, SameContexts
    <2>5. TablesMade(n, touched)
      BY <1>1, <2>3 DEF TablesMade
    <2>6. BootInv'
      BY <2>2, <2>5 DEF SpacesInv, BootInv
    <2> QED BY <1>2, <2>2, <2>3, <2>4, <2>6 DEF SpacesInv, NothingLost, ContextInv
  <1>3. CASE ~r.panicked
    <2>1. mem' = r
      BY <1>3 DEF Becomes
    <2>2. BootInv'
      BY <1>3, <2>1 DEF SpacesInv, BootInv
    <2> QED BY <1>3, <2>1, <2>2 DEF SpacesInv, NothingLost, ContextInv, Owned
  <1> QED BY <1>2, <1>3

(* A step of init keeps the invariant if it keeps the memory's, or panics. *)
LEMMA BootStep ==
  ASSUME SpacesInv, ~mem.panicked, ~up, UNCHANGED <<running, pctx, held>>, NEW r, Becomes(r),
         touched' \in 0..Touches, up' \in BOOLEAN, added \subseteq added', added' \subseteq Ram,
         touched' # Touches => added' = {} /\ ~up',
         ~r.panicked => /\ Owned(r, held, added') /\ TablesMade(r, touched')
                        /\ r.cr3 = mem.cr3 /\ r.active_pctx = mem.active_pctx
                        /\ r.pctx_table = mem.pctx_table,
         up' => touched' = touched
  PROVE  SpacesInv'
  <1>1. /\ MemInv(mem, held, added) /\ TablesMade(mem, touched) /\ ContextOf(mem, running, pctx)
        /\ mem.active_pctx \in Pctx /\ \A c \in Pctx : mem.pctx_table[c] = 0
        /\ pctx = [t \in Thread |-> 0] /\ held = {}
    BY Loaded DEF SpacesInv, BootInv, ContextInv
  <1>2. CASE r.panicked
    <2>1. mem' = [mem EXCEPT !.panicked = TRUE]
      BY <1>2 DEF Becomes
    <2>2. PICK n : n = mem'
      BY Zenon
    <2>3. /\ MemInv(n, held, added') /\ n.panicked /\ n.dir = mem.dir
          /\ n.pctx_table = mem.pctx_table /\ n.cr3 = mem.cr3 /\ n.active_pctx = mem.active_pctx
      BY <1>1, <2>1, <2>2, Panic
    <2>4. ContextOf(n, running, pctx)
      BY <1>1, <2>3, SameContexts
    <2>5. up' => TablesMade(n, touched')
      BY <1>1, <2>3 DEF TablesMade
    <2>6. BootInv'
      BY <1>1, <2>2, <2>3, <2>5 DEF BootInv
    <2> QED BY <1>2, <2>2, <2>3, <2>4, <2>6 DEF SpacesInv, NothingLost, ContextInv
  <1>3. CASE ~r.panicked
    <2>1. mem' = r
      BY <1>3 DEF Becomes
    <2>2. ContextOf(r, running, pctx)
      BY <1>1, <1>3, SameContexts
    <2>3. BootInv'
      BY <1>1, <1>3, <2>1 DEF BootInv
    <2> QED BY <1>3, <2>1, <2>2, <2>3 DEF SpacesInv, NothingLost, ContextInv, Owned
  <1> QED BY <1>2, <1>3

(* Unless the kernel has panicked, every frame is accounted for. *)
LEMMA AllOwned ==
  ASSUME SpacesInv, ~mem.panicked
  PROVE  Owned(mem, held, added)
  BY DEF SpacesInv, NothingLost, Owned

(* Page tables that were made stay. *)
LEMMA Made ==
  ASSUME NEW m, NEW r, Kept(m, r), NEW n, TablesMade(m, n)
  PROVE  TablesMade(r, n)
  BY Layout DEF Kept, TablesMade

(* The heap grows by a page of its own range that is not mapped. *)
LEMMA GrowthGrows ==
  ASSUME NEW P \in Growth
  PROVE  Grows(mem, P)
  BY DEF Growth, Absent, Grows

(* init's loop over the kernel's segments makes one page table after       *)
(* another, while there is one space.                                      *)
LEMMA TouchStep ==
  ASSUME SpacesInv, ~mem.panicked, ~up, Touch
  PROVE  SpacesInv'
  <1>1. PICK s, r : s = init_touches(touched) /\ r = page_touch(mem, s)
    BY Zenon
  <1>2. /\ Becomes(r) /\ touched' = touched + 1 /\ touched < Touches
        /\ UNCHANGED <<added, up, running, pctx, held>>
    BY <1>1 DEF Touch
  <1>3. /\ touched \in Nat /\ Touches \in Nat /\ touched + 1 \in 0..Touches
        /\ KERNEL \in Nat /\ TMP \in Nat /\ KERNEL < TMP /\ SYSTEM \in Nat
        /\ Touches = TMP + 2 - KERNEL + SYSTEM_SIZE
    BY <1>2, LayoutInOrder DEF SpacesInv, BootInv, Touches, KERNEL_SIZE, PGE
  <1>4. added = {} /\ held = {} /\ TablesMade(mem, touched)
    BY <1>2, <1>3 DEF SpacesInv, BootInv
  <1>5. Owned(mem, {}, {})
    BY <1>4, AllOwned
  <1>6. /\ mem.cr3 \in Live(mem) /\ mem.active_pctx \in Pctx /\ mem.cr3 = init_kmap
        /\ Live(mem) = {init_kmap}
    BY Loaded
  <1>7. TMP - KERNEL <= touched => \A x : Kept(mem, x) => TablesMade(x, touched + 1)
    <2>1. SUFFICES ASSUME TMP - KERNEL <= touched, NEW x, Kept(mem, x)
                   PROVE  TablesMade(x, touched + 1)
      OBVIOUS
    <2>2. TablesMade(x, touched)
      BY <1>4, <2>1, Made
    <2>3. \A q \in KERNEL..(TMP - 1) : q - KERNEL < touched
      BY <1>3, <2>1
    <2> QED BY <2>2, <2>3 DEF TablesMade
  <1>8. ASSUME ~r.panicked
        PROVE  /\ Owned(r, {}, {}) /\ Kept(mem, r) /\ r.pctx_table = mem.pctx_table
               /\ TablesMade(r, touched + 1)
    <2>1. CASE touched < TMP - KERNEL
      <3>1. s = KERNEL + touched /\ s \in KERNEL..(TMP - 1)
        BY <1>1, <1>3, <2>1 DEF init_touches, KERNEL_SIZE, PGE
      <3>2. Touchable(mem, s)
        BY <1>6, <3>1, Layout DEF Touchable
      <3>3. /\ Owned(r, {}, {}) /\ Kept(mem, r) /\ r.pctx_table = mem.pctx_table
            /\ ctbl(r, s) # 0 /\ ctbl(r, s) = r.dir[r.cr3][s] /\ r.cr3 = mem.cr3
        <4>1. Owned(r, {}, {}) /\ Touched(mem, r, s)
          BY <1>1, <1>5, <1>8, <3>2, PageTouch
        <4> QED BY <4>1 DEF Touched
      <3>4. r.dir[init_kmap][s] # 0
        BY <1>6, <3>3
      <3>5. TablesMade(r, touched)
        BY <1>4, <3>3, Made
      <3>6. \A q \in KERNEL..(TMP - 1) : q - KERNEL < touched + 1 => q = s \/ q - KERNEL < touched
        BY <1>3, <3>1
      <3>7. TablesMade(r, touched + 1)
        BY <3>4, <3>5, <3>6 DEF TablesMade
      <3> QED BY <3>3, <3>7
    <2>2. CASE touched = TMP - KERNEL
      <3>1. s = TMP
        BY <1>1, <1>3, <2>2 DEF init_touches, KERNEL_SIZE, PGE
      <3>2. Owned(r, {}, {}) /\ Kept(mem, r) /\ r.pctx_table = mem.pctx_table
        BY <1>1, <1>5, <1>6, <1>8, <3>1, TouchWindow
      <3> QED BY <1>3, <1>7, <2>2, <3>2
    <2>3. CASE touched = TMP - KERNEL + 1
      <3>1. s = PGE
        BY <1>1, <1>3, <2>3 DEF init_touches, KERNEL_SIZE, PGE
      <3>2. ctbl(mem, s) # 0
        BY <1>5, <1>6, <3>1, CurrentMap, FramesDistinct DEF Owned, MemInv, MemShape, Windows
      <3>3. r = mem
        BY <1>1, <3>2 DEF page_touch
      <3>4. Kept(mem, mem)
        BY DEF Kept
      <3> QED BY <1>3, <1>5, <1>7, <2>3, <3>3, <3>4
    <2>4. CASE touched > TMP - KERNEL + 1
      <3>1. s \in UserSeg
        BY <1>1, <1>2, <1>3, <2>4, LayoutInOrder DEF init_touches, KERNEL_SIZE, PGE, UserSeg
      <3>2. Touchable(mem, s)
        BY <1>6, <3>1 DEF Touchable
      <3>3. Owned(r, {}, {}) /\ Kept(mem, r) /\ r.pctx_table = mem.pctx_table
        <4>1. Owned(r, {}, {}) /\ Touched(mem, r, s)
          BY <1>1, <1>5, <1>8, <3>2, PageTouch
        <4> QED BY <4>1 DEF Touched
      <3> QED BY <1>3, <1>7, <2>4, <3>3
    <2> QED BY <1>3, <2>1, <2>2, <2>3, <2>4
  <1>9. ~r.panicked => /\ Owned(r, held, added') /\ TablesMade(r, touched')
                       /\ r.cr3 = mem.cr3 /\ r.active_pctx = mem.active_pctx
                       /\ r.pctx_table = mem.pctx_table
    BY <1>2, <1>4, <1>8 DEF Kept
  <1>10. up' \in BOOLEAN /\ ~up'
    BY <1>2 DEF SpacesInv, BootInv
  <1> QED BY <1>2, <1>3, <1>4, <1>9, <1>10, BootStep

(* init adds a frame of the memory map, for which frame_add may grow the   *)
(* heap.                                                                   *)
LEMMA AddFrameStep ==
  ASSUME SpacesInv, ~mem.panicked, ~up, NEW f \in Ram, NEW P \in Growth, AddFrame(f, P)
  PROVE  SpacesInv'
  <1>1. PICK x : x = heap_valloc(mem, P)
    BY Zenon
  <1>2. PICK r : r = [x EXCEPT !.free = @ \cup {f}]
    BY Zenon
  <1>3. /\ Becomes(r) /\ touched = Touches /\ f \notin added /\ added' = added \cup {f}
        /\ UNCHANGED <<touched, up, running, pctx, held>>
    BY Zenon, <1>1, <1>2 DEF AddFrame
  <1>4. Owned(mem, held, added) /\ TablesMade(mem, Touches) /\ added \subseteq Ram
    BY <1>3, AllOwned DEF SpacesInv, BootInv, MemInv, MemShape
  <1>5. ASSUME ~r.panicked
        PROVE  /\ Owned(r, held, added') /\ TablesMade(r, touched)
               /\ r.cr3 = mem.cr3 /\ r.active_pctx = mem.active_pctx
               /\ r.pctx_table = mem.pctx_table
    <2>1. ~x.panicked
      <3>1. r.panicked = x.panicked
        BY <1>2
      <3> QED BY <1>5, <3>1
    <2>2. Owned(x, held, added) /\ Kept(mem, x) /\ x.pctx_table = mem.pctx_table
      BY Zenon, <1>1, <1>4, <2>1, GrowthGrows, HeapValloc, Loaded
    <2>3. x \in MemoryData /\ x.free \subseteq Ram /\ x.pool \subseteq Pool
      BY <2>2, MemTypes DEF Owned, MemInv, MemShape
    <2>4. /\ r \in MemoryData /\ r.dir = x.dir /\ r.tbl = x.tbl /\ r.cr3 = x.cr3
          /\ r.pctx_table = x.pctx_table /\ r.active_pctx = x.active_pctx
          /\ r.free = x.free \cup {f} /\ r.pool = x.pool
      BY Zenon, <1>2, <2>3 DEF MemoryData
    <2>5. f \notin Taken(x) /\ f \notin held /\ f \notin Pool
      BY Zenon, <1>3, <2>2, FramesDistinct DEF Owned, MemInv, MemShape
    <2>6. Taken(x) \cap (r.free \cup r.pool \cup held) = {} /\ held \cap (r.free \cup r.pool) = {}
      BY Zenon, <2>2, <2>4, <2>5 DEF Owned, MemInv, MemShape, OneUseOf
    <2>7. /\ held \subseteq Ram \cup Pool /\ added' \subseteq Ram
          /\ (r.free \cup held) \cap Ram \subseteq added' /\ added \subseteq added'
      BY Zenon, <1>3, <1>4, <2>2, <2>4 DEF Owned, MemInv, MemShape
    <2>8. added' \subseteq r.free \cup Taken(x) \cup held
      BY Zenon, <1>3, <2>2, <2>4 DEF Owned, NoneLost
    <2>9. Owned(r, held, added')
      <3>1. PICK b : b = added'
        BY Zenon
      <3> QED BY <2>2, <2>4, <2>6, <2>7, <2>8, <3>1, Exchange
    <2>10. TablesMade(r, touched)
      <3>1. TablesMade(x, Touches)
        BY <1>4, <2>2, Made
      <3> QED BY <1>3, <2>4, <3>1 DEF TablesMade
    <2> QED BY <2>2, <2>4, <2>9, <2>10 DEF Kept
  <1>6. touched \in 0..Touches
    BY Zenon DEF SpacesInv, BootInv
  <1>7. up' \in BOOLEAN /\ ~up'
    BY Zenon, <1>3 DEF SpacesInv, BootInv
  <1> QED BY <1>3, <1>4, <1>5, <1>6, <1>7, BootStep

(* elf_load maps one page of the system image. *)
LEMMA LoadImageStep ==
  ASSUME SpacesInv, ~mem.panicked, ~up, NEW p \in ImagePage, LoadImage(p)
  PROVE  SpacesInv'
  <1>1. PICK s \in SYSTEM..(KERNEL - 1), n \in Slot : p = <<s, n>>
    BY PagesPlaced
  <1>2. PICK r : r = mem_alloc(mem, p)
    BY Zenon
  <1>3. /\ Becomes(r) /\ touched = Touches /\ ~page_get(mem, p).pres
        /\ UNCHANGED <<touched, added, up, running, pctx, held>>
    BY Zenon, <1>2 DEF LoadImage, Absent
  <1>4. Owned(mem, held, added) /\ TablesMade(mem, touched) /\ added \subseteq Ram
    BY AllOwned DEF SpacesInv, BootInv, MemInv, MemShape
  <1>5. r = page_new(mem, <<s, n>>)
    BY <1>1, <1>2, <1>3 DEF mem_alloc
  <1>6. Touchable(mem, s) /\ s \in SharedSeg
    <2>1. s \in SharedSeg
      BY LayoutInOrder DEF SharedSeg
    <2> QED BY <2>1, Loaded DEF Touchable
  <1>7. ~r.panicked => Owned(r, held, added) /\ Kept(mem, r) /\ r.pctx_table = mem.pctx_table
    BY <1>1, <1>3, <1>4, <1>5, <1>6, PageNew
  <1>8. ~r.panicked => TablesMade(r, touched)
    BY <1>4, <1>7, Made
  <1>9. touched \in 0..Touches
    BY DEF SpacesInv, BootInv
  <1>10. up' \in BOOLEAN /\ ~up'
    BY <1>3 DEF SpacesInv, BootInv
  <1> QED BY <1>3, <1>4, <1>7, <1>8, <1>9, <1>10, BootStep DEF Kept

(* init makes the first thread, and the system is up. *)
LEMMA StartStep ==
  ASSUME SpacesInv, ~mem.panicked, ~up, NEW P \in Growth, NEW Q \in Growth, Start(P, Q)
  PROVE  SpacesInv'
  <1>1. PICK r : r = thread_alloc(mem, P, Q)
    BY Zenon
  <1>2. /\ Becomes(r) /\ touched = Touches /\ up' = TRUE
        /\ UNCHANGED <<touched, added, running, pctx, held>>
    BY Zenon, <1>1 DEF Start
  <1>3. Owned(mem, held, added) /\ TablesMade(mem, Touches) /\ added \subseteq Ram
    BY Zenon, <1>2, AllOwned DEF SpacesInv, BootInv, MemInv, MemShape
  <1>4. ~r.panicked => Owned(r, held, added) /\ Kept(mem, r) /\ r.pctx_table = mem.pctx_table
    <2>1. mem.cr3 \in Live(mem) /\ Grows(mem, P) /\ Grows(mem, Q)
      BY Zenon, Loaded, GrowthGrows
    <2>2. ~r.panicked => Allocs(mem, P, Q, r)
      BY Zenon, <1>1, <2>1 DEF Allocs
    <2> QED BY ONLY <1>3, <2>1, <2>2, ThreadAlloc, ZenonT(30)
  <1>5. ~r.panicked => TablesMade(r, touched)
    BY <1>2, <1>3, <1>4, Made
  <1>6. touched \in 0..Touches
    BY DEF SpacesInv, BootInv
  <1> QED BY <1>2, <1>3, <1>4, <1>5, <1>6, BootStep DEF Kept

(* A step that panics leaves the memory as it was, but for panicked. *)
LEMMA Becoming ==
  ASSUME NEW r, Becomes(r), mem \in MemoryData
  PROVE  mem'.panicked <=> r.panicked
  <1>1. CASE r.panicked
    <2>1. mem' = [mem EXCEPT !.panicked = TRUE]
      BY <1>1 DEF Becomes
    <2> QED BY <1>1, <2>1 DEF MemoryData
  <1>2. CASE ~r.panicked
    BY <1>2 DEF Becomes
  <1> QED BY <1>1, <1>2

(* The frame of a page of the loaded space is not a client's. *)
LEMMA UserEntry ==
  ASSUME SpacesInv, ~mem.panicked, NEW s \in UserSeg, NEW n \in Slot,
         NEW g, g = page_get(mem, <<s, n>>)
  PROVE  g \in Entry /\ g.frame \notin held \ {0}
  <1>1. PICK k : k = mem.dir[mem.cr3][s]
    BY Zenon
  <1>2. Owned(mem, held, added) /\ mem.cr3 \in Live(mem) /\ ctbl(mem, s) = k
    BY <1>1, AllOwned, Loaded, CurrentMap
  <1>3. g = IF k = 0 THEN NoEntry ELSE mem.tbl[k][n]
    <2>1. <<s, n>>[1] = s /\ <<s, n>>[2] = n
      OBVIOUS
    <2> QED BY <1>2, <2>1 DEF page_get
  <1>4. CASE k = 0
    <2>1. g = [frame |-> 0, pres |-> FALSE]
      BY Zenon, <1>3, <1>4 DEF NoEntry
    <2>2. NoEntry \in Entry
      BY FramesDistinct DEF NoEntry, Entry, Frame
    <2>3. g.frame = 0
      BY <2>1
    <2> QED BY <1>3, <1>4, <2>2, <2>3
  <1>5. CASE k # 0
    <2>5. k \in Tables(mem)
      BY <1>1, <1>2, <1>5, TablesAre
    <2>1. PICK f : f = mem.tbl[k][n].frame
      BY Zenon
    <2>4. f # 0 => f \in Mapped(mem)
      BY <2>1, <2>5, MappedAre
    <2>2. mem.tbl \in [Frame -> [Slot -> Entry]] /\ k \in Frame
      BY Zenon, <2>5, Loaded, MemTypes
    <2>3. Mapped(mem) \cap held = {}
      BY Zenon, <1>2 DEF Owned, MemInv, MemShape, OneUseOf, Taken
    <2> QED BY <1>3, <1>5, <2>1, <2>2, <2>3, <2>4
  <1> QED BY <1>4, <1>5

(* A call that neither loads nor frees a context. *)
LEMMA CallStep ==
  ASSUME SpacesInv, ~mem.panicked, up, UNCHANGED <<touched, added, up>>, NEW r, Becomes(r),
         ContextOf(mem, running', pctx'), r.panicked => held' = held,
         ~r.panicked => /\ Owned(r, held', added) /\ Kept(mem, r)
                        /\ \A c \in Pctx : mem.pctx_table[c] # 0 => r.pctx_table[c] = mem.pctx_table[c]
  PROVE  SpacesInv'
  <1>1. TablesMade(mem, touched) /\ mem.active_pctx \in Pctx
    BY Zenon, Loaded DEF SpacesInv, BootInv
  <1>2. ASSUME ~r.panicked
        PROVE  ContextOf(r, running', pctx') /\ TablesMade(r, touched)
    <2>1. r.cr3 = mem.cr3 /\ r.active_pctx = mem.active_pctx
      BY Zenon, <1>2 DEF Kept
    <2>2. ContextOf(r, running', pctx')
      BY <1>1, <1>2, <2>1, SameContexts
    <2> QED BY <1>1, <1>2, <2>2, Made
  <1> QED BY Zenon, <1>2, RunStep

(* KCALL_NEWFRAME: the frame is the client's. *)
LEMMA NewFrameStep ==
  ASSUME SpacesInv, ~mem.panicked, up, UNCHANGED <<touched, added, up>>, NewFrame
  PROVE  SpacesInv'
  <1>1. PICK r, f : r = frame_new(mem).m /\ f = frame_new(mem).ret
    BY Zenon
  <1>2. /\ Becomes(r) /\ running' = running /\ pctx' = pctx
        /\ held' = IF mem'.panicked THEN held ELSE held \cup {f}
    BY <1>1 DEF NewFrame
  <1>3. ContextOf(mem, running', pctx')
    BY <1>2 DEF SpacesInv, ContextInv
  <1>4. held' = IF r.panicked THEN held ELSE held \cup {f}
    BY <1>2, Becoming, Loaded
  <1>5. ASSUME ~r.panicked
        PROVE  /\ Owned(r, held', added) /\ Kept(mem, r) /\ r.pctx_table = mem.pctx_table
    <2>1. /\ Owned(r, held \cup {f}, added) /\ r.dir = mem.dir /\ r.pctx_table = mem.pctx_table
          /\ r.cr3 = mem.cr3 /\ r.active_pctx = mem.active_pctx
      <3>1. Takes(mem, r, f) /\ Owned(mem, held, added)
        BY Zenon, <1>1, <1>5, AllOwned DEF Takes
      <3>2. Given(mem, held, added, r, f)
        BY Zenon, <3>1, FrameNew
      <3> QED BY Zenon, <3>2 DEF Given
    <2>2. Kept(mem, r)
      BY Zenon, <2>1 DEF Kept
    <2> QED BY <1>4, <1>5, <2>1, <2>2
  <1> QED BY <1>2, <1>3, <1>4, <1>5, CallStep

(* KCALL_SETFRAME: a client's frame, or none, under a page of the user's   *)
(* part.                                                                   *)
LEMMA SetFrameStep ==
  ASSUME SpacesInv, ~mem.panicked, up, UNCHANGED <<touched, added, up>>,
         NEW p \in UserPage, NEW f \in held \cup {0}, SetFrame(p, f)
  PROVE  SpacesInv'
  <1>1. PICK s \in UserSeg, n \in Slot : p = <<s, n>>
    BY PagesPlaced
  <1>2. PICK g, e, r : /\ g = page_get(mem, p) /\ e = [g EXCEPT !.frame = f]
                       /\ r = page_set(mem, p, e)
    BY Zenon
  <1>3. /\ Becomes(r) /\ running' = running /\ pctx' = pctx
        /\ held' = IF mem'.panicked THEN held ELSE (held \ {f}) \cup ({g.frame} \ {0})
    BY <1>2 DEF SetFrame
  <1>4. ContextOf(mem, running', pctx')
    BY <1>3 DEF SpacesInv, ContextInv
  <1>5. held' = IF r.panicked THEN held ELSE (held \ {f}) \cup ({g.frame} \ {0})
    BY <1>3, Becoming, Loaded
  <1>6. g \in Entry /\ g.frame \notin held \ {0}
    BY <1>1, <1>2, UserEntry
  <1>7. f \in Frame /\ 0 \notin held
    BY FramesDistinct DEF SpacesInv, MemInv, MemShape, Frame
  <1>8. e \in Entry /\ e.frame = f
    BY <1>2, <1>6, <1>7 DEF Entry
  <1>9. ASSUME ~r.panicked
        PROVE  Owned(r, held', added) /\ Kept(mem, r) /\ r.pctx_table = mem.pctx_table
    <2>1. held' = (held \ {e.frame}) \cup ({g.frame} \ {0, e.frame})
      BY <1>5, <1>6, <1>7, <1>8, <1>9
    <2>2. Touchable(mem, s)
      BY Loaded DEF Touchable
    <2>3. PICK i : i = held'
      BY Zenon
    <2>4. g.frame = page_get(mem, <<s, n>>).frame /\ r = page_set(mem, <<s, n>>, e)
      BY <1>1, <1>2
    <2>5. EntryFor(mem, held, s, n, e, i)
      BY Zenon, <1>8, <2>1, <2>2, <2>3, <2>4 DEF EntryFor
    <2>6. Owned(r, i, added) /\ Kept(mem, r) /\ r.pctx_table = mem.pctx_table
      <3>1. Owned(mem, held, added)
        BY Zenon, AllOwned
      <3>2. SetsPage(mem, s, n, e, r)
        BY Zenon, <1>9, <2>4 DEF SetsPage
      <3> QED BY ONLY <2>5, <3>1, <3>2, PageSet, ZenonT(30)
    <2> QED BY <2>3, <2>6
  <1> QED BY Zenon, <1>3, <1>4, <1>5, <1>9, CallStep

(* KCALL_SETFLAGS: PF_PRES changes, and the frame under the page does not. *)
LEMMA SetFlagsStep ==
  ASSUME SpacesInv, ~mem.panicked, up, UNCHANGED <<touched, added, up>>,
         NEW p \in UserPage, NEW b \in BOOLEAN, SetFlags(p, b)
  PROVE  SpacesInv'
  <1>1. PICK s \in UserSeg, n \in Slot : p = <<s, n>>
    BY PagesPlaced
  <1>2. PICK g, e, r : /\ g = page_get(mem, p) /\ e = [g EXCEPT !.pres = b]
                       /\ r = page_set(mem, p, e)
    BY Zenon
  <1>3. Becomes(r) /\ running' = running /\ pctx' = pctx /\ held' = held
    BY <1>2 DEF SetFlags
  <1>4. ContextOf(mem, running', pctx')
    BY <1>3 DEF SpacesInv, ContextInv
  <1>5. g \in Entry /\ g.frame \notin held \ {0}
    BY <1>1, <1>2, UserEntry
  <1>6. 0 \notin held
    BY FramesDistinct DEF SpacesInv, MemInv, MemShape
  <1>7. e \in Entry /\ e.frame = g.frame
    BY Zenon, <1>2, <1>5 DEF Entry
  <1>8. ASSUME ~r.panicked
        PROVE  Owned(r, held, added) /\ Kept(mem, r) /\ r.pctx_table = mem.pctx_table
    <2>1. held = (held \ {e.frame}) \cup ({g.frame} \ {0, e.frame})
      BY <1>5, <1>6, <1>7
    <2>2. Touchable(mem, s)
      BY Loaded DEF Touchable
    <2>3. g.frame = page_get(mem, <<s, n>>).frame /\ r = page_set(mem, <<s, n>>, e)
      BY <1>1, <1>2
    <2>4. EntryFor(mem, held, s, n, e, held)
      BY Zenon, <1>7, <2>1, <2>2, <2>3 DEF EntryFor
    <2>5. Owned(mem, held, added)
      BY Zenon, AllOwned
    <2>6. SetsPage(mem, s, n, e, r)
      BY Zenon, <1>8, <2>3 DEF SetsPage
    <2> QED BY ONLY <2>4, <2>5, <2>6, PageSet, ZenonT(30)
  <1> QED BY <1>3, <1>4, <1>8, CallStep

(* KCALL_FREEFRAME: a client's frame is free again. *)
LEMMA FreeFrameStep ==
  ASSUME SpacesInv, ~mem.panicked, up, UNCHANGED <<touched, added, up>>,
         NEW f \in held, FreeFrame(f)
  PROVE  SpacesInv'
  <1>1. PICK r, i : r = frame_free(mem, f) /\ i = held \ {f}
    BY Zenon
  <1>2. Becomes(r) /\ running' = running /\ pctx' = pctx /\ held' = i
    BY <1>1 DEF FreeFrame
  <1>3. ContextOf(mem, running', pctx')
    BY <1>2 DEF SpacesInv, ContextInv
  <1>4. /\ Owned(mem, held, added) /\ mem \in MemoryData /\ held \subseteq Ram \cup Pool
        /\ OneUseOf(mem, held) /\ added \subseteq Ram
        /\ (mem.free \cup Taken(mem) \cup held) \cap Ram \subseteq added
        /\ added \subseteq mem.free \cup Taken(mem) \cup held
    BY Zenon, AllOwned DEF Owned, MemInv, MemShape, NoneLost
  <1>5. /\ r \in MemoryData /\ r.dir = mem.dir /\ r.tbl = mem.tbl /\ r.pool = mem.pool
        /\ r.pctx_table = mem.pctx_table /\ r.cr3 = mem.cr3 /\ r.active_pctx = mem.active_pctx
        /\ r.free = mem.free \cup ({f} \cap Ram) /\ r.panicked = mem.panicked
    <2>1. CASE f \in Ram
      <3>1. r = [mem EXCEPT !.free = mem.free \cup {f}]
        BY Zenon, <1>1, <2>1 DEF frame_free
      <3>2. mem.free \cup {f} \in SUBSET Ram
        BY <1>4, <2>1, MemTypes
      <3> QED BY Zenon, <1>4, <2>1, <3>1, <3>2 DEF MemoryData
    <2>2. CASE f \notin Ram
      BY <1>1, <1>4, <2>2 DEF frame_free
    <2> QED BY <2>1, <2>2
  <1>6. /\ Taken(mem) \cap (mem.free \cup mem.pool \cup held) = {}
        /\ held \cap (mem.free \cup mem.pool) = {} /\ mem.pool \subseteq Pool
    BY Zenon, <1>4, MemTypes DEF OneUseOf
  <1>7. Taken(mem) \cap (r.free \cup r.pool \cup i) = {} /\ i \cap (r.free \cup r.pool) = {}
    BY <1>1, <1>5, <1>6
  <1>8. /\ i \subseteq Ram \cup Pool /\ (r.free \cup i) \cap Ram \subseteq added
        /\ added \subseteq r.free \cup Taken(mem) \cup i
    BY Zenon, <1>1, <1>4, <1>5
  <1>9. Owned(r, i, added)
    BY <1>4, <1>5, <1>7, <1>8, Exchange
  <1>10. Kept(mem, r)
    BY <1>5 DEF Kept
  <1> QED BY <1>2, <1>3, <1>5, <1>9, <1>10, CallStep

(* KCALL_SPAWN in the slot of a dead thread: no context yet. *)
LEMMA RespawnStep ==
  ASSUME SpacesInv, ~mem.panicked, up, UNCHANGED <<touched, added, up>>,
         NEW t \in Thread, NEW P \in Growth, NEW Q \in Growth, Respawn(t, P, Q)
  PROVE  SpacesInv'
  <1>1. PICK r : r = thread_alloc(mem, P, Q)
    BY Zenon
  <1>2. /\ Becomes(r) /\ running' = running /\ pctx' = [pctx EXCEPT ![t] = 0]
        /\ held' = held /\ t # running
    BY <1>1 DEF Respawn
  <1>3. ContextOf(mem, running', pctx')
    BY <1>2, SomeContexts DEF SpacesInv, ContextInv, ContextOf, Pctx
  <1>4. TablesMade(mem, Touches)
    BY Zenon DEF SpacesInv, BootInv
  <1>5. ~r.panicked => Owned(r, held, added) /\ Kept(mem, r) /\ r.pctx_table = mem.pctx_table
    <2>1. Owned(mem, held, added) /\ mem.cr3 \in Live(mem)
      BY Zenon, AllOwned, Loaded
    <2>2. Grows(mem, P) /\ Grows(mem, Q)
      BY Zenon, GrowthGrows
    <2>3. ~r.panicked => Allocs(mem, P, Q, r)
      BY Zenon, <1>1, <2>2 DEF Allocs
    <2> QED BY ONLY <1>4, <2>1, <2>3, ThreadAlloc, ZenonT(30)
  <1> QED BY Zenon, <1>2, <1>3, <1>5, CallStep

(* KCALL_FREEPCTX: space_free of a context that no thread has. *)
LEMMA FreePctxStep ==
  ASSUME SpacesInv, ~mem.panicked, up, UNCHANGED <<touched, added, up>>,
         NEW c \in Pctx \ {0}, FreePctx(c)
  PROVE  SpacesInv'
  <1>1. PICK r, d : r = pctx_free(mem, c) /\ d = mem.pctx_table[c]
    BY Zenon
  <1>2. /\ Becomes(r) /\ running' = running /\ pctx' = pctx /\ held' = held
        /\ c # mem.active_pctx /\ Users(c) = {} /\ ~Half(mem, d)
    BY Zenon, <1>1 DEF FreePctx
  <1>3. ContextOf(mem, running', pctx') /\ ContextOf(mem, running, pctx)
    BY Zenon, <1>2 DEF SpacesInv, ContextInv
  <1>4. CASE d = 0
    <2>1. r = mem
      BY <1>1, <1>4 DEF pctx_free, refused
    <2>2. Kept(mem, mem)
      BY Zenon DEF Kept
    <2> QED BY <1>2, <1>3, <2>1, <2>2, AllOwned, CallStep
  <1>5. CASE d # 0
    <2>1. /\ Owned(r, held, added) /\ Kept(mem, r) /\ r.panicked = mem.panicked
          /\ \A e \in Pctx \ {c} : r.pctx_table[e] = mem.pctx_table[e]
      <3>1. Owned(mem, held, added) /\ mem.cr3 \in Live(mem)
        BY Zenon, AllOwned, Loaded
      <3>2. Frees(mem, c, d, r)
        BY Zenon, <1>1, <1>2, <1>5 DEF Frees
      <3>3. Freed(mem, held, added, c, r)
        BY Zenon, <3>1, <3>2, PctxFree
      <3> QED BY Zenon, <3>3 DEF Freed
    <2>2. r.cr3 = mem.cr3 /\ r.active_pctx = mem.active_pctx /\ mem.active_pctx \in Pctx
      BY <2>1, Loaded DEF Kept
    <2>3. \A t \in Thread : pctx[t] \in Pctx \ {c}
      BY Zenon, <1>2, <1>3 DEF Users, ContextOf
    <2>4. ContextOf(r, running, pctx)
      BY Zenon, <1>2, <1>3, <2>1, <2>2, <2>3 DEF ContextOf
    <2>5. TablesMade(r, touched)
      <3>1. TablesMade(mem, touched)
        BY DEF SpacesInv, BootInv
      <3> QED BY Zenon, <2>1, <3>1, Made
    <2> QED BY Zenon, <1>2, <2>1, <2>4, <2>5, RunStep
  <1> QED BY <1>4, <1>5

(* pctx_load of a context that exists. *)
LEMMA LoadPctx ==
  ASSUME SpacesInv, ~mem.panicked, NEW c \in Pctx \ {0}, mem.pctx_table[c] # 0,
         NEW r, r = pctx_load(mem, c)
  PROVE  /\ Owned(r, held, added) /\ r.dir = mem.dir /\ r.pctx_table = mem.pctx_table
         /\ r.cr3 = mem.pctx_table[c] /\ r.active_pctx = c /\ ~r.panicked
  <1>1. ~refused(mem, c)
    BY SomeContexts DEF refused, Pctx
  <1>2. r = [mem EXCEPT !.cr3 = mem.pctx_table[c], !.active_pctx = c]
    BY Zenon, <1>1 DEF pctx_load
  <1>3. Owned(mem, held, added) /\ mem \in MemoryData /\ mem.pctx_table[c] \in Frame
    BY AllOwned, Loaded, MemTypes
  <1>4. /\ r \in MemoryData /\ r.dir = mem.dir /\ r.tbl = mem.tbl /\ r.pool = mem.pool
        /\ r.pctx_table = mem.pctx_table /\ r.cr3 = mem.pctx_table[c] /\ r.active_pctx = c
        /\ r.free = mem.free /\ r.panicked = mem.panicked
    BY Zenon, <1>2, <1>3 DEF MemoryData
  <1>5. Owned(r, held, added)
    <2>1. /\ held \subseteq Ram \cup Pool /\ added \subseteq Ram
          /\ Taken(mem) \cap (r.free \cup r.pool \cup held) = {} /\ held \cap (r.free \cup r.pool) = {}
          /\ (r.free \cup held) \cap Ram \subseteq added
          /\ added \subseteq r.free \cup Taken(mem) \cup held
      BY Zenon, <1>3, <1>4 DEF Owned, MemInv, MemShape, OneUseOf, NoneLost
    <2> QED BY Zenon, <1>3, <1>4, <2>1, Exchange
  <1> QED BY <1>4, <1>5

(* A call that loads a context. *)
LEMMA LoadStep ==
  ASSUME SpacesInv, ~mem.panicked, up, UNCHANGED <<touched, added, up, held>>,
         NEW c \in Pctx \ {0}, mem.pctx_table[c] # 0, Becomes(pctx_load(mem, c)),
         running' \in Thread, pctx' \in [Thread -> Pctx], pctx'[running'] = c,
         \A t \in Thread : pctx'[t] # 0 => mem.pctx_table[pctx'[t]] # 0
  PROVE  SpacesInv'
  <1>1. PICK r : r = pctx_load(mem, c)
    BY Zenon
  <1>2. /\ Owned(r, held, added) /\ r.dir = mem.dir /\ r.pctx_table = mem.pctx_table
        /\ r.cr3 = mem.pctx_table[c] /\ r.active_pctx = c /\ ~r.panicked /\ Becomes(r)
    BY <1>1, LoadPctx
  <1>3. ContextOf(r, running', pctx')
    BY Zenon, <1>2 DEF ContextOf
  <1>4. TablesMade(r, touched)
    BY <1>2 DEF SpacesInv, BootInv, TablesMade
  <1> QED BY <1>2, <1>3, <1>4, RunStep

(* KCALL_SETSTATE: the thread gets a context, loaded if it is the          *)
(* caller's.                                                               *)
LEMMA SetStateStep ==
  ASSUME SpacesInv, ~mem.panicked, up, UNCHANGED <<touched, added, up>>,
         NEW t \in Thread, NEW c \in Pctx, SetState(t, c)
  PROVE  SpacesInv'
  <1>1. /\ c # 0 => mem.pctx_table[c] # 0
        /\ t # running => pctx[t] = c
        /\ pctx' = [pctx EXCEPT ![t] = c] /\ running' = running /\ held' = held
        /\ Becomes(IF pctx[t] # c THEN pctx_load(mem, c) ELSE mem)
    BY DEF SetState
  <1>2. ContextOf(mem, running, pctx) /\ Kept(mem, mem)
    BY DEF SpacesInv, ContextInv, Kept
  <1>3. /\ running' \in Thread /\ pctx' \in [Thread -> Pctx]
        /\ \A u \in Thread : pctx'[u] # 0 => mem.pctx_table[pctx'[u]] # 0
    BY <1>1, <1>2 DEF ContextOf
  <1>4. CASE pctx[t] # c /\ c # 0
    <2>1. pctx'[running'] = c
      BY <1>1, <1>2, <1>4 DEF ContextOf
    <2> QED BY Zenon, <1>1, <1>3, <1>4, <2>1, LoadStep
  <1>5. CASE pctx[t] = c \/ c = 0
    <2>1. Becomes(mem)
      BY <1>1, <1>5 DEF pctx_load, refused
    <2>2. ContextOf(mem, running', pctx')
      BY <1>1, <1>2, <1>3, <1>5 DEF ContextOf
    <2> QED BY Zenon, <1>1, <1>2, <2>1, <2>2, AllOwned, CallStep
  <1> QED BY <1>4, <1>5

(* thread_load: another thread runs, in its own context if it has one. *)
LEMMA SwitchStep ==
  ASSUME SpacesInv, ~mem.panicked, up, UNCHANGED <<touched, added, up>>,
         NEW t \in Thread, Switch(t)
  PROVE  SpacesInv'
  <1>1. PICK c : c = pctx[t]
    BY Zenon
  <1>2. Becomes(thread_load(mem, c)) /\ running' = t /\ pctx' = pctx /\ held' = held
    BY <1>1 DEF Switch
  <1>3. ContextOf(mem, running, pctx) /\ Kept(mem, mem)
    BY Zenon DEF SpacesInv, ContextInv, Kept
  <1>4. /\ running' \in Thread /\ pctx' \in [Thread -> Pctx] /\ c \in Pctx /\ pctx'[running'] = c
        /\ \A u \in Thread : pctx'[u] # 0 => mem.pctx_table[pctx'[u]] # 0
    BY <1>1, <1>2, <1>3 DEF ContextOf
  <1>5. CASE c # 0 /\ c # mem.active_pctx
    <2>1. Becomes(pctx_load(mem, c)) /\ mem.pctx_table[c] # 0
      BY Zenon, <1>1, <1>2, <1>3, <1>5 DEF thread_load, ContextOf
    <2> QED BY <1>2, <1>4, <1>5, <2>1, LoadStep
  <1>6. CASE c = 0 \/ c = mem.active_pctx
    <2>1. Becomes(mem)
      BY Zenon, <1>2, <1>6 DEF thread_load
    <2>2. ContextOf(mem, running', pctx')
      BY <1>2, <1>3, <1>4, <1>6 DEF ContextOf
    <2> QED BY <1>2, <1>3, <2>1, <2>2, AllOwned, CallStep
  <1> QED BY <1>5, <1>6

(* What the boot code leaves: one directory, which shows itself and has    *)
(* one page table, and no frame in use.                                    *)
LEMMA InitOwned ==
  ASSUME SpacesInit
  PROVE  Owned(mem, {}, {})
  <1> DEFINE K == [EmptyDir EXCEPT ![KERNEL] = init_ktbl, ![PGE] = init_kmap]
             B == [s \in Slot |-> [frame |-> 0, pres |-> TRUE]]
             D == [f \in Frame |-> IF f = init_kmap THEN K ELSE EmptyDir]
             T == [f \in Frame |-> IF f = init_ktbl THEN B ELSE EmptyTbl]
  <1>1. init_kmap \in Frame /\ init_ktbl \in Frame /\ 0 \in Frame /\ KERNEL \in Seg /\ PGE \in Seg
    BY Layout, LayoutInOrder DEF Frame, Seg, PGE
  <1>2. EmptyDir \in [Seg -> Frame] /\ K \in [Seg -> Frame]
    BY <1>1 DEF EmptyDir
  <1>3. EmptyTbl \in [Slot -> Entry] /\ B \in [Slot -> Entry]
    BY FramesDistinct DEF EmptyTbl, NoEntry, Entry, Frame
  <1>4. D \in [Frame -> [Seg -> Frame]] /\ T \in [Frame -> [Slot -> Entry]]
    BY <1>2, <1>3
  <1>5. /\ D[init_kmap] = K /\ K[KERNEL] = init_ktbl /\ K[PGE] = init_kmap
        /\ \A s \in UserSeg \cup SharedSeg : s # KERNEL => K[s] = 0
    <2>1. \A s \in UserSeg \cup SharedSeg : s \in Seg /\ s # PGE
      BY Layout, LayoutInOrder DEF PGE, UserSeg, SharedSeg
    <2>2. KERNEL # PGE
      BY LayoutInOrder DEF PGE
    <2> QED BY <1>1, <2>1, <2>2 DEF EmptyDir
  <1>6. T[init_ktbl] = B /\ \A n \in Slot : B[n].frame = 0 /\ B[n].pres
    BY Zenon, <1>1
  <1> HIDE DEF K, B, D, T
  <1>7. mem = [dir |-> D, tbl |-> T, cr3 |-> init_kmap, pctx_table |-> [c \in Pctx |-> 0],
               active_pctx |-> 0, free |-> {}, pool |-> Pool, panicked |-> FALSE]
    BY DEF SpacesInit, K, B, D, T
  <1>8. 0 \in Pctx /\ [c \in Pctx |-> 0] \in [Pctx -> Frame]
    BY <1>1, SomeContexts DEF Pctx
  <1>9. /\ mem.dir = D /\ mem.tbl = T /\ mem.pctx_table = [c \in Pctx |-> 0]
        /\ mem.free = {} /\ mem.pool = Pool
    BY <1>7
  <1>10. mem \in MemoryData
    BY Zenon, <1>1, <1>4, <1>7, <1>8 DEF MemoryData
  <1>11. Live(mem) = {init_kmap}
    BY <1>9 DEF Live
  <1>12. Tables(mem) = {init_ktbl}
    <2>1. KERNEL \in SharedSeg
      BY LayoutInOrder DEF SharedSeg
    <2>2. Tables(mem) = {K[s] : s \in UserSeg \cup SharedSeg} \ {0}
      BY <1>5, <1>9, <1>11 DEF Tables
    <2> QED BY <1>5, <2>1, <2>2, FramesDistinct
  <1>13. Mapped(mem) = {}
    BY <1>6, <1>9, <1>12 DEF Mapped
  <1>14. OneSpace(mem) /\ \A c \in Pctx : mem.pctx_table[c] # init_kmap
    BY <1>9, FramesDistinct DEF OneSpace
  <1>15. OneTable(mem)
    <2>1. \A s, r \in UserSeg \cup SharedSeg : K[s] = K[r] /\ K[s] # 0 => s = r
      BY <1>5
    <2> QED BY <1>5, <1>9, <1>11, <2>1 DEF OneTable
  <1>16. OnePage(mem)
    BY <1>6, <1>9, <1>12 DEF OnePage
  <1>17. Windows(mem) /\ TablesShared(mem)
    BY <1>5, <1>9, <1>11 DEF Windows, TablesShared
  <1>18. NoneHalf(mem)
    <2>1. \A s \in SharedSeg, n \in Slot : K[s] # 0 => T[K[s]][n].pres
      BY Zenon, <1>5, <1>6
    <2> QED BY <1>5, <1>9, <2>1 DEF NoneHalf
  <1>19. OneUseOf(mem, {})
    BY Zenon, <1>9, <1>11, <1>12, <1>13, <1>14, <1>15, <1>16, FramesDistinct DEF OneUseOf, Taken
  <1>20. MemInv(mem, {}, {})
    BY <1>9, <1>10, <1>11, <1>12, <1>13, <1>14, <1>17, <1>18, <1>19, FramesDistinct
       DEF MemInv, MemShape, Taken
  <1> QED BY <1>20 DEF Owned, NoneLost

(* The boot code's directory is the only space, and no frame is in use. *)
LEMMA InitHolds ==
  ASSUME SpacesInit
  PROVE  SpacesInv
  <1>1. Owned(mem, {}, {}) /\ held = {} /\ added = {} /\ up = FALSE /\ touched = 0
    BY Zenon, InitOwned DEF SpacesInit
  <1>2. /\ mem.cr3 = init_kmap /\ mem.active_pctx = 0 /\ mem.pctx_table = [c \in Pctx |-> 0]
        /\ running = first /\ pctx = [t \in Thread |-> 0] /\ 0 \in Pctx
    BY SomeContexts DEF SpacesInit, Pctx
  <1>3. ContextInv
    BY <1>2, PagesPlaced DEF ContextInv, ContextOf
  <1>4. BootInv
    <2>1. touched \in 0..Touches
      BY <1>1, LayoutInOrder DEF Touches, KERNEL_SIZE, PGE
    <2>2. TablesMade(mem, touched)
      BY <1>1, LayoutInOrder DEF TablesMade
    <2> QED BY Zenon, <1>1, <1>2, <2>1, <2>2 DEF BootInv
  <1> QED BY <1>1, <1>3, <1>4 DEF SpacesInv, NothingLost, Owned

-----------------------------------------------------------------------------
(* A system call that makes a context takes the least number that is free: *)
(* there is a least one, which is shown below, after all that rests on it. *)
LeastGap ==
  \A S \in SUBSET Pctx : S # {} => (CHOOSE x \in S : \A y \in S : x <= y) \in S

(* pctx_new: the context it returns was free; the others keep their        *)
(* spaces.                                                                 *)
LEMMA PctxNew ==
  ASSUME NEW m, NEW h, NEW a, Owned(m, h, a), m.cr3 \in Live(m),
         NEW r, r = pctx_new(m).m, ~r.panicked, ~m.panicked, LeastGap
  PROVE  /\ Owned(r, h, a) /\ Kept(m, r)
         /\ \A c \in Pctx : m.pctx_table[c] # 0 => r.pctx_table[c] = m.pctx_table[c]
  <1> DEFINE i == IF m.pctx_table[0] = 0 THEN pctx_init(m) ELSE m
             gaps == {n \in Pctx : i.pctx_table[n] = 0}
             n == CHOOSE x \in gaps : \A y \in gaps : x <= y
  <1>1. r = IF gaps = {} THEN i ELSE CloneInto(i, n)
    BY DEF pctx_new, CloneInto
  <1>2. pctx_init(m) = CloneInto(m, 0) /\ 0 \in Pctx
    BY SomeContexts DEF pctx_init, CloneInto, Pctx
  <1>3. ASSUME ~i.panicked
        PROVE  /\ Owned(i, h, a) /\ Kept(m, i) /\ i.cr3 \in Live(i)
               /\ \A c \in Pctx : m.pctx_table[c] # 0 => i.pctx_table[c] = m.pctx_table[c]
    <2>1. CASE m.pctx_table[0] = 0
      <3>1. i = CloneInto(m, 0)
        BY Zenon, <1>2, <2>1
      <3> HIDE DEF i
      <3>2. /\ Owned(i, h, a) /\ Kept(m, i)
            /\ \A c \in Pctx \ {0} : i.pctx_table[c] = m.pctx_table[c]
        <4>1. Clones(m, 0, i)
          BY Zenon, <1>2, <1>3, <2>1, <3>1 DEF Clones
        <4>2. Owned(m, h, a) /\ m.cr3 \in Live(m)
          BY Zenon
        <4>3. Cloned(m, h, a, 0, i)
          BY ONLY <4>1, <4>2, SpaceClone, ZenonT(30)
        <4> QED BY Zenon, <4>3 DEF Cloned
      <3>3. i.cr3 \in Live(i)
        <4>1. i.cr3 = m.cr3
          BY Zenon, <3>2 DEF Kept
        <4>2. CASE m.cr3 = init_kmap
          BY Zenon, <4>1, <4>2, LiveAre
        <4>3. CASE m.cr3 # init_kmap
          <5>1. PICK c \in Pctx : m.pctx_table[c] = m.cr3 /\ m.cr3 # 0
            BY Zenon, <4>3, LiveAre
          <5>2. i.pctx_table[c] = m.cr3
            BY Zenon, <2>1, <3>2, <5>1
          <5> QED BY Zenon, <4>1, <5>1, <5>2, LiveAre
        <4> QED BY Zenon, <4>2, <4>3
      <3> QED BY <2>1, <3>2, <3>3
    <2>2. CASE m.pctx_table[0] # 0
      BY <2>2 DEF Kept
    <2> QED BY Zenon, <2>1, <2>2
  <1>4. CASE gaps = {}
    BY Zenon, <1>1, <1>3, <1>4
  <1>5. CASE gaps # {}
    <2>1. n \in Pctx /\ i.pctx_table[n] = 0
      BY Zenon, <1>5 DEF LeastGap
    <2>2. r = CloneInto(i, n)
      BY <1>1, <1>5
    <2> HIDE DEF i, n
    <2>3. ~i.panicked
      <3>1. i.panicked => frame_new(i).m.panicked
        BY DEF frame_new
      <3> QED BY <2>2, <3>1, ClonePanics
    <2>4. /\ Owned(i, h, a) /\ Kept(m, i) /\ i.cr3 \in Live(i)
          /\ \A c \in Pctx : m.pctx_table[c] # 0 => i.pctx_table[c] = m.pctx_table[c]
      BY Zenon, <1>3, <2>3
    <2>5. /\ Owned(r, h, a) /\ Kept(i, r)
          /\ \A c \in Pctx \ {n} : r.pctx_table[c] = i.pctx_table[c]
      <3>1. Clones(i, n, r)
        BY Zenon, <2>1, <2>2 DEF Clones
      <3>2. Cloned(i, h, a, n, r)
        BY ONLY <2>4, <3>1, SpaceClone, ZenonT(30)
      <3> QED BY Zenon, <3>2 DEF Cloned
    <2>6. \A c \in Pctx : m.pctx_table[c] # 0 => r.pctx_table[c] = m.pctx_table[c]
      BY Zenon, <2>1, <2>4, <2>5
    <2> QED BY <2>4, <2>5, <2>6 DEF Kept
  <1> QED BY <1>4, <1>5

(* KCALL_NEWPCTX: a new space, loaded by nobody. *)
LEMMA NewPctxStep ==
  ASSUME LeastGap, SpacesInv, ~mem.panicked, up, UNCHANGED <<touched, added, up>>, NewPctx
  PROVE  SpacesInv'
  <1>1. PICK r : r = pctx_new(mem).m
    BY Zenon
  <1>2. Becomes(r) /\ running' = running /\ pctx' = pctx /\ held' = held
    BY <1>1 DEF NewPctx
  <1>3. ContextOf(mem, running', pctx')
    BY Zenon, <1>2 DEF SpacesInv, ContextInv
  <1>4. ~r.panicked => /\ Owned(r, held, added) /\ Kept(mem, r)
                       /\ \A c \in Pctx : mem.pctx_table[c] # 0 => r.pctx_table[c] = mem.pctx_table[c]
    <2>1. Owned(mem, held, added) /\ mem.cr3 \in Live(mem)
      BY Zenon, AllOwned, Loaded
    <2> QED BY <1>1, <2>1, PctxNew
  <1> QED BY Zenon, <1>2, <1>3, <1>4, CallStep

(* Every step of init keeps the invariant. *)
LEMMA BootHolds ==
  ASSUME SpacesInv, ~mem.panicked, ~up, Boot
  PROVE  SpacesInv'
  BY Zenon, TouchStep, AddFrameStep, LoadImageStep, StartStep DEF Boot

(* Every call and every switch keeps the invariant. *)
LEMMA RunHolds ==
  ASSUME LeastGap, SpacesInv, ~mem.panicked, up, Run, UNCHANGED <<touched, added, up>>
  PROVE  SpacesInv'
  BY NewPctxStep, NewFrameStep, FreePctxStep, SetFrameStep, SetFlagsStep, FreeFrameStep,
     SwitchStep, SetStateStep, RespawnStep DEF Run

(* Every step keeps the invariant, a panic included. *)
LEMMA StepHolds ==
  ASSUME LeastGap, SpacesInv, [SpacesNext]_svars
  PROVE  SpacesInv'
  <1>1. CASE UNCHANGED svars
    BY Zenon, <1>1 DEF svars, SpacesInv, NothingLost, BootInv, ContextInv
  <1>2. CASE ~mem.panicked /\ ~up /\ Boot
    BY <1>2, BootHolds
  <1>3. CASE ~mem.panicked /\ up /\ Run /\ UNCHANGED <<touched, added, up>>
    BY <1>3, RunHolds
  <1> QED BY <1>1, <1>2, <1>3 DEF SpacesNext

-----------------------------------------------------------------------------
(* The context numbers are well-founded. *)
INSTANCE WellFoundedInduction

(* A set of contexts that is not empty has a least one. *)
LEMMA LeastExists == LeastGap
  <1> SUFFICES ASSUME NEW S \in SUBSET Pctx, S # {}
               PROVE  \E x \in S : \A y \in S : x <= y
    BY Zenon DEF LeastGap
  <1>1. PICK R : R = OpToRel(<, Nat)
    BY Zenon
  <1>2. S \subseteq Nat
    BY SomeContexts DEF Pctx
  <1>3. PICK x \in S : \A y \in S : ~(<<y, x>> \in R)
    BY <1>1, <1>2, NatLessThanWellFounded, WFMin
  <1>4. \A y \in S : ~(y < x)
    BY Zenon, <1>1, <1>2, <1>3 DEF OpToRel
  <1> QED BY <1>2, <1>4

(* The invariant of the address spaces holds from the boot code on,        *)
(* through init's loops and whatever calls, switches and panics follow,    *)
(* for any memory layout and any number of frames, contexts and threads.   *)
THEOREM SpacesHold == SpacesSpec => []SpacesInv
  <1>1. SpacesInit => SpacesInv
    BY InitHolds
  <1>2. SpacesInv /\ [SpacesNext]_svars => SpacesInv'
    BY LeastExists, StepHolds
  <1> QED BY <1>1, <1>2, PTL DEF SpacesSpec

(* Every entry that page_set or space_clone writes is a frame, and every   *)
(* pctx field a context number.                                            *)
THEOREM SpacesTyped == SpacesSpec => []SpacesTypeOK
  <1>1. SpacesInv => SpacesTypeOK
    BY Zenon DEF SpacesInv, MemInv, MemShape, BootInv, ContextInv, ContextOf, SpacesTypeOK
  <1> QED BY <1>1, SpacesHold, PTL

(* After any page_set, space_clone, pctx_free and thread_load: the spaces' *)
(* directories agree on the shared tables, boot keeps its order, and every *)
(* context that a thread has exists.                                       *)
THEOREM SpacesShaped == SpacesSpec => []SpacesShape
  <1>1. SpacesInv => SpacesShape
    BY DEF SpacesInv, MemInv, SpacesShape
  <1> QED BY <1>1, SpacesHold, PTL

(* A frame has one use: frame_new never returns one that a directory, a    *)
(* page table, a page or a client still has, and space_free gives none     *)
(* back twice or too early.                                                *)
THEOREM FramesHaveOneUse == SpacesSpec => []OneUse
  <1>1. SpacesInv => OneUse
    BY Zenon DEF SpacesInv, MemInv, MemShape, OneUse
  <1> QED BY <1>1, SpacesHold, PTL

(* heap.c: kernel memory is accessible from all address spaces.  The page  *)
(* tables that space_clone copied are those of every other space, however  *)
(* the kernel's heap grew since.                                           *)
THEOREM KernelInEverySpace == SpacesSpec => []KernelShared
  <1>1. ASSUME SpacesInv PROVE KernelShared
    <2>1. Windows(mem) /\ TablesShared(mem)
      BY <1>1 DEF SpacesInv, MemInv, MemShape
    <2>2. up => \A s \in KERNEL..(TMP - 1) : s \in SharedSeg /\ mem.dir[init_kmap][s] # 0
      <3>1. \A s \in KERNEL..(TMP - 1) : s \in SharedSeg /\ s - KERNEL < Touches
        BY LayoutInOrder DEF SharedSeg, Touches, KERNEL_SIZE, PGE
      <3>2. up => touched = Touches /\ TablesMade(mem, touched)
        BY <1>1 DEF SpacesInv, BootInv
      <3> QED BY <3>1, <3>2 DEF TablesMade
    <2> QED BY <2>1, <2>2 DEF KernelShared, Windows, TablesShared
  <1> QED BY <1>1, SpacesHold, PTL

(* space_free and the calls on frames and pages lose no frame: one that    *)
(* init added is free, in use or a client's.                               *)
THEOREM FramesKept == SpacesSpec => []NothingLost
  <1>1. SpacesInv => NothingLost
    BY DEF SpacesInv
  <1> QED BY <1>1, SpacesHold, PTL

(* thread_load and KCALL_SETSTATE: the space in cr3 is the one of the      *)
(* running thread's context.                                               *)
THEOREM RunsInItsSpace == SpacesSpec => []ContextMatch
  <1>1. SpacesInv => ContextMatch
    BY DEF SpacesInv, ContextInv, ContextOf, ContextMatch
  <1> QED BY <1>1, SpacesHold, PTL

=============================================================================
