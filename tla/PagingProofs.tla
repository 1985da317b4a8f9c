---------------------------- MODULE PagingProofs ----------------------------
(***************************************************************************)
(* The memory of Paging, for any number of frames, segments, pages and     *)
(* contexts.  A frame changes its use by way of the clients' frames: it is *)
(* taken from the free ones, and then becomes a page, a page table or a    *)
(* page directory.  The first part has one lemma per change of use, the    *)
(* second one per operation of page.c, mem.c and pctx.c.                   *)
(***************************************************************************)
EXTENDS Paging, TLAPS

(* Time limits for a leaf that names no prover: the provers in their       *)
(* default order, with time to spare.                                      *)
USE SMTT(30), ZenonT(30)

Owned(m, h, a) == MemInv(m, h, a) /\ NoneLost(m, h, a)

(* The parts of an address space, in the order of the layout. *)
LEMMA Layout ==
  /\ TMP \in Seg /\ PGE \in Seg /\ TMP # PGE
  /\ UserSeg \subseteq Seg /\ SharedSeg \subseteq Seg /\ UserSeg \cap SharedSeg = {}
  /\ TMP \notin UserSeg \cup SharedSeg /\ PGE \notin UserSeg \cup SharedSeg
  /\ KERNEL \in SharedSeg /\ KERNEL..(TMP - 1) \subseteq SharedSeg
  /\ SYSTEM..(PGE - 1) = SharedSeg \cup {TMP}
  BY LayoutInOrder DEF Seg, PGE, UserSeg, SharedSeg

(* Members of the sets of frames in use. *)
LEMMA LiveAre ==
  ASSUME NEW m, NEW d
  PROVE  d \in Live(m) <=> d = init_kmap \/ (d # 0 /\ \E c \in Pctx : m.pctx_table[c] = d)
  BY DEF Live

(* A page table is what a directory in use has in one of its segments. *)
LEMMA TablesAre ==
  ASSUME NEW m, NEW t
  PROVE  t \in Tables(m) <=>
           t # 0 /\ \E d \in Live(m), s \in UserSeg \cup SharedSeg : m.dir[d][s] = t
  BY DEF Tables

(* A mapped frame is what a page table has in one of its slots. *)
LEMMA MappedAre ==
  ASSUME NEW m, NEW f
  PROVE  f \in Mapped(m) <=> f # 0 /\ \E t \in Tables(m), n \in Slot : m.tbl[t][n].frame = f
  BY DEF Mapped

(* A page table under two entries of the directories. *)
Repeats(m, d, s, e, q) == m.dir[d][s] # 0 /\ m.dir[d][s] = m.dir[e][q]

(* A page table is in one place, or shared by all spaces. *)
LEMMA TableOnce ==
  ASSUME NEW m, NEW d, NEW e, NEW s, NEW q, OneTable(m), d \in Live(m), e \in Live(m),
         s \in UserSeg \cup SharedSeg, q \in UserSeg \cup SharedSeg, Repeats(m, d, s, e, q)
  PROVE  s = q /\ (s \in UserSeg => d = e)
  BY DEF OneTable, Repeats

(* Fields. *)
LEMMA MemTypes ==
  ASSUME NEW m \in MemoryData
  PROVE  /\ m.dir \in [Frame -> [Seg -> Frame]] /\ m.tbl \in [Frame -> [Slot -> Entry]]
         /\ m.cr3 \in Frame /\ m.pctx_table \in [Pctx -> Frame] /\ m.active_pctx \in Pctx
         /\ m.free \subseteq Ram /\ m.pool \subseteq Pool /\ m.panicked \in BOOLEAN
         /\ Live(m) \subseteq Frame /\ 0 \notin Live(m) /\ init_kmap \in Live(m)
         /\ Tables(m) \subseteq Frame /\ Mapped(m) \subseteq Frame
  <1>1. /\ m.dir \in [Frame -> [Seg -> Frame]] /\ m.tbl \in [Frame -> [Slot -> Entry]]
        /\ m.cr3 \in Frame /\ m.pctx_table \in [Pctx -> Frame] /\ m.active_pctx \in Pctx
        /\ m.free \subseteq Ram /\ m.pool \subseteq Pool /\ m.panicked \in BOOLEAN
    BY DEF MemoryData
  <1>2. Live(m) \subseteq Frame /\ 0 \notin Live(m) /\ init_kmap \in Live(m)
    BY <1>1, FramesDistinct DEF Live, Frame
  <1>3. Tables(m) \subseteq Frame
    <2>1. \A d \in Live(m), s \in UserSeg \cup SharedSeg : m.dir[d][s] \in Frame
      BY <1>1, <1>2, Layout
    <2> QED BY <2>1, TablesAre
  <1>4. Mapped(m) \subseteq Frame
    BY <1>1, <1>3 DEF Mapped, Entry
  <1> QED BY <1>1, <1>2, <1>3, <1>4

-----------------------------------------------------------------------------
(* A frame changes its use. *)

(* Nothing but the free frames and the clients' change. *)
LEMMA Exchange ==
  ASSUME NEW m, NEW h, NEW a, Owned(m, h, a), NEW r \in MemoryData, NEW i, NEW b,
         r.dir = m.dir, r.tbl = m.tbl, r.pctx_table = m.pctx_table,
         i \subseteq Ram \cup Pool, b \subseteq Ram,
         Taken(m) \cap (r.free \cup r.pool \cup i) = {},
         i \cap (r.free \cup r.pool) = {},
         (r.free \cup i) \cap Ram \subseteq b, a \subseteq b, b \subseteq r.free \cup Taken(m) \cup i
  PROVE  Owned(r, i, b)
  <1>1. Live(r) = Live(m) /\ Tables(r) = Tables(m) /\ Mapped(r) = Mapped(m)
    BY DEF Live, Tables, Mapped
  <1>2. Taken(r) = Taken(m)
    BY <1>1 DEF Taken
  <1>3. OneUseOf(r, i)
    <2>1. OneSpace(r) /\ OneTable(r) /\ OnePage(r)
      BY <1>1 DEF Owned, MemInv, MemShape, OneUseOf, OneSpace, OneTable, OnePage
    <2> QED BY <1>1, <1>2, <2>1 DEF Owned, MemInv, MemShape, OneUseOf
  <1>4. (r.free \cup Taken(r) \cup i) \cap Ram \subseteq b
    BY <1>2 DEF Owned, MemInv, MemShape
  <1>5. NoneLost(r, i, b)
    BY <1>2 DEF NoneLost
  <1>6. Windows(r) /\ TablesShared(r) /\ NoneHalf(r)
    <2>1. Windows(m) /\ TablesShared(m) /\ NoneHalf(m)
      BY Zenon DEF Owned, MemInv, MemShape
    <2>2. Windows(r)
      BY Zenon, <1>1, <2>1 DEF Windows
    <2>3. TablesShared(r)
      BY Zenon, <1>1, <2>1 DEF TablesShared
    <2>4. NoneHalf(r)
      BY <2>1 DEF NoneHalf
    <2> QED BY Zenon, <2>2, <2>3, <2>4
  <1> QED BY <1>1, <1>3, <1>4, <1>5, <1>6 DEF Owned, MemInv, MemShape

(* A frame that was a client's becomes the page table of segment s of the  *)
(* space d: a user's segment, or any while there is one space.             *)
MakesTable(m, r, d, s, f) ==
  /\ r \in MemoryData /\ r.dir = [m.dir EXCEPT ![d] = [@ EXCEPT ![s] = f]]
  /\ r.tbl = [m.tbl EXCEPT ![f] = EmptyTbl]
  /\ r.pctx_table = m.pctx_table /\ r.free = m.free /\ r.pool = m.pool

(* A client's frame becomes the blank page table of a segment that has     *)
(* none: each frame still has one use. A shared segment may only get one   *)
(* while there is a single space.                                          *)
LEMMA NewTable ==
  ASSUME NEW m, NEW h, NEW a, Owned(m, h, a), NEW r,
         NEW f \in h, NEW d \in Live(m), NEW s \in UserSeg \cup SharedSeg,
         s \in UserSeg \/ Live(m) = {init_kmap}, m.dir[d][s] = 0,
         MakesTable(m, r, d, s, f)
  PROVE  Owned(r, h \ {f}, a)
  <1>1. m \in MemoryData /\ h \subseteq Ram \cup Pool /\ OneUseOf(m, h)
    BY DEF Owned, MemInv, MemShape
  <1>2. /\ f \in Frame /\ f # 0 /\ f # d /\ f \notin Live(m) /\ f \notin Tables(m)
        /\ f \notin Mapped(m) /\ f \notin m.free /\ f \notin m.pool
    BY <1>1, FramesDistinct DEF OneUseOf, Frame, Taken
  <1>0. /\ m.dir \in [Frame -> [Seg -> Frame]] /\ m.tbl \in [Frame -> [Slot -> Entry]]
        /\ Live(m) \subseteq Frame /\ init_kmap \in Live(m) /\ Tables(m) \subseteq Frame
        /\ d \in Frame /\ s \in Seg /\ init_kmap \in Frame
    BY Zenon, <1>1, MemTypes, Layout
  <1>3. /\ r.dir[d][s] = f
        /\ \A e \in Frame, q \in Seg : e # d \/ q # s => r.dir[e][q] = m.dir[e][q]
    <2>1. r.dir[d] = [m.dir[d] EXCEPT ![s] = f] /\ m.dir[d] \in [Seg -> Frame]
      BY <1>0 DEF MakesTable
    <2>2. \A e \in Frame \ {d} : r.dir[e] = m.dir[e]
      BY <1>0 DEF MakesTable
    <2>3. \A q \in Seg \ {s} : r.dir[d][q] = m.dir[d][q]
      BY <1>0, <2>1
    <2>4. r.dir[d][s] = f
      BY <1>0, <2>1
    <2> QED BY Zenon, <1>0, <2>2, <2>3, <2>4
  <1>4. \A t \in Frame : r.tbl[t] = IF t = f THEN EmptyTbl ELSE m.tbl[t]
    BY <1>0 DEF MakesTable
  <1>5. /\ Live(r) = Live(m) /\ r.pctx_table = m.pctx_table /\ r.free = m.free
        /\ r.pool = m.pool /\ r \in MemoryData
    BY DEF Live, MakesTable
  <1>6. Tables(r) = Tables(m) \cup {f}
    <2>1. ASSUME NEW t \in Tables(r) PROVE t \in Tables(m) \cup {f}
      <3>1. PICK e \in Live(m), q \in UserSeg \cup SharedSeg : r.dir[e][q] = t
        BY <1>5, TablesAre
      <3>2. e \in Frame /\ q \in Seg /\ t # 0
        BY <1>0, Layout, TablesAre
      <3>3. t # f => m.dir[e][q] = t
        BY <1>3, <3>1, <3>2
      <3> QED BY <3>2, <3>3, TablesAre
    <2>2. ASSUME NEW t \in Tables(m) PROVE t \in Tables(r)
      <3>1. PICK e \in Live(m), q \in UserSeg \cup SharedSeg : m.dir[e][q] = t
        BY TablesAre
      <3>2. e \in Frame /\ q \in Seg /\ t # 0
        BY <1>0, Layout, TablesAre
      <3>3. r.dir[e][q] = t
        BY <1>3, <3>1, <3>2
      <3> QED BY <1>5, <3>2, <3>3, TablesAre
    <2>3. f \in Tables(r)
      BY <1>2, <1>3, <1>5, TablesAre
    <2> QED BY <2>1, <2>2, <2>3
  <1>7. \A t \in Tables(m), n \in Slot : r.tbl[t][n] = m.tbl[t][n]
    BY Zenon, <1>0, <1>2, <1>4
  <1>8. \A n \in Slot : r.tbl[f][n] = NoEntry
    BY <1>2, <1>4 DEF EmptyTbl
  <1>9. Mapped(r) = Mapped(m)
    <2>1. ASSUME NEW g \in Mapped(r) PROVE g \in Mapped(m)
      <3>1. PICK t \in Tables(r), n \in Slot : r.tbl[t][n].frame = g /\ g # 0
        BY MappedAre
      <3>2. t # f
        BY <1>8, <3>1 DEF NoEntry
      <3>3. t \in Tables(m) /\ m.tbl[t][n].frame = g
        BY <1>6, <1>7, <3>1, <3>2
      <3> QED BY <3>1, <3>3, MappedAre
    <2>2. ASSUME NEW g \in Mapped(m) PROVE g \in Mapped(r)
      <3>1. PICK t \in Tables(m), n \in Slot : m.tbl[t][n].frame = g /\ g # 0
        BY MappedAre
      <3>2. t \in Tables(r) /\ r.tbl[t][n].frame = g
        BY <1>6, <1>7, <3>1
      <3> QED BY <3>1, <3>2, MappedAre
    <2> QED BY Zenon, <2>1, <2>2
  <1>10. Taken(r) = Taken(m) \cup {f}
    BY <1>5, <1>6, <1>9 DEF Taken
  <1>11. OneUseOf(r, h \ {f})
    <2>1. OneSpace(r)
      BY <1>1, <1>5 DEF OneUseOf, OneSpace
    <2>2. ASSUME NEW x \in Live(r), NEW e \in Live(r), NEW p \in UserSeg \cup SharedSeg,
                 NEW q \in UserSeg \cup SharedSeg, r.dir[x][p] = r.dir[e][q], r.dir[x][p] # 0
          PROVE  p = q /\ (p \in UserSeg => x = e)
      <3>1. x \in Live(m) /\ e \in Live(m) /\ x \in Frame /\ e \in Frame /\ p \in Seg /\ q \in Seg
        BY <1>1, <1>5, MemTypes, Layout
      <3>2. m.dir[x][p] # f /\ m.dir[e][q] # f
        BY <1>2, <3>1, TablesAre
      <3> QED BY <1>1, <1>3, <2>2, <3>1, <3>2 DEF OneUseOf, OneTable
    <2>3. ASSUME NEW t \in Tables(r), NEW u \in Tables(r), NEW i \in Slot, NEW j \in Slot,
                 r.tbl[t][i].frame = r.tbl[u][j].frame, r.tbl[t][i].frame # 0
          PROVE  t = u /\ i = j
      <3>1. t \in Tables(m) /\ u \in Tables(m)
        BY <1>6, <1>8, <2>3 DEF NoEntry
      <3> QED BY <1>1, <1>7, <2>3, <3>1 DEF OneUseOf, OnePage
    <2>4. Live(r) \cap Tables(r) = {} /\ (Live(r) \cup Tables(r)) \cap Mapped(r) = {}
      BY <1>1, <1>2, <1>5, <1>6, <1>9 DEF OneUseOf
    <2>5. Taken(r) \cap (r.free \cup r.pool \cup (h \ {f})) = {}
      BY <1>1, <1>2, <1>5, <1>10 DEF OneUseOf
    <2>6. (h \ {f}) \cap (r.free \cup r.pool) = {}
      BY <1>1, <1>5 DEF OneUseOf
    <2>7. OneTable(r) /\ OnePage(r)
      BY <2>2, <2>3 DEF OneTable, OnePage
    <2> QED BY <2>1, <2>4, <2>5, <2>6, <2>7 DEF OneUseOf
  <1>12. Windows(r)
    <2>1. \A e \in Live(m) : m.dir[e][PGE] = e /\ e \in Frame
      BY <1>0 DEF Owned, MemInv, MemShape, Windows
    <2> QED BY <1>3, <1>5, <2>1, Layout DEF Windows
  <1>13. TablesShared(r)
    <2> SUFFICES \A e \in Live(r), q \in SharedSeg : r.dir[e][q] = r.dir[init_kmap][q]
      BY DEF TablesShared
    <2>1. \A e \in Live(m), q \in SharedSeg : m.dir[e][q] = m.dir[init_kmap][q] /\ e \in Frame
      BY <1>0 DEF Owned, MemInv, MemShape, TablesShared
    <2>2. CASE s \in UserSeg
      <3>1. \A e \in Live(m), q \in SharedSeg : r.dir[e][q] = m.dir[e][q]
        BY Zenon, <1>0, <1>3, <2>2, Layout
      <3> QED BY <1>0, <1>5, <2>1, <3>1
    <2>3. CASE Live(m) = {init_kmap}
      BY <1>5, <2>3
    <2> QED BY <2>2, <2>3
  <1>14. NoneHalf(r)
    <2>0. SUFFICES ASSUME NEW q \in SharedSeg, NEW n \in Slot, NEW t, t = r.dir[init_kmap][q],
                          t # 0, ~r.tbl[t][n].pres
                   PROVE  r.tbl[t][n].frame = 0
      BY DEF NoneHalf
    <2>1. CASE t = f
      BY <1>8, <2>1 DEF NoEntry
    <2>2. CASE t # f
      <3>1. t = m.dir[init_kmap][q] /\ init_kmap \in Live(m)
        BY <1>0, <1>3, <2>0, <2>2, Layout
      <3>2. t \in Tables(m)
        BY <2>0, <3>1, TablesAre
      <3>3. NoneHalf(m)
        BY Zenon DEF Owned, MemInv, MemShape
      <3>4. r.tbl[t][n] = m.tbl[t][n]
        BY Zenon, <1>7, <3>2
      <3> QED BY Zenon, <2>0, <3>1, <3>3, <3>4 DEF NoneHalf
    <2> QED BY <2>1, <2>2
  <1>15. (r.free \cup Taken(r) \cup (h \ {f})) \cap Ram \subseteq a
    BY <1>5, <1>10 DEF Owned, MemInv, MemShape
  <1>16. NoneLost(r, h \ {f}, a)
    BY <1>5, <1>10 DEF Owned, NoneLost
  <1>17. /\ h \ {f} \subseteq Ram \cup Pool /\ a \subseteq Ram
         /\ (\A c \in Pctx : r.pctx_table[c] # init_kmap) /\ Mapped(r) \subseteq Ram \cup Pool
    BY <1>5, <1>9 DEF Owned, MemInv, MemShape
  <1>18. MemInv(r, h \ {f}, a)
    BY <1>5, <1>11, <1>12, <1>13, <1>14, <1>15, <1>17 DEF MemInv, MemShape
  <1> QED BY <1>16, <1>18 DEF Owned

(* The entry of page n of the table t becomes e: a client's frame, or none *)
(* or the frame that was there.  The frame it replaces is a client's.      *)
SetsEntry(m, r, t, n, e) ==
  /\ r \in MemoryData /\ r.tbl = [m.tbl EXCEPT ![t] = [@ EXCEPT ![n] = e]]
  /\ r.dir = m.dir /\ r.pctx_table = m.pctx_table /\ r.free = m.free /\ r.pool = m.pool

(* The entry e for slot n of the page table t: a client's frame, or the    *)
(* slot's own, or none, and the clients have i in exchange.                *)
Replaces(m, h, t, n, e, old, i) ==
  /\ t \in Tables(m) /\ n \in Slot /\ e \in Entry
  /\ old = m.tbl[t][n].frame /\ e.frame \in h \cup {0, old}
  /\ (\A s \in SharedSeg : m.dir[init_kmap][s] # t) \/ e.pres \/ e.frame = 0
  /\ i = (h \ {e.frame}) \cup ({old} \ {0, e.frame})

(* A client's frame becomes a page, and the page's old frame the client's. *)
LEMMA NewEntry ==
  ASSUME NEW m, NEW h, NEW a, NEW r, NEW t, NEW n, NEW e, NEW old, NEW i,
         Owned(m, h, a), SetsEntry(m, r, t, n, e), Replaces(m, h, t, n, e, old, i)
  PROVE  Owned(r, i, a)
  <1>0. /\ t \in Tables(m) /\ n \in Slot /\ e \in Entry
        /\ old = m.tbl[t][n].frame /\ e.frame \in h \cup {0, old}
        /\ (\A s \in SharedSeg : m.dir[init_kmap][s] # t) \/ e.pres \/ e.frame = 0
        /\ i = (h \ {e.frame}) \cup ({old} \ {0, e.frame})
    BY Zenon DEF Replaces
  <1> USE <1>0
  <1>1. m \in MemoryData /\ h \subseteq Ram \cup Pool /\ OneUseOf(m, h)
    BY DEF Owned, MemInv, MemShape
  <1>2. /\ m.dir \in [Frame -> [Seg -> Frame]] /\ m.tbl \in [Frame -> [Slot -> Entry]]
        /\ Tables(m) \subseteq Frame /\ t \in Frame
    BY <1>1, MemTypes
  <1>3. /\ r.tbl[t][n] = e
        /\ \A u \in Frame, j \in Slot : u # t \/ j # n => r.tbl[u][j] = m.tbl[u][j]
    <2>1. r.tbl[t] = [m.tbl[t] EXCEPT ![n] = e] /\ m.tbl[t] \in [Slot -> Entry]
      BY <1>2 DEF SetsEntry
    <2>2. \A u \in Frame \ {t} : r.tbl[u] = m.tbl[u]
      BY <1>2 DEF SetsEntry
    <2>3. \A j \in Slot \ {n} : r.tbl[t][j] = m.tbl[t][j]
      BY <2>1
    <2>4. r.tbl[t][n] = e
      BY <2>1
    <2> QED BY <1>2, <2>2, <2>3, <2>4
  <1>4. /\ Live(r) = Live(m) /\ Tables(r) = Tables(m) /\ r.pctx_table = m.pctx_table
        /\ r.free = m.free /\ r.pool = m.pool /\ r.dir = m.dir /\ r \in MemoryData
    BY DEF Live, Tables, SetsEntry
  <1>5. old # 0 => old \in Mapped(m)
    BY MappedAre
  <1>6. \A u \in Tables(m), j \in Slot : m.tbl[u][j].frame = old /\ old # 0 => u = t /\ j = n
    BY <1>1 DEF OneUseOf, OnePage
  <1>7. \A u \in Tables(m), j \in Slot :
          m.tbl[u][j].frame = e.frame /\ e.frame # 0 => u = t /\ j = n
    <2>1. e.frame \in h => e.frame \notin Mapped(m)
      BY <1>1 DEF OneUseOf, Taken
    <2>2. CASE e.frame \in h
      BY <2>1, <2>2, MappedAre
    <2> QED BY <1>6, <2>2
  <1>8. Mapped(r) = (Mapped(m) \ {old}) \cup ({e.frame} \ {0})
    <2>1. ASSUME NEW g \in Mapped(r) PROVE g \in (Mapped(m) \ {old}) \cup ({e.frame} \ {0})
      <3>1. PICK u \in Tables(m), j \in Slot : r.tbl[u][j].frame = g /\ g # 0
        BY <1>4, MappedAre
      <3>2. CASE u = t /\ j = n
        BY <1>3, <3>1, <3>2
      <3>3. CASE u # t \/ j # n
        <4>1. m.tbl[u][j].frame = g
          BY <1>2, <1>3, <3>1, <3>3
        <4> QED BY <1>6, <3>1, <3>3, <4>1, MappedAre
      <3> QED BY <3>2, <3>3
    <2>2. ASSUME NEW g \in Mapped(m) \ {old} PROVE g \in Mapped(r)
      <3>1. PICK u \in Tables(m), j \in Slot : m.tbl[u][j].frame = g /\ g # 0
        BY MappedAre
      <3>2. r.tbl[u][j].frame = g
        BY Zenon, <1>2, <1>3, <3>1
      <3> QED BY <1>4, <3>1, <3>2, MappedAre
    <2>3. e.frame # 0 => e.frame \in Mapped(r)
      BY <1>3, <1>4, MappedAre
    <2> QED BY <2>1, <2>2, <2>3
  <1>9. OneUseOf(r, i)
    <2>1. OneSpace(r) /\ OneTable(r)
      BY <1>1, <1>4 DEF OneUseOf, OneSpace, OneTable
    <2>2. ASSUME NEW u \in Tables(r), NEW v \in Tables(r), NEW j \in Slot, NEW k \in Slot,
                 r.tbl[u][j].frame = r.tbl[v][k].frame, r.tbl[u][j].frame # 0
          PROVE  u = v /\ j = k
      <3>1. \A w \in Tables(m), l \in Slot :
              (w = t /\ l = n /\ r.tbl[w][l].frame = e.frame)
                \/ ((w # t \/ l # n) /\ r.tbl[w][l].frame = m.tbl[w][l].frame)
        BY <1>2, <1>3
      <3>2. \A w, x \in Tables(m) : \A l, y \in Slot :
              m.tbl[w][l].frame = m.tbl[x][y].frame /\ m.tbl[w][l].frame # 0 => w = x /\ l = y
        BY <1>1 DEF OneUseOf, OnePage
      <3>3. u \in Tables(m) /\ v \in Tables(m)
        BY Zenon, <1>4
      <3>4. CASE u = t /\ j = n /\ v = t /\ k = n
        BY Zenon, <3>4
      <3>5. CASE (u # t \/ j # n) /\ (v # t \/ k # n)
        <4>1. r.tbl[u][j].frame = m.tbl[u][j].frame /\ r.tbl[v][k].frame = m.tbl[v][k].frame
          BY Zenon, <3>1, <3>3, <3>5
        <4>2. m.tbl[u][j].frame = m.tbl[v][k].frame /\ m.tbl[u][j].frame # 0
          BY Zenon, <2>2, <4>1
        <4> QED BY <3>2, <3>3, <4>2
      <3>6. CASE u = t /\ j = n /\ (v # t \/ k # n)
        BY <1>7, <2>2, <3>1, <3>3, <3>6
      <3>7. CASE (u # t \/ j # n) /\ v = t /\ k = n
        BY <1>7, <2>2, <3>1, <3>3, <3>7
      <3> QED BY Zenon, <3>4, <3>5, <3>6, <3>7
    <2>3. Live(r) \cap Tables(r) = {} /\ (Live(r) \cup Tables(r)) \cap Mapped(r) = {}
      BY <1>1, <1>4, <1>5, <1>8 DEF OneUseOf, Taken
    <2>4. Taken(r) \cap (r.free \cup r.pool \cup i) = {}
      <3>1. /\ Taken(m) \cap (m.free \cup m.pool \cup h) = {} /\ h \cap (m.free \cup m.pool) = {}
            /\ Live(m) \cap Tables(m) = {} /\ (Live(m) \cup Tables(m)) \cap Mapped(m) = {}
        BY Zenon, <1>1 DEF OneUseOf
      <3> QED BY <1>4, <1>5, <1>8, <3>1 DEF Taken
    <2>5. i \cap (r.free \cup r.pool) = {}
      BY <1>1, <1>4, <1>5 DEF OneUseOf, Taken
    <2>6. OnePage(r)
      <3>1. \A u, v \in Tables(r) : \A j, k \in Slot :
              r.tbl[u][j].frame = r.tbl[v][k].frame /\ r.tbl[u][j].frame # 0 => u = v /\ j = k
        BY <2>2
      <3> QED BY Zenon, <3>1 DEF OnePage
    <2> QED BY <2>1, <2>3, <2>4, <2>5, <2>6 DEF OneUseOf
  <1>10. Windows(r) /\ TablesShared(r) /\ \A c \in Pctx : r.pctx_table[c] # init_kmap
    BY <1>4 DEF Owned, MemInv, MemShape, Windows, TablesShared
  <1>11. NoneHalf(r)
    <2>0. SUFFICES ASSUME NEW s \in SharedSeg, NEW j \in Slot, NEW u, u = r.dir[init_kmap][s],
                          u # 0
                   PROVE  ~r.tbl[u][j].pres => r.tbl[u][j].frame = 0
      BY DEF NoneHalf
    <2>1. u = m.dir[init_kmap][s] /\ u \in Frame
      <3>1. u = m.dir[init_kmap][s]
        BY Zenon, <1>4, <2>0
      <3>2. init_kmap \in Frame /\ s \in Seg
        BY Layout DEF Frame
      <3> QED BY Zenon, <1>2, <3>1, <3>2
    <2>2. ~m.tbl[u][j].pres => m.tbl[u][j].frame = 0
      BY Zenon, <2>0, <2>1 DEF Owned, MemInv, MemShape, NoneHalf
    <2> QED BY Zenon, <1>3, <2>0, <2>1, <2>2
  <1>12. (r.free \cup Taken(r) \cup i) \cap Ram \subseteq a
    BY <1>4, <1>5, <1>8 DEF Owned, MemInv, MemShape, Taken
  <1>13. NoneLost(r, i, a)
    <2>1. (Taken(m) \cup h) \ {0} \subseteq Taken(r) \cup i
      BY <1>4, <1>8 DEF Taken
    <2>2. 0 \notin a
      BY FramesDistinct DEF Owned, MemInv, MemShape
    <2> QED BY <1>4, <2>1, <2>2 DEF Owned, NoneLost
  <1>14. i \subseteq Ram \cup Pool /\ a \subseteq Ram /\ Mapped(r) \subseteq Ram \cup Pool
    BY <1>1, <1>5, <1>8 DEF Owned, MemInv, MemShape
  <1>15. MemInv(r, i, a)
    BY <1>4, <1>9, <1>10, <1>11, <1>12, <1>14 DEF MemInv, MemShape
  <1> QED BY <1>13, <1>15 DEF Owned

(* What the directory entries of the window TMP show does not matter, and  *)
(* neither does what is in a frame that is no page table.                  *)
SameButWindow(m, r) == \A d \in Frame, s \in Seg \ {TMP} : r.dir[d][s] = m.dir[d][s]

(* What a directory has in its window segments is no use of a frame, so    *)
(* that pointing exmap elsewhere changes none.                             *)
LEMMA MoveWindow ==
  ASSUME NEW m, NEW h, NEW a, Owned(m, h, a), NEW r \in MemoryData,
         SameButWindow(m, r), \A t \in Tables(m) : r.tbl[t] = m.tbl[t], r.pctx_table = m.pctx_table,
         r.free = m.free, r.pool = m.pool
  PROVE  Owned(r, h, a)
  <1>1. m \in MemoryData /\ OneUseOf(m, h)
    BY DEF Owned, MemInv, MemShape
  <1>2. Live(r) = Live(m) /\ Live(m) \subseteq Frame /\ init_kmap \in Live(m)
    BY <1>1, MemTypes DEF Live
  <1>3. \A d \in Live(m), s \in UserSeg \cup SharedSeg \cup {PGE} : r.dir[d][s] = m.dir[d][s]
    BY <1>2, Layout DEF SameButWindow
  <1>4. Tables(r) = Tables(m)
    <2>1. ASSUME NEW t PROVE t \in Tables(r) <=> t \in Tables(m)
      BY <1>2, <1>3, TablesAre
    <2> QED BY <2>1
  <1>5. Mapped(r) = Mapped(m)
    <2>1. ASSUME NEW f PROVE f \in Mapped(r) <=> f \in Mapped(m)
      BY <1>4, MappedAre
    <2> QED BY <2>1
  <1>6. Taken(r) = Taken(m)
    BY <1>2, <1>4, <1>5 DEF Taken
  <1>7. OneUseOf(r, h)
    <2>1. OneTable(r)
      BY <1>1, <1>2, <1>3 DEF OneUseOf, OneTable
    <2>2. OnePage(r) /\ OneSpace(r)
      BY <1>1, <1>4 DEF OneUseOf, OnePage, OneSpace
    <2> QED BY <1>1, <1>2, <1>4, <1>5, <1>6, <2>1, <2>2 DEF OneUseOf
  <1>8. Windows(r) /\ TablesShared(r)
    BY <1>2, <1>3 DEF Owned, MemInv, MemShape, Windows, TablesShared
  <1>9. NoneHalf(r)
    <2>0. SUFFICES ASSUME NEW s \in SharedSeg, NEW n \in Slot, NEW t, t = r.dir[init_kmap][s],
                          t # 0
                   PROVE  ~r.tbl[t][n].pres => r.tbl[t][n].frame = 0
      BY DEF NoneHalf
    <2>1. t = m.dir[init_kmap][s]
      BY <1>2, <1>3, <2>0
    <2>2. t \in Tables(m)
      BY <1>2, <2>0, <2>1, TablesAre
    <2>3. r.tbl[t] = m.tbl[t]
      BY Zenon, <2>2
    <2>4. ~m.tbl[t][n].pres => m.tbl[t][n].frame = 0
      BY <2>0, <2>1 DEF Owned, MemInv, MemShape, NoneHalf
    <2> QED BY <2>3, <2>4
  <1>10. MemInv(r, h, a)
    BY <1>5, <1>6, <1>7, <1>8, <1>9 DEF Owned, MemInv, MemShape
  <1> QED BY <1>6, <1>10 DEF Owned, NoneLost

(* A client's frame f becomes the page directory of context c. *)
MakesSpace(m, r, c, f) ==
  /\ r \in MemoryData /\ r.tbl = m.tbl /\ r.pctx_table = [m.pctx_table EXCEPT ![c] = f]
  /\ \A d \in Frame \ {f}, s \in Seg \ {TMP} : r.dir[d][s] = m.dir[d][s]
  /\ r.dir[f][PGE] = f /\ \A s \in UserSeg : r.dir[f][s] = 0
  /\ \A s \in SharedSeg : r.dir[f][s] = m.dir[init_kmap][s]
  /\ r.free = m.free /\ r.pool = m.pool

(* A client's frame becomes the directory of a free context, with the      *)
(* kernel's and the system's tables and no others.                         *)
LEMMA NewSpace ==
  ASSUME NEW m, NEW h, NEW a, Owned(m, h, a), NEW r,
         NEW f \in h, NEW c \in Pctx, m.pctx_table[c] = 0, MakesSpace(m, r, c, f)
  PROVE  Owned(r, h \ {f}, a)
  <1>1. m \in MemoryData /\ h \subseteq Ram \cup Pool /\ OneUseOf(m, h)
    BY DEF Owned, MemInv, MemShape
  <1>2. /\ m.pctx_table \in [Pctx -> Frame] /\ Live(m) \subseteq Frame
        /\ init_kmap \in Live(m) /\ r \in MemoryData
        /\ r.free = m.free /\ r.pool = m.pool /\ r.tbl = m.tbl
    BY <1>1, MemTypes DEF MakesSpace
  <1>3. /\ f \in Frame /\ f # 0 /\ f # init_kmap /\ f \notin Live(m) /\ f \notin Tables(m)
        /\ f \notin Mapped(m) /\ f \notin m.free /\ f \notin m.pool
    BY <1>1, FramesDistinct DEF OneUseOf, Frame, Taken
  <1>4. r.pctx_table[c] = f /\ \A e \in Pctx \ {c} : r.pctx_table[e] = m.pctx_table[e]
    BY <1>2 DEF MakesSpace
  <1>5. Live(r) = Live(m) \cup {f}
    <2>1. ASSUME NEW d PROVE d \in Live(r) <=> d \in Live(m) \cup {f}
      BY <1>3, <1>4, LiveAre
    <2> QED BY <2>1
  <1>6. /\ \A d \in Live(m), s \in UserSeg \cup SharedSeg \cup {PGE} :
             r.dir[d][s] = m.dir[d][s]
        /\ r.dir[f][PGE] = f /\ \A s \in UserSeg : r.dir[f][s] = 0
        /\ \A s \in SharedSeg : r.dir[f][s] = m.dir[init_kmap][s]
    <2>1. \A d \in Live(m) : d \in Frame \ {f}
      BY Zenon, <1>2, <1>3
    <2>2. UserSeg \cup SharedSeg \cup {PGE} \subseteq Seg \ {TMP}
      BY Layout
    <2>3. \A d \in Live(m), s \in UserSeg \cup SharedSeg \cup {PGE} :
            r.dir[d][s] = m.dir[d][s]
      BY Zenon, <2>1, <2>2 DEF MakesSpace
    <2> QED BY Zenon, <2>3 DEF MakesSpace
  <1>7. Tables(r) = Tables(m)
    <2>1. ASSUME NEW t \in Tables(r) PROVE t \in Tables(m)
      <3>1. PICK d \in Live(m) \cup {f}, s \in UserSeg \cup SharedSeg :
              r.dir[d][s] = t /\ t # 0
        BY <1>5, TablesAre
      <3>2. CASE d = f
        BY <1>2, <1>6, <3>1, <3>2, TablesAre
      <3>3. CASE d # f
        BY <1>6, <3>1, <3>3, TablesAre
      <3> QED BY <3>2, <3>3
    <2>2. ASSUME NEW t \in Tables(m) PROVE t \in Tables(r)
      <3>1. PICK d \in Live(m), s \in UserSeg \cup SharedSeg : m.dir[d][s] = t /\ t # 0
        BY TablesAre
      <3> QED BY <1>5, <1>6, <3>1, TablesAre
    <2> QED BY Zenon, <2>1, <2>2
  <1>8. Mapped(r) = Mapped(m)
    BY <1>2, <1>7 DEF Mapped
  <1>9. Taken(r) = Taken(m) \cup {f}
    BY <1>5, <1>7, <1>8 DEF Taken
  <1>10. OneUseOf(r, h \ {f})
    <2>1. OneSpace(r)
      <3>1. \A e \in Pctx : m.pctx_table[e] # f
        BY <1>3, LiveAre
      <3> QED BY <1>1, <1>4, <3>1 DEF OneUseOf, OneSpace
    <2>2. ASSUME NEW d \in Live(r), NEW e \in Live(r), NEW s \in UserSeg \cup SharedSeg,
                 NEW q \in UserSeg \cup SharedSeg, r.dir[d][s] = r.dir[e][q], r.dir[d][s] # 0
          PROVE  s = q /\ (s \in UserSeg => d = e)
      <3> DEFINE as(x) == IF x = f THEN init_kmap ELSE x
      <3>1. \A x \in Live(r), p \in UserSeg \cup SharedSeg : r.dir[x][p] # 0 =>
              /\ as(x) \in Live(m) /\ r.dir[x][p] = m.dir[as(x)][p]
              /\ p \in UserSeg => x = as(x)
        <4>1. SUFFICES ASSUME NEW x \in Live(r), NEW p \in UserSeg \cup SharedSeg, r.dir[x][p] # 0
                       PROVE  /\ as(x) \in Live(m) /\ r.dir[x][p] = m.dir[as(x)][p]
                              /\ p \in UserSeg => x = as(x)
          OBVIOUS
        <4>2. CASE x = f
          BY <1>2, <1>6, <4>1, <4>2
        <4>3. CASE x # f
          BY <1>5, <1>6, <4>3
        <4> QED BY <4>2, <4>3
      <3> HIDE DEF as
      <3>2. /\ as(d) \in Live(m) /\ as(e) \in Live(m)
            /\ m.dir[as(d)][s] = m.dir[as(e)][q] /\ m.dir[as(d)][s] # 0
            /\ s \in UserSeg => d = as(d)
            /\ q \in UserSeg => e = as(e)
        BY Zenon, <2>2, <3>1
      <3>3. s = q /\ (s \in UserSeg => as(d) = as(e))
        <4>1. OneTable(m)
          BY Zenon, <1>1 DEF OneUseOf
        <4> QED BY Zenon, <3>2, <4>1 DEF OneTable
      <3> QED BY Zenon, <3>2, <3>3
    <2>3. OneTable(r) /\ OnePage(r)
      <3>1. OneTable(r)
        BY Zenon, <2>2 DEF OneTable
      <3>2. OnePage(m)
        BY Zenon, <1>1 DEF OneUseOf
      <3>3. OnePage(r)
        BY <1>2, <1>7, <3>2 DEF OnePage
      <3> QED BY Zenon, <3>1, <3>3
    <2>4. Live(r) \cap Tables(r) = {} /\ (Live(r) \cup Tables(r)) \cap Mapped(r) = {}
      <3>1. Live(m) \cap Tables(m) = {} /\ (Live(m) \cup Tables(m)) \cap Mapped(m) = {}
        BY Zenon, <1>1 DEF OneUseOf
      <3> QED BY Zenon, <1>3, <1>5, <1>7, <1>8, <3>1
    <2>5. /\ Taken(r) \cap (r.free \cup r.pool \cup (h \ {f})) = {}
          /\ (h \ {f}) \cap (r.free \cup r.pool) = {}
      BY <1>1, <1>2, <1>3, <1>9 DEF OneUseOf
    <2> QED BY <2>1, <2>3, <2>4, <2>5 DEF OneUseOf
  <1>11. Windows(r) /\ TablesShared(r)
    <2>1. Windows(m) /\ TablesShared(m)
      BY Zenon DEF Owned, MemInv, MemShape
    <2>2. Windows(r)
      BY Zenon, <1>5, <1>6, <2>1 DEF Windows
    <2>3. \A d \in Live(r), s \in SharedSeg : r.dir[d][s] = m.dir[init_kmap][s]
      BY Zenon, <1>5, <1>6, <2>1 DEF TablesShared
    <2>4. init_kmap \in Live(r)
      BY Zenon, <1>2, <1>5
    <2> QED BY Zenon, <2>2, <2>3, <2>4 DEF TablesShared
  <1>12. NoneHalf(r)
    <2>1. \A s \in SharedSeg : r.dir[init_kmap][s] = m.dir[init_kmap][s]
      BY <1>2, <1>6
    <2> QED BY <1>2, <2>1 DEF Owned, MemInv, MemShape, NoneHalf
  <1>13. (r.free \cup Taken(r) \cup (h \ {f})) \cap Ram \subseteq a /\ Mapped(r) \subseteq Ram \cup Pool
    BY <1>2, <1>8, <1>9 DEF Owned, MemInv, MemShape
  <1>14. \A e \in Pctx : r.pctx_table[e] # init_kmap
    BY <1>3, <1>4 DEF Owned, MemInv, MemShape
  <1>15. h \ {f} \subseteq Ram \cup Pool /\ a \subseteq Ram
    BY DEF Owned, MemInv, MemShape
  <1>16. MemInv(r, h \ {f}, a)
    BY <1>2, <1>10, <1>11, <1>12, <1>13, <1>14, <1>15 DEF MemInv, MemShape
  <1> QED BY <1>2, <1>9, <1>16 DEF Owned, NoneLost

(* The space d of context c is given up: its directory, its page tables    *)
(* and its pages are free frames, if they are frames of memory.            *)
UserTables(m, d) == {m.dir[d][s] : s \in UserSeg} \ {0}
UserPages(m, d)  == {m.tbl[t][n].frame : t \in UserTables(m, d), n \in Slot} \ {0}

FreesSpace(m, r, c, d) ==
  /\ r \in MemoryData /\ r.pctx_table = [m.pctx_table EXCEPT ![c] = 0] /\ r.pool = m.pool
  /\ \A e \in Frame \ {d}, s \in Seg \ {TMP} : r.dir[e][s] = m.dir[e][s]
  /\ \A t \in Frame \ UserTables(m, d) : r.tbl[t] = m.tbl[t]
  /\ r.free = m.free \cup ((UserPages(m, d) \cup UserTables(m, d) \cup {d}) \cap Ram)

(* The page tables and pages that a space has to itself. *)
LEMMA UserPagesAre ==
  ASSUME NEW m, NEW d, NEW f
  PROVE  /\ f \in UserTables(m, d) <=> f # 0 /\ \E s \in UserSeg : m.dir[d][s] = f
         /\ f \in UserPages(m, d) <=>
              f # 0 /\ \E t \in UserTables(m, d), n \in Slot : m.tbl[t][n].frame = f
  BY DEF UserTables, UserPages

(* The directory of a context, its user tables and its pages become free:  *)
(* nothing else refers to them, and none is lost.                          *)
LEMMA FreeSpace ==
  ASSUME NEW m, NEW h, NEW a, Owned(m, h, a), NEW r, NEW c \in Pctx, NEW d,
         d = m.pctx_table[c], d # 0, FreesSpace(m, r, c, d)
  PROVE  Owned(r, h, a)
  <1> DEFINE T == UserTables(m, d)
             P == UserPages(m, d)
  <1>1. m \in MemoryData /\ h \subseteq Ram \cup Pool /\ OneUseOf(m, h)
    BY DEF Owned, MemInv, MemShape
  <1>2. /\ m.pctx_table \in [Pctx -> Frame] /\ Live(m) \subseteq Frame /\ Tables(m) \subseteq Frame
        /\ init_kmap \in Live(m) /\ r \in MemoryData /\ r.pool = m.pool
        /\ r.free = m.free \cup ((P \cup T \cup {d}) \cap Ram)
    BY <1>1, MemTypes DEF FreesSpace
  <1>3. d \in Live(m) /\ d # init_kmap /\ d \in Frame
    BY <1>2, LiveAre DEF Owned, MemInv, MemShape
  <1>4. r.pctx_table[c] = 0 /\ \A e \in Pctx \ {c} : r.pctx_table[e] = m.pctx_table[e]
    BY <1>2 DEF FreesSpace
  <1>5. Live(r) = Live(m) \ {d}
    <2>1. \A e \in Pctx \ {c} : m.pctx_table[e] # d
      BY <1>1 DEF OneUseOf, OneSpace
    <2>2. ASSUME NEW e PROVE e \in Live(r) <=> e \in Live(m) \ {d}
      BY <1>3, <1>4, <2>1, LiveAre
    <2> QED BY <2>2
  <1>6. \A e \in Live(m) \ {d}, s \in UserSeg \cup SharedSeg \cup {PGE} : r.dir[e][s] = m.dir[e][s]
    <2>1. \A e \in Live(m) \ {d} : e \in Frame \ {d}
      BY Zenon, <1>2
    <2>2. UserSeg \cup SharedSeg \cup {PGE} \subseteq Seg \ {TMP}
      BY Layout
    <2> QED BY <2>1, <2>2 DEF FreesSpace
  <1>7. \A t \in T : t \in Tables(m) /\ \E s \in UserSeg : m.dir[d][s] = t
    BY <1>3, TablesAre, UserPagesAre
  <1>8. \A e \in Live(m), s \in UserSeg \cup SharedSeg : m.dir[e][s] \in T => e = d /\ s \in UserSeg
    <2>1. SUFFICES ASSUME NEW e \in Live(m), NEW s \in UserSeg \cup SharedSeg, m.dir[e][s] \in T
                   PROVE  e = d /\ s \in UserSeg
      OBVIOUS
    <2>2. PICK q \in UserSeg : m.dir[d][q] = m.dir[e][s] /\ m.dir[d][q] # 0
      BY <2>1, UserPagesAre
    <2>3. OneTable(m)
      BY Zenon, <1>1 DEF OneUseOf
    <2>4. Repeats(m, d, q, e, s) /\ q \in UserSeg \cup SharedSeg
      BY Zenon, <2>2 DEF Repeats
    <2>5. q = s /\ d = e
      BY Zenon, <1>3, <2>3, <2>4, TableOnce
    <2> QED BY Zenon, <2>5
  <1>9. Tables(r) = Tables(m) \ T
    <2>1. ASSUME NEW t \in Tables(r) PROVE t \in Tables(m) \ T
      <3>1. PICK e \in Live(m) \ {d}, s \in UserSeg \cup SharedSeg : r.dir[e][s] = t /\ t # 0
        BY <1>5, TablesAre
      <3>2. m.dir[e][s] = t
        BY <1>6, <3>1
      <3> QED BY <1>8, <3>1, <3>2, TablesAre
    <2>2. ASSUME NEW t \in Tables(m) \ T PROVE t \in Tables(r)
      <3>1. PICK e \in Live(m), s \in UserSeg \cup SharedSeg : m.dir[e][s] = t /\ t # 0
        BY TablesAre
      <3>2. CASE e = d
        <4>1. s \in SharedSeg
          BY <3>1, <3>2, UserPagesAre
        <4>2. m.dir[init_kmap][s] = t
          BY <3>1, <4>1 DEF Owned, MemInv, MemShape, TablesShared
        <4>3. r.dir[init_kmap][s] = t /\ init_kmap \in Live(r)
          BY <1>2, <1>3, <1>5, <1>6, <4>2
        <4> QED BY <3>1, <4>3, TablesAre
      <3>3. CASE e # d
        BY <1>5, <1>6, <3>1, <3>3, TablesAre
      <3> QED BY <3>2, <3>3
    <2> QED BY <2>1, <2>2
  <1>10. \A t \in Tables(m) \ T : r.tbl[t] = m.tbl[t]
    BY Zenon, <1>2 DEF FreesSpace
  <1>11. \A t \in Tables(m), n \in Slot : m.tbl[t][n].frame \in P => t \in T
    <2>1. SUFFICES ASSUME NEW t \in Tables(m), NEW n \in Slot, m.tbl[t][n].frame \in P
                   PROVE  t \in T
      OBVIOUS
    <2>2. PICK u \in T, j \in Slot : m.tbl[u][j].frame = m.tbl[t][n].frame /\ m.tbl[u][j].frame # 0
      BY <2>1, UserPagesAre
    <2>3. OnePage(m)
      BY Zenon, <1>1 DEF OneUseOf
    <2>4. u \in Tables(m)
      BY Zenon, <1>7
    <2> QED BY <2>2, <2>3, <2>4 DEF OnePage
  <1>12. Mapped(r) = Mapped(m) \ P
    <2>1. ASSUME NEW g \in Mapped(r) PROVE g \in Mapped(m) \ P
      <3>1. PICK t \in Tables(m) \ T, n \in Slot : r.tbl[t][n].frame = g /\ g # 0
        BY <1>9, MappedAre
      <3>2. m.tbl[t][n].frame = g
        BY <1>10, <3>1
      <3> QED BY <1>11, <3>1, <3>2, MappedAre
    <2>2. ASSUME NEW g \in Mapped(m) \ P PROVE g \in Mapped(r)
      <3>1. PICK t \in Tables(m), n \in Slot : m.tbl[t][n].frame = g /\ g # 0
        BY MappedAre
      <3>2. t \notin T
        BY <3>1, UserPagesAre
      <3> QED BY <1>9, <1>10, <3>1, <3>2, MappedAre
    <2> QED BY <2>1, <2>2
  <1>13. T \subseteq Tables(m) /\ P \subseteq Mapped(m)
    BY <1>7, UserPagesAre, MappedAre
  <1>14. Taken(r) \cup P \cup T \cup {d} = Taken(m) /\ Taken(r) \cap (P \cup T \cup {d}) = {}
    <2>1. Live(m) \cap Tables(m) = {} /\ (Live(m) \cup Tables(m)) \cap Mapped(m) = {}
      BY Zenon, <1>1 DEF OneUseOf
    <2> HIDE DEF T, P
    <2> QED BY <1>3, <1>5, <1>9, <1>12, <1>13, <2>1 DEF Taken
  <1> HIDE DEF T, P
  <1>15. OneUseOf(r, h)
    <2>1. OneSpace(r)
      BY <1>1, <1>4 DEF OneUseOf, OneSpace
    <2>2. OneTable(r)
      <3>1. OneTable(m)
        BY Zenon, <1>1 DEF OneUseOf
      <3>2. \A e \in Live(r), s \in UserSeg \cup SharedSeg :
              e \in Live(m) /\ r.dir[e][s] = m.dir[e][s]
        BY Zenon, <1>5, <1>6
      <3> QED BY <3>1, <3>2 DEF OneTable
    <2>3. OnePage(r)
      <3>1. OnePage(m)
        BY Zenon, <1>1 DEF OneUseOf
      <3>2. \A t \in Tables(r) : t \in Tables(m) /\ r.tbl[t] = m.tbl[t]
        BY Zenon, <1>9, <1>10
      <3>3. ASSUME NEW t \in Tables(r), NEW u \in Tables(r), NEW i \in Slot, NEW j \in Slot,
                   r.tbl[t][i].frame = r.tbl[u][j].frame, r.tbl[t][i].frame # 0
            PROVE  t = u /\ i = j
        <4>1. /\ t \in Tables(m) /\ u \in Tables(m)
              /\ m.tbl[t][i].frame = m.tbl[u][j].frame /\ m.tbl[t][i].frame # 0
          BY Zenon, <3>2, <3>3
        <4> QED BY <3>1, <4>1 DEF OnePage
      <3> QED BY <3>3 DEF OnePage
    <2>4. Live(r) \cap Tables(r) = {} /\ (Live(r) \cup Tables(r)) \cap Mapped(r) = {}
      <3>1. Live(m) \cap Tables(m) = {} /\ (Live(m) \cup Tables(m)) \cap Mapped(m) = {}
        BY Zenon, <1>1 DEF OneUseOf
      <3> QED BY Zenon, <1>5, <1>9, <1>12, <3>1
    <2>5. Taken(r) \cap (r.free \cup r.pool \cup h) = {} /\ h \cap (r.free \cup r.pool) = {}
      <3>1. Taken(m) \cap (m.free \cup m.pool \cup h) = {} /\ h \cap (m.free \cup m.pool) = {}
        BY <1>1 DEF OneUseOf
      <3> QED BY Zenon, <1>2, <1>14, <3>1
    <2> QED BY <2>1, <2>2, <2>3, <2>4, <2>5 DEF OneUseOf
  <1>16. Windows(r) /\ TablesShared(r)
    <2>1. Windows(m) /\ TablesShared(m) /\ init_kmap \in Live(r)
      BY Zenon, <1>2, <1>3, <1>5 DEF Owned, MemInv, MemShape
    <2>2. \A e \in Live(r), s \in UserSeg \cup SharedSeg \cup {PGE} :
            e \in Live(m) /\ r.dir[e][s] = m.dir[e][s]
      BY Zenon, <1>5, <1>6
    <2>3. Windows(r)
      BY Zenon, <2>1, <2>2 DEF Windows
    <2>4. TablesShared(r)
      <3>1. ASSUME NEW e \in Live(r), NEW s \in SharedSeg
            PROVE  r.dir[e][s] = r.dir[init_kmap][s]
        <4>1. /\ e \in Live(m) /\ r.dir[e][s] = m.dir[e][s]
              /\ r.dir[init_kmap][s] = m.dir[init_kmap][s]
          BY Zenon, <2>1, <2>2
        <4> QED BY Zenon, <2>1, <4>1 DEF TablesShared
      <3> QED BY Zenon, <3>1 DEF TablesShared
    <2> QED BY Zenon, <2>3, <2>4
  <1>17. NoneHalf(r)
    <2>0. SUFFICES ASSUME NEW s \in SharedSeg, NEW n \in Slot, NEW t, t = r.dir[init_kmap][s],
                          t # 0
                   PROVE  ~r.tbl[t][n].pres => r.tbl[t][n].frame = 0
      BY DEF NoneHalf
    <2>1. t = m.dir[init_kmap][s]
      BY <1>2, <1>3, <1>6, <2>0
    <2>2. t \in Tables(m) \ T
      <3>1. t \in Tables(m)
        BY Zenon, <1>2, <2>0, <2>1, TablesAre
      <3>2. t \notin T
        BY Zenon, <1>2, <1>3, <1>8, <2>1
      <3> QED BY Zenon, <3>1, <3>2
    <2>3. r.tbl[t] = m.tbl[t]
      BY <1>10, <2>2
    <2>4. ~m.tbl[t][n].pres => m.tbl[t][n].frame = 0
      BY Zenon, <2>0, <2>1 DEF Owned, MemInv, MemShape, NoneHalf
    <2> QED BY <2>3, <2>4
  <1>18. /\ (r.free \cup Taken(r) \cup h) \cap Ram \subseteq a /\ Mapped(r) \subseteq Ram \cup Pool
         /\ a \subseteq Ram /\ \A e \in Pctx : r.pctx_table[e] # init_kmap
    <2>1. /\ (m.free \cup Taken(m) \cup h) \cap Ram \subseteq a /\ Mapped(m) \subseteq Ram \cup Pool
          /\ a \subseteq Ram /\ \A e \in Pctx : m.pctx_table[e] # init_kmap
      BY DEF Owned, MemInv, MemShape
    <2>2. (r.free \cup Taken(r) \cup h) \cap Ram \subseteq a
      BY <1>2, <1>14, <2>1
    <2>3. init_kmap # 0
      BY FramesDistinct
    <2> QED BY <1>4, <1>12, <2>1, <2>2, <2>3
  <1>19. NoneLost(r, h, a)
    <2>1. a \subseteq m.free \cup Taken(m) \cup h
      BY DEF Owned, NoneLost
    <2> QED BY <1>2, <1>14, <1>18, <2>1 DEF NoneLost
  <1>20. MemInv(r, h, a)
    BY <1>1, <1>2, <1>15, <1>16, <1>17, <1>18 DEF MemInv, MemShape
  <1> QED BY <1>19, <1>20 DEF Owned

-----------------------------------------------------------------------------
(* The operations of page.c, mem.c and pctx.c. *)

(* What an operation on pages leaves alone: the contexts, which space is   *)
(* loaded, and the shared page tables there are.                           *)
Kept(m, r) ==
  /\ r.cr3 = m.cr3 /\ r.active_pctx = m.active_pctx
  /\ \A s \in SharedSeg : m.dir[init_kmap][s] # 0 => r.dir[init_kmap][s] # 0

(* frame_new gives the frame f, and there was one to give. *)
Takes(m, r, f) == r = frame_new(m).m /\ f = frame_new(m).ret /\ ~r.panicked

(* The frame f is one more of the clients', and nothing else changes. *)
Given(m, h, a, r, f) ==
  /\ Owned(r, h \cup {f}, a) /\ f \notin h /\ f \in Frame /\ ~m.panicked
  /\ r.dir = m.dir /\ r.tbl = m.tbl /\ r.pctx_table = m.pctx_table
  /\ r.cr3 = m.cr3 /\ r.active_pctx = m.active_pctx

(* frame_new: unless it panics, the frame is new, from the free ones or    *)
(* the pool, and is counted as a client's until it is put to use.          *)
LEMMA FrameNew ==
  ASSUME NEW m, NEW h, NEW a, NEW r, NEW f, Owned(m, h, a), Takes(m, r, f)
  PROVE  Given(m, h, a, r, f)
  <1>0. r = frame_new(m).m /\ f = frame_new(m).ret /\ ~r.panicked
    BY Zenon DEF Takes
  <1> USE <1>0
  <1>1. m \in MemoryData /\ h \subseteq Ram \cup Pool /\ a \subseteq Ram /\ OneUseOf(m, h)
    BY Zenon DEF Owned, MemInv, MemShape
  <1>2. m.free \subseteq Ram /\ m.pool \subseteq Pool
    BY <1>1, MemTypes
  <1>3. f \in m.free \cup m.pool /\ r = [m EXCEPT !.free = @ \ {f}, !.pool = @ \ {f}]
    <2> DEFINE from == IF m.free # {} THEN m.free ELSE m.pool
    <2>1. CASE from = {}
      <3>1. r = [m EXCEPT !.panicked = TRUE]
        BY <2>1 DEF frame_new
      <3> QED BY <1>1, <3>1 DEF MemoryData
    <2>2. CASE from # {}
      <3>1. f = (CHOOSE g \in from : TRUE) /\ r = [m EXCEPT !.free = @ \ {f}, !.pool = @ \ {f}]
        BY Zenon, <2>2 DEF frame_new
      <3>2. f \in from
        BY <2>2, <3>1
      <3> QED BY <3>1, <3>2
    <2> QED BY <2>1, <2>2
  <1>4. /\ r \in MemoryData /\ r.dir = m.dir /\ r.tbl = m.tbl /\ r.pctx_table = m.pctx_table
        /\ r.cr3 = m.cr3 /\ r.active_pctx = m.active_pctx /\ r.panicked = m.panicked
        /\ r.free = m.free \ {f} /\ r.pool = m.pool \ {f}
    BY Zenon, <1>1, <1>3 DEF MemoryData
  <1>5. f \notin h /\ f \in Frame /\ f \in Ram \cup Pool
    BY <1>1, <1>2, <1>3 DEF OneUseOf, Frame
  <1>6. Owned(r, h \cup {f}, a)
    <2>1. /\ Taken(m) \cap (r.free \cup r.pool \cup (h \cup {f})) = {}
          /\ (h \cup {f}) \cap (r.free \cup r.pool) = {}
      BY <1>1, <1>3, <1>4 DEF OneUseOf
    <2>2. (r.free \cup (h \cup {f})) \cap Ram \subseteq a
      BY <1>2, <1>3, <1>4, FramesDistinct DEF Owned, MemInv, MemShape
    <2>3. a \subseteq r.free \cup Taken(m) \cup (h \cup {f})
      BY <1>4 DEF Owned, NoneLost
    <2>4. h \cup {f} \subseteq Ram \cup Pool
      BY <1>1, <1>5
    <2> QED BY <1>1, <1>4, <2>1, <2>2, <2>3, <2>4, Exchange
  <1> QED BY <1>4, <1>5, <1>6 DEF Given

(* The space that is loaded shows itself in its window. *)
LEMMA CurrentMap ==
  ASSUME NEW m, NEW h, NEW a, Owned(m, h, a), m.cr3 \in Live(m)
  PROVE  cmap(m) = m.cr3 /\ m.cr3 \in Frame /\ \A s : ctbl(m, s) = m.dir[m.cr3][s]
  <1>1. m.cr3 \in Frame /\ m.dir[m.cr3][PGE] = m.cr3
    BY MemTypes DEF Owned, MemInv, MemShape, Windows
  <1> QED BY <1>1 DEF cmap, ctbl

(* page_touch: the segment has a page table, and what its pages showed. *)
Touchable(m, s) ==
  /\ m.cr3 \in Live(m)
  /\ \/ s \in UserSeg
     \/ s \in SharedSeg /\ (Live(m) = {init_kmap} \/ m.dir[m.cr3][s] # 0)

(* The segment has a page table now, and every page the entry it had. *)
Touched(m, t, s) ==
  /\ Kept(m, t) /\ t.pctx_table = m.pctx_table /\ ~m.panicked
  /\ ctbl(t, s) # 0 /\ ctbl(t, s) = t.dir[t.cr3][s] /\ ctbl(t, s) \in Tables(t)
  /\ \A n \in Slot : t.tbl[ctbl(t, s)][n] = page_get(m, <<s, n>>)
  /\ t.cr3 \in Live(t) /\ t.cr3 = m.cr3
  /\ \A q \in UserSeg \cup SharedSeg, n \in Slot :
       page_get(t, <<q, n>>) = page_get(m, <<q, n>>)

(* page_touch: the segment has a page table afterwards, and every frame    *)
(* one use.                                                                *)
LEMMA PageTouch ==
  ASSUME NEW m, NEW h, NEW a, Owned(m, h, a), NEW s, Touchable(m, s),
         NEW t, t = page_touch(m, s), ~t.panicked
  PROVE  Owned(t, h, a) /\ Touched(m, t, s)
  <1>1. /\ cmap(m) = m.cr3 /\ m.cr3 \in Frame /\ ctbl(m, s) = m.dir[m.cr3][s]
        /\ m \in MemoryData /\ s \in UserSeg \cup SharedSeg
    BY Zenon, CurrentMap DEF Touchable, Owned, MemInv, MemShape
  <1>2. CASE ctbl(m, s) # 0
    <2>1. t = m
      BY <1>2 DEF page_touch
    <2>2. \A n \in Slot : m.tbl[ctbl(m, s)][n] = page_get(m, <<s, n>>)
      BY <1>2 DEF page_get
    <2>3. ctbl(m, s) \in Tables(m)
      BY Zenon, <1>1, <1>2, TablesAre DEF Touchable
    <2> QED BY <1>1, <1>2, <2>1, <2>2, <2>3 DEF Kept, Touchable, Touched
  <1>3. CASE ctbl(m, s) = 0
    <2> DEFINE d == m.cr3
    <2>1. PICK u, f : u = frame_new(m).m /\ f = frame_new(m).ret
      BY Zenon
    <2>2. t = [u EXCEPT !.dir[d][s] = f, !.tbl[f] = EmptyTbl]
      BY <1>1, <1>3, <2>1 DEF page_touch
    <2>3. ~u.panicked
      BY <2>2
    <2>4. /\ Owned(u, h \cup {f}, a) /\ f \notin h /\ f \in Frame /\ ~m.panicked
          /\ u.dir = m.dir /\ u.tbl = m.tbl /\ u.pctx_table = m.pctx_table
          /\ u.cr3 = m.cr3 /\ u.active_pctx = m.active_pctx
      <3>1. Takes(m, u, f)
        BY Zenon, <2>1, <2>3 DEF Takes
      <3>2. Given(m, h, a, u, f)
        BY Zenon, <3>1, FrameNew
      <3> QED BY Zenon, <3>2 DEF Given
    <2>5. MakesTable(u, t, d, s, f) /\ t.cr3 = d /\ t.active_pctx = m.active_pctx
      <3>1. u \in MemoryData /\ EmptyTbl \in [Slot -> Entry]
        BY <2>4, FramesDistinct DEF Owned, MemInv, MemShape, EmptyTbl, NoEntry, Entry, Frame
      <3>2. s \in Seg
        BY <1>1, Layout
      <3>3. u.dir \in [Frame -> [Seg -> Frame]] /\ u.tbl \in [Frame -> [Slot -> Entry]]
        BY <3>1, MemTypes
      <3> DEFINE D == [u.dir EXCEPT ![d] = [@ EXCEPT ![s] = f]]
                 T == [u.tbl EXCEPT ![f] = EmptyTbl]
      <3>4. D \in [Frame -> [Seg -> Frame]] /\ T \in [Frame -> [Slot -> Entry]]
        BY <1>1, <2>4, <3>1, <3>2, <3>3
      <3>5. t = [u EXCEPT !.dir = D, !.tbl = T]
        BY <2>2
      <3> HIDE DEF D, T
      <3>6. /\ t \in MemoryData /\ t.dir = D /\ t.tbl = T /\ t.cr3 = u.cr3
            /\ t.pctx_table = u.pctx_table /\ t.free = u.free /\ t.pool = u.pool
            /\ t.active_pctx = u.active_pctx
        BY Zenon, <3>1, <3>4, <3>5 DEF MemoryData
      <3> QED BY Zenon, <2>4, <3>6 DEF MakesTable, D, T
    <2>6. Live(u) = Live(m) /\ u.dir[d][s] = 0
      BY Zenon, <1>1, <1>3, <2>4 DEF Live
    <2>7. Owned(t, h, a)
      <3>1. s \in UserSeg \/ Live(u) = {init_kmap}
        BY <1>1, <1>3, <2>6 DEF Touchable
      <3>2. Owned(t, (h \cup {f}) \ {f}, a)
        BY <1>1, <2>4, <2>5, <2>6, <3>1, NewTable DEF Touchable
      <3>3. (h \cup {f}) \ {f} = h
        BY <2>4
      <3> QED BY <3>2, <3>3
    <2>8. Live(t) = Live(m) /\ t.pctx_table = m.pctx_table
      BY <2>4, <2>5 DEF Live, MakesTable
    <2>9. m.dir \in [Frame -> [Seg -> Frame]] /\ m.tbl \in [Frame -> [Slot -> Entry]] /\ s \in Seg
      BY Zenon, <1>1, MemTypes, Layout
    <2>10. f \in h \cup {f} /\ f # 0
      BY <2>4, FramesDistinct DEF Owned, MemInv, MemShape
    <2>11. /\ t.dir[d][s] = f /\ \A q \in Seg \ {s} : t.dir[d][q] = m.dir[d][q]
           /\ \A e \in Frame, q \in Seg : m.dir[e][q] # 0 => t.dir[e][q] = m.dir[e][q]
      <3>1. t.dir = [m.dir EXCEPT ![d] = [@ EXCEPT ![s] = f]]
        BY <2>4, <2>5 DEF MakesTable
      <3>2. t.dir[d] = [m.dir[d] EXCEPT ![s] = f] /\ m.dir[d] \in [Seg -> Frame]
        BY <1>1, <2>9, <3>1
      <3>3. \A e \in Frame \ {d} : t.dir[e] = m.dir[e]
        BY <2>9, <3>1
      <3> QED BY Zenon, <1>1, <1>3, <2>9, <3>2, <3>3
    <2>12. t.tbl[f] = EmptyTbl
      BY <2>4, <2>5, <2>9 DEF MakesTable
    <2>13. Kept(m, t)
      <3>1. init_kmap \in Frame
        BY DEF Frame
      <3> QED BY <2>5, <2>11, <3>1, Layout DEF Kept
    <2>14. t.cr3 \in Live(t) /\ ctbl(t, s) = f
      <3>1. t.cr3 \in Live(t)
        BY Zenon, <2>5, <2>8 DEF Touchable
      <3>2. ctbl(t, s) = t.dir[t.cr3][s]
        BY Zenon, <2>7, <3>1, CurrentMap
      <3> QED BY Zenon, <2>5, <2>11, <3>1, <3>2
    <2>15. f \in Tables(t)
      BY <1>1, <2>5, <2>10, <2>11, <2>14, TablesAre
    <2>16. \A n \in Slot : EmptyTbl[n] = page_get(m, <<s, n>>)
      BY <1>3 DEF page_get, EmptyTbl
    <2>17. ASSUME NEW q \in UserSeg \cup SharedSeg, NEW n \in Slot
           PROVE  page_get(t, <<q, n>>) = page_get(m, <<q, n>>)
      <3>1. q \in Seg /\ ctbl(m, q) = m.dir[d][q] /\ ctbl(t, q) = t.dir[d][q]
        BY <2>5, <2>7, <2>14, CurrentMap, Layout DEF Touchable
      <3>2. CASE q = s
        BY Zenon, <2>10, <2>12, <2>14, <2>16, <3>2 DEF page_get
      <3>3. CASE q # s /\ m.dir[d][q] = 0
        BY <2>11, <3>1, <3>3 DEF page_get
      <3>4. CASE q # s /\ m.dir[d][q] # 0
        <4>1. ctbl(t, q) = ctbl(m, q) /\ ctbl(m, q) # 0
          BY <1>1, <2>11, <3>1, <3>4
        <4>2. ctbl(m, q) \in Tables(m) /\ Tables(u) = Tables(m) /\ f \notin Tables(u)
          <5>1. ctbl(m, q) \in Tables(m)
            BY <3>1, <4>1, TablesAre DEF Touchable
          <5>2. Tables(u) = Tables(m)
            BY <2>4 DEF Tables, Live
          <5>3. f \notin Tables(u)
            BY Zenon, <2>4, <2>10 DEF Owned, MemInv, MemShape, OneUseOf, Taken
          <5> QED BY <5>1, <5>2, <5>3
        <4>3. t.tbl[ctbl(m, q)] = m.tbl[ctbl(m, q)]
          <5>1. ctbl(m, q) \in Frame \ {f}
            BY <1>1, <4>2, MemTypes
          <5>2. t.tbl = [m.tbl EXCEPT ![f] = EmptyTbl]
            BY <2>4, <2>5 DEF MakesTable
          <5> QED BY Zenon, <2>9, <5>1, <5>2
        <4> QED BY Zenon, <4>1, <4>3 DEF page_get
      <3> QED BY <3>2, <3>3, <3>4
    <2> QED BY <2>4, <2>5, <2>7, <2>8, <2>10, <2>11, <2>12, <2>13, <2>14, <2>15, <2>16, <2>17
          DEF Touched
  <1> QED BY Zenon, <1>2, <1>3

(* The other pages have the entries they had. *)
SameElsewhere(m, r, s, n) ==
  \A q \in UserSeg \cup SharedSeg, j \in Slot :
    q # s \/ j # n => page_get(r, <<q, j>>) = page_get(m, <<q, j>>)

(* The page n of segment s gets the entry e: a frame of the clients', none *)
(* or its own, and i are the clients' frames after that.                   *)
EntryFor(m, h, s, n, e, i) ==
  LET old == page_get(m, <<s, n>>).frame
  IN  /\ n \in Slot /\ e \in Entry /\ Touchable(m, s)
      /\ e.frame \in h \cup {0, old} /\ (s \in UserSeg \/ e.pres \/ e.frame = 0)
      /\ i = (h \ {e.frame}) \cup ({old} \ {0, e.frame})

(* page_set of a page, which takes no frame or has one to take. *)
SetsPage(m, s, n, e, r) == r = page_set(m, <<s, n>>, e) /\ ~r.panicked

(* page_set: the slot has the new entry, its old frame is a client's, and  *)
(* every other slot is as before.                                          *)
LEMMA PageSet ==
  ASSUME NEW m, NEW h, NEW a, NEW s, NEW n, NEW e, NEW i, NEW r,
         Owned(m, h, a), EntryFor(m, h, s, n, e, i), SetsPage(m, s, n, e, r)
  PROVE  /\ Owned(r, i, a) /\ Kept(m, r) /\ r.pctx_table = m.pctx_table /\ ~m.panicked
         /\ SameElsewhere(m, r, s, n)
  <1>1. PICK t, k : t = page_touch(m, s) /\ k = ctbl(t, s)
    BY Zenon
  <1>2. r = [t EXCEPT !.tbl[k][n] = e]
    BY <1>1 DEF page_set, SetsPage
  <1>3. ~t.panicked
    <2>1. page_set(m, <<s, n>>, e).panicked = page_touch(m, s).panicked
      BY DEF page_set
    <2> QED BY Zenon, <1>1, <2>1 DEF SetsPage
  <1>0. n \in Slot /\ e \in Entry /\ Touchable(m, s)
    BY DEF EntryFor
  <1>12. Owned(t, h, a) /\ Touched(m, t, s)
    BY Zenon, <1>0, <1>1, <1>3, PageTouch
  <1>13. /\ Kept(m, t) /\ t.pctx_table = m.pctx_table /\ ~m.panicked
         /\ \A q \in UserSeg \cup SharedSeg, j \in Slot :
              page_get(t, <<q, j>>) = page_get(m, <<q, j>>)
    BY Zenon, <1>12 DEF Touched
  <1>4. /\ k # 0 /\ k = t.dir[t.cr3][s] /\ k \in Tables(t) /\ t.cr3 \in Live(t)
        /\ t.tbl[k][n] = page_get(m, <<s, n>>)
    BY Zenon, <1>0, <1>1, <1>12 DEF Touched
  <1>5. /\ t \in MemoryData /\ t.tbl \in [Frame -> [Slot -> Entry]] /\ k \in Frame
        /\ t.dir \in [Frame -> [Seg -> Frame]]
    BY Zenon, <1>4, <1>12, MemTypes DEF Owned, MemInv, MemShape
  <1>6. SetsEntry(t, r, k, n, e) /\ r.cr3 = t.cr3 /\ r.active_pctx = t.active_pctx
    <2> DEFINE T == [t.tbl EXCEPT ![k] = [@ EXCEPT ![n] = e]]
    <2>1. T \in [Frame -> [Slot -> Entry]]
      BY Zenon, <1>0, <1>5
    <2>2. r = [t EXCEPT !.tbl = T]
      BY <1>2
    <2> HIDE DEF T
    <2>3. /\ r \in MemoryData /\ r.tbl = T /\ r.dir = t.dir /\ r.pctx_table = t.pctx_table
          /\ r.free = t.free /\ r.pool = t.pool /\ r.cr3 = t.cr3 /\ r.active_pctx = t.active_pctx
      BY Zenon, <1>5, <2>1, <2>2 DEF MemoryData
    <2> QED BY Zenon, <2>3 DEF SetsEntry, T
  <1>7. s \in UserSeg => \A q \in SharedSeg : t.dir[init_kmap][q] # k
    <2> SUFFICES ASSUME s \in UserSeg, NEW q \in SharedSeg, t.dir[init_kmap][q] = k
                 PROVE  FALSE
      OBVIOUS
    <2>1. OneUseOf(t, h) /\ init_kmap \in Live(t)
      BY Zenon, <1>5, <1>12, MemTypes DEF Owned, MemInv, MemShape
    <2>2. OneTable(t)
      BY Zenon, <2>1 DEF OneUseOf
    <2>3. /\ t.dir[t.cr3][s] # 0 /\ t.dir[t.cr3][s] = t.dir[init_kmap][q]
          /\ s \in UserSeg \cup SharedSeg /\ q \in UserSeg \cup SharedSeg
      BY Zenon, <1>4
    <2>4. s = q
      <3>1. Repeats(t, t.cr3, s, init_kmap, q)
        BY Zenon, <2>3 DEF Repeats
      <3> QED BY Zenon, <1>4, <2>1, <2>2, <2>3, <3>1, TableOnce
    <2> QED BY <2>4, Layout
  <1>8. Owned(r, i, a)
    <2>1. PICK old : old = t.tbl[k][n].frame /\ old = page_get(m, <<s, n>>).frame
      BY <1>4
    <2>2. (\A q \in SharedSeg : t.dir[init_kmap][q] # k) \/ e.pres \/ e.frame = 0
      BY <1>7 DEF EntryFor
    <2>3. /\ e.frame \in h \cup {0, old}
          /\ i = (h \ {e.frame}) \cup ({old} \ {0, e.frame})
      BY <2>1 DEF EntryFor
    <2>4. Replaces(t, h, k, n, e, old, i)
      BY Zenon, <1>0, <1>4, <2>1, <2>2, <2>3 DEF Replaces
    <2> QED BY Zenon, <1>6, <1>12, <2>4, NewEntry
  <1>9. Kept(m, r)
    BY Zenon, <1>6, <1>13 DEF Kept, SetsEntry
  <1>10. ASSUME NEW q \in UserSeg \cup SharedSeg, NEW j \in Slot, q # s \/ j # n
         PROVE  page_get(r, <<q, j>>) = page_get(t, <<q, j>>)
    <2>1. ctbl(r, q) = ctbl(t, q) /\ ctbl(t, q) = t.dir[t.cr3][q]
      BY Zenon, <1>4, <1>6, <1>12, CurrentMap DEF SetsEntry, ctbl, cmap
    <2>2. CASE ctbl(t, q) = 0
      BY <2>1, <2>2 DEF page_get
    <2>3. CASE ctbl(t, q) # 0
      <3>1. q # s => ctbl(t, q) # k
        <4>1. s \in UserSeg \cup SharedSeg /\ OneTable(t)
          BY Zenon, <1>0, <1>12 DEF Owned, MemInv, MemShape, OneUseOf, Touchable
        <4>2. SUFFICES ASSUME ctbl(t, q) = k PROVE s = q
          BY Zenon
        <4>3. Repeats(t, t.cr3, s, t.cr3, q)
          BY Zenon, <1>4, <2>1, <4>2 DEF Repeats
        <4> QED BY Zenon, <1>4, <4>1, <4>3, TableOnce
      <3>2. ctbl(t, q) \in Frame
        <4>1. q \in Seg /\ t.cr3 \in Frame
          BY Zenon, <1>4, <1>5, MemTypes, Layout
        <4> QED BY Zenon, <1>5, <2>1, <4>1
      <3>3. r.tbl[ctbl(t, q)][j] = t.tbl[ctbl(t, q)][j]
        <4>1. r.tbl = [t.tbl EXCEPT ![k] = [@ EXCEPT ![n] = e]]
          BY Zenon, <1>6 DEF SetsEntry
        <4>2. r.tbl[k] = [t.tbl[k] EXCEPT ![n] = e] /\ t.tbl[k] \in [Slot -> Entry]
          BY Zenon, <1>0, <1>5, <4>1
        <4>3. \A x \in Frame \ {k} : r.tbl[x] = t.tbl[x]
          BY <1>5, <4>1
        <4> QED BY Zenon, <1>0, <1>10, <3>1, <3>2, <4>2, <4>3
      <3> QED BY Zenon, <2>1, <2>3, <3>3 DEF page_get
    <2> QED BY <2>2, <2>3
  <1>11. SameElsewhere(m, r, s, n)
    BY Zenon, <1>10, <1>13 DEF SameElsewhere
  <1> QED BY Zenon, <1>6, <1>8, <1>9, <1>11, <1>13 DEF SetsEntry

(* An absent page of the shared segments, or one for the image, gets a new *)
(* frame.                                                                  *)
LEMMA PageNew ==
  ASSUME NEW m, NEW h, NEW a, Owned(m, h, a), NEW s, NEW n \in Slot, Touchable(m, s),
         s \in SharedSeg, ~page_get(m, <<s, n>>).pres, NEW r, r = page_new(m, <<s, n>>), ~r.panicked
  PROVE  /\ Owned(r, h, a) /\ Kept(m, r) /\ r.pctx_table = m.pctx_table /\ ~m.panicked
         /\ SameElsewhere(m, r, s, n)
  <1>1. PICK u, f : u = frame_new(m).m /\ f = frame_new(m).ret
    BY Zenon
  <1> DEFINE e == [frame |-> f, pres |-> TRUE]
  <1>2. r = page_set(u, <<s, n>>, e)
    BY <1>1 DEF page_new
  <1>3. ~u.panicked
    <2>1. page_set(u, <<s, n>>, e).panicked = page_touch(u, s).panicked
      BY DEF page_set
    <2>2. u.panicked => page_touch(u, s).panicked
      BY DEF page_touch, frame_new
    <2> QED BY <1>2, <2>1, <2>2
  <1>4. /\ Owned(u, h \cup {f}, a) /\ f \notin h /\ f \in Frame /\ ~m.panicked
        /\ u.dir = m.dir /\ u.tbl = m.tbl /\ u.pctx_table = m.pctx_table
        /\ u.cr3 = m.cr3 /\ u.active_pctx = m.active_pctx
    <2>1. Takes(m, u, f)
      BY Zenon, <1>1, <1>3 DEF Takes
    <2>2. Given(m, h, a, u, f)
      BY Zenon, <2>1, FrameNew
    <2> QED BY Zenon, <2>2 DEF Given
  <1>5. /\ Live(u) = Live(m) /\ Touchable(u, s)
        /\ \A q, j : page_get(u, <<q, j>>) = page_get(m, <<q, j>>)
    BY Zenon, <1>4 DEF Live, Touchable, page_get, ctbl, cmap
  <1>6. page_get(m, <<s, n>>).frame = 0
    <2>1. ctbl(m, s) = m.dir[m.cr3][s] /\ m.dir[m.cr3][s] = m.dir[init_kmap][s]
      BY Zenon, CurrentMap DEF Owned, MemInv, MemShape, Touchable, TablesShared
    <2>2. CASE ctbl(m, s) = 0
      BY Zenon, <2>2 DEF page_get, NoEntry
    <2>3. CASE ctbl(m, s) # 0
      <3>1. page_get(m, <<s, n>>) = m.tbl[m.dir[init_kmap][s]][n]
        BY Zenon, <2>1, <2>3 DEF page_get
      <3> QED BY Zenon, <2>1, <2>3, <3>1 DEF Owned, MemInv, MemShape, NoneHalf
    <2> QED BY <2>2, <2>3
  <1>7. e \in Entry /\ e.frame = f /\ e.pres
    BY <1>4 DEF Entry
  <1> HIDE DEF e
  <1>8. EntryFor(u, h \cup {f}, s, n, e, h)
    <2>1. page_get(u, <<s, n>>).frame = 0
      BY <1>5, <1>6
    <2>2. h = ((h \cup {f}) \ {e.frame}) \cup ({0} \ {0, e.frame})
      BY Zenon, <1>4, <1>7
    <2> QED BY <1>5, <1>7, <2>1, <2>2 DEF EntryFor
  <1>9. /\ Owned(r, h, a) /\ Kept(u, r) /\ r.pctx_table = u.pctx_table
        /\ SameElsewhere(u, r, s, n)
    <2>1. PICK k : k = h \cup {f}
      BY Zenon
    <2>2. Owned(u, k, a) /\ EntryFor(u, k, s, n, e, h)
      BY Zenon, <1>4, <1>8, <2>1
    <2>3. SetsPage(u, s, n, e, r)
      BY Zenon, <1>2 DEF SetsPage
    <2> QED BY ONLY <2>2, <2>3, PageSet, ZenonT(30)
  <1>10. SameElsewhere(m, r, s, n)
    BY <1>5, <1>9 DEF SameElsewhere
  <1> QED BY <1>4, <1>9, <1>10 DEF Kept

(* space_clone, with the new space in slot n of the table of contexts. *)
CloneInto(m, n) == [space_clone(m).m EXCEPT !.pctx_table[n] = space_clone(m).ret]

(* space_clone panics when frame_new does and for no other reason. *)
LEMMA ClonePanics ==
  ASSUME NEW m, NEW n
  PROVE  CloneInto(m, n).panicked = frame_new(m).m.panicked
  <1>1. PICK u, f : u = frame_new(m).m /\ f = frame_new(m).ret
    BY Zenon
  <1>2. PICK v : v = [u EXCEPT !.dir[f] = [EmptyDir EXCEPT ![PGE] = f]]
    BY Zenon
  <1>3. PICK x : x = space_exmap(v, f)
    BY Zenon
  <1>4. space_alloc(m).m = v /\ space_alloc(m).ret = f
    BY <1>1, <1>2 DEF space_alloc
  <1>5. v.panicked = u.panicked
    BY <1>2
  <1>6. x.panicked = v.panicked
    BY <1>3 DEF space_exmap
  <1>7. space_clone(m).m.panicked = x.panicked
    <2>1. PICK E : E = [s \in Seg |-> IF s \in SYSTEM..(PGE - 1) THEN x.dir[cmap(x)][s]
                                     ELSE x.dir[exmap(x)][s]]
      BY Zenon
    <2>2. PICK w : w = [x EXCEPT !.dir[exmap(x)] = E]
      BY Zenon
    <2>3. w.panicked = x.panicked
      BY <2>2
    <2>4. space_clone(m).m = w
      BY <1>3, <1>4, <2>1, <2>2 DEF space_clone
    <2> QED BY <2>3, <2>4
  <1>8. CloneInto(m, n).panicked = space_clone(m).m.panicked
    BY DEF CloneInto
  <1> QED BY <1>1, <1>5, <1>6, <1>7, <1>8

(* space_clone for a context that is free, with a frame for it. *)
Clones(m, n, r) ==
  n \in Pctx /\ m.pctx_table[n] = 0 /\ r = CloneInto(m, n) /\ ~r.panicked

(* Context n has a space, and the others theirs. *)
Cloned(m, h, a, n, r) ==
  /\ Owned(r, h, a) /\ Kept(m, r) /\ ~m.panicked /\ r.pctx_table[n] # 0
  /\ \A c \in Pctx \ {n} : r.pctx_table[c] = m.pctx_table[c]

(* pctx_new calls space_clone for a free context: the context has a space, *)
(* and the others theirs.                                                  *)
LEMMA SpaceClone ==
  ASSUME NEW m, NEW h, NEW a, NEW n, NEW r,
         Owned(m, h, a), m.cr3 \in Live(m), Clones(m, n, r)
  PROVE  Cloned(m, h, a, n, r)
  <1>0. n \in Pctx /\ m.pctx_table[n] = 0 /\ r = CloneInto(m, n) /\ ~r.panicked
    BY Zenon DEF Clones
  <1> USE <1>0
  <1>1. PICK u, f : u = frame_new(m).m /\ f = frame_new(m).ret
    BY Zenon
  <1>2. PICK v : v = [u EXCEPT !.dir[f] = [EmptyDir EXCEPT ![PGE] = f]]
    BY Zenon
  <1>3. PICK x : x = [v EXCEPT !.dir[cmap(v)][TMP] = f]
    BY Zenon
  <1>4. r = [x EXCEPT !.dir[exmap(x)] = [s \in Seg |-> IF s \in SYSTEM..(PGE - 1)
                                                       THEN x.dir[cmap(x)][s] ELSE @[s]],
                      !.pctx_table[n] = f]
    <2>1. space_alloc(m).m = v /\ space_alloc(m).ret = f
      BY <1>1, <1>2 DEF space_alloc
    <2>2. space_exmap(v, f) = x
      BY <1>3 DEF space_exmap
    <2> QED BY Zenon, <2>1, <2>2 DEF space_clone, CloneInto
  <1>5. ~u.panicked
    BY <1>1, ClonePanics
  <1>6. /\ Owned(u, h \cup {f}, a) /\ f \notin h /\ f \in Frame /\ ~m.panicked
        /\ u.dir = m.dir /\ u.tbl = m.tbl /\ u.pctx_table = m.pctx_table
        /\ u.cr3 = m.cr3 /\ u.active_pctx = m.active_pctx
    <2>1. Takes(m, u, f)
      BY Zenon, <1>1, <1>5 DEF Takes
    <2>2. Given(m, h, a, u, f)
      BY Zenon, <2>1, FrameNew
    <2> QED BY Zenon, <2>2 DEF Given
  <1>7. /\ u \in MemoryData /\ u.dir \in [Frame -> [Seg -> Frame]]
        /\ u.pctx_table \in [Pctx -> Frame] /\ Live(u) = Live(m) /\ Live(u) \subseteq Frame
        /\ u.cr3 \in Live(u) /\ u.cr3 \in Frame /\ f \notin Live(u) /\ u.cr3 # f /\ f # 0
    <2>1. u \in MemoryData /\ OneUseOf(u, h \cup {f}) /\ h \cup {f} \subseteq Ram \cup Pool
      BY Zenon, <1>6 DEF Owned, MemInv, MemShape
    <2>2. Live(u) = Live(m) /\ f \notin Live(u) /\ f # 0
      BY Zenon, <1>6, <2>1, FramesDistinct DEF Live, OneUseOf, Taken
    <2> QED BY Zenon, <1>6, <2>1, <2>2, MemTypes
  <1>8. PGE \in Seg /\ TMP \in Seg /\ TMP # PGE
    BY Layout
  <1>9. /\ v \in MemoryData /\ v.dir = [u.dir EXCEPT ![f] = [EmptyDir EXCEPT ![PGE] = f]]
        /\ v.tbl = u.tbl /\ v.pctx_table = u.pctx_table /\ v.cr3 = u.cr3
        /\ v.active_pctx = u.active_pctx /\ v.free = u.free /\ v.pool = u.pool
    <2>1. [EmptyDir EXCEPT ![PGE] = f] \in [Seg -> Frame]
      BY Zenon, <1>6 DEF EmptyDir, Frame
    <2> QED BY Zenon, <1>2, <1>7, <2>1 DEF MemoryData
  <1>10. cmap(v) = u.cr3
    <2>1. v.dir[u.cr3] = u.dir[u.cr3]
      BY <1>7, <1>9
    <2>2. u.dir[u.cr3][PGE] = u.cr3
      BY Zenon, <1>6, <1>7 DEF Owned, MemInv, MemShape, Windows
    <2> QED BY Zenon, <1>9, <2>1, <2>2 DEF cmap
  <1>11. /\ x \in MemoryData /\ x.dir = [v.dir EXCEPT ![u.cr3] = [@ EXCEPT ![TMP] = f]]
         /\ x.tbl = u.tbl /\ x.pctx_table = u.pctx_table /\ x.cr3 = u.cr3
         /\ x.active_pctx = u.active_pctx /\ x.free = u.free /\ x.pool = u.pool
    <2>1. v.dir \in [Frame -> [Seg -> Frame]]
      BY Zenon, <1>9, MemTypes
    <2> DEFINE D == [v.dir EXCEPT ![u.cr3] = [@ EXCEPT ![TMP] = f]]
    <2>2. D \in [Frame -> [Seg -> Frame]]
      BY Zenon, <1>6, <1>7, <1>8, <2>1
    <2>3. x = [v EXCEPT !.dir = D]
      BY <1>3, <1>10
    <2> HIDE DEF D
    <2>4. /\ x \in MemoryData /\ x.dir = D
          /\ x.tbl = v.tbl /\ x.pctx_table = v.pctx_table /\ x.cr3 = v.cr3
          /\ x.active_pctx = v.active_pctx /\ x.free = v.free /\ x.pool = v.pool
      BY Zenon, <1>9, <2>2, <2>3 DEF MemoryData
    <2> QED BY <1>9, <2>4 DEF D
  <1>12. /\ x.dir[f] = [EmptyDir EXCEPT ![PGE] = f]
         /\ x.dir[u.cr3] = [u.dir[u.cr3] EXCEPT ![TMP] = f]
         /\ \A d \in Frame \ {f, u.cr3} : x.dir[d] = u.dir[d]
    <2>1. /\ v.dir[f] = [EmptyDir EXCEPT ![PGE] = f]
          /\ \A d \in Frame \ {f} : v.dir[d] = u.dir[d]
      BY Zenon, <1>6, <1>7, <1>9
    <2>2. v.dir \in [Frame -> [Seg -> Frame]]
      BY Zenon, <1>9, MemTypes
    <2>3. /\ x.dir[u.cr3] = [v.dir[u.cr3] EXCEPT ![TMP] = f]
          /\ \A d \in Frame \ {u.cr3} : x.dir[d] = v.dir[d]
      BY <1>7, <1>11, <2>2
    <2> QED BY Zenon, <1>6, <1>7, <2>1, <2>3
  <1>13. /\ x.dir[f][PGE] = f /\ \A s \in UserSeg : x.dir[f][s] = 0
         /\ x.dir[u.cr3][TMP] = f /\ \A s \in Seg \ {TMP} : x.dir[u.cr3][s] = u.dir[u.cr3][s]
    <2>1. u.dir[u.cr3] \in [Seg -> Frame]
      BY <1>7
    <2> QED BY <1>8, <1>12, <2>1, Layout DEF EmptyDir
  <1>14. cmap(x) = u.cr3 /\ exmap(x) = f
    <2>1. u.dir[u.cr3][PGE] = u.cr3
      <3>1. Windows(u)
        BY Zenon, <1>6 DEF Owned, MemInv, MemShape
      <3> QED BY Zenon, <1>7, <3>1 DEF Windows
    <2>2. cmap(x) = u.cr3
      BY <1>8, <1>11, <1>13, <2>1 DEF cmap
    <2> QED BY Zenon, <1>13, <2>2 DEF exmap
  <1> DEFINE E == [s \in Seg |-> IF s \in SYSTEM..(PGE - 1) THEN x.dir[u.cr3][s] ELSE x.dir[f][s]]
  <1>15. /\ r \in MemoryData /\ r.dir = [x.dir EXCEPT ![f] = E] /\ r.tbl = u.tbl
         /\ r.pctx_table = [u.pctx_table EXCEPT ![n] = f] /\ r.cr3 = u.cr3
         /\ r.active_pctx = u.active_pctx /\ r.free = u.free /\ r.pool = u.pool
    <2>1. x.dir \in [Frame -> [Seg -> Frame]]
      BY Zenon, <1>11, MemTypes
    <2>2. E \in [Seg -> Frame]
      BY <1>6, <1>7, <2>1
    <2>3. r = [x EXCEPT !.dir[f] = E, !.pctx_table[n] = f]
      BY <1>4, <1>14
    <2> DEFINE D == [x.dir EXCEPT ![f] = E]
               C == [u.pctx_table EXCEPT ![n] = f]
    <2> HIDE DEF E
    <2>4. D \in [Frame -> [Seg -> Frame]] /\ C \in [Pctx -> Frame]
      BY <1>6, <1>7, <2>1, <2>2
    <2>5. r = [x EXCEPT !.dir = D, !.pctx_table = C]
      BY Zenon, <1>11, <2>3
    <2> HIDE DEF D, C
    <2>6. /\ r \in MemoryData /\ r.dir = D /\ r.tbl = x.tbl /\ r.pctx_table = C
          /\ r.cr3 = x.cr3 /\ r.active_pctx = x.active_pctx /\ r.free = x.free /\ r.pool = x.pool
      BY Zenon, <1>11, <2>4, <2>5 DEF MemoryData
    <2> QED BY <1>11, <2>6 DEF D, C
  <1>16. MakesSpace(u, r, n, f)
    <2>1. r.dir[f] = E /\ \A d \in Frame \ {f} : r.dir[d] = x.dir[d]
      <3>1. x.dir \in [Frame -> [Seg -> Frame]]
        BY Zenon, <1>11, MemTypes
      <3> HIDE DEF E
      <3>2. r.dir = [x.dir EXCEPT ![f] = E]
        BY <1>15
      <3> QED BY Zenon, <1>6, <3>1, <3>2
    <2>2. ASSUME NEW d \in Frame \ {f}, NEW s \in Seg \ {TMP}
          PROVE  r.dir[d][s] = u.dir[d][s]
      <3>1. r.dir[d] = x.dir[d]
        BY <2>1
      <3>2. CASE d = u.cr3
        BY <1>13, <3>1, <3>2
      <3>3. CASE d # u.cr3
        BY Zenon, <1>12, <3>1, <3>3
      <3> QED BY <3>2, <3>3
    <2>3. r.dir[f][PGE] = f /\ \A s \in UserSeg : r.dir[f][s] = 0
      BY <1>8, <1>13, <2>1, Layout
    <2>4. ASSUME NEW s \in SharedSeg PROVE r.dir[f][s] = u.dir[init_kmap][s]
      <3>1. r.dir[f][s] = x.dir[u.cr3][s] /\ s \in Seg \ {TMP}
        BY <2>1, Layout
      <3>2. u.dir[u.cr3][s] = u.dir[init_kmap][s]
        BY Zenon, <1>6, <1>7 DEF Owned, MemInv, MemShape, TablesShared
      <3> QED BY <1>13, <3>1, <3>2
    <2> HIDE DEF E
    <2> QED BY Zenon, <1>15, <2>2, <2>3, <2>4 DEF MakesSpace
  <1> HIDE DEF E
  <1>17. Owned(r, h, a)
    <2>1. Owned(r, (h \cup {f}) \ {f}, a)
      BY <1>6, <1>16, NewSpace
    <2>2. (h \cup {f}) \ {f} = h
      BY <1>6
    <2> QED BY <2>1, <2>2
  <1>18. Kept(m, r)
    <2>1. init_kmap \in Frame \ {f}
      BY Zenon, <1>7, LiveAre DEF Frame
    <2>2. \A s \in SharedSeg : r.dir[init_kmap][s] = m.dir[init_kmap][s]
      BY <1>6, <1>16, <2>1, Layout DEF MakesSpace
    <2> QED BY Zenon, <1>6, <1>15, <2>2 DEF Kept
  <1> QED BY Zenon, <1>6, <1>7, <1>15, <1>17, <1>18 DEF Cloned

=============================================================================
