------------------------------- MODULE Paging -------------------------------
(***************************************************************************)
(* src/kernel/page.c, mem.c and pctx.c: page tables, paging contexts, and  *)
(* the windows through which the kernel reaches a page directory.          *)
(*                                                                         *)
(* An address is a segment (the part that one entry of a page directory    *)
(* maps) and a slot (a page of the segment).  m.dir[f] and m.tbl[f] are    *)
(* the contents of frame f read as a page directory and as a page table.   *)
(* Frame 0 stands for the frames of the boot area: an entry 0 is empty.    *)
(*                                                                         *)
(* Of frame.c only this matters here: frame_new gives a free frame, or one *)
(* of the pool when there is none (module Frame).  Which one makes no      *)
(* difference, as frames are interchangeable.                              *)
(***************************************************************************)
EXTENDS Integers

CONSTANTS
  Ram,          \* frames that init finds in the memory map
  Pool,         \* frames of the emergency pool
  init_kmap,    \* frame of the page directory made by boot.s
  init_ktbl,    \* frame of the page table made by boot.s
  SYSTEM,       \* first segment of the system layer
  SYSTEM_SIZE,  \* number of its segments
  KERNEL,       \* first segment of the kernel
  TMP,          \* segment of TMP_MAP; PGE_MAP is the next and last one
  Slot,         \* pages of a segment
  PCTX_COUNT    \* slots of _pctx_table

Frame == Ram \cup Pool \cup {init_kmap, init_ktbl, 0}
PGE   == TMP + 1
Seg   == 0..PGE
Pctx  == 0..(PCTX_COUNT - 1)

ASSUME FramesDistinct ==
  /\ Ram \cap Pool = {} /\ init_kmap # init_ktbl
  /\ {init_kmap, init_ktbl, 0} \cap (Ram \cup Pool) = {} /\ 0 \notin {init_kmap, init_ktbl}
ASSUME LayoutInOrder ==
  /\ SYSTEM \in Nat /\ SYSTEM_SIZE \in Nat /\ KERNEL \in Nat /\ TMP \in Nat
  /\ SYSTEM_SIZE + SYSTEM_SIZE <= SYSTEM
  /\ SYSTEM + SYSTEM_SIZE = KERNEL /\ KERNEL < TMP
ASSUME SomeContexts == PCTX_COUNT \in Nat \ {0}

UserSeg == 0..(SYSTEM - 1)
Page    == Seg \X Slot

(* page_fmt: a frame and the flags, of which control depends on PF_PRES. *)
Entry   == [frame : Frame, pres : BOOLEAN]
NoEntry == [frame |-> 0, pres |-> FALSE]

EmptyDir == [s \in Seg |-> 0]
EmptyTbl == [s \in Slot |-> NoEntry]

MemoryData ==
  [dir : [Frame -> [Seg -> Frame]], tbl : [Frame -> [Slot -> Entry]],
   cr3 : Frame, pctx_table : [Pctx -> Frame], active_pctx : Pctx,
   free : SUBSET Ram, pool : SUBSET Pool, panicked : BOOLEAN]

-----------------------------------------------------------------------------
(* frame.c; a record of the frame returned and the data left behind. *)

frame_new(m) ==
  LET from == IF m.free # {} THEN m.free ELSE m.pool
      f    == CHOOSE g \in from : TRUE
  IN  IF from = {} THEN [ret |-> 0, m |-> [m EXCEPT !.panicked = TRUE]]
      ELSE [ret |-> f, m |-> [m EXCEPT !.free = @ \ {f}, !.pool = @ \ {f}]]

(* A frame without a struct, or a free one, is not found in frame_hash. *)
frame_free(m, f) == IF f \in Ram THEN [m EXCEPT !.free = @ \cup {f}] ELSE m

-----------------------------------------------------------------------------
(* page.c and mem.c.  cmap and ctbl are addresses in segment PGE: what     *)
(* they show depends on that entry of the directory in cr3.                *)

cmap(m)    == m.dir[m.cr3][PGE]
ctbl(m, s) == m.dir[cmap(m)][s]

page_get(m, p) == IF ctbl(m, p[1]) = 0 THEN NoEntry ELSE m.tbl[ctbl(m, p[1])][p[2]]

page_touch(m, s) ==
  LET new == frame_new(m)
  IN  IF ctbl(m, s) # 0 THEN m
      ELSE [new.m EXCEPT !.dir[cmap(m)][s] = new.ret, !.tbl[new.ret] = EmptyTbl]

page_set(m, p, e) ==
  LET t == page_touch(m, p[1])
  IN  [t EXCEPT !.tbl[ctbl(t, p[1])][p[2]] = e]

(* A new frame for page p; the caller's test differs. *)
page_new(m, p) ==
  LET new == frame_new(m) IN page_set(new.m, p, [frame |-> new.ret, pres |-> TRUE])

(* mem_alloc, for one page of the range. *)
mem_alloc(m, p) == IF page_get(m, p).pres THEN m ELSE page_new(m, p)

-----------------------------------------------------------------------------
(* pctx.c: address spaces *)

(* The new directory is cleared through the window at TMP_SRC. *)
space_alloc(m) ==
  LET new == frame_new(m)
  IN  [ret |-> new.ret,
       m   |-> [new.m EXCEPT !.dir[new.ret] = [EmptyDir EXCEPT ![PGE] = new.ret]]]

space_exmap(m, space) == [m EXCEPT !.dir[cmap(m)][TMP] = space]

(* exmap and extbl of the other space, seen through segment TMP. *)
exmap(m) == m.dir[m.dir[cmap(m)][TMP]][PGE]

(* Mutant: the user's part of the directory is cloned too. *)
space_clone_user(m) ==
  LET new == space_alloc(m)
      ex  == space_exmap(new.m, new.ret)
  IN  [ret |-> new.ret,
       m   |-> [ex EXCEPT !.dir[exmap(ex)] =
                  [s \in Seg |-> IF s < PGE THEN ex.dir[cmap(ex)][s] ELSE @[s]]]]

(* Mutant: one segment too many, the window of the space itself. *)
space_clone_window(m) ==
  LET new == space_alloc(m)
      ex  == space_exmap(new.m, new.ret)
  IN  [ret |-> new.ret,
       m   |-> [ex EXCEPT !.dir[exmap(ex)] =
                  [s \in Seg |-> IF s >= SYSTEM THEN ex.dir[cmap(ex)][s] ELSE @[s]]]]

space_clone(m) ==
  LET new == space_alloc(m)
      ex  == space_exmap(new.m, new.ret)
  IN  [ret |-> new.ret,
       m   |-> [ex EXCEPT !.dir[exmap(ex)] =
                  [s \in Seg |-> IF s \in SYSTEM..(PGE - 1)
                                 THEN ex.dir[cmap(ex)][s] ELSE @[s]]]]

(* Mutant: the page tables are not given back. *)
space_free_keeps_tables(m, space) ==
  LET ex    == space_exmap(m, space)
      d     == exmap(ex)
      tabs  == {ex.dir[d][s] : s \in UserSeg} \ {0}
      pages == UNION {{ex.tbl[t][s].frame : s \in {n \in Slot : ex.tbl[t][n].pres}} :
                        t \in tabs}
  IN  [ex EXCEPT !.free = @ \cup ((pages \cup {space}) \cap Ram),
                 !.tbl  = [f \in Frame |-> IF f \in tabs THEN EmptyTbl ELSE @[f]],
                 !.dir[d] = EmptyDir]

(* Every present page and every page table of the user's part, then the    *)
(* directory: each is a frame_free.  What the directory has left is dead,  *)
(* and empty here.                                                         *)
space_free(m, space) ==
  LET ex    == space_exmap(m, space)
      d     == exmap(ex)
      tabs  == {ex.dir[d][s] : s \in UserSeg} \ {0}
      pages == UNION {{ex.tbl[t][s].frame : s \in {n \in Slot : ex.tbl[t][n].pres}} :
                        t \in tabs}
  IN  [ex EXCEPT !.free = @ \cup ((pages \cup tabs \cup {space}) \cap Ram),
                 !.tbl  = [f \in Frame |-> IF f \in tabs THEN EmptyTbl ELSE @[f]],
                 !.dir[d] = EmptyDir]

-----------------------------------------------------------------------------
(* pctx.c: contexts *)

pctx_init(m) ==
  LET c == space_clone(m) IN [c.m EXCEPT !.pctx_table[0] = c.ret]

(* Mutant: the search for a slot runs one past the end of the table. *)
pctx_new_past_end(m) ==
  LET i    == IF m.pctx_table[0] = 0 THEN pctx_init(m) ELSE m
      gaps == {n \in Pctx : i.pctx_table[n] = 0} \cup {PCTX_COUNT}
      n    == CHOOSE x \in gaps : \A y \in gaps : x <= y
      c    == space_clone(i)
  IN  [ret |-> n, m |-> [c.m EXCEPT !.pctx_table =
                           [x \in Pctx \cup {n} |-> IF x = n THEN c.ret ELSE @[x]]]]

pctx_new(m) ==
  LET i    == IF m.pctx_table[0] = 0 THEN pctx_init(m) ELSE m
      gaps == {n \in Pctx : i.pctx_table[n] = 0}
      n    == CHOOSE x \in gaps : \A y \in gaps : x <= y
      c    == space_clone(i)
  IN  IF gaps = {} THEN [ret |-> -1, m |-> i]
      ELSE [ret |-> n, m |-> [c.m EXCEPT !.pctx_table[n] = c.ret]]

(* Whether a context number is refused. *)
refused(m, pctx) == pctx <= 0 \/ pctx >= PCTX_COUNT \/ m.pctx_table[pctx] = 0

pctx_free(m, pctx) ==
  IF refused(m, pctx) THEN m
  ELSE [space_free(m, m.pctx_table[pctx]) EXCEPT !.pctx_table[pctx] = 0]

pctx_load(m, pctx) ==
  IF refused(m, pctx) THEN m
  ELSE [m EXCEPT !.cr3 = m.pctx_table[pctx], !.active_pctx = pctx]

-----------------------------------------------------------------------------
(* What the operations keep. *)

(* The page directories in use, their page tables, the frames in these. *)
Live(m)   == {init_kmap} \cup ({m.pctx_table[c] : c \in Pctx} \ {0})
SharedSeg == SYSTEM..(TMP - 1)
Tables(m) == {m.dir[d][s] : d \in Live(m), s \in UserSeg \cup SharedSeg} \ {0}
Mapped(m) == {m.tbl[t][n].frame : t \in Tables(m), n \in Slot} \ {0}
Taken(m)  == Live(m) \cup Tables(m) \cup Mapped(m)

(* No two contexts have one directory, no two segments one page table,     *)
(* unless it is the kernel's or the system's, and no two pages one frame.  *)
OneSpace(m) ==
  \A c, e \in Pctx : m.pctx_table[c] = m.pctx_table[e] /\ c # e => m.pctx_table[c] = 0
OneTable(m) ==
  \A d \in Live(m), s \in UserSeg \cup SharedSeg : m.dir[d][s] # 0 =>
    \A e \in Live(m), r \in UserSeg \cup SharedSeg :
      m.dir[d][s] = m.dir[e][r] => s = r /\ (s \in UserSeg => d = e)
OnePage(m) ==
  \A t, u \in Tables(m) : \A i, j \in Slot :
    m.tbl[t][i].frame = m.tbl[u][j].frame /\ m.tbl[t][i].frame # 0 => t = u /\ i = j

(* A frame has one use, and nothing in use is free or a client's. *)
OneUseOf(m, h) ==
  /\ OneSpace(m) /\ OneTable(m) /\ OnePage(m)
  /\ Live(m) \cap Tables(m) = {} /\ (Live(m) \cup Tables(m)) \cap Mapped(m) = {}
  /\ Taken(m) \cap (m.free \cup m.pool \cup h) = {}
  /\ h \cap (m.free \cup m.pool) = {}

(* A frame that was added is free, in use, or a client's. *)
NoneLost(m, h, a) == a \subseteq m.free \cup Taken(m) \cup h

(* A page that is not present in a space has a frame. *)
Half(m, d) ==
  \E s \in UserSeg, n \in Slot :
    m.dir[d][s] # 0 /\ ~m.tbl[m.dir[d][s]][n].pres /\ m.tbl[m.dir[d][s]][n].frame # 0

(* Every directory shows itself in its window and has the shared tables,   *)
(* in which only present pages have a frame.                               *)
Windows(m)      == \A d \in Live(m) : m.dir[d][PGE] = d
TablesShared(m) == \A d \in Live(m), s \in SharedSeg : m.dir[d][s] = m.dir[init_kmap][s]
NoneHalf(m)     == \A s \in SharedSeg, n \in Slot :
  LET t == m.dir[init_kmap][s] IN t # 0 /\ ~m.tbl[t][n].pres => m.tbl[t][n].frame = 0

(* The page tables, the contexts and the frames, with the frames h of the  *)
(* clients and the frames a that have been added: no use of a frame before *)
(* it is added, and directories that agree.                                *)
MemShape(m, h, a) ==
  /\ m \in MemoryData /\ h \subseteq Ram \cup Pool /\ a \subseteq Ram
  /\ \A c \in Pctx : m.pctx_table[c] # init_kmap
  /\ Windows(m) /\ TablesShared(m) /\ NoneHalf(m)
  /\ (m.free \cup Taken(m) \cup h) \cap Ram \subseteq a /\ Mapped(m) \subseteq Ram \cup Pool
MemInv(m, h, a) == MemShape(m, h, a) /\ OneUseOf(m, h)

=============================================================================
