------------------------------- MODULE Spaces -------------------------------
(***************************************************************************)
(* The address spaces of the kernel and of its clients: init.c builds the  *)
(* first one, the kernel calls on frames, pages and contexts (kcall.c)     *)
(* change them, thread_load (thread.c) switches between them, and the      *)
(* kernel's heap grows inside all of them.                                 *)
(*                                                                         *)
(* The calls check almost nothing.  The comments marked Client: below name *)
(* the care that the callers must take, and that the guards assume.        *)
(***************************************************************************)
EXTENDS Paging

CONSTANTS
  Thread,     \* the threads
  first,      \* the thread that init makes
  UserPage,   \* pages of the user's part that clients map
  HeapPage,   \* pages between KERNEL_HEAP and KERNEL_HEAP_END
  ImagePage   \* pages of the system image's segments

(* The boot area is mapped by the kernel's first segment; the heap and the *)
(* image are elsewhere.                                                    *)
ASSUME PagesPlaced ==
  /\ first \in Thread
  /\ UserPage \subseteq UserSeg \X Slot
  /\ HeapPage \subseteq ((KERNEL + 1)..(TMP - 1)) \X Slot
  /\ ImagePage \subseteq (SYSTEM..(KERNEL - 1)) \X Slot

VARIABLES
  mem,        \* page tables, contexts and free frames, a MemoryData record
  touched,    \* boot: iterations of init's two loops over page_touch
  added,      \* boot: the frames that init has added
  up,         \* init has returned
  running,    \* the running thread
  pctx,       \* pctx[t]: the pctx field of thread t
  held        \* frames from KCALL_NEWFRAME that no page refers to

svars == <<mem, touched, added, up, running, pctx, held>>

SpacesInit ==
  /\ mem = [dir |-> [f \in Frame |->
                      IF f = init_kmap
                      THEN [EmptyDir EXCEPT ![KERNEL] = init_ktbl, ![PGE] = init_kmap]
                      ELSE EmptyDir],
            tbl |-> [f \in Frame |->
                      IF f = init_ktbl THEN [s \in Slot |-> [frame |-> 0, pres |-> TRUE]]
                      ELSE EmptyTbl],
            cr3 |-> init_kmap, pctx_table |-> [c \in Pctx |-> 0], active_pctx |-> 0,
            free |-> {}, pool |-> Pool, panicked |-> FALSE]
  /\ touched = 0 /\ added = {} /\ up = FALSE
  /\ running = first /\ pctx = [t \in Thread |-> 0] /\ held = {}

(* A panic stops the machine half way through a call. *)
Becomes(m) == mem' = IF m.panicked THEN [mem EXCEPT !.panicked = TRUE] ELSE m

-----------------------------------------------------------------------------
(* init.c *)

(* The second loop is meant for the system layer, and starts from its size *)
(* and not from its address.                                               *)
KERNEL_SIZE == PGE + 1 - KERNEL
Touches     == KERNEL_SIZE + SYSTEM_SIZE

init_touches(i) == IF i < KERNEL_SIZE THEN KERNEL + i ELSE SYSTEM_SIZE + (i - KERNEL_SIZE)

Touch ==
  /\ touched < Touches
  /\ Becomes(page_touch(mem, init_touches(touched)))
  /\ touched' = touched + 1
  /\ UNCHANGED <<added, up, running, pctx, held>>

(* heap_valloc for a one-page slab: at most one for each heap_alloc. *)
Absent(P)        == {p \in P : ~page_get(mem, p).pres}
Growth           == {{}} \cup {{p} : p \in Absent(HeapPage)}
heap_valloc(m, P) == IF P = {} THEN m ELSE page_new(m, CHOOSE p \in P : TRUE)

AddFrame(f, P) ==
  /\ touched = Touches /\ f \notin added
  /\ LET m == heap_valloc(mem, P) IN Becomes([m EXCEPT !.free = @ \cup {f}])
  /\ added' = added \cup {f}
  /\ UNCHANGED <<touched, up, running, pctx, held>>

(* elf_load_phdr, page by page. *)
LoadImage(p) ==
  /\ touched = Touches /\ added = Ram /\ ~up /\ p \in Absent(ImagePage)
  /\ Becomes(mem_alloc(mem, p))
  /\ UNCHANGED <<touched, added, up, running, pctx, held>>

(* thread_alloc asks the heap for a struct and an FPU area. *)
thread_alloc(m, P, Q) == heap_valloc(heap_valloc(m, P), Q \ P)

(* The first thread; its context is 0, so thread_load loads none. *)
Start(P, Q) ==
  /\ touched = Touches /\ added = Ram /\ ~up /\ Absent(ImagePage) = {}
  /\ Becomes(thread_alloc(mem, P, Q))
  /\ up' = TRUE
  /\ UNCHANGED <<touched, added, running, pctx, held>>

Boot ==
  \/ Touch
  \/ \E P \in Growth, f \in Ram :
       (\A g \in Ram \ added : f <= g) /\ AddFrame(f, P)
  \/ \E p \in ImagePage : LoadImage(p)
  \/ \E P, Q \in Growth : Start(P, Q)

-----------------------------------------------------------------------------
(* kcall.c *)

NewPctx == Becomes(pctx_new(mem).m) /\ UNCHANGED <<running, pctx, held>>

Users(c) == {t \in Thread : pctx[t] = c}

(* Client: a context is freed when it is not loaded, when no thread has    *)
(* it, and when every frame in it is a present page.                       *)
FreePctx(c) ==
  /\ c # mem.active_pctx /\ Users(c) = {} /\ ~Half(mem, mem.pctx_table[c])
  /\ Becomes(pctx_free(mem, c))
  /\ UNCHANGED <<running, pctx, held>>

(* Client: a frame is mapped once, at a page of the user's part; the frame *)
(* it replaces is again the client's.                                      *)
SetFrame(p, f) ==
  /\ f \in held \cup {0}
  /\ Becomes(page_set(mem, p, [page_get(mem, p) EXCEPT !.frame = f]))
  /\ held' = IF mem'.panicked THEN held
             ELSE (held \ {f}) \cup ({page_get(mem, p).frame} \ {0})
  /\ UNCHANGED <<running, pctx>>

SetFlags(p, pres) ==
  /\ Becomes(page_set(mem, p, [page_get(mem, p) EXCEPT !.pres = pres]))
  /\ UNCHANGED <<running, pctx, held>>

NewFrame ==
  /\ Becomes(frame_new(mem).m)
  /\ held' = IF mem'.panicked THEN held ELSE held \cup {frame_new(mem).ret}
  /\ UNCHANGED <<running, pctx>>

(* Client: only frames that no page refers to are given back. *)
FreeFrame(f) ==
  /\ f \in held /\ held' = held \ {f}
  /\ Becomes(frame_free(mem, f))
  /\ UNCHANGED <<running, pctx>>

(* KCALL_SETSTATE, of a thread that is running or paused: what it does     *)
(* with the context.                                                       *)
(* Client: a thread changes its own context only, to one that exists.      *)
SetState(t, c) ==
  /\ c # 0 => mem.pctx_table[c] # 0
  /\ t # running => pctx[t] = c
  /\ Becomes(IF pctx[t] # c THEN pctx_load(mem, c) ELSE mem)
  /\ pctx' = [pctx EXCEPT ![t] = c]
  /\ UNCHANGED <<running, held>>

(* KCALL_REAP of t, and a KCALL_SPAWN that uses its struct again. *)
Respawn(t, P, Q) ==
  /\ t # running
  /\ Becomes(thread_alloc(mem, P, Q))
  /\ pctx' = [pctx EXCEPT ![t] = 0]
  /\ UNCHANGED <<running, held>>

(* Mutant: no context is loaded. *)
thread_load_no_context(m, c) == m

(* thread_load, with c the pctx of the thread that is loaded. *)
thread_load(m, c) == IF c # 0 /\ c # m.active_pctx THEN pctx_load(m, c) ELSE m

Switch(t) ==
  /\ Becomes(thread_load(mem, pctx[t]))
  /\ running' = t
  /\ UNCHANGED <<pctx, held>>

Run ==
  \/ NewPctx
  \/ NewFrame
  \/ \E c \in Pctx \ {0} : FreePctx(c)
  \/ \E p \in UserPage :
       (\E f \in held \cup {0} : SetFrame(p, f)) \/ (\E b \in BOOLEAN : SetFlags(p, b))
  \/ \E f \in held : FreeFrame(f)
  \/ \E t \in Thread :
       \/ Switch(t)
       \/ \E c \in Pctx : SetState(t, c)
       \/ \E P, Q \in Growth : Respawn(t, P, Q)

SpacesNext ==
  \/ ~mem.panicked /\ ~up /\ Boot
  \/ ~mem.panicked /\ up /\ Run /\ UNCHANGED <<touched, added, up>>
  \/ mem.panicked /\ UNCHANGED svars

SpacesSpec == SpacesInit /\ [][SpacesNext]_svars

-----------------------------------------------------------------------------
(* Properties *)

(* Every table entry is a frame, and every context number a context's. *)
SpacesTypeOK ==
  /\ mem \in MemoryData
  /\ touched \in 0..Touches /\ added \subseteq Ram /\ up \in BOOLEAN
  /\ running \in Thread /\ pctx \in [Thread -> Pctx] /\ held \subseteq Ram \cup Pool

(* Whatever thread maps, unmaps or frees what, in whatever order and       *)
(* context: a frame has one use.  No table or page of one space is also    *)
(* one of another, unless it is the kernel's or the system's, and nothing  *)
(* in use is free or will be handed out again.                             *)
OneUse == OneUseOf(mem, held)

(* heap.c: kernel memory is accessible from all address spaces.  Every     *)
(* space has the kernel's page tables, and each shows itself in segment    *)
(* PGE, where cmap looks for it.                                           *)
KernelShared ==
  up => \A d \in Live(mem) :
    /\ mem.dir[d][PGE] = d
    /\ \A s \in SharedSeg : mem.dir[d][s] = mem.dir[init_kmap][s]
    /\ \A s \in KERNEL..(TMP - 1) : mem.dir[d][s] # 0

(* space_free leaves nothing behind: a frame that was added is free, is in *)
(* use, or is a client's.                                                  *)
NothingLost == ~mem.panicked => NoneLost(mem, held, added)

(* thread_load: the active paging context is that of the running thread.   *)
ContextMatch == pctx[running] # 0 => mem.cr3 = mem.pctx_table[pctx[running]]

-----------------------------------------------------------------------------
(* The inductive invariant behind these properties. *)

(* Boot has one space, makes the kernel's page tables before it adds the   *)
(* first frame, and starts no thread.                                      *)
TablesMade(m, n) ==
  \A s \in KERNEL..(TMP - 1) : s - KERNEL < n => m.dir[init_kmap][s] # 0
BootInv ==
  /\ touched \in 0..Touches /\ up \in BOOLEAN
  /\ ~up => /\ \A c \in Pctx : mem.pctx_table[c] = 0
            /\ pctx = [t \in Thread |-> 0] /\ held = {}
  /\ touched # Touches => added = {} /\ ~up
  /\ ~mem.panicked \/ up => TablesMade(mem, touched)

(* The loaded space is the active context's; a thread's context exists and *)
(* is active when the thread runs.                                         *)
ContextOf(m, run, ctx) ==
  /\ run \in Thread /\ ctx \in [Thread -> Pctx]
  /\ \A t \in Thread : ctx[t] # 0 => m.pctx_table[ctx[t]] # 0
  /\ ctx[run] # 0 => m.active_pctx = ctx[run]
  /\ IF m.active_pctx = 0 THEN m.cr3 = init_kmap
     ELSE m.cr3 = m.pctx_table[m.active_pctx] /\ m.cr3 # 0
ContextInv == ContextOf(mem, running, pctx)

(* What the inductive invariant has beyond OneUse and NothingLost: the     *)
(* directories agree, boot keeps its order, and every context that a       *)
(* thread has exists, whatever pctx_free and thread_load did before.       *)
SpacesShape == MemShape(mem, held, added) /\ BootInv /\ ContextInv

SpacesInv == MemInv(mem, held, added) /\ NothingLost /\ BootInv /\ ContextInv

=============================================================================
