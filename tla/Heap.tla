-------------------------------- MODULE Heap --------------------------------
(***************************************************************************)
(* src/kernel/heap.c: the kernel's allocator.  Blocks of 2^n words come    *)
(* from slabs of whole pages, and go back to a list per size.  Addresses   *)
(* and sizes are in words, counted from KERNEL_HEAP.                       *)
(***************************************************************************)
EXTENDS Integers, Sequences

CONSTANTS
  BUCKET_COUNT,   \* lists of heap_bucket, 16 in the code
  PAGE_BUCKET,    \* the list whose blocks are a page, 10 in the code
  HEAP_SIZE       \* KERNEL_HEAP_END - KERNEL_HEAP

ASSUME HeapParameters ==
  /\ PAGE_BUCKET \in Nat /\ HEAP_SIZE \in Nat
  /\ BUCKET_COUNT \in Nat /\ PAGE_BUCKET < BUCKET_COUNT

Bucket    == 0..(BUCKET_COUNT - 1)
PAGE_SIZE == 2 ^ PAGE_BUCKET
TOO_LARGE == 17

HeapEmpty == [bucket   |-> [b \in Bucket |-> <<>>],
              analysis |-> [b \in Bucket |-> 0], brk |-> 0, panicked |-> FALSE]

(* The search that heap_alloc and heap_free begin with. *)
bucket_for(size) ==
  LET fits == {i \in Bucket : size <= 2 ^ i}
  IN  IF fits = {} THEN TOO_LARGE ELSE CHOOSE i \in fits : \A j \in fits : i <= j

(* Client: size is the size that was asked for. *)
heap_free(h, ptr, size) ==
  LET b == bucket_for(size)
  IN  [h EXCEPT !.bucket[b] = <<ptr>> \o @, !.analysis[b] = @ - 1]

(* The pages themselves are frames of module Frame. *)
heap_valloc(h, size) ==
  IF h.brk + size >= HEAP_SIZE THEN [h EXCEPT !.panicked = TRUE]
  ELSE [h EXCEPT !.brk = @ + size]

slabsize(b) == IF b <= PAGE_BUCKET THEN PAGE_SIZE ELSE 4 * 2 ^ b

(* Mutant: a new block is counted as if it had been given back. *)
heap_new_slab_counted(h, b) ==
  LET slab == h.brk
      v    == heap_valloc(h, slabsize(b))
      n    == slabsize(b) \div 2 ^ b
  IN  IF v.panicked THEN v
      ELSE [v EXCEPT !.bucket[b] = [k \in 1..n |-> slab + (n - k) * 2 ^ b] \o @,
                     !.analysis[b] = @ - n]

(* The blocks go to the list in order of address, so that the last one is  *)
(* the first to be used; analysis is corrected for each heap_free.         *)
heap_new_slab(h, b) ==
  LET slab == h.brk
      v    == heap_valloc(h, slabsize(b))
      n    == slabsize(b) \div 2 ^ b
  IN  IF v.panicked THEN v
      ELSE [v EXCEPT !.bucket[b] = [k \in 1..n |-> slab + (n - k) * 2 ^ b] \o @]

(* The address, or -1 for NULL. *)
heap_alloc(h, size) ==
  LET b == bucket_for(size)
      s == IF h.bucket[b] = <<>> THEN heap_new_slab(h, b) ELSE h
  IN  IF b = TOO_LARGE THEN [ret |-> -1, h |-> h]
      ELSE IF s.bucket[b] = <<>> THEN [ret |-> -1, h |-> s]
      ELSE [ret |-> Head(s.bucket[b]),
            h   |-> [s EXCEPT !.bucket[b] = Tail(@), !.analysis[b] = @ + 1]]

=============================================================================
