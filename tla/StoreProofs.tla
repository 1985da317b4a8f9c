---------------------------- MODULE StoreProofs -----------------------------
(***************************************************************************)
(* The lists of frame.c stay exact, and implement reference counts, for    *)
(* any set of frames, any number of chains and any pool, with the heap and *)
(* the thread table as the allocator's clients (module Store).             *)
(***************************************************************************)
EXTENDS Store, TLAPS

(* Time limits for a leaf that names no prover: the provers in their       *)
(* default order, with time to spare.                                      *)
USE SMTT(30), ZenonT(30)

(* The structs in Q form one list from head along link: links stay inside  *)
(* Q, none returns to the head, no two meet, and any set that holds the    *)
(* head and is closed under link holds all of Q.                           *)
IsList(link, head, Q) ==
  /\ head \in Q \cup {NOFRAME}
  /\ \A x \in Q : link[x] \in Q \cup {NOFRAME}
  /\ \A x \in Q : link[x] # head \/ link[x] = NOFRAME
  /\ \A x, y \in Q : link[x] = link[y] /\ link[x] # NOFRAME => x = y
  /\ \A S \in SUBSET Frame :
       head \in S \cup {NOFRAME} /\ (\A x \in S : link[x] \in S \cup {NOFRAME})
         => Q \subseteq S

Hash == 0..(BUCKETS - 1)

FrameData ==
  [frame_list : Struct, frame_hash : [Hash -> Struct],
   next : [Frame -> Struct], prev : [Frame -> Struct],
   refc : [Frame -> 0..MaxRef], out_of_memory : BOOLEAN,
   oom_pool : 0..POOL, panicked : BOOLEAN]

(* The frames of U on chain h. *)
Hashed(U, h) == {f \in U : bucket(f) = h}

(* The chains hold the frames in use, U, and prev inverts next on them. *)
ChainInv(a, U) ==
  /\ \A h \in Hash : IsList(a.next, a.frame_hash[h], Hashed(U, h))
  /\ \A f \in U : /\ a.refc[f] > 0
                  /\ a.prev[f] = NOFRAME <=> a.frame_hash[bucket(f)] = f
                  /\ a.next[f] # NOFRAME => a.prev[a.next[f]] = f

(* F is free, U in use. *)
FInv(a, F, U) ==
  /\ a \in FrameData
  /\ F \in SUBSET Frame /\ U \in SUBSET Frame /\ F \cap U = {}
  /\ a.out_of_memory => F = {}
  /\ IsList(a.next, a.frame_list, F)
  /\ ChainInv(a, U)

(* The inductive invariant. *)
FrameInv ==
  /\ added \in SUBSET Frame /\ booting \in BOOLEAN
  /\ \E F \in SUBSET added : FInv(fa, F, added \ F)

-----------------------------------------------------------------------------
(* Lists *)

LEMMA NullIsNoFrame == NOFRAME \notin Frame
  BY FramesAreNumbers

(* Links of structs outside the list do not matter. *)
LEMMA FListSame ==
  ASSUME NEW link, NEW link2, NEW h, NEW Q \in SUBSET Frame,
         IsList(link, h, Q), \A x \in Q : link2[x] = link[x]
  PROVE  IsList(link2, h, Q)
  <1>1. ASSUME NEW S \in SUBSET Frame, h \in S \cup {NOFRAME},
               \A x \in S : link2[x] \in S \cup {NOFRAME}
        PROVE  Q \subseteq S
    <2>1. S \cap Q \in SUBSET Frame /\ h \in (S \cap Q) \cup {NOFRAME}
      BY <1>1 DEF IsList
    <2>2. \A x \in S \cap Q : link[x] \in (S \cap Q) \cup {NOFRAME}
      BY <1>1 DEF IsList
    <2>3. Q \subseteq S \cap Q
      BY <2>1, <2>2, Zenon DEF IsList
    <2> QED BY <2>3
  <1>2. /\ h \in Q \cup {NOFRAME}
        /\ \A x \in Q : link2[x] \in Q \cup {NOFRAME}
        /\ \A x \in Q : link2[x] # h \/ link2[x] = NOFRAME
        /\ \A x, y \in Q : link2[x] = link2[y] /\ link2[x] # NOFRAME => x = y
    BY DEF IsList
  <1> QED BY <1>1, <1>2, Zenon DEF IsList

(* A new head, as frame_new, frame_free and frame_add make one. *)
LEMMA FListPush ==
  ASSUME NEW link, NEW link2, NEW h, NEW Q \in SUBSET Frame, NEW f \in Frame \ Q,
         IsList(link, h, Q), link2[f] = h, \A x \in Q : link2[x] = link[x]
  PROVE  IsList(link2, f, Q \cup {f})
  <1> DEFINE P == Q \cup {f}
  <1>1. IsList(link2, h, Q)
    BY FListSame
  <1>2. ASSUME NEW S \in SUBSET Frame, f \in S \cup {NOFRAME},
               \A x \in S : link2[x] \in S \cup {NOFRAME}
        PROVE  P \subseteq S
    <2>1. f \in S
      BY <1>2, NullIsNoFrame
    <2>2. h \in S \cup {NOFRAME}
      BY <1>2, <2>1
    <2>3. Q \subseteq S
      BY <1>1, <1>2, <2>2, Zenon DEF IsList
    <2> QED BY <2>1, <2>3
  <1>3. /\ f \in P \cup {NOFRAME}
        /\ \A x \in P : link2[x] \in P \cup {NOFRAME}
        /\ \A x \in P : link2[x] # f \/ link2[x] = NOFRAME
        /\ \A x, y \in P : link2[x] = link2[y] /\ link2[x] # NOFRAME => x = y
    BY <1>1, NullIsNoFrame DEF IsList
  <1> QED BY <1>2, <1>3, Zenon DEF IsList

(* Removing the head. *)
LEMMA FListPop ==
  ASSUME NEW link, NEW h, NEW Q \in SUBSET Frame, IsList(link, h, Q), h # NOFRAME
  PROVE  h \in Q /\ IsList(link, link[h], Q \ {h})
  <1> DEFINE P == Q \ {h}
             n == link[h]
  <1>0. h \in Q /\ n \in Q \cup {NOFRAME} /\ (n # h \/ n = NOFRAME)
    BY DEF IsList
  <1>1. ASSUME NEW S \in SUBSET Frame, n \in S \cup {NOFRAME},
               \A x \in S : link[x] \in S \cup {NOFRAME}
        PROVE  P \subseteq S
    <2>1. S \cup {h} \in SUBSET Frame /\ h \in (S \cup {h}) \cup {NOFRAME}
      BY <1>0
    <2>2. \A x \in S \cup {h} : link[x] \in (S \cup {h}) \cup {NOFRAME}
      BY <1>1
    <2>3. Q \subseteq S \cup {h}
      BY <2>1, <2>2, Zenon DEF IsList
    <2> QED BY <2>3
  <1>2. /\ n \in P \cup {NOFRAME}
        /\ \A x \in P : link[x] \in P \cup {NOFRAME}
        /\ \A x \in P : link[x] # n \/ link[x] = NOFRAME
        /\ \A x, y \in P : link[x] = link[y] /\ link[x] # NOFRAME => x = y
    BY <1>0, NullIsNoFrame DEF IsList
  <1> QED BY <1>0, <1>1, <1>2, Zenon DEF IsList

(* A member that is not the head has a predecessor. *)
LEMMA FListPred ==
  ASSUME NEW link, NEW h, NEW Q \in SUBSET Frame, IsList(link, h, Q),
         NEW b \in Q, b # h
  PROVE  \E p \in Q : link[p] = b /\ p # b
  <1> SUFFICES ASSUME \A p \in Q : link[p] # b \/ p = b PROVE FALSE
    OBVIOUS
  <1> DEFINE S == Q \ {b}
  <1>1. S \in SUBSET Frame /\ \A x \in S : link[x] \in S \cup {NOFRAME}
    BY DEF IsList
  <1>2. h \in S \cup {NOFRAME}
    BY DEF IsList
  <1>3. Q \subseteq S
    BY <1>1, <1>2, Zenon DEF IsList
  <1> QED BY <1>3

(* Taking out b after its predecessor p. *)
LEMMA FListRemove ==
  ASSUME NEW link, NEW link2, NEW h, NEW Q \in SUBSET Frame, IsList(link, h, Q),
         NEW b \in Q, b # h, NEW p \in Q, p # b, link[p] = b,
         \A x \in Q : link2[x] = IF x = p THEN link[b] ELSE link[x]
  PROVE  IsList(link2, h, Q \ {b})
  <1> DEFINE P == Q \ {b}
  <1>0. b # NOFRAME /\ link[b] \in P \cup {NOFRAME}
    BY NullIsNoFrame DEF IsList
  <1>1. ASSUME NEW S \in SUBSET Frame, h \in S \cup {NOFRAME},
               \A x \in S : link2[x] \in S \cup {NOFRAME}
        PROVE  P \subseteq S
    <2> DEFINE S0 == S \cap P
               S1 == S0 \cup {b}
    <2>1. h \in S0 \cup {NOFRAME}
      BY <1>1 DEF IsList
    <2>2. \A x \in S0 : x # p => link[x] \in S0 \cup {NOFRAME}
      BY <1>0, <1>1 DEF IsList
    <2>3. CASE p \in S0
      <3>1. link[b] \in S0 \cup {NOFRAME}
        BY <1>0, <1>1, <2>3
      <3>2. \A x \in S1 : link[x] \in S1 \cup {NOFRAME}
        BY <2>2, <3>1
      <3>3. S1 \in SUBSET Frame /\ h \in S1 \cup {NOFRAME}
        BY <2>1
      <3>4. Q \subseteq S1
        BY <3>2, <3>3, Zenon DEF IsList
      <3> QED BY <3>4
    <2>4. CASE p \notin S0
      <3>1. \A x \in S0 : link[x] \in S0 \cup {NOFRAME}
        BY <2>2, <2>4
      <3>2. S0 \in SUBSET Frame
        OBVIOUS
      <3>3. Q \subseteq S0
        BY <2>1, <3>1, <3>2, Zenon DEF IsList
      <3> QED BY <3>3
    <2> QED BY <2>3, <2>4
  <1>2. /\ h \in P \cup {NOFRAME}
        /\ \A x \in P : link2[x] \in P \cup {NOFRAME}
        /\ \A x \in P : link2[x] # h \/ link2[x] = NOFRAME
        /\ \A x, y \in P : link2[x] = link2[y] /\ link2[x] # NOFRAME => x = y
    BY <1>0 DEF IsList
  <1> QED BY <1>1, <1>2, Zenon DEF IsList

(* What a walk from the head meets is the list. *)
LEMMA ChainIsList ==
  ASSUME NEW a, NEW h, NEW Q \in SUBSET Frame, IsList(a.next, h, Q)
  PROVE  Chain(a, h) = Q
  <1>1. Chain(a, h) \subseteq Q
    <2>1. h \in Q \cup {NOFRAME} /\ \A x \in Q : a.next[x] \in Q \cup {NOFRAME}
      BY DEF IsList
    <2> QED BY <2>1, Zenon DEF Chain
  <1>2. ASSUME NEW f \in Q PROVE f \in Chain(a, h)
    <2>1. ASSUME NEW S \in SUBSET Frame, h \in S \cup {NOFRAME},
                 \A x \in S : a.next[x] \in S \cup {NOFRAME}
          PROVE  f \in S
      <3>1. Q \subseteq S
        BY <2>1, Zenon DEF IsList
      <3> QED BY <3>1
    <2> QED BY <2>1, Zenon DEF Chain
  <1> QED BY <1>1, <1>2

-----------------------------------------------------------------------------
(* Chains *)

LEMMA BucketInHash == \A f \in Frame : bucket(f) \in Hash
  BY FramesAreNumbers, SomeBuckets DEF bucket, Hash

(* Only the empty set is listed from NOFRAME. *)
LEMMA EmptyList ==
  ASSUME NEW link, NEW Q \in SUBSET Frame
  PROVE  /\ IsList(link, NOFRAME, {})
         /\ IsList(link, NOFRAME, Q) => Q = {}
  <1>1. IsList(link, NOFRAME, {})
    BY Zenon DEF IsList
  <1>2. ASSUME IsList(link, NOFRAME, Q) PROVE Q = {}
    <2>1. {} \in SUBSET Frame /\ NOFRAME \in {} \cup {NOFRAME}
      OBVIOUS
    <2>2. Q \subseteq {}
      BY <1>2, <2>1, Zenon DEF IsList
    <2> QED BY <2>2
  <1> QED BY <1>1, <1>2

(* The chains depend on the structs in use only. *)
LEMMA ChainSame ==
  ASSUME NEW a, NEW b, NEW U \in SUBSET Frame, ChainInv(a, U),
         b.frame_hash = a.frame_hash,
         \A x \in U : /\ b.next[x] = a.next[x] /\ b.prev[x] = a.prev[x]
                      /\ b.refc[x] > 0
  PROVE  ChainInv(b, U)
  <1>1. ASSUME NEW h \in Hash PROVE IsList(b.next, b.frame_hash[h], Hashed(U, h))
    <2>1. Hashed(U, h) \in SUBSET Frame /\ \A x \in Hashed(U, h) : b.next[x] = a.next[x]
      BY DEF Hashed
    <2>2. IsList(a.next, a.frame_hash[h], Hashed(U, h))
      BY DEF ChainInv
    <2>3. IsList(b.next, a.frame_hash[h], Hashed(U, h))
      BY <2>1, <2>2, FListSame, Zenon
    <2> QED BY <2>3
  <1>2. ASSUME NEW f \in U, a.next[f] # NOFRAME PROVE a.next[f] \in U
    BY <1>2, BucketInHash DEF ChainInv, IsList, Hashed
  <1>3. ASSUME NEW f \in U
        PROVE  /\ b.refc[f] > 0
               /\ b.prev[f] = NOFRAME <=> b.frame_hash[bucket(f)] = f
               /\ b.next[f] # NOFRAME => b.prev[b.next[f]] = f
    <2>1. /\ a.prev[f] = NOFRAME <=> a.frame_hash[bucket(f)] = f
          /\ a.next[f] # NOFRAME => a.prev[a.next[f]] = f
      BY Zenon DEF ChainInv
    <2> QED BY <1>2, <2>1
  <1> QED BY <1>1, <1>3, Zenon DEF ChainInv

(* A struct that is on no list becomes the first free one. *)
LEMMA FreePush ==
  ASSUME NEW a, NEW F, NEW U, FInv(a, F, U), NEW f \in Frame \ (F \cup U),
         NEW b \in FrameData, b.frame_list = f, b.frame_hash = a.frame_hash,
         b.out_of_memory = FALSE, b.next = [a.next EXCEPT ![f] = a.frame_list],
         \A x \in U : b.prev[x] = a.prev[x] /\ b.refc[x] = a.refc[x]
  PROVE  FInv(b, F \cup {f}, U)
  <1>0. /\ F \in SUBSET Frame /\ U \in SUBSET Frame /\ F \cap U = {}
        /\ a.next \in [Frame -> Struct]
    BY DEF FInv, FrameData
  <1>1. /\ b.next[f] = a.frame_list /\ \A x \in F : b.next[x] = a.next[x]
        /\ \A x \in U : b.next[x] = a.next[x]
    BY <1>0
  <1>2. IsList(b.next, f, F \cup {f})
    <2>1. IsList(a.next, a.frame_list, F) /\ f \in Frame \ F
      BY DEF FInv
    <2>2. F \in SUBSET Frame
      BY <1>0
    <2> QED BY <1>1, <2>1, <2>2, FListPush, Zenon
  <1>3. ChainInv(b, U)
    <2>1. ChainInv(a, U)
      BY DEF FInv
    <2>2. \A x \in U : /\ b.next[x] = a.next[x] /\ b.prev[x] = a.prev[x]
                       /\ b.refc[x] > 0
      BY <1>1, <2>1 DEF ChainInv
    <2>3. U \in SUBSET Frame
      BY <1>0
    <2>4. b.frame_hash = a.frame_hash
      OBVIOUS
    <2> QED BY ONLY <2>1, <2>2, <2>3, <2>4, ChainSame, ZenonT(60)
  <1> QED BY <1>0, <1>2, <1>3 DEF FInv

(* What frame_find finds: the frames in use. *)
LEMMA FindInUse ==
  ASSUME NEW a, NEW F, NEW U, FInv(a, F, U), NEW f \in Frame
  PROVE  frame_find(a, f) = IF f \in U THEN f ELSE NOFRAME
  <1>1. IsList(a.next, a.frame_hash[bucket(f)], Hashed(U, bucket(f)))
    BY BucketInHash DEF FInv, ChainInv
  <1>2. Hashed(U, bucket(f)) \in SUBSET Frame
    BY DEF Hashed, FInv
  <1>3. Chain(a, a.frame_hash[bucket(f)]) = Hashed(U, bucket(f))
    BY <1>1, <1>2, ChainIsList, Zenon
  <1> QED BY <1>3 DEF frame_find, Hashed

(* What a walk of the free list or of a chain visits are its frames. *)
LEMMA FreshList ==
  ASSUME NEW a, NEW F, NEW U, FInv(a, F, U)
  PROVE  /\ Chain(a, a.frame_list) = F
         /\ \A h \in Hash : Chain(a, a.frame_hash[h]) = Hashed(U, h)
  <1>1. F \in SUBSET Frame /\ IsList(a.next, a.frame_list, F)
    BY DEF FInv
  <1>2. ASSUME NEW h \in Hash PROVE Chain(a, a.frame_hash[h]) = Hashed(U, h)
    <2>1. IsList(a.next, a.frame_hash[h], Hashed(U, h)) /\ Hashed(U, h) \in SUBSET Frame
      BY DEF FInv, ChainInv, Hashed
    <2> QED BY <2>1, ChainIsList, Zenon
  <1> QED BY <1>1, <1>2, ChainIsList, Zenon

-----------------------------------------------------------------------------
(* frame_new and frame_pull on the chains *)

(* Where the links of a chain lead. *)
LEMMA ChainLinks ==
  ASSUME NEW a, NEW U \in SUBSET Frame, ChainInv(a, U)
  PROVE  /\ \A h \in Hash : a.frame_hash[h] = NOFRAME
                              \/ (a.frame_hash[h] \in U /\ bucket(a.frame_hash[h]) = h)
         /\ \A f \in U : a.next[f] = NOFRAME
                           \/ (a.next[f] \in U /\ bucket(a.next[f]) = bucket(f)
                                 /\ a.frame_hash[bucket(f)] # a.next[f])
         /\ \A f, g \in U : a.next[f] = a.next[g] /\ a.next[f] # NOFRAME => f = g
  <1>1. ASSUME NEW h \in Hash
        PROVE  a.frame_hash[h] = NOFRAME
                 \/ (a.frame_hash[h] \in U /\ bucket(a.frame_hash[h]) = h)
    BY DEF ChainInv, IsList, Hashed
  <1>2. ASSUME NEW f \in U
        PROVE  a.next[f] = NOFRAME
                 \/ (a.next[f] \in U /\ bucket(a.next[f]) = bucket(f)
                       /\ a.frame_hash[bucket(f)] # a.next[f])
    <2>1. bucket(f) \in Hash /\ f \in Hashed(U, bucket(f))
      BY BucketInHash DEF Hashed
    <2>2. IsList(a.next, a.frame_hash[bucket(f)], Hashed(U, bucket(f)))
      BY <2>1 DEF ChainInv
    <2> QED BY <2>1, <2>2 DEF IsList, Hashed
  <1>3. ASSUME NEW f \in U, NEW g \in U, a.next[f] = a.next[g], a.next[f] # NOFRAME
        PROVE  f = g
    <2>1. bucket(f) = bucket(g)
      BY <1>2, <1>3
    <2>2. bucket(f) \in Hash /\ f \in Hashed(U, bucket(f)) /\ g \in Hashed(U, bucket(f))
      BY <2>1, BucketInHash DEF Hashed
    <2>3. IsList(a.next, a.frame_hash[bucket(f)], Hashed(U, bucket(f)))
      BY <2>2 DEF ChainInv
    <2> QED BY <1>3, <2>2, <2>3, Zenon DEF IsList
  <1> QED BY <1>1, <1>2, <1>3

(* A struct becomes the first of the chain its number selects. *)
LEMMA ChainPush ==
  ASSUME NEW a, NEW U \in SUBSET Frame, ChainInv(a, U), NEW fs \in Frame \ U, NEW b,
         NEW hd, hd = a.frame_hash[bucket(fs)], b.next[fs] = hd,
         \A x \in U : b.next[x] = a.next[x],
         \A x \in U \cup {fs} : b.prev[x] = IF x = fs THEN NOFRAME
                                            ELSE IF x = hd THEN fs ELSE a.prev[x],
         \A h \in Hash : b.frame_hash[h] = IF h = bucket(fs) THEN fs ELSE a.frame_hash[h],
         \A x \in U \cup {fs} : b.refc[x] > 0
  PROVE  ChainInv(b, U \cup {fs})
  <1> DEFINE V == U \cup {fs}
  <1>0. fs # NOFRAME /\ bucket(fs) \in Hash /\ V \in SUBSET Frame /\ NOFRAME \notin U
    BY NullIsNoFrame, BucketInHash
  <1>1. ASSUME NEW h \in Hash PROVE IsList(b.next, b.frame_hash[h], Hashed(V, h))
    <2>1. /\ IsList(a.next, a.frame_hash[h], Hashed(U, h)) /\ Hashed(U, h) \in SUBSET Frame
          /\ \A x \in Hashed(U, h) : b.next[x] = a.next[x]
          /\ fs \in Frame \ Hashed(U, h)
      BY DEF ChainInv, Hashed
    <2>2. CASE h = bucket(fs)
      <3>1. b.frame_hash[h] = fs /\ b.next[fs] = a.frame_hash[h]
        BY <2>2
      <3>2. Hashed(V, h) = Hashed(U, h) \cup {fs}
        BY <2>2 DEF Hashed
      <3>3. IsList(b.next, fs, Hashed(U, h) \cup {fs})
        BY ONLY <2>1, <3>1, FListPush, Zenon
      <3> QED BY <3>1, <3>2, <3>3, Zenon
    <2>3. CASE h # bucket(fs)
      <3>1. b.frame_hash[h] = a.frame_hash[h] /\ Hashed(V, h) = Hashed(U, h)
        BY <2>3 DEF Hashed
      <3>2. IsList(b.next, a.frame_hash[h], Hashed(U, h))
        BY ONLY <2>1, FListSame, Zenon
      <3> QED BY <3>1, <3>2
    <2> QED BY <2>2, <2>3
  <1>2. ASSUME NEW f \in V
        PROVE  /\ b.prev[f] = NOFRAME <=> b.frame_hash[bucket(f)] = f
               /\ b.next[f] # NOFRAME => b.prev[b.next[f]] = f
    <2>1. hd = NOFRAME \/ (hd \in U /\ bucket(hd) = bucket(fs))
      BY <1>0, ChainLinks
    <2>2. CASE f = fs
      BY <1>0, <2>1, <2>2
    <2>3. CASE f # fs
      <3>1. f \in U /\ bucket(f) \in Hash
        BY <1>2, <2>3, BucketInHash
      <3>2. /\ a.prev[f] = NOFRAME <=> a.frame_hash[bucket(f)] = f
            /\ a.next[f] # NOFRAME => a.prev[a.next[f]] = f
        BY <3>1, Zenon DEF ChainInv
      <3>3. a.next[f] = NOFRAME
              \/ (a.next[f] \in U /\ bucket(a.next[f]) = bucket(f)
                    /\ a.frame_hash[bucket(f)] # a.next[f])
        BY <3>1, ChainLinks, ZenonT(60)
      <3>4. b.prev[f] = NOFRAME <=> b.frame_hash[bucket(f)] = f
        BY <1>0, <2>1, <2>3, <3>1, <3>2
      <3>5. b.next[f] = a.next[f]
        BY <3>1
      <3>6. ASSUME b.next[f] # NOFRAME PROVE b.prev[b.next[f]] = f
        <4>1. a.next[f] \in U /\ a.next[f] # fs
          BY <3>3, <3>5, <3>6
        <4>2. a.next[f] # hd
          BY <2>1, <3>3, <4>1, <1>0
        <4> QED BY <3>2, <3>5, <3>6, <4>1, <4>2
      <3> QED BY <3>4, <3>6
    <2> QED BY <2>2, <2>3
  <1> QED BY <1>1, <1>2, Zenon DEF ChainInv

(* frame_pull takes out the struct it is given and no other. *)
LEMMA ChainPull ==
  ASSUME NEW a, NEW U \in SUBSET Frame, ChainInv(a, U), NEW fs \in U, NEW b,
         NEW p, p = a.prev[fs], NEW n, n = a.next[fs],
         \A x \in U : b.next[x] = IF x = p THEN n ELSE a.next[x],
         \A x \in U : b.prev[x] = IF x = n THEN p ELSE a.prev[x],
         \A h \in Hash : b.frame_hash[h] = IF h = bucket(fs) /\ p = NOFRAME THEN n
                                           ELSE a.frame_hash[h],
         \A x \in U : b.refc[x] = a.refc[x]
  PROVE  ChainInv(b, U \ {fs})
  <1> DEFINE V  == U \ {fs}
             hf == bucket(fs)
  <1>0. fs # NOFRAME /\ hf \in Hash /\ V \in SUBSET Frame /\ NOFRAME \notin U
    BY NullIsNoFrame, BucketInHash
  <1>1. /\ p = NOFRAME <=> a.frame_hash[hf] = fs
        /\ n # NOFRAME => a.prev[n] = fs
        /\ n = NOFRAME \/ (n \in U /\ bucket(n) = hf /\ a.frame_hash[hf] # n)
    BY ChainLinks, ZenonT(60) DEF ChainInv
  <1>2. IsList(a.next, a.frame_hash[hf], Hashed(U, hf)) /\ fs \in Hashed(U, hf)
          /\ Hashed(U, hf) \in SUBSET Frame
    BY <1>0 DEF ChainInv, Hashed
  <1>3. ASSUME p # NOFRAME
        PROVE  p \in Hashed(U, hf) /\ a.next[p] = fs /\ p # fs
    <2>1. fs # a.frame_hash[hf]
      BY <1>1, <1>3
    <2>2. PICK q \in Hashed(U, hf) : a.next[q] = fs /\ q # fs
      <3>1. \E q \in Hashed(U, hf) : a.next[q] = fs /\ q # fs
        BY ONLY <1>2, <2>1, FListPred, SMTT(30), ZenonT(30)
      <3> QED BY <3>1
    <2>3. q \in U /\ a.prev[fs] = q
      BY <1>0, <2>2 DEF Hashed, ChainInv
    <2> QED BY <2>2, <2>3
  <1>4. ASSUME NEW h \in Hash PROVE IsList(b.next, b.frame_hash[h], Hashed(V, h))
    <2>1. CASE h # hf
      <3>1. b.frame_hash[h] = a.frame_hash[h] /\ Hashed(V, h) = Hashed(U, h)
        BY <2>1 DEF Hashed
      <3>2. /\ IsList(a.next, a.frame_hash[h], Hashed(U, h)) /\ Hashed(U, h) \in SUBSET Frame
            /\ \A x \in Hashed(U, h) : b.next[x] = a.next[x]
        BY <1>0, <1>3, <2>1 DEF ChainInv, Hashed
      <3>3. IsList(b.next, a.frame_hash[h], Hashed(U, h))
        BY ONLY <3>2, FListSame, Zenon
      <3> QED BY <3>1, <3>3
    <2>2. CASE h = hf /\ p = NOFRAME
      <3>1. a.frame_hash[hf] = fs /\ b.frame_hash[h] = n
              /\ Hashed(V, h) = Hashed(U, hf) \ {fs}
        BY <1>1, <2>2 DEF Hashed
      <3>2. IsList(a.next, n, Hashed(U, hf) \ {fs})
        BY <1>0, <1>2, <3>1, FListPop
      <3>3. /\ Hashed(U, hf) \ {fs} \in SUBSET Frame
            /\ \A x \in Hashed(U, hf) \ {fs} : b.next[x] = a.next[x]
        BY <1>0, <2>2 DEF Hashed
      <3>4. IsList(b.next, n, Hashed(U, hf) \ {fs})
        BY ONLY <3>2, <3>3, FListSame, Zenon
      <3> QED BY <3>1, <3>4, Zenon
    <2>3. CASE h = hf /\ p # NOFRAME
      <3>1. fs # a.frame_hash[hf] /\ b.frame_hash[h] = a.frame_hash[hf]
              /\ Hashed(V, h) = Hashed(U, hf) \ {fs}
        BY <1>1, <2>3 DEF Hashed
      <3>2. p \in Hashed(U, hf) /\ p # fs /\ a.next[p] = fs
        BY <1>3, <2>3
      <3>3. \A x \in Hashed(U, hf) : b.next[x] = IF x = p THEN a.next[fs] ELSE a.next[x]
        BY DEF Hashed
      <3>4. IsList(b.next, a.frame_hash[hf], Hashed(U, hf) \ {fs})
        BY ONLY <1>2, <3>1, <3>2, <3>3, FListRemove, SMTT(30), ZenonT(30)
      <3> QED BY <3>1, <3>4, Zenon
    <2> QED BY <2>1, <2>2, <2>3
  <1>5. ASSUME NEW f \in V
        PROVE  /\ b.prev[f] = NOFRAME <=> b.frame_hash[bucket(f)] = f
               /\ b.next[f] # NOFRAME => b.prev[b.next[f]] = f
    <2>1. f \in U /\ f # fs /\ bucket(f) \in Hash /\ f # NOFRAME
      BY <1>0, <1>5, BucketInHash
    <2>2. /\ a.prev[f] = NOFRAME <=> a.frame_hash[bucket(f)] = f
          /\ a.next[f] # NOFRAME => a.prev[a.next[f]] = f
      BY <2>1, Zenon DEF ChainInv
    <2>3. /\ a.next[f] = NOFRAME
               \/ (a.next[f] \in U /\ bucket(a.next[f]) = bucket(f)
                     /\ a.frame_hash[bucket(f)] # a.next[f])
          /\ a.next[f] = n => n = NOFRAME
      BY <2>1, ChainLinks
    <2>4. b.prev[f] = NOFRAME <=> b.frame_hash[bucket(f)] = f
      <3>1. CASE f = n
        BY <1>0, <1>1, <2>1, <2>2, <3>1
      <3>2. CASE f # n
        BY <1>0, <1>1, <2>1, <2>2, <3>2
      <3> QED BY <3>1, <3>2
    <2>5. ASSUME b.next[f] # NOFRAME PROVE b.prev[b.next[f]] = f
      <3>1. CASE f = p
        <4>1. b.next[f] = n /\ n \in U
          BY <1>1, <2>1, <2>5, <3>1
        <4> QED BY <3>1, <4>1
      <3>2. CASE f # p
        <4>1. b.next[f] = a.next[f] /\ a.next[f] \in U /\ a.next[f] # n
          BY <2>1, <2>3, <2>5, <3>2
        <4> QED BY <2>2, <2>5, <4>1
      <3> QED BY <3>1, <3>2
    <2> QED BY <2>4, <2>5
  <1>6. \A x \in V : b.refc[x] > 0
    BY DEF ChainInv
  <1> QED BY Zenon, <1>4, <1>5, <1>6 DEF ChainInv

-----------------------------------------------------------------------------
(* The operations *)

(* b is a with the frames of T taken, and short ones from the pool. *)
Taken(a, F, U, T, short, b) ==
  /\ FInv(b, F \ T, U \cup T)
  /\ b.refc = [f \in Frame |-> IF f \in T THEN 1 ELSE a.refc[f]]
  /\ b.oom_pool = IF short <= a.oom_pool THEN a.oom_pool - short ELSE 0
  /\ b.panicked = (short > a.oom_pool)

(* frame_new takes the first free frame, or one of the pool if none is.    *)
LEMMA NewOne ==
  ASSUME NEW a, NEW F, NEW U, FInv(a, F, U), ~a.panicked
  PROVE  \/ F = {} /\ Taken(a, F, U, {}, 1, frame_new(a))
         \/ \E fs \in F : Taken(a, F, U, {fs}, 0, frame_new(a))
  <1> DEFINE fs == a.frame_list
             b  == frame_new(a)
             hd == a.frame_hash[bucket(fs)]
  <1>0. /\ a \in FrameData /\ a.oom_pool \in Nat /\ a.oom_pool <= POOL /\ POOL \in Nat
        /\ F \in SUBSET Frame /\ U \in SUBSET Frame /\ F \cap U = {}
        /\ IsList(a.next, fs, F) /\ ChainInv(a, U)
    BY SomeBuckets DEF FInv, FrameData
  <1>1. CASE a.out_of_memory \/ fs = NOFRAME
    <2>1. F = {}
      <3>1. CASE fs = NOFRAME
        BY <1>0, <3>1, EmptyList
      <3> QED BY <1>1, <3>1 DEF FInv
    <2> DEFINE w == IF a.oom_pool = 0 THEN 0 ELSE a.oom_pool - 1
               v == (a.oom_pool = 0)
    <2>2. b = [a EXCEPT !.out_of_memory = TRUE, !.oom_pool = w, !.panicked = v]
      BY <1>1, Zenon DEF frame_new
    <2>20. w \in 0..POOL /\ v \in BOOLEAN
      BY <1>0
    <2>3. /\ b \in FrameData /\ b.frame_list = fs /\ b.next = a.next /\ b.prev = a.prev
          /\ b.frame_hash = a.frame_hash /\ b.refc = a.refc
          /\ b.oom_pool = w /\ b.panicked = v
      <3> HIDE DEF b, w, v
      <3> QED BY <1>0, <2>2, <2>20, Zenon DEF FrameData
    <2>4. ChainInv(b, U)
      <3>1. \A x \in U : /\ b.next[x] = a.next[x] /\ b.prev[x] = a.prev[x]
                         /\ b.refc[x] > 0
        BY <1>0, <2>3 DEF ChainInv
      <3> QED BY <1>0, <2>3, <3>1, ChainSame
    <2>5. FInv(b, F \ {}, U \cup {})
      BY <1>0, <2>1, <2>3, <2>4 DEF FInv
    <2>6. b.refc = [f \in Frame |-> IF f \in {} THEN 1 ELSE a.refc[f]]
      BY <1>0, <2>3 DEF FrameData
    <2>7. /\ b.oom_pool = IF 1 <= a.oom_pool THEN a.oom_pool - 1 ELSE 0
          /\ b.panicked = (1 > a.oom_pool)
      BY <1>0, <2>3
    <2>8. Taken(a, F, U, {}, 1, b)
      <3> HIDE DEF b, fs
      <3> QED BY <2>5, <2>6, <2>7, Zenon DEF Taken
    <2> QED BY <2>1, <2>8
  <1>2. CASE ~(a.out_of_memory \/ fs = NOFRAME)
    <2>1. fs \in F /\ IsList(a.next, a.next[fs], F \ {fs})
      BY <1>0, <1>2, FListPop
    <2>2. fs \in Frame \ U /\ bucket(fs) \in Hash
      BY <1>0, <2>1, BucketInHash
    <2>3. b = [before(a, fs, hd) EXCEPT !.frame_list = a.next[fs],
                 !.frame_hash[bucket(fs)] = fs, !.refc[fs] = 1]
      BY <1>2, Zenon DEF frame_new
    <2>4. /\ b.frame_list = a.next[fs]
          /\ b.frame_hash = [a.frame_hash EXCEPT ![bucket(fs)] = fs]
          /\ b.next = [a.next EXCEPT ![fs] = hd]
          /\ b.prev = [f \in Frame |-> IF f = fs THEN NOFRAME
                                       ELSE IF f = hd THEN fs ELSE a.prev[f]]
          /\ b.refc = [a.refc EXCEPT ![fs] = 1]
          /\ b.out_of_memory = a.out_of_memory /\ b.oom_pool = a.oom_pool
          /\ b.panicked = a.panicked
      BY <1>0, <2>3 DEF FrameData, before
    <2>5. hd \in Struct /\ a.next[fs] \in Struct /\ fs \in Struct
      BY <1>0, <2>2 DEF FrameData, Struct
    <2>6. b \in FrameData
      <3> DEFINE pv == [f \in Frame |-> IF f = fs THEN NOFRAME
                                        ELSE IF f = hd THEN fs ELSE a.prev[f]]
                 nx == [a.next EXCEPT ![fs] = hd]
                 fh == [a.frame_hash EXCEPT ![bucket(fs)] = fs]
                 rc == [a.refc EXCEPT ![fs] = 1]
                 fl == a.next[fs]
      <3>1. /\ pv \in [Frame -> Struct] /\ nx \in [Frame -> Struct] /\ fl \in Struct
            /\ fh \in [Hash -> Struct] /\ rc \in [Frame -> 0..MaxRef]
        BY <1>0, <2>2, <2>5, SomeReferences DEF FrameData, Struct
      <3>2. b = [a EXCEPT !.next = nx, !.prev = pv, !.frame_list = fl,
                          !.frame_hash = fh, !.refc = rc]
        BY <1>0, <2>3 DEF before, FrameData
      <3> HIDE DEF b, pv, nx, fh, rc, fl
      <3> QED BY <1>0, <3>1, <3>2, Zenon DEF FrameData
    <2> HIDE DEF b
    <2>7. IsList(b.next, b.frame_list, F \ {fs})
      <3>1. F \ {fs} \in SUBSET Frame /\ \A x \in F \ {fs} : b.next[x] = a.next[x]
        BY <1>0, <2>4 DEF FrameData
      <3>2. IsList(b.next, a.next[fs], F \ {fs})
        BY ONLY <2>1, <3>1, FListSame, SMTT(30), ZenonT(30)
      <3> QED BY <2>4, <3>2
    <2>8. ChainInv(b, U \cup {fs})
      <3>1. /\ b.next[fs] = hd /\ \A x \in U : b.next[x] = a.next[x]
            /\ \A x \in U \cup {fs} : b.prev[x] = IF x = fs THEN NOFRAME
                                                  ELSE IF x = hd THEN fs ELSE a.prev[x]
        BY <1>0, <2>2, <2>4 DEF FrameData
      <3>2. \A h \in Hash : b.frame_hash[h] = IF h = bucket(fs) THEN fs ELSE a.frame_hash[h]
        BY <1>0, <2>4 DEF FrameData
      <3>3. \A x \in U \cup {fs} : b.refc[x] > 0
        BY <1>0, <2>2, <2>4 DEF FrameData, ChainInv
      <3> QED BY <1>0, <2>2, <3>1, <3>2, <3>3, ChainPush
    <2>9. FInv(b, F \ {fs}, U \cup {fs})
      <3>1. b.out_of_memory = FALSE
        BY <1>0, <1>2, <2>4 DEF FrameData
      <3> QED BY <1>0, <2>2, <2>6, <2>7, <2>8, <3>1 DEF FInv
    <2>10. b.refc = [f \in Frame |-> IF f \in {fs} THEN 1 ELSE a.refc[f]]
      BY <1>0, <2>4 DEF FrameData
    <2>11. /\ b.oom_pool = IF 0 <= a.oom_pool THEN a.oom_pool - 0 ELSE 0
           /\ b.panicked = (0 > a.oom_pool)
      BY <1>0, <2>4 DEF FrameData
    <2>12. Taken(a, F, U, {fs}, 0, b)
      BY <2>9, <2>10, <2>11 DEF Taken
    <2> QED BY <2>1, <2>12 DEF b
  <1> QED BY <1>1, <1>2, Zenon

(* Two takings in a row are one. *)
LEMMA TakenTwice ==
  ASSUME NEW a, NEW F, NEW U, NEW T, NEW s, NEW b, NEW T2, NEW s2, NEW c,
         a.oom_pool \in Nat, s \in Nat, s2 \in Nat,
         Taken(a, F, U, T, s, b), Taken(b, F \ T, U \cup T, T2, s2, c), ~b.panicked
  PROVE  Taken(a, F, U, T \cup T2, s + s2, c)
  <1>1. (F \ T) \ T2 = F \ (T \cup T2) /\ (U \cup T) \cup T2 = U \cup (T \cup T2)
    OBVIOUS
  <1>2. FInv(c, F \ (T \cup T2), U \cup (T \cup T2))
    BY <1>1, Zenon DEF Taken
  <1>3. c.refc = [f \in Frame |-> IF f \in T \cup T2 THEN 1 ELSE a.refc[f]]
    <2>1. /\ b.refc = [f \in Frame |-> IF f \in T THEN 1 ELSE a.refc[f]]
          /\ c.refc = [f \in Frame |-> IF f \in T2 THEN 1 ELSE b.refc[f]]
      BY DEF Taken
    <2> QED BY <2>1
  <1>4. /\ c.oom_pool = IF s + s2 <= a.oom_pool THEN a.oom_pool - (s + s2) ELSE 0
        /\ c.panicked = (s + s2 > a.oom_pool)
    <2>1. /\ b.oom_pool = IF s <= a.oom_pool THEN a.oom_pool - s ELSE 0
          /\ b.panicked = (s > a.oom_pool)
          /\ c.oom_pool = IF s2 <= b.oom_pool THEN b.oom_pool - s2 ELSE 0
          /\ c.panicked = (s2 > b.oom_pool)
      BY DEF Taken
    <2>2. s <= a.oom_pool /\ b.oom_pool = a.oom_pool - s
      <3>1. ~(s > a.oom_pool)
        BY <2>1, Zenon
      <3>2. b.oom_pool = IF s <= a.oom_pool THEN a.oom_pool - s ELSE 0
        BY <2>1, Zenon
      <3> QED BY <3>1, <3>2
    <2>3. (s2 > b.oom_pool) = (s + s2 > a.oom_pool)
      BY <2>2
    <2> QED BY <2>1, <2>2, <2>3
  <1> QED BY <1>2, <1>3, <1>4, Zenon DEF Taken

(* The sizes of the sets of frames that one request takes, which are shown *)
(* below, after all that rests on them.                                    *)
SmallSets ==
  /\ Cardinality({}) = 0 /\ \A x : Cardinality({x}) = 1
  /\ \A x, y : x # y => Cardinality({x} \cup {y}) = 2

(* frames_new takes k of them, free ones as long as there are any. *)
LEMMA NewSome ==
  ASSUME SmallSets, NEW a, NEW F, NEW U, FInv(a, F, U), ~a.panicked, NEW n
  PROVE  \E k \in 0..2, T \in SUBSET F :
           /\ Taken(a, F, U, T, k - Cardinality(T), frames_new(a, n))
           /\ Cardinality(T) \in 0..k /\ (Cardinality(T) < k => T = F)
  <1> DEFINE Goal(k, T) ==
        /\ Taken(a, F, U, T, k - Cardinality(T), frames_new(a, n))
        /\ Cardinality(T) \in 0..k /\ (Cardinality(T) < k => T = F)
  <1>0. /\ a \in FrameData /\ a.oom_pool \in Nat /\ F \in SUBSET Frame
        /\ Cardinality({}) = 0 /\ \A x : Cardinality({x}) = 1
    <2>1. a \in FrameData /\ F \in SUBSET Frame
      BY DEF FInv
    <2>2. a.oom_pool \in Nat
      BY <2>1, SomeBuckets DEF FrameData
    <2>3. Cardinality({}) = 0 /\ \A x : Cardinality({x}) = 1
      BY Zenon DEF SmallSets
    <2> QED BY <2>1, <2>2, <2>3, Zenon
  <1> SUFFICES \E k \in 0..2, T \in SUBSET F : Goal(k, T)
    BY Zenon
  <1>1. CASE n = 0
    <2>1. frames_new(a, n) = a
      BY <1>1 DEF frames_new
    <2>2. /\ FInv(a, F \ {}, U \cup {})
          /\ a.refc = [f \in Frame |-> IF f \in {} THEN 1 ELSE a.refc[f]]
      BY <1>0 DEF FrameData
    <2>3. /\ a.oom_pool = IF 0 <= a.oom_pool THEN a.oom_pool - 0 ELSE 0
          /\ a.panicked = (0 > a.oom_pool)
      BY <1>0 DEF FrameData
    <2>4. Taken(a, F, U, {}, 0, a)
      BY <2>2, <2>3, Zenon DEF Taken
    <2>5. Goal(0, {})
      BY <1>0, <2>1, <2>4
    <2> HIDE DEF Goal
    <2> QED BY <2>5
  <1> DEFINE b == frame_new(a)
  <1>2. CASE n # 0 /\ (n < 2 \/ b.panicked)
    <2>1. frames_new(a, n) = b
      BY <1>2 DEF frames_new
    <2>2. CASE F = {} /\ Taken(a, F, U, {}, 1, b)
      <3>1. Goal(1, {})
        BY <1>0, <2>1, <2>2
      <3> HIDE DEF Goal
      <3> QED BY <3>1
    <2>3. ASSUME NEW fs \in F, Taken(a, F, U, {fs}, 0, b)
          PROVE  \E k \in 0..2, T \in SUBSET F : Goal(k, T)
      <3>1. Goal(1, {fs})
        <4>1. Cardinality({fs}) = 1
          BY <1>0, Zenon
        <4>2. 1 - Cardinality({fs}) = 0 /\ Cardinality({fs}) \in 0..1
                /\ ~(Cardinality({fs}) < 1)
          BY <4>1
        <4> QED BY <2>1, <2>3, <4>2
      <3> HIDE DEF Goal
      <3> QED BY <3>1
    <2> HIDE DEF Goal, b
    <2> QED BY <2>2, <2>3, NewOne, Zenon DEF b
  <1>3. CASE n # 0 /\ ~(n < 2 \/ b.panicked)
    <2> DEFINE c == frame_new(b)
    <2>1. frames_new(a, n) = c
      BY <1>3 DEF frames_new
    <2>2. CASE F = {} /\ Taken(a, F, U, {}, 1, b)
      <3>1. FInv(b, F \ {}, U \cup {})
        BY <2>2 DEF Taken
      <3>2. Taken(b, F \ {}, U \cup {}, {}, 1, c)
        <4>1. F \ {} = {} /\ ~b.panicked
          BY <1>3, <2>2
        <4> HIDE DEF b
        <4>2. \/ Taken(b, F \ {}, U \cup {}, {}, 1, c)
              \/ \E fs \in F \ {} : Taken(b, F \ {}, U \cup {}, {fs}, 0, c)
          BY <3>1, <4>1, NewOne, Zenon
        <4> QED BY <4>1, <4>2, Zenon
      <3>3. Taken(a, F, U, {} \cup {}, 1 + 1, c)
        <4> HIDE DEF b, c
        <4> QED BY <1>0, <1>3, <2>2, <3>2, TakenTwice, Zenon
      <3>4. Goal(2, {})
        BY <1>0, <2>1, <2>2, <3>3
      <3> HIDE DEF Goal
      <3> QED BY <3>4
    <2>3. ASSUME NEW fs \in F, Taken(a, F, U, {fs}, 0, b)
          PROVE  \E k \in 0..2, T \in SUBSET F : Goal(k, T)
      <3>1. FInv(b, F \ {fs}, U \cup {fs})
        BY <2>3 DEF Taken
      <3>2. CASE F \ {fs} = {} /\ Taken(b, F \ {fs}, U \cup {fs}, {}, 1, c)
        <4>1. Taken(a, F, U, {fs} \cup {}, 0 + 1, c)
          <5> HIDE DEF b, c
          <5>1. 0 \in Nat /\ 1 \in Nat
            OBVIOUS
          <5>2. a.oom_pool \in Nat /\ ~b.panicked
            BY <1>0, <1>3, Zenon
          <5> QED BY <2>3, <3>2, <5>1, <5>2, TakenTwice, Zenon
        <4>2. Goal(2, {fs})
          <5>1. Cardinality({fs}) = 1
            BY <1>0, Zenon
          <5>2. 2 - Cardinality({fs}) = 0 + 1 /\ Cardinality({fs}) \in 0..2
            BY <5>1
          <5>3. {fs} \cup {} = {fs} /\ {fs} = F
            BY <3>2
          <5> HIDE DEF c
          <5> QED BY <2>1, <4>1, <5>2, <5>3
        <4> HIDE DEF Goal
        <4> QED BY <4>2
      <3>3. ASSUME NEW gs \in F \ {fs}, Taken(b, F \ {fs}, U \cup {fs}, {gs}, 0, c)
            PROVE  \E k \in 0..2, T \in SUBSET F : Goal(k, T)
        <4>1. Taken(a, F, U, {fs} \cup {gs}, 0 + 0, c)
          <5> HIDE DEF b, c
          <5>1. 0 \in Nat /\ 1 \in Nat
            OBVIOUS
          <5>2. a.oom_pool \in Nat /\ ~b.panicked
            BY <1>0, <1>3, Zenon
          <5> QED BY <2>3, <3>3, <5>1, <5>2, TakenTwice, Zenon
        <4>2. Cardinality({fs} \cup {gs}) = 2
          <5>1. fs # gs
            BY <3>3, Zenon
          <5> QED BY <5>1, Zenon DEF SmallSets
        <4>3. Goal(2, {fs} \cup {gs})
          <5>1. 2 - Cardinality({fs} \cup {gs}) = 0 + 0
                  /\ Cardinality({fs} \cup {gs}) \in 0..2
                  /\ ~(Cardinality({fs} \cup {gs}) < 2)
            BY <4>2
          <5> HIDE DEF c
          <5> QED BY <2>1, <4>1, <5>1
        <4> HIDE DEF Goal
        <4> QED BY <4>3
      <3> HIDE DEF Goal, b
      <3> QED BY <1>3, <3>1, <3>2, <3>3, NewOne, Zenon
    <2> HIDE DEF Goal, b
    <2> QED BY Zenon, <2>2, <2>3, NewOne DEF b
  <1> QED BY <1>1, <1>2, <1>3

(* What frame_add and frame_free change when they link a struct in front   *)
(* of another.                                                             *)
LEMMA BeforeData ==
  ASSUME NEW a \in FrameData, NEW f \in Frame, NEW first \in Struct
  PROVE  LET b == before(a, f, first)
         IN  /\ b \in FrameData /\ b.next = [a.next EXCEPT ![f] = first]
             /\ \A x \in Frame \ {f, first} : b.prev[x] = a.prev[x]
             /\ b.frame_hash = a.frame_hash /\ b.refc = a.refc
             /\ b.oom_pool = a.oom_pool /\ b.panicked = a.panicked
  <1> DEFINE pv == [x \in Frame |-> IF x = f THEN NOFRAME
                                    ELSE IF x = first THEN f ELSE a.prev[x]]
             nx == [a.next EXCEPT ![f] = first]
             b  == [a EXCEPT !.next = nx, !.prev = pv]
  <1>1. before(a, f, first) = b
    BY Zenon DEF before, FrameData
  <1>2. pv \in [Frame -> Struct] /\ nx \in [Frame -> Struct]
    BY DEF FrameData, Struct
  <1>3. \A x \in Frame \ {f, first} : pv[x] = a.prev[x]
    OBVIOUS
  <1>4. /\ b \in FrameData /\ b.next = nx /\ b.prev = pv
        /\ b.frame_hash = a.frame_hash /\ b.refc = a.refc
        /\ b.oom_pool = a.oom_pool /\ b.panicked = a.panicked
    <2> HIDE DEF nx, pv
    <2> QED BY <1>2, Zenon DEF FrameData
  <1> QED BY <1>1, <1>3, <1>4

(* f becomes the first free frame, as in frame_free and frame_add. *)
Put(a, f, r) ==
  [before(a, f, a.frame_list) EXCEPT !.refc[f] = r, !.frame_list = f,
                                     !.out_of_memory = FALSE]

(* A frame put on the free list is free, and all others are as before. *)
LEMMA PutFree ==
  ASSUME NEW a, NEW F, NEW U, FInv(a, F, U), NEW f \in Frame \ (F \cup U),
         NEW r \in 0..MaxRef
  PROVE  /\ FInv(Put(a, f, r), F \cup {f}, U) /\ Put(a, f, r).refc = [a.refc EXCEPT ![f] = r]
         /\ Put(a, f, r).oom_pool = a.oom_pool /\ Put(a, f, r).panicked = a.panicked
  <1> DEFINE b == Put(a, f, r)
             c == before(a, f, a.frame_list)
             rc == [c.refc EXCEPT ![f] = r]
  <1>1. /\ a \in FrameData /\ a.frame_list \in F \cup {NOFRAME} /\ F \cap U = {}
        /\ F \subseteq Frame /\ U \subseteq Frame /\ a.frame_list \in Struct
    BY DEF FInv, IsList, Struct
  <1>2. /\ c \in FrameData /\ c.next = [a.next EXCEPT ![f] = a.frame_list]
        /\ \A x \in Frame \ {f, a.frame_list} : c.prev[x] = a.prev[x]
        /\ c.frame_hash = a.frame_hash /\ c.refc = a.refc
        /\ c.oom_pool = a.oom_pool /\ c.panicked = a.panicked
    BY <1>1, BeforeData
  <1> HIDE DEF c
  <1>3. rc \in [Frame -> 0..MaxRef] /\ b = [c EXCEPT !.refc = rc, !.frame_list = f,
                                                     !.out_of_memory = FALSE]
    BY <1>2 DEF FrameData, c, Put
  <1> HIDE DEF b
  <1>4. /\ b \in FrameData /\ b.frame_list = f /\ b.frame_hash = c.frame_hash
        /\ b.next = c.next /\ b.prev = c.prev /\ b.refc = rc /\ b.out_of_memory = FALSE
        /\ b.oom_pool = c.oom_pool /\ b.panicked = c.panicked
    <2> HIDE DEF rc
    <2>1. f \in Struct
      BY DEF Struct
    <2> QED BY <1>2, <1>3, <2>1, Zenon DEF FrameData
  <1>5. \A x \in U : b.prev[x] = a.prev[x] /\ b.refc[x] = a.refc[x]
    <2>1. \A x \in U : x \in Frame \ {f, a.frame_list}
      BY <1>1, NullIsNoFrame
    <2> QED BY <1>2, <1>4, <2>1 DEF FrameData
  <1>6. b.next = [a.next EXCEPT ![f] = a.frame_list] /\ b.frame_hash = a.frame_hash
    BY <1>2, <1>4
  <1>7. FInv(b, F \cup {f}, U)
    BY ONLY <1>4, <1>5, <1>6, FreePush, FInv(a, F, U), Zenon
  <1> QED BY <1>2, <1>4, <1>7 DEF b

(* The last reference to a frame goes. *)
LEMMA FreeLast ==
  ASSUME NEW a, NEW F, NEW U, FInv(a, F, U), NEW fs \in U, a.refc[fs] = 1
  PROVE  LET b == frame_free(a, fs)
         IN  /\ FInv(b, F \cup {fs}, U \ {fs}) /\ b.refc = a.refc
             /\ b.oom_pool = a.oom_pool /\ b.panicked = a.panicked
  <1> DEFINE p  == a.prev[fs]
             n  == a.next[fs]
             nx == IF p = NOFRAME THEN a.next ELSE [a.next EXCEPT ![p] = n]
             fh == [a.frame_hash EXCEPT ![bucket(fs)] = IF p = NOFRAME THEN n ELSE @]
             pv == IF n = NOFRAME THEN a.prev ELSE [a.prev EXCEPT ![n] = p]
             c  == frame_pull(a, fs)
             b  == frame_free(a, fs)
  <1>1. /\ a \in FrameData /\ F \in SUBSET Frame /\ U \in SUBSET Frame /\ F \cap U = {}
        /\ ChainInv(a, U) /\ IsList(a.next, a.frame_list, F)
        /\ fs \in Frame /\ fs # NOFRAME /\ bucket(fs) \in Hash
    BY NullIsNoFrame, BucketInHash DEF FInv
  <1>2. p \in Struct /\ n \in Struct
    BY <1>1 DEF FrameData
  <1>3. nx \in [Frame -> Struct] /\ pv \in [Frame -> Struct] /\ fh \in [Hash -> Struct]
    <2> HIDE DEF p, n
    <2> QED BY <1>1, <1>2, Zenon DEF FrameData
  <1>4. c = [a EXCEPT !.next = nx, !.frame_hash = fh, !.prev = pv]
    BY <1>1, Zenon DEF frame_pull
  <1>5. /\ c \in FrameData /\ c.next = nx /\ c.frame_hash = fh /\ c.prev = pv
        /\ c.refc = a.refc /\ c.frame_list = a.frame_list
        /\ c.oom_pool = a.oom_pool /\ c.panicked = a.panicked
        /\ c.out_of_memory = a.out_of_memory
    <2> HIDE DEF nx, pv, fh, c
    <2> QED BY <1>1, <1>3, <1>4, Zenon DEF FrameData
  <1> HIDE DEF c
  <1>6. /\ \A x \in U : c.next[x] = IF x = p THEN n ELSE a.next[x]
        /\ \A x \in U : c.prev[x] = IF x = n THEN p ELSE a.prev[x]
        /\ \A h \in Hash : c.frame_hash[h] = IF h = bucket(fs) /\ p = NOFRAME THEN n
                                             ELSE a.frame_hash[h]
        /\ \A x \in U : c.refc[x] = a.refc[x]
    <2> HIDE DEF p, n
    <2>1. \A x \in U : x \in Frame /\ x # NOFRAME
      BY <1>1, NullIsNoFrame
    <2> QED BY <1>1, <1>2, <1>5, <2>1 DEF FrameData, Struct
  <1>7. ChainInv(c, U \ {fs})
    <2>1. p = a.prev[fs] /\ n = a.next[fs]
      OBVIOUS
    <2> HIDE DEF p, n
    <2> QED BY <1>1, <1>6, <2>1, ChainPull
  <1>8. IsList(c.next, c.frame_list, F)
    <2>1. p = NOFRAME \/ p \in U
      <3>1. CASE a.frame_hash[bucket(fs)] = fs
        BY <1>1, <3>1 DEF ChainInv
      <3>2. CASE a.frame_hash[bucket(fs)] # fs
        <4>1. /\ IsList(a.next, a.frame_hash[bucket(fs)], Hashed(U, bucket(fs)))
              /\ Hashed(U, bucket(fs)) \in SUBSET Frame /\ fs \in Hashed(U, bucket(fs))
          BY <1>1 DEF ChainInv, Hashed
        <4>2. \E q \in Hashed(U, bucket(fs)) : a.next[q] = fs /\ q # fs
          BY ONLY <3>2, <4>1, FListPred, SMTT(30), ZenonT(30)
        <4> QED BY <1>1, <4>2 DEF Hashed, ChainInv
      <3> QED BY <3>1, <3>2
    <2>2. \A x \in F : c.next[x] = a.next[x]
      BY <1>1, <1>5, <2>1 DEF FrameData
    <2>3. F \in SUBSET Frame /\ IsList(a.next, a.frame_list, F)
      BY <1>1
    <2>4. IsList(c.next, a.frame_list, F)
      BY ONLY <2>2, <2>3, FListSame, SMTT(30), ZenonT(30)
    <2> QED BY <1>5, <2>4
  <1>9. FInv(c, F, U \ {fs})
    <2>1. a.out_of_memory => F = {}
      BY DEF FInv
    <2> QED BY <1>1, <1>5, <1>7, <1>8, <2>1 DEF FInv
  <1>10. b = [before(c, fs, c.frame_list) EXCEPT !.frame_list = fs, !.out_of_memory = FALSE]
    <2>1. frame_find(a, fs) = fs
      BY <1>1, FindInUse
    <2> QED BY <1>1, <1>5, <2>1 DEF frame_free, c
  <1>11. c.frame_list \in Struct /\ before(c, fs, c.frame_list) \in FrameData
           /\ before(c, fs, c.frame_list).refc = a.refc
    <2>1. c \in FrameData /\ c.frame_list \in Struct /\ fs \in Frame
      BY <1>1, <1>5 DEF FrameData
    <2>2. before(c, fs, c.frame_list) \in FrameData
            /\ before(c, fs, c.frame_list).refc = c.refc
      BY ONLY <2>1, BeforeData, Zenon
    <2> QED BY <1>5, <2>1, <2>2
  <1>12. b = Put(c, fs, 1)
    <2> DEFINE d == before(c, fs, c.frame_list)
    <2> HIDE DEF d, b
    <2>1. [d.refc EXCEPT ![fs] = 1] = d.refc
      BY <1>1, <1>11 DEF d, FrameData
    <2>2. [d EXCEPT !.refc[fs] = 1] = d
      BY <1>11, <2>1 DEF d, FrameData
    <2> QED BY <1>10, <2>2, Zenon DEF d, Put
  <1>13. /\ FInv(b, F \cup {fs}, U \ {fs}) /\ b.refc = [c.refc EXCEPT ![fs] = 1]
         /\ b.oom_pool = c.oom_pool /\ b.panicked = c.panicked
    <2>1. 1 \in 0..MaxRef /\ fs \in Frame \ (F \cup (U \ {fs}))
      BY <1>1, SomeReferences
    <2>2. /\ FInv(Put(c, fs, 1), F \cup {fs}, U \ {fs})
          /\ Put(c, fs, 1).refc = [c.refc EXCEPT ![fs] = 1]
          /\ Put(c, fs, 1).oom_pool = c.oom_pool /\ Put(c, fs, 1).panicked = c.panicked
      BY ONLY <1>9, <2>1, PutFree, SMTT(30), ZenonT(30)
    <2> HIDE DEF b
    <2> QED BY <1>12, <2>2
  <1>14. b.refc = a.refc
    BY <1>1, <1>5, <1>13 DEF FrameData
  <1> QED BY <1>5, <1>13, <1>14

(* A count changes and does not reach zero. *)
LEMMA Recount ==
  ASSUME NEW a, NEW F, NEW U, FInv(a, F, U), NEW f \in U, NEW r \in 1..MaxRef
  PROVE  LET b == [a EXCEPT !.refc[f] = r]
         IN  /\ FInv(b, F, U) /\ b.refc = [a.refc EXCEPT ![f] = r]
             /\ b.oom_pool = a.oom_pool /\ b.panicked = a.panicked
  <1> DEFINE rc == [a.refc EXCEPT ![f] = r]
             b  == [a EXCEPT !.refc = rc]
  <1>1. /\ a \in FrameData /\ U \in SUBSET Frame /\ ChainInv(a, U)
        /\ a.refc \in [Frame -> 0..MaxRef]
    BY DEF FInv, FrameData
  <1>2. rc \in [Frame -> 0..MaxRef]
    BY <1>1, SomeReferences
  <1>3. /\ b \in FrameData /\ b.frame_list = a.frame_list /\ b.frame_hash = a.frame_hash
        /\ b.next = a.next /\ b.prev = a.prev /\ b.refc = rc
        /\ b.out_of_memory = a.out_of_memory
        /\ b.oom_pool = a.oom_pool /\ b.panicked = a.panicked
    <2> HIDE DEF rc
    <2> QED BY <1>1, <1>2 DEF FrameData
  <1> HIDE DEF b
  <1>4. \A x \in U : b.refc[x] > 0
    BY <1>1, <1>3, SomeReferences DEF ChainInv
  <1>5. ChainInv(b, U)
    <2>1. \A x \in U : b.next[x] = a.next[x] /\ b.prev[x] = a.prev[x] /\ b.refc[x] > 0
      BY <1>3, <1>4
    <2>2. b.frame_hash = a.frame_hash
      BY <1>3
    <2> QED BY ONLY <1>1, <2>1, <2>2, ChainSame, SMTT(30), ZenonT(30)
  <1>6. FInv(b, F, U)
    <2>1. /\ F \in SUBSET Frame /\ F \cap U = {} /\ (a.out_of_memory => F = {})
          /\ IsList(a.next, a.frame_list, F)
      BY DEF FInv
    <2> QED BY <1>1, <1>3, <1>5, <2>1 DEF FInv
  <1> QED BY <1>3, <1>6 DEF b

-----------------------------------------------------------------------------
(* The steps: the invariant is kept, and the counts follow *)

LEMMA RefsAre ==
  ASSUME NEW a, NEW F, NEW U, FInv(a, F, U), NEW f \in Frame
  PROVE  frame_refc(a, f) = IF f \in U THEN a.refc[f] ELSE 0
  BY FindInUse, NullIsNoFrame DEF frame_refc

(* What the counts of the frames U see of b and c is the same. *)
SameCounts(b, c, U) ==
  /\ \A x \in U : b.refc[x] = c.refc[x]
  /\ b.oom_pool = c.oom_pool /\ b.panicked = c.panicked

(* Frames that are taken from the lists are taken by the counts. *)
LEMMA TakeStep ==
  ASSUME NEW F \in SUBSET added, FInv(fa, F, added \ F),
         NEW k \in 0..2, NEW T \in SUBSET F, NEW b, NEW s, s = k - Cardinality(T),
         Taken(fa, F, added \ F, T, s, b),
         Cardinality(T) \in 0..k, Cardinality(T) < k => T = F,
         NEW F2, FInv(fa', F2, (added \ F) \cup T),
         SameCounts(fa', b, (added \ F) \cup T)
  PROVE  Counts!Take(k)
  <1> DEFINE refs  == [f \in Frame |-> frame_refc(fa, f)]
             U     == added \ F
  <1>1. /\ U \in SUBSET Frame /\ F \in SUBSET Frame /\ \A x \in U : fa.refc[x] > 0
        /\ fa \in FrameData
    BY DEF FInv, ChainInv
  <1>2. \A f \in Frame : refs[f] = IF f \in U THEN fa.refc[f] ELSE 0
    BY RefsAre
  <1>3. Counts!Free = F
    <2>1. \A f \in added : refs[f] = 0 <=> f \in F
      BY <1>1, <1>2
    <2> HIDE DEF refs
    <2> QED BY <2>1 DEF Counts!Free, refs
  <1>4. [f \in Frame |-> frame_refc(fa', f)]
          = [f \in Frame |-> IF f \in T THEN 1 ELSE refs[f]]
    <2>1. ASSUME NEW f \in Frame
          PROVE  frame_refc(fa', f) = IF f \in T THEN 1 ELSE refs[f]
      <3>1. frame_refc(fa', f) = IF f \in U \cup T THEN fa'.refc[f] ELSE 0
        BY RefsAre
      <3>2. b.refc[f] = IF f \in T THEN 1 ELSE fa.refc[f]
        BY DEF Taken
      <3>3. \A x \in U \cup T : fa'.refc[x] = b.refc[x]
        BY DEF SameCounts
      <3> HIDE DEF refs, U
      <3> QED BY <1>2, <3>1, <3>2, <3>3 DEF U
    <2> HIDE DEF refs
    <2> QED BY <2>1
  <1>5. /\ fa'.oom_pool = IF s <= fa.oom_pool THEN fa.oom_pool - s ELSE 0
        /\ fa'.panicked = (s > fa.oom_pool)
    BY Zenon DEF Taken, SameCounts
  <1>6. Counts!Cardinality(T) = Cardinality(T)
    BY Zenon DEF Cardinality, Counts!Cardinality
  <1>7. Cardinality(T) <= k
    OBVIOUS
  <1> QED BY Zenon, <1>3, <1>4, <1>5, <1>6, <1>7 DEF Counts!Take

(* What every step keeps. *)
Follows == FrameInv' /\ [Counts!CountNext]_(Counts!vars)

(* frame_new, for a page of the heap or for a client. *)
LEMMA NewStep ==
  ASSUME SmallSets, FrameInv, ~fa.panicked, NEW n, NewFrames(n)
  PROVE  Follows
  <1>1. PICK F \in SUBSET added : FInv(fa, F, added \ F)
    BY Zenon DEF FrameInv
  <1> DEFINE U == added \ F
  <1>2. PICK k \in 0..2, T \in SUBSET F :
          /\ Taken(fa, F, U, T, k - Cardinality(T), frames_new(fa, n))
          /\ Cardinality(T) \in 0..k /\ (Cardinality(T) < k => T = F)
    BY <1>1, NewSome
  <1>3. /\ fa' = frames_new(fa, n) /\ added' = added /\ booting' = booting
        /\ added \in SUBSET Frame /\ booting \in BOOLEAN
    BY DEF NewFrames, FrameInv
  <1>4. FInv(fa', F \ T, U \cup T)
    BY <1>2, <1>3 DEF Taken
  <1>5. FrameInv'
    <2>1. U \cup T = added' \ (F \ T) /\ F \ T \in SUBSET added'
      BY <1>3
    <2>2. FInv(fa', F \ T, added' \ (F \ T))
      BY <1>4, <2>1, Zenon
    <2> QED BY <1>3, <2>1, <2>2, Zenon DEF FrameInv
  <1>6. Counts!Take(k)
    <2>1. PICK s : s = k - Cardinality(T)
      BY Zenon
    <2>2. Taken(fa, F, added \ F, T, s, fa')
      BY <1>2, <1>3, <2>1
    <2>3. FInv(fa', F \ T, (added \ F) \cup T)
      BY <1>4
    <2>4. SameCounts(fa', fa', (added \ F) \cup T)
      BY Zenon DEF SameCounts
    <2> QED BY <1>1, <1>2, <2>1, <2>2, <2>3, <2>4, TakeStep, Zenon
  <1>7. Counts!CountNext
    BY <1>3, <1>6 DEF Counts!CountNext, Counts!New
  <1> QED BY <1>5, <1>7 DEF Follows

(* frame_add, with the pages that its struct asks of the heap. *)
LEMMA AddStep ==
  ASSUME SmallSets, FrameInv, ~fa.panicked, NEW f \in Frame, NEW n, AddFrame(f, n)
  PROVE  Follows
  <1>1. PICK F \in SUBSET added : FInv(fa, F, added \ F)
    BY Zenon DEF FrameInv
  <1> DEFINE U == added \ F
  <1>0. PICK b : b = frames_new(fa, n)
    BY Zenon
  <1>2. PICK k \in 0..2, T \in SUBSET F :
          /\ Taken(fa, F, U, T, k - Cardinality(T), b)
          /\ Cardinality(T) \in 0..k /\ (Cardinality(T) < k => T = F)
    BY <1>0, <1>1, NewSome
  <1>3. PICK s : s = k - Cardinality(T)
    BY Zenon
  <1>4. Taken(fa, F, U, T, s, b) /\ FInv(b, F \ T, U \cup T)
    BY <1>2, <1>3 DEF Taken
  <1>5. /\ fa' = frame_add(fa, f, n) /\ f \notin added /\ booting' = booting
        /\ added' = (IF fa'.panicked THEN added ELSE added \cup {f})
        /\ added \in SUBSET Frame /\ booting \in BOOLEAN
    BY DEF AddFrame, FrameInv
  <1>6. CASE b.panicked
    <2>1. fa' = b
      BY <1>0, <1>5, <1>6 DEF frame_add
    <2>2. added' = added
      BY <1>5, <1>6, <2>1
    <2>3. FrameInv'
      <3>1. U \cup T = added' \ (F \ T) /\ F \ T \in SUBSET added'
        BY <2>2
      <3>2. FInv(fa', F \ T, added' \ (F \ T))
        BY <1>4, <2>1, <3>1, Zenon
      <3> QED BY <1>5, <2>2, <3>1, <3>2, Zenon DEF FrameInv
    <2>4. FInv(fa', F \ T, (added \ F) \cup T)
      BY <1>4, <2>1
    <2>5. Counts!Take(k)
      <3>1. SameCounts(fa', b, (added \ F) \cup T)
        BY <2>1, Zenon DEF SameCounts
      <3> QED BY <1>1, <1>2, <1>3, <1>4, <2>4, <3>1, TakeStep, Zenon
    <2>6. Counts!Add(f, k)
      BY <1>5, <1>6, <2>1, <2>2, <2>5 DEF Counts!Add
    <2>7. Counts!CountNext
      BY <2>6 DEF Counts!CountNext
    <2> QED BY <2>3, <2>7 DEF Follows
  <1>7. CASE ~b.panicked
    <2>1. fa' = Put(b, f, 0)
      BY <1>0, <1>5, <1>7 DEF frame_add, Put
    <2>2. f \in Frame \ ((F \ T) \cup (U \cup T)) /\ 0 \in 0..MaxRef
      BY <1>5, SomeReferences
    <2>3. /\ FInv(fa', (F \ T) \cup {f}, U \cup T) /\ fa'.refc = [b.refc EXCEPT ![f] = 0]
          /\ fa'.oom_pool = b.oom_pool /\ fa'.panicked = b.panicked
      BY ONLY <1>4, <2>1, <2>2, PutFree, SMTT(30), ZenonT(30)
    <2>4. added' = added \cup {f}
      BY <1>5, <1>7, <2>3
    <2>5. FrameInv'
      <3>1. /\ U \cup T = added' \ ((F \ T) \cup {f}) /\ (F \ T) \cup {f} \in SUBSET added'
            /\ added' \in SUBSET Frame
        BY <1>5, <2>4
      <3>2. FInv(fa', (F \ T) \cup {f}, added' \ ((F \ T) \cup {f}))
        BY <2>3, <3>1, Zenon
      <3> QED BY <1>5, <3>1, <3>2, Zenon DEF FrameInv
    <2>6. \A x \in (added \ F) \cup T : fa'.refc[x] = b.refc[x]
      <3>1. b.refc \in [Frame -> 0..MaxRef]
        BY <1>4 DEF FInv, FrameData
      <3> QED BY <1>5, <2>3, <3>1
    <2>7. Counts!Take(k)
      <3>1. PICK G : G = (F \ T) \cup {f}
        BY Zenon
      <3>2. FInv(fa', G, (added \ F) \cup T)
        BY <2>3, <3>1
      <3>3. SameCounts(fa', b, (added \ F) \cup T)
        BY <2>3, <2>6, Zenon DEF SameCounts
      <3> QED BY <1>1, <1>2, <1>3, <1>4, <3>2, <3>3, TakeStep, Zenon
    <2>8. Counts!Add(f, k)
      BY <1>5, <1>7, <2>3, <2>4, <2>7 DEF Counts!Add
    <2>9. Counts!CountNext
      BY <2>8 DEF Counts!CountNext
    <2> QED BY <2>5, <2>9 DEF Follows
  <1> QED BY <1>6, <1>7

(* A reference more, or one less. *)
LEMMA CountStep ==
  ASSUME NEW F \in SUBSET added, FInv(fa, F, added \ F), NEW f \in added \ F,
         NEW F2 \in SUBSET added, FInv(fa', F2, added \ F2), NEW by \in {0, 2},
         added' = added, fa'.oom_pool = fa.oom_pool, fa'.panicked = fa.panicked,
         \A x \in Frame : (IF x \in added \ F2 THEN fa'.refc[x] ELSE 0)
                            = IF x = f THEN fa.refc[f] + 1 - by
                              ELSE IF x \in added \ F THEN fa.refc[x] ELSE 0
  PROVE  Counts!Count(f, by)
  <1> DEFINE refs == [x \in Frame |-> frame_refc(fa, x)]
             new  == [x \in Frame |-> frame_refc(fa', x)]
  <1>1. added \ F \in SUBSET Frame /\ fa.refc[f] > 0 /\ f \in Frame
    BY DEF FInv, ChainInv
  <1>2. \A x \in Frame : refs[x] = IF x \in added \ F THEN fa.refc[x] ELSE 0
    BY RefsAre
  <1>3. \A x \in Frame : new[x] = IF x \in added \ F2 THEN fa'.refc[x] ELSE 0
    BY RefsAre
  <1>4. refs[f] > 0 /\ new = [refs EXCEPT ![f] = @ + 1 - by]
    <2>1. \A x \in Frame : new[x] = IF x = f THEN refs[f] + 1 - by ELSE refs[x]
      <3> HIDE DEF refs, new
      <3> QED BY <1>1, <1>2, <1>3
    <2>2. refs[f] > 0
      BY <1>1, <1>2
    <2> QED BY <1>1, <2>1, <2>2, Zenon
  <1> QED BY <1>4 DEF Counts!Count

(* The frame is not in use, and nothing happens. *)
LEMMA Idle ==
  ASSUME FrameInv, fa' = fa, added' = added, booting' \in BOOLEAN
  PROVE  Follows
  BY Zenon DEF Follows, FrameInv, Counts!vars

(* frame_free: the last reference, or one of several. *)
LEMMA FreeStep ==
  ASSUME FrameInv, ~fa.panicked, NEW f \in Frame, FreeFrame(f)
  PROVE  Follows
  <1>1. PICK F \in SUBSET added : FInv(fa, F, added \ F)
    BY Zenon DEF FrameInv
  <1> DEFINE U == added \ F
  <1>2. /\ fa' = frame_free(fa, f) /\ added' = added /\ booting' = booting
        /\ added \in SUBSET Frame /\ booting \in BOOLEAN /\ U \in SUBSET Frame
        /\ f # NOFRAME /\ fa.refc \in [Frame -> 0..MaxRef]
    BY <1>1, NullIsNoFrame DEF FreeFrame, FrameInv, FInv, FrameData
  <1>3. frame_find(fa, f) = IF f \in U THEN f ELSE NOFRAME
    BY <1>1, FindInUse
  <1>4. CASE f \notin U
    <2>1. fa' = fa
      BY <1>2, <1>3, <1>4 DEF frame_free
    <2> QED BY <1>2, <2>1, Idle
  <1>5. CASE f \in U /\ fa.refc[f] = 1
    <2>1. /\ FInv(fa', F \cup {f}, U \ {f}) /\ fa'.refc = fa.refc
          /\ fa'.oom_pool = fa.oom_pool /\ fa'.panicked = fa.panicked
      BY <1>1, <1>2, <1>5, FreeLast
    <2>2. PICK F2 : F2 = F \cup {f}
      BY ZenonT(60)
    <2>3. F2 \in SUBSET added /\ U \ {f} = added \ F2
      BY <1>5, <2>2
    <2>4. FInv(fa', F2, added \ F2)
      BY <2>1, <2>2, <2>3
    <2>5. \A x \in Frame : (IF x \in added \ F2 THEN fa'.refc[x] ELSE 0)
                             = IF x = f THEN fa.refc[f] + 1 - 2
                               ELSE IF x \in added \ F THEN fa.refc[x] ELSE 0
      BY <1>5, <2>1, <2>2
    <2>6. Counts!Count(f, 2)
      BY <1>1, <1>2, <1>5, <2>1, <2>3, <2>4, <2>5, CountStep
    <2>7. FrameInv'
      BY <1>2, <2>3, <2>4, Zenon DEF FrameInv
    <2>8. Counts!CountNext
      BY <2>6 DEF Counts!CountNext
    <2> QED BY <2>7, <2>8 DEF Follows
  <1>6. CASE f \in U /\ fa.refc[f] # 1
    <2>1. PICK r : r = fa.refc[f] - 1
      BY Zenon
    <2>2. r \in 1..MaxRef
      <3>1. fa.refc[f] > 0
        BY Zenon, <1>1, <1>6 DEF FInv, ChainInv
      <3>2. fa.refc[f] \in 0..MaxRef
        BY Zenon, <1>2
      <3> QED BY <1>6, <2>1, <3>1, <3>2, SomeReferences
    <2>3. fa' = [fa EXCEPT !.refc[f] = r]
      BY <1>2, <1>3, <1>6, <2>1 DEF frame_free
    <2>4. /\ FInv(fa', F, U) /\ fa'.refc = [fa.refc EXCEPT ![f] = r]
          /\ fa'.oom_pool = fa.oom_pool /\ fa'.panicked = fa.panicked
      BY <1>1, <1>6, <2>2, <2>3, Recount
    <2>5. \A x \in Frame : (IF x \in added \ F THEN fa'.refc[x] ELSE 0)
                             = IF x = f THEN fa.refc[f] + 1 - 2
                               ELSE IF x \in added \ F THEN fa.refc[x] ELSE 0
      <3>1. fa'.refc[f] = r /\ \A x \in Frame \ {f} : fa'.refc[x] = fa.refc[x]
        BY Zenon, <1>2, <2>4
      <3>2. r = fa.refc[f] + 1 - 2
        BY <1>2, <2>1
      <3> QED BY Zenon, <1>6, <3>1, <3>2
    <2>6. Counts!Count(f, 2)
      BY <1>1, <1>2, <1>6, <2>4, <2>5, CountStep
    <2>7. FrameInv'
      BY <1>2, <2>4, Zenon DEF FrameInv
    <2>8. Counts!CountNext
      BY <2>6 DEF Counts!CountNext
    <2> QED BY <2>7, <2>8 DEF Follows
  <1> QED BY <1>4, <1>5, <1>6

(* frame_ref: one reference more. *)
LEMMA RefStep ==
  ASSUME FrameInv, ~fa.panicked, NEW f \in Frame, RefFrame(f)
  PROVE  Follows
  <1>1. PICK F \in SUBSET added : FInv(fa, F, added \ F)
    BY Zenon DEF FrameInv
  <1> DEFINE U == added \ F
  <1>2. /\ fa' = frame_ref(fa, f) /\ added' = added /\ booting' = booting
        /\ added \in SUBSET Frame /\ booting \in BOOLEAN /\ U \in SUBSET Frame
        /\ f # NOFRAME /\ fa.refc \in [Frame -> 0..MaxRef] /\ frame_refc(fa, f) < MaxRef
    BY <1>1, NullIsNoFrame DEF RefFrame, FrameInv, FInv, FrameData
  <1>3. frame_find(fa, f) = IF f \in U THEN f ELSE NOFRAME
    BY <1>1, FindInUse
  <1>4. CASE f \notin U
    <2>1. fa' = fa
      BY <1>2, <1>3, <1>4 DEF frame_ref
    <2> QED BY <1>2, <2>1, Idle
  <1>5. CASE f \in U
    <2>1. PICK r : r = fa.refc[f] + 1
      BY Zenon
    <2>2. r \in 1..MaxRef
      BY <1>2, <1>3, <1>5, <2>1, SomeReferences DEF frame_refc
    <2>3. fa' = [fa EXCEPT !.refc[f] = r]
      BY <1>2, <1>3, <1>5, <2>1 DEF frame_ref
    <2>4. /\ FInv(fa', F, U) /\ fa'.refc = [fa.refc EXCEPT ![f] = r]
          /\ fa'.oom_pool = fa.oom_pool /\ fa'.panicked = fa.panicked
      BY <1>1, <1>5, <2>2, <2>3, Recount
    <2>5. \A x \in Frame : (IF x \in added \ F THEN fa'.refc[x] ELSE 0)
                             = IF x = f THEN fa.refc[f] + 1 - 0
                               ELSE IF x \in added \ F THEN fa.refc[x] ELSE 0
      BY <1>2, <1>5, <2>1, <2>2, <2>4
    <2>6. Counts!Count(f, 0)
      BY <1>1, <1>2, <1>5, <2>4, <2>5, CountStep
    <2>7. FrameInv'
      BY <1>2, <2>4, Zenon DEF FrameInv
    <2>8. Counts!CountNext
      BY <2>6 DEF Counts!CountNext
    <2> QED BY <2>7, <2>8 DEF Follows
  <1> QED BY <1>4, <1>5

-----------------------------------------------------------------------------
(* The theorems *)

LEMMA InitFrames == StoreInit => FrameInv /\ Counts!CountInit
  <1> SUFFICES ASSUME FrameInit PROVE FrameInv /\ Counts!CountInit
    BY DEF StoreInit
  <1>1. /\ fa \in FrameData /\ fa.out_of_memory = TRUE /\ fa.frame_list = NOFRAME
        /\ fa.frame_hash = [h \in Hash |-> NOFRAME] /\ fa.oom_pool = POOL
        /\ fa.panicked = FALSE /\ added = {} /\ booting = TRUE
    BY SomeBuckets, SomeReferences DEF FrameInit, FrameData, Struct, Hash
  <1>2. FInv(fa, {}, {})
    <2>1. \A h \in Hash : fa.frame_hash[h] = NOFRAME /\ Hashed({}, h) = {}
      BY <1>1 DEF Hashed
    <2>2. IsList(fa.next, NOFRAME, {})
      BY EmptyList
    <2>3. ChainInv(fa, {})
      BY <2>1, <2>2 DEF ChainInv
    <2> QED BY <1>1, <2>2, <2>3 DEF FInv
  <1>3. FrameInv
    <2>1. {} \in SUBSET added /\ added \ {} = {}
      BY <1>1
    <2> QED BY <1>1, <1>2, <2>1 DEF FrameInv
  <1>4. \A f \in Frame : frame_refc(fa, f) = 0
    BY <1>2, RefsAre
  <1>5. Counts!CountInit
    BY <1>1, <1>4 DEF Counts!CountInit
  <1> QED BY <1>3, <1>5

(* Every step keeps FrameInv and maps to a step of FrameCount. *)
LEMMA StoreStep ==
  ASSUME SmallSets, FrameInv, [StoreNext]_stvars
  PROVE  Follows
  <1>0. booting \in BOOLEAN
    BY DEF FrameInv
  <1>1. ASSUME UNCHANGED fvars PROVE Follows
    BY <1>0, <1>1, Idle DEF fvars
  <1>2. CASE UNCHANGED stvars
    BY <1>1, <1>2 DEF stvars, fvars
  <1>3. CASE Halted /\ UNCHANGED stvars
    BY <1>1, <1>3 DEF stvars, fvars
  <1> SUFFICES ASSUME ~Halted, StoreNext PROVE Follows
    BY <1>2, <1>3 DEF StoreNext
  <1>4. ~fa.panicked
    BY DEF Halted
  <1>5. ASSUME NEW n, Grow(n) PROVE Follows
    BY <1>1, <1>4, <1>5, NewStep DEF Grow
  <1>6. ASSUME NEW f \in Frame, BootFrame(f) PROVE Follows
    <2>1. CASE UNCHANGED fvars
      BY <1>1, <2>1
    <2>2. ASSUME NEW n, AddFrame(f, n) PROVE Follows
      BY <1>4, <2>2, AddStep
    <2> QED BY <1>6, <2>1, <2>2, Zenon DEF BootFrame
  <1>7. CASE Spawn
    <2>1. \E n : Grow(n)
      BY <1>7, Zenon DEF Spawn
    <2> QED BY <1>5, <2>1
  <1>8. ASSUME NEW i \in Slots, Setstate(i) PROVE Follows
    <2>1. \E n : Grow(n)
      BY <1>8, Zenon DEF Setstate
    <2> QED BY <1>5, <2>1
  <1>9. ASSUME NEW i \in Slots, Kill(i) PROVE Follows
    BY <1>1, <1>9, Zenon DEF Kill
  <1>10. CASE EndBoot
    BY <1>10, Idle, Zenon DEF EndBoot
  <1>11. CASE NewFrames(1)
    BY <1>4, <1>11, NewStep
  <1>12. ASSUME NEW f \in Frame, FreeFrame(f) \/ RefFrame(f) PROVE Follows
    BY <1>4, <1>12, FreeStep, RefStep
  <1> QED BY <1>6, <1>7, <1>8, <1>9, <1>10, <1>11, <1>12, Zenon DEF StoreNext

-----------------------------------------------------------------------------
(* Sets of at most two frames. *)
INSTANCE FiniteSetTheorems

(* Their sizes. *)
LEMMA SmallSetsCounted == SmallSets
  <1>1. Cardinality({}) = 0 /\ \A x : IsFiniteSet({x}) /\ Cardinality({x}) = 1
    BY FS_EmptySet, FS_Singleton, Zenon
  <1>2. ASSUME NEW x, NEW y, x # y PROVE Cardinality({x} \cup {y}) = 2
    <2>1. y \notin {x} /\ IsFiniteSet({x}) /\ Cardinality({x}) = 1
      BY <1>1, <1>2, Zenon
    <2>2. Cardinality({x} \cup {y}) = IF y \in {x} THEN Cardinality({x})
                                      ELSE Cardinality({x}) + 1
      BY <2>1, FS_AddElement, Zenon
    <2> QED BY <2>1, <2>2
  <1> QED BY <1>1, <1>2, Zenon DEF SmallSets

(* The lists stay as FrameInv says through every boot, taking, freeing and *)
(* referencing of frames by the heap, the thread table and the kcalls.     *)
THEOREM FramesInductive == StoreSpec => []FrameInv
  <1>1. FrameInv /\ [StoreNext]_stvars => FrameInv'
    BY StoreStep, SmallSetsCounted DEF Follows
  <1> QED BY <1>1, InitFrames, PTL DEF StoreSpec

(* FrameTypeOK for any memory: no pointer of frame.c dangles, and neither  *)
(* a count nor the pool leaves its range.                                  *)
THEOREM FramesTyped == StoreSpec => []FrameTypeOK
  <1>1. FrameInv => FrameTypeOK
    <2> SUFFICES ASSUME FrameInv PROVE FrameTypeOK
      OBVIOUS
    <2>1. fa \in FrameData /\ added \in SUBSET Frame /\ booting \in BOOLEAN
      BY Zenon DEF FrameInv, FInv
    <2> QED BY <2>1, Zenon DEF FrameTypeOK, FrameData, Hash
  <1> QED BY <1>1, FramesInductive, PTL

(* ListsExact for any memory: frame_pull takes out the struct it is given, *)
(* and every frame is on the free list or on its own chain.                *)
THEOREM FrameListsExact == StoreSpec => []ListsExact
  <1>1. FrameInv => ListsExact
    <2> SUFFICES ASSUME FrameInv PROVE ListsExact
      OBVIOUS
    <2>1. PICK F \in SUBSET added : FInv(fa, F, added \ F)
      BY Zenon DEF FrameInv
    <2>2. /\ Chain(fa, fa.frame_list) = F
          /\ \A h \in Hash : Chain(fa, fa.frame_hash[h]) = Hashed(added \ F, h)
      BY <2>1, FreshList
    <2>3. fa.out_of_memory => F = {}
      BY <2>1 DEF FInv
    <2>4. ASSUME NEW h \in Hash, NEW f \in Hashed(added \ F, h)
          PROVE  /\ fa.refc[f] > 0
                 /\ fa.prev[f] = NOFRAME <=> fa.frame_hash[h] = f
                 /\ fa.next[f] # NOFRAME => fa.prev[fa.next[f]] = f
      <3>1. f \in added \ F /\ bucket(f) = h
        BY <2>4 DEF Hashed
      <3> QED BY <2>1, <3>1, Zenon DEF FInv, ChainInv
    <2>5. \A h \in Hash :
            /\ Chain(fa, fa.frame_hash[h]) = {f \in added \ F : bucket(f) = h}
            /\ \A f \in Chain(fa, fa.frame_hash[h]) :
                 /\ fa.refc[f] > 0
                 /\ fa.prev[f] = NOFRAME <=> fa.frame_hash[h] = f
                 /\ fa.next[f] # NOFRAME => fa.prev[fa.next[f]] = f
      BY <2>2, <2>4 DEF Hashed
    <2> QED BY <2>2, <2>3, <2>5 DEF ListsExact, Hash
  <1> QED BY <1>1, FramesInductive, PTL

(* frame.c implements reference counts for any memory, any number of       *)
(* chains and any pool: each step of the boot loop, of the heap, of the    *)
(* thread table and of the kcalls is a step of FrameCount or changes none  *)
(* of its variables.                                                       *)
THEOREM FramesCount == StoreSpec => CountsKept
  <1>1. FrameInv /\ [StoreNext]_stvars => [Counts!CountNext]_(Counts!vars)
    BY StoreStep, SmallSetsCounted DEF Follows
  <1>2. StoreInit => Counts!CountInit
    BY InitFrames
  <1> QED BY <1>1, <1>2, FramesInductive, PTL DEF StoreSpec, CountsKept, Counts!CountSpec

=============================================================================
