------------------------------ MODULE Heap_proofs ------------------------------
(***************************************************************************)
(* The pointers of Heap: whatever calls made a pointer, its tag is none or *)
(* that of one lstore, and the switches on the tag reach that lstore.      *)
(* Then its objects: blocks and variables belong to each other, the        *)
(* accesses in progress hold the storage's bytes, and the wrappers are a   *)
(* C heap.                                                                 *)
(***************************************************************************)
EXTENDS Heap, TLAPS, FiniteSetTheorems

(* No two lstores share a case of the switches, and the tag of an lstore   *)
(* selects its own.                                                        *)
LEMMA DispatchOfMask ==
  ASSUME NEW k \in Lstores, NEW p, p.tag = LstoreMask(k)
  PROVE  IsCarmorPtr(p) /\ Dispatch(p) = k
<1>1. k \in {0, 1, 2, 3}
  BY DEF Lstores
<1>2. IsCarmorPtr(p)
  BY <1>1 DEF LstoreMask, IsCarmorPtr
<1>3. TopByte(p) = Shift60Val(k)
  BY <1>1 DEF LstoreMask, TopByte, Shift60Val
<1>4. \A j \in Lstores : Shift60Val(j) = Shift60Val(k) => j = k
  BY <1>1 DEF Lstores, Shift60Val
<1> QED
  BY <1>2, <1>3, <1>4 DEF Dispatch

(* A tagged pointer leads to the lstore it was tagged for. *)
LEMMA TaggedStore ==
  ASSUME NEW k \in Lstores, NEW a
  PROVE  Tagged(k, a).tag = LstoreMask(k) /\ StoreOf(Tagged(k, a)) = k
<1>1. Tagged(k, a).tag = LstoreMask(k)
  BY DEF Tagged, MakeLstorePtr, Pointer
<1> QED
  BY <1>1, DispatchOfMask DEF StoreOf

LEMMA KnownTagStore ==
  ASSUME NEW p, p.tag \in KnownTags
  PROVE  StoreOf(p) \in Stores /\ StoreOf(p) # NoCase
<1>1. CASE p.tag = {}
  BY <1>1 DEF StoreOf, IsCarmorPtr, Stores, Native, NoCase
<1>2. CASE \E k \in Lstores : p.tag = LstoreMask(k)
  BY <1>2, DispatchOfMask DEF StoreOf, Stores, Lstores, NoCase
<1> QED
  BY <1>1, <1>2 DEF KnownTags

---------------------------------------------------------------------------
(* TagsInv is inductive. *)

LEMMA OwnInv ==
  ASSUME TagsInv, NEW v \in Vars, NEW p, NEW n, p.tag \in KnownTags, Own(v, p, n)
  PROVE  TagsInv'
BY DEF Own, TagsInv, KnownTags

LEMMA UntaggedKnown ==
  ASSUME NEW a
  PROVE  Pointer({}, a).tag \in KnownTags /\ Null.tag \in KnownTags
BY DEF Pointer, Null, KnownTags

LEMMA TaggedKnown ==
  ASSUME NEW k \in Lstores, NEW a
  PROVE  Tagged(k, a).tag \in KnownTags
BY TaggedStore DEF KnownTags

LEMMA MallocedKnown ==
  ASSUME NEW k \in Lstores, NEW n, NEW a
  PROVE  Malloced(k, n, a).p.tag \in KnownTags
BY UntaggedKnown, TaggedKnown DEF Malloced

(* An lstore pointer of a variable selects an lstore. *)
LEMMA DispatchKnown ==
  ASSUME TagsInv, NEW v \in Vars, IsCarmorPtr(ptr[v])
  PROVE  Dispatch(ptr[v]) \in Lstores
<1>1. ptr[v].tag # {}
  BY DEF IsCarmorPtr
<1> QED
  BY <1>1, DispatchOfMask DEF TagsInv, KnownTags

LEMMA NewPointerInv ==
  ASSUME TagsInv, NEW t \in Threads, NEW k \in Lstores, NEW v \in Vars
  PROVE  /\ \A n : Malloc(t, k, v, n) => TagsInv'
         /\ \A count, n : Calloc(t, k, v, count, n) => TagsInv'
         /\ \A alignment, n : Memalign(t, k, v, alignment, n) => TagsInv'
         /\ \A c : InitGlobal(t, k, v, c) => TagsInv'
<1>1. ASSUME NEW n, Malloc(t, k, v, n)
      PROVE  TagsInv'
  <2>1. \E a : Own(v, Malloced(k, n, a).p, n)
    BY <1>1 DEF Malloc
  <2> QED
    BY <2>1, OwnInv, MallocedKnown
<1>2. ASSUME NEW count, NEW n, Calloc(t, k, v, count, n)
      PROVE  TagsInv'
  <2>1. \/ UNCHANGED ptr
        \/ \E a, size1 : Own(v, Malloced(k, Product(count, n), a).p, size1)
    BY <1>2 DEF Calloc
  <2>2. CASE UNCHANGED ptr
    BY <2>2 DEF TagsInv
  <2> QED
    BY <2>1, <2>2, OwnInv, MallocedKnown
<1>3. ASSUME NEW alignment, NEW n, Memalign(t, k, v, alignment, n)
      PROVE  TagsInv'
  <2>1. \E a : \/ Own(v, Null, n)
               \/ Own(v, Tagged(k, Aligned(a, alignment)), n)
    BY <1>3 DEF Memalign
  <2> QED
    BY <2>1, OwnInv, TaggedKnown, UntaggedKnown
<1>4. ASSUME NEW c, InitGlobal(t, k, v, c)
      PROVE  TagsInv'
  <2>1. \/ UNCHANGED ptr
        \/ \E a : Own(v, Tagged(k, a), Len(c))
    BY <1>4 DEF InitGlobal
  <2>2. CASE UNCHANGED ptr
    BY <2>2 DEF TagsInv
  <2> QED
    BY <2>1, <2>2, OwnInv, TaggedKnown
<1> QED
  BY <1>1, <1>2, <1>3, <1>4

LEMMA OldPointerInv ==
  ASSUME TagsInv, NEW t \in Threads, NEW v \in Vars
  PROVE  /\ Free(t, v) => TagsInv'
         /\ ReallocMemalign(t, v) => TagsInv'
         /\ \A n : ReallocNative(t, v, n) => TagsInv'
         /\ \A n : ReallocInPlace(t, v, n) => TagsInv'
         /\ \A n : ReallocMoves(t, v, n) => TagsInv'
<1>0. UNCHANGED ptr => TagsInv'
  BY DEF TagsInv
<1>1. ASSUME Free(t, v)
      PROVE  TagsInv'
  BY <1>1, OwnInv, UntaggedKnown DEF Free
<1>2. ASSUME ReallocMemalign(t, v)
      PROVE  TagsInv'
  BY <1>0, <1>2 DEF ReallocMemalign
<1>3. ASSUME NEW n, ReallocNative(t, v, n)
      PROVE  TagsInv'
  <2>1. UNCHANGED ptr \/ \E a : Own(v, Pointer({}, a), n)
    BY <1>3 DEF ReallocNative
  <2> QED
    BY <1>0, <2>1, OwnInv, UntaggedKnown
<1>4. ASSUME NEW n, ReallocInPlace(t, v, n)
      PROVE  TagsInv'
  <2>1. Own(v, ptr[v], n) /\ ptr[v].tag \in KnownTags
    BY <1>4 DEF ReallocInPlace, TagsInv
  <2> QED
    BY <2>1, OwnInv
<1>5. ASSUME NEW n, ReallocMoves(t, v, n)
      PROVE  TagsInv'
  <2>1. Dispatch(ptr[v]) \in Lstores
    BY <1>5, DispatchKnown DEF ReallocMoves
  <2>2. UNCHANGED ptr \/ \E a : Own(v, Tagged(Dispatch(ptr[v]), a), n)
    BY <1>5 DEF ReallocMoves
  <2> QED
    BY <1>0, <2>1, <2>2, OwnInv, TaggedKnown
<1> QED
  BY <1>1, <1>2, <1>3, <1>4, <1>5

LEMMA AccessKeepsPointers ==
  ASSUME NEW t \in Threads, Access(t) \/ Load(t) \/ Store(t) \/ Writeback(t)
  PROVE  UNCHANGED ptr
<1>1. CASE Access(t)
  BY <1>1 DEF Access, AccessFlat, AccessDirect
<1>2. CASE Load(t) \/ Store(t) \/ Writeback(t)
  BY <1>2 DEF Load, Store, Writeback, heapVars
<1> QED
  BY <1>1, <1>2

LEMMA TagsStep ==
  ASSUME TagsInv, [Next]_vars
  PROVE  TagsInv'
<1>1. UNCHANGED ptr => TagsInv'
  BY DEF TagsInv
<1>2. CASE UNCHANGED vars
  BY <1>1, <1>2 DEF vars, heapVars
<1>3. CASE Next
  <2>1. PICK t \in Threads :
          Call(t) \/ Access(t) \/ Load(t) \/ Store(t) \/ Writeback(t)
    BY <1>3 DEF Next
  <2>2. CASE Call(t)
    <3>1. CASE \E k \in Mallocs, v \in Vars, n \in Sizes :
                  \/ Malloc(t, k, v, n)
                  \/ \E count \in Counts : Calloc(t, k, v, count, n)
                  \/ \E alignment \in Alignments : Memalign(t, k, v, alignment, n)
                  \/ \E c \in [1 .. n -> Values] : InitGlobal(t, k, v, c)
      BY <3>1, MallocsOK, NewPointerInv
    <3>2. CASE \E v \in Vars :
                  \/ Free(t, v)
                  \/ ReallocMemalign(t, v)
                  \/ \E n \in Sizes : \/ ReallocNative(t, v, n)
                                     \/ ReallocInPlace(t, v, n)
                                     \/ ReallocMoves(t, v, n)
      BY <3>2, OldPointerInv
    <3> QED
      BY <2>2, <3>1, <3>2 DEF Call
  <2>3. CASE Access(t) \/ Load(t) \/ Store(t) \/ Writeback(t)
    BY <1>1, <2>3, AccessKeepsPointers
  <2> QED
    BY <2>1, <2>2, <2>3
<1> QED
  BY <1>2, <1>3

(* No sequence of heap calls makes a pointer whose tag no switch of the    *)
(* runtime knows: the default branches, which abort, are never taken.      *)
THEOREM PointersDispatch == Spec => []TagsKnown
<1>1. Init => TagsInv
  BY UntaggedKnown DEF Init, TagsInv
<1>2. TagsInv /\ [Next]_vars => TagsInv'
  BY TagsStep
<1>3. TagsInv => TagsKnown
  BY KnownTagStore DEF TagsInv, TagsKnown
<1> QED
  BY <1>1, <1>2, <1>3, PTL DEF Spec
-----------------------------------------------------------------------------

(* What an allocator answers, other than a failure, is a free range. *)
LEMMA AllocatedFits ==
  ASSUME BlocksFit, NEW s \in Stores, NEW n \in Nat \ {0},
         NEW a \in Addresses(taken, s, n), a # 0
  PROVE  /\ a \in Addrs /\ a + n - 1 <= HeapTop
         /\ \A b \in taken[s] : b.base + b.len <= a \/ a + n <= b.base
<1>1. /\ a \in Addrs /\ a + n - 1 <= HeapTop
      /\ Used(taken, s) \cap (a .. a + n - 1) = {}
  BY DEF Addresses
<1>2. ASSUME NEW b \in taken[s]
      PROVE  b.base + b.len <= a \/ a + n <= b.base
  <2>1. b.base \in Nat /\ b.len \in Nat \ {0} /\ a \in Nat
    BY <1>1 DEF BlocksFit, Addrs
  <2>2. SUFFICES ASSUME b.base + b.len > a, a + n > b.base
                 PROVE  FALSE
    BY <2>1
  <2> DEFINE c == IF b.base < a THEN a ELSE b.base
  <2>3. c \in Extent(b) /\ c \in a .. a + n - 1
    BY <2>1, <2>2 DEF Extent
  <2>4. c \in Used(taken, s)
    BY <2>3 DEF Used
  <2> QED
    BY <1>1, <2>3, <2>4
<1> QED
  BY <1>1, <1>2

LEMMA EmptyObject ==
  ASSUME NEW v, size[v] = 0
  PROVE  ObjOf(v) = <<>>
BY DEF ObjOf

LEMMA BlockFields ==
  \A a, n : Block(a, n).base = a /\ Block(a, n).len = n
BY DEF Block

(* What an action does to the pointer and the size of v, and to no other.  *)
LEMMA OwnEffect ==
  ASSUME Shapes, TagsInv, NEW v \in Vars, NEW p, NEW n, Own(v, p, n)
  PROVE  /\ ptr'[v] = p /\ size'[v] = IF p = Null THEN 0 ELSE n
         /\ \A u \in Vars \ {v} : ptr'[u] = ptr[u] /\ size'[u] = size[u]
BY DEF Own, Shapes, TagsInv

(* Owning a block after a step, the block and its store being those before. *)
OwnsNext(v, s, b) ==
    /\ size'[v] > 0 /\ StoreOf(ptr'[v]) = s
    /\ b.base <= ptr'[v].addr /\ ptr'[v].addr + size'[v] <= b.base + b.len

LEMMA OthersOwn ==
  ASSUME NEW u, ptr'[u] = ptr[u], size'[u] = size[u], NEW s, NEW b
  PROVE  OwnsNext(u, s, b) <=> Owns(u, s, b)
BY DEF Owns, OwnsNext

(* The blocks that v owned are given back, and v gets the blocks new (one, *)
(* or none) of the store s.                                                *)
OthersKeep(v) == \A u \in Vars \ {v} : ptr'[u] = ptr[u] /\ size'[u] = size[u]

Exchanged(v, s, new) ==
    /\ \A q \in Stores : \A b \in taken'[q] :
          (b \in taken[q] /\ ~Owns(v, q, b)) \/ (q = s /\ b \in new)
    /\ \A q \in Stores : \A b \in taken[q] : ~Owns(v, q, b) => b \in taken'[q]
    /\ new \subseteq taken'[s]

GoodBlock(v, s, b) ==
    /\ OwnsNext(v, s, b)
    /\ b = Block(b.base, b.len) /\ b.base \in Addrs /\ b.len \in Nat \ {0}
    /\ b.base + b.len - 1 <= HeapTop
    /\ s = Native => b.base = ptr'[v].addr
    /\ \A c \in taken[s] :
          Owns(v, s, c) \/ b.base + b.len <= c.base \/ c.base + c.len <= b.base

GoodBlocks(v, s, new) ==
    /\ \A b \in new : GoodBlock(v, s, b)
    /\ \A b, c \in new : b = c

GoodPointer(v, new) ==
    /\ size'[v] \in Nat /\ ptr'[v].addr \in Nat
    /\ size'[v] > 0 => new # {}
    /\ size'[v] = 0 <=> ptr'[v] = Null

BlockStep(v, s, new) ==
    /\ OthersKeep(v) /\ Exchanged(v, s, new)
    /\ GoodBlocks(v, s, new) /\ GoodPointer(v, new)

(* Objects and blocks still belong to each other. *)
LEMMA BlocksChange ==
  ASSUME Shapes, BlocksInv, NEW v \in Vars, NEW s \in Stores, NEW new, BlockStep(v, s, new)
  PROVE  BlocksInv'
<1> USE DEF BlockStep, OthersKeep, Exchanged, GoodBlocks, GoodBlock, GoodPointer
<1>1. \A u \in Vars \ {v} : \A q, b : OwnsNext(u, q, b) <=> Owns(u, q, b)
  BY OthersOwn
<1>2. \A q \in Stores : \A b \in taken[q] : b.base \in Nat /\ b.len \in Nat \ {0}
  BY DEF BlocksInv, BlocksFit, Addrs
<1>3. \A b \in new : b.base \in Nat /\ b.len \in Nat \ {0}
  BY DEF Addrs
<1>6. BlocksFit'
  BY DEF BlocksInv, BlocksFit
<1>7. BlocksApart'
  <2> SUFFICES ASSUME NEW q \in Stores, NEW b \in taken'[q], NEW c \in taken'[q]
               PROVE  b = c \/ b.base + b.len <= c.base \/ c.base + c.len <= b.base
    BY DEF BlocksApart
  <2>1. CASE b \in taken[q] /\ c \in taken[q]
    BY <2>1 DEF BlocksInv, BlocksApart
  <2>2. CASE q = s /\ b \in new
    BY <2>2
  <2>3. CASE q = s /\ c \in new
    BY <2>3
  <2> QED
    BY <2>1, <2>2, <2>3
<1>8. HasBlock'
  <2> SUFFICES ASSUME NEW u \in Vars, size'[u] > 0
               PROVE  \E q \in Stores : \E b \in taken'[q] : OwnsNext(u, q, b)
    BY DEF HasBlock, Owns, OwnsNext
  <2>1. CASE u = v
    BY <2>1
  <2>2. CASE u # v
    <3>0. PICK q \in Stores : \E b \in taken[q] : Owns(u, q, b)
      BY <2>2 DEF BlocksInv, HasBlock
    <3>1. PICK b \in taken[q] : Owns(u, q, b)
      BY <3>0
    <3>2. ~Owns(v, q, b)
      BY <2>2, <3>1 DEF BlocksInv, OneOwner
    <3> QED
      BY <1>1, <2>2, <3>1, <3>2
  <2> QED
    BY <2>1, <2>2
<1>9. HasOwner'
  <2> SUFFICES ASSUME NEW q \in Stores, NEW b \in taken'[q]
               PROVE  \E u \in Vars : OwnsNext(u, q, b)
    BY DEF HasOwner, Owns, OwnsNext
  <2>1. CASE b \in taken[q] /\ ~Owns(v, q, b)
    <3>1. PICK u \in Vars : Owns(u, q, b)
      BY <2>1 DEF BlocksInv, HasOwner
    <3> QED
      BY <1>1, <2>1, <3>1
  <2>2. CASE q = s /\ b \in new
    BY <2>2
  <2> QED
    BY <2>1, <2>2
<1>10. ASSUME NEW q \in Stores, NEW b \in taken'[q], NEW u \in Vars \ {v}, OwnsNext(u, q, b)
       PROVE  b \in taken[q] /\ Owns(u, q, b) /\ ~(q = s /\ b \in new)
  <2>1. Owns(u, q, b)
    BY <1>1, <1>10
  <2>2. PICK r \in Stores : \E c \in taken[r] : Owns(u, r, c)
    BY <2>1 DEF BlocksInv, HasBlock, Owns, OwnsNext
  <2>3. r = q
    BY <2>1, <2>2 DEF Owns, OwnsNext
  <2>4. PICK c \in taken[q] : Owns(u, q, c)
    BY <2>2, <2>3
  <2>5. ~Owns(v, q, c)
    BY <2>4 DEF BlocksInv, OneOwner
  <2>6. /\ ptr[u].addr \in Nat /\ size[u] \in Nat \ {0}
        /\ c.base <= ptr[u].addr /\ ptr[u].addr + size[u] <= c.base + c.len
        /\ b.base <= ptr[u].addr /\ ptr[u].addr + size[u] <= b.base + b.len
    BY <2>1, <2>4 DEF Owns, OwnsNext, Shapes
  <2>7. ASSUME q = s, b \in new
        PROVE  FALSE
    BY <1>2, <1>3, <2>4, <2>5, <2>6, <2>7
  <2> QED
    BY <2>1, <2>7
<1>11. ASSUME NEW q \in Stores, NEW b \in taken'[q], OwnsNext(v, q, b)
       PROVE  q = s /\ b \in new
  <2>1. size'[v] > 0
    BY <1>11 DEF Owns, OwnsNext
  <2>2. PICK c \in new : OwnsNext(v, s, c)
    BY <2>1
  <2>3. q = s
    BY <1>11, <2>2 DEF Owns, OwnsNext
  <2>4. ASSUME b \in taken[s], ~Owns(v, s, b)
        PROVE  FALSE
    <3>1. b.base + b.len <= c.base \/ c.base + c.len <= b.base
      BY <2>2, <2>4
    <3>2. /\ c.base <= ptr'[v].addr /\ ptr'[v].addr + size'[v] <= c.base + c.len
          /\ b.base <= ptr'[v].addr /\ ptr'[v].addr + size'[v] <= b.base + b.len
      BY <1>11, <2>2 DEF Owns, OwnsNext
    <3> QED
      BY <1>2, <1>3, <2>1, <2>2, <2>4, <3>1, <3>2
  <2> QED
    BY <2>3, <2>4
<1>12. OneOwner'
  <2> SUFFICES ASSUME NEW q \in Stores, NEW b \in taken'[q],
                      NEW u \in Vars, NEW w \in Vars, OwnsNext(u, q, b), OwnsNext(w, q, b)
               PROVE  u = w
    BY DEF OneOwner, Owns, OwnsNext
  <2>1. CASE u # v /\ w # v
    BY <1>10, <2>1 DEF BlocksInv, OneOwner
  <2>2. CASE u = v \/ w = v
    BY <1>10, <1>11, <2>2
  <2> QED
    BY <2>1, <2>2
<1>13. NativeAtBase'
  <2> SUFFICES ASSUME NEW u \in Vars, size'[u] > 0, StoreOf(ptr'[u]) = Native
               PROVE  \E b \in taken'[Native] : b.base = ptr'[u].addr
    BY DEF NativeAtBase
  <2>1. CASE u = v
    <3>1. PICK b \in new : OwnsNext(v, s, b)
      BY <2>1
    <3>2. s = Native
      BY <2>1, <3>1 DEF Owns, OwnsNext
    <3> QED
      BY <2>1, <3>1, <3>2
  <2>2. CASE u # v
    <3>1. PICK b \in taken[Native] : b.base = ptr[u].addr
      BY <2>2 DEF BlocksInv, NativeAtBase
    <3>2. PICK r \in Stores : \E c \in taken[r] : Owns(u, r, c)
      BY <2>2 DEF BlocksInv, HasBlock
    <3>3. r = Native
      BY <2>2, <3>2 DEF Owns, OwnsNext
    <3>4. PICK c \in taken[Native] : Owns(u, Native, c)
      BY <3>2, <3>3
    <3>5. Native \in Stores
      BY DEF Stores
    <3>6. /\ ptr[u].addr \in Nat /\ size[u] \in Nat \ {0}
          /\ c.base <= ptr[u].addr /\ ptr[u].addr + size[u] <= c.base + c.len
      BY <3>4 DEF Owns, OwnsNext, Shapes
    <3>7. b = c
      <4>1. b.base + b.len <= c.base \/ c.base + c.len <= b.base \/ b = c
        BY <3>5 DEF BlocksInv, BlocksApart
      <4> QED
        BY <1>2, <3>1, <3>5, <3>6, <4>1
    <3>8. ~Owns(v, Native, b)
      BY <2>2, <3>4, <3>5, <3>7 DEF BlocksInv, OneOwner
    <3> QED
      BY <2>2, <3>1, <3>5, <3>8
  <2> QED
    BY <2>1, <2>2
<1>14. NullIsEmpty'
  BY DEF BlocksInv, NullIsEmpty
<1> QED
  BY <1>6, <1>7, <1>8, <1>9, <1>12, <1>13, <1>14 DEF BlocksInv

LEMMA NothingOwned ==
  ASSUME NEW v, size[v] = 0
  PROVE  \A s, b : ~Owns(v, s, b)
BY DEF Owns, OwnsNext

(* The block whose base a pointer is, is the block that its object is in.  *)
LEMMA BaseOwned ==
  ASSUME TagsInv, Shapes, BlocksInv, NEW v \in Vars, size[v] > 0,
         NEW c \in taken[StoreOf(ptr[v])], c.base = ptr[v].addr
  PROVE  \A b \in taken[StoreOf(ptr[v])] :
            Owns(v, StoreOf(ptr[v]), b) <=> b.base = ptr[v].addr
<1> DEFINE s == StoreOf(ptr[v])
<1>1. s \in Stores
  BY KnownTagStore DEF TagsInv
<1>2. PICK q \in Stores : \E b \in taken[q] : Owns(v, q, b)
  BY DEF BlocksInv, HasBlock
<1>3. q = s
  BY <1>2 DEF Owns, OwnsNext
<1> HIDE DEF s
<1>4. PICK d \in taken[s] : Owns(v, s, d)
  BY <1>2, <1>3
<1>5. \A b \in taken[s] : b.base \in Nat /\ b.len \in Nat \ {0}
  BY <1>1 DEF BlocksInv, BlocksFit, Addrs
<1>6. ptr[v].addr \in Nat /\ size[v] \in Nat \ {0}
  BY DEF Shapes
<1>7. ASSUME NEW b \in taken[s],
             b.base <= ptr[v].addr, ptr[v].addr < b.base + b.len
      PROVE  b = d
  <2>1. b.base + b.len <= d.base \/ d.base + d.len <= b.base \/ b = d
    BY <1>1 DEF BlocksInv, BlocksApart
  <2>2. d.base <= ptr[v].addr /\ ptr[v].addr + size[v] <= d.base + d.len
    BY <1>4 DEF Owns, OwnsNext
  <2> QED
    BY <1>5, <1>6, <1>7, <2>1, <2>2
<1>8. \A b \in taken[s] : Owns(v, s, b) => b = d
  BY <1>5, <1>6, <1>7 DEF Owns, OwnsNext
<1>9. \A b \in taken[s] : b.base = ptr[v].addr => b = d
  BY <1>5, <1>6, <1>7
<1> QED
  BY <1>4, <1>8, <1>9 DEF s

(* A new block for a new object. *)
LEMMA GivenBlock ==
  ASSUME TagsInv, Shapes, BlocksInv,
         NEW v \in Vars, size[v] = 0, NEW s \in Stores,
         NEW n \in Nat \ {0}, NEW a \in Addresses(taken, s, n), a # 0,
         taken' = Take(taken, s, a, n),
         NEW p, p # Null, StoreOf(p) = s, p.addr \in Nat,
         NEW m \in Nat \ {0}, a <= p.addr, p.addr + m <= a + n,
         s = Native => p.addr = a,
         Own(v, p, m)
  PROVE  BlocksInv'
<1> DEFINE new == Block(a, n)
<1> DEFINE N == {new}
<1>1. /\ ptr'[v] = p /\ size'[v] = m
      /\ \A u \in Vars \ {v} : ptr'[u] = ptr[u] /\ size'[u] = size[u]
  BY OwnEffect
<1>2. /\ a \in Addrs /\ a \in Nat /\ a + n - 1 <= HeapTop
      /\ \A b \in taken[s] : b.base + b.len <= a \/ a + n <= b.base
  BY AllocatedFits DEF BlocksInv, Addrs
<1>3. new.base = a /\ new.len = n /\ new = Block(new.base, new.len)
  BY BlockFields
<1>4. OwnsNext(v, s, new)
  BY <1>1, <1>3 DEF OwnsNext
<1> HIDE DEF new
<1>5. /\ \A q \in Stores : \A b \in taken'[q] :
           (b \in taken[q] /\ ~Owns(v, q, b)) \/ (q = s /\ b \in N)
      /\ \A q \in Stores : \A b \in taken[q] : ~Owns(v, q, b) => b \in taken'[q]
      /\ N \subseteq taken'[s]
  BY NothingOwned DEF Take, Shapes, new
<1>6. GoodBlock(v, s, new)
  BY <1>1, <1>2, <1>3, <1>4 DEF GoodBlock
<1>7. GoodBlocks(v, s, N)
  BY <1>6 DEF GoodBlocks
<1>8. /\ size'[v] \in Nat /\ ptr'[v].addr \in Nat /\ size'[v] > 0
      /\ size'[v] = 0 <=> ptr'[v] = Null
  BY <1>1
<1>20. N # {}
  OBVIOUS
<1> HIDE DEF N
<1>21. BlockStep(v, s, N)
  <2>1. OthersKeep(v)
    BY <1>1 DEF OthersKeep
  <2>2. Exchanged(v, s, N)
    BY <1>5 DEF Exchanged
  <2>3. GoodBlocks(v, s, N)
    BY <1>7
  <2>4. GoodPointer(v, N)
    BY <1>8, <1>20 DEF GoodPointer
  <2> QED
    BY <2>1, <2>2, <2>3, <2>4 DEF BlockStep
<1> QED
  BY <1>1, <1>21, BlocksChange

(* The block of an object is given back. *)
LEMMA FreedBlock ==
  ASSUME TagsInv, Shapes, BlocksInv, NEW v \in Vars, size[v] > 0,
         BlockAt(ptr[v]) # {},
         taken' = Drop(taken, StoreOf(ptr[v]), ptr[v].addr),
         Own(v, Null, 0)
  PROVE  BlocksInv'
<1> DEFINE s == StoreOf(ptr[v])
<1> DEFINE N == {}
<1>1. s \in Stores
  BY KnownTagStore DEF TagsInv
<1>2. PICK c \in taken[s] : c.base = ptr[v].addr
  BY DEF BlockAt
<1>3. \A b \in taken[s] : Owns(v, s, b) <=> b.base = ptr[v].addr
  BY <1>2, BaseOwned
<1>4. /\ \A q \in Stores : \A b \in taken'[q] :
           (b \in taken[q] /\ ~Owns(v, q, b)) \/ (q = s /\ b \in N)
      /\ \A q \in Stores : \A b \in taken[q] : ~Owns(v, q, b) => b \in taken'[q]
      /\ N \subseteq taken'[s]
  BY <1>1, <1>3 DEF Drop, Shapes, Owns, OwnsNext
<1>5. /\ ptr'[v] = Null /\ size'[v] = 0
      /\ \A u \in Vars \ {v} : ptr'[u] = ptr[u] /\ size'[u] = size[u]
  BY OwnEffect
<1>6. Null.addr \in Nat
  BY DEF Null, Pointer
<1>20. \A b, c1 \in N : b = c1 /\ b \notin N
  OBVIOUS
<1> HIDE DEF N
<1>21. BlockStep(v, s, N)
  <2>1. OthersKeep(v)
    BY <1>5 DEF OthersKeep
  <2>2. Exchanged(v, s, N)
    BY <1>4 DEF Exchanged
  <2>3. GoodBlocks(v, s, N)
    BY <1>20 DEF GoodBlocks, GoodBlock
  <2>4. GoodPointer(v, N)
    BY <1>5, <1>6, <1>20 DEF GoodPointer
  <2> QED
    BY <2>1, <2>2, <2>3, <2>4 DEF BlockStep
<1> QED
  BY <1>1, <1>21, BlocksChange

(* The block of an object, if it has one, is given back for a new one.     *)
LEMMA MovedBlock ==
  ASSUME TagsInv, Shapes, BlocksInv, NEW v \in Vars,
         NEW s \in Stores, s = StoreOf(ptr[v]),
         size[v] > 0 => BlockAt(ptr[v]) # {},
         NEW n \in Nat \ {0}, NEW a \in Addresses(taken, s, n), a # 0,
         taken' = [taken EXCEPT ![s] = {b \in @ : b.base # ptr[v].addr} \cup {Block(a, n)}],
         NEW p, p # Null, StoreOf(p) = s, p.addr = a,
         Own(v, p, n)
  PROVE  BlocksInv'
<1> DEFINE new == Block(a, n)
<1> DEFINE N == {new}
<1>1. /\ ptr'[v] = p /\ size'[v] = n
      /\ \A u \in Vars \ {v} : ptr'[u] = ptr[u] /\ size'[u] = size[u]
  BY OwnEffect
<1>2. /\ a \in Addrs /\ a \in Nat /\ a + n - 1 <= HeapTop
      /\ \A b \in taken[s] : b.base + b.len <= a \/ a + n <= b.base
  BY AllocatedFits DEF BlocksInv, Addrs
<1>3. new.base = a /\ new.len = n /\ new = Block(new.base, new.len)
  BY BlockFields
<1>4. OwnsNext(v, s, new)
  BY <1>1, <1>2, <1>3 DEF OwnsNext
<1>5. \A b \in taken[s] : Owns(v, s, b) <=> b.base = ptr[v].addr
  <2>1. CASE size[v] > 0
    <3>1. PICK c \in taken[s] : c.base = ptr[v].addr
      BY <2>1 DEF BlockAt
    <3> QED
      BY <2>1, <3>1, BaseOwned
  <2>2. CASE size[v] = 0
    <3>1. ptr[v].addr = 0
      BY <2>2 DEF BlocksInv, NullIsEmpty, Null, Pointer
    <3>2. \A b \in taken[s] : b.base # 0
      BY DEF BlocksInv, BlocksFit, Addrs
    <3> QED
      BY <2>2, <3>1, <3>2, NothingOwned
  <2> QED
    BY <2>1, <2>2 DEF Shapes
<1> HIDE DEF new
<1>6. /\ \A q \in Stores : \A b \in taken'[q] :
           (b \in taken[q] /\ ~Owns(v, q, b)) \/ (q = s /\ b \in N)
      /\ \A q \in Stores : \A b \in taken[q] : ~Owns(v, q, b) => b \in taken'[q]
      /\ N \subseteq taken'[s]
  BY <1>5 DEF Shapes, Owns, OwnsNext, new
<1>7. GoodBlock(v, s, new)
  BY <1>1, <1>2, <1>3, <1>4 DEF GoodBlock
<1>8. GoodBlocks(v, s, N)
  BY <1>7 DEF GoodBlocks
<1>9. /\ size'[v] \in Nat /\ ptr'[v].addr \in Nat /\ size'[v] > 0
      /\ size'[v] = 0 <=> ptr'[v] = Null
  BY <1>1, <1>2
<1>20. N # {}
  OBVIOUS
<1> HIDE DEF N
<1>21. BlockStep(v, s, N)
  <2>1. OthersKeep(v)
    BY <1>1 DEF OthersKeep
  <2>2. Exchanged(v, s, N)
    BY <1>6 DEF Exchanged
  <2>3. GoodBlocks(v, s, N)
    BY <1>8
  <2>4. GoodPointer(v, N)
    BY <1>9, <1>20 DEF GoodPointer
  <2> QED
    BY <2>1, <2>2, <2>3, <2>4 DEF BlockStep
<1> QED
  BY <1>1, <1>21, BlocksChange

(* An object takes another size within its block. *)
LEMMA ResizedBlock ==
  ASSUME TagsInv, Shapes, BlocksInv, NEW v \in Vars, size[v] > 0,
         NEW c \in BlockAt(ptr[v]), NEW n \in Nat \ {0}, n <= c.len,
         taken' = taken, Own(v, ptr[v], n)
  PROVE  BlocksInv'
<1> DEFINE s == StoreOf(ptr[v])
<1> DEFINE N == {c}
<1>1. s \in Stores
  BY KnownTagStore DEF TagsInv
<1>2. c \in taken[s] /\ c.base = ptr[v].addr
  BY DEF BlockAt
<1>3. ptr[v] # Null
  BY DEF BlocksInv, NullIsEmpty
<1>4. /\ ptr'[v] = ptr[v] /\ size'[v] = n
      /\ \A u \in Vars \ {v} : ptr'[u] = ptr[u] /\ size'[u] = size[u]
  BY <1>3, OwnEffect
<1>5. ptr[v].addr \in Nat
  BY DEF Shapes
<1>6. \A b \in taken[s] : Owns(v, s, b) <=> b.base = ptr[v].addr
  BY <1>2, BaseOwned
<1>7. /\ c = Block(c.base, c.len) /\ c.base \in Addrs /\ c.len \in Nat \ {0}
      /\ c.base + c.len - 1 <= HeapTop
  BY <1>1, <1>2 DEF BlocksInv, BlocksFit
<1>8. OwnsNext(v, s, c)
  BY <1>2, <1>4, <1>5, <1>7 DEF OwnsNext
<1> HIDE DEF s
<1>9. \A b \in taken[s] : \/ b = c \/ b.base + b.len <= c.base
                          \/ c.base + c.len <= b.base
  BY <1>1, <1>2 DEF BlocksInv, BlocksApart
<1>10. \A b \in taken[s] : Owns(v, s, b) => b = c
  <2> SUFFICES ASSUME NEW b \in taken[s], Owns(v, s, b)
               PROVE  b = c
    OBVIOUS
  <2>1. b.base = c.base /\ b.base \in Nat /\ b.len \in Nat \ {0}
    BY <1>1, <1>2, <1>6 DEF BlocksInv, BlocksFit, Addrs
  <2> QED
    BY <1>7, <1>9, <2>1
<1>11. \A q \in Stores \ {s} : \A b : ~Owns(v, q, b)
  BY DEF Owns, OwnsNext, s
<1>12. Exchanged(v, s, N)
  BY <1>2, <1>10, <1>11 DEF Exchanged
<1>13. GoodBlock(v, s, c)
  BY <1>2, <1>4, <1>6, <1>7, <1>8, <1>9 DEF GoodBlock
<1>14. GoodBlocks(v, s, N)
  BY <1>13 DEF GoodBlocks
<1>15. /\ size'[v] \in Nat /\ ptr'[v].addr \in Nat /\ size'[v] > 0
       /\ size'[v] = 0 <=> ptr'[v] = Null
  BY <1>3, <1>4, <1>5
<1>20. N # {}
  OBVIOUS
<1> HIDE DEF N
<1>21. BlockStep(v, s, N)
  <2>1. OthersKeep(v)
    BY <1>4 DEF OthersKeep
  <2>2. Exchanged(v, s, N)
    BY <1>12
  <2>3. GoodBlocks(v, s, N)
    BY <1>14
  <2>4. GoodPointer(v, N)
    BY <1>15, <1>20 DEF GoodPointer
  <2> QED
    BY <2>1, <2>2, <2>3, <2>4 DEF BlockStep
<1> QED
  BY <1>1, <1>21, BlocksChange

---------------------------------------------------------------------------
(* What the operators on memories compute, cell by cell. *)

IsMemory(m) == m = [s \in Stores |-> [a \in Addrs |-> m[s][a]]]

LEMMA PutCells ==
  ASSUME NEW m, IsMemory(m), NEW s \in Stores, NEW a, NEW new
  PROVE  /\ IsMemory(Put(m, s, a, new))
         /\ \A q \in Stores, c \in Addrs :
              Put(m, s, a, new)[q][c] = IF q = s /\ c - a \in DOMAIN new
                                          THEN new[c - a] ELSE m[q][c]
BY DEF IsMemory, Put

(* m1 differs from m in the n cells at the address a of s at most. *)
SameBut(m1, m, s, a, n) ==
    \A q \in Stores, c \in Addrs :
        (q # s \/ c < a \/ a + n <= c) => m1[q][c] = m[q][c]

LEMMA FreshSame ==
  ASSUME NEW m, IsMemory(m), NEW s \in Stores, NEW a \in Nat, NEW n \in Nat
  PROVE  IsMemory(Fresh(m, s, a, n)) /\ SameBut(Fresh(m, s, a, n), m, s, a, n)
<1>1. \A c \in Addrs : c \in Nat
  BY DEF Addrs
<1>2. DOMAIN Same(n, Junk) = 0 .. n - 1
  BY DEF Same
<1>3. /\ IsMemory(Put(m, s, a, Same(n, Junk)))
      /\ \A q \in Stores, c \in Addrs :
           Put(m, s, a, Same(n, Junk))[q][c]
             = IF q = s /\ c - a \in DOMAIN Same(n, Junk)
                 THEN Same(n, Junk)[c - a] ELSE m[q][c]
  BY PutCells
<1> QED
  BY <1>1, <1>2, <1>3 DEF Fresh, SameBut

(* Every cell of the blocks at the address a is Junk, the others stay. *)
LEMMA ScrapCells ==
  ASSUME NEW m, IsMemory(m), NEW s \in Stores, NEW a, BlocksFit
  PROVE  /\ IsMemory(Scrap(m, s, a))
         /\ \A q \in Stores, c \in Addrs :
              \/ Scrap(m, s, a)[q][c] = m[q][c]
              \/ q = s /\ \E b \in taken[s] : b.base = a /\ b.base <= c /\ c < b.base + b.len
<1> DEFINE gone == UNION {Extent(b) : b \in {c \in taken[s] : c.base = a}}
<1>1. \A c \in gone : \E b \in taken[s] : b.base = a /\ c \in Extent(b)
  OBVIOUS
<1>2. \A b \in taken[s] : b.base \in Nat /\ b.len \in Nat
  BY DEF BlocksFit, Addrs
<1>3. \A c \in gone : \E b \in taken[s] : b.base = a /\ b.base <= c /\ c < b.base + b.len
  BY <1>1, <1>2 DEF Extent
<1>4. Scrap(m, s, a) = [m EXCEPT ![s] = [c \in Addrs |-> IF c \in gone THEN Junk ELSE @[c]]]
  BY DEF Scrap
<1> HIDE DEF gone
<1>5. DOMAIN m = Stores /\ \A q \in Stores : m[q] = [c \in Addrs |-> m[q][c]]
  BY DEF IsMemory
<1>6. DOMAIN Scrap(m, s, a) = Stores /\ \A q \in Stores \ {s} : Scrap(m, s, a)[q] = m[q]
  BY <1>4, <1>5
<1>7. Scrap(m, s, a)[s] = [c \in Addrs |-> IF c \in gone THEN Junk ELSE m[s][c]]
  BY <1>4, <1>5
<1>8. IsMemory(Scrap(m, s, a))
  <2>1. Scrap(m, s, a) = [q \in Stores |-> Scrap(m, s, a)[q]]
    BY <1>4, <1>6
  <2>2. \A q \in Stores : Scrap(m, s, a)[q] = [c \in Addrs |-> Scrap(m, s, a)[q][c]]
    BY <1>5, <1>6, <1>7
  <2> QED
    BY <2>1, <2>2 DEF IsMemory
<1> QED
  BY <1>3, <1>6, <1>7, <1>8

(* The last page of a whole number of pages. *)
LEMMA WholePages ==
  ASSUME NEW n \in Nat \ {0}, NEW page \in Nat \ {0}, n % page = 0
  PROVE  LastPage(n, page) = n - page /\ n - page \in Nat
<1> DEFINE q == n \div page
<1>1. q \in Int /\ n = page * q
  OBVIOUS
<1>2. q > 0
  BY <1>1
<1>3. n - 1 = page * (q - 1) + (page - 1)
  BY <1>1
<1>4. (n - 1) \div page = q - 1
  <2> HIDE DEF q
  <2>1. q - 1 \in Int /\ n - 1 \in Int
    BY <1>1
  <2> QED
    BY <1>1, <1>3, <2>1
<1> HIDE DEF q
<1> QED
  BY <1>1, <1>2, <1>3, <1>4 DEF LastPage

(* A buffer's domain starts at zero. *)
IsBuffer(f) == IsFiniteSet(DOMAIN f) /\ DOMAIN f = 0 .. Cardinality(DOMAIN f) - 1

LEMMA BufferMade ==
  ASSUME NEW t \in Threads, NEW k \in Lstores, IsBuffer(buf[t])
  PROVE  IsBuffer(DirectBuffer(t, k)) /\ DOMAIN buf[t] \subseteq DOMAIN DirectBuffer(t, k)
<1>1. CASE buf[t] = <<>>
  <2>1. PageSize[k] \in Nat \ {0}
    BY LinkConstantsOK
  <2>2. DOMAIN DirectBuffer(t, k) = 0 .. PageSize[k] - 1
    BY <1>1 DEF DirectBuffer, Same
  <2>3. IsFiniteSet(0 .. PageSize[k] - 1) /\ Cardinality(0 .. PageSize[k] - 1) = PageSize[k]
    <3>1. PageSize[k] - 1 \in Int /\ 0 \in Int /\ ~(0 > PageSize[k] - 1)
      BY <2>1
    <3>2. /\ IsFiniteSet(0 .. PageSize[k] - 1)
          /\ Cardinality(0 .. PageSize[k] - 1) = PageSize[k] - 1 - 0 + 1
      BY <3>1, FS_Interval
    <3> QED
      BY <2>1, <3>2
  <2>4. DOMAIN buf[t] = {}
    BY <1>1
  <2> QED
    BY <2>2, <2>3, <2>4 DEF IsBuffer
<1>2. CASE buf[t] # <<>>
  BY <1>2 DEF DirectBuffer
<1> QED
  BY <1>1, <1>2

AreBuffers(b) == b = [u \in Threads |-> b[u]]

(* n cells, numbered from zero. *)
IsCells(new, n) == new = [i \in 0 .. n - 1 |-> new[i]]

(* What a fill makes of the memory m and of the buffers. *)
Filled(t, p, f, m, new) ==
    /\ f.why = "no" => f.mem = Put(m, StoreOf(p), p.addr, new)
    /\ f.why # "no" => f.mem = m
    /\ AreBuffers(f.buf)
    /\ \A u \in Threads \ {t} : f.buf[u] = buf[u]
    /\ IsBuffer(f.buf[t])

(* A fill that promises anything writes the cells to the pointer's store,  *)
(* and touches no buffer but the calling thread's.                         *)
LEMMA FillCells ==
  ASSUME NEW m, NEW t \in Threads, NEW p, p.tag \in KnownTags,
         NEW n \in Nat \ {0}, NEW new, IsCells(new, n),
         AreBuffers(buf), IsBuffer(buf[t]),
         NEW f, f = Fill(m, t, p, n, new), f.bad = {}
  PROVE  Filled(t, p, f, m, new)
<1> USE DEF Filled
<1> DEFINE k == Dispatch(p)
<1> DEFINE Flat(s) == [mem |-> Put(m, s, p.addr, new), buf |-> buf,
                       why |-> "no", bad |-> {}]
<1> DEFINE Stopped(r) == [mem |-> m, buf |-> buf, why |-> r, bad |-> {}]
<1>1. CASE ~IsCarmorPtr(p)
  <2>1. StoreOf(p) = Native
    BY <1>1 DEF StoreOf
  <2>2. f = Stopped("fault") \/ f = Flat(Native)
    BY <1>1 DEF Fill
  <2>3. CASE f = Stopped("fault")
    BY <2>3
  <2>4. CASE f = Flat(Native)
    BY <2>1, <2>4
  <2> QED
    BY <2>2, <2>3, <2>4
<1>2. CASE IsCarmorPtr(p)
  <2>1. StoreOf(p) = k /\ k \in Lstores
    BY <1>2, DispatchOfMask DEF StoreOf, KnownTags, IsCarmorPtr
  <2>2. CASE k = 3
    <3>1. f = Stopped("lstore3")
      BY <1>2, <2>2 DEF Fill
    <3> QED
      BY <3>1
  <2>3. CASE k # 3 /\ k \notin Direct
    <3>1. f = Flat(k)
      BY <1>2, <2>3 DEF Fill
    <3> QED
      BY <2>1, <3>1
  <2>4. CASE k # 3 /\ k \in Direct
    <3> DEFINE page == PageSize[k]
               old == DirectBuffer(t, k)
               last == LastPage(n, page)
               held == [x \in DOMAIN old |->
                          IF last + x < n THEN new[last + x]
                          ELSE IF last > 0 /\ x < page THEN new[last - page + x]
                          ELSE old[x]]
               written == [x \in 0 .. last + page - 1 |->
                             IF x < last THEN new[x] ELSE Held(held, x - last)]
    <3>1. f = FillDirect(m, t, p, n, new)
      BY <1>2, <2>4 DEF Fill
    <3> DEFINE kept == [buf EXCEPT ![t] = held]
               spoilt == (IF n % page = 0 THEN {} ELSE {"partial_page"}) \cup TooSmall(old, page)
    <3>10. f = [mem |-> Put(m, k, p.addr, written), buf |-> kept, why |-> "no", bad |-> spoilt]
      BY <3>1 DEF FillDirect
    <3> HIDE DEF kept, spoilt, written
    <3>11. f.mem = Put(m, k, p.addr, written) /\ f.buf = kept /\ f.why = "no" /\ f.bad = spoilt
      BY <3>10
    <3> USE DEF kept, spoilt, written
    <3>2. /\ f.mem = Put(m, k, p.addr, written) /\ f.buf = [buf EXCEPT ![t] = held]
          /\ f.why = "no"
          /\ f.bad = (IF n % page = 0 THEN {} ELSE {"partial_page"}) \cup TooSmall(old, page)
      BY <3>11, Zenon
    <3>3. n % page = 0 /\ ~(page > Cardinality(DOMAIN old))
      BY <3>2 DEF TooSmall
    <3>4. page \in Nat \ {0}
      BY <2>1, LinkConstantsOK
    <3>5. IsBuffer(old) /\ DOMAIN buf[t] \subseteq DOMAIN old
      BY <2>1, BufferMade
    <3>6. last = n - page /\ n - page \in Nat
      BY <3>3, <3>4, WholePages
    <3> HIDE DEF page, old, last
    <3>7. DOMAIN held = DOMAIN old
      OBVIOUS
    <3>8. \A x \in 0 .. page - 1 : x \in DOMAIN old
      <4>1. Cardinality(DOMAIN old) \in Nat
        BY <3>5, FS_CardinalityType DEF IsBuffer
      <4> QED
        BY <3>3, <3>4, <3>5, <4>1 DEF IsBuffer
    <3>9. written = new
      <4>1. DOMAIN written = 0 .. n - 1
        BY <3>4, <3>6
      <4>2. ASSUME NEW x \in 0 .. n - 1
            PROVE  written[x] = new[x]
        <5>1. CASE x < last
          BY <4>1, <5>1
        <5>2. CASE x >= last
          <6>1. x - last \in 0 .. page - 1 /\ last + (x - last) = x
            BY <3>4, <3>6, <5>2
          <6>2. Held(held, x - last) = new[x]
            BY <3>7, <3>8, <6>1 DEF Held
          <6> QED
            BY <3>6, <4>1, <5>2, <6>2
        <5> QED
          BY <3>6, <5>1, <5>2
      <4> HIDE DEF written
      <4>3. written = [x \in DOMAIN written |-> written[x]]
        BY DEF written
      <4> QED
        BY <4>1, <4>2, <4>3 DEF IsCells
    <3> HIDE DEF held, written
    <3> QED
      BY <2>1, <3>2, <3>5, <3>7, <3>9 DEF IsBuffer, AreBuffers
  <2> QED
    BY <2>2, <2>3, <2>4
<1> QED
  BY <1>1, <1>2

---------------------------------------------------------------------------
(* What a step does outside the blocks of one variable. *)

(* The step leaves the blocks that v does not own as they are. *)
OtherBlocksKept(v) ==
    \A s \in Stores : \A b \in taken[s] : ~Owns(v, s, b) =>
        \A c \in Addrs : b.base <= c /\ c < b.base + b.len => mem'[s][c] = mem[s][c]

(* The cells of an object are cells of its store, in a block of its own.   *)
LEMMA ObjectBlock ==
  ASSUME TagsInv, Shapes, BlocksInv, NEW u \in Vars, size[u] > 0
  PROVE  /\ StoreOf(ptr[u]) \in Stores
         /\ ptr[u].addr \in Nat \ {0} /\ size[u] \in Nat \ {0}
         /\ ptr[u].addr + size[u] - 1 <= HeapTop
         /\ \E b \in taken[StoreOf(ptr[u])] :
               /\ Owns(u, StoreOf(ptr[u]), b)
               /\ \A c \in Int : ptr[u].addr <= c /\ c < ptr[u].addr + size[u] =>
                    c \in Addrs /\ b.base <= c /\ c < b.base + b.len
<1>1. StoreOf(ptr[u]) \in Stores
  BY KnownTagStore DEF TagsInv
<1>2. PICK q \in Stores : \E b \in taken[q] : Owns(u, q, b)
  BY DEF BlocksInv, HasBlock
<1>3. q = StoreOf(ptr[u])
  BY <1>2 DEF Owns
<1>4. PICK b \in taken[StoreOf(ptr[u])] : Owns(u, StoreOf(ptr[u]), b)
  BY <1>2, <1>3
<1>5. b.base \in 1 .. HeapTop /\ b.len \in Nat /\ b.base + b.len - 1 <= HeapTop
  BY <1>1 DEF BlocksInv, BlocksFit, Addrs
<1>6. b.base <= ptr[u].addr /\ ptr[u].addr + size[u] <= b.base + b.len
  BY <1>4 DEF Owns
<1>7. ptr[u].addr \in Nat /\ size[u] \in Nat /\ HeapTop \in Nat
  BY LinkConstantsOK DEF Shapes
<1>8. \A c \in Int : ptr[u].addr <= c /\ c < ptr[u].addr + size[u] =>
        c \in Addrs /\ b.base <= c /\ c < b.base + b.len
  BY <1>5, <1>6, <1>7 DEF Addrs
<1>9. ptr[u].addr \in Nat \ {0} /\ ptr[u].addr + size[u] - 1 <= HeapTop
  BY <1>5, <1>6, <1>7
<1> QED
  BY <1>1, <1>4, <1>7, <1>8, <1>9

(* The objects of the other variables keep their cells. *)
LEMMA OtherCells ==
  ASSUME TagsInv, Shapes, BlocksInv, NEW v \in Vars, OtherBlocksKept(v),
         NEW u \in Vars \ {v}, NEW c \in Int,
         ptr[u].addr <= c, c < ptr[u].addr + size[u]
  PROVE  /\ c \in Addrs /\ StoreOf(ptr[u]) \in Stores
         /\ mem'[StoreOf(ptr[u])][c] = mem[StoreOf(ptr[u])][c]
<1>1. size[u] > 0
  BY DEF Shapes
<1>2. StoreOf(ptr[u]) \in Stores
  BY <1>1, ObjectBlock
<1>3. PICK b \in taken[StoreOf(ptr[u])] :
         /\ Owns(u, StoreOf(ptr[u]), b)
         /\ c \in Addrs /\ b.base <= c /\ c < b.base + b.len
  BY <1>1, ObjectBlock
<1>4. ~Owns(v, StoreOf(ptr[u]), b)
  BY <1>2, <1>3 DEF BlocksInv, OneOwner
<1> QED
  BY <1>2, <1>3, <1>4 DEF OtherBlocksKept

LEMMA OtherObjects ==
  ASSUME TagsInv, Shapes, BlocksInv, NEW v \in Vars, OthersKeep(v), OtherBlocksKept(v),
         NEW u \in Vars \ {v}
  PROVE  ObjOf(u)' = ObjOf(u)
<1> DEFINE Cell(i, m) == IF ptr[u].addr + i - 1 \in Addrs
                           THEN m[StoreOf(ptr[u])][ptr[u].addr + i - 1] ELSE Junk
<1>1. ptr'[u] = ptr[u] /\ size'[u] = size[u]
  BY DEF OthersKeep
<1>2. ptr[u].addr \in Nat /\ size[u] \in Nat
  BY DEF Shapes
<1>3. ASSUME NEW i \in 1 .. size[u]
      PROVE  Cell(i, mem') = Cell(i, mem)
  <2>1. /\ ptr[u].addr + i - 1 \in Int /\ ptr[u].addr <= ptr[u].addr + i - 1
        /\ ptr[u].addr + i - 1 < ptr[u].addr + size[u]
    BY <1>2
  <2> QED
    BY <2>1, OtherCells
<1>4. ObjOf(u) = [i \in 1 .. size[u] |-> Cell(i, mem)]
  BY DEF ObjOf
<1>5. ObjOf(u)' = [i \in 1 .. size[u] |-> Cell(i, mem')]
  BY <1>1 DEF ObjOf
<1> HIDE DEF Cell
<1> QED
  BY <1>3, <1>4, <1>5

(* Where an access in progress is. *)
LEMMA AccessPlace ==
  ASSUME Shapes, AccessesInside, NEW t \in Threads, acc[t] # Idle
  PROVE  /\ acc[t].v \in Vars /\ acc[t].n \in Nat \ {0} /\ acc[t].i \in Nat \ {0}
         /\ acc[t].i + acc[t].n - 1 <= size[acc[t].v] /\ size[acc[t].v] > 0
         /\ acc[t].p = [ptr[acc[t].v] EXCEPT !.addr = @ + acc[t].i - 1]
         /\ acc[t].p.tag = ptr[acc[t].v].tag
         /\ acc[t].p.addr = ptr[acc[t].v].addr + acc[t].i - 1
         /\ StoreOf(acc[t].p) = StoreOf(ptr[acc[t].v])
<1>1. /\ acc[t] = [AccessOf(acc[t].v, acc[t].i, acc[t].n, "load", acc[t].x)
                     EXCEPT !.stage = acc[t].stage]
      /\ acc[t].v \in Vars /\ acc[t].n \in Nat \ {0}
      /\ acc[t].i \in 1 .. size[acc[t].v] - acc[t].n + 1
  BY DEF AccessesInside
<1>2. acc[t].p = [ptr[acc[t].v] EXCEPT !.addr = @ + acc[t].i - 1]
  BY <1>1 DEF AccessOf
<1>3. ptr[acc[t].v] = [tag |-> ptr[acc[t].v].tag, addr |-> ptr[acc[t].v].addr]
  BY <1>1 DEF Shapes, Pointer
<1>4. /\ acc[t].p.tag = ptr[acc[t].v].tag
      /\ acc[t].p.addr = ptr[acc[t].v].addr + acc[t].i - 1
  BY <1>2, <1>3
<1>5. StoreOf(acc[t].p) = StoreOf(ptr[acc[t].v])
  BY <1>4 DEF StoreOf, IsCarmorPtr, Dispatch, TopByte
<1>6. size[acc[t].v] \in Nat
  BY <1>1 DEF Shapes
<1> QED
  BY <1>1, <1>2, <1>4, <1>5, <1>6

(* The bytes an access linked stay the storage's, when a step leaves the   *)
(* access, its buffer, its pointer and its cells alone.                    *)
BytesCurrent(u, m) ==
    \A i \in 0 .. acc[u].n - 1 :
        buf[u][i] = Cells(m, StoreOf(acc[u].p), acc[u].p.addr, acc[u].n)[i]

LEMMA BytesKept ==
  ASSUME TagsInv, Shapes, BlocksInv, AccessesInside,
         NEW u \in Threads, acc[u] # Idle, BytesCurrent(u, mem),
         \A i \in 0 .. acc[u].n - 1 :
            mem'[StoreOf(acc[u].p)][acc[u].p.addr + i] = mem[StoreOf(acc[u].p)][acc[u].p.addr + i]
  PROVE  BytesCurrent(u, mem')
BY DEF BytesCurrent, Cells

LEMMA OtherAccess ==
  ASSUME TagsInv, Shapes, BlocksInv, AccessesInside,
         NEW v \in Vars, OtherBlocksKept(v),
         NEW u \in Threads, acc[u] # Idle, acc[u].v # v, BytesCurrent(u, mem)
  PROVE  BytesCurrent(u, mem')
<1>1. ASSUME NEW i \in 0 .. acc[u].n - 1
      PROVE  mem'[StoreOf(acc[u].p)][acc[u].p.addr + i] = mem[StoreOf(acc[u].p)][acc[u].p.addr + i]
  <2> DEFINE w == acc[u].v
             c == acc[u].p.addr + i
  <2>1. /\ w \in Vars \ {v} /\ acc[u].n \in Nat \ {0} /\ acc[u].i \in Nat \ {0}
        /\ acc[u].i + acc[u].n - 1 <= size[w]
        /\ acc[u].p.addr = ptr[w].addr + acc[u].i - 1
        /\ StoreOf(acc[u].p) = StoreOf(ptr[w])
    BY AccessPlace
  <2>2. ptr[w].addr \in Nat /\ size[w] \in Nat
    BY <2>1 DEF Shapes
  <2>3. c \in Int /\ ptr[w].addr <= c /\ c < ptr[w].addr + size[w]
    BY <2>1, <2>2
  <2> HIDE DEF w, c
  <2>4. mem'[StoreOf(ptr[w])][c] = mem[StoreOf(ptr[w])][c]
    BY <2>1, <2>3, OtherCells
  <2> QED
    BY <2>1, <2>4 DEF c
<1> QED
  BY <1>1, BytesKept

(* A heap call on v by the thread t leaves every access in progress as it  *)
(* is: none of them is in the object of v.                                 *)
CallOf(t, v) ==
    /\ OthersKeep(v) /\ OtherBlocksKept(v) /\ acc' = acc
    /\ \A u \in Threads \ {t} : buf'[u] = buf[u]

LEMMA CallKeepsAccesses ==
  ASSUME TagsInv, Shapes, BlocksInv, AccessInv, Running,
         NEW t \in Threads, acc[t] = Idle, NEW v \in Vars,
         NotAccessed(v) \/ size[v] = 0, CallOf(t, v)
  PROVE  AccessInv'
<1>1. ASSUME NEW u \in Threads, acc[u] # Idle
      PROVE  /\ u # t /\ acc[u].v # v /\ acc[u].v \in Vars
             /\ buf'[u] = buf[u] /\ acc'[u] = acc[u]
             /\ ptr'[acc[u].v] = ptr[acc[u].v] /\ size'[acc[u].v] = size[acc[u].v]
  <2>1. acc[u].v \in Vars /\ size[acc[u].v] > 0
    BY <1>1, AccessPlace DEF AccessInv
  <2>2. u # t /\ acc[u].v # v
    BY <1>1, <2>1 DEF NotAccessed
  <2> QED
    BY <2>1, <2>2 DEF CallOf, OthersKeep
<1>2. acc' = acc
  BY DEF CallOf
<1>3. AccessesInside'
  BY <1>1, <1>2 DEF AccessInv, AccessesInside, AccessOf
<1>4. NoRaces'
  BY <1>2 DEF AccessInv, NoRaces
<1>5. StoredBytes'
  BY <1>1, <1>2 DEF AccessInv, StoredBytes
<1>6. LinkedBytesCurrent'
  <2> SUFFICES ASSUME NEW u \in Threads, acc[u] # Idle, acc[u].stage # "stored"
               PROVE  \A i \in 0 .. acc[u].n - 1 :
                        buf'[u][i] = Cells(mem', StoreOf(acc[u].p), acc[u].p.addr, acc[u].n)[i]
    BY <1>2 DEF LinkedBytesCurrent
  <2>1. BytesCurrent(u, mem)
    BY DEF AccessInv, LinkedBytesCurrent, BytesCurrent
  <2>2. BytesCurrent(u, mem')
    BY <1>1, <2>1, OtherAccess DEF AccessInv, CallOf
  <2> QED
    BY <1>1, <2>2 DEF BytesCurrent
<1> QED
  BY <1>3, <1>4, <1>5, <1>6 DEF AccessInv

---------------------------------------------------------------------------
(* The calls that make an object. *)

(* The step changes no cell but those of a new block. *)
OnlyNew(s, a, n) ==
    \A q \in Stores, c \in Addrs :
        (q # s \/ c < a \/ a + n <= c) => mem'[q][c] = mem[q][c]

LEMMA NewBlockKeeps ==
  ASSUME BlocksFit, NEW s \in Stores, NEW n \in Nat \ {0},
         NEW a \in Addresses(taken, s, n), a # 0, OnlyNew(s, a, n)
  PROVE  \A v : OtherBlocksKept(v)
<1> SUFFICES ASSUME NEW v, NEW q \in Stores, NEW b \in taken[q], NEW c \in Addrs,
                    b.base <= c, c < b.base + b.len
             PROVE  mem'[q][c] = mem[q][c]
  BY DEF OtherBlocksKept
<1>1. CASE q # s
  BY <1>1 DEF OnlyNew
<1>2. CASE q = s
  <2>1. a \in Addrs /\ (b.base + b.len <= a \/ a + n <= b.base)
    BY <1>2, AllocatedFits
  <2>2. a \in Nat /\ c \in Nat /\ b.base \in Nat /\ b.len \in Nat
    BY <2>1 DEF BlocksFit, Addrs
  <2>3. c < a \/ a + n <= c
    BY <2>1, <2>2
  <2> QED
    BY <2>3 DEF OnlyNew
<1> QED
  BY <1>1, <1>2

LEMMA OwnShapes ==
  ASSUME TagsInv, Shapes, NEW v \in Vars, NEW p, NEW n \in Nat, Own(v, p, n),
         p = Pointer(p.tag, p.addr), p.addr \in Nat
  PROVE  /\ size' \in [Vars -> Nat]
         /\ \A u \in Vars : ptr'[u] = Pointer(ptr'[u].tag, ptr'[u].addr) /\ ptr'[u].addr \in Nat
BY DEF Own, Shapes, TagsInv

(* The parts of a call's step that have nothing to do with its block.      *)
StillShaped(t) ==
    /\ IsMemory(mem') /\ acc' = acc
    /\ AreBuffers(buf') /\ IsBuffer(buf'[t])
    /\ \A u \in Threads \ {t} : buf'[u] = buf[u]

LEMMA ShapesKept ==
  ASSUME TagsInv, Shapes, NEW t \in Threads, StillShaped(t),
         taken' = [s \in Stores |-> taken'[s]],
         NEW v \in Vars, NEW p, NEW n \in Nat, Own(v, p, n),
         p = Pointer(p.tag, p.addr), p.addr \in Nat
  PROVE  Shapes'
<1>1. /\ size' \in [Vars -> Nat]
      /\ \A u \in Vars : ptr'[u] = Pointer(ptr'[u].tag, ptr'[u].addr) /\ ptr'[u].addr \in Nat
  BY OwnShapes
<1>2. \A u \in Threads : IsBuffer(buf'[u])
  BY DEF StillShaped, Shapes, IsBuffer
<1>3. acc' = [u \in Threads |-> acc'[u]]
  BY DEF StillShaped, Shapes
<1> QED
  BY <1>1, <1>2, <1>3 DEF Shapes, StillShaped, IsMemory, IsBuffer, AreBuffers

LEMMA GivenCall ==
  ASSUME TagsInv, Shapes, BlocksInv, NEW t \in Threads, StillShaped(t),
         NEW v \in Vars, size[v] = 0, NEW s \in Stores,
         NEW n \in Nat \ {0}, NEW a \in Addresses(taken, s, n), a # 0,
         taken' = Take(taken, s, a, n), OnlyNew(s, a, n),
         NEW p, p = Pointer(p.tag, p.addr), p # Null, StoreOf(p) = s, p.addr \in Nat,
         NEW m \in Nat \ {0}, a <= p.addr, p.addr + m <= a + n,
         s = Native => p.addr = a,
         Own(v, p, m)
  PROVE  CallOf(t, v) /\ Shapes' /\ BlocksInv'
<1>1. BlocksInv'
  BY GivenBlock
<1>2. taken' = [q \in Stores |-> taken'[q]]
  BY DEF Take, Shapes
<1>3. Shapes'
  BY <1>2, ShapesKept
<1>4. OtherBlocksKept(v)
  BY NewBlockKeeps DEF BlocksInv
<1>5. OthersKeep(v)
  BY OwnEffect DEF OthersKeep
<1> QED
  BY <1>1, <1>3, <1>4, <1>5 DEF CallOf, StillShaped

(* A call that gives nothing: every object stays. *)
LEMMA NothingGiven ==
  ASSUME TagsInv, Shapes, BlocksInv, NEW t \in Threads, NEW v \in Vars, Unused(v), NEW n,
         UNCHANGED <<mem, buf, acc, taken>>, Own(v, Null, n)
  PROVE  CallOf(t, v) /\ Shapes' /\ BlocksInv' /\ UNCHANGED <<ptr, size>>
<1>1. size[v] = 0 /\ ptr[v] = Null
  BY DEF Unused, BlocksInv, NullIsEmpty
<1>2. UNCHANGED <<ptr, size>>
  BY <1>1 DEF Own, TagsInv, Shapes
<1>3. Shapes'
  BY <1>2 DEF Shapes
<1>4. BlocksInv'
  <2> USE <1>2 DEF BlocksInv
  <2>1. BlocksFit' /\ BlocksApart'
    BY DEF BlocksFit, BlocksApart
  <2>2. HasBlock' /\ HasOwner' /\ OneOwner'
    BY DEF HasBlock, HasOwner, OneOwner, Owns
  <2>3. NativeAtBase' /\ NullIsEmpty'
    BY DEF NativeAtBase, NullIsEmpty
  <2> QED
    BY <2>1, <2>2, <2>3
<1>5. CallOf(t, v)
  BY <1>2 DEF CallOf, OthersKeep, OtherBlocksKept
<1> QED
  BY <1>2, <1>3, <1>4, <1>5

(* A call that makes an object leaves the other objects alone. *)
LEMMA ObjectsKept ==
  ASSUME TagsInv, Shapes, BlocksInv, NEW t \in Threads, NEW v \in Vars, CallOf(t, v)
  PROVE  C!OthersKept(v)
BY OtherObjects DEF C!OthersKept, CallOf

LEMMA ObjectMade ==
  ASSUME TagsInv, Shapes, BlocksInv, NEW t \in Threads, NEW v \in Vars, CallOf(t, v),
         size[v] = 0, size'[v] \in Nat
  PROVE  C!New(v, size'[v])
<1>1. ObjOf(v) = <<>>
  BY EmptyObject
<1>2. Len(ObjOf(v)') = size'[v]
  BY DEF ObjOf
<1> QED
  BY <1>1, <1>2, ObjectsKept DEF C!New

(* A failing call leaves all the objects alone. *)
LEMMA CallFails ==
  ASSUME TagsInv, Shapes, BlocksInv, NEW t \in Threads, NEW v \in Vars, CallOf(t, v),
         size[v] = 0, UNCHANGED <<ptr, size>>, op' = <<"fail">>
  PROVE  C!Next
<1>1. ASSUME NEW u \in Vars
      PROVE  ObjOf(u)' = ObjOf(u)
  <2>1. CASE u = v
    BY <2>1, EmptyObject DEF ObjOf
  <2>2. CASE u # v
    BY <2>2, OtherObjects DEF CallOf
  <2> QED
    BY <2>1, <2>2
<1>2. [u \in Vars |-> ObjOf(u)]' = [u \in Vars |-> ObjOf(u)]
  BY <1>1
<1> QED
  BY <1>2 DEF C!Next, C!Fail

LEMMA MallocedBlock ==
  ASSUME Shapes, NEW k \in Lstores, NEW n \in Nat \ {0}, NEW a \in Addresses(taken, Owner(k, n), n),
         NEW r, r = Malloced(k, n, a), r.bad = {}
  PROVE  /\ Owner(k, n) \in Stores /\ r.p.tag \in KnownTags
         /\ r.p = Pointer(r.p.tag, r.p.addr) /\ r.p.addr = a
         /\ a = 0 => r.p = Null /\ r.mem = mem /\ r.taken = taken
         /\ a # 0 => /\ r.p # Null /\ StoreOf(r.p) = Owner(k, n)
                     /\ r.taken = Take(taken, Owner(k, n), a, n)
                     /\ r.mem = Fresh(mem, Owner(k, n), a, n)
<1> DEFINE s == Owner(k, n)
<1>1. s \in {Native, k} /\ s \in Stores
  BY DEF Owner, Stores
<1>2. r.p.tag \in KnownTags
  BY MallocedKnown
<1>3. /\ r.mem = Fresh(mem, s, a, n) /\ r.taken = Take(taken, s, a, n)
      /\ r.p = IF s = Native THEN Pointer({}, a) ELSE Tagged(k, a)
      /\ r.bad = IF s # Native /\ a = 0 THEN {"unchecked_alloc"} ELSE {}
  BY DEF Malloced
<1> HIDE DEF s
<1>4. r.p.addr = a /\ r.p = Pointer(r.p.tag, r.p.addr)
  BY <1>3 DEF Tagged, MakeLstorePtr, Pointer
<1>5. CASE a = 0
  <2>1. s = Native
    BY <1>3, <1>5
  <2>2. r.taken = taken
    BY <1>3, <1>5 DEF Take, Shapes
  <2> QED
    BY <1>1, <1>2, <1>3, <1>4, <1>5, <2>1, <2>2 DEF Fresh, Null, s
<1>6. CASE a # 0
  <2>1. StoreOf(r.p) = s
    <3>1. CASE s = Native
      BY <1>3, <3>1 DEF StoreOf, IsCarmorPtr, Pointer
    <3>2. CASE s # Native
      BY <1>1, <1>3, <3>2, TaggedStore
    <3> QED
      BY <3>1, <3>2
  <2>2. r.p # Null
    BY <1>4, <1>6 DEF Null, Pointer
  <2> QED
    BY <1>1, <1>2, <1>3, <1>4, <1>6, <2>1, <2>2 DEF s
<1> QED
  BY <1>5, <1>6

LEMMA AboutCall ==
  ASSUME NEW what, NEW v, NEW result, op' = <<what, v, result>>
  PROVE  C!About(v)
<1>1. Len(op') = 3 /\ op'[2] = v
  OBVIOUS
<1> QED
  BY <1>1 DEF C!About

(* What a heap call on v does, when nothing goes wrong. *)
CallStep(t, v) ==
    /\ C!Next /\ CallOf(t, v)
    /\ Running' => Shapes' /\ BlocksInv'

LEMMA MallocStep ==
  ASSUME TagsInv, Shapes, BlocksInv, NEW t \in Threads, NEW k \in Lstores, NEW v \in Vars,
         NEW n \in Nat \ {0}, Malloc(t, k, v, n), bad' = {}
  PROVE  CallStep(t, v)
<1>1. PICK a \in Addresses(taken, Owner(k, n), n) :
         /\ mem' = Malloced(k, n, a).mem /\ taken' = Malloced(k, n, a).taken
         /\ bad' = Malloced(k, n, a).bad /\ Own(v, Malloced(k, n, a).p, n)
         /\ Returned(Malloced(k, n, a).p, "no", <<"malloc", v, n>>)
  BY DEF Malloc
<1> DEFINE r == Malloced(k, n, a)
<1> DEFINE s == Owner(k, n)
<1>2. /\ s \in Stores /\ r.p = Pointer(r.p.tag, r.p.addr) /\ r.p.addr = a
      /\ a = 0 => r.p = Null /\ r.mem = mem /\ r.taken = taken
      /\ a # 0 => /\ r.p # Null /\ StoreOf(r.p) = s
                  /\ r.taken = Take(taken, s, a, n) /\ r.mem = Fresh(mem, s, a, n)
  BY <1>1, MallocedBlock
<1> HIDE DEF r, s
<1>3. Unused(v) /\ UNCHANGED <<buf, acc, why>> /\ size[v] = 0
  BY DEF Malloc, Unused, BlocksInv, NullIsEmpty
<1>4. CASE a = 0
  <2>1. Own(v, Null, n) /\ UNCHANGED <<mem, buf, acc, taken>>
    BY <1>1, <1>2, <1>3, <1>4 DEF r
  <2>2. CallOf(t, v) /\ Shapes' /\ BlocksInv' /\ UNCHANGED <<ptr, size>>
    BY <1>3, <2>1, NothingGiven
  <2>3. op' = <<"fail">>
    BY <1>1, <1>2, <1>4 DEF Returned, r
  <2> QED
    BY <1>3, <2>2, <2>3, CallFails DEF CallStep
<1>5. CASE a # 0
  <2>1. a \in Addrs /\ a \in Nat /\ HeapTop \in Nat /\ a + n - 1 <= HeapTop
    BY <1>1, <1>2, <1>5, AllocatedFits, LinkConstantsOK DEF BlocksInv, Addrs, s
  <2>2. IsMemory(mem') /\ OnlyNew(s, a, n)
    <3>1. IsMemory(mem) /\ s \in Stores /\ n \in Nat /\ a \in Nat
      BY <1>2, <2>1 DEF Shapes, IsMemory
    <3>2. IsMemory(Fresh(mem, s, a, n)) /\ SameBut(Fresh(mem, s, a, n), mem, s, a, n)
      BY ONLY <3>1, FreshSame
    <3>3. mem' = Fresh(mem, s, a, n)
      BY <1>1, <1>2, <1>5 DEF r
    <3> QED
      BY ONLY <3>2, <3>3 DEF OnlyNew, SameBut
  <2>3. StillShaped(t)
    BY <1>3, <2>2 DEF StillShaped, Shapes, IsBuffer, AreBuffers
  <2>4. CallOf(t, v) /\ Shapes' /\ BlocksInv'
    BY <1>1, <1>2, <1>3, <1>5, <2>1, <2>2, <2>3, GivenCall DEF r, s
  <2>5. size'[v] = n
    BY <1>1, <1>2, <1>5, OwnEffect DEF r
  <2>6. C!New(v, n)
    BY <1>3, <2>4, <2>5, ObjectMade
  <2>7. op' = <<"malloc", v, n>>
    BY <1>1, <1>2, <1>5 DEF Returned, r
  <2>8. C!About(v) /\ C!Malloc(v, n)
    BY <2>6, <2>7, AboutCall DEF C!Malloc
  <2>9. n \in 1 .. HeapTop
    BY <1>5, <2>1
  <2> QED
    BY <2>4, <2>8, <2>9 DEF CallStep, C!Next
<1> QED
  BY <1>4, <1>5

(* A new block that is filled: memset after calloc's malloc, and memcpy    *)
(* into the new home of a global.                                          *)
HasCells(s, a, n, new) == \A i \in 0 .. n - 1 : a + i \in Addrs /\ mem'[s][a + i] = new[i]

LEMMA FilledBlock ==
  ASSUME Shapes, BlocksInv, NEW t \in Threads, NEW s \in Stores, NEW n \in Nat \ {0},
         NEW a \in Addresses(taken, s, n), a # 0,
         NEW p, p.tag \in KnownTags, StoreOf(p) = s, p.addr = a,
         NEW new, IsCells(new, n),
         NEW f, f = Fill(Fresh(mem, s, a, n), t, p, n, new), f.bad = {},
         mem' = f.mem, buf' = f.buf, acc' = acc
  PROVE  /\ StillShaped(t) /\ OnlyNew(s, a, n)
         /\ f.why = "no" => HasCells(s, a, n, new)
<1> DEFINE m == Fresh(mem, s, a, n)
<1>0. f = Fill(m, t, p, n, new)
  OBVIOUS
<1>1. IsMemory(mem) /\ AreBuffers(buf) /\ \A u \in Threads : IsBuffer(buf[u])
  BY DEF Shapes, IsMemory, IsBuffer, AreBuffers
<1> HIDE DEF m
<1>2. /\ f.why = "no" => f.mem = Put(m, s, a, new)
      /\ f.why # "no" => f.mem = m
      /\ AreBuffers(f.buf)
      /\ \A u \in Threads \ {t} : f.buf[u] = buf[u]
      /\ IsBuffer(f.buf[t])
  <2>1. Filled(t, p, f, m, new)
    BY <1>0, <1>1, FillCells
  <2> QED
    BY <2>1 DEF Filled
<1>3. a \in Addrs /\ a \in Nat /\ a + n - 1 <= HeapTop
  BY AllocatedFits DEF BlocksInv, Addrs
<1>4. /\ IsMemory(m)
      /\ \A q \in Stores, c \in Addrs :
           (q # s \/ c < a \/ a + n <= c) => m[q][c] = mem[q][c]
  <2>1. IsMemory(Fresh(mem, s, a, n)) /\ SameBut(Fresh(mem, s, a, n), mem, s, a, n)
    <3>1. IsMemory(mem) /\ s \in Stores /\ a \in Nat /\ n \in Nat
      BY <1>1, <1>3
    <3> QED
      BY ONLY <3>1, FreshSame
  <2>2. m = Fresh(mem, s, a, n)
    BY DEF m
  <2> QED
    BY ONLY <2>1, <2>2 DEF SameBut
<1>5. \A c \in Addrs : c \in Nat
  BY DEF Addrs
<1>6. CASE f.why = "no"
  <2>1. /\ IsMemory(mem')
        /\ \A q \in Stores, c \in Addrs :
             mem'[q][c] = IF q = s /\ c - a \in DOMAIN new THEN new[c - a] ELSE m[q][c]
    <3>1. mem' = Put(m, s, a, new)
      BY <1>2, <1>6
    <3> QED
      BY <1>4, <3>1, PutCells
  <2>2. DOMAIN new = 0 .. n - 1
    BY DEF IsCells
  <2>3. OnlyNew(s, a, n)
    BY <1>3, <1>4, <1>5, <2>1, <2>2 DEF OnlyNew
  <2>4. ASSUME NEW i \in 0 .. n - 1
        PROVE  a + i \in Addrs /\ mem'[s][a + i] = new[i]
    <3>1. a + i \in Addrs /\ (a + i) - a = i
      BY <1>3, LinkConstantsOK DEF Addrs
    <3> QED
      BY <2>1, <2>2, <3>1
  <2> QED
    BY <1>2, <2>1, <2>3, <2>4 DEF StillShaped, HasCells
<1>7. CASE f.why # "no"
  BY <1>2, <1>4, <1>7 DEF StillShaped, OnlyNew
<1> QED
  BY <1>6, <1>7

ObjectIs(v, n, new) == \A i \in 1 .. n : ObjOf(v)'[i] = new[i - 1]

LEMMA FilledObject ==
  ASSUME NEW v, NEW s, NEW a \in Nat, NEW n \in Nat, NEW new,
         HasCells(s, a, n, new),
         size'[v] = n, StoreOf(ptr'[v]) = s, ptr'[v].addr = a
  PROVE  ObjectIs(v, n, new)
<1>1. ASSUME NEW i \in 1 .. n
      PROVE  a + i - 1 \in Addrs /\ mem'[s][a + i - 1] = new[i - 1]
  <2>1. i - 1 \in 0 .. n - 1 /\ a + (i - 1) = a + i - 1
    OBVIOUS
  <2> QED
    BY <2>1 DEF HasCells
<1> QED
  BY <1>1 DEF ObjOf, ObjectIs

LEMMA Refused ==
  ASSUME TagsInv, Shapes, BlocksInv, NEW t \in Threads, NEW v \in Vars, size[v] = 0,
         UNCHANGED <<ptr, size, acc>>, op' = <<"fail">>,
         OtherBlocksKept(v), \A u \in Threads \ {t} : buf'[u] = buf[u], ~Running'
  PROVE  CallStep(t, v)
<1>1. CallOf(t, v)
  BY DEF CallOf, OthersKeep
<1> QED
  BY <1>1, CallFails DEF CallStep

LEMMA CallocStep ==
  ASSUME TagsInv, Shapes, BlocksInv, NEW t \in Threads, NEW k \in Lstores, NEW v \in Vars,
         NEW count \in Nat \ {0}, NEW n \in Nat \ {0}, Calloc(t, k, v, count, n), bad' = {}
  PROVE  CallStep(t, v)
<1> DEFINE total == Product(count, n)
           s == Owner(k, total)
           zeros == Same(total, 0)
<1>1. PICK a \in Addresses(taken, Owner(k, Product(count, n)), Product(count, n)) :
        LET r == Malloced(k, total, a)
            f == Fill(r.mem, t, r.p, total, Same(total, 0))
        IN  /\ mem' = f.mem /\ buf' = f.buf /\ why' = f.why
            /\ bad' = r.bad \cup f.bad
                         \cup (IF total # count * n THEN {"calloc_wrap"} ELSE {})
            /\ IF f.why = "no"
                 THEN taken' = r.taken /\ Own(v, r.p, count * n)
                 ELSE UNCHANGED <<taken, ptr, size>>
            /\ Returned(r.p, f.why, <<"calloc", v, count * n>>)
  BY DEF Calloc
<1> DEFINE r == Malloced(k, total, a)
           f == Fill(r.mem, t, r.p, total, zeros)
<1>2. /\ mem' = f.mem /\ buf' = f.buf /\ why' = f.why
      /\ r.bad = {} /\ f.bad = {} /\ total = count * n
      /\ IF f.why = "no"
           THEN taken' = r.taken /\ Own(v, r.p, total)
           ELSE UNCHANGED <<taken, ptr, size>>
      /\ Returned(r.p, f.why, <<"calloc", v, total>>)
  BY <1>1
<1>3. Unused(v) /\ UNCHANGED acc /\ size[v] = 0
  BY DEF Calloc, Unused, BlocksInv, NullIsEmpty
<1>4. count * n \in Nat \ {0}
  OBVIOUS
<1>5. total \in Nat \ {0}
  BY <1>2, <1>4
<1>6. a \in Addresses(taken, s, total)
  OBVIOUS
<1>7. IsCells(zeros, total) /\ \A i \in 0 .. total - 1 : zeros[i] = 0
  BY DEF Same, IsCells
<1> HIDE DEF total, zeros
<1>8. /\ s \in Stores /\ r.p.tag \in KnownTags
      /\ r.p = Pointer(r.p.tag, r.p.addr) /\ r.p.addr = a
      /\ a = 0 => r.p = Null /\ r.mem = mem /\ r.taken = taken
      /\ a # 0 => /\ r.p # Null /\ StoreOf(r.p) = s
                  /\ r.taken = Take(taken, s, a, total) /\ r.mem = Fresh(mem, s, a, total)
  BY <1>2, <1>5, <1>6, MallocedBlock
<1>9. CASE a = 0
  <2>1. f = Fill(mem, t, Null, total, zeros)
    BY <1>8, <1>9
  <2>2. ~IsCarmorPtr(Null)
    BY DEF IsCarmorPtr, Null, Pointer
  <2>3. f.mem = mem /\ f.buf = buf /\ f.why = "fault"
    BY <1>5, <2>1, <2>2 DEF Fill
  <2> HIDE DEF f, r
  <2>4. op' = <<"fail">> /\ ~Running' /\ UNCHANGED <<taken, ptr, size>>
    BY <1>2, <2>3 DEF Returned, Running
  <2>5. OtherBlocksKept(v)
    BY <1>2, <2>3 DEF OtherBlocksKept
  <2> QED
    BY <1>2, <1>3, <2>3, <2>4, <2>5, Refused
<1>10. CASE a # 0
  <2>1. /\ StillShaped(t) /\ OnlyNew(s, a, total)
        /\ f.why = "no" => HasCells(s, a, total, zeros)
    <3>1. f = Fill(Fresh(mem, s, a, total), t, r.p, total, zeros)
      BY <1>8, <1>10
    <3> HIDE DEF f, r, s
    <3> QED
      BY <1>2, <1>3, <1>5, <1>6, <1>7, <1>8, <1>10, <3>1, FilledBlock
  <2> HIDE DEF f, r, s
  <2>2. CASE f.why # "no"
    <3>1. op' = <<"fail">> /\ ~Running' /\ UNCHANGED <<taken, ptr, size>>
      BY <1>2, <2>2 DEF Returned, Running
    <3>2. OtherBlocksKept(v)
      BY <1>5, <1>6, <1>8, <1>10, <2>1, NewBlockKeeps DEF BlocksInv
    <3> QED
      BY <1>3, <2>1, <3>1, <3>2, Refused DEF StillShaped
  <2>3. CASE f.why = "no"
    <3>1. a \in Addrs /\ a \in Nat /\ HeapTop \in Nat /\ a + total - 1 <= HeapTop
      BY <1>5, <1>6, <1>8, <1>10, AllocatedFits, LinkConstantsOK DEF BlocksInv, Addrs
    <3>2. taken' = Take(taken, s, a, total) /\ Own(v, r.p, total)
      BY <1>2, <1>8, <1>10, <2>3
    <3>3. CallOf(t, v) /\ Shapes' /\ BlocksInv'
      BY <1>3, <1>5, <1>6, <1>8, <1>10, <2>1, <3>1, <3>2, GivenCall
    <3>4. size'[v] = total /\ ptr'[v] = r.p
      BY <1>8, <1>10, <3>2, OwnEffect
    <3>5. C!New(v, total)
      BY <1>3, <1>5, <3>3, <3>4, ObjectMade
    <3>6. ObjectIs(v, total, zeros)
      <4>1. StoreOf(ptr'[v]) = s /\ ptr'[v].addr = a /\ total \in Nat
        BY <1>5, <1>8, <1>10, <3>4
      <4>2. HasCells(s, a, total, zeros)
        BY <2>1, <2>3
      <4> QED
        BY <3>1, <3>4, <4>1, <4>2, FilledObject
    <3>7. \A i \in 1 .. total : ObjOf(v)'[i] = 0
      BY <1>5, <1>7, <3>6 DEF ObjectIs
    <3>8. op' = <<"calloc", v, total>>
      BY <1>2, <1>8, <1>10, <2>3 DEF Returned
    <3>9. C!Calloc(v, total)
      BY <3>5, <3>7, <3>8 DEF C!Calloc
    <3>10. total \in 1 .. HeapTop
      BY <1>5, <1>10, <3>1
    <3> QED
      BY <3>3, <3>8, <3>9, <3>10, AboutCall DEF CallStep, C!Next
  <2> QED
    BY <2>2, <2>3
<1> QED
  BY <1>9, <1>10

(* The aligned address leaves room for the header before it, and for the   *)
(* object behind it.                                                       *)
LEMMA AlignedFits ==
  ASSUME NEW a \in Nat, NEW alignment \in Nat \ {0}, NEW n \in Nat
  PROVE  /\ Aligned(a, alignment) \in Nat
         /\ a + Header <= Aligned(a, alignment)
         /\ Aligned(a, alignment) + n <= a + Padded(n, alignment)
<1> DEFINE first == a + 1
           gap == (alignment - (first % alignment)) % alignment
<1>1. first % alignment \in Int /\ gap \in 0 .. alignment - 1
  OBVIOUS
<1>2. Aligned(a, alignment) = first + gap
  BY DEF Aligned, Header
<1> HIDE DEF gap
<1> QED
  BY <1>1, <1>2 DEF Padded, Header

LEMMA MemalignStep ==
  ASSUME TagsInv, Shapes, BlocksInv, NEW t \in Threads, NEW k \in Lstores, NEW v \in Vars,
         NEW alignment \in Nat \ {0}, NEW n \in Nat \ {0}, Memalign(t, k, v, alignment, n)
  PROVE  CallStep(t, v)
<1> DEFINE padded == Padded(n, alignment)
<1>1. PICK a \in Addresses(taken, k, Padded(n, alignment)) :
         LET m == Fresh(mem, k, a, padded)
             aligned == Aligned(a, alignment)
             p == IF a = 0 THEN Null ELSE Tagged(k, aligned)
         IN  /\ taken' = Take(taken, k, a, padded)
             /\ mem' = IF a = 0 THEN m
                       ELSE Put(m, k, aligned - Header, Same(Header, Junk))
             /\ Own(v, p, n) /\ Returned(p, "no", <<"malloc", v, n>>)
  BY DEF Memalign
<1> DEFINE m == Fresh(mem, k, a, padded)
           aligned == Aligned(a, alignment)
<1>2. Unused(v) /\ UNCHANGED <<buf, acc, why, bad>> /\ size[v] = 0
  BY DEF Memalign, Unused, BlocksInv, NullIsEmpty
<1>3. k \in Stores /\ padded \in Nat \ {0}
  BY DEF Stores, Padded, Header
<1>4. a \in Addresses(taken, k, padded)
  OBVIOUS
<1>5. CASE a = 0
  <2>1. mem' = mem /\ taken' = taken /\ Own(v, Null, n) /\ op' = <<"fail">>
    BY <1>1, <1>5 DEF Fresh, Take, Shapes, Returned
  <2>2. CallOf(t, v) /\ Shapes' /\ BlocksInv' /\ UNCHANGED <<ptr, size>>
    BY <1>2, <2>1, NothingGiven
  <2> QED
    BY <1>2, <2>1, <2>2, CallFails DEF CallStep
<1>6. CASE a # 0
  <2>1. /\ taken' = Take(taken, k, a, padded)
        /\ mem' = Put(m, k, aligned - Header, Same(Header, Junk))
        /\ Own(v, Tagged(k, aligned), n)
        /\ Returned(Tagged(k, aligned), "no", <<"malloc", v, n>>)
    BY <1>1, <1>6
  <2>2. a \in Addrs /\ a \in Nat /\ HeapTop \in Nat /\ a + padded - 1 <= HeapTop
    BY <1>3, <1>4, <1>6, AllocatedFits, LinkConstantsOK DEF BlocksInv, Addrs
  <2>3. /\ aligned \in Nat /\ a + 1 <= aligned /\ aligned + n <= a + padded
    BY <2>2, AlignedFits DEF Header
  <2>4. /\ IsMemory(m)
        /\ \A q \in Stores, c \in Addrs :
             (q # k \/ c < a \/ a + padded <= c) => m[q][c] = mem[q][c]
    <3>1. IsMemory(mem) /\ padded \in Nat
      BY <1>3 DEF Shapes, IsMemory
    <3>2. m = Fresh(mem, k, a, padded)
      OBVIOUS
    <3> HIDE DEF padded, m
    <3>3. IsMemory(m) /\ SameBut(m, mem, k, a, padded)
      BY <1>3, <2>2, <3>1, <3>2, FreshSame
    <3> QED
      BY <3>3 DEF SameBut
  <2> HIDE DEF m, aligned, padded
  <2>5. IsMemory(mem') /\ OnlyNew(k, a, padded)
    <3>1. /\ IsMemory(mem')
          /\ \A q \in Stores, c \in Addrs :
               mem'[q][c] = IF q = k /\ c - (aligned - 1) \in DOMAIN Same(1, Junk)
                              THEN Same(1, Junk)[c - (aligned - 1)] ELSE m[q][c]
      BY <1>3, <2>1, <2>4, PutCells DEF Header
    <3>2. DOMAIN Same(1, Junk) = 0 .. 0
      BY DEF Same
    <3>3. ASSUME NEW q \in Stores, NEW c \in Addrs, q # k \/ c < a \/ a + padded <= c
          PROVE  mem'[q][c] = mem[q][c]
      <4>1. c \in Nat
        BY DEF Addrs
      <4>2. ~(q = k /\ c - (aligned - 1) \in DOMAIN Same(1, Junk))
        BY <1>3, <2>2, <2>3, <3>2, <3>3, <4>1
      <4> QED
        BY <2>4, <3>1, <3>3, <4>2
    <3> QED
      BY <3>1, <3>3 DEF OnlyNew
  <2>6. StillShaped(t)
    BY <1>2, <2>5 DEF StillShaped, Shapes, IsBuffer, AreBuffers
  <2> DEFINE p == Tagged(k, aligned)
  <2>7. /\ p = Pointer(p.tag, p.addr) /\ p.addr = aligned /\ StoreOf(p) = k
        /\ k # Native
    BY TaggedStore DEF Tagged, MakeLstorePtr, Pointer, Lstores, Native
  <2>8. p # Null
    BY <2>2, <2>3, <2>7 DEF Null, Pointer
  <2> HIDE DEF p
  <2>9. CallOf(t, v) /\ Shapes' /\ BlocksInv'
    BY <1>2, <1>3, <1>4, <1>6, <2>1, <2>2, <2>3, <2>5, <2>6, <2>7, <2>8, GivenCall DEF p
  <2>10. size'[v] = n
    BY <2>1, <2>8, OwnEffect DEF p
  <2>11. C!New(v, n)
    BY <1>2, <2>9, <2>10, ObjectMade
  <2>12. op' = <<"malloc", v, n>>
    BY <2>1, <2>8 DEF Returned, p
  <2>13. C!About(v) /\ C!Malloc(v, n)
    BY <2>11, <2>12, AboutCall DEF C!Malloc
  <2>14. n \in 1 .. HeapTop
    BY <1>3, <1>6, <2>2, <2>3
  <2> QED
    BY <2>9, <2>13, <2>14 DEF CallStep, C!Next
<1> QED
  BY <1>5, <1>6

LEMMA GlobalStep ==
  ASSUME TagsInv, Shapes, BlocksInv, NEW t \in Threads, NEW k \in Lstores, NEW v \in Vars,
         NEW n \in Nat \ {0}, NEW c \in [1 .. n -> Values], InitGlobal(t, k, v, c), bad' = {}
  PROVE  CallStep(t, v)
<1>0. Len(c) = n
  OBVIOUS
<1> DEFINE new == [i \in 0 .. n - 1 |-> c[i + 1]]
           p(a) == Tagged(k, a)
<1>1. PICK a \in Addresses(taken, k, n) :
        LET f == Fill(Fresh(mem, k, a, n), t, p(a), n, new)
        IN  /\ mem' = f.mem /\ buf' = f.buf /\ why' = f.why
            /\ bad' = f.bad \cup (IF a = 0 THEN {"unchecked_alloc"} ELSE {})
            /\ IF f.why = "no"
                 THEN taken' = Take(taken, k, a, n) /\ Own(v, p(a), n)
                 ELSE UNCHANGED <<taken, ptr, size>>
            /\ Returned(p(a), f.why, <<"global", v, c>>)
  BY <1>0 DEF InitGlobal
<1> DEFINE f == Fill(Fresh(mem, k, a, n), t, p(a), n, new)
<1>2. /\ mem' = f.mem /\ buf' = f.buf /\ why' = f.why /\ f.bad = {} /\ a # 0
      /\ IF f.why = "no"
           THEN taken' = Take(taken, k, a, n) /\ Own(v, p(a), n)
           ELSE UNCHANGED <<taken, ptr, size>>
      /\ Returned(p(a), f.why, <<"global", v, c>>)
  BY <1>1
<1>3. Unused(v) /\ UNCHANGED acc /\ size[v] = 0
  BY DEF InitGlobal, Unused, BlocksInv, NullIsEmpty
<1>4. k \in Stores /\ k # Native
  BY DEF Stores, Lstores, Native
<1>5. /\ p(a).tag \in KnownTags /\ p(a) = Pointer(p(a).tag, p(a).addr)
      /\ p(a).addr = a /\ StoreOf(p(a)) = k
  BY TaggedStore, TaggedKnown DEF Tagged, MakeLstorePtr, Pointer
<1>6. p(a) # Null
  BY <1>2, <1>5 DEF Null, Pointer
<1>7. IsCells(new, n) /\ \A i \in 1 .. n : new[i - 1] = c[i]
  BY DEF IsCells
<1>8. a \in Addrs /\ a \in Nat /\ HeapTop \in Nat /\ a + n - 1 <= HeapTop
  BY <1>2, <1>4, AllocatedFits, LinkConstantsOK DEF BlocksInv, Addrs
<1> HIDE DEF new, p
<1>9. /\ StillShaped(t) /\ OnlyNew(k, a, n)
      /\ f.why = "no" => HasCells(k, a, n, new)
  BY <1>2, <1>3, <1>4, <1>5, <1>7, FilledBlock
<1> HIDE DEF f
<1>10. CASE f.why # "no"
  <2>1. op' = <<"fail">> /\ ~Running' /\ UNCHANGED <<taken, ptr, size>>
    BY <1>2, <1>10 DEF Returned, Running
  <2>2. OtherBlocksKept(v)
    BY <1>2, <1>4, <1>9, NewBlockKeeps DEF BlocksInv
  <2> QED
    BY <1>3, <1>9, <2>1, <2>2, Refused DEF StillShaped
<1>11. CASE f.why = "no"
  <2>1. taken' = Take(taken, k, a, n) /\ Own(v, p(a), n)
    BY <1>2, <1>11
  <2>2. CallOf(t, v) /\ Shapes' /\ BlocksInv'
    BY <1>2, <1>3, <1>4, <1>5, <1>6, <1>8, <1>9, <2>1, GivenCall
  <2>3. size'[v] = n /\ ptr'[v] = p(a)
    BY <1>6, <2>1, OwnEffect
  <2>4. ObjectIs(v, n, new)
    <3>1. StoreOf(ptr'[v]) = k /\ ptr'[v].addr = a /\ n \in Nat
      BY <1>5, <2>3
    <3>2. HasCells(k, a, n, new)
      BY <1>9, <1>11
    <3> QED
      BY <1>8, <2>3, <3>1, <3>2, FilledObject
  <2>5. ObjOf(v)' = c
    <3>1. DOMAIN ObjOf(v)' = 1 .. n /\ ObjOf(v)' = [i \in DOMAIN ObjOf(v)' |-> ObjOf(v)'[i]]
      BY <2>3 DEF ObjOf
    <3>2. \A i \in 1 .. n : ObjOf(v)'[i] = c[i]
      BY <1>7, <2>4 DEF ObjectIs
    <3> QED
      BY <3>1, <3>2
  <2>6. C!New(v, n)
    BY <1>3, <2>2, <2>3, ObjectMade
  <2>7. op' = <<"global", v, c>>
    BY <1>2, <1>6, <1>11 DEF Returned
  <2>8. C!Global(v)
    <3>1. op'[1] = "global"
      BY <2>7
    <3> QED
      BY <1>0, <2>5, <2>6, <2>7, <3>1 DEF C!Global
  <2> QED
    BY <2>2, <2>7, <2>8, AboutCall DEF CallStep, C!Next
<1> QED
  BY <1>10, <1>11

---------------------------------------------------------------------------
(* The calls that give an object back, or move it. *)

(* A pointer that is the base of its block tells the block of the object.  *)
AtBase(v) == size[v] > 0 => BlockAt(ptr[v]) # {}

LEMMA OwnedAtBase ==
  ASSUME TagsInv, Shapes, BlocksInv, NEW v \in Vars, AtBase(v)
  PROVE  \A b \in taken[StoreOf(ptr[v])] :
            Owns(v, StoreOf(ptr[v]), b) <=> b.base = ptr[v].addr
<1> DEFINE s == StoreOf(ptr[v])
<1>1. s \in Stores
  BY KnownTagStore DEF TagsInv
<1>2. CASE size[v] > 0
  <2>1. PICK c \in taken[s] : c.base = ptr[v].addr
    BY <1>2 DEF BlockAt, AtBase
  <2> QED
    BY <1>2, <2>1, BaseOwned
<1>3. CASE size[v] = 0
  <2>1. ptr[v].addr = 0
    BY <1>3 DEF BlocksInv, NullIsEmpty, Null, Pointer
  <2> HIDE DEF s
  <2>2. \A b \in taken[s] : b.base # 0
    BY <1>1 DEF BlocksInv, BlocksFit, Addrs
  <2> QED
    BY <1>3, <2>1, <2>2, NothingOwned DEF s
<1>4. size[v] > 0 \/ size[v] = 0
  BY DEF Shapes
<1> QED
  BY <1>2, <1>3, <1>4

(* Scrapping the block of v leaves the blocks of the others as m has them. *)
KeptIn(m, v) ==
    \A s \in Stores : \A b \in taken[s] : ~Owns(v, s, b) =>
        \A c \in Addrs : b.base <= c /\ c < b.base + b.len => m[s][c] = mem[s][c]

LEMMA ScrapKeeps ==
  ASSUME TagsInv, Shapes, BlocksInv, NEW v \in Vars, AtBase(v),
         NEW m, IsMemory(m), KeptIn(m, v),
         mem' = Scrap(m, StoreOf(ptr[v]), ptr[v].addr)
  PROVE  IsMemory(mem') /\ OtherBlocksKept(v)
<1> DEFINE s == StoreOf(ptr[v])
<1>1. s \in Stores
  BY KnownTagStore DEF TagsInv
<1>2. \A b \in taken[s] : Owns(v, s, b) <=> b.base = ptr[v].addr
  BY OwnedAtBase
<1> HIDE DEF s
<1>3. /\ IsMemory(mem')
      /\ \A q \in Stores, c \in Addrs :
           \/ mem'[q][c] = m[q][c]
           \/ q = s /\ \E b \in taken[s] : /\ b.base = ptr[v].addr
                                          /\ b.base <= c /\ c < b.base + b.len
  BY <1>1, ScrapCells DEF BlocksInv, s
<1>4. ASSUME NEW q \in Stores, NEW b \in taken[q], ~Owns(v, q, b),
             NEW c \in Addrs, b.base <= c, c < b.base + b.len
      PROVE  mem'[q][c] = mem[q][c]
  <2>1. m[q][c] = mem[q][c]
    BY <1>4 DEF KeptIn
  <2>2. SUFFICES ASSUME q = s, NEW d \in taken[s], d.base = ptr[v].addr,
                        d.base <= c, c < d.base + d.len
                 PROVE  FALSE
    BY <1>3, <2>1
  <2>3. b # d
    BY <1>2, <1>4, <2>2
  <2>4. b.base + b.len <= d.base \/ d.base + d.len <= b.base
    BY <1>1, <2>2, <2>3 DEF BlocksInv, BlocksApart
  <2>5. c \in Nat /\ b.base \in Nat /\ b.len \in Nat /\ d.base \in Nat /\ d.len \in Nat
    BY <1>1, <2>2 DEF BlocksInv, BlocksFit, Addrs
  <2> QED
    BY <1>4, <2>2, <2>4, <2>5
<1> QED
  BY <1>3, <1>4 DEF OtherBlocksKept

LEMMA FreeStep ==
  ASSUME TagsInv, Shapes, BlocksInv, NEW t \in Threads, NEW v \in Vars,
         Free(t, v), bad' = {}
  PROVE  CallStep(t, v)
<1>1. /\ ~Unused(v) /\ UNCHANGED <<buf, acc, why>> /\ BlockAt(ptr[v]) # {}
      /\ taken' = Drop(taken, StoreOf(ptr[v]), ptr[v].addr)
      /\ mem' = Scrap(mem, StoreOf(ptr[v]), ptr[v].addr)
      /\ Own(v, Null, 0) /\ op' = <<"free", v>>
  BY DEF Free, FreedBy
<1>2. size[v] > 0 /\ AtBase(v)
  BY <1>1 DEF Unused, BlocksInv, NullIsEmpty, Shapes, AtBase
<1>3. BlocksInv'
  BY <1>1, <1>2, FreedBlock
<1>4. IsMemory(mem) /\ KeptIn(mem, v)
  BY DEF Shapes, IsMemory, KeptIn
<1>5. IsMemory(mem') /\ OtherBlocksKept(v)
  BY <1>1, <1>2, <1>4, ScrapKeeps
<1>6. StillShaped(t)
  BY <1>1, <1>5 DEF StillShaped, Shapes, IsBuffer, AreBuffers
<1>7. taken' = [q \in Stores |-> taken'[q]]
  BY <1>1 DEF Drop, Shapes
<1>8. Null = Pointer(Null.tag, Null.addr) /\ Null.addr \in Nat /\ 0 \in Nat
  BY DEF Null, Pointer
<1>9. Shapes'
  BY <1>1, <1>6, <1>7, <1>8, ShapesKept
<1>10. OthersKeep(v) /\ size'[v] = 0
  BY <1>1, OwnEffect DEF OthersKeep
<1>11. CallOf(t, v)
  BY <1>5, <1>6, <1>10 DEF CallOf, StillShaped
<1>12. ObjOf(v)' = <<>>
  BY <1>10 DEF ObjOf
<1>13. C!Free(v)
  BY <1>1, <1>11, <1>12, ObjectsKept DEF C!Free
<1>14. C!About(v)
  <2>1. Len(op') = 2 /\ op'[2] = v
    BY <1>1
  <2> QED
    BY <2>1 DEF C!About
<1> QED
  BY <1>3, <1>9, <1>11, <1>13, <1>14 DEF CallStep, C!Next

(* The object of v moves to a new block of the same store, with its first  *)
(* cells; its old block is given back.                                     *)
LEMMA MovedObject ==
  ASSUME TagsInv, Shapes, BlocksInv, NEW t \in Threads, NEW v \in Vars, AtBase(v),
         NEW s \in Stores, s = StoreOf(ptr[v]),
         NEW n \in Nat \ {0}, NEW a \in Addresses(taken, s, n), a # 0,
         NEW kept \in Nat, kept <= n, size[v] <= kept \/ kept = n,
         taken' = [taken EXCEPT ![s] = {b \in @ : b.base # ptr[v].addr} \cup {Block(a, n)}],
         mem' = Scrap(Put(Fresh(mem, s, a, n), s, a, Cells(mem, s, ptr[v].addr, kept)),
                      s, ptr[v].addr),
         NEW p, p = Pointer(p.tag, p.addr), p # Null, StoreOf(p) = s, p.addr = a,
         Own(v, p, n), UNCHANGED <<buf, acc>>, op' = <<"realloc", v, n>>
  PROVE  CallStep(t, v)
<1> DEFINE m0 == Fresh(mem, s, a, n)
           new == Cells(mem, s, ptr[v].addr, kept)
           m == Put(m0, s, a, new)
<1>1. /\ a \in Addrs /\ a \in Nat /\ HeapTop \in Nat /\ a + n - 1 <= HeapTop
      /\ \A b \in taken[s] : b.base + b.len <= a \/ a + n <= b.base
  BY AllocatedFits, LinkConstantsOK DEF BlocksInv, Addrs
<1>2. IsMemory(mem)
  BY DEF Shapes, IsMemory
<1>3. /\ IsMemory(m0)
      /\ \A q \in Stores, c \in Addrs :
           (q # s \/ c < a \/ a + n <= c) => m0[q][c] = mem[q][c]
  <2>1. n \in Nat
    OBVIOUS
  <2>2. IsMemory(m0) /\ SameBut(m0, mem, s, a, n)
    BY <1>1, <1>2, <2>1, FreshSame
  <2> QED
    BY <2>2 DEF SameBut
<1>4. DOMAIN new = 0 .. kept - 1
  BY DEF Cells
<1> HIDE DEF m0
<1>5. /\ IsMemory(m)
      /\ \A q \in Stores, c \in Addrs :
           m[q][c] = IF q = s /\ c - a \in DOMAIN new THEN new[c - a] ELSE m0[q][c]
  BY <1>3, PutCells
<1>6. mem' = Scrap(m, s, ptr[v].addr)
  BY DEF m0
<1> HIDE DEF m, new
<1>7. \A q \in Stores : \A b \in taken[q] : b.base \in Nat /\ b.len \in Nat
  BY DEF BlocksInv, BlocksFit, Addrs
<1>8. \A c \in Addrs : c \in Nat
  BY DEF Addrs
<1>9. KeptIn(m, v)
  <2> SUFFICES ASSUME NEW q \in Stores, NEW b \in taken[q], NEW c \in Addrs,
                      b.base <= c, c < b.base + b.len
               PROVE  m[q][c] = mem[q][c]
    BY DEF KeptIn
  <2>1. q # s \/ c < a \/ a + n <= c
    BY <1>1, <1>7, <1>8
  <2>2. ~(q = s /\ c - a \in 0 .. kept - 1)
    BY <1>1, <1>8, <2>1
  <2> QED
    BY <1>3, <1>4, <1>5, <2>1, <2>2
<1>10. IsMemory(mem') /\ OtherBlocksKept(v)
  BY <1>5, <1>6, <1>9, ScrapKeeps
<1>11. BlocksInv'
  BY MovedBlock DEF AtBase
<1>12. StillShaped(t)
  BY <1>10 DEF StillShaped, Shapes, IsBuffer, AreBuffers
<1>13. Shapes'
  <2>1. taken' = [q \in Stores |-> taken'[q]]
    BY DEF Shapes
  <2>2. p.addr \in Nat /\ n \in Nat
    BY <1>1
  <2> QED
    BY <1>12, <2>1, <2>2, ShapesKept
<1>14. OthersKeep(v) /\ size'[v] = n /\ ptr'[v] = p
  BY OwnEffect DEF OthersKeep
<1>15. CallOf(t, v)
  BY <1>10, <1>12, <1>14 DEF CallOf, StillShaped
<1>16. ASSUME NEW i \in 1 .. n, i \in 1 .. size[v]
       PROVE  ObjOf(v)'[i] = ObjOf(v)[i]
  <2> DEFINE c == a + i - 1
             old == ptr[v].addr + i - 1
  <2>1. size[v] \in Nat /\ ptr[v].addr \in Nat /\ size[v] > 0
    BY <1>16 DEF Shapes
  <2>2. i - 1 \in 0 .. kept - 1 /\ c - a = i - 1
    BY <1>1, <1>16, <2>1
  <2>3. c \in Addrs /\ a <= c /\ c < a + n /\ c \in Nat
    BY <1>1, <2>1 DEF Addrs
  <2>4. old \in Addrs /\ ptr[v].addr + (i - 1) = old
    <3>1. old \in Int /\ ptr[v].addr <= old /\ old < ptr[v].addr + size[v]
      BY <1>16, <2>1
    <3>2. old \in Addrs
      BY <2>1, <3>1, ObjectBlock
    <3> QED
      BY <2>1, <3>2
  <2>5. m[s][c] = mem[s][old]
    <3>1. new[i - 1] = mem[s][old]
      BY <2>2, <2>4 DEF new, Cells
    <3> QED
      BY <1>4, <1>5, <2>2, <2>3, <3>1
  <2>6. mem'[s][c] = m[s][c]
    <3>1. \/ mem'[s][c] = m[s][c]
          \/ \E b \in taken[s] : b.base <= c /\ c < b.base + b.len
      BY <1>5, <1>6, <2>3, ScrapCells DEF BlocksInv
    <3> QED
      BY <1>1, <1>7, <2>3, <3>1
  <2>7. ObjOf(v)[i] = mem[s][old]
    BY <1>16, <2>4 DEF ObjOf
  <2>8. ObjOf(v)'[i] = mem'[s][c]
    BY <1>14, <1>16, <2>3 DEF ObjOf
  <2> QED
    BY <2>5, <2>6, <2>7, <2>8
<1>17. DOMAIN ObjOf(v) = 1 .. size[v] /\ Len(ObjOf(v)') = n
  BY <1>14 DEF ObjOf
<1>18. C!Realloc(v, n)
  BY <1>15, <1>16, <1>17, ObjectsKept DEF C!Realloc
<1>19. n \in 1 .. HeapTop
  BY <1>1
<1> QED
  BY <1>11, <1>13, <1>15, <1>18, <1>19, AboutCall DEF CallStep, C!Next

(* A call that fails and leaves everything alone. *)
LEMMA NothingDone ==
  ASSUME Shapes, BlocksInv, NEW t \in Threads, NEW v \in Vars,
         UNCHANGED <<mem, buf, acc, taken, ptr, size>>, op' = <<"fail">>
  PROVE  CallStep(t, v)
<1>1. Shapes'
  BY DEF Shapes
<1>2. BlocksInv'
  <2> USE DEF BlocksInv
  <2>1. BlocksFit' /\ BlocksApart'
    BY DEF BlocksFit, BlocksApart
  <2>2. HasBlock' /\ HasOwner' /\ OneOwner'
    BY DEF HasBlock, HasOwner, OneOwner, Owns
  <2>3. NativeAtBase' /\ NullIsEmpty'
    BY DEF NativeAtBase, NullIsEmpty
  <2> QED
    BY <2>1, <2>2, <2>3
<1>3. CallOf(t, v)
  BY DEF CallOf, OthersKeep, OtherBlocksKept
<1>4. C!Next
  BY DEF C!Next, C!Fail, ObjOf
<1> QED
  BY <1>1, <1>2, <1>3, <1>4 DEF CallStep

LEMMA NativeStep ==
  ASSUME TagsInv, Shapes, BlocksInv, NEW t \in Threads, NEW v \in Vars,
         NEW n \in Nat \ {0}, ReallocNative(t, v, n)
  PROVE  CallStep(t, v)
<1> DEFINE kept == IF n < size[v] THEN n ELSE size[v]
           copy(a) == Put(Fresh(mem, Native, a, n), Native, a,
                          Cells(mem, Native, ptr[v].addr, kept))
<1>1. PICK a \in Addresses(taken, Native, n) :
         IF a = 0
           THEN op' = <<"fail">> /\ UNCHANGED <<mem, taken, ptr, size>>
           ELSE /\ taken' = Take(Drop(taken, Native, ptr[v].addr), Native, a, n)
                /\ mem' = Scrap(copy(a), Native, ptr[v].addr)
                /\ Own(v, Pointer({}, a), n) /\ op' = <<"realloc", v, n>>
  BY DEF ReallocNative
<1>2. UNCHANGED <<buf, acc>> /\ ~IsCarmorPtr(ptr[v])
  BY DEF ReallocNative
<1>3. CASE a = 0
  BY <1>1, <1>2, <1>3, NothingDone
<1>4. CASE a # 0
  <2>1. Native \in Stores /\ StoreOf(ptr[v]) = Native
    BY <1>2 DEF Stores, StoreOf
  <2>2. AtBase(v)
    BY <2>1 DEF AtBase, BlockAt, BlocksInv, NativeAtBase
  <2>3. kept \in Nat /\ kept <= n /\ (size[v] <= kept \/ kept = n)
    BY DEF Shapes
  <2>4. a \in Nat
    BY <1>4, <2>1, AllocatedFits DEF BlocksInv, Addrs
  <2> DEFINE p == Pointer({}, a)
  <2>5. /\ p = Pointer(p.tag, p.addr) /\ p.addr = a /\ p # Null
        /\ StoreOf(p) = Native
    BY <1>4 DEF Pointer, Null, StoreOf, IsCarmorPtr
  <2>6. taken' = [taken EXCEPT ![Native] = {b \in @ : b.base # ptr[v].addr} \cup {Block(a, n)}]
    BY <1>1, <1>4, <2>1 DEF Take, Drop, Shapes
  <2> HIDE DEF kept, p
  <2>7. /\ mem' = Scrap(copy(a), Native, ptr[v].addr)
        /\ Own(v, p, n) /\ op' = <<"realloc", v, n>>
    BY <1>1, <1>4 DEF p
  <2> QED
    BY <1>2, <1>4, <2>1, <2>2, <2>3, <2>5, <2>6, <2>7, MovedObject
<1> QED
  BY <1>3, <1>4

(* Narrowing a size to an int never makes it greater. *)
LEMMA ToIntSmaller ==
  ASSUME NEW n \in Nat
  PROVE  ToInt(n) \in Int /\ ToInt(n) <= n
<1> DEFINE h == IntMod \div 2
<1>1. h \in Nat /\ IntMod \in Nat \ {0}
  BY RequestsOK
<1> HIDE DEF h
<1>2. n + h \in Nat
  BY <1>1
<1>3. \A x \in Nat, m \in Nat \ {0} : x % m \in Int /\ x % m <= x
  <2> SUFFICES ASSUME NEW x \in Nat, NEW m \in Nat \ {0}
               PROVE  x % m \in Int /\ x % m <= x
    OBVIOUS
  <2>1. x % m \in 0 .. m - 1 /\ x \div m \in Int /\ x = m * (x \div m) + (x % m)
    OBVIOUS
  <2>2. x \div m >= 0
    OBVIOUS
  <2>3. m * (x \div m) >= 0
    BY <2>1, <2>2
  <2> QED
    BY <2>1, <2>3
<1>4. (n + h) % IntMod \in Int /\ (n + h) % IntMod <= n + h
  BY <1>1, <1>2, <1>3
<1> QED
  BY <1>1, <1>4 DEF ToInt, h

LEMMA OrigSizeBlock ==
  ASSUME TagsInv, BlocksInv, NEW v \in Vars, BlockAt(ptr[v]) # {}
  PROVE  \E c \in BlockAt(ptr[v]) : /\ OrigSize(ptr[v]) = ToInt(c.len)
                                    /\ OrigSize(ptr[v]) \in Int /\ OrigSize(ptr[v]) <= c.len
<1> DEFINE c == CHOOSE b \in BlockAt(ptr[v]) : TRUE
<1>1. c \in BlockAt(ptr[v])
  OBVIOUS
<1>2. OrigSize(ptr[v]) = ToInt(c.len)
  BY DEF OrigSize
<1> HIDE DEF c
<1>3. c.len \in Nat
  BY <1>1, KnownTagStore DEF BlockAt, TagsInv, BlocksInv, BlocksFit
<1> QED
  BY <1>1, <1>2, <1>3, ToIntSmaller

LEMMA InPlaceStep ==
  ASSUME TagsInv, Shapes, BlocksInv, NEW t \in Threads, NEW v \in Vars,
         NEW n \in Nat \ {0}, ReallocInPlace(t, v, n), bad' = {}
  PROVE  CallStep(t, v)
<1>1. /\ IsCarmorPtr(ptr[v]) /\ BlockAt(ptr[v]) # {}
      /\ OrigSize(ptr[v]) < 0 \/ OrigSize(ptr[v]) >= n
      /\ ~(OrigSize(ptr[v]) < 0)
      /\ Own(v, ptr[v], n) /\ op' = <<"realloc", v, n>>
      /\ UNCHANGED <<mem, buf, acc, taken>>
  BY DEF ReallocInPlace, FitsAlready
<1>2. PICK c \in BlockAt(ptr[v]) : OrigSize(ptr[v]) \in Int /\ OrigSize(ptr[v]) <= c.len
  BY <1>1, OrigSizeBlock
<1>3. c \in taken[StoreOf(ptr[v])] /\ StoreOf(ptr[v]) \in Stores
  BY KnownTagStore DEF BlockAt, TagsInv
<1>4. c.base \in 1 .. HeapTop /\ c.len \in Nat /\ c.base + c.len - 1 <= HeapTop /\ HeapTop \in Nat
  BY <1>3, LinkConstantsOK DEF BlocksInv, BlocksFit, Addrs
<1>5. n <= c.len
  BY <1>1, <1>2, <1>4
<1>6. ptr[v] # Null
  BY <1>1 DEF IsCarmorPtr, Null, Pointer
<1>7. size[v] > 0
  BY <1>6 DEF BlocksInv, NullIsEmpty, Shapes
<1>8. BlocksInv'
  BY <1>1, <1>5, <1>7, ResizedBlock
<1>9. StillShaped(t)
  BY <1>1 DEF StillShaped, Shapes, IsMemory, IsBuffer, AreBuffers
<1>10. Shapes'
  <2>1. taken' = [q \in Stores |-> taken'[q]]
    BY <1>1 DEF Shapes
  <2>2. ptr[v] = Pointer(ptr[v].tag, ptr[v].addr) /\ ptr[v].addr \in Nat /\ n \in Nat
    BY DEF Shapes
  <2> QED
    BY <1>1, <1>9, <2>1, <2>2, ShapesKept
<1>11. OthersKeep(v) /\ size'[v] = n /\ ptr'[v] = ptr[v]
  BY <1>1, <1>6, OwnEffect DEF OthersKeep
<1>12. CallOf(t, v)
  BY <1>1, <1>11 DEF CallOf, OtherBlocksKept
<1>13. \A i \in 1 .. size[v] \cap 1 .. n : ObjOf(v)'[i] = ObjOf(v)[i]
  BY <1>1, <1>11 DEF ObjOf
<1>14. DOMAIN ObjOf(v) = 1 .. size[v] /\ Len(ObjOf(v)') = n
  BY <1>11 DEF ObjOf
<1>15. C!Realloc(v, n)
  BY <1>1, <1>12, <1>13, <1>14, ObjectsKept DEF C!Realloc
<1>16. n \in 1 .. HeapTop
  BY <1>4, <1>5
<1> QED
  BY <1>1, <1>8, <1>10, <1>12, <1>15, <1>16, AboutCall DEF CallStep, C!Next

LEMMA MovesStep ==
  ASSUME TagsInv, Shapes, BlocksInv, NEW t \in Threads, NEW v \in Vars,
         NEW n \in Nat \ {0}, ReallocMoves(t, v, n), bad' = {}
  PROVE  CallStep(t, v)
<1> DEFINE k == Dispatch(ptr[v])
           orig == OrigSize(ptr[v])
           copy(a) == Put(Fresh(mem, k, a, n), k, a, Cells(mem, k, ptr[v].addr, orig))
<1>1. /\ IsCarmorPtr(ptr[v]) /\ BlockAt(ptr[v]) # {}
      /\ ~(orig < 0 \/ orig >= n)
  BY DEF ReallocMoves, FitsAlready
<1>2. k \in Lstores /\ k \in Stores /\ k = StoreOf(ptr[v])
  BY <1>1, DispatchKnown DEF StoreOf, Stores
<1>3. orig \in Int
  BY <1>1, OrigSizeBlock
<1>4. CASE k \in Direct \cup {3} /\ Stop(IF k \in Direct THEN "assert" ELSE "lstore3")
           /\ op' = <<"fail">> /\ UNCHANGED <<taken, ptr, size>>
  BY <1>4, NothingDone DEF Stop
<1>5. CASE /\ \E a \in Addresses(taken, k, n) :
                  /\ mem' = Scrap(copy(a), k, ptr[v].addr)
                  /\ taken' = Drop(Take(taken, k, a, n), k, ptr[v].addr)
                  /\ bad' = (IF a = 0 THEN {"unchecked_alloc"} ELSE {})
                              \cup (IF orig < size[v] THEN {"int_size"} ELSE {})
                  /\ Own(v, Tagged(k, a), n) /\ op' = <<"realloc", v, n>>
           /\ UNCHANGED <<buf, acc>>
  <2>1. PICK a \in Addresses(taken, k, n) :
           /\ mem' = Scrap(copy(a), k, ptr[v].addr)
           /\ taken' = Drop(Take(taken, k, a, n), k, ptr[v].addr)
           /\ bad' = (IF a = 0 THEN {"unchecked_alloc"} ELSE {})
                       \cup (IF orig < size[v] THEN {"int_size"} ELSE {})
           /\ Own(v, Tagged(k, a), n) /\ op' = <<"realloc", v, n>>
    BY <1>5
  <2>2. a # 0 /\ ~(orig < size[v])
    BY <2>1
  <2>3. orig \in Nat /\ orig <= n /\ size[v] <= orig
    BY <1>1, <1>3, <2>2 DEF Shapes
  <2>4. AtBase(v)
    BY <1>1 DEF AtBase
  <2>5. /\ a \in Nat /\ a # ptr[v].addr
    <3>1. PICK c \in taken[k] : c.base = ptr[v].addr
      BY <1>1, <1>2 DEF BlockAt
    <3>2. a \in Addrs /\ (c.base + c.len <= a \/ a + n <= c.base)
      BY <1>2, <2>2, AllocatedFits DEF BlocksInv
    <3>3. c.base \in Nat /\ c.len \in Nat \ {0} /\ a \in Nat
      BY <1>2, <3>2 DEF BlocksInv, BlocksFit, Addrs
    <3> QED
      BY <3>1, <3>2, <3>3
  <2> DEFINE p == Tagged(k, a)
  <2>6. /\ p = Pointer(p.tag, p.addr) /\ p.addr = a /\ StoreOf(p) = k
    BY <1>2, TaggedStore DEF Tagged, MakeLstorePtr, Pointer
  <2>7. p # Null
    BY <2>2, <2>6 DEF Null, Pointer
  <2>8. taken' = [taken EXCEPT ![k] = {b \in @ : b.base # ptr[v].addr} \cup {Block(a, n)}]
    <3>1. /\ DOMAIN taken = Stores
          /\ Take(taken, k, a, n) = [taken EXCEPT ![k] = taken[k] \cup {Block(a, n)}]
      BY <2>2 DEF Take, Shapes
    <3> DEFINE tk == Take(taken, k, a, n)
    <3> HIDE DEF k
    <3>2. tk[k] = taken[k] \cup {Block(a, n)} /\ \A q \in Stores \ {k} : tk[q] = taken[q]
      BY <1>2, <3>1
    <3>3. {b \in tk[k] : b.base # ptr[v].addr}
            = {b \in taken[k] : b.base # ptr[v].addr} \cup {Block(a, n)}
      BY <2>5, <3>2, BlockFields
    <3>4. taken' = [tk EXCEPT ![k] = {b \in tk[k] : b.base # ptr[v].addr}]
      BY <2>1 DEF Drop
    <3> DEFINE left == {b \in taken[k] : b.base # ptr[v].addr} \cup {Block(a, n)}
    <3> HIDE DEF left
    <3>5. taken' = [tk EXCEPT ![k] = left]
      BY <3>3, <3>4 DEF left
    <3>6. taken' = [taken EXCEPT ![k] = left]
      BY <1>2, <3>1, <3>5
    <3> QED
      BY <3>6 DEF left
  <2> HIDE DEF p
  <2>9. Own(v, p, n) /\ op' = <<"realloc", v, n>> /\ UNCHANGED <<buf, acc>>
    BY <1>5, <2>1 DEF p
  <2> HIDE DEF k, orig
  <2> QED
    BY <1>2, <2>1, <2>2, <2>3, <2>4, <2>6, <2>7, <2>8, <2>9, MovedObject
<1> QED
  BY <1>4, <1>5 DEF ReallocMoves

(* Every heap call is one of those above, on an object no thread is using. *)
LEMMA CallSteps ==
  ASSUME TagsInv, Shapes, BlocksInv, NEW t \in Threads, Call(t), bad' = {}
  PROVE  /\ acc[t] = Idle
         /\ \E v \in Vars : CallStep(t, v) /\ (NotAccessed(v) \/ size[v] = 0)
<1>1. CASE \E k \in Mallocs, v \in Vars, n \in Sizes :
              \/ Malloc(t, k, v, n)
              \/ \E count \in Counts : Calloc(t, k, v, count, n)
              \/ \E alignment \in Alignments : Memalign(t, k, v, alignment, n)
              \/ \E c \in [1 .. n -> Values] : InitGlobal(t, k, v, c)
  <2>1. PICK k \in Mallocs, v \in Vars, n \in Sizes :
              \/ Malloc(t, k, v, n)
              \/ \E count \in Counts : Calloc(t, k, v, count, n)
              \/ \E alignment \in Alignments : Memalign(t, k, v, alignment, n)
              \/ \E c \in [1 .. n -> Values] : InitGlobal(t, k, v, c)
    BY <1>1
  <2>2. k \in Lstores /\ n \in Nat \ {0}
    BY MallocsOK, RequestsOK
  <2>3. size[v] = 0 /\ acc[t] = Idle
    BY <2>1 DEF Malloc, Calloc, Memalign, InitGlobal, MayCall, Unused, BlocksInv, NullIsEmpty
  <2>4. CallStep(t, v)
    <3>1. CASE Malloc(t, k, v, n)
      BY <2>2, <3>1, MallocStep
    <3>2. CASE \E count \in Counts : Calloc(t, k, v, count, n)
      <4>1. PICK count \in Counts : Calloc(t, k, v, count, n)
        BY <3>2
      <4> QED
        BY <2>2, <4>1, RequestsOK, CallocStep
    <3>3. CASE \E alignment \in Alignments : Memalign(t, k, v, alignment, n)
      <4>1. PICK alignment \in Alignments : Memalign(t, k, v, alignment, n)
        BY <3>3
      <4> QED
        BY <2>2, <4>1, RequestsOK, MemalignStep
    <3>4. CASE \E c \in [1 .. n -> Values] : InitGlobal(t, k, v, c)
      <4>1. PICK c \in [1 .. n -> Values] : InitGlobal(t, k, v, c)
        BY <3>4
      <4> QED
        BY <2>2, <4>1, GlobalStep
    <3> QED
      BY <2>1, <3>1, <3>2, <3>3, <3>4
  <2> QED
    BY <2>3, <2>4
<1>2. CASE \E v \in Vars :
              \/ Free(t, v)
              \/ ReallocMemalign(t, v)
              \/ \E n \in Sizes : \/ ReallocNative(t, v, n)
                                 \/ ReallocInPlace(t, v, n)
                                 \/ ReallocMoves(t, v, n)
  <2>1. PICK v \in Vars :
              \/ Free(t, v)
              \/ ReallocMemalign(t, v)
              \/ \E n \in Sizes : \/ ReallocNative(t, v, n)
                                 \/ ReallocInPlace(t, v, n)
                                 \/ ReallocMoves(t, v, n)
    BY <1>2
  <2>2. NotAccessed(v) /\ acc[t] = Idle
    BY <2>1 DEF Free, ReallocMemalign, ReallocNative, ReallocInPlace, ReallocMoves, MayCall
  <2>3. CallStep(t, v)
    <3>1. CASE Free(t, v)
      BY <3>1, FreeStep
    <3>2. CASE ReallocMemalign(t, v)
      BY <3>2 DEF ReallocMemalign
    <3>3. CASE \E n \in Sizes : \/ ReallocNative(t, v, n)
                               \/ ReallocInPlace(t, v, n)
                               \/ ReallocMoves(t, v, n)
      <4>1. PICK n \in Sizes : \/ ReallocNative(t, v, n)
                               \/ ReallocInPlace(t, v, n)
                               \/ ReallocMoves(t, v, n)
        BY <3>3
      <4>2. n \in Nat \ {0}
        BY RequestsOK
      <4> QED
        BY <4>1, <4>2, NativeStep, InPlaceStep, MovesStep
    <3> QED
      BY <2>1, <3>1, <3>2, <3>3
  <2> QED
    BY <2>2, <2>3
<1> QED
  BY <1>1, <1>2 DEF Call

---------------------------------------------------------------------------
(* The accesses. *)

LEMMA BlocksSame ==
  ASSUME BlocksInv, UNCHANGED <<taken, ptr, size>>
  PROVE  BlocksInv'
<1> USE DEF BlocksInv
<1>1. BlocksFit' /\ BlocksApart'
  BY DEF BlocksFit, BlocksApart
<1>2. HasBlock' /\ HasOwner' /\ OneOwner'
  BY DEF HasBlock, HasOwner, OneOwner, Owns
<1>3. NativeAtBase' /\ NullIsEmpty'
  BY DEF NativeAtBase, NullIsEmpty
<1> QED
  BY <1>1, <1>2, <1>3

(* n cells of the object of v, from the i-th on. *)
Inside(v, i, n) ==
    /\ v \in Vars /\ i \in Nat \ {0} /\ n \in Nat \ {0}
    /\ i + n - 1 <= size[v] /\ size[v] \in Nat

(* What the program loads is the part of the object it asked for. *)
LEMMA LoadRefines ==
  ASSUME TagsInv, Shapes, BlocksInv, NEW v, NEW i, NEW n, Inside(v, i, n),
         NEW f, IsCells(f, n),
         \A j \in 0 .. n - 1 : f[j] = mem[StoreOf(ptr[v])][ptr[v].addr + i - 1 + j],
         op' = Seen(v, f), UNCHANGED <<mem, ptr, size>>
  PROVE  C!Next
<1> DEFINE seen == [j \in 1 .. n |-> f[j - 1]]
<1>1. /\ v \in Vars /\ i \in Nat \ {0} /\ n \in Nat \ {0}
      /\ i + n - 1 <= size[v] /\ size[v] \in Nat /\ size[v] > 0
  BY DEF Inside
<1>2. /\ ptr[v].addr \in Nat /\ ptr[v].addr \in Nat \ {0} /\ HeapTop \in Nat
      /\ ptr[v].addr + size[v] - 1 <= HeapTop
  BY <1>1, ObjectBlock, LinkConstantsOK
<1>3. DOMAIN f = 0 .. n - 1 /\ Cardinality(DOMAIN f) = n
  <2>1. DOMAIN f = 0 .. n - 1
    BY DEF IsCells
  <2>2. n - 1 \in Int /\ 0 \in Int /\ ~(0 > n - 1)
    BY <1>1
  <2>3. Cardinality(0 .. n - 1) = (n - 1) - 0 + 1
    BY <2>2, FS_Interval
  <2> QED
    BY <1>1, <2>1, <2>3
<1>4. op' = <<"load", v, seen>>
  BY <1>3 DEF Seen
<1>5. DOMAIN ObjOf(v) = 1 .. size[v] /\ Len(ObjOf(v)) = size[v]
  BY <1>1 DEF ObjOf
<1>6. ASSUME NEW j \in 1 .. n
      PROVE  seen[j] = ObjOf(v)[i + j - 1]
  <2> DEFINE c == ptr[v].addr + (i + j - 1) - 1
  <2>1. j - 1 \in 0 .. n - 1 /\ ptr[v].addr + i - 1 + (j - 1) = c
    BY <1>1, <1>2
  <2>2. i + j - 1 \in 1 .. size[v] /\ c \in Addrs
    BY <1>1, <1>2 DEF Addrs
  <2>3. ObjOf(v)[i + j - 1] = mem[StoreOf(ptr[v])][c]
    BY <2>2 DEF ObjOf
  <2>4. f[j - 1] = mem[StoreOf(ptr[v])][c]
    BY <2>1
  <2> QED
    BY <2>3, <2>4
<1>7. SubSeq(ObjOf(v), i, i + n - 1) = seen
  <2>1. SubSeq(ObjOf(v), i, i + n - 1) = [j \in 1 .. n |-> ObjOf(v)[i + j - 1]]
    BY <1>1, <1>5
  <2> QED
    BY <1>6, <2>1
<1>8. UNCHANGED [u \in Vars |-> ObjOf(u)]
  BY DEF ObjOf
<1>9. C!Load(v, i, n)
  <2>1. op'[1] = "load" /\ op'[2] = v
    BY <1>4
  <2> QED
    BY <1>1, <1>4, <1>5, <1>7, <1>8, <2>1 DEF C!Load
<1>10. i \in 1 .. HeapTop /\ n \in 1 .. HeapTop
  <2> DEFINE z == size[v]
             a == ptr[v].addr
  <2>1. /\ i \in Nat \ {0} /\ n \in Nat \ {0} /\ z \in Nat /\ i + n - 1 <= z
        /\ a \in Nat \ {0} /\ HeapTop \in Nat /\ a + z - 1 <= HeapTop
    BY <1>1, <1>2
  <2> HIDE DEF z, a
  <2> QED
    BY <2>1
<1> QED
  BY <1>1, <1>4, <1>9, <1>10, AboutCall DEF C!Next

(* A write inside the object of v reaches no block but that of v. *)
LEMMA StoredCells ==
  ASSUME TagsInv, Shapes, BlocksInv, NEW v, NEW i, NEW n, Inside(v, i, n),
         NEW new, IsCells(new, n),
         mem' = Put(mem, StoreOf(ptr[v]), ptr[v].addr + i - 1, new)
  PROVE  /\ IsMemory(mem') /\ OtherBlocksKept(v)
         /\ OnlyNew(StoreOf(ptr[v]), ptr[v].addr + i - 1, n)
         /\ \A j \in 0 .. n - 1 : /\ ptr[v].addr + i - 1 + j \in Addrs
                                  /\ mem'[StoreOf(ptr[v])][ptr[v].addr + i - 1 + j] = new[j]
<1> DEFINE s == StoreOf(ptr[v])
           a == ptr[v].addr + i - 1
<1>1. /\ v \in Vars /\ i \in Nat \ {0} /\ n \in Nat \ {0}
      /\ i + n - 1 <= size[v] /\ size[v] \in Nat /\ size[v] > 0
  BY DEF Inside
<1>2. s \in Stores /\ ptr[v].addr \in Nat
  BY <1>1, ObjectBlock
<1>3. PICK b \in taken[s] :
        /\ Owns(v, s, b)
        /\ \A c \in Int : ptr[v].addr <= c /\ c < ptr[v].addr + size[v] =>
             c \in Addrs /\ b.base <= c /\ c < b.base + b.len
  BY <1>1, ObjectBlock
<1>4. \A c \in Int : a <= c /\ c < a + n =>
        c \in Addrs /\ b.base <= c /\ c < b.base + b.len
  BY <1>1, <1>2, <1>3
<1>5. a \in Int /\ DOMAIN new = 0 .. n - 1
  BY <1>1, <1>2 DEF IsCells
<1> HIDE DEF s, a
<1>6. IsMemory(mem)
  BY DEF Shapes, IsMemory
<1>7. mem' = Put(mem, s, a, new)
  BY DEF s, a
<1>8. /\ IsMemory(mem')
      /\ \A q \in Stores, c \in Addrs :
           mem'[q][c] = IF q = s /\ c - a \in DOMAIN new THEN new[c - a] ELSE mem[q][c]
  BY <1>2, <1>6, <1>7, PutCells
<1>9. OnlyNew(s, a, n)
  <2> SUFFICES ASSUME NEW q \in Stores, NEW c \in Addrs, q # s \/ c < a \/ a + n <= c
               PROVE  mem'[q][c] = mem[q][c]
    BY DEF OnlyNew
  <2>1. c \in Nat
    BY DEF Addrs
  <2>2. ~(q = s /\ c - a \in DOMAIN new)
    BY <1>1, <1>5, <2>1
  <2> QED
    BY <1>8, <2>2
<1>10. OtherBlocksKept(v)
  <2> SUFFICES ASSUME NEW q \in Stores, NEW d \in taken[q], ~Owns(v, q, d),
                      NEW c \in Addrs, d.base <= c, c < d.base + d.len
               PROVE  mem'[q][c] = mem[q][c]
    BY DEF OtherBlocksKept
  <2>1. CASE q # s
    BY <1>9, <2>1 DEF OnlyNew
  <2>2. CASE q = s
    <3>1. d # b
      BY <1>3, <2>2
    <3>2. d.base + d.len <= b.base \/ b.base + b.len <= d.base
      BY <1>2, <2>2, <3>1 DEF BlocksInv, BlocksApart
    <3>3. /\ c \in Nat /\ d.base \in Nat /\ d.len \in Nat /\ b.base \in Nat /\ b.len \in Nat
      BY <1>2, <2>2 DEF BlocksInv, BlocksFit, Addrs
    <3>4. c < a \/ a + n <= c
      BY <1>1, <1>4, <1>5, <3>2, <3>3
    <3> QED
      BY <1>9, <3>4 DEF OnlyNew
  <2> QED
    BY <2>1, <2>2
<1>11. ASSUME NEW j \in 0 .. n - 1
       PROVE  a + j \in Addrs /\ mem'[s][a + j] = new[j]
  <2>1. a + j \in Addrs
    BY <1>1, <1>4, <1>5
  <2>2. (a + j) - a = j
    BY <1>5
  <2> QED
    BY <1>2, <1>5, <1>8, <2>1, <2>2
<1> QED
  BY <1>8, <1>9, <1>10, <1>11 DEF s, a

(* A store changes the cells of the object that it is of, to its value.    *)
LEMMA StoreRefines ==
  ASSUME TagsInv, Shapes, BlocksInv, NEW v, NEW i, NEW n, Inside(v, i, n),
         NEW new, IsCells(new, n), NEW x \in Values, \A j \in 0 .. n - 1 : new[j] = x,
         mem' = Put(mem, StoreOf(ptr[v]), ptr[v].addr + i - 1, new),
         UNCHANGED <<ptr, size>>, op' = <<"store", v, i, n, x>>
  PROVE  C!Next
<1>1. /\ v \in Vars /\ i \in Nat \ {0} /\ n \in Nat \ {0}
      /\ i + n - 1 <= size[v] /\ size[v] \in Nat /\ size[v] > 0
  BY DEF Inside
<1>2. /\ ptr[v].addr \in Nat \ {0} /\ HeapTop \in Nat /\ StoreOf(ptr[v]) \in Stores
      /\ ptr[v].addr + size[v] - 1 <= HeapTop
  BY <1>1, ObjectBlock, LinkConstantsOK
<1>3. /\ OtherBlocksKept(v)
      /\ OnlyNew(StoreOf(ptr[v]), ptr[v].addr + i - 1, n)
      /\ \A j \in 0 .. n - 1 : /\ ptr[v].addr + i - 1 + j \in Addrs
                               /\ mem'[StoreOf(ptr[v])][ptr[v].addr + i - 1 + j] = new[j]
  BY StoredCells
<1>4. DOMAIN ObjOf(v) = 1 .. size[v] /\ Len(ObjOf(v)) = size[v]
  BY <1>1 DEF ObjOf
<1>5. ASSUME NEW j \in 1 .. size[v]
      PROVE  ObjOf(v)'[j] = IF j \in i .. i + n - 1 THEN x ELSE ObjOf(v)[j]
  <2> DEFINE a == ptr[v].addr
             c == a + j - 1
             s == StoreOf(ptr[v])
  <2>1. c \in Addrs /\ c \in Nat /\ a \in Nat
    BY <1>1, <1>2 DEF Addrs
  <2>2. ObjOf(v)[j] = mem[s][c] /\ ObjOf(v)'[j] = mem'[s][c]
    BY <2>1 DEF ObjOf
  <2>3. CASE j \in i .. i + n - 1
    <3>1. j - i \in 0 .. n - 1 /\ a + i - 1 + (j - i) = c
      BY <1>1, <2>1, <2>3
    <3>2. mem'[s][c] = new[j - i]
      BY <1>3, <3>1
    <3> QED
      BY <2>2, <2>3, <3>1, <3>2
  <2>4. CASE j \notin i .. i + n - 1
    <3>1. c < a + i - 1 \/ a + i - 1 + n <= c
      BY <1>1, <2>1, <2>4
    <3>2. mem'[s][c] = mem[s][c]
      BY <1>2, <1>3, <2>1, <3>1 DEF OnlyNew
    <3> QED
      BY <2>2, <2>4, <3>2
  <2> QED
    BY <2>3, <2>4
<1>6. ObjOf(v)' = [j \in DOMAIN ObjOf(v) |-> IF j \in i .. i + n - 1 THEN x ELSE ObjOf(v)[j]]
  <2>1. DOMAIN ObjOf(v)' = 1 .. size[v] /\ ObjOf(v)' = [j \in DOMAIN ObjOf(v)' |-> ObjOf(v)'[j]]
    BY DEF ObjOf
  <2> QED
    BY <1>4, <1>5, <2>1
<1>7. C!OthersKept(v)
  <2>1. OthersKeep(v)
    BY DEF OthersKeep
  <2> QED
    BY <1>1, <1>3, <2>1, OtherObjects DEF C!OthersKept
<1>8. C!Store(v, i, n, x)
  BY <1>1, <1>4, <1>6, <1>7 DEF C!Store
<1>9. i \in 1 .. HeapTop /\ n \in 1 .. HeapTop
  <2> DEFINE z == size[v]
             a == ptr[v].addr
  <2>1. /\ i \in Nat \ {0} /\ n \in Nat \ {0} /\ z \in Nat /\ i + n - 1 <= z
        /\ a \in Nat \ {0} /\ HeapTop \in Nat /\ a + z - 1 <= HeapTop
    BY <1>1, <1>2
  <2> HIDE DEF z, a
  <2> QED
    BY <2>1
<1>10. C!About(v)
  <2>1. Len(op') = 5 /\ op'[2] = v
    OBVIOUS
  <2> QED
    BY <2>1 DEF C!About
<1> QED
  BY <1>1, <1>8, <1>9, <1>10 DEF C!Next

(* What an access, or a part of one, does when nothing goes wrong. *)
AccessStep ==
    /\ C!Next \/ UNCHANGED <<mem, ptr, size, op>>
    /\ Running' => Shapes' /\ BlocksInv' /\ AccessInv'

(* The access of the thread t, if it had one, is over. *)
LEMMA AccessingAgain ==
  ASSUME NEW t \in Threads, UNCHANGED <<ptr, size>>, AccessInv, Running,
         \A u \in Threads \ {t} : acc'[u] = acc[u] /\ buf'[u] = buf[u],
         acc'[t] = Idle,
         \A u \in Threads \ {t} : acc[u] # Idle /\ acc[u].stage # "stored" =>
            (BytesCurrent(u, mem) => BytesCurrent(u, mem'))
  PROVE  AccessInv'
<1>1. \A u \in Threads : acc'[u] # Idle => u # t /\ acc'[u] = acc[u] /\ buf'[u] = buf[u]
  OBVIOUS
<1>2. AccessesInside'
  BY <1>1 DEF AccessInv, AccessesInside, AccessOf
<1>3. NoRaces'
  BY <1>1 DEF AccessInv, NoRaces
<1>4. StoredBytes'
  BY <1>1 DEF AccessInv, StoredBytes
<1>5. LinkedBytesCurrent'
  <2> SUFFICES ASSUME NEW u \in Threads, acc'[u] # Idle, acc'[u].stage # "stored"
               PROVE  \A i \in 0 .. acc'[u].n - 1 :
                        buf'[u][i] = Cells(mem', StoreOf(acc'[u].p), acc'[u].p.addr, acc'[u].n)[i]
    BY DEF LinkedBytesCurrent
  <2>1. BytesCurrent(u, mem)
    BY <1>1 DEF AccessInv, LinkedBytesCurrent, BytesCurrent
  <2>2. BytesCurrent(u, mem')
    BY <1>1, <2>1
  <2> QED
    BY <1>1, <2>2 DEF BytesCurrent
<1> QED
  BY <1>2, <1>3, <1>4, <1>5 DEF AccessInv


(* Where an access that begins is. *)
LEMMA NewAccess ==
  ASSUME TagsInv, Shapes, NEW v \in Vars, NEW n \in AccessSizes, NEW i \in 1 .. size[v] - n + 1,
         NEW stage, NEW x, NEW a, a = AccessOf(v, i, n, stage, x)
  PROVE  /\ Inside(v, i, n)
         /\ a.stage = stage /\ a.v = v /\ a.i = i /\ a.n = n /\ a.x = x
         /\ a.p.tag = ptr[v].tag /\ a.p.addr = ptr[v].addr + i - 1
         /\ StoreOf(a.p) = StoreOf(ptr[v]) /\ ptr[v].addr \in Nat
<1>1. n \in Nat \ {0} /\ size[v] \in Nat
  BY LinkConstantsOK DEF Shapes
<1>2. Inside(v, i, n)
  BY <1>1 DEF Inside
<1>3. /\ a.stage = stage /\ a.v = v /\ a.i = i /\ a.n = n /\ a.x = x
      /\ a.p = [ptr[v] EXCEPT !.addr = @ + i - 1]
  BY DEF AccessOf
<1>4. ptr[v] = [tag |-> ptr[v].tag, addr |-> ptr[v].addr] /\ ptr[v].addr \in Nat
  BY DEF Shapes, Pointer
<1>5. a.p.tag = ptr[v].tag /\ a.p.addr = ptr[v].addr + i - 1
  BY <1>3, <1>4
<1>6. StoreOf(a.p) = StoreOf(ptr[v])
  BY <1>5 DEF StoreOf, IsCarmorPtr, Dispatch, TopByte
<1> QED
  BY <1>2, <1>3, <1>4, <1>5, <1>6

(* An access of native memory or of a cached lstore is one step, and no    *)
(* access in progress is in its object: those are in direct lstores.       *)
LEMMA FlatStep ==
  ASSUME TagsInv, Shapes, BlocksInv, AccessInv, Running, NEW t \in Threads,
         NEW v \in Vars, NEW n \in AccessSizes, NEW i \in 1 .. size[v] - n + 1,
         NEW stage, NEW x, stage = "load" \/ (stage = "store" /\ x \in Values),
         NEW a, a = AccessOf(v, i, n, stage, x), acc[t] = Idle, AccessFlat(t, a)
  PROVE  AccessStep
<1> DEFINE f == Cells(mem, StoreOf(a.p), a.p.addr, n)
<1>1. /\ Inside(v, i, n)
      /\ a.stage = stage /\ a.v = v /\ a.i = i /\ a.n = n /\ a.x = x
      /\ a.p.addr = ptr[v].addr + i - 1
      /\ StoreOf(a.p) = StoreOf(ptr[v]) /\ ptr[v].addr \in Nat
  BY NewAccess
<1>2. n \in Nat \ {0} /\ i \in Nat \ {0} /\ i + n - 1 <= size[v] /\ size[v] > 0 /\ size[v] \in Nat
  BY <1>1 DEF Inside
<1>3. /\ StoreOf(a.p) \notin Direct /\ UNCHANGED <<buf, acc, why, bad, taken, ptr, size>>
      /\ \/ stage = "load" /\ op' = Seen(v, f) /\ UNCHANGED mem
         \/ stage = "store" /\ op' = <<"store", v, i, n, x>>
            /\ mem' = Put(mem, StoreOf(ptr[v]), ptr[v].addr + i - 1, Same(n, x))
  BY <1>1 DEF AccessFlat
<1>4. ASSUME NEW u \in Threads, acc[u] # Idle
      PROVE  acc[u].v # v
  <2>1. Dispatch(acc[u].p) \in Direct /\ IsCarmorPtr(acc[u].p)
    BY <1>4 DEF AccessInv, AccessesInside
  <2>2. StoreOf(acc[u].p) = StoreOf(ptr[acc[u].v])
    BY <1>4, AccessPlace DEF AccessInv
  <2> QED
    BY <1>1, <1>3, <2>1, <2>2 DEF StoreOf
<1>5. BlocksInv'
  BY <1>3, BlocksSame
<1>6. C!Next /\ IsMemory(mem') /\ OtherBlocksKept(v)
  <2>1. CASE stage = "load"
    <3>1. op' = Seen(v, f) /\ UNCHANGED <<mem, ptr, size>>
      BY <1>3, <2>1
    <3>2. IsCells(f, n)
      BY DEF IsCells, Cells
    <3>3. ASSUME NEW j \in 0 .. n - 1
          PROVE  f[j] = mem[StoreOf(ptr[v])][ptr[v].addr + i - 1 + j]
      <4>1. ptr[v].addr + i - 1 + j \in Addrs
        <5>1. ptr[v].addr + i - 1 + j \in Int
          BY <1>1, <1>2
        <5>2. ptr[v].addr <= ptr[v].addr + i - 1 + j /\ ptr[v].addr + i - 1 + j < ptr[v].addr + size[v]
          BY <1>1, <1>2
        <5> QED
          BY <1>2, <5>1, <5>2, ObjectBlock
      <4> QED
        BY <1>1, <4>1 DEF Cells
    <3> HIDE DEF f
    <3>4. C!Next
      BY <1>1, <3>1, <3>2, <3>3, LoadRefines
    <3>5. IsMemory(mem') /\ OtherBlocksKept(v)
      BY <3>1 DEF Shapes, IsMemory, OtherBlocksKept
    <3> QED
      BY <3>4, <3>5
  <2>2. CASE stage = "store"
    <3> DEFINE new == Same(n, x)
    <3>1. /\ op' = <<"store", v, i, n, x>> /\ x \in Values /\ UNCHANGED <<ptr, size>>
          /\ mem' = Put(mem, StoreOf(ptr[v]), ptr[v].addr + i - 1, new)
      BY <1>3, <2>2
    <3>2. IsCells(new, n) /\ \A j \in 0 .. n - 1 : new[j] = x
      BY DEF IsCells, Same
    <3> HIDE DEF new
    <3>3. C!Next
      BY <1>1, <3>1, <3>2, StoreRefines
    <3>4. IsMemory(mem') /\ OtherBlocksKept(v)
      BY <1>1, <3>1, <3>2, StoredCells
    <3> QED
      BY <3>3, <3>4
  <2> QED
    BY <2>1, <2>2
<1>7. AccessInv'
  <2>1. \A u \in Threads \ {t} : acc'[u] = acc[u] /\ buf'[u] = buf[u]
    BY <1>3
  <2>2. acc'[t] = Idle /\ UNCHANGED <<ptr, size>>
    BY <1>3
  <2>3. \A u \in Threads \ {t} : acc[u] # Idle /\ acc[u].stage # "stored" =>
            (BytesCurrent(u, mem) => BytesCurrent(u, mem'))
    BY <1>4, <1>6, OtherAccess DEF AccessInv
  <2> QED
    BY <2>1, <2>2, <2>3, AccessingAgain
<1>8. Shapes'
  BY <1>3, <1>6 DEF Shapes, IsMemory
<1> QED
  BY <1>5, <1>6, <1>7, <1>8 DEF AccessStep


(* Two accesses of one object that share no cell. *)
LEMMA CellsApart ==
  ASSUME NEW i \in Nat, NEW n \in Nat \ {0}, NEW j \in Nat, NEW m \in Nat \ {0},
         (i .. i + n - 1) \cap (j .. j + m - 1) = {}
  PROVE  i + n <= j \/ j + m <= i
<1>1. CASE i <= j
  <2>1. j \notin i .. i + n - 1
    OBVIOUS
  <2> QED
    BY <1>1, <2>1
<1>2. CASE j < i
  <2>1. i \notin j .. j + m - 1
    OBVIOUS
  <2> QED
    BY <1>2, <2>1
<1> QED
  BY <1>1, <1>2

(* A link of a direct lstore stops the program, or gives the thread the    *)
(* bytes of the access; the program has seen nothing yet.                  *)
LEMMA LinkStep ==
  ASSUME TagsInv, Shapes, BlocksInv, AccessInv, Running, NEW t \in Threads,
         NEW v \in Vars, NEW n \in AccessSizes, NEW i \in 1 .. size[v] - n + 1,
         NEW stage, NEW x, stage = "load" \/ (stage = "store" /\ x \in Values),
         NEW a, a = AccessOf(v, i, n, stage, x), NoRace(t, v, i, n, stage),
         AccessDirect(t, a), bad' = {}
  PROVE  AccessStep
<1> DEFINE k == Dispatch(a.p)
           f == DirectBuffer(t, k)
           bytes == Cells(mem, k, a.p.addr, n)
<1>1. /\ Inside(v, i, n)
      /\ a.stage = stage /\ a.v = v /\ a.i = i /\ a.n = n /\ a.x = x
      /\ a.p.tag = ptr[v].tag /\ StoreOf(a.p) = StoreOf(ptr[v])
  BY NewAccess
<1>2. n \in Nat \ {0} /\ i \in Nat \ {0}
  BY <1>1 DEF Inside
<1>3. k \in Direct /\ k \in Lstores /\ IsCarmorPtr(a.p) /\ StoreOf(a.p) = k
  <2>1. StoreOf(a.p) \in Direct /\ StoreOf(a.p) \in Lstores
    BY LinkConstantsOK DEF AccessDirect
  <2>2. Native \notin Lstores
    BY DEF Native, Lstores
  <2> QED
    BY <2>1, <2>2 DEF StoreOf
<1>4. UNCHANGED <<taken, ptr, size>>
  BY DEF AccessDirect
<1>5. CASE why' # "no" /\ UNCHANGED <<mem, buf, acc, bad>>
  <2>1. op' = <<"fail">>
    BY <1>5 DEF AccessDirect
  <2>2. UNCHANGED [u \in Vars |-> ObjOf(u)]
    BY <1>4, <1>5 DEF ObjOf
  <2>3. C!Next
    BY <2>1, <2>2 DEF C!Next, C!Fail
  <2> QED
    BY <1>5, <2>3 DEF AccessStep, Running
<1>6. CASE /\ k # 3 /\ buf' = [buf EXCEPT ![t] = Overlay(f, bytes)]
           /\ acc' = [acc EXCEPT ![t] = a] /\ bad' = TooSmall(f, n)
           /\ UNCHANGED <<mem, why>>
  <2>1. op' = op
    BY <1>6 DEF AccessDirect, Running
  <2>2. DOMAIN acc = Threads /\ DOMAIN buf = Threads /\ IsBuffer(buf[t])
    BY DEF Shapes, IsBuffer
  <2>3. acc'[t] = a /\ buf'[t] = Overlay(f, bytes)
    BY <1>6, <2>2
  <2>4. \A u \in Threads \ {t} : acc'[u] = acc[u] /\ buf'[u] = buf[u]
    BY <1>6, <2>2
  <2>5. IsBuffer(f)
    BY <1>3, <2>2, BufferMade
  <2>6. 0 .. n - 1 \subseteq DOMAIN f
    <3>1. Cardinality(DOMAIN f) \in Nat
      BY <2>5, FS_CardinalityType DEF IsBuffer
    <3>2. ~(n > Cardinality(DOMAIN f))
      BY <1>6 DEF TooSmall
    <3> QED
      BY <1>2, <2>5, <3>1, <3>2 DEF IsBuffer
  <2>7. DOMAIN bytes = 0 .. n - 1 /\ DOMAIN Overlay(f, bytes) = DOMAIN f
    BY DEF Cells, Overlay
  <2>8. \A j \in 0 .. n - 1 : Overlay(f, bytes)[j] = bytes[j]
    BY <2>6, <2>7 DEF Overlay
  <2> HIDE DEF f
  <2>9. BlocksInv'
    BY <1>4, BlocksSame
  <2>10. Shapes'
    <3>1. AreBuffers(buf') /\ acc' = [u \in Threads |-> acc'[u]]
      BY <1>6, <2>2 DEF AreBuffers
    <3>2. \A u \in Threads : IsBuffer(buf'[u])
      <4>1. IsBuffer(buf'[t])
        BY <2>3, <2>5, <2>7 DEF IsBuffer
      <4>2. \A u \in Threads \ {t} : IsBuffer(buf'[u])
        BY <2>4 DEF Shapes, IsBuffer
      <4> QED
        BY <4>1, <4>2
    <3> QED
      BY <1>4, <1>6, <3>1, <3>2 DEF Shapes, IsBuffer, AreBuffers
  <2>11. AccessesInside'
    <3> SUFFICES ASSUME NEW u \in Threads, acc'[u] # Idle
                 PROVE  LET b == acc'[u] IN
                        /\ b = [AccessOf(b.v, b.i, b.n, "load", b.x) EXCEPT !.stage = b.stage]
                        /\ b.stage \in {"load", "store", "stored"}
                        /\ b.stage # "load" => b.x \in Values
                        /\ b.v \in Vars /\ b.n \in Nat \ {0} /\ b.i \in 1 .. size[b.v] - b.n + 1
                        /\ Dispatch(b.p) \in Direct \ {3} /\ IsCarmorPtr(b.p)
                        /\ 0 .. b.n - 1 \subseteq DOMAIN buf'[u]
      BY <1>4 DEF AccessesInside, AccessOf
    <3>1. CASE u = t
      <4>1. a = [AccessOf(v, i, n, "load", x) EXCEPT !.stage = stage]
        BY DEF AccessOf
      <4> QED
        BY <1>1, <1>2, <1>3, <1>6, <2>3, <2>6, <2>7, <3>1, <4>1
    <3>2. CASE u # t
      BY <2>4, <3>2 DEF AccessInv, AccessesInside
    <3> QED
      BY <3>1, <3>2
  <2>12. NoRaces'
    <3>1. ASSUME NEW u \in Threads \ {t}, acc[u] # Idle, acc[u].v = v
          PROVE  \/ i + n <= acc[u].i \/ acc[u].i + acc[u].n <= i
                 \/ stage = "load" /\ acc[u].stage = "load"
      <4>1. acc[u].i \in Nat /\ acc[u].n \in Nat \ {0}
        BY <3>1, AccessPlace DEF AccessInv
      <4>2. \/ (i .. i + n - 1) \cap (acc[u].i .. acc[u].i + acc[u].n - 1) = {}
            \/ stage = "load" /\ acc[u].stage = "load"
        BY <3>1 DEF NoRace
      <4> QED
        BY <1>2, <4>1, <4>2, CellsApart
    <3> QED
      BY <1>1, <2>3, <2>4, <3>1 DEF AccessInv, NoRaces
  <2>13. StoredBytes'
    BY <1>1, <2>3, <2>4 DEF AccessInv, StoredBytes
  <2>14. LinkedBytesCurrent'
    <3> SUFFICES ASSUME NEW u \in Threads, acc'[u] # Idle, acc'[u].stage # "stored"
                 PROVE  \A j \in 0 .. acc'[u].n - 1 :
                          buf'[u][j] = Cells(mem, StoreOf(acc'[u].p), acc'[u].p.addr, acc'[u].n)[j]
      BY <1>6 DEF LinkedBytesCurrent
    <3>1. CASE u = t
      BY <1>1, <1>3, <2>3, <2>8, <3>1
    <3>2. CASE u # t
      BY <2>4, <3>2 DEF AccessInv, LinkedBytesCurrent, Running
    <3> QED
      BY <3>1, <3>2
  <2> QED
    BY <1>4, <1>6, <2>1, <2>9, <2>10, <2>11, <2>12, <2>13, <2>14 DEF AccessStep, AccessInv
<1> QED
  BY <1>1, <1>5, <1>6 DEF AccessDirect, LinkDirect, Stop


(* The program loads from its buffer what the storage holds now. *)
LEMMA BufferLoadStep ==
  ASSUME TagsInv, Shapes, BlocksInv, AccessInv, Running, NEW t \in Threads, Load(t)
  PROVE  AccessStep
<1> DEFINE v == acc[t].v
           n == acc[t].n
           i == acc[t].i
           f == [j \in 0 .. n - 1 |-> buf[t][j]]
<1>1. acc[t].stage = "load"
  BY DEF Load, LoadBuffer
<1>2. acc[t] # Idle
  BY <1>1 DEF Idle
<1>3. /\ v \in Vars /\ n \in Nat \ {0} /\ i \in Nat \ {0}
      /\ i + n - 1 <= size[v] /\ size[v] > 0 /\ size[v] \in Nat
      /\ acc[t].p.addr = ptr[v].addr + i - 1 /\ ptr[v].addr \in Nat
      /\ StoreOf(acc[t].p) = StoreOf(ptr[v])
  <2>1. /\ v \in Vars /\ n \in Nat \ {0} /\ i \in Nat \ {0}
        /\ i + n - 1 <= size[v] /\ size[v] > 0
        /\ acc[t].p.addr = ptr[v].addr + i - 1
        /\ StoreOf(acc[t].p) = StoreOf(ptr[v])
    BY <1>2, AccessPlace DEF AccessInv
  <2> QED
    BY <2>1 DEF Shapes
<1>4. Inside(v, i, n)
  BY <1>3 DEF Inside
<1>5. /\ op' = Seen(v, f) /\ acc' = [acc EXCEPT ![t] = Idle]
      /\ UNCHANGED <<mem, buf, why, bad, taken, ptr, size>>
  BY DEF Load, LoadBuffer
<1>6. ASSUME NEW j \in 0 .. n - 1
      PROVE  f[j] = mem[StoreOf(ptr[v])][ptr[v].addr + i - 1 + j]
  <2>1. f[j] = Cells(mem, StoreOf(ptr[v]), ptr[v].addr + i - 1, n)[j]
    <3>1. \A l \in 0 .. n - 1 :
             buf[t][l] = Cells(mem, StoreOf(acc[t].p), acc[t].p.addr, n)[l]
      BY <1>1, <1>2 DEF AccessInv, LinkedBytesCurrent
    <3> QED
      BY <1>3, <3>1
  <2>2. ptr[v].addr + i - 1 + j \in Addrs
    <3>1. /\ ptr[v].addr + i - 1 + j \in Int /\ ptr[v].addr <= ptr[v].addr + i - 1 + j
          /\ ptr[v].addr + i - 1 + j < ptr[v].addr + size[v]
      BY <1>3
    <3> QED
      BY <1>3, <3>1, ObjectBlock
  <2> QED
    BY <2>1, <2>2 DEF Cells
<1>7. IsCells(f, n)
  BY DEF IsCells
<1>8. acc'[t] = Idle /\ \A u \in Threads \ {t} : acc'[u] = acc[u] /\ buf'[u] = buf[u]
  BY <1>5 DEF Shapes
<1> HIDE DEF v, n, i, f
<1>9. C!Next
  BY <1>4, <1>5, <1>6, <1>7, LoadRefines
<1>10. BlocksInv'
  BY <1>5, BlocksSame
<1>11. Shapes'
  BY <1>5 DEF Shapes
<1>12. AccessInv'
  BY <1>5, <1>8, AccessingAgain
<1> QED
  BY <1>9, <1>10, <1>11, <1>12 DEF AccessStep

(* The program's store to its buffer: nobody else sees it yet. *)
LEMMA BufferStoreStep ==
  ASSUME TagsInv, Shapes, BlocksInv, AccessInv, Running, NEW t \in Threads, Store(t)
  PROVE  AccessStep
<1> DEFINE a == acc[t]
           new == Same(a.n, a.x)
<1>1. /\ a.stage = "store" /\ buf' = [buf EXCEPT ![t] = Overlay(@, new)]
      /\ acc' = [acc EXCEPT ![t].stage = "stored"]
      /\ UNCHANGED <<mem, why, bad, taken, ptr, size, op>>
  BY DEF Store, StoreBuffer, heapVars
<1>2. a # Idle
  BY <1>1 DEF Idle
<1>3. DOMAIN acc = Threads /\ DOMAIN buf = Threads /\ IsBuffer(buf[t])
  BY DEF Shapes, IsBuffer
<1>4. /\ acc'[t] = [a EXCEPT !.stage = "stored"] /\ buf'[t] = Overlay(buf[t], new)
      /\ \A u \in Threads \ {t} : acc'[u] = acc[u] /\ buf'[u] = buf[u]
  BY <1>1, <1>3
<1>5. /\ a = [AccessOf(a.v, a.i, a.n, "load", a.x) EXCEPT !.stage = a.stage]
      /\ a.x \in Values /\ a.v \in Vars /\ a.n \in Nat \ {0} /\ a.i \in 1 .. size[a.v] - a.n + 1
      /\ Dispatch(a.p) \in Direct \ {3} /\ IsCarmorPtr(a.p)
      /\ 0 .. a.n - 1 \subseteq DOMAIN buf[t]
  BY <1>1, <1>2 DEF AccessInv, AccessesInside
<1>6. LET b == acc'[t] IN
      /\ b = [AccessOf(a.v, a.i, a.n, "load", a.x) EXCEPT !.stage = "stored"]
      /\ b.stage = "stored" /\ b.v = a.v /\ b.i = a.i /\ b.n = a.n /\ b.x = a.x /\ b.p = a.p
  <2>1. AccessOf(a.v, a.i, a.n, "load", a.x) =
          [stage |-> "load", v |-> a.v, i |-> a.i, n |-> a.n, x |-> a.x,
           p |-> [ptr[a.v] EXCEPT !.addr = @ + a.i - 1]]
    BY DEF AccessOf
  <2>2. a = [stage |-> a.stage, v |-> a.v, i |-> a.i, n |-> a.n, x |-> a.x,
             p |-> [ptr[a.v] EXCEPT !.addr = @ + a.i - 1]]
    BY <1>5, <2>1
  <2> HIDE DEF a
  <2> QED
    BY <1>4, <2>1, <2>2
<1>7. DOMAIN Overlay(buf[t], new) = DOMAIN buf[t]
      /\ \A j \in 0 .. a.n - 1 : Overlay(buf[t], new)[j] = a.x
  BY <1>5 DEF Overlay, Same
<1> HIDE DEF a, new
<1>8. BlocksInv'
  BY <1>1, BlocksSame
<1>9. Shapes'
  <2>1. AreBuffers(buf') /\ acc' = [u \in Threads |-> acc'[u]]
    BY <1>1, <1>3 DEF AreBuffers
  <2>2. \A u \in Threads : IsBuffer(buf'[u])
    <3>1. IsBuffer(buf'[t])
      BY <1>3, <1>4, <1>7 DEF IsBuffer
    <3>2. \A u \in Threads \ {t} : IsBuffer(buf'[u])
      BY <1>4 DEF Shapes, IsBuffer
    <3> QED
      BY <3>1, <3>2
  <2> QED
    BY <1>1, <2>1, <2>2 DEF Shapes, IsBuffer, AreBuffers
<1>10. AccessesInside'
  <2> SUFFICES ASSUME NEW u \in Threads, acc'[u] # Idle
               PROVE  LET b == acc'[u] IN
                      /\ b = [AccessOf(b.v, b.i, b.n, "load", b.x) EXCEPT !.stage = b.stage]
                      /\ b.stage \in {"load", "store", "stored"}
                      /\ b.stage # "load" => b.x \in Values
                      /\ b.v \in Vars /\ b.n \in Nat \ {0} /\ b.i \in 1 .. size[b.v] - b.n + 1
                      /\ Dispatch(b.p) \in Direct \ {3} /\ IsCarmorPtr(b.p)
                      /\ 0 .. b.n - 1 \subseteq DOMAIN buf'[u]
    BY <1>1 DEF AccessesInside, AccessOf
  <2>1. CASE u = t
    BY <1>4, <1>5, <1>6, <1>7, <2>1
  <2>2. CASE u # t
    BY <1>4, <2>2 DEF AccessInv, AccessesInside
  <2> QED
    BY <2>1, <2>2
<1>11. NoRaces'
  <2> SUFFICES ASSUME NEW u \in Threads, NEW w \in Threads, u # w,
                      acc'[u] # Idle, acc'[w] # Idle, acc'[u].v = acc'[w].v
               PROVE  \/ acc'[u].i + acc'[u].n <= acc'[w].i \/ acc'[w].i + acc'[w].n <= acc'[u].i
                      \/ acc'[u].stage = "load" /\ acc'[w].stage = "load"
    BY DEF NoRaces
  <2>1. \A z \in Threads : acc'[z] # Idle =>
           /\ acc[z] # Idle
           /\ acc'[z].v = acc[z].v /\ acc'[z].i = acc[z].i /\ acc'[z].n = acc[z].n
           /\ acc[z].stage = "load" => acc'[z].stage = "load"
    BY <1>1, <1>2, <1>4, <1>6 DEF a
  <2> QED
    BY <2>1 DEF AccessInv, NoRaces
<1>12. StoredBytes'
  <2> SUFFICES ASSUME NEW u \in Threads, acc'[u] # Idle, acc'[u].stage = "stored",
                      NEW j \in 0 .. acc'[u].n - 1
               PROVE  buf'[u][j] = acc'[u].x
    BY DEF StoredBytes
  <2>1. CASE u = t
    BY <1>4, <1>6, <1>7, <2>1
  <2>2. CASE u # t
    BY <1>4, <2>2 DEF AccessInv, StoredBytes
  <2> QED
    BY <2>1, <2>2
<1>13. LinkedBytesCurrent'
  <2> SUFFICES ASSUME NEW u \in Threads, acc'[u] # Idle, acc'[u].stage # "stored"
               PROVE  \A j \in 0 .. acc'[u].n - 1 :
                        buf'[u][j] = Cells(mem, StoreOf(acc'[u].p), acc'[u].p.addr, acc'[u].n)[j]
    BY <1>1 DEF LinkedBytesCurrent
  <2>1. u # t
    BY <1>6
  <2> QED
    BY <1>4, <2>1 DEF AccessInv, LinkedBytesCurrent
<1> QED
  BY <1>1, <1>8, <1>9, <1>10, <1>11, <1>12, <1>13 DEF AccessStep, AccessInv


(* The writeback is the program's store: it changes the bytes of the       *)
(* access, and those of no other access in progress.                       *)
LEMMA WritebackStep ==
  ASSUME TagsInv, Shapes, BlocksInv, AccessInv, Running, NEW t \in Threads, Writeback(t)
  PROVE  AccessStep
<1> DEFINE a == acc[t]
           v == a.v
           n == a.n
           i == a.i
           k == Dispatch(a.p)
           f == DirectBuffer(t, k)
           new == [j \in 0 .. n - 1 |-> Held(f, j)]
<1>1. /\ a.stage = "stored" /\ mem' = Put(mem, k, a.p.addr, new)
      /\ buf' = [buf EXCEPT ![t] = f] /\ acc' = [acc EXCEPT ![t] = Idle]
      /\ UNCHANGED <<why, bad, taken, ptr, size>>
      /\ op' = <<"store", v, i, n, a.x>>
  BY DEF Writeback, WritebackDirect, WrittenBytes
<1>2. a # Idle
  BY <1>1 DEF Idle
<1>3. /\ v \in Vars /\ n \in Nat \ {0} /\ i \in Nat \ {0}
      /\ i + n - 1 <= size[v] /\ size[v] > 0
      /\ a.p.addr = ptr[v].addr + i - 1 /\ StoreOf(a.p) = StoreOf(ptr[v])
  BY <1>2, AccessPlace DEF AccessInv
<1>4. size[v] \in Nat /\ ptr[v].addr \in Nat
  BY <1>3 DEF Shapes
<1>5. /\ IsCarmorPtr(a.p) /\ a.x \in Values /\ 0 .. n - 1 \subseteq DOMAIN buf[t]
  BY <1>1, <1>2 DEF AccessInv, AccessesInside
<1>6. StoreOf(ptr[v]) = k
  BY <1>3, <1>5 DEF StoreOf
<1>7. f = buf[t]
  <2>1. 0 \in DOMAIN buf[t]
    BY <1>3, <1>5
  <2> QED
    BY <2>1 DEF DirectBuffer
<1>8. IsCells(new, n) /\ \A j \in 0 .. n - 1 : new[j] = a.x
  <2>1. \A j \in 0 .. n - 1 : buf[t][j] = a.x
    BY <1>1, <1>2 DEF AccessInv, StoredBytes
  <2> QED
    BY <1>5, <1>7, <2>1 DEF IsCells, Held
<1>9. buf' = buf
  BY <1>1, <1>7 DEF Shapes
<1>10. acc'[t] = Idle /\ \A u \in Threads \ {t} : acc'[u] = acc[u] /\ buf'[u] = buf[u]
  BY <1>1, <1>9 DEF Shapes
<1>11. acc' = [u \in Threads |-> acc'[u]]
  BY <1>1 DEF Shapes
<1>12. Inside(v, i, n)
  BY <1>3, <1>4 DEF Inside
<1>13. mem' = Put(mem, StoreOf(ptr[v]), ptr[v].addr + i - 1, new)
  BY <1>1, <1>3, <1>6
<1>14. ASSUME NEW u \in Threads \ {t}, acc[u] # Idle, acc[u].v = v
       PROVE  i + n <= acc[u].i \/ acc[u].i + acc[u].n <= i
  BY <1>1, <1>2, <1>14 DEF AccessInv, NoRaces
<1>15. a.x \in Values /\ op' = <<"store", v, i, n, a.x>>
  BY <1>1, <1>5
<1>16. UNCHANGED <<why, bad, taken, ptr, size>>
  BY <1>1
<1> DEFINE x == a.x
<1> HIDE DEF new, f, k, v, n, i, x
<1>17. C!Next
  BY <1>8, <1>12, <1>13, <1>15, <1>16, StoreRefines DEF x
<1>18. IsMemory(mem') /\ OtherBlocksKept(v) /\ OnlyNew(StoreOf(ptr[v]), ptr[v].addr + i - 1, n)
  BY <1>8, <1>12, <1>13, StoredCells
<1>19. BlocksInv'
  BY <1>16, BlocksSame
<1>20. Shapes'
  BY <1>9, <1>11, <1>16, <1>18 DEF Shapes, IsMemory
<1>21. ASSUME NEW u \in Threads \ {t}, acc[u] # Idle, acc[u].stage # "stored",
              BytesCurrent(u, mem)
       PROVE  BytesCurrent(u, mem')
  <2>1. CASE acc[u].v # v
    BY <1>3, <1>18, <1>21, <2>1, OtherAccess DEF AccessInv
  <2>2. CASE acc[u].v = v
    <3>1. /\ acc[u].n \in Nat \ {0} /\ acc[u].i \in Nat \ {0}
          /\ acc[u].i + acc[u].n - 1 <= size[v]
          /\ acc[u].p.addr = ptr[v].addr + acc[u].i - 1 /\ StoreOf(acc[u].p) = StoreOf(ptr[v])
      BY <1>21, <2>2, AccessPlace DEF AccessInv
    <3>2. ASSUME NEW j \in 0 .. acc[u].n - 1
          PROVE  mem'[StoreOf(acc[u].p)][acc[u].p.addr + j] = mem[StoreOf(acc[u].p)][acc[u].p.addr + j]
      <4> DEFINE c == acc[u].p.addr + j
      <4>1. c \in Int /\ ptr[v].addr <= c /\ c < ptr[v].addr + size[v]
        BY <1>4, <3>1
      <4>2. c < ptr[v].addr + i - 1 \/ ptr[v].addr + i - 1 + n <= c
        BY <1>3, <1>4, <1>14, <1>21, <2>2, <3>1
      <4>3. c \in Addrs /\ StoreOf(ptr[v]) \in Stores
        BY <1>3, <4>1, ObjectBlock
      <4> HIDE DEF c
      <4>4. mem'[StoreOf(ptr[v])][c] = mem[StoreOf(ptr[v])][c]
        BY <1>18, <4>2, <4>3 DEF OnlyNew
      <4> QED
        BY <3>1, <4>4 DEF c
    <3> QED
      BY <1>21, <3>2, BytesKept DEF AccessInv
  <2> QED
    BY <2>1, <2>2
<1>22. AccessInv'
  BY <1>10, <1>16, <1>21, AccessingAgain
<1> QED
  BY <1>17, <1>19, <1>20, <1>22 DEF AccessStep


---------------------------------------------------------------------------
(* HeapInv is inductive, and every step of Heap is one of CHeap.           *)

LEMMA AccessSteps ==
  ASSUME TagsInv, Shapes, BlocksInv, AccessInv, Running, NEW t \in Threads,
         Access(t) \/ Load(t) \/ Store(t) \/ Writeback(t), bad' = {}
  PROVE  AccessStep
<1>1. CASE Access(t)
  <2>1. PICK v \in Vars, n \in AccessSizes, x \in Values \cup {Junk} :
          \E i \in 1 .. size[v] - n + 1 :
            LET stage == IF x = Junk THEN "load" ELSE "store"
                a == AccessOf(v, i, n, stage, x)
            IN  /\ NoRace(t, v, i, n, stage)
                /\ AccessFlat(t, a) \/ AccessDirect(t, a)
    BY <1>1 DEF Access
  <2>2. PICK i \in 1 .. size[v] - n + 1 :
          LET stage == IF x = Junk THEN "load" ELSE "store"
              a == AccessOf(v, i, n, stage, x)
          IN  /\ NoRace(t, v, i, n, stage)
              /\ AccessFlat(t, a) \/ AccessDirect(t, a)
    BY <2>1
  <2> DEFINE stage == IF x = Junk THEN "load" ELSE "store"
             a == AccessOf(v, i, n, stage, x)
  <2>3. stage = "load" \/ (stage = "store" /\ x \in Values)
    OBVIOUS
  <2>4. NoRace(t, v, i, n, stage) /\ (AccessFlat(t, a) \/ AccessDirect(t, a))
    BY <2>2
  <2>5. a = AccessOf(v, i, n, stage, x) /\ acc[t] = Idle
    BY <1>1 DEF Access, MayCall
  <2> HIDE DEF stage, a
  <2>6. CASE AccessFlat(t, a)
    BY <2>3, <2>5, <2>6, FlatStep
  <2>7. CASE AccessDirect(t, a)
    BY <2>3, <2>4, <2>5, <2>7, LinkStep
  <2> QED
    BY <2>4, <2>6, <2>7
<1> QED
  BY <1>1, BufferLoadStep, BufferStoreStep, WritebackStep

LEMMA HeapInit ==
  ASSUME Init
  PROVE  HeapInv /\ C!Init
<1>1. /\ mem = [s \in Stores |-> [a \in Addrs |-> Junk]]
      /\ acc = [t \in Threads |-> Idle] /\ why = "no" /\ bad = {}
      /\ taken = [s \in Stores |-> {}] /\ ptr = [v \in Vars |-> Null]
      /\ size = [v \in Vars |-> 0] /\ op = <<"start">>
  BY DEF Init, LinkInit
<1>2. PICK first \in {<<>>} \cup {Same(PageSize[k], Junk) : k \in LinkedBefore} :
         buf = [t \in Threads |-> first]
  BY DEF Init, LinkInit
<1>3. IsBuffer(first)
  <2>1. CASE first = <<>>
    <3>1. DOMAIN first = {}
      BY <2>1
    <3>2. IsFiniteSet({}) /\ Cardinality({}) = 0
      BY FS_EmptySet
    <3> QED
      BY <3>1, <3>2 DEF IsBuffer
  <2>2. CASE \E k \in LinkedBefore : first = Same(PageSize[k], Junk)
    <3>1. PICK k \in LinkedBefore : first = Same(PageSize[k], Junk)
      BY <2>2
    <3>2. PageSize[k] \in Nat \ {0}
      BY LinkConstantsOK
    <3>3. PageSize[k] - 1 \in Int /\ 0 \in Int /\ ~(0 > PageSize[k] - 1)
      BY <3>2
    <3>4. /\ IsFiniteSet(0 .. PageSize[k] - 1)
          /\ Cardinality(0 .. PageSize[k] - 1) = PageSize[k] - 1 - 0 + 1
      BY <3>3, FS_Interval
    <3>5. DOMAIN first = 0 .. PageSize[k] - 1
      BY <3>1 DEF Same
    <3> QED
      BY <3>2, <3>4, <3>5 DEF IsBuffer
  <2> QED
    BY <2>1, <2>2
<1>4. TagsInv
  BY <1>1, UntaggedKnown DEF TagsInv
<1>5. Shapes
  <2>1. AreBuffers(buf) /\ \A t \in Threads : IsBuffer(buf[t])
    BY <1>2, <1>3 DEF AreBuffers
  <2>2. \A v \in Vars : ptr[v] = Pointer(ptr[v].tag, ptr[v].addr) /\ ptr[v].addr \in Nat
    BY <1>1 DEF Null, Pointer
  <2> QED
    BY <1>1, <2>1, <2>2 DEF Shapes, IsBuffer, AreBuffers
<1>6. BlocksInv
  <2>1. BlocksFit /\ BlocksApart /\ HasOwner /\ OneOwner
    BY <1>1 DEF BlocksFit, BlocksApart, HasOwner, OneOwner
  <2>2. HasBlock /\ NativeAtBase /\ NullIsEmpty
    BY <1>1 DEF HasBlock, NativeAtBase, NullIsEmpty
  <2> QED
    BY <2>1, <2>2 DEF BlocksInv
<1>7. AccessInv
  BY <1>1 DEF AccessInv, AccessesInside, NoRaces, StoredBytes, LinkedBytesCurrent
<1>8. C!Init
  <2>1. \A v \in Vars : ObjOf(v) = <<>>
    BY <1>1, EmptyObject
  <2> QED
    BY <1>1, <2>1 DEF C!Init
<1> QED
  BY <1>4, <1>5, <1>6, <1>7, <1>8 DEF HeapInv

(* The program goes on only while it runs. *)
LEMMA OnlyRunning ==
  ASSUME NEW t \in Threads, Call(t) \/ Access(t) \/ Load(t) \/ Store(t) \/ Writeback(t)
  PROVE  Running
<1>1. CASE Call(t)
  <2>1. ASSUME NEW k, NEW v, NEW n,
               \/ Malloc(t, k, v, n)
               \/ \E count \in Counts : Calloc(t, k, v, count, n)
               \/ \E alignment \in Alignments : Memalign(t, k, v, alignment, n)
               \/ \E c \in [1 .. n -> Values] : InitGlobal(t, k, v, c)
        PROVE  MayCall(t)
    BY <2>1 DEF Malloc, Calloc, Memalign, InitGlobal
  <2>2. ASSUME NEW v, NEW n,
               \/ Free(t, v) \/ ReallocMemalign(t, v)
               \/ ReallocNative(t, v, n) \/ ReallocInPlace(t, v, n) \/ ReallocMoves(t, v, n)
        PROVE  MayCall(t)
    BY <2>2 DEF Free, ReallocMemalign, ReallocNative, ReallocInPlace, ReallocMoves
  <2>3. MayCall(t)
    BY <1>1, <2>1, <2>2 DEF Call
  <2> QED
    BY <2>3 DEF MayCall
<1>2. CASE Access(t) \/ Load(t) \/ Store(t) \/ Writeback(t)
  BY <1>2 DEF Access, MayCall, Load, Store, Writeback
<1> QED
  BY <1>1, <1>2

LEMMA HeapStep ==
  ASSUME HeapInv, [Next]_vars
  PROVE  HeapInv' /\ [bad' # {} \/ C!Next]_<<mem, ptr, size, op>>
<1>1. CASE UNCHANGED vars
  <2>1. UNCHANGED <<mem, buf, acc, why, bad, taken, ptr, size, op>>
    BY <1>1 DEF vars, linkVars, heapVars
  <2>2. TagsInv' <=> TagsInv
    BY <2>1 DEF TagsInv
  <2>3. (Running' <=> Running) /\ (Shapes' <=> Shapes)
    BY <2>1 DEF Running, Shapes
  <2>4. BlocksInv => BlocksInv'
    BY <2>1, BlocksSame
  <2>5. AccessInv => AccessInv'
    <3>1. AccessesInside => AccessesInside'
      BY <2>1 DEF AccessesInside, AccessOf
    <3>2. NoRaces => NoRaces'
      BY <2>1 DEF NoRaces
    <3>3. StoredBytes => StoredBytes'
      BY <2>1 DEF StoredBytes
    <3>4. LinkedBytesCurrent => LinkedBytesCurrent'
      BY <2>1 DEF LinkedBytesCurrent, Running
    <3> QED
      BY <3>1, <3>2, <3>3, <3>4 DEF AccessInv
  <2> QED
    BY <2>1, <2>2, <2>3, <2>4, <2>5 DEF HeapInv
<1>2. CASE Next
  <2>1. PICK t \in Threads : Call(t) \/ Access(t) \/ Load(t) \/ Store(t) \/ Writeback(t)
    BY <1>2 DEF Next
  <2>2. Running
    BY <2>1, OnlyRunning
  <2>3. TagsInv /\ Shapes /\ BlocksInv /\ AccessInv
    BY <2>2 DEF HeapInv
  <2>4. TagsInv'
    BY <2>3, TagsStep
  <2>5. CASE bad' # {}
    BY <2>4, <2>5 DEF HeapInv, Running
  <2>6. CASE bad' = {}
    <3>1. CASE Call(t)
      <4>1. PICK v \in Vars : CallStep(t, v) /\ acc[t] = Idle /\ (NotAccessed(v) \/ size[v] = 0)
        BY <2>2, <2>3, <2>6, <3>1, CallSteps
      <4>2. C!Next /\ CallOf(t, v) /\ (Running' => Shapes' /\ BlocksInv')
        BY <4>1 DEF CallStep
      <4>3. AccessInv'
        BY <2>2, <2>3, <4>1, <4>2, CallKeepsAccesses
      <4> QED
        BY <2>4, <4>2, <4>3 DEF HeapInv
    <3>2. CASE Access(t) \/ Load(t) \/ Store(t) \/ Writeback(t)
      <4>1. AccessStep
        BY <2>2, <2>3, <2>6, <3>2, AccessSteps
      <4> QED
        BY <2>4, <4>1 DEF AccessStep, HeapInv
    <3> QED
      BY <2>1, <3>1, <3>2
  <2> QED
    BY <2>5, <2>6
<1> QED
  BY <1>1, <1>2


(* While the program runs, blocks fit their stores and are apart, objects  *)
(* and blocks belong to each other one to one, and accesses in progress    *)
(* lie in objects and buffers and do not race: the invariant behind the    *)
(* theorems below, for any lstores, sizes, threads and pointer variables.  *)
THEOREM HeapInvariant == Spec => []HeapInv
<1>1. Init => HeapInv
  BY HeapInit
<1>2. HeapInv /\ [Next]_vars => HeapInv'
  BY HeapStep
<1> QED
  BY <1>1, <1>2, PTL DEF Spec

(* Every block an allocator gave out is found again through the pointer of *)
(* one variable, which leads to the lstore that gave it: malloc's choice   *)
(* of an lstore and the tag agree in free and realloc, and nothing leaks.  *)
THEOREM BlocksAreOwned == Spec => []BlocksOwned
<1>1. HeapInv => BlocksOwned
  <2> SUFFICES ASSUME HeapInv, Running
               PROVE  /\ \A s \in Stores : \A b \in taken[s] :
                           \E v \in Vars :
                              /\ StoreOf(ptr[v]) = s /\ size[v] > 0
                              /\ ptr[v].addr .. ptr[v].addr + size[v] - 1 \subseteq Extent(b)
                      /\ \A v \in Vars : size[v] > 0 =>
                           \E b \in taken[StoreOf(ptr[v])] : ptr[v].addr \in Extent(b)
    BY DEF BlocksOwned, Running
  <2>1. TagsInv /\ Shapes /\ BlocksInv
    BY DEF HeapInv
  <2>2. ASSUME NEW s \in Stores, NEW b \in taken[s], NEW v \in Vars, Owns(v, s, b)
        PROVE  /\ ptr[v].addr .. ptr[v].addr + size[v] - 1 \subseteq Extent(b)
               /\ ptr[v].addr \in Extent(b)
    <3>1. b.base \in Nat /\ b.len \in Nat
      BY <2>1 DEF BlocksInv, BlocksFit, Addrs
    <3>2. ptr[v].addr \in Nat /\ size[v] \in Nat
      BY <2>1 DEF Shapes
    <3> QED
      BY <2>2, <3>1, <3>2 DEF Owns, Extent
  <2>3. ASSUME NEW s \in Stores, NEW b \in taken[s]
        PROVE  \E v \in Vars :
                  /\ StoreOf(ptr[v]) = s /\ size[v] > 0
                  /\ ptr[v].addr .. ptr[v].addr + size[v] - 1 \subseteq Extent(b)
    <3>1. PICK v \in Vars : Owns(v, s, b)
      BY <2>1 DEF BlocksInv, HasOwner
    <3> QED
      BY <2>2, <3>1 DEF Owns
  <2>4. ASSUME NEW v \in Vars, size[v] > 0
        PROVE  \E b \in taken[StoreOf(ptr[v])] : ptr[v].addr \in Extent(b)
    <3>1. PICK s \in Stores : \E b \in taken[s] : Owns(v, s, b)
      BY <2>1, <2>4 DEF BlocksInv, HasBlock
    <3>2. PICK b \in taken[s] : Owns(v, s, b)
      BY <3>1
    <3> QED
      BY <2>2, <3>2 DEF Owns
  <2> QED
    BY <2>3, <2>4
<1> QED
  BY <1>1, HeapInvariant, PTL

(* The bytes that a thread linked in a direct lstore are the storage's     *)
(* until the thread stores to them: no call and no writeback or fill of    *)
(* another thread changes the storage under a buffer.                      *)
THEOREM LinkedBytesStayCurrent == Spec => []LinkedBytesCurrent
<1>1. HeapInv => LinkedBytesCurrent
  BY DEF HeapInv, AccessInv, LinkedBytesCurrent
<1> QED
  BY <1>1, HeapInvariant, PTL

(* The wrappers, the links and the writebacks are a C heap (CHeap) up to   *)
(* the first use that the runtime promises nothing for (bad): each step    *)
(* does to the program's objects what its malloc, calloc, realloc, free,   *)
(* load or store says, or nothing.                                         *)
THEOREM HeapIsCHeap == Spec => HeapRefines
<1>1. Init => C!Init
  BY HeapInit
<1>2. HeapInv /\ [Next]_vars => [bad' # {} \/ C!Next]_<<mem, ptr, size, op>>
  BY HeapStep
<1> QED
  BY <1>1, <1>2, HeapInvariant, PTL DEF Spec, HeapRefines
================================================================================
