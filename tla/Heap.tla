--------------------------------- MODULE Heap ---------------------------------
(***************************************************************************)
(* The heap wrappers of armor_runtime.cpp over four lstores and native     *)
(* memory, with the program's accesses through the pointers they return.   *)
(* taken[s] is the set of the blocks that the allocator of the store s has *)
(* given out; ptr[v] is what the pointer variable v holds and size[v] the  *)
(* number of cells the program believes it may use there.                  *)
(***************************************************************************)
EXTENDS DirectLink, Sequences

CONSTANTS Vars, Mallocs, MinSize, MaxSize, Sizes, Counts, Alignments, SizeMod, IntMod

(* A malloc belongs to the lstore it was compiled for. *)
ASSUME MallocsOK == Mallocs \subseteq Lstores

(* Requests of no cells are the C library's affair. *)
ASSUME RequestsOK ==
    /\ Sizes \subseteq Nat \ {0} /\ Counts \subseteq Nat \ {0}
    /\ Alignments \subseteq Nat \ {0}
    /\ SizeMod \in Nat \ {0} /\ IntMod \in Nat \ {0}

VARIABLES taken, ptr, size, op
heapVars == <<taken, ptr, size, op>>
vars == <<linkVars, heapVars>>

Init ==
    /\ LinkInit
    /\ taken = [s \in Stores |-> {}]
    /\ ptr = [v \in Vars |-> Null]
    /\ size = [v \in Vars |-> 0]
    /\ op = <<"start">>

(* The size of a pointer, and the header that memalign puts before a block. *)
Header == 1

Block(a, n) == [base |-> a, len |-> n]
Extent(b) == b.base .. b.base + b.len - 1
Used(tk, s) == UNION {Extent(b) : b \in tk[s]}

(* What the allocator of the store s may answer for n cells: the lowest    *)
(* free range, or 0 for a failure, at any time.                            *)
Addresses(tk, s, n) ==
    LET free == {a \in Addrs : /\ a + n - 1 <= HeapTop
                               /\ Used(tk, s) \cap (a .. a + n - 1) = {}}
    IN  {0} \cup {a \in free : \A b \in free : a <= b}

Take(tk, s, a, n) == [tk EXCEPT ![s] = IF a = 0 THEN @ ELSE @ \cup {Block(a, n)}]
Drop(tk, s, a) == [tk EXCEPT ![s] = {b \in @ : b.base # a}]
Fresh(m, s, a, n) == IF a = 0 THEN m ELSE Put(m, s, a, Same(n, Junk))

BlockAt(p) == {b \in taken[StoreOf(p)] : b.base = p.addr}

(* The cells of a freed block mean nothing any more. *)
Scrap(m, s, a) ==
    LET gone == UNION {Extent(b) : b \in {c \in taken[s] : c.base = a}}
    IN  [m EXCEPT ![s] = [c \in Addrs |-> IF c \in gone THEN Junk ELSE @[c]]]

(* Faulty variant: a pointer tagged on top of another lstore's tag. *)
TaggedTwice(k, a) == MakeLstorePtr(k, MakeLstorePtr(2, Pointer({}, a)))

(* The pointer an lstore's wrapper returns. *)
Tagged(k, a) == MakeLstorePtr(k, Pointer({}, a))

(* __carmor_malloc of the lstore k, when the allocator answers a.          *)
Owner(k, n) == IF n < MinSize[k] \/ n >= MaxSize[k] THEN Native ELSE k

Malloced(k, n, a) ==
    LET s == Owner(k, n)
    IN  [mem |-> Fresh(mem, s, a, n),
         taken |-> Take(taken, s, a, n),
         p |-> IF s = Native THEN Pointer({}, a) ELSE Tagged(k, a),
         bad |-> IF s # Native /\ a = 0 THEN {"unchecked_alloc"} ELSE {}]

(* Only threads between two accesses make heap calls. *)
MayCall(t) == Running /\ acc[t] = Idle
Unused(v) == ptr[v] = Null
(* No thread is using the object: freeing it is the program's right. *)
NotAccessed(v) == \A t \in Threads : acc[t] # Idle => acc[t].v # v

Own(v, p, n) ==
    /\ ptr' = [ptr EXCEPT ![v] = p]
    /\ size' = [size EXCEPT ![v] = IF p = Null THEN 0 ELSE n]

(* What the program sees: the call's name, or that it failed or stopped. *)
Returned(p, stop, what) ==
    op' = IF p = Null \/ stop # "no" THEN <<"fail">> ELSE what

Malloc(t, k, v, n) ==
    /\ MayCall(t) /\ Unused(v)
    /\ \E a \in Addresses(taken, Owner(k, n), n) :
         LET r == Malloced(k, n, a)
         IN  /\ mem' = r.mem /\ taken' = r.taken /\ bad' = r.bad
             /\ Own(v, r.p, n) /\ Returned(r.p, "no", <<"malloc", v, n>>)
    /\ UNCHANGED <<buf, acc, why>>

(* size_t wraps when the product is computed, once for each callee. *)
Product(count, n) == (count * n) % SizeMod

Calloc(t, k, v, count, n) ==
    /\ MayCall(t) /\ Unused(v)
    /\ LET total == Product(count, n)
       IN  \E a \in Addresses(taken, Owner(k, total), total) :
             LET r == Malloced(k, total, a)
                 f == Fill(r.mem, t, r.p, total, Same(total, 0))
             IN  /\ mem' = f.mem /\ buf' = f.buf /\ why' = f.why
                 /\ bad' = r.bad \cup f.bad
                              \cup (IF total # count * n THEN {"calloc_wrap"} ELSE {})
                 /\ IF f.why = "no"
                      THEN taken' = r.taken /\ Own(v, r.p, count * n)
                      ELSE UNCHANGED <<taken, ptr, size>>
                 /\ Returned(r.p, f.why, <<"calloc", v, count * n>>)
    /\ UNCHANGED acc

(* The least aligned address that leaves room for the header. *)
Aligned(a, alignment) ==
    LET first == a + Header
    IN  first + ((alignment - (first % alignment)) % alignment)

(* Faulty variant: no room for the header. *)
PaddedNoHeader(n, alignment) == n + (alignment - 1)
Padded(n, alignment) == n + (alignment - 1) + Header

(* The base of the block goes in the cell before the aligned address,       *)
(* written to the memory itself and not through the lstore.                *)
Memalign(t, k, v, alignment, n) ==
    /\ MayCall(t) /\ Unused(v)
    /\ \E a \in Addresses(taken, k, Padded(n, alignment)) :
         LET m == Fresh(mem, k, a, Padded(n, alignment))
             aligned == Aligned(a, alignment)
             p == IF a = 0 THEN Null ELSE Tagged(k, aligned)
         IN  /\ taken' = Take(taken, k, a, Padded(n, alignment))
             /\ mem' = IF a = 0 THEN m
                       ELSE Put(m, k, aligned - Header, Same(Header, Junk))
             /\ Own(v, p, n) /\ Returned(p, "no", <<"malloc", v, n>>)
    /\ UNCHANGED <<buf, acc, why, bad>>

(* __carmor_init_global: the initial value of a global, the native cells   *)
(* c[0], c[1], ..., is copied to the lstore.  The template asks the lstore *)
(* without malloc's range check.                                           *)
InitGlobal(t, k, v, c) ==
    /\ MayCall(t) /\ Unused(v)
    /\ LET n == Len(c)
       IN  \E a \in Addresses(taken, k, n) :
             LET f == Fill(Fresh(mem, k, a, n), t, Tagged(k, a), n,
                           [i \in 0 .. n - 1 |-> c[i + 1]])
             IN  /\ mem' = f.mem /\ buf' = f.buf /\ why' = f.why
                 /\ bad' = f.bad \cup (IF a = 0 THEN {"unchecked_alloc"} ELSE {})
                 /\ IF f.why = "no"
                      THEN taken' = Take(taken, k, a, n) /\ Own(v, Tagged(k, a), n)
                      ELSE UNCHANGED <<taken, ptr, size>>
                 /\ Returned(Tagged(k, a), f.why, <<"global", v, c>>)
    /\ UNCHANGED acc

(* Faulty variant: the pointers of lstore 0 are freed by lstore 2. *)
FreedByNext(p) == IF StoreOf(p) = 0 THEN 2 ELSE StoreOf(p)
(* The lstore whose free a pointer reaches. *)
FreedBy(p) == StoreOf(p)

(* free(NULL) is the C library's, and changes nothing.  A pointer of        *)
(* memalign is not the base of any block.                                  *)
Free(t, v) ==
    /\ MayCall(t) /\ NotAccessed(v) /\ ~Unused(v)
    /\ LET s == FreedBy(ptr[v])
       IN  /\ taken' = Drop(taken, s, ptr[v].addr)
           /\ mem' = Scrap(mem, s, ptr[v].addr)
           /\ bad' = IF BlockAt(ptr[v]) = {} THEN {"memalign_free"} ELSE {}
    /\ Own(v, Null, 0) /\ op' = <<"free", v>>
    /\ UNCHANGED <<buf, acc, why>>

(* A native block is resized by the C library, in a block of its own. *)
ReallocNative(t, v, n) ==
    /\ MayCall(t) /\ NotAccessed(v) /\ ~IsCarmorPtr(ptr[v])
    /\ \E a \in Addresses(taken, Native, n) :
         LET kept == IF n < size[v] THEN n ELSE size[v]
             copy == Put(Fresh(mem, Native, a, n), Native, a,
                         Cells(mem, Native, ptr[v].addr, kept))
         IN  IF a = 0
               THEN op' = <<"fail">> /\ UNCHANGED <<mem, taken, ptr, size>>
               ELSE /\ taken' = Take(Drop(taken, Native, ptr[v].addr), Native, a, n)
                    /\ mem' = Scrap(copy, Native, ptr[v].addr)
                    /\ Own(v, Pointer({}, a), n) /\ op' = <<"realloc", v, n>>
    /\ UNCHANGED <<buf, acc, why, bad>>

(* int orig_ptr_size = lstore_alloc_size(...), and the same as a size_t. *)
ToInt(n) == ((n + IntMod \div 2) % IntMod) - IntMod \div 2
OrigSize(p) == ToInt((CHOOSE b \in BlockAt(p) : TRUE).len)
(* Faulty variant: an off-by-one in the comparison of the sizes. *)
FitsWithOneMore(p, n) == OrigSize(p) < 0 \/ OrigSize(p) + 1 >= n
FitsAlready(p, n) == OrigSize(p) < 0 \/ OrigSize(p) >= n

(* Enough room: the same pointer.                                          *)
ReallocInPlace(t, v, n) ==
    /\ MayCall(t) /\ NotAccessed(v) /\ IsCarmorPtr(ptr[v])
    /\ BlockAt(ptr[v]) # {} /\ FitsAlready(ptr[v], n)
    /\ bad' = IF OrigSize(ptr[v]) < 0 THEN {"int_size"} ELSE {}
    /\ Own(v, ptr[v], n) /\ op' = <<"realloc", v, n>>
    /\ UNCHANGED <<mem, buf, acc, why, taken>>

(* A new block, a copy and a free.  The copy between two pointers of a      *)
(* direct lstore is refused by an assertion.                               *)
ReallocMoves(t, v, n) ==
    /\ MayCall(t) /\ NotAccessed(v) /\ IsCarmorPtr(ptr[v])
    /\ BlockAt(ptr[v]) # {} /\ ~FitsAlready(ptr[v], n)
    /\ LET p == ptr[v]
           k == Dispatch(p)
           orig == OrigSize(p)
       IN  \/ /\ k \in Direct \cup {3}
              /\ Stop(IF k \in Direct THEN "assert" ELSE "lstore3")
              /\ op' = <<"fail">> /\ UNCHANGED <<taken, ptr, size>>
           \/ /\ k \notin Direct \cup {3}
              /\ \E a \in Addresses(taken, k, n) :
                   LET copy == Put(Fresh(mem, k, a, n), k, a, Cells(mem, k, p.addr, orig))
                   IN  /\ mem' = Scrap(copy, k, p.addr)
                       /\ taken' = Drop(Take(taken, k, a, n), k, p.addr)
                       /\ bad' = (IF a = 0 THEN {"unchecked_alloc"} ELSE {})
                                   \cup (IF orig < size[v] THEN {"int_size"} ELSE {})
                       /\ Own(v, Tagged(k, a), n) /\ op' = <<"realloc", v, n>>
              /\ UNCHANGED <<buf, acc, why>>

(* lstore_alloc_size is asked about an address that is no block's base. *)
ReallocMemalign(t, v) ==
    /\ MayCall(t) /\ NotAccessed(v) /\ IsCarmorPtr(ptr[v])
    /\ BlockAt(ptr[v]) = {}
    /\ bad' = {"memalign_free"} /\ op' = <<"fail">>
    /\ UNCHANGED <<mem, buf, acc, why, taken, ptr, size>>

(* Cells of one object that two threads access at once are not written:    *)
(* the program has no data race of its own.                                *)
NoRace(t, v, i, n, stage) ==
    \A u \in Threads \ {t} :
        (acc[u] # Idle /\ acc[u].v = v /\ (i .. i + n - 1)
                             \cap (acc[u].i .. acc[u].i + acc[u].n - 1) # {})
        => stage = "load" /\ acc[u].stage = "load"

AccessOf(v, i, n, stage, x) ==
    [stage |-> stage, v |-> v, i |-> i, n |-> n, x |-> x,
     p |-> [ptr[v] EXCEPT !.addr = @ + i - 1]]

Seen(v, f) == <<"load", v, [j \in 1 .. Cardinality(DOMAIN f) |-> f[j - 1]]>>

(* An access of n cells from the i-th on: the generic link returns a        *)
(* native pointer as it is, and selects the lstore of the others.          *)
AccessFlat(t, a) ==
    /\ StoreOf(a.p) \notin Direct
    /\ IF a.stage = "load"
         THEN /\ op' = Seen(a.v, Cells(mem, StoreOf(a.p), a.p.addr, a.n))
              /\ UNCHANGED mem
         ELSE /\ op' = <<"store", a.v, a.i, a.n, a.x>>
              /\ mem' = Put(mem, StoreOf(a.p), a.p.addr, Same(a.n, a.x))
    /\ UNCHANGED <<buf, acc, why, bad, taken, ptr, size>>

AccessDirect(t, a) ==
    /\ StoreOf(a.p) \in Direct
    /\ LinkDirect(t, a)
    /\ op' = IF why' = "no" THEN op ELSE <<"fail">>
    /\ UNCHANGED <<taken, ptr, size>>

Access(t) ==
    /\ MayCall(t)
    /\ \E v \in Vars, n \in AccessSizes, x \in Values \cup {Junk} :
        \E i \in 1 .. size[v] - n + 1 :
          LET stage == IF x = Junk THEN "load" ELSE "store"
              a == AccessOf(v, i, n, stage, x)
          IN  /\ NoRace(t, v, i, n, stage)
              /\ AccessFlat(t, a) \/ AccessDirect(t, a)

Load(t) ==
    /\ Running /\ LoadBuffer(t)
    /\ op' = Seen(acc[t].v, [i \in 0 .. acc[t].n - 1 |-> buf[t][i]])
    /\ UNCHANGED <<taken, ptr, size>>

Store(t) == Running /\ StoreBuffer(t) /\ UNCHANGED heapVars

Writeback(t) ==
    /\ Running /\ WritebackDirect(t)
    /\ op' = <<"store", acc[t].v, acc[t].i, acc[t].n, acc[t].x>>
    /\ UNCHANGED <<taken, ptr, size>>

Call(t) ==
    \/ \E k \in Mallocs, v \in Vars, n \in Sizes :
          \/ Malloc(t, k, v, n)
          \/ \E count \in Counts : Calloc(t, k, v, count, n)
          \/ \E alignment \in Alignments : Memalign(t, k, v, alignment, n)
          \/ \E c \in [1 .. n -> Values] : InitGlobal(t, k, v, c)
    \/ \E v \in Vars :
          \/ Free(t, v)
          \/ ReallocMemalign(t, v)
          \/ \E n \in Sizes : \/ ReallocNative(t, v, n)
                             \/ ReallocInPlace(t, v, n)
                             \/ ReallocMoves(t, v, n)

Next == \E t \in Threads : Call(t) \/ Access(t) \/ Load(t) \/ Store(t) \/ Writeback(t)

Spec == Init /\ [][Next]_vars
-----------------------------------------------------------------------------
(* The object behind a pointer variable: the cells the program may use. *)
ObjOf(v) ==
    [i \in 1 .. size[v] |->
        LET a == ptr[v].addr + i - 1
        IN  IF a \in Addrs THEN mem[StoreOf(ptr[v])][a] ELSE Junk]

C == INSTANCE CHeap WITH Sizes <- 1 .. HeapTop, obj <- [v \in Vars |-> ObjOf(v)]

(* Until an allocation fails unchecked, a memalign pointer is freed, a     *)
(* product or an int wraps, a direct lstore is filled by part of a page or *)
(* the buffer of a thread is too small, the wrappers are a C heap: objects *)
(* do not overlap, keep what was stored, start as zeros after calloc, keep *)
(* their contents in realloc, and a failing call changes nothing.          *)
HeapRefines == C!Init /\ [][bad' # {} \/ C!Next]_<<mem, ptr, size, op>>

(* Every block an allocator has given out belongs to one variable, whose   *)
(* pointer leads to the lstore that gave it: free and realloc reach that   *)
(* lstore, with the base of a block unless memalign moved it, and nothing  *)
(* leaks.                                                                  *)
BlocksOwned ==
    bad = {} /\ why = "no" =>
        /\ \A s \in Stores : \A b \in taken[s] :
              \E v \in Vars : /\ StoreOf(ptr[v]) = s /\ size[v] > 0
                             /\ ptr[v].addr .. ptr[v].addr + size[v] - 1 \subseteq Extent(b)
        /\ \A v \in Vars : size[v] > 0 =>
              \E b \in taken[StoreOf(ptr[v])] : ptr[v].addr \in Extent(b)

(* The bytes a thread linked are the storage's until it stores: no other   *)
(* thread's writeback or fill reached them, although pages are shared.     *)
LinkedBytesCurrent ==
    \A t \in Threads :
        acc[t] # Idle /\ acc[t].stage # "stored" /\ Running =>
            \A i \in 0 .. acc[t].n - 1 :
                buf[t][i] = Cells(mem, StoreOf(acc[t].p), acc[t].p.addr, acc[t].n)[i]

(* Every pointer the wrappers hand out is native or has the tag of one     *)
(* lstore, whatever the calls that made it: the default branches of the    *)
(* switches, which abort, are never taken.                                 *)
TagsKnown == \A v \in Vars : StoreOf(ptr[v]) # NoCase
-----------------------------------------------------------------------------
(* What makes the invariants above inductive, part by part.                *)

KnownTags == {{}} \cup {LstoreMask(k) : k \in Lstores}

TagsInv ==
    /\ ptr = [v \in Vars |-> ptr[v]]
    /\ \A v \in Vars : ptr[v].tag \in KnownTags

(* The domains of what the states are made of. *)
Shapes ==
    /\ mem = [s \in Stores |-> [a \in Addrs |-> mem[s][a]]]
    /\ buf = [t \in Threads |-> buf[t]]
    /\ \A t \in Threads : /\ IsFiniteSet(DOMAIN buf[t])
                          /\ DOMAIN buf[t] = 0 .. Cardinality(DOMAIN buf[t]) - 1
    /\ acc = [t \in Threads |-> acc[t]]
    /\ taken = [s \in Stores |-> taken[s]]
    /\ size \in [Vars -> Nat]
    /\ \A v \in Vars : ptr[v] = Pointer(ptr[v].tag, ptr[v].addr) /\ ptr[v].addr \in Nat

(* Blocks lie in their store, and two blocks of a store share no cell. *)
BlocksFit ==
    \A s \in Stores : \A b \in taken[s] :
        /\ b = Block(b.base, b.len) /\ b.base \in Addrs /\ b.len \in Nat \ {0}
        /\ b.base + b.len - 1 <= HeapTop

BlocksApart ==
    \A s \in Stores : \A b, c \in taken[s] :
        b = c \/ b.base + b.len <= c.base \/ c.base + c.len <= b.base

(* The object of v is in the block b of the store s. *)
Owns(v, s, b) ==
    /\ size[v] > 0 /\ StoreOf(ptr[v]) = s
    /\ b.base <= ptr[v].addr /\ ptr[v].addr + size[v] <= b.base + b.len

(* Objects and blocks belong to each other: each object has a block, each  *)
(* block one object.                                                       *)
HasBlock ==
    \A v \in Vars : size[v] > 0 => \E s \in Stores : \E b \in taken[s] : Owns(v, s, b)
HasOwner == \A s \in Stores : \A b \in taken[s] : \E v \in Vars : Owns(v, s, b)
OneOwner ==
    \A s \in Stores : \A b \in taken[s] : \A u, v \in Vars :
        Owns(u, s, b) /\ Owns(v, s, b) => u = v

(* Only an lstore has memalign: the C library gets the base of a block. *)
NativeAtBase ==
    \A v \in Vars : size[v] > 0 /\ StoreOf(ptr[v]) = Native =>
        \E b \in taken[Native] : b.base = ptr[v].addr

NullIsEmpty == \A v \in Vars : size[v] = 0 <=> ptr[v] = Null

BlocksInv ==
    /\ BlocksFit /\ BlocksApart
    /\ HasBlock /\ HasOwner /\ OneOwner
    /\ NativeAtBase /\ NullIsEmpty

(* An access in progress lies in an object of a direct lstore, and in the  *)
(* buffer of its thread.                                                   *)
AccessesInside ==
    \A t \in Threads : acc[t] # Idle =>
        LET a == acc[t] IN
        /\ a = [AccessOf(a.v, a.i, a.n, "load", a.x) EXCEPT !.stage = a.stage]
        /\ a.stage \in {"load", "store", "stored"}
        /\ a.stage # "load" => a.x \in Values
        /\ a.v \in Vars /\ a.n \in Nat \ {0} /\ a.i \in 1 .. size[a.v] - a.n + 1
        /\ Dispatch(a.p) \in Direct \ {3} /\ IsCarmorPtr(a.p)
        /\ 0 .. a.n - 1 \subseteq DOMAIN buf[t]

(* Accesses in progress that share a cell are loads. *)
NoRaces ==
    \A t, u \in Threads :
        t # u /\ acc[t] # Idle /\ acc[u] # Idle /\ acc[t].v = acc[u].v =>
            \/ acc[t].i + acc[t].n <= acc[u].i \/ acc[u].i + acc[u].n <= acc[t].i
            \/ acc[t].stage = "load" /\ acc[u].stage = "load"

(* A buffer that was stored to holds the value stored. *)
StoredBytes ==
    \A t \in Threads : acc[t] # Idle /\ acc[t].stage = "stored" =>
        \A i \in 0 .. acc[t].n - 1 : buf[t][i] = acc[t].x

AccessInv == AccessesInside /\ NoRaces /\ StoredBytes /\ LinkedBytesCurrent

HeapInv == TagsInv /\ (Running => Shapes /\ BlocksInv /\ AccessInv)
===============================================================================
