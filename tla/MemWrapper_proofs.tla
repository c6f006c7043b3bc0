-------------------------- MODULE MemWrapper_proofs --------------------------
(***************************************************************************)
(* Proofs about MemWrapper for every page size, every number of pages,     *)
(* frames and TLB slots, and every program that calls the memory           *)
(* intrinsics on ranges inside its objects: as long as no link drops a     *)
(* page the wrapper has an address into, a call does what the libc         *)
(* function would have done on flat memory.                                *)
(* No link does in a thread's first call on operands that share no page.   *)
(***************************************************************************)
EXTENDS MemWrapper, CarmorLink_proofs, WellFoundedInduction

---------------------------------------------------------------------------
(* Data *)

LEMMA Sizes ==
  PageSize \in Nat \ {0} /\ Cardinality(Pages) \in Nat /\ Bytes \in Nat /\ NativeSize \in Nat
<1>1. Cardinality(Pages) \in Nat
  BY ConstantsOK, FS_CardinalityType
<1>2. PageSize \in Nat \ {0} /\ NativeSize \in Nat
  BY WrapperConstantsOK
<1> DEFINE c == Cardinality(Pages)
<1> HIDE DEF c
<1>3. c \in Nat => PageSize * c \in Nat
  BY <1>2
<1> QED
  BY <1>1, <1>2, <1>3 DEF Bytes, c

LEMMA PagesOffsets ==
  Pages \subseteq Nat /\ Offsets \subseteq Nat /\ Offsets = 0 .. (PageSize - 1)
<1> DEFINE c == Cardinality(Pages)
<1>1. Pages = 0 .. (c - 1) /\ c \in Nat
  BY WrapperConstantsOK, Sizes
<1> HIDE DEF c
<1>2. Pages \subseteq Nat
  BY <1>1
<1>3. PageSize \in Nat /\ Offsets = 0 .. (PageSize - 1)
  BY WrapperConstantsOK
<1>4. Offsets \subseteq Nat
  BY <1>3
<1> QED
  BY <1>2, <1>3, <1>4

(* Byte n is at an offset of a page, ... *)
LEMMA StorageByte ==
  ASSUME NEW n \in 0 .. (Bytes - 1)
  PROVE  /\ n \div PageSize \in Pages /\ n % PageSize \in Offsets
         /\ n = PageSize * (n \div PageSize) + (n % PageSize)
BY Sizes, WrapperConstantsOK, BytePlace DEF Bytes

(* ... and every offset of a page is a byte. *)
LEMMA PageByte ==
  ASSUME NEW p \in Pages, NEW o \in Offsets
  PROVE  /\ PageSize * p + o \in 0 .. (Bytes - 1)
         /\ (PageSize * p + o) \div PageSize = p
         /\ (PageSize * p + o) % PageSize = o
BY Sizes, WrapperConstantsOK, PlaceByte DEF Bytes

(* Bytes k places behind n are on the same page, if the page reaches there. *)
LEMMA SamePage ==
  ASSUME NEW n \in 0 .. (Bytes - 1), NEW k \in Nat, (n % PageSize) + k < PageSize
  PROVE  /\ n + k \in 0 .. (Bytes - 1)
         /\ (n + k) \div PageSize = n \div PageSize
         /\ (n + k) % PageSize = (n % PageSize) + k
<1> DEFINE p == n \div PageSize
           o == n % PageSize
<1>1. /\ p \in Pages /\ o \in Offsets /\ n = PageSize * p + o
      /\ Offsets = 0 .. (PageSize - 1) /\ PageSize \in Nat
  BY StorageByte, WrapperConstantsOK
<1>2. o + k \in Offsets
  BY <1>1
<1>3. n + k = PageSize * p + (o + k)
  <2> DEFINE z == PageSize * p
  <2>1. n = z + o /\ z \in Int
    <3> HIDE DEF p
    <3>1. p \in Int
      BY <1>1, PagesOffsets
    <3> QED
      BY <1>1, <3>1
  <2> HIDE DEF z, o
  <2>2. o \in Int
    BY <1>1
  <2>3. n + k = z + (o + k)
    BY <2>1, <2>2
  <2> QED
    BY <2>3 DEF z
<1> QED
  BY <1>1, <1>2, <1>3, PageByte

LEMMA LeastNat ==
  ASSUME NEW S, S \subseteq Nat, S # {}
  PROVE  \E x \in S : \A y \in S : x <= y
<1> DEFINE R == {ss \in Nat \X Nat : ss[1] < ss[2]}
<1>1. IsWellFoundedOn(R, Nat)
  BY NatLessThanWellFounded DEF OpToRel
<1> HIDE DEF R
<1>2. PICK x \in S : \A y \in S : ~(<<y, x>> \in R)
  BY <1>1, WFMin
<1>3. ASSUME NEW y \in S
      PROVE  x <= y
  <2>1. x \in Nat /\ y \in Nat /\ ~(<<y, x>> \in R)
    BY <1>2
  <2>2. ~(y < x)
    BY <2>1 DEF R
  <2> QED
    BY <2>1, <2>2
<1> QED
  BY <1>3

LEMMA FirstOf ==
  ASSUME NEW S, S \subseteq Nat, S # {}
  PROVE  First(S) \in S /\ \A y \in S : First(S) <= y
<1>1. \E x \in S : \A y \in S : x <= y
  BY LeastNat
<1> QED
  BY <1>1 DEF First

LEMMA FirstIs ==
  ASSUME NEW S, S \subseteq Nat, NEW x \in S, \A y \in S : x <= y
  PROVE  First(S) = x
<1>1. First(S) \in S /\ First(S) <= x
  BY FirstOf
<1>2. x \in Nat /\ First(S) \in Nat /\ x <= First(S)
  BY <1>1
<1> QED
  BY <1>1, <1>2

LEMMA UnlimitedIs ==
  Unlimited \in Nat \ {0}
BY DEF Unlimited


(* What advancing an address changes. *)
LEMMA AdvanceKind ==
  ASSUME NEW p \in Pointers \cup FramePlaces, NEW k \in Nat
  PROVE  /\ Advance(p, k).kind = p.kind
         /\ p.kind \in {"tagged", "native"} =>
              Advance(p, k).a = p.a + k /\ p.a \in Nat
              /\ Advance(p, k) = [kind |-> p.kind, a |-> p.a + k]
         /\ p.kind = "byte" => Advance(p, k) = p
         /\ p.kind = "frame" => /\ p \in FramePlaces /\ Advance(p, k).f = p.f
                                /\ Advance(p, k).o = p.o + k /\ p.o \in Nat
         /\ p.kind # "frame" => p \in Pointers
         /\ p.kind \in {"tagged", "native", "byte", "frame"}
<1>1. Offsets \subseteq Nat
  BY PagesOffsets
<1>2. CASE p \in [kind : {"tagged"}, a : 0 .. (Bytes - 1)]
  BY <1>2, Sizes DEF Advance, Pointers
<1>3. CASE p \in [kind : {"native"}, a : 0 .. NativeSize]
  BY <1>3, Sizes DEF Advance, Pointers
<1>4. CASE p \in [kind : {"byte"}, a : Values]
  BY <1>4 DEF Advance, Pointers
<1>5. CASE p \in FramePlaces
  BY <1>1, <1>5 DEF Advance, FramePlaces
<1> QED
  BY <1>2, <1>3, <1>4, <1>5 DEF Pointers

LEMMA AdvanceTwice ==
  ASSUME NEW p \in Pointers, NEW j \in Nat, NEW k \in Nat
  PROVE  Advance(Advance(p, j), k) = Advance(p, j + k)
<1>1. CASE p \in [kind : {"tagged"}, a : 0 .. (Bytes - 1)]
  BY <1>1, Sizes DEF Advance
<1>2. CASE p \in [kind : {"native"}, a : 0 .. NativeSize]
  BY <1>2, Sizes DEF Advance
<1>3. CASE p \in [kind : {"byte"}, a : Values]
  BY <1>3 DEF Advance
<1> QED
  BY <1>1, <1>2, <1>3 DEF Pointers

LEMMA PointerKinds ==
  ASSUME NEW p \in Pointers
  PROVE  /\ p.kind \in {"tagged", "native", "byte"}
         /\ p.kind = "tagged" => p.a \in 0 .. (Bytes - 1) /\ p = [kind |-> "tagged", a |-> p.a]
         /\ p.kind = "native" => p.a \in 0 .. NativeSize /\ p = [kind |-> "native", a |-> p.a]
         /\ p.kind = "byte" => p.a \in Values
         /\ Advance(p, 0) = p
<1>1. CASE p \in [kind : {"tagged"}, a : 0 .. (Bytes - 1)]
  BY <1>1, Sizes DEF Advance
<1>2. CASE p \in [kind : {"native"}, a : 0 .. NativeSize]
  BY <1>2, Sizes DEF Advance
<1>3. CASE p \in [kind : {"byte"}, a : Values]
  BY <1>3 DEF Advance
<1> QED
  BY <1>1, <1>2, <1>3 DEF Pointers

LEMMA CallFields ==
  ASSUME NEW c \in ProgramCalls
  PROVE  /\ c.func \in Funcs /\ c.func \notin {"none", "returned"}
         /\ c.l \in Pointers /\ c.r \in Pointers
         /\ c.n \in Nat /\ c.l.kind # "byte" /\ Fits(c.l, c.n) /\ Fits(c.r, c.n)
         /\ \A s \in Sides : Operand(c, s) \in Pointers /\ Fits(Operand(c, s), c.n)
<1>1. c \in [func : Funcs, l : Pointers, r : Pointers, n : 0 .. IntMax]
      /\ c.l.kind # "byte" /\ Fits(c.l, c.n) /\ Fits(c.r, c.n)
  BY DEF ProgramCalls
<1>2. \A s \in Sides : Operand(c, s) \in {c.l, c.r}
  BY DEF Operand
<1>3. c.n \in Nat
  <2>1. c.n \in 0 .. IntMax
    BY <1>1
  <2>2. IntMax \in Int
    BY SMT DEF IntMax
  <2> QED
    BY <2>1, <2>2
<1>4. c.func \notin {"none", "returned"}
  BY <1>1 DEF Funcs, Writes
<1> QED
  BY <1>1, <1>2, <1>3, <1>4


---------------------------------------------------------------------------
(* The raw addresses stay valid *)

(* The address an operand is linked for. *)
LEMMA RequestIs ==
  ASSUME PlacesInv, NEW t \in Threads, NEW s \in todo[t]
  PROVE  /\ InCall(t) /\ IsTagged(ptr[t][s]) /\ s \in Sides
         /\ ptr[t][s].a \in 0 .. (Bytes - 1)
         /\ RequestOf(t, s) \in Accesses
         /\ RequestOf(t, s).page = ptr[t][s].a \div PageSize
         /\ RequestOf(t, s).off = ptr[t][s].a % PageSize
         /\ RequestOf(t, s).dirty = (s = "l" /\ call[t].func \in Writes)
<1>1. WrapperTypes /\ CallInv(t)
  BY DEF PlacesInv
<1>2. s \in Sides /\ InCall(t)
  BY <1>1 DEF WrapperTypes, CallInv
<1>3. IsTagged(ptr[t][s])
  BY <1>1, <1>2 DEF CallInv, OperandInv
<1>4. ptr[t][s] \in Pointers
  BY <1>1, <1>2 DEF WrapperTypes
<1>5. ptr[t][s].a \in 0 .. (Bytes - 1)
  BY <1>3, <1>4, PointerKinds DEF IsTagged
<1>6. ptr[t][s].a \div PageSize \in Pages /\ ptr[t][s].a % PageSize \in Offsets
  BY <1>5, StorageByte
<1>7. Accesses = [page : Pages, off : Offsets, dirty : BOOLEAN]
  BY WrapperConstantsOK
<1> DEFINE b == ptr[t][s].a \div PageSize
           o == ptr[t][s].a % PageSize
           d == s = "l" /\ call[t].func \in Writes
<1>8. RequestOf(t, s) = [page |-> b, off |-> o, dirty |-> d]
  BY DEF RequestOf
<1>9. b \in Pages /\ o \in Offsets /\ d \in BOOLEAN
  BY <1>6
<1> HIDE DEF b, o, d
<1>10. /\ RequestOf(t, s) \in Accesses /\ RequestOf(t, s).page = b
       /\ RequestOf(t, s).off = o /\ RequestOf(t, s).dirty = d
  <2>1. RequestOf(t, s) \in [page : Pages, off : Offsets, dirty : BOOLEAN]
    BY <1>8, <1>9
  <2>2. RequestOf(t, s).page = b /\ RequestOf(t, s).off = o
    BY <1>8
  <2>3. RequestOf(t, s).dirty = d
    BY <1>8, <1>9
  <2> QED
    BY <1>7, <2>1, <2>2, <2>3
<1> QED
  BY <1>2, <1>3, <1>5, <1>10 DEF b, o, d

LEMMA NextIsToDo ==
  ASSUME WrapperTypes, NEW t \in Threads, todo[t] # {}
  PROVE  NextSide(t) \in todo[t]
<1>1. todo[t] \subseteq Sides
  BY DEF WrapperTypes
<1> QED
  BY <1>1 DEF Sides, NextSide

(* What a linked operand's raw address is. *)
LEMMA PlaceIs ==
  ASSUME PlacesInv, NEW t \in Threads, InCall(t), NEW s \in Sides, s \notin todo[t]
  PROVE  LET op == Operand(call[t], s)
             p == place[t][s]
         IN  /\ op \in Pointers /\ Done(t) \in Nat /\ ctr[t] \in Nat
             /\ call[t].n \in Nat /\ call[t].n = Done(t) + ctr[t] /\ call[t] \in ProgramCalls
             /\ ptr[t][s] = Advance(op, Done(t))
             /\ op.kind = "tagged" =>
                  /\ IsTagged(ptr[t][s])
                  /\ p \in FramePlaces /\ p.kind = "frame" /\ op.a + Done(t) \in 0 .. (Bytes - 1)
                  /\ ptr[t][s].a = op.a + Done(t)
                  /\ cache[p.f] = (op.a + Done(t)) \div PageSize
                  /\ p.o = (op.a + Done(t)) % PageSize
                  /\ s = "l" /\ call[t].func \in Writes => StoresTo(t, cache[p.f])
             /\ op.kind # "tagged" => p = Advance(op, Done(t)) /\ ~IsTagged(ptr[t][s])
<1> DEFINE op == Operand(call[t], s)
           p == place[t][s]
<1>1. LinkInv /\ WrapperTypes /\ CallInv(t)
  BY DEF PlacesInv
<1>2. call[t] \in ProgramCalls
  BY <1>1 DEF WrapperTypes, InCall, NoCall, Returned
<1>3. op \in Pointers /\ call[t].n \in Nat
  BY <1>2, CallFields
<1>4. ctr[t] \in Nat /\ ctr[t] <= call[t].n
  BY <1>1 DEF WrapperTypes, CallInv
<1>5. Done(t) \in Nat /\ call[t].n = Done(t) + ctr[t]
  BY <1>3, <1>4 DEF Done
<1>6. OperandInv(t, s)
  BY <1>1 DEF CallInv
<1>7. ptr[t][s] = Advance(op, Done(t)) /\ ptr[t][s] \in Pointers
  BY <1>1, <1>6 DEF OperandInv, WrapperTypes
<1>8. ptr[t][s].kind = op.kind
  BY <1>3, <1>5, <1>7, AdvanceKind
<1>9. ASSUME op.kind = "tagged"
      PROVE  /\ p \in FramePlaces /\ p.kind = "frame" /\ op.a + Done(t) \in 0 .. (Bytes - 1)
             /\ ptr[t][s].a = op.a + Done(t)
             /\ cache[p.f] = (op.a + Done(t)) \div PageSize
             /\ p.o = (op.a + Done(t)) % PageSize
             /\ s = "l" /\ call[t].func \in Writes => StoresTo(t, cache[p.f])
  <2>1. ptr[t][s].a = op.a + Done(t)
    BY <1>3, <1>5, <1>7, <1>9, AdvanceKind
  <2>2. ptr[t][s].a \in 0 .. (Bytes - 1)
    BY <1>7, <1>8, <1>9, PointerKinds
  <2>3. p.kind = "frame" /\ LinkStays(t, s)
    BY <1>6, <1>8, <1>9 DEF OperandInv, IsTagged
  <2>4. p \in Pointers \cup FramePlaces
    BY <1>1 DEF WrapperTypes
  <2>5. p \in FramePlaces
    BY <2>3, <2>4, PointerKinds
  <2>6. PICK j \in Counted(t) :
          /\ tlb[t][j].bs = ptr[t][s].a \div PageSize
          /\ tlb[t][j].epc = p.f /\ p.o = ptr[t][s].a % PageSize
          /\ s = "l" /\ call[t].func \in Writes => tlb[t][j].dirty
    BY <2>3 DEF LinkStays
  <2>7. cache[p.f] = tlb[t][j].bs
    BY <1>1, <2>6 DEF LinkInv, TlbCoherent
  <2>8. s = "l" /\ call[t].func \in Writes => StoresTo(t, cache[p.f])
    BY <2>6, <2>7 DEF StoresTo
  <2> QED
    BY <2>1, <2>2, <2>3, <2>5, <2>6, <2>7, <2>8
<1>10. op.kind # "tagged" => p = Advance(op, Done(t)) /\ ~IsTagged(ptr[t][s])
  BY <1>6, <1>7, <1>8 DEF OperandInv, IsTagged
<1>11. op.kind = "tagged" => IsTagged(ptr[t][s])
  BY <1>8 DEF IsTagged
<1> QED
  BY <1>2, <1>3, <1>4, <1>5, <1>7, <1>9, <1>10, <1>11


(* The steps of one thread leave the calls of the others alone. *)
SameFor(u) ==
    /\ call'[u] = call[u] /\ ptr'[u] = ptr[u] /\ place'[u] = place[u] /\ todo'[u] = todo[u]
    /\ ctr'[u] = ctr[u] /\ tlb'[u] = tlb[u] /\ pc'[u] = pc[u] /\ req'[u] = req[u]

LEMMA OthersKept ==
  ASSUME PlacesInv, NEW u \in Threads, SameFor(u)
  PROVE  CallInv(u)'
<1>1. CallInv(u)
  BY DEF PlacesInv
<1>2. Counted(u)' = Counted(u)
  BY DEF Counted, SameFor
<1>3. /\ InCall(u)' = InCall(u) /\ NextSide(u)' = NextSide(u) /\ Done(u)' = Done(u)
      /\ \A s : RequestOf(u, s)' = RequestOf(u, s)
  BY DEF InCall, NextSide, Done, RequestOf, SameFor
<1>4. \A s : LinkStays(u, s)' = LinkStays(u, s)
  BY <1>2 DEF LinkStays, SameFor
<1>5. \A s : OperandInv(u, s)' = OperandInv(u, s)
  BY <1>3, <1>4 DEF OperandInv, SameFor
<1> QED
  BY <1>1, <1>3, <1>5 DEF CallInv, SameFor

LEMMA PlacesStep ==
  ASSUME PlacesInv, NEW t \in Threads, \A u \in Threads \ {t} : SameFor(u),
         LinkInv', WrapperTypes', CallInv(t)'
  PROVE  PlacesInv'
<1>1. \A u \in Threads \ {t} : CallInv(u)'
  BY OthersKept
<1> QED
  BY <1>1 DEF PlacesInv

LEMMA BeginPlaces ==
  ASSUME PlacesInv, NEW t \in Threads, NEW c \in Calls, Begin(t, c)
  PROVE  PlacesInv'
<1>1. LinkInv /\ WrapperTypes /\ CallInv(t) /\ UNCHANGED vars /\ UNCHANGED native
  BY DEF PlacesInv, Begin
<1>2. /\ c \in ProgramCalls /\ c.func \notin {"none", "returned"} /\ c.n \in Nat
      /\ \A s \in Sides : Operand(c, s) \in Pointers
  BY CallsOK, CallFields
<1>3. /\ call' = [call EXCEPT ![t] = c]
      /\ ptr' = [ptr EXCEPT ![t] = [s \in Sides |-> Operand(c, s)]]
      /\ place' = [place EXCEPT ![t] = [s \in Sides |-> Operand(c, s)]]
      /\ todo' = [todo EXCEPT ![t] = {s \in Sides : IsTagged(Operand(c, s))}]
      /\ ctr' = [ctr EXCEPT ![t] = c.n]
      /\ result' = result
      /\ goal' = [goal EXCEPT ![t] = Goal(c)]
      /\ call[t] = NoCall
  BY DEF Begin
<1>4. /\ call'[t] = c /\ ptr'[t] = [s \in Sides |-> Operand(c, s)]
      /\ place'[t] = [s \in Sides |-> Operand(c, s)]
      /\ todo'[t] = {s \in Sides : IsTagged(Operand(c, s))} /\ ctr'[t] = c.n
      /\ tlb' = tlb /\ pc' = pc /\ req' = req
  BY <1>1, <1>3 DEF WrapperTypes, vars, threadVars
<1>5. \A u \in Threads \ {t} : SameFor(u)
  BY <1>1, <1>3, <1>4 DEF WrapperTypes, SameFor
<1>6. LinkInv'
  BY <1>1, StutterInv
<1>7. WrapperTypes'
  <2>1. \A s \in Sides : Operand(c, s) \in Pointers \cup FramePlaces
    BY <1>2
  <2>2. /\ [s \in Sides |-> Operand(c, s)] \in [Sides -> Pointers]
        /\ [s \in Sides |-> Operand(c, s)] \in [Sides -> Pointers \cup FramePlaces]
    BY <1>2, <2>1
  <2> QED
    BY <1>1, <1>2, <1>3, <2>2 DEF WrapperTypes
<1>8. pc[t] = "idle"
  <2>1. ~InCall(t)
    BY <1>3 DEF InCall, NoCall
  <2> QED
    BY <1>1, <2>1 DEF CallInv
<1>9. Done(t)' = 0
  BY <1>2, <1>4 DEF Done
<1>10. ASSUME NEW s \in Sides
       PROVE  OperandInv(t, s)'
  <2>1. ptr'[t][s] = Operand(c, s) /\ place'[t][s] = Operand(c, s)
        /\ (s \in todo'[t] <=> IsTagged(Operand(c, s)))
    BY <1>4
  <2>2. Advance(Operand(c, s), 0) = Operand(c, s)
    BY <1>2, PointerKinds
  <2>3. Operand(call[t], s)' = Operand(c, s)
    BY <1>4 DEF Operand
  <2>4. ptr'[t][s] = Advance(Operand(call[t], s)', Done(t)')
    BY <1>9, <2>1, <2>2, <2>3
  <2> QED
    BY <2>1, <2>4 DEF OperandInv, Advance
<1>11. InCall(t)'
  BY <1>2, <1>4 DEF InCall
<1>12. CallInv(t)'
  BY <1>2, <1>4, <1>8, <1>10, <1>11 DEF CallInv
<1> QED
  BY <1>5, <1>6, <1>7, <1>12, PlacesStep

LEMMA LeavePlaces ==
  ASSUME PlacesInv, NEW t \in Threads, Leave(t)
  PROVE  PlacesInv'
<1>1. LinkInv /\ WrapperTypes /\ CallInv(t) /\ UNCHANGED vars
      /\ UNCHANGED <<ptr, place, todo, ctr, result, native, goal, made>>
      /\ call' = [call EXCEPT ![t] = NoCall] /\ call[t].func = "returned"
  BY DEF PlacesInv, Leave
<1>2. call'[t] = NoCall /\ tlb' = tlb /\ pc' = pc /\ req' = req
      /\ \A u \in Threads \ {t} : SameFor(u)
  BY <1>1 DEF WrapperTypes, vars, threadVars, SameFor
<1>3. LinkInv'
  BY <1>1, StutterInv
<1>4. WrapperTypes'
  BY <1>1 DEF WrapperTypes
<1>5. ~InCall(t) /\ ~InCall(t)'
  BY <1>1, <1>2 DEF InCall, NoCall
<1>6. CallInv(t)'
  BY <1>1, <1>2, <1>5 DEF CallInv
<1> QED
  BY <1>2, <1>3, <1>4, <1>6, PlacesStep


(* A step inside a link keeps the wrapper's own state, ... *)
LEMMA LinkKept ==
  ASSUME PlacesInv, NEW t \in Threads, UNCHANGED wrapperVars, todo[t] # {}, LinkInv',
         \A u \in Threads \ {t} : tlb'[u] = tlb[u] /\ pc'[u] = pc[u] /\ req'[u] = req[u],
         req'[t] = RequestOf(t, NextSide(t)),
         \A s \in Sides \ todo[t] :
            place[t][s].kind = "frame" /\ LinkStays(t, s) => LinkStays(t, s)'
  PROVE  PlacesInv'
<1> USE DEF wrapperVars
<1>1. WrapperTypes /\ CallInv(t)
  BY DEF PlacesInv
<1>2. \A u \in Threads \ {t} : SameFor(u)
  BY DEF SameFor
<1>3. WrapperTypes'
  BY <1>1 DEF WrapperTypes
<1>4. /\ InCall(t)' = InCall(t) /\ NextSide(t)' = NextSide(t) /\ Done(t)' = Done(t)
      /\ \A s : RequestOf(t, s)' = RequestOf(t, s)
  BY DEF InCall, NextSide, Done, RequestOf
<1>5. InCall(t) /\ ctr[t] <= call[t].n /\ \A s \in Sides : OperandInv(t, s)
  BY <1>1 DEF CallInv
<1>6. ASSUME NEW s \in Sides
      PROVE  OperandInv(t, s)'
  BY <1>4, <1>5 DEF OperandInv
<1>7. req'[t] = RequestOf(t, NextSide(t))'
  BY <1>4
<1>8. CallInv(t)'
  BY <1>4, <1>5, <1>6, <1>7 DEF CallInv
<1> QED
  BY <1>2, <1>3, <1>8, PlacesStep

LEMMA PageFaultPlaces ==
  ASSUME PlacesInv, NEW t \in Threads, PageFault(t)
  PROVE  PlacesInv'
<1> DEFINE s == NextSide(t)
           r == RequestOf(t, s)
<1>1. LinkInv /\ TypeOK /\ WrapperTypes /\ todo[t] # {} /\ UNCHANGED wrapperVars
  BY DEF PlacesInv, LinkInv, PageFault
<1>2. r \in Accesses
  BY <1>1, NextIsToDo, RequestIs
<1>3. LinkHit(t, r) \/ LinkMiss(t, r)
  BY DEF PageFault
<1> HIDE DEF r
<1>4. LinkInv'
  BY <1>1, <1>2, <1>3, LinkHitInv, LinkMissInv
<1>5. pc[t] = "idle" /\ req' = [req EXCEPT ![t] = r] /\ pc'[t] \in {"linked", "fault"}
      /\ \A u \in Threads \ {t} : tlb'[u] = tlb[u] /\ pc'[u] = pc[u] /\ req'[u] = req[u]
  BY <1>1, <1>3 DEF LinkHit, LinkMiss, TypeOK
<1>6. req'[t] = r
  BY <1>1, <1>5 DEF TypeOK
<1>7. ASSUME NEW j \in Slots
      PROVE  /\ tlb'[t][j].bs = tlb[t][j].bs /\ tlb'[t][j].epc = tlb[t][j].epc
             /\ tlb[t][j].dirty => tlb'[t][j].dirty
  <2>1. CASE LinkMiss(t, r)
    BY <2>1 DEF LinkMiss
  <2>2. CASE LinkHit(t, r)
    <3> DEFINE i == FirstHit(t, r.page)
               E == [bs : Pages \cup {NoPage, 0}, epc : 0 .. (EpcMod - 1), dirty : BOOLEAN]
    <3>1. tlb' = [tlb EXCEPT ![t][i].dirty = @ \/ r.dirty]
      BY <2>2 DEF LinkHit
    <3> HIDE DEF i
    <3>2. tlb \in [Threads -> [Slots -> E]]
      BY <1>1 DEF TypeOK
    <3>3. tlb[t][j] \in E
      BY <3>2
    <3>4. CASE j # i
      BY <3>1, <3>2, <3>4
    <3>5. CASE j = i
      <4>1. tlb'[t][j] = [tlb[t][j] EXCEPT !.dirty = @ \/ r.dirty]
        BY <3>1, <3>2, <3>5
      <4> QED
        BY <3>3, <4>1
    <3> QED
      BY <3>4, <3>5
  <2> QED
    BY <1>3, <2>1, <2>2
<1>8. Counted(t) \subseteq Counted(t)' /\ Counted(t) \subseteq Slots
  BY <1>5, <1>7 DEF Counted
<1>9. ASSUME NEW x \in Sides \ todo[t], LinkStays(t, x)
      PROVE  LinkStays(t, x)'
  BY <1>1, <1>7, <1>8, <1>9 DEF LinkStays, wrapperVars
<1>10. req'[t] = RequestOf(t, NextSide(t))
  BY <1>6 DEF r
<1> QED
  BY <1>1, <1>4, <1>5, <1>9, <1>10, LinkKept

LEMMA LinkStepPlaces ==
  ASSUME LstoreMod = IndexMod, PlacesInv, DroppedNotInUse, NEW t \in Threads,
         LinkStep(t), UNCHANGED wrapperVars
  PROVE  PlacesInv'
<1>1. LinkInv /\ TypeOK /\ WrapperTypes /\ CallInv(t)
  BY DEF PlacesInv, LinkInv
<1>2. pc[t] \in {"fault", "drop", "insert"} /\ req' = req
  BY DEF LinkStep, FaultResident, FaultLoad, Drop, Insert
<1>3. LinkInv'
  BY <1>1, FaultResidentInv, FaultLoadInv, DropInv, InsertInv DEF LinkStep
<1>4. \A u \in Threads \ {t} : tlb'[u] = tlb[u] /\ pc'[u] = pc[u] /\ req'[u] = req[u]
  BY <1>1 DEF LinkStep, FaultResident, FaultLoad, Drop, Insert, TypeOK
<1>5. todo[t] # {} /\ req'[t] = RequestOf(t, NextSide(t)) /\ InCall(t)
  BY <1>1, <1>2 DEF CallInv
<1>6. ASSUME NEW s \in Sides \ todo[t], NEW j \in Counted(t),
             place[t][s].kind = "frame", tlb[t][j].epc = place[t][s].f
      PROVE  \E k \in Counted(t)' : tlb'[t][k] = tlb[t][j]
  <2>1. CASE FaultResident(t) \/ FaultLoad(t)
    <3>1. tlb' = tlb /\ pc[t] = "fault" /\ pc'[t] = "drop"
      BY <1>1, <2>1 DEF FaultResident, FaultLoad, TypeOK
    <3>2. Counted(t)' = Counted(t)
      BY <3>1 DEF Counted
    <3> QED
      BY <3>1, <3>2
  <2>2. CASE Drop(t)
    <3>1. tlb' = tlb /\ pc[t] = "drop" /\ pc'[t] = "insert"
      BY <1>1, <2>2 DEF Drop, TypeOK
    <3>2. Counted(t)' = Counted(t) \ {TLBSize}
      BY <3>1 DEF Counted
    <3>3. cache[tlb[t][j].epc] # tlb[t][TLBSize].bs
      BY <1>6, <3>1 DEF DroppedNotInUse
    <3>4. cache[tlb[t][j].epc] = tlb[t][j].bs
      BY <1>1 DEF LinkInv, TlbCoherent
    <3>5. j # TLBSize
      BY <3>3, <3>4
    <3> QED
      BY <3>1, <3>2, <3>5
  <2>3. CASE Insert(t)
    <3>1. /\ pc[t] = "insert" /\ pc'[t] = "linked"
          /\ tlb'[t] = [k \in Slots |->
               IF k = 1 THEN Entry(AsSigned(req[t].page), EpcIndex(res[t]), req[t].dirty)
                        ELSE tlb[t][k - 1]]
      BY <1>1, <2>3 DEF Insert, TypeOK
    <3>2. j \in Slots /\ j # TLBSize /\ j + 1 \in Slots /\ j + 1 # 1 /\ (j + 1) - 1 = j
      BY <3>1, ConstantsOK DEF Counted, Slots
    <3>3. tlb'[t][j + 1] = tlb[t][j]
      BY <3>1, <3>2
    <3>4. j + 1 \in Counted(t)'
      BY <3>1, <3>2, <3>3 DEF Counted
    <3> QED
      BY <3>3, <3>4
  <2> QED
    BY <2>1, <2>2, <2>3 DEF LinkStep
<1>7. ASSUME NEW s \in Sides \ todo[t], place[t][s].kind = "frame", LinkStays(t, s)
      PROVE  LinkStays(t, s)'
  <2>1. PICK j \in Counted(t) :
        /\ tlb[t][j].bs = ptr[t][s].a \div PageSize
        /\ tlb[t][j].epc = place[t][s].f /\ place[t][s].o = ptr[t][s].a % PageSize
        /\ s = "l" /\ call[t].func \in Writes => tlb[t][j].dirty
    BY <1>7 DEF LinkStays
  <2>2. PICK k \in Counted(t)' : tlb'[t][k] = tlb[t][j]
    BY <1>6, <1>7, <2>1
  <2> QED
    BY <2>1, <2>2 DEF LinkStays, wrapperVars
<1> QED
  BY <1>3, <1>4, <1>5, <1>7, LinkKept


(* The raw address a link returned points to the operand's byte, on a page *)
(* that the thread's TLB has.                                              *)
LEMMA PageFaultedPlaces ==
  ASSUME PlacesInv, NEW t \in Threads, PageFaulted(t)
  PROVE  PlacesInv'
<1> DEFINE s == NextSide(t)
           new == [kind |-> "frame", f |-> res[t], o |-> req[t].off]
<1>1. /\ todo[t] # {} /\ pc[t] = "linked" /\ Return(t)
      /\ UNCHANGED <<tlb, val, lstoreVars, call, ptr, ctr, result, native, goal, made>>
      /\ place' = [place EXCEPT ![t][s] = new]
      /\ todo' = [todo EXCEPT ![t] = @ \ {s}]
  BY DEF PageFaulted
<1>2. LinkInv /\ TypeOK /\ WrapperTypes /\ CallInv(t)
  BY DEF PlacesInv, LinkInv
<1>3. s \in todo[t] /\ s \in Sides /\ req[t] = RequestOf(t, s) /\ InCall(t)
  BY <1>1, <1>2, NextIsToDo DEF CallInv, WrapperTypes
<1>4. /\ IsTagged(ptr[t][s]) /\ ptr[t][s].a \in 0 .. (Bytes - 1)
      /\ req[t].page = ptr[t][s].a \div PageSize /\ req[t].off = ptr[t][s].a % PageSize
      /\ req[t].dirty = (s = "l" /\ call[t].func \in Writes)
  BY <1>3, RequestIs
<1>5. PICK j \in Counted(t) : /\ tlb[t][j].bs = req[t].page
                              /\ tlb[t][j].epc = res[t]
                              /\ res[t] \in Frames
                              /\ req[t].dirty => tlb[t][j].dirty
  BY <1>1, <1>2, LinkedCounted
<1>6. new \in FramePlaces /\ new.kind = "frame" /\ new.f = res[t] /\ new.o = req[t].off
  <2>1. req[t].off \in Offsets
    BY <1>4, StorageByte
  <2> QED
    BY <1>5, <2>1 DEF FramePlaces
<1> HIDE DEF new, s
<1>7. LinkInv'
  BY <1>1, <1>2, ReturnInv
<1>8. /\ \A u \in Threads \ {t} : SameFor(u)
      /\ place'[t][s] = new /\ todo'[t] = todo[t] \ {s} /\ pc'[t] = "idle"
      /\ \A x \in Sides \ {s} : place'[t][x] = place[t][x]
  BY <1>1, <1>2, <1>3 DEF WrapperTypes, Return, TypeOK, SameFor
<1>9. WrapperTypes'
  <2> DEFINE P == Pointers \cup FramePlaces
  <2>1. place \in [Threads -> [Sides -> P]] /\ new \in P
    BY <1>2, <1>6 DEF WrapperTypes
  <2> HIDE DEF P
  <2>2. place' \in [Threads -> [Sides -> P]]
    BY <1>1, <2>1
  <2>3. todo' \in [Threads -> SUBSET Sides]
    BY <1>1, <1>2 DEF WrapperTypes
  <2>4. place' \in [Threads -> [Sides -> Pointers \cup FramePlaces]]
    BY <2>2 DEF P
  <2> QED
    BY <1>1, <1>2, <2>3, <2>4 DEF WrapperTypes
<1>10. Counted(t)' = Counted(t)
  BY <1>1, <1>8 DEF Counted
<1>11. InCall(t)' = InCall(t) /\ Done(t)' = Done(t)
  BY <1>1 DEF InCall, Done
<1>12. ASSUME NEW x \in Sides
       PROVE  OperandInv(t, x)'
  <2>1. OperandInv(t, x)
    BY <1>2, <1>3 DEF CallInv
  <2>2. CASE x # s
    <3>1. place'[t][x] = place[t][x] /\ (x \in todo'[t] <=> x \in todo[t])
      BY <1>8, <2>2
    <3>2. LinkStays(t, x) => LinkStays(t, x)'
      BY <1>1, <1>10, <3>1 DEF LinkStays
    <3> QED
      BY <1>1, <1>11, <2>1, <3>1, <3>2 DEF OperandInv
  <2>3. CASE x = s
    <3>1. place'[t][x] = new /\ x \notin todo'[t] /\ ptr'[t][x] = ptr[t][s]
      BY <1>1, <1>8, <2>3
    <3>2. s = "l" /\ call[t].func \in Writes => tlb[t][j].dirty
      BY <1>4, <1>5
    <3>3. LinkStays(t, x)'
      BY <1>1, <1>4, <1>5, <1>6, <1>10, <2>3, <3>1, <3>2 DEF LinkStays
    <3> QED
      BY <1>1, <1>4, <1>6, <1>11, <2>1, <2>3, <3>1, <3>3 DEF OperandInv
  <2> QED
    BY <2>2, <2>3
<1>13. CallInv(t)'
  BY <1>1, <1>2, <1>3, <1>8, <1>11, <1>12 DEF CallInv
<1> QED
  BY <1>7, <1>8, <1>9, <1>13, PlacesStep

(* A fault of another thread takes no frame that is in use here, and what  *)
(* the program sees stays the same.                                        *)
LEMMA TakenInv ==
  ASSUME LinkInv, NEW f \in Frames, TakenByOthers(f)
  PROVE  LinkInv' /\ Mem' = Mem
<1> DEFINE q == cache[f]
<1>1. /\ TypeOK /\ q # NoPage /\ Loadable(f)
      /\ cache' = [cache EXCEPT ![f] = NoPage]
      /\ backing' = IF dirty[q] THEN [backing EXCEPT ![q] = data[f]] ELSE backing
      /\ dirty' = [dirty EXCEPT ![q] = FALSE]
      /\ data' = [data EXCEPT ![f] = [o \in Offsets |-> 0]]
      /\ UNCHANGED <<threadVars, ref, wrapperVars>>
  BY DEF LinkInv, TakenByOthers
<1>2. q \in Pages /\ [o \in Offsets |-> 0] \in [Offsets -> Values]
  BY <1>1, ValuesOK DEF TypeOK
<1> HIDE DEF q
<1>3. /\ \A g \in Frames : g # f => cache'[g] = cache[g] /\ data'[g] = data[g] /\ cache[g] # q
      /\ cache'[f] = NoPage /\ cache[f] = q
  BY <1>1 DEF q, TypeOK, LinkInv, CacheInjective
<1>4. /\ \A p \in Pages : p # q => backing'[p] = backing[p] /\ dirty'[p] = dirty[p]
      /\ \A p \in Pages : ~dirty[p] => ~dirty'[p]
      /\ dirty[q] => backing'[q] = data[f]
      /\ ~dirty[q] => backing'[q] = backing[q]
  BY <1>1, <1>2, <1>3 DEF TypeOK
<1>5. /\ \A t \in Threads : \A i \in Counted(t) : tlb[t][i].epc # f
      /\ \A t \in Threads : pc[t] \in {"drop", "insert"} => res[t] # f
  BY <1>1, LoadableUnused
<1>6. /\ \A t \in Threads : Counted(t)' = Counted(t)
      /\ \A t \in Threads : \A i \in Counted(t) :
            tlb[t][i].bs \in Pages /\ tlb[t][i].epc \in Frames
  <2>1. \A t \in Threads : Counted(t)' = Counted(t)
    BY <1>1 DEF Counted, threadVars
  <2>2. ASSUME NEW t \in Threads, NEW i \in Counted(t)
        PROVE  tlb[t][i].bs \in Pages /\ tlb[t][i].epc \in Frames
    BY Conversions DEF LinkInv, EntriesUsable, Counted, NoPage
  <2> QED
    BY <2>1, <2>2
<1>7. \A p : Holders(p)' = Holders(p)
  BY <1>1, <1>6 DEF Holders, threadVars
<1>8. TypeOK'
  BY <1>1, <1>2 DEF TypeOK, threadVars
<1>9. ReqPending' /\ EntriesUsable' /\ NoDuplicates' /\ MissStaysMissed' /\ LinkedEntry'
  BY <1>1 DEF LinkInv, ReqPending, EntriesUsable, NoDuplicates, MissStaysMissed,
              LinkedEntry, threadVars
<1>10. InFlightStays'
  BY <1>1, <1>3, <1>5 DEF LinkInv, InFlightStays, threadVars
<1>11. TlbCoherent'
  BY <1>1, <1>3, <1>5, <1>6 DEF LinkInv, TlbCoherent, threadVars
<1>12. CacheInjective'
  BY <1>3 DEF LinkInv, CacheInjective
<1>13. RefMatches'
  BY <1>1, <1>7 DEF LinkInv, RefMatches
<1>14. NothingLost'
  <2> SUFFICES ASSUME NEW g \in Frames, cache'[g] # NoPage
               PROVE  \/ dirty'[cache'[g]]
                      \/ \E t \in Threads : \E i \in Counted(t) :
                            tlb[t][i].bs = cache'[g] /\ tlb[t][i].dirty
                      \/ data'[g] = backing'[cache'[g]]
    BY <1>1, <1>6 DEF NothingLost, threadVars
  <2>1. g # f /\ cache'[g] = cache[g] /\ data'[g] = data[g] /\ cache[g] # q
    BY <1>3
  <2>2. cache[g] \in Pages
    BY <1>1, <2>1 DEF TypeOK
  <2>3. backing'[cache[g]] = backing[cache[g]] /\ dirty'[cache[g]] = dirty[cache[g]]
    BY <1>4, <2>1, <2>2
  <2> QED
    BY <2>1, <2>3 DEF LinkInv, NothingLost
<1>15. LinkInv'
  BY <1>8, <1>9, <1>10, <1>11, <1>12, <1>13, <1>14 DEF LinkInv
<1>16. ASSUME NEW p \in Pages
       PROVE  Mem'[p] = Mem[p]
  <2>1. /\ \A g \in Frames : cache[g] = p => Mem[p] = data[g]
        /\ (\A g \in Frames : cache[g] # p) => Mem[p] = backing[p]
    BY MemAt DEF LinkInv
  <2>2. /\ \A g \in Frames : cache'[g] = p => Mem'[p] = data'[g]
        /\ (\A g \in Frames : cache'[g] # p) => Mem'[p] = backing'[p]
    BY <1>12, MemAtNext
  <2>3. CASE p = q
    <3>1. \A g \in Frames : cache'[g] # q
      BY <1>1, <1>3
    <3>2. backing'[q] = data[f]
      <4>1. CASE dirty[q]
        BY <1>4, <4>1
      <4>2. CASE ~dirty[q]
        <5>1. Holders(q) = {}
          BY <1>1, <1>2, UnreferencedUnheld DEF Loadable, q
        <5>2. data[f] = backing[q]
          BY <1>1, <1>3, <4>2, <5>1 DEF LinkInv, NothingLost, Holders
        <5> QED
          BY <1>4, <4>2, <5>2
      <4> QED
        BY <4>1, <4>2
    <3> QED
      BY <1>3, <2>1, <2>2, <2>3, <3>1, <3>2
  <2>4. CASE p # q
    <3>1. p # NoPage
      BY Conversions
    <3>2. CASE \E g \in Frames : cache[g] = p
      <4>1. PICK g \in Frames : cache[g] = p
        BY <3>2
      <4>2. g # f /\ cache'[g] = p /\ data'[g] = data[g]
        BY <1>3, <2>4, <4>1
      <4> QED
        BY <2>1, <2>2, <4>1, <4>2
    <3>3. CASE \A g \in Frames : cache[g] # p
      <4>1. \A g \in Frames : cache'[g] # p
        BY <1>3, <3>1, <3>3
      <4> QED
        BY <1>4, <2>1, <2>2, <2>4, <3>3, <4>1
    <3> QED
      BY <3>2, <3>3
  <2> QED
    BY <2>3, <2>4
<1>17. Mem' = Mem
  BY <1>16 DEF Mem
<1> QED
  BY <1>15, <1>17

LEMMA TakenPlaces ==
  ASSUME PlacesInv, NEW f \in Frames, TakenByOthers(f)
  PROVE  PlacesInv'
<1>1. LinkInv' /\ UNCHANGED <<threadVars, wrapperVars>>
  BY TakenInv DEF PlacesInv, TakenByOthers
<1>2. \A u \in Threads : SameFor(u)
  BY <1>1 DEF SameFor, threadVars, wrapperVars
<1>3. \A u \in Threads : CallInv(u)'
  BY <1>2, OthersKept
<1>4. WrapperTypes'
  BY <1>1 DEF PlacesInv, WrapperTypes, wrapperVars
<1> QED
  BY <1>1, <1>3, <1>4 DEF PlacesInv


---------------------------------------------------------------------------
(* What is read and written through raw addresses *)

(* Up to the end of its page a raw address reaches the bytes the operand   *)
(* has in the memory the program sees.                                     *)
LEMMA RawByte ==
  ASSUME PlacesInv, NEW t \in Threads, InCall(t), NEW s \in Sides, s \notin todo[t],
         NEW i \in Nat, i < Left(t, s), i < ctr[t]
  PROVE  /\ ByteAt(place[t][s], i) = SeenAt(Operand(call[t], s), Done(t) + i)
         /\ SeenAt(Operand(call[t], s), Done(t) + i) \in Values
<1> DEFINE op == Operand(call[t], s)
           p == place[t][s]
           d == Done(t)
           n == op.a + d
<1>1. LinkInv /\ TypeOK /\ WrapperTypes
  BY DEF PlacesInv, LinkInv
<1>2. /\ op \in Pointers /\ d \in Nat /\ ctr[t] \in Nat
      /\ call[t].n \in Nat /\ call[t].n = d + ctr[t] /\ call[t] \in ProgramCalls
      /\ op.kind = "tagged" =>
                  /\ IsTagged(ptr[t][s])
                  /\ p \in FramePlaces /\ p.kind = "frame" /\ n \in 0 .. (Bytes - 1)
                  /\ cache[p.f] = n \div PageSize
                  /\ p.o = n % PageSize
      /\ op.kind # "tagged" => p = Advance(op, d)
  BY PlaceIs
<1>3. op.kind \in {"tagged", "native", "byte"}
  BY <1>2, PointerKinds
<1>4. Fits(op, call[t].n)
  BY <1>2, CallFields
<1> HIDE DEF op, p, d
<1>5. CASE op.kind = "tagged"
  <2>1. p \in FramePlaces /\ p.kind = "frame" /\ n \in 0 .. (Bytes - 1)
        /\ cache[p.f] = n \div PageSize /\ p.o = n % PageSize /\ IsTagged(ptr[t][s])
    BY <1>2, <1>5
  <2>2. Left(t, s) = PageSize - p.o /\ PageSize \in Nat
    BY <2>1, WrapperConstantsOK DEF Left, p
  <2>3. n % PageSize \in Nat /\ n \div PageSize \in Pages
    BY <2>1, StorageByte, PagesOffsets
  <2>4. (n % PageSize) + i < PageSize
    <3> DEFINE x == n % PageSize
               l == Left(t, s)
    <3>1. x \in Nat /\ l = PageSize - x /\ i < l
      BY <2>1, <2>2, <2>3
    <3> HIDE DEF x, l
    <3>2. x + i < PageSize
      BY <2>2, <3>1
    <3> QED
      BY <3>2 DEF x
  <2>5. n \in Nat /\ op.a + (d + i) = n + i
    <3>1. op.a \in Nat
      BY <1>2, <1>5, PointerKinds
    <3> QED
      BY <1>2, <3>1
  <2> HIDE DEF n
  <2>6. /\ (n + i) \div PageSize = n \div PageSize
        /\ (n + i) % PageSize = (n % PageSize) + i
        /\ n + i \in 0 .. (Bytes - 1)
    BY <2>1, <2>4, SamePage
  <2>7. ByteAt(p, i) = data[p.f][(n % PageSize) + i]
    BY <2>1 DEF ByteAt
  <2>8. SeenAt(op, d + i) = Mem[n \div PageSize][(n % PageSize) + i]
    <3>1. SeenAt(op, d + i) = Mem[(op.a + (d + i)) \div PageSize][(op.a + (d + i)) % PageSize]
      BY <1>5 DEF SeenAt
    <3> QED
      BY <2>5, <2>6, <3>1
  <2>9. Mem[n \div PageSize] = data[p.f]
    <3>1. p.f \in Frames
      BY <2>1 DEF FramePlaces
    <3> QED
      BY <1>1, <2>1, <2>3, <3>1, MemAt DEF LinkInv
  <2>10. data[p.f][(n % PageSize) + i] \in Values
    <3>1. (n % PageSize) + i \in Offsets
      BY <2>6, StorageByte
    <3>2. p.f \in Frames
      BY <2>1 DEF FramePlaces
    <3> QED
      BY <1>1, <3>1, <3>2 DEF TypeOK
  <2> QED
    BY <2>7, <2>8, <2>9, <2>10 DEF op, p, d
<1>6. CASE op.kind = "native"
  <2>1. /\ op.a \in Nat /\ Advance(op, d) = [kind |-> "native", a |-> op.a + d]
        /\ op.a + call[t].n <= NativeSize
    BY <1>2, <1>4, <1>6, AdvanceKind DEF Fits
  <2>2. p.kind = "native" /\ p.a = op.a + d
    BY <1>2, <1>6, <2>1
  <2>3. ByteAt(p, i) = native[(op.a + d) + i] /\ SeenAt(op, d + i) = native[op.a + (d + i)]
    BY <1>6, <2>2 DEF ByteAt, SeenAt
  <2>4. (op.a + d) + i = op.a + (d + i) /\ op.a + (d + i) \in 0 .. (NativeSize - 1)
    <3> DEFINE a == op.a
               m == call[t].n
               c == ctr[t]
    <3>1. a \in Nat /\ m \in Nat /\ c \in Nat /\ m = d + c /\ i < c /\ a + m <= NativeSize
          /\ d \in Nat /\ NativeSize \in Nat
      BY <1>2, <2>1, Sizes
    <3> HIDE DEF a, m, c
    <3>2. (a + d) + i = a + (d + i) /\ a + (d + i) \in 0 .. (NativeSize - 1)
      BY <3>1
    <3> QED
      BY <3>2 DEF a
  <2>5. native[op.a + (d + i)] \in Values
    BY <1>1, <2>4 DEF WrapperTypes
  <2> QED
    BY <2>3, <2>4, <2>5 DEF op, p, d
<1>7. CASE op.kind = "byte"
  <2>1. p = op /\ op.a \in Values
    BY <1>2, <1>7, AdvanceKind, PointerKinds
  <2>2. ByteAt(p, i) = op.a /\ SeenAt(op, d + i) = op.a
    BY <1>7, <2>1 DEF ByteAt, SeenAt
  <2> QED
    BY <2>1, <2>2 DEF op, p, d
<1> QED
  BY <1>3, <1>5, <1>6, <1>7

(* The bytes left on an operand's page. *)
LEMMA LeftIs ==
  ASSUME PlacesInv, NEW t \in Threads, InCall(t), NEW s \in Sides, s \notin todo[t]
  PROVE  /\ Left(t, s) \in Nat \ {0}
         /\ IsTagged(ptr[t][s]) => Left(t, s) = PageSize - place[t][s].o
<1>1. CASE IsTagged(ptr[t][s])
  <2>1. place[t][s] \in FramePlaces
    BY <1>1, PlaceIs
  <2>2. place[t][s].o \in 0 .. (PageSize - 1) /\ PageSize \in Nat
    BY <2>1, PagesOffsets, Sizes DEF FramePlaces
  <2>3. Left(t, s) = PageSize - place[t][s].o
    BY <1>1 DEF Left
  <2> QED
    BY <2>2, <2>3
<1>2. CASE ~IsTagged(ptr[t][s])
  BY <1>2, UnlimitedIs DEF Left
<1> QED
  BY <1>1, <1>2

LEMMA MinLeftIs ==
  ASSUME PlacesInv, NEW t \in Threads, InCall(t), todo[t] = {}
  PROVE  /\ MinLeft(t) \in Nat \ {0}
         /\ \A s \in Sides : MinLeft(t) <= Left(t, s) /\ Left(t, s) \in Nat
<1>1. \A s \in Sides : Left(t, s) \in Nat \ {0}
  BY LeftIs
<1>2. "l" \in Sides /\ "r" \in Sides /\ \A s \in Sides : s = "l" \/ s = "r"
  BY DEF Sides
<1> DEFINE x == Left(t, "l")
           y == Left(t, "r")
<1>3. x \in Nat \ {0} /\ y \in Nat \ {0} /\ MinLeft(t) = IF y < x THEN y ELSE x
  BY <1>1, <1>2 DEF MinLeft
<1> HIDE DEF x, y
<1>4. MinLeft(t) \in Nat \ {0} /\ MinLeft(t) <= x /\ MinLeft(t) <= y
  BY <1>3
<1> QED
  BY <1>1, <1>2, <1>4 DEF x, y


(* Both operands' bytes of a chunk are those of the memory the program     *)
(* sees.                                                                   *)
LEMMA ChunkBytes ==
  ASSUME PlacesInv, NEW t \in Threads, InCall(t), todo[t] = {},
         NEW k \in Nat, k <= MinLeft(t), k <= ctr[t]
  PROVE  \A i \in 0 .. (k - 1) :
           /\ ByteAt(place[t]["l"], i) = SeenAt(call[t].l, Done(t) + i)
           /\ ByteAt(place[t]["r"], i) = SeenAt(call[t].r, Done(t) + i)
           /\ SeenAt(call[t].l, Done(t) + i) \in Values
           /\ SeenAt(call[t].r, Done(t) + i) \in Values
<1>1. "l" \in Sides /\ "r" \in Sides
  BY DEF Sides
<1>2. Operand(call[t], "l") = call[t].l /\ Operand(call[t], "r") = call[t].r
  BY DEF Operand
<1> SUFFICES ASSUME NEW i \in 0 .. (k - 1)
             PROVE  /\ ByteAt(place[t]["l"], i) = SeenAt(call[t].l, Done(t) + i)
                    /\ ByteAt(place[t]["r"], i) = SeenAt(call[t].r, Done(t) + i)
                    /\ SeenAt(call[t].l, Done(t) + i) \in Values
                    /\ SeenAt(call[t].r, Done(t) + i) \in Values
  OBVIOUS
<1>3. ctr[t] \in Nat
  BY DEF PlacesInv, WrapperTypes
<1>4. MinLeft(t) \in Nat /\ \A s \in Sides : MinLeft(t) <= Left(t, s) /\ Left(t, s) \in Nat
  BY MinLeftIs
<1>5. i \in Nat /\ i < ctr[t] /\ i < Left(t, "l") /\ i < Left(t, "r")
  <2> DEFINE x == Left(t, "l")
             y == Left(t, "r")
             m == MinLeft(t)
             c == ctr[t]
  <2>1. x \in Nat /\ y \in Nat /\ m \in Nat /\ m <= x /\ m <= y /\ k <= m /\ k <= c /\ c \in Nat
    BY <1>1, <1>3, <1>4
  <2> HIDE DEF x, y, m, c
  <2>2. i \in Nat /\ i < c /\ i < x /\ i < y
    BY <2>1
  <2> QED
    BY <2>2 DEF x, y, c
<1> QED
  BY <1>1, <1>2, <1>5, RawByte

LEMMA CopyToStorage ==
  ASSUME PlacesInv, NEW t \in Threads, InCall(t), todo[t] = {},
         NEW k \in Nat, k <= MinLeft(t), k <= ctr[t], Copy(t, k), call[t].l.kind = "tagged"
  PROVE  LET dst == place[t]["l"] IN
         /\ dst \in FramePlaces /\ native' = native
         /\ data' \in [Frames -> [Offsets -> Values]]
         /\ \A f \in Frames : f # dst.f => data'[f] = data[f]
         /\ \A o \in Offsets :
              data'[dst.f][o] = IF o \in dst.o .. (dst.o + k - 1)
                                  THEN SeenAt(call[t].r, Done(t) + (o - dst.o))
                                  ELSE data[dst.f][o]
<1> DEFINE dst == place[t]["l"]
           Src(i) == ByteAt(place[t]["r"], i)
           page == [o \in Offsets |-> IF o \in dst.o .. (dst.o + k - 1)
                                        THEN Src(o - dst.o) ELSE data[dst.f][o]]
<1>1. /\ TypeOK /\ "l" \in Sides /\ Operand(call[t], "l") = call[t].l
  BY DEF PlacesInv, LinkInv, Sides, Operand
<1>2. dst \in FramePlaces /\ dst.kind = "frame"
  BY <1>1, PlaceIs
<1>3. dst.f \in Frames /\ dst.o \in Nat /\ Offsets \subseteq Nat
  BY <1>2, PagesOffsets DEF FramePlaces
<1>4. data' = [data EXCEPT ![dst.f] = page] /\ native' = native
  BY <1>2 DEF Copy
<1>5. ASSUME NEW o \in Offsets, o \in dst.o .. (dst.o + k - 1)
      PROVE  Src(o - dst.o) = SeenAt(call[t].r, Done(t) + (o - dst.o)) /\ Src(o - dst.o) \in Values
  <2> DEFINE b == dst.o
             i == o - b
  <2>1. b \in Nat /\ o \in b .. (b + k - 1)
    BY <1>3, <1>5
  <2> HIDE DEF b
  <2>2. i \in 0 .. (k - 1)
    BY <2>1
  <2> HIDE DEF i
  <2>3. /\ ByteAt(place[t]["r"], i) = SeenAt(call[t].r, Done(t) + i)
        /\ SeenAt(call[t].r, Done(t) + i) \in Values
    BY <2>2, ChunkBytes
  <2> QED
    BY <2>3 DEF i, b
<1> HIDE DEF Src
<1>6. data[dst.f] \in [Offsets -> Values]
  BY <1>1, <1>3 DEF TypeOK
<1>7. page \in [Offsets -> Values]
  BY <1>5, <1>6
<1>8. data'[dst.f] = page /\ \A f \in Frames : f # dst.f => data'[f] = data[f]
  BY <1>1, <1>3, <1>4 DEF TypeOK
<1>9. data' \in [Frames -> [Offsets -> Values]]
  <2> HIDE DEF page
  <2> QED
    BY <1>1, <1>4, <1>7 DEF TypeOK
<1>10. ASSUME NEW o \in Offsets
       PROVE  page[o] = IF o \in dst.o .. (dst.o + k - 1)
                          THEN SeenAt(call[t].r, Done(t) + (o - dst.o))
                          ELSE data[dst.f][o]
  BY <1>5
<1> HIDE DEF page
<1> QED
  BY <1>2, <1>4, <1>8, <1>9, <1>10

LEMMA CopyToNative ==
  ASSUME PlacesInv, NEW t \in Threads, InCall(t), todo[t] = {},
         NEW k \in Nat, k <= MinLeft(t), k <= ctr[t], Copy(t, k), call[t].l.kind # "tagged"
  PROVE  /\ call[t].l.kind = "native" /\ call[t].l.a \in Nat /\ data' = data
         /\ native' \in [0 .. (NativeSize - 1) -> Values]
         /\ \A a \in 0 .. (NativeSize - 1) :
              native'[a] = IF a \in (call[t].l.a + Done(t)) .. (call[t].l.a + Done(t) + k - 1)
                             THEN SeenAt(call[t].r, a - call[t].l.a)
                             ELSE native[a]
<1> DEFINE dst == place[t]["l"]
           b == call[t].l.a
           d == Done(t)
           Src(i) == ByteAt(place[t]["r"], i)
           new == [a \in 0 .. (NativeSize - 1) |->
                     IF a \in dst.a .. (dst.a + k - 1) THEN Src(a - dst.a) ELSE native[a]]
<1>1. /\ WrapperTypes /\ "l" \in Sides /\ Operand(call[t], "l") = call[t].l
  BY DEF PlacesInv, Sides, Operand
<1>2. /\ call[t] \in ProgramCalls /\ dst = Advance(call[t].l, d) /\ d \in Nat
      /\ call[t].l \in Pointers
  BY <1>1, PlaceIs
<1>3. call[t].l.kind = "native"
  BY <1>2, CallFields, PointerKinds
<1>4. dst = [kind |-> "native", a |-> b + d] /\ b \in Nat
  BY <1>2, <1>3, AdvanceKind
<1>5. dst.kind = "native" /\ dst.a = b + d
  BY <1>4
<1>6. DOMAIN native = 0 .. (NativeSize - 1) /\ \A a \in 0 .. (NativeSize - 1) : native[a] \in Values
  BY <1>1 DEF WrapperTypes
<1>7. native' = new /\ data' = data
  BY <1>5, <1>6 DEF Copy
<1>8. ASSUME NEW a \in 0 .. (NativeSize - 1), a \in dst.a .. (dst.a + k - 1)
      PROVE  Src(a - dst.a) = SeenAt(call[t].r, a - b) /\ Src(a - dst.a) \in Values
  <2> DEFINE i == a - dst.a
  <2> HIDE DEF b, d
  <2>1. b \in Nat /\ d \in Nat /\ a \in (b + d) .. (b + d + k - 1) /\ i = a - (b + d)
    BY <1>2, <1>4, <1>5, <1>8
  <2> HIDE DEF i
  <2>2. i \in 0 .. (k - 1) /\ d + i = a - b
    BY <2>1
  <2>3. ByteAt(place[t]["r"], i) = SeenAt(call[t].r, d + i) /\ SeenAt(call[t].r, d + i) \in Values
    BY <2>2, ChunkBytes DEF d
  <2> QED
    BY <2>2, <2>3 DEF i
<1> HIDE DEF Src
<1>9. new \in [0 .. (NativeSize - 1) -> Values]
  BY <1>6, <1>8
<1>10. ASSUME NEW a \in 0 .. (NativeSize - 1)
       PROVE  new[a] = IF a \in (b + d) .. (b + d + k - 1) THEN SeenAt(call[t].r, a - b) ELSE native[a]
  BY <1>5, <1>8
<1> HIDE DEF new, b, d
<1>11. \A a \in 0 .. (NativeSize - 1) :
         native'[a] = IF a \in (b + d) .. (b + d + k - 1) THEN SeenAt(call[t].r, a - b) ELSE native[a]
  BY <1>7, <1>10
<1> QED
  BY <1>3, <1>4, <1>7, <1>9, <1>11 DEF b, d


(* A chunk writes only to frames of pages that the thread's TLB has as     *)
(* dirty, and bytes that are bytes.                                        *)
LEMMA ApplyPlaces ==
  ASSUME PlacesInv, NEW t \in Threads, InCall(t), todo[t] = {},
         NEW k \in Nat, k <= MinLeft(t), k <= ctr[t], Apply(t, k),
         UNCHANGED <<threadVars, cache, ref, dirty, backing>>
  PROVE  LinkInv' /\ native' \in [0 .. (NativeSize - 1) -> Values]
<1>1. LinkInv /\ TypeOK /\ WrapperTypes
  BY DEF PlacesInv, LinkInv
<1>2. CASE call[t].func \notin Writes
  <2>1. data' = data /\ native' = native
    BY <1>2 DEF Apply
  <2>2. LinkInv'
    BY <1>1, <2>1, StutterInv DEF vars, lstoreVars
  <2> QED
    BY <1>1, <2>1, <2>2 DEF WrapperTypes
<1>3. CASE call[t].func \in Writes /\ call[t].l.kind = "tagged"
  <2> DEFINE dst == place[t]["l"]
  <2>1. Copy(t, k)
    BY <1>3 DEF Apply
  <2>2. /\ dst \in FramePlaces /\ native' = native
        /\ data' \in [Frames -> [Offsets -> Values]]
        /\ \A f \in Frames : f # dst.f => data'[f] = data[f]
    BY <1>3, <2>1, CopyToStorage
  <2>3. StoresTo(t, cache[dst.f])
    <3>1. "l" \in Sides /\ Operand(call[t], "l") = call[t].l
      BY DEF Sides, Operand
    <3> QED
      BY <1>3, <3>1, PlaceIs
  <2>4. \A f \in Frames : data'[f] # data[f] => \E u \in Threads : StoresTo(u, cache[f])
    BY <2>2, <2>3
  <2>5. LinkInv'
    BY <1>1, <2>2, <2>4, WrittenInv
  <2> QED
    BY <1>1, <2>2, <2>5 DEF WrapperTypes
<1>4. CASE call[t].func \in Writes /\ call[t].l.kind # "tagged"
  <2>1. Copy(t, k)
    BY <1>4 DEF Apply
  <2>2. data' = data /\ native' \in [0 .. (NativeSize - 1) -> Values]
    BY <1>4, <2>1, CopyToNative
  <2>3. LinkInv'
    BY <1>1, <2>2, StutterInv DEF vars, lstoreVars
  <2> QED
    BY <2>2, <2>3
<1> QED
  BY <1>2, <1>3, <1>4

LEMMA IdleBetweenLinks ==
  ASSUME PlacesInv, NEW t \in Threads, todo[t] = {}
  PROVE  pc[t] = "idle"
BY DEF PlacesInv, CallInv

LEMMA LastChunkPlaces ==
  ASSUME PlacesInv, NEW t \in Threads, LastChunk(t)
  PROVE  PlacesInv'
<1> DEFINE k == IF ctr[t] > MinLeft(t) THEN MinLeft(t) ELSE ctr[t]
<1>1. /\ InCall(t) /\ todo[t] = {} /\ Apply(t, k)
      /\ call' = [call EXCEPT ![t] = Returned] /\ ctr' = [ctr EXCEPT ![t] = 0]
      /\ result' = [result EXCEPT ![t] =
                    IF call[t].func \in Writes THEN call[t].l ELSE ChunkResult(t, k)]
      /\ UNCHANGED <<threadVars, cache, ref, dirty, backing, ptr, place, todo, goal, made>>
  BY DEF LastChunk
<1>2. WrapperTypes
  BY DEF PlacesInv
<1>3. k \in Nat /\ k <= MinLeft(t) /\ k <= ctr[t]
  <2>1. ctr[t] \in Nat /\ MinLeft(t) \in Nat
    BY <1>1, <1>2, MinLeftIs DEF WrapperTypes
  <2> QED
    BY <2>1
<1> HIDE DEF k
<1>4. LinkInv' /\ native' \in [0 .. (NativeSize - 1) -> Values]
  BY <1>1, <1>3, ApplyPlaces
<1>5. \A u \in Threads \ {t} : SameFor(u)
  BY <1>1, <1>2 DEF SameFor, WrapperTypes, threadVars
<1>6. WrapperTypes'
  <2> DEFINE new == IF call[t].func \in Writes THEN call[t].l ELSE ChunkResult(t, k)
  <2>1. result' = [result EXCEPT ![t] = new]
    BY <1>1
  <2> HIDE DEF new
  <2> QED
    BY <1>1, <1>2, <1>4, <2>1 DEF WrapperTypes
<1>7. ~InCall(t)'
  BY <1>1, <1>2 DEF InCall, Returned, WrapperTypes
<1>8. CallInv(t)'
  BY <1>1, <1>7, IdleBetweenLinks DEF CallInv, threadVars
<1> QED
  BY <1>4, <1>5, <1>6, <1>8, PlacesStep

(* After a chunk an operand is to be linked again or its raw address is    *)
(* still on the same page.                                                 *)
LEMMA OperandAdvances ==
  ASSUME PlacesInv, NEW t \in Threads, Chunk(t), NEW s \in Sides
  PROVE  LET k == MinLeft(t) IN
         /\ Advance(ptr[t][s], k) = Advance(Operand(call[t], s), Done(t) + k)
         /\ Advance(ptr[t][s], k) \in Pointers
         /\ IsTagged(Advance(ptr[t][s], k)) = IsTagged(ptr[t][s])
         /\ IsTagged(ptr[t][s]) /\ Left(t, s) # k =>
              /\ Advance(place[t][s], k) \in FramePlaces
              /\ Advance(place[t][s], k).kind = "frame"
              /\ Advance(place[t][s], k).f = place[t][s].f
              /\ Advance(place[t][s], k).o = Advance(ptr[t][s], k).a % PageSize
              /\ Advance(ptr[t][s], k).a \div PageSize = ptr[t][s].a \div PageSize
         /\ ~IsTagged(ptr[t][s]) => place[t][s] = ptr[t][s]
<1> DEFINE k == MinLeft(t)
           op == Operand(call[t], s)
           p == ptr[t][s]
           d == Done(t)
           c == ctr[t]
           left == Left(t, s)
           q == place[t][s]
<1>1. InCall(t) /\ todo[t] = {} /\ c > k /\ WrapperTypes
  BY DEF Chunk, PlacesInv
<1>2. k \in Nat \ {0} /\ k <= left /\ left \in Nat \ {0}
      /\ (IsTagged(p) => left = PageSize - q.o)
  BY <1>1, MinLeftIs, LeftIs
<1>3. /\ op \in Pointers /\ d \in Nat /\ c \in Nat
      /\ call[t].n \in Nat /\ call[t].n = d + c /\ call[t] \in ProgramCalls
      /\ p = Advance(op, d)
      /\ op.kind = "tagged" =>
           /\ IsTagged(p) /\ q \in FramePlaces /\ q.kind = "frame" /\ p.a \in 0 .. (Bytes - 1)
           /\ q.o = p.a % PageSize
      /\ op.kind # "tagged" => q = Advance(op, d) /\ ~IsTagged(p)
  BY <1>1, PlaceIs
<1>4. op.kind \in {"tagged", "native", "byte"} /\ Fits(op, call[t].n)
      /\ p.kind = op.kind /\ p \in Pointers
  BY <1>1, <1>3, CallFields, PointerKinds, AdvanceKind DEF WrapperTypes
<1> HIDE DEF k, op, p, d, c, left, q
<1>5. Advance(p, k) = Advance(op, d + k)
  BY <1>2, <1>3, AdvanceTwice
<1>6. IsTagged(Advance(p, k)) = IsTagged(p)
  BY <1>2, <1>4, AdvanceKind DEF IsTagged
<1>7. Advance(p, k) \in Pointers
  <2>1. CASE op.kind \in {"tagged", "native"}
    <3> DEFINE a == op.a
               m == call[t].n
    <3>1. Advance(p, k) = [kind |-> op.kind, a |-> a + (d + k)] /\ a \in Nat
      BY <1>2, <1>3, <1>5, <2>1, AdvanceKind
    <3>2. /\ op.kind = "tagged" => a + m <= Bytes
          /\ op.kind = "native" => a + m <= NativeSize
      BY <1>4 DEF Fits
    <3>3. m \in Nat /\ m = d + c /\ c > k /\ c \in Nat /\ k \in Nat /\ d \in Nat
      BY <1>1, <1>2, <1>3
    <3> HIDE DEF a, m
    <3>4. CASE op.kind = "tagged"
      <4>1. a + (d + k) \in 0 .. (Bytes - 1)
        BY <3>1, <3>2, <3>3, <3>4, Sizes
      <4> QED
        BY <3>1, <3>4, <4>1 DEF Pointers
    <3>5. CASE op.kind = "native"
      <4>1. a + (d + k) \in 0 .. NativeSize
        BY <3>1, <3>2, <3>3, <3>5, Sizes
      <4> QED
        BY <3>1, <3>5, <4>1 DEF Pointers
    <3> QED
      BY <2>1, <3>4, <3>5
  <2>2. CASE op.kind = "byte"
    BY <1>2, <1>4, <2>2, AdvanceKind
  <2> QED
    BY <1>4, <2>1, <2>2
<1>8. ASSUME IsTagged(p), left # k
      PROVE  /\ Advance(q, k) \in FramePlaces /\ Advance(q, k).kind = "frame"
             /\ Advance(q, k).f = q.f
             /\ Advance(q, k).o = Advance(p, k).a % PageSize
             /\ Advance(p, k).a \div PageSize = p.a \div PageSize
  <2>1. q \in FramePlaces /\ q.kind = "frame" /\ p.a \in 0 .. (Bytes - 1)
        /\ q.o = p.a % PageSize /\ left = PageSize - q.o
    BY <1>2, <1>3, <1>8
  <2>2. p.a % PageSize \in Offsets /\ Offsets = 0 .. (PageSize - 1) /\ PageSize \in Nat
    BY <2>1, StorageByte, WrapperConstantsOK
  <2>3. (p.a % PageSize) + k < PageSize
    <3> DEFINE x == p.a % PageSize
    <3>1. x \in 0 .. (PageSize - 1) /\ left = PageSize - x /\ left \in Nat /\ k <= left /\ left # k
          /\ k \in Nat
      BY <1>2, <1>8, <2>1, <2>2
    <3> HIDE DEF x
    <3>2. x + k < PageSize
      BY <2>2, <3>1
    <3> QED
      BY <3>2 DEF x
  <2>4. /\ p.a + k \in 0 .. (Bytes - 1)
        /\ (p.a + k) \div PageSize = p.a \div PageSize
        /\ (p.a + k) % PageSize = (p.a % PageSize) + k
    BY <1>2, <2>1, <2>3, SamePage
  <2>5. Advance(p, k).a = p.a + k
    <3>1. p.kind = "tagged"
      BY <1>8 DEF IsTagged
    <3> QED
      BY <1>2, <1>4, <3>1, AdvanceKind
  <2>6. Advance(q, k).o = q.o + k /\ Advance(q, k).f = q.f /\ Advance(q, k).kind = "frame"
    BY <1>2, <2>1, AdvanceKind
  <2>7. Advance(q, k) \in FramePlaces
    <3>1. q.o + k \in Offsets
      BY <2>1, <2>4, StorageByte
    <3>2. Advance(q, k) = [q EXCEPT !.o = q.o + k]
      BY <2>1 DEF Advance
    <3> QED
      BY <2>1, <3>1, <3>2 DEF FramePlaces
  <2> QED
    BY <2>1, <2>4, <2>5, <2>6, <2>7
<1>9. ~IsTagged(p) => q = p
  <2>1. IsTagged(p) <=> op.kind = "tagged"
    BY <1>4 DEF IsTagged
  <2> QED
    BY <1>3, <2>1
<1> QED
  BY <1>5, <1>6, <1>7, <1>8, <1>9 DEF k, op, p, d, left, q


LEMMA ChunkPlaces ==
  ASSUME PlacesInv, NEW t \in Threads, Chunk(t)
  PROVE  PlacesInv'
<1> DEFINE k == MinLeft(t)
           newptr == [s \in Sides |-> Advance(ptr[t][s], k)]
           newtodo == {s \in Sides : IsTagged(ptr[t][s]) /\ Left(t, s) = k}
           newplace == [s \in Sides |-> IF s \in newtodo THEN newptr[s]
                                                         ELSE Advance(place[t][s], k)]
<1>1. /\ InCall(t) /\ todo[t] = {} /\ ctr[t] > k /\ Apply(t, k)
      /\ ptr' = [ptr EXCEPT ![t] = newptr]
      /\ todo' = [todo EXCEPT ![t] = newtodo]
      /\ place' = [place EXCEPT ![t] =
                  [s \in Sides |-> IF s \in todo'[t] THEN ptr'[t][s]
                                                     ELSE Advance(place[t][s], k)]]
      /\ ctr' = [ctr EXCEPT ![t] = @ - k]
      /\ UNCHANGED <<threadVars, cache, ref, dirty, backing, call, result, goal, made>>
  BY DEF Chunk
<1>2. LinkInv /\ WrapperTypes /\ CallInv(t)
  BY DEF PlacesInv
<1>3. k \in Nat \ {0} /\ \A s \in Sides : k <= Left(t, s) /\ Left(t, s) \in Nat
  BY <1>1, MinLeftIs
<1>4. ctr[t] \in Nat /\ k <= ctr[t]
  BY <1>1, <1>2, <1>3 DEF WrapperTypes
<1>5. LinkInv' /\ native' \in [0 .. (NativeSize - 1) -> Values]
  BY <1>1, <1>3, <1>4, ApplyPlaces
<1>6. \A s \in Sides :
         /\ Advance(ptr[t][s], k) = Advance(Operand(call[t], s), Done(t) + k)
         /\ Advance(ptr[t][s], k) \in Pointers
         /\ IsTagged(Advance(ptr[t][s], k)) = IsTagged(ptr[t][s])
         /\ IsTagged(ptr[t][s]) /\ Left(t, s) # k =>
              /\ Advance(place[t][s], k) \in FramePlaces
              /\ Advance(place[t][s], k).kind = "frame"
              /\ Advance(place[t][s], k).f = place[t][s].f
              /\ Advance(place[t][s], k).o = Advance(ptr[t][s], k).a % PageSize
              /\ Advance(ptr[t][s], k).a \div PageSize = ptr[t][s].a \div PageSize
         /\ ~IsTagged(ptr[t][s]) => place[t][s] = ptr[t][s]
  BY OperandAdvances
<1> HIDE DEF k
<1>7. /\ ptr'[t] = newptr /\ todo'[t] = newtodo /\ ctr'[t] = ctr[t] - k
      /\ newptr \in [Sides -> Pointers] /\ newtodo \in SUBSET Sides
  BY <1>1, <1>2, <1>6 DEF WrapperTypes
<1>8. place' = [place EXCEPT ![t] = newplace]
  <2>1. newplace = [s \in Sides |-> IF s \in todo'[t] THEN ptr'[t][s]
                                                     ELSE Advance(place[t][s], k)]
    BY <1>7
  <2> HIDE DEF newplace
  <2> QED
    BY <1>1, <2>1
<1>9. \A s \in Sides : newplace[s] \in Pointers \cup FramePlaces
  <2> TAKE s \in Sides
  <2>1. newplace[s] = IF s \in newtodo THEN newptr[s] ELSE Advance(place[t][s], k)
    OBVIOUS
  <2>2. s \in newtodo <=> IsTagged(ptr[t][s]) /\ Left(t, s) = k
    OBVIOUS
  <2>3. newptr[s] = Advance(ptr[t][s], k)
    OBVIOUS
  <2> HIDE DEF newplace, newtodo, newptr
  <2> QED
    BY <1>6, <2>1, <2>2, <2>3
<1>10. newplace \in [Sides -> Pointers \cup FramePlaces]
  <2> DEFINE P == Pointers \cup FramePlaces
  <2>1. \A s \in Sides : newplace[s] \in P
    BY <1>9
  <2> HIDE DEF P
  <2>2. newplace \in [Sides -> P]
    BY <2>1
  <2> QED
    BY <2>2 DEF P
<1>11. /\ \A s \in Sides : ptr'[t][s] = Advance(ptr[t][s], k)
       /\ \A s \in Sides : s \in todo'[t] <=> IsTagged(ptr[t][s]) /\ Left(t, s) = k
       /\ \A s \in Sides : place'[t][s] = IF s \in todo'[t] THEN ptr'[t][s]
                                                            ELSE Advance(place[t][s], k)
  BY <1>1, <1>2, <1>7, <1>8 DEF WrapperTypes
<1>12. \A u \in Threads \ {t} : SameFor(u)
  <2> HIDE DEF newptr, newtodo, newplace
  <2> QED
    BY <1>1, <1>2, <1>8 DEF SameFor, WrapperTypes, threadVars
<1>13. WrapperTypes'
  <2> HIDE DEF newptr, newtodo, newplace
  <2>1. ctr' \in [Threads -> Nat]
    <3> DEFINE c == ctr[t] - k
    <3>1. c \in Nat /\ ctr' = [ctr EXCEPT ![t] = c]
      BY <1>1, <1>3, <1>4
    <3> HIDE DEF c
    <3> QED
      BY <1>2, <3>1 DEF WrapperTypes
  <2>2. ptr' \in [Threads -> [Sides -> Pointers]] /\ todo' \in [Threads -> SUBSET Sides]
    BY <1>1, <1>2, <1>7 DEF WrapperTypes
  <2>3. place' \in [Threads -> [Sides -> Pointers \cup FramePlaces]]
    <3> DEFINE P == Pointers \cup FramePlaces
    <3>1. place \in [Threads -> [Sides -> P]] /\ newplace \in [Sides -> P]
      BY <1>2, <1>10 DEF WrapperTypes
    <3> HIDE DEF P
    <3>2. place' \in [Threads -> [Sides -> P]]
      BY <1>8, <3>1
    <3> QED
      BY <3>2 DEF P
  <2> QED
    BY <1>1, <1>2, <1>5, <2>1, <2>2, <2>3 DEF WrapperTypes
<1> HIDE DEF newptr, newtodo, newplace
<1>14. InCall(t)' /\ Counted(t)' = Counted(t) /\ tlb' = tlb /\ pc[t] = "idle" /\ pc' = pc
  BY <1>1, IdleBetweenLinks DEF InCall, Counted, threadVars
<1>15. call[t].n \in Nat /\ Done(t) \in Nat /\ Done(t)' = Done(t) + k
  <2>1. call[t] \in ProgramCalls
    BY <1>1, <1>2 DEF WrapperTypes, InCall, NoCall, Returned
  <2>2. call[t].n \in Nat /\ call'[t] = call[t] /\ ctr[t] <= call[t].n
    BY <1>1, <1>2, <2>1, CallFields DEF CallInv
  <2> DEFINE n == call[t].n
             c == ctr[t]
  <2>3. n \in Nat /\ c \in Nat /\ c <= n /\ Done(t) = n - c /\ Done(t)' = n - (c - k)
    BY <1>4, <1>7, <2>2 DEF Done
  <2> HIDE DEF n, c
  <2>4. n - c \in Nat /\ n - (c - k) = (n - c) + k
    BY <1>3, <2>3
  <2> QED
    BY <2>2, <2>3, <2>4
<1>16. ctr'[t] <= call'[t].n
  <2> DEFINE n == call[t].n
             c == ctr[t]
  <2>1. c <= n /\ c \in Nat /\ n \in Nat /\ call'[t].n = n /\ ctr'[t] = c - k
    BY <1>1, <1>2, <1>4, <1>7, <1>15 DEF CallInv
  <2> HIDE DEF n, c
  <2>2. c - k <= n
    BY <1>3, <2>1
  <2> QED
    BY <2>1, <2>2
<1>17. ASSUME NEW s \in Sides
       PROVE  OperandInv(t, s)'
  <2>1. OperandInv(t, s)
    BY <1>1, <1>2 DEF CallInv
  <2>2. ptr'[t][s] = Advance(Operand(call[t], s), Done(t))'
    <3>1. Operand(call[t], s)' = Operand(call[t], s)
      BY <1>1 DEF Operand
    <3>2. Advance(Operand(call[t], s), Done(t))' = Advance(Operand(call[t], s)', Done(t)')
      BY DEF Advance
    <3> QED
      BY <1>6, <1>11, <1>15, <3>1, <3>2
  <2>3. IsTagged(ptr'[t][s]) = IsTagged(ptr[t][s])
    BY <1>6, <1>11
  <2>4. ASSUME s \notin todo'[t], IsTagged(ptr[t][s])
        PROVE  place'[t][s].kind = "frame" /\ LinkStays(t, s)'
    <3>1. place'[t][s] = Advance(place[t][s], k) /\ Left(t, s) # k
      BY <1>11, <2>4
    <3>2. /\ place'[t][s].kind = "frame" /\ place'[t][s].f = place[t][s].f
          /\ place'[t][s].o = ptr'[t][s].a % PageSize
          /\ ptr'[t][s].a \div PageSize = ptr[t][s].a \div PageSize
      BY <1>6, <1>11, <2>4, <3>1
    <3>3. LinkStays(t, s)
      BY <1>1, <2>1, <2>4 DEF OperandInv
    <3>4. LinkStays(t, s)'
      BY <1>1, <1>14, <3>2, <3>3 DEF LinkStays
    <3> QED
      BY <3>2, <3>4
  <2>5. ASSUME s \notin todo'[t], ~IsTagged(ptr[t][s])
        PROVE  place'[t][s] = ptr'[t][s]
    BY <1>6, <1>11, <2>5
  <2>6. s \in todo'[t] => IsTagged(ptr'[t][s])
    BY <1>11, <2>3
  <2> QED
    BY <2>2, <2>3, <2>4, <2>5, <2>6 DEF OperandInv
<1>18. CallInv(t)'
  BY <1>14, <1>16, <1>17 DEF CallInv
<1> QED
  BY <1>5, <1>12, <1>13, <1>18, PlacesStep

LEMMA WrapperInitLinks ==
  ASSUME WrapperInit
  PROVE  LinkInv
<1> USE DEF WrapperInit
<1>1. EmptyEntry \in [bs : Pages \cup {NoPage, 0}, epc : 0 .. (EpcMod - 1), dirty : BOOLEAN]
      /\ EmptyEntry.bs = NoPage
  BY ConstantsOK DEF EmptyEntry, Entry, NoPage
<1>2. NoPage \notin Pages /\ NoPage = -1
  BY Conversions DEF NoPage
<1>3. \A t \in Threads : Counted(t) = {}
  BY <1>1, <1>2 DEF Counted
<1>4. \A p : Holders(p) = {}
  BY <1>3 DEF Holders
<1>5. backing \in [Pages -> [Offsets -> Values]]
  <2>1. ASSUME NEW p \in Pages, NEW o \in Offsets
        PROVE  p * PageSize + o \in Values
    <3>1. PageSize * p + o \in 0 .. (Bytes - 1)
      BY PageByte
    <3>2. PageSize * p + o \in Values
      BY <3>1, WrapperConstantsOK
    <3>3. p \in Nat /\ PageSize \in Nat
      BY PagesOffsets, Sizes
    <3>4. PageSize * p = p * PageSize
      BY <3>3
    <3> QED
      BY <3>2, <3>4
  <2> QED
    BY <2>1
<1>6. TypeOK
  <2>1. 0 \in 0 .. (EpcMod - 1) /\ [o \in Offsets |-> 0] \in [Offsets -> Values]
    BY ConstantsOK, ValuesOK
  <2> QED
    BY <1>1, <1>5, <2>1 DEF TypeOK, Locations
<1>7. ReqPending /\ EntriesUsable /\ NoDuplicates /\ MissStaysMissed /\ InFlightStays
      /\ LinkedEntry
  BY <1>1 DEF ReqPending, EntriesUsable, NoDuplicates, MissStaysMissed, InFlightStays, LinkedEntry
<1>8. TlbCoherent /\ CacheInjective /\ NothingLost
  BY <1>3 DEF TlbCoherent, CacheInjective, NothingLost
<1>9. RefMatches
  BY <1>4, FS_EmptySet DEF RefMatches
<1> QED
  BY <1>6, <1>7, <1>8, <1>9 DEF LinkInv

LEMMA WrapperInitPlaces ==
  ASSUME WrapperInit
  PROVE  PlacesInv
<1>1. LinkInv
  BY WrapperInitLinks
<1>2. WrapperTypes
  <2>1. Native(0) \in Pointers /\ Native(0) \in Pointers \cup FramePlaces
    BY Sizes DEF Native, Pointers
  <2>2. native \in [0 .. (NativeSize - 1) -> Values]
    <3>1. \A a \in 0 .. (NativeSize - 1) : a + 1 \in Values
      <4> TAKE a \in 0 .. (NativeSize - 1)
      <4>1. a + 1 \in 0 .. NativeSize
        BY Sizes
      <4> QED
        BY <4>1, WrapperConstantsOK
    <3> QED
      BY <3>1 DEF WrapperInit
  <2> QED
    BY <2>1, <2>2 DEF WrapperInit, WrapperTypes
<1>3. \A t \in Threads : CallInv(t)
  BY DEF WrapperInit, CallInv, InCall, NoCall
<1> QED
  BY <1>1, <1>2, <1>3 DEF PlacesInv

LEMMA PlacesStutter ==
  ASSUME PlacesInv, UNCHANGED allVars
  PROVE  PlacesInv'
<1>1. UNCHANGED vars /\ UNCHANGED wrapperVars
  BY DEF allVars
<1>2. LinkInv'
  BY <1>1, StutterInv DEF PlacesInv
<1>3. \A u \in Threads : SameFor(u)
  BY <1>1 DEF SameFor, vars, threadVars, wrapperVars
<1>4. \A u \in Threads : CallInv(u)'
  BY <1>3, OthersKept
<1>5. WrapperTypes'
  BY <1>1 DEF PlacesInv, WrapperTypes, wrapperVars
<1> QED
  BY <1>2, <1>4, <1>5 DEF PlacesInv

LEMMA PlacesNext ==
  ASSUME LstoreMod = IndexMod, PlacesInv, DroppedNotInUse, [WrapperNext]_allVars
  PROVE  PlacesInv'
<1>1. CASE UNCHANGED allVars
  BY <1>1, PlacesStutter
<1>2. ASSUME NEW t \in Threads, WrapperStep(t)
      PROVE  PlacesInv'
  BY <1>2, PageFaultPlaces, PageFaultedPlaces, ChunkPlaces, LastChunkPlaces, LeavePlaces,
     LinkStepPlaces DEF WrapperStep
<1>3. ASSUME NEW t \in Threads, NEW c \in Calls, Begin(t, c)
      PROVE  PlacesInv'
  BY <1>3, BeginPlaces
<1>4. ASSUME NEW f \in Frames, TakenByOthers(f)
      PROVE  PlacesInv'
  BY <1>4, TakenPlaces
<1> QED
  BY <1>1, <1>2, <1>3, <1>4 DEF WrapperNext

(* As long as no link drops a page the wrapper has an address into, every  *)
(* raw address a wrapper keeps stays one of the byte its operand is at,    *)
(* and in a page this thread's TLB holds (lines 939-946, 981-987): in any  *)
(* number of threads, whatever the operands are.                           *)
THEOREM RawAddressesStay ==
  ASSUME LstoreMod = IndexMod
  PROVE  WrapperSpec => ([]DroppedNotInUse => []PlacesInv)
<1>1. WrapperInit => PlacesInv
  BY WrapperInitPlaces
<1>2. PlacesInv /\ DroppedNotInUse /\ [WrapperNext]_allVars => PlacesInv'
  BY PlacesNext
<1> QED
  BY <1>1, <1>2, PTL DEF WrapperSpec


---------------------------------------------------------------------------
(* Comparing and finding chunk by chunk *)

(* x and y are the k bytes of X and Y from place d on. *)
ChunkOf(x, X, d, k) ==
    /\ X = [i \in DOMAIN X |-> X[i]] /\ x = [i \in 0 .. (k - 1) |-> X[d + i]]

ChunksOf(x, y, X, Y, n, d, k) ==
    /\ n \in Nat /\ d \in Nat /\ k \in Nat /\ d + k <= n
    /\ X \in [0 .. (n - 1) -> Int] /\ Y \in [0 .. (n - 1) -> Int]
    /\ ChunkOf(x, X, d, k) /\ ChunkOf(y, Y, d, k)

SameTo(X, Y, m) == \A i \in 0 .. (m - 1) : X[i] = Y[i]
DifferTo(X, Y, m) == \A i \in 0 .. (m - 1) : X[i] # Y[i]

LEMMA SameToAt ==
  ASSUME NEW X, NEW Y, NEW m, SameTo(X, Y, m), NEW i \in 0 .. (m - 1)
  PROVE  X[i] = Y[i]
BY DEF SameTo

LEMMA DifferToAt ==
  ASSUME NEW X, NEW Y, NEW m, DifferTo(X, Y, m), NEW i \in 0 .. (m - 1)
  PROVE  X[i] # Y[i]
BY DEF DifferTo

LEMMA SignIs ==
  ASSUME NEW z \in Int
  PROVE  Sign(z) = 0 <=> z = 0
BY DEF Sign

(* The places T of the chunk are those S has there, and S has none before. *)
PlacesIn(T, S, n, d, k) ==
    /\ n \in Nat /\ d \in Nat /\ k \in Nat /\ d + k <= n
    /\ S \subseteq 0 .. (n - 1) /\ T \subseteq 0 .. (k - 1)
    /\ \A i \in 0 .. (k - 1) : i \in T <=> d + i \in S
    /\ \A i \in 0 .. (d - 1) : i \notin S

LEMMA FirstShifted ==
  ASSUME NEW n, NEW d, NEW k, NEW S, NEW T, PlacesIn(T, S, n, d, k), T # {}
  PROVE  First(T) \in T /\ S # {} /\ First(S) = d + First(T)
<1> USE DEF PlacesIn
<1>1. S \subseteq Nat /\ T \subseteq Nat
  OBVIOUS
<1>2. First(T) \in T /\ \A y \in T : First(T) <= y
  BY <1>1, FirstOf
<1> DEFINE m == First(T)
<1>3. m \in T /\ m \in 0 .. (k - 1) /\ \A y \in T : m <= y
  BY <1>2
<1> HIDE DEF m
<1>4. d + m \in S
  BY <1>3
<1>5. ASSUME NEW y \in S
      PROVE  d + m <= y
  <2>1. y \in Nat /\ y <= n - 1
    OBVIOUS
  <2>2. CASE y < d
    BY <2>1, <2>2
  <2>3. CASE y >= d + k
    BY <1>3, <2>1, <2>3
  <2>4. CASE y >= d /\ y < d + k
    <3> DEFINE i == y - d
    <3>1. i \in 0 .. (k - 1) /\ d + i = y
      BY <2>1, <2>4
    <3> HIDE DEF i
    <3>2. i \in T
      BY <3>1
    <3>3. m <= i /\ i \in Nat /\ m \in Nat
      BY <1>3, <3>1, <3>2
    <3> QED
      BY <3>1, <3>3
  <2> QED
    BY <2>1, <2>2, <2>3, <2>4
<1>6. First(S) = d + m
  BY <1>1, <1>4, <1>5, FirstIs
<1> QED
  BY <1>3, <1>4, <1>6 DEF m

LEMMA CompareParts ==
  ASSUME NEW x, NEW y, NEW X, NEW Y, NEW n, NEW d, NEW k,
         ChunksOf(x, y, X, Y, n, d, k), SameTo(X, Y, d)
  PROVE  /\ Compare(x, y) # 0 => Compare(X, Y) = Compare(x, y)
         /\ Compare(x, y) = 0 => SameTo(X, Y, d + k)
         /\ Compare(x, y) = 0 /\ d + k = n => Compare(X, Y) = 0
<1> USE DEF ChunksOf, SameTo, DifferTo
<1> DEFINE S == {i \in DOMAIN X : X[i] # Y[i]}
           T == {i \in DOMAIN x : x[i] # y[i]}
<1>1. /\ DOMAIN X = 0 .. (n - 1) /\ DOMAIN x = 0 .. (k - 1)
      /\ \A i \in 0 .. (k - 1) : x[i] = X[d + i] /\ y[i] = Y[d + i]
  BY DEF ChunkOf
<1>2. S \subseteq 0 .. (n - 1) /\ T \subseteq 0 .. (k - 1)
  BY <1>1
<1>3. \A i \in 0 .. (k - 1) : d + i \in 0 .. (n - 1)
  OBVIOUS
<1>4. \A i \in 0 .. (k - 1) : i \in T <=> d + i \in S
  BY <1>1, <1>3
<1>5. \A i \in 0 .. (d - 1) : i \notin S
  OBVIOUS
<1>6. /\ Compare(X, Y) = IF S = {} THEN 0 ELSE Sign(X[First(S)] - Y[First(S)])
      /\ Compare(x, y) = IF T = {} THEN 0 ELSE Sign(x[First(T)] - y[First(T)])
  BY DEF Compare
<1>7. ASSUME T # {}
      PROVE  Compare(x, y) # 0 /\ Compare(X, Y) = Compare(x, y)
  <2> DEFINE m == First(T)
  <2>1. m \in T /\ S # {} /\ First(S) = d + m
    <3> HIDE DEF S, T
    <3>1. PlacesIn(T, S, n, d, k)
      BY <1>2, <1>4, <1>5 DEF PlacesIn
    <3> HIDE DEF m
    <3>2. First(T) \in T /\ S # {} /\ First(S) = d + First(T)
      BY <1>7, <3>1, FirstShifted
    <3> QED
      BY <3>2 DEF m
  <2>2. m \in 0 .. (k - 1) /\ x[m] = X[d + m] /\ y[m] = Y[d + m] /\ x[m] # y[m]
    BY <1>1, <2>1
  <2> HIDE DEF m
  <2>3. X[d + m] \in Int /\ Y[d + m] \in Int
    BY <1>3, <2>2
  <2>4. Sign(x[m] - y[m]) # 0
    <3>1. x[m] - y[m] \in Int /\ x[m] - y[m] # 0
      BY <2>2, <2>3
    <3> QED
      BY <3>1, SignIs
  <2>5. Compare(x, y) = Sign(x[m] - y[m])
    BY <1>6, <1>7 DEF m
  <2>6. Compare(X, Y) = Sign(X[d + m] - Y[d + m])
    BY <1>6, <2>1
  <2> QED
    BY <2>2, <2>4, <2>5, <2>6
<1>8. ASSUME T = {}
      PROVE  /\ Compare(x, y) = 0
             /\ \A i \in 0 .. (d + k - 1) : X[i] = Y[i]
             /\ d + k = n => Compare(X, Y) = 0
  <2>1. ASSUME NEW i \in 0 .. (d + k - 1)
        PROVE  X[i] = Y[i]
    <3>1. CASE i < d
      BY <3>1
    <3>2. CASE i >= d
      <4> DEFINE j == i - d
      <4>1. j \in 0 .. (k - 1) /\ d + j = i
        BY <3>2
      <4> HIDE DEF j
      <4>2. j \notin T
        BY <1>8
      <4> QED
        BY <1>1, <4>1, <4>2
    <3> QED
      BY <3>1, <3>2
  <2>2. d + k = n => S = {}
    BY <1>1, <2>1
  <2> HIDE DEF S, T
  <2> QED
    BY <1>6, <1>8, <2>1, <2>2
<1> QED
  BY <1>7, <1>8

LEMMA FindParts ==
  ASSUME NEW x, NEW y, NEW X, NEW Y, NEW n, NEW d, NEW k,
         ChunksOf(x, y, X, Y, n, d, k), DifferTo(X, Y, d)
  PROVE  /\ Find(x, y) # -1 => Find(x, y) \in 0 .. (k - 1) /\ Find(X, Y) = d + Find(x, y)
         /\ Find(x, y) = -1 => DifferTo(X, Y, d + k)
         /\ Find(x, y) = -1 /\ d + k = n => Find(X, Y) = -1
<1> USE DEF ChunksOf, SameTo, DifferTo
<1> DEFINE S == {i \in DOMAIN X : X[i] = Y[i]}
           T == {i \in DOMAIN x : x[i] = y[i]}
<1>1. /\ DOMAIN X = 0 .. (n - 1) /\ DOMAIN x = 0 .. (k - 1)
      /\ \A i \in 0 .. (k - 1) : x[i] = X[d + i] /\ y[i] = Y[d + i]
  BY DEF ChunkOf
<1>2. S \subseteq 0 .. (n - 1) /\ T \subseteq 0 .. (k - 1)
  BY <1>1
<1>3. \A i \in 0 .. (k - 1) : d + i \in 0 .. (n - 1)
  OBVIOUS
<1>4. \A i \in 0 .. (k - 1) : i \in T <=> d + i \in S
  BY <1>1, <1>3
<1>5. \A i \in 0 .. (d - 1) : i \notin S
  OBVIOUS
<1>6. /\ Find(X, Y) = IF S = {} THEN -1 ELSE First(S)
      /\ Find(x, y) = IF T = {} THEN -1 ELSE First(T)
  BY DEF Find
<1>7. ASSUME T # {}
      PROVE  Find(x, y) \in 0 .. (k - 1) /\ Find(X, Y) = d + Find(x, y)
  <2> HIDE DEF S, T
  <2>1. PlacesIn(T, S, n, d, k)
    BY <1>2, <1>4, <1>5 DEF PlacesIn
  <2>2. First(T) \in T /\ S # {} /\ First(S) = d + First(T)
    BY <1>7, <2>1, FirstShifted
  <2>3. First(T) \in 0 .. (k - 1)
    BY <1>2, <2>2
  <2> QED
    BY <1>6, <1>7, <2>2, <2>3
<1>8. ASSUME T = {}
      PROVE  /\ Find(x, y) = -1
             /\ \A i \in 0 .. (d + k - 1) : X[i] # Y[i]
             /\ d + k = n => Find(X, Y) = -1
  <2>1. ASSUME NEW i \in 0 .. (d + k - 1)
        PROVE  X[i] # Y[i]
    <3>1. CASE i < d
      BY <3>1
    <3>2. CASE i >= d
      <4> DEFINE j == i - d
      <4>1. j \in 0 .. (k - 1) /\ d + j = i
        BY <3>2
      <4> HIDE DEF j
      <4>2. j \notin T
        BY <1>8
      <4> QED
        BY <1>1, <4>1, <4>2
    <3> QED
      BY <3>1, <3>2
  <2>2. d + k = n => S = {}
    BY <1>1, <2>1
  <2> HIDE DEF S, T
  <2> QED
    BY <1>6, <1>8, <2>1, <2>2
<1> QED
  BY <1>7, <1>8


---------------------------------------------------------------------------
(* The memory a chunk leaves *)

(* The bytes the chunk of k bytes writes. *)
InChunk(t, k, kind, a) ==
    /\ call[t].func \in Writes /\ kind = call[t].l.kind
    /\ a \in (call[t].l.a + Done(t)) .. (call[t].l.a + Done(t) + k - 1)

LEMMA StorageBytes ==
  ASSUME PlacesInv, PlacesInv', NEW t \in Threads, InCall(t), todo[t] = {},
         NEW k \in Nat, k <= MinLeft(t), k <= ctr[t], Copy(t, k),
         call[t].l.kind = "tagged", UNCHANGED <<cache, backing>>,
         NEW n \in 0 .. (Bytes - 1)
  PROVE  MemByte(n)' =
           IF n \in (call[t].l.a + Done(t)) .. (call[t].l.a + Done(t) + k - 1)
             THEN SeenAt(call[t].r, n - call[t].l.a) ELSE MemByte(n)
<1> DEFINE dst == place[t]["l"]
           a == call[t].l.a
           d == Done(t)
           b == a + d
           p == n \div PageSize
           o == n % PageSize
           q == b \div PageSize
           x == b % PageSize
           Span == b .. (b + k - 1)
<1>1. /\ LinkInv /\ CacheInjective /\ CacheInjective' /\ TypeOK
      /\ "l" \in Sides /\ Operand(call[t], "l") = call[t].l
  BY DEF PlacesInv, LinkInv, Sides, Operand
<1>2. /\ dst \in FramePlaces /\ b \in 0 .. (Bytes - 1) /\ d \in Nat
      /\ cache[dst.f] = q /\ dst.o = x /\ call[t].l \in Pointers /\ IsTagged(ptr[t]["l"])
  BY <1>1, PlaceIs
<1>3. a \in Nat /\ dst.f \in Frames
  BY <1>2, PointerKinds DEF FramePlaces
<1>4. k <= PageSize - x /\ PageSize \in Nat
  <2>1. /\ MinLeft(t) <= Left(t, "l") /\ MinLeft(t) \in Nat /\ Left(t, "l") \in Nat
        /\ Left(t, "l") = PageSize - dst.o /\ PageSize \in Nat
    BY <1>1, <1>2, MinLeftIs, LeftIs, Sizes
  <2> DEFINE y == Left(t, "l")
             m == MinLeft(t)
  <2>2. m <= y /\ m \in Nat /\ y \in Nat /\ k <= m /\ y = PageSize - x
    BY <1>2, <2>1
  <2> HIDE DEF y, m, x
  <2> QED
    BY <2>1, <2>2
<1>5. /\ \A f \in Frames : f # dst.f => data'[f] = data[f]
      /\ \A z \in Offsets :
              data'[dst.f][z] = IF z \in dst.o .. (dst.o + k - 1)
                                  THEN SeenAt(call[t].r, d + (z - dst.o))
                                  ELSE data[dst.f][z]
  BY CopyToStorage
<1>6. /\ p \in Pages /\ o \in Offsets /\ n = PageSize * p + o
      /\ q \in Pages /\ x \in Offsets /\ b = PageSize * q + x
  BY <1>2, StorageByte
<1>7. MemByte(n) = Mem[p][o] /\ MemByte(n)' = Mem'[p][o]
  BY DEF MemByte
<1>8. /\ \A f \in Frames : cache[f] = p => Mem[p] = data[f] /\ Mem'[p] = data'[f]
      /\ (\A f \in Frames : cache[f] # p) => Mem[p] = backing[p] /\ Mem'[p] = backing[p]
  BY <1>1, <1>6, MemAt, MemAtNext
<1>9. PageSize \in Nat /\ Offsets \subseteq Nat /\ Pages \subseteq Nat
  BY PagesOffsets, Sizes
<1>10. CASE p = q
  <2>1. Mem'[p][o] = data'[dst.f][o] /\ Mem[p][o] = data[dst.f][o]
    BY <1>2, <1>3, <1>8, <1>10
  <2> DEFINE z == PageSize * p
  <2>2. z \in Int /\ n = z + o /\ b = z + x /\ o \in Nat /\ x \in Nat
    <3>1. p \in Nat /\ o \in Nat /\ x \in Nat
      BY <1>6, <1>9
    <3>2. n = z + o /\ b = z + x
      BY <1>6, <1>10
    <3> HIDE DEF p, o, x
    <3>3. z \in Int
      BY <1>9, <3>1
    <3> QED
      BY <3>1, <3>2, <3>3
  <2>3. b = a + d
    OBVIOUS
  <2> HIDE DEF z, o, x, b
  <2>4. n - a = d + (o - x) /\ (n \in b .. (b + k - 1) <=> o \in x .. (x + k - 1))
    BY <1>2, <1>3, <2>2, <2>3
  <2>5. Mem'[p][o] = IF o \in x .. (x + k - 1) THEN SeenAt(call[t].r, d + (o - x)) ELSE Mem[p][o]
    BY <1>2, <1>5, <1>6, <2>1
  <2>6. Mem'[p][o] = IF n \in b .. (b + k - 1) THEN SeenAt(call[t].r, n - a) ELSE Mem[p][o]
    BY <2>4, <2>5
  <2> QED
    BY <1>7, <2>6 DEF b
<1>11. CASE p # q
  <2>1. Mem'[p] = Mem[p]
    <3>1. CASE \E f \in Frames : cache[f] = p
      <4>1. PICK f \in Frames : cache[f] = p
        BY <3>1
      <4>2. f # dst.f
        BY <1>2, <1>11, <4>1
      <4> QED
        BY <1>5, <1>8, <4>1, <4>2
    <3>2. CASE \A f \in Frames : cache[f] # p
      BY <1>8, <3>2
    <3> QED
      BY <3>1, <3>2
  <2>2. n \notin Span
    <3> SUFFICES ASSUME n \in Span PROVE FALSE
      OBVIOUS
    <3> DEFINE i == n - b
    <3> HIDE DEF b, x
    <3>1. n \in b .. (b + k - 1) /\ b \in Nat /\ x \in Nat
      BY <1>2, <1>6, <1>9
    <3>2. i \in Nat /\ x + i < PageSize /\ b + i = n
      BY <1>4, <3>1
    <3> HIDE DEF i
    <3>3. (b + i) \div PageSize = b \div PageSize
      BY <1>2, <3>2, SamePage DEF x
    <3> QED
      BY <1>11, <3>2, <3>3
  <2> QED
    BY <1>7, <2>1, <2>2
<1> QED
  BY <1>10, <1>11

LEMMA ApplyBytes ==
  ASSUME PlacesInv, PlacesInv', NEW t \in Threads, InCall(t), todo[t] = {},
         NEW k \in Nat, k <= MinLeft(t), k <= ctr[t], Apply(t, k),
         UNCHANGED <<cache, backing>>
  PROVE  /\ \A n \in 0 .. (Bytes - 1) :
              MemByte(n)' = IF InChunk(t, k, "tagged", n)
                              THEN SeenAt(call[t].r, n - call[t].l.a) ELSE MemByte(n)
         /\ \A a \in 0 .. (NativeSize - 1) :
              native'[a] = IF InChunk(t, k, "native", a)
                             THEN SeenAt(call[t].r, a - call[t].l.a) ELSE native[a]
         /\ call[t].func \notin Writes => Mem' = Mem /\ native' = native
<1>1. CASE call[t].func \notin Writes
  <2>1. data' = data /\ native' = native
    BY <1>1 DEF Apply
  <2>2. Mem' = Mem
    BY <2>1, MemSame
  <2>3. \A n : MemByte(n)' = MemByte(n)
    BY <2>2 DEF MemByte
  <2> QED
    BY <1>1, <2>1, <2>2, <2>3 DEF InChunk
<1>2. CASE call[t].func \in Writes /\ call[t].l.kind = "tagged"
  <2>1. Copy(t, k)
    BY <1>2 DEF Apply
  <2>2. native' = native
    BY <1>2, <2>1, CopyToStorage
  <2>3. \A n \in 0 .. (Bytes - 1) : MemByte(n)' =
           IF n \in (call[t].l.a + Done(t)) .. (call[t].l.a + Done(t) + k - 1)
             THEN SeenAt(call[t].r, n - call[t].l.a) ELSE MemByte(n)
    BY <1>2, <2>1, StorageBytes
  <2>4. /\ \A n : InChunk(t, k, "tagged", n) <=>
             n \in (call[t].l.a + Done(t)) .. (call[t].l.a + Done(t) + k - 1)
        /\ \A a : ~InChunk(t, k, "native", a)
    BY <1>2 DEF InChunk
  <2> QED
    BY <1>2, <2>2, <2>3, <2>4
<1>3. CASE call[t].func \in Writes /\ call[t].l.kind # "tagged"
  <2>1. Copy(t, k)
    BY <1>3 DEF Apply
  <2>2. /\ call[t].l.kind = "native" /\ data' = data
        /\ \A a \in 0 .. (NativeSize - 1) :
              native'[a] = IF a \in (call[t].l.a + Done(t)) .. (call[t].l.a + Done(t) + k - 1)
                             THEN SeenAt(call[t].r, a - call[t].l.a)
                             ELSE native[a]
    BY <1>3, <2>1, CopyToNative
  <2>3. \A n : MemByte(n)' = MemByte(n)
    BY <2>2, MemSame DEF MemByte
  <2>4. /\ \A a : InChunk(t, k, "native", a) <=>
             a \in (call[t].l.a + Done(t)) .. (call[t].l.a + Done(t) + k - 1)
        /\ \A n : ~InChunk(t, k, "tagged", n)
    BY <1>3, <2>2 DEF InChunk
  <2> QED
    BY <1>3, <2>2, <2>3, <2>4
<1> QED
  BY <1>1, <1>2, <1>3


---------------------------------------------------------------------------
(* The result of a chunk *)

LEMMA MemTypes ==
  ASSUME LinkInv
  PROVE  Mem \in [Pages -> [Offsets -> Values]]
<1>1. ASSUME NEW p \in Pages
      PROVE  Mem[p] \in [Offsets -> Values]
  <2>1. /\ \A f \in Frames : cache[f] = p => Mem[p] = data[f]
        /\ (\A f \in Frames : cache[f] # p) => Mem[p] = backing[p]
    BY MemAt DEF LinkInv
  <2> QED
    BY <2>1 DEF LinkInv, TypeOK
<1> QED
  BY <1>1 DEF Mem

LEMMA SeenValues ==
  ASSUME PlacesInv, NEW p \in Pointers, NEW n \in Nat, Fits(p, n), NEW i \in 0 .. (n - 1)
  PROVE  /\ SeenAt(p, i) \in Values
         /\ p.kind = "tagged" => p.a + i \in 0 .. (Bytes - 1) /\ SeenAt(p, i) = MemByte(p.a + i)
         /\ p.kind = "native" => p.a + i \in 0 .. (NativeSize - 1)
<1>1. p.kind \in {"tagged", "native", "byte"}
  BY PointerKinds
<1>2. CASE p.kind = "tagged"
  <2> DEFINE a == p.a
  <2>1. a \in Nat /\ a + n <= Bytes /\ Bytes \in Nat
    BY <1>2, PointerKinds, Sizes DEF Fits
  <2> HIDE DEF a
  <2>2. a + i \in 0 .. (Bytes - 1)
    BY <2>1
  <2>3. SeenAt(p, i) = MemByte(a + i)
    BY <1>2 DEF SeenAt, MemByte, a
  <2>4. MemByte(a + i) \in Values
    <3>1. (a + i) \div PageSize \in Pages /\ (a + i) % PageSize \in Offsets
      BY <2>2, StorageByte
    <3>2. Mem \in [Pages -> [Offsets -> Values]]
      BY MemTypes DEF PlacesInv
    <3> QED
      BY <3>1, <3>2 DEF MemByte
  <2> QED
    BY <1>2, <2>2, <2>3, <2>4 DEF a
<1>3. CASE p.kind = "native"
  <2> DEFINE a == p.a
  <2>1. a \in Nat /\ a + n <= NativeSize /\ NativeSize \in Nat
    BY <1>3, PointerKinds, Sizes DEF Fits
  <2> HIDE DEF a
  <2>2. a + i \in 0 .. (NativeSize - 1)
    BY <2>1
  <2>3. SeenAt(p, i) = native[a + i]
    BY <1>3 DEF SeenAt, a
  <2>4. native[a + i] \in Values
    BY <2>2 DEF PlacesInv, WrapperTypes
  <2> QED
    BY <1>3, <2>2, <2>3, <2>4 DEF a
<1>4. CASE p.kind = "byte"
  BY <1>4, PointerKinds DEF SeenAt
<1> QED
  BY <1>1, <1>2, <1>3, <1>4

LEMMA CallIs ==
  ASSUME PlacesInv, NEW t \in Threads, InCall(t)
  PROVE  /\ call[t] \in ProgramCalls /\ call[t].n \in Nat /\ ctr[t] \in Nat /\ Done(t) \in Nat
         /\ call[t].n = Done(t) + ctr[t] /\ ctr[t] <= call[t].n
         /\ call[t].l \in Pointers /\ call[t].r \in Pointers
         /\ call[t].l.kind \in {"tagged", "native"}
         /\ Fits(call[t].l, call[t].n) /\ Fits(call[t].r, call[t].n)
         /\ call[t].func \in Writes \cup {"memcmp", "memchr"}
         /\ "memcmp" \notin Writes /\ "memchr" \notin Writes
<1>1. call[t] \in ProgramCalls /\ ctr[t] \in Nat /\ ctr[t] <= call[t].n
  BY DEF PlacesInv, WrapperTypes, InCall, NoCall, Returned, CallInv
<1>2. /\ call[t].n \in Nat /\ call[t].l \in Pointers /\ call[t].r \in Pointers
      /\ Fits(call[t].l, call[t].n) /\ Fits(call[t].r, call[t].n)
      /\ call[t].l.kind # "byte" /\ call[t].func \in Funcs
  BY <1>1, CallFields
<1>3. call[t].l.kind \in {"tagged", "native"}
  BY <1>2, PointerKinds
<1>4. Done(t) \in Nat /\ call[t].n = Done(t) + ctr[t]
  <2> DEFINE n == call[t].n
             c == ctr[t]
  <2>1. n \in Nat /\ c \in Nat /\ c <= n /\ Done(t) = n - c
    BY <1>1, <1>2 DEF Done
  <2> HIDE DEF n, c
  <2>2. Done(t) \in Nat /\ n = Done(t) + c
    BY <2>1
  <2> QED
    BY <2>2 DEF n, c
<1> QED
  BY <1>1, <1>2, <1>3, <1>4 DEF Funcs, Writes

(* The bytes a call and its next chunk compare. *)
LEMMA SeenChunks ==
  ASSUME PlacesInv, NEW t \in Threads, InCall(t), todo[t] = {},
         NEW k \in Nat, k <= MinLeft(t), k <= ctr[t]
  PROVE  LET X == SeenBytes(call[t].l, call[t].n)
             Y == SeenBytes(call[t].r, call[t].n)
         IN  /\ X \in [0 .. (call[t].n - 1) -> Int] /\ Y \in [0 .. (call[t].n - 1) -> Int]
             /\ ChunkOf(RawBytes(place[t]["l"], k), X, Done(t), k)
             /\ ChunkOf(RawBytes(place[t]["r"], k), Y, Done(t), k)
             /\ \A i \in 0 .. (call[t].n - 1) :
                   X[i] = SeenAt(call[t].l, i) /\ Y[i] = SeenAt(call[t].r, i)
<1> DEFINE n == call[t].n
           d == Done(t)
           l == call[t].l
           r == call[t].r
           X == SeenBytes(l, n)
           Y == SeenBytes(r, n)
<1>1. /\ n \in Nat /\ d \in Nat /\ n = d + ctr[t] /\ ctr[t] \in Nat
      /\ l \in Pointers /\ r \in Pointers /\ Fits(l, n) /\ Fits(r, n)
  BY CallIs
<1>2. \A i \in 0 .. (k - 1) :
           /\ ByteAt(place[t]["l"], i) = SeenAt(l, d + i)
           /\ ByteAt(place[t]["r"], i) = SeenAt(r, d + i)
  BY ChunkBytes
<1> HIDE DEF n, d, l, r, X, Y
<1>3. \A i \in 0 .. (n - 1) : SeenAt(l, i) \in Int /\ SeenAt(r, i) \in Int
  <2>1. Values \subseteq Nat
    BY WrapperConstantsOK
  <2> TAKE i \in 0 .. (n - 1)
  <2>2. SeenAt(l, i) \in Values /\ SeenAt(r, i) \in Values
    BY <1>1, SeenValues
  <2>3. SeenAt(l, i) \in Nat /\ SeenAt(r, i) \in Nat
    BY <2>1, <2>2, Zenon
  <2>4. \A z \in Nat : z \in Int
    OBVIOUS
  <2> QED
    BY <2>3, <2>4, Zenon
<1>4. \A i \in 0 .. (k - 1) : d + i \in 0 .. (n - 1)
  BY <1>1
<1>5. X = [i \in 0 .. (n - 1) |-> SeenAt(l, i)] /\ Y = [i \in 0 .. (n - 1) |-> SeenAt(r, i)]
  BY DEF SeenBytes, X, Y
<1>6. X \in [0 .. (n - 1) -> Int] /\ Y \in [0 .. (n - 1) -> Int]
  BY <1>3, <1>5
<1>7. \A i \in 0 .. (n - 1) : X[i] = SeenAt(l, i) /\ Y[i] = SeenAt(r, i)
  BY <1>5
<1>8. ChunkOf(RawBytes(place[t]["l"], k), X, d, k)
  <2>1. \A i \in 0 .. (k - 1) : ByteAt(place[t]["l"], i) = X[d + i]
    BY <1>2, <1>4, <1>7
  <2>2. X = [i \in DOMAIN X |-> X[i]]
    BY <1>6
  <2> QED
    BY <2>1, <2>2 DEF ChunkOf, RawBytes
<1>9. ChunkOf(RawBytes(place[t]["r"], k), Y, d, k)
  <2>1. \A i \in 0 .. (k - 1) : ByteAt(place[t]["r"], i) = Y[d + i]
    BY <1>2, <1>4, <1>7
  <2>2. Y = [i \in DOMAIN Y |-> Y[i]]
    BY <1>6
  <2> QED
    BY <2>1, <2>2 DEF ChunkOf, RawBytes
<1> QED
  BY <1>6, <1>7, <1>8, <1>9 DEF n, d, l, r, X, Y

(* memcmp's chunks: the first that differs decides. *)
LEMMA CompareResult ==
  ASSUME PlacesInv, NEW t \in Threads, JobInv(t), InCall(t), todo[t] = {},
         NEW k \in Nat, k <= MinLeft(t), k <= ctr[t], call[t].func = "memcmp"
  PROVE  /\ ChunkResult(t, k) # NULL => Expected(call[t]) = ChunkResult(t, k)
         /\ ChunkResult(t, k) = NULL =>
              \A i \in 0 .. (Done(t) + k - 1) : SeenAt(call[t].l, i) = SeenAt(call[t].r, i)
         /\ ChunkResult(t, k) = NULL /\ k = ctr[t] => Expected(call[t]) = NULL
<1> DEFINE n == call[t].n
           d == Done(t)
           X == SeenBytes(call[t].l, n)
           Y == SeenBytes(call[t].r, n)
           x == RawBytes(place[t]["l"], k)
           y == RawBytes(place[t]["r"], k)
<1>1. n \in Nat /\ d \in Nat /\ n = d + ctr[t] /\ ctr[t] \in Nat
  BY CallIs
<1>2. /\ X \in [0 .. (n - 1) -> Int] /\ Y \in [0 .. (n - 1) -> Int]
      /\ ChunkOf(x, X, d, k) /\ ChunkOf(y, Y, d, k)
      /\ \A i \in 0 .. (n - 1) : X[i] = SeenAt(call[t].l, i) /\ Y[i] = SeenAt(call[t].r, i)
  BY SeenChunks
<1>3. \A i \in 0 .. (d - 1) : SeenAt(call[t].l, i) = SeenAt(call[t].r, i)
  BY DEF JobInv
<1>4. /\ ChunkResult(t, k) = Number(Compare(x, y))
      /\ Expected(call[t]) = Number(Compare(X, Y))
  <2>1. call[t].func \notin Writes /\ call[t].func # "memchr"
    BY CallIs
  <2>2. ChunkResult(t, k) = Number(Compare(x, y))
    BY <2>1 DEF ChunkResult, Value
  <2>3. Expected(call[t]) = Number(Compare(X, Y))
    BY <2>1 DEF Expected, Value
  <2> QED
    BY <2>2, <2>3
<1> HIDE DEF n, d, X, Y, x, y
<1>5. d + k <= n /\ (k = ctr[t] => d + k = n) /\ \A i \in 0 .. (d + k - 1) : i \in 0 .. (n - 1)
  BY <1>1
<1>6. ChunksOf(x, y, X, Y, n, d, k) /\ SameTo(X, Y, d)
  BY <1>1, <1>2, <1>3, <1>5 DEF ChunksOf, SameTo
<1>7. /\ Compare(x, y) # 0 => Compare(X, Y) = Compare(x, y)
      /\ Compare(x, y) = 0 => SameTo(X, Y, d + k)
      /\ Compare(x, y) = 0 /\ d + k = n => Compare(X, Y) = 0
  BY <1>6, CompareParts
<1>8. Compare(x, y) = 0 =>
        \A i \in 0 .. (d + k - 1) : SeenAt(call[t].l, i) = SeenAt(call[t].r, i)
  <2> SUFFICES ASSUME Compare(x, y) = 0, NEW i \in 0 .. (d + k - 1)
               PROVE  SeenAt(call[t].l, i) = SeenAt(call[t].r, i)
    OBVIOUS
  <2>1. X[i] = Y[i]
    <3>1. SameTo(X, Y, d + k)
      BY <1>7
    <3>2. i \in 0 .. ((d + k) - 1)
      BY <1>1
    <3> QED
      BY <3>1, <3>2, SameToAt
  <2>2. i \in 0 .. (n - 1)
    BY <1>5
  <2>3. X[i] = SeenAt(call[t].l, i) /\ Y[i] = SeenAt(call[t].r, i)
    BY <1>2, <2>2
  <2> QED
    BY <2>1, <2>3
<1>9. \A z : Number(z) = NULL <=> z = 0
  BY DEF Number, NULL
<1> QED
  BY <1>4, <1>5, <1>7, <1>8, <1>9 DEF d

(* The byte z places into the chunk: libc points to it, memchr returns its *)
(* raw address.                                                            *)
LEMMA FoundPlace ==
  ASSUME PlacesInv, NEW t \in Threads, InCall(t), todo[t] = {},
         NEW k \in Nat, k <= MinLeft(t), k <= ctr[t], NEW z \in 0 .. (k - 1)
  PROVE  LET x == Advance(place[t]["l"], z)
             p == Advance(call[t].l, Done(t) + z)
         IN  (p = x \/ KeptFor(t, x, p)) /\ x # NULL
<1> DEFINE l == call[t].l
           q == place[t]["l"]
           d == Done(t)
           n == l.a + d
           x == Advance(q, z)
           p == Advance(l, d + z)
<1>1. "l" \in Sides /\ Operand(call[t], "l") = l /\ z \in Nat
  BY DEF Sides, Operand
<1>2. /\ l \in Pointers /\ d \in Nat /\ ptr[t]["l"] = Advance(l, d)
      /\ l.kind = "tagged" =>
           /\ IsTagged(ptr[t]["l"]) /\ q \in FramePlaces /\ q.kind = "frame"
           /\ n \in 0 .. (Bytes - 1) /\ ptr[t]["l"].a = n /\ q.o = n % PageSize
      /\ l.kind # "tagged" => q = Advance(l, d)
  BY <1>1, PlaceIs
<1>3. l.kind \in {"tagged", "native"}
  BY CallIs
<1>4. CASE l.kind = "native"
  <2>1. p = x
    BY <1>1, <1>2, <1>4, AdvanceTwice
  <2>2. p.kind = "native"
    <3>1. d + z \in Nat
      BY <1>1, <1>2
    <3> QED
      BY <1>2, <1>4, <3>1, AdvanceKind
  <2> QED
    BY <2>1, <2>2 DEF NULL, Number
<1>5. CASE l.kind = "tagged"
  <2>1. PICK j \in Counted(t) :
          tlb[t][j].bs = n \div PageSize /\ tlb[t][j].epc = q.f
    <3>1. LinkStays(t, "l")
      BY <1>1, <1>2, <1>5 DEF PlacesInv, CallInv, OperandInv
    <3> QED
      BY <1>2, <1>5, <3>1 DEF LinkStays
  <2>2. x.kind = "frame" /\ x.f = q.f /\ x.o = q.o + z
    BY <1>1, <1>2, <1>5, AdvanceKind
  <2>3. d + z \in Nat /\ p.kind = "tagged" /\ p.a = l.a + (d + z) /\ l.a \in Nat
    <3>1. d + z \in Nat
      BY <1>1, <1>2
    <3> QED
      BY <1>2, <1>5, <3>1, AdvanceKind
  <2>4. p.a = n + z
    <3> DEFINE a == l.a
    <3>1. a \in Nat /\ p.a = a + (d + z) /\ n = a + d
      BY <2>3
    <3> HIDE DEF a, n, p, d
    <3> QED
      BY <1>1, <1>2, <3>1
  <2>5. (n % PageSize) + z < PageSize
    <3> DEFINE o == n % PageSize
               left == Left(t, "l")
    <3>1. left = PageSize - o /\ k <= left
      <4>1. left = PageSize - q.o
        BY <1>1, <1>2, <1>5, LeftIs
      <4>2. MinLeft(t) \in Nat /\ MinLeft(t) <= left /\ left \in Nat
        BY <1>1, MinLeftIs
      <4> HIDE DEF left, q
      <4> QED
        BY <1>2, <1>5, <4>1, <4>2
    <3>2. o \in Nat /\ PageSize \in Nat
      BY <1>2, <1>5, StorageByte, PagesOffsets, Sizes
    <3> HIDE DEF o, left
    <3>3. o + z < PageSize
      BY <3>1, <3>2
    <3> QED
      BY <3>3 DEF o
  <2>6. (n + z) \div PageSize = n \div PageSize /\ (n + z) % PageSize = (n % PageSize) + z
    <3> HIDE DEF n
    <3> QED
      BY <1>1, <1>2, <1>5, <2>5, SamePage
  <2>7. x.o = p.a % PageSize /\ tlb[t][j].bs = p.a \div PageSize
    BY <1>2, <1>5, <2>1, <2>2, <2>4, <2>6
  <2>8. KeptFor(t, x, p)
    BY <2>1, <2>2, <2>3, <2>7 DEF KeptFor
  <2> QED
    BY <2>2, <2>8 DEF NULL, Number
<1> QED
  BY <1>3, <1>4, <1>5

(* memchr's: the first that has the byte; its address is one of the byte   *)
(* libc points to.                                                         *)
LEMMA FindResult ==
  ASSUME PlacesInv, NEW t \in Threads, JobInv(t), InCall(t), todo[t] = {},
         NEW k \in Nat, k <= MinLeft(t), k <= ctr[t], call[t].func = "memchr"
  PROVE  /\ ChunkResult(t, k) # NULL =>
              \/ Expected(call[t]) = ChunkResult(t, k)
              \/ KeptFor(t, ChunkResult(t, k), Expected(call[t]))
         /\ ChunkResult(t, k) = NULL =>
              \A i \in 0 .. (Done(t) + k - 1) : SeenAt(call[t].l, i) # SeenAt(call[t].r, i)
         /\ ChunkResult(t, k) = NULL /\ k = ctr[t] => Expected(call[t]) = NULL
<1> DEFINE n == call[t].n
           d == Done(t)
           X == SeenBytes(call[t].l, n)
           Y == SeenBytes(call[t].r, n)
           x == RawBytes(place[t]["l"], k)
           y == RawBytes(place[t]["r"], k)
<1>1. n \in Nat /\ d \in Nat /\ n = d + ctr[t] /\ ctr[t] \in Nat
  BY CallIs
<1>2. /\ X \in [0 .. (n - 1) -> Int] /\ Y \in [0 .. (n - 1) -> Int]
      /\ ChunkOf(x, X, d, k) /\ ChunkOf(y, Y, d, k)
      /\ \A i \in 0 .. (n - 1) : X[i] = SeenAt(call[t].l, i) /\ Y[i] = SeenAt(call[t].r, i)
  BY SeenChunks
<1>3. \A i \in 0 .. (d - 1) : SeenAt(call[t].l, i) # SeenAt(call[t].r, i)
  BY DEF JobInv
<1>4. /\ ChunkResult(t, k) =
            IF Find(x, y) = -1 THEN NULL ELSE Advance(place[t]["l"], Find(x, y))
      /\ Expected(call[t]) =
            IF Find(X, Y) = -1 THEN NULL ELSE Advance(call[t].l, Find(X, Y))
  <2>1. call[t].func \notin Writes /\ call[t].func # "memcmp"
    BY CallIs
  <2>2. ChunkResult(t, k) =
          IF Find(x, y) = -1 THEN NULL ELSE Advance(place[t]["l"], Find(x, y))
    BY <2>1 DEF ChunkResult, Value
  <2>3. Expected(call[t]) =
          IF Find(X, Y) = -1 THEN NULL ELSE Advance(call[t].l, Find(X, Y))
    BY <2>1 DEF Expected, Value
  <2> QED
    BY <2>2, <2>3
<1> HIDE DEF n, d, X, Y, x, y
<1>5. d + k <= n /\ (k = ctr[t] => d + k = n) /\ \A i \in 0 .. (d + k - 1) : i \in 0 .. (n - 1)
  BY <1>1
<1>6. ChunksOf(x, y, X, Y, n, d, k) /\ DifferTo(X, Y, d)
  BY <1>1, <1>2, <1>3, <1>5 DEF ChunksOf, DifferTo
<1>7. /\ Find(x, y) # -1 => Find(x, y) \in 0 .. (k - 1) /\ Find(X, Y) = d + Find(x, y)
      /\ Find(x, y) = -1 => DifferTo(X, Y, d + k)
      /\ Find(x, y) = -1 /\ d + k = n => Find(X, Y) = -1
  BY <1>6, FindParts
<1>8. Find(x, y) = -1 =>
        \A i \in 0 .. (d + k - 1) : SeenAt(call[t].l, i) # SeenAt(call[t].r, i)
  <2> SUFFICES ASSUME Find(x, y) = -1, NEW i \in 0 .. (d + k - 1)
               PROVE  SeenAt(call[t].l, i) # SeenAt(call[t].r, i)
    OBVIOUS
  <2>1. X[i] # Y[i]
    <3>1. DifferTo(X, Y, d + k)
      BY <1>7
    <3>2. i \in 0 .. ((d + k) - 1)
      BY <1>1
    <3> QED
      BY <3>1, <3>2, DifferToAt
  <2>2. i \in 0 .. (n - 1)
    BY <1>5
  <2>3. X[i] = SeenAt(call[t].l, i) /\ Y[i] = SeenAt(call[t].r, i)
    BY <1>2, <2>2
  <2> QED
    BY <2>1, <2>3
<1>9. CASE Find(x, y) = -1
  BY <1>4, <1>5, <1>7, <1>8, <1>9 DEF d
<1>10. CASE Find(x, y) # -1
  <2> DEFINE z == Find(x, y)
  <2>1. /\ z \in 0 .. (k - 1) /\ ChunkResult(t, k) = Advance(place[t]["l"], z)
        /\ Expected(call[t]) = Advance(call[t].l, d + z)
    <3>1. z \in 0 .. (k - 1) /\ Find(X, Y) = d + z /\ z # -1
      BY <1>7, <1>10
    <3>2. Find(X, Y) # -1
      BY <1>1, <3>1
    <3> QED
      BY <1>4, <3>1, <3>2
  <2> HIDE DEF z
  <2>2. /\ \/ Expected(call[t]) = ChunkResult(t, k)
           \/ KeptFor(t, ChunkResult(t, k), Expected(call[t]))
        /\ ChunkResult(t, k) # NULL
    BY <2>1, FoundPlace DEF d
  <2> QED
    BY <2>2
<1> QED
  BY <1>9, <1>10


---------------------------------------------------------------------------
(* The calls do what they have to *)

(* The bytes still to be written after the chunk. *)
Remains(t, k, kind, a) ==
    /\ call[t].func \in Writes /\ kind = call[t].l.kind
    /\ a \in (call[t].l.a + (Done(t) + k)) .. (call[t].l.a + call[t].n - 1)

(* The byte was the goal's unless it is to be written, and the chunk writes *)
(* the one it copies.                                                      *)
ByteStep(t, k, kind, a, old, new) ==
    /\ k \in Nat /\ k <= ctr[t] /\ a \in Nat
    /\ ToWrite(t, kind, a) \/ old = GoalByte(t, kind, a)
    /\ new = IF InChunk(t, k, kind, a) THEN SeenAt(call[t].r, a - call[t].l.a) ELSE old

(* What the chunk writes is what the call has to leave there. *)
LEMMA ByteAfter ==
  ASSUME PlacesInv, NEW t \in Threads, JobInv(t), InCall(t),
         NEW k, NEW kind, NEW a, NEW old, NEW new, ByteStep(t, k, kind, a, old, new)
  PROVE  Remains(t, k, kind, a) \/ new = GoalByte(t, kind, a)
<1> USE DEF ByteStep
<1> DEFINE n == call[t].n
           d == Done(t)
           b == call[t].l.a
           c == ctr[t]
<1>1. /\ n \in Nat /\ d \in Nat /\ c \in Nat /\ n = d + c /\ k <= c
      /\ call[t].l \in Pointers /\ call[t].l.kind \in {"tagged", "native"}
  BY CallIs
<1>2. b \in Nat
  BY <1>1, PointerKinds
<1>3. /\ InChunk(t, k, kind, a) <=> /\ call[t].func \in Writes /\ kind = call[t].l.kind
                                    /\ a \in (b + d) .. (b + d + k - 1)
      /\ ToWrite(t, kind, a) <=> /\ call[t].func \in Writes /\ kind = call[t].l.kind
                                 /\ a \in (b + d) .. (b + n - 1)
      /\ Remains(t, k, kind, a) <=> /\ call[t].func \in Writes /\ kind = call[t].l.kind
                                    /\ a \in (b + (d + k)) .. (b + n - 1)
  BY DEF InChunk, ToWrite, Remains
<1>4. call[t].func \in Writes => \A i \in d .. (n - 1) :
         GoalByte(t, call[t].l.kind, b + i) = SeenAt(call[t].r, i)
  BY DEF JobInv
<1> HIDE DEF n, d, b, c
<1>5. CASE InChunk(t, k, kind, a)
  <2> DEFINE i == a - b
  <2>1. i \in d .. (n - 1) /\ b + i = a
    BY <1>1, <1>2, <1>3, <1>5
  <2>2. new = SeenAt(call[t].r, i)
    BY <1>5 DEF b
  <2> HIDE DEF i
  <2>3. GoalByte(t, kind, a) = SeenAt(call[t].r, i)
    BY <1>3, <1>4, <1>5, <2>1
  <2> QED
    BY <2>2, <2>3
<1>6. CASE ~InChunk(t, k, kind, a) /\ ToWrite(t, kind, a)
  BY <1>1, <1>2, <1>3, <1>6
<1>7. CASE ~InChunk(t, k, kind, a) /\ ~ToWrite(t, kind, a)
  BY <1>7
<1> QED
  BY <1>5, <1>6, <1>7

(* A chunk does not overwrite what is to be copied after it. *)
LEMMA SourceKept ==
  ASSUME PlacesInv, PlacesInv', NEW t \in Threads, JobInv(t), InCall(t), todo[t] = {},
         NEW k \in Nat, k <= MinLeft(t), k <= ctr[t], Apply(t, k),
         UNCHANGED <<cache, backing>>, call[t].func \in Writes,
         NEW c, c = call[t], NEW i \in Done(t) .. (c.n - 1)
  PROVE  SeenAt(c.r, i)' = SeenAt(c.r, i)
<1> DEFINE n == c.n
           d == Done(t)
           b == c.l.a
           s == c.r.a
           m == ctr[t]
<1>1. /\ n \in Nat /\ d \in Nat /\ m \in Nat /\ n = d + m /\ k <= m
      /\ c.l \in Pointers /\ c.l.kind \in {"tagged", "native"} /\ c.r \in Pointers
      /\ Fits(c.r, n)
  BY CallIs
<1>2. c.r.kind \in {"tagged", "native", "byte"} /\ b \in Nat
  BY <1>1, PointerKinds
<1>3. i \in 0 .. (n - 1) /\ i \in Nat
  BY <1>1
<1>4. /\ c.r.kind = "tagged" => s + i \in 0 .. (Bytes - 1)
      /\ c.r.kind = "native" => s + i \in 0 .. (NativeSize - 1)
  BY <1>1, <1>3, SeenValues
<1>5. ASSUME c.r.kind \in {"tagged", "native"}
      PROVE  ~InChunk(t, k, c.r.kind, s + i)
  <2> SUFFICES ASSUME InChunk(t, k, c.r.kind, s + i) PROVE FALSE
    OBVIOUS
  <2>1. c.l.kind = c.r.kind /\ s + i \in (b + d) .. (b + d + k - 1)
    BY DEF InChunk
  <2>2. b + n <= s \/ s + n <= b
    BY <2>1 DEF JobInv, OperandsApart
  <2>3. s \in Nat
    BY <1>1, <1>5, PointerKinds
  <2> HIDE DEF n, d, b, s, m
  <2> QED
    BY <1>1, <1>2, <1>3, <2>1, <2>2, <2>3
<1>6. /\ \A x \in 0 .. (Bytes - 1) : ~InChunk(t, k, "tagged", x) => MemByte(x)' = MemByte(x)
      /\ \A a \in 0 .. (NativeSize - 1) : ~InChunk(t, k, "native", a) => native'[a] = native[a]
  BY ApplyBytes
<1>7. CASE c.r.kind = "tagged"
  <2>1. MemByte(s + i)' = MemByte(s + i)
    BY <1>4, <1>5, <1>6, <1>7
  <2> QED
    BY <1>7, <2>1 DEF SeenAt, MemByte
<1>8. CASE c.r.kind = "native"
  <2>1. native'[s + i] = native[s + i]
    BY <1>4, <1>5, <1>6, <1>8
  <2> QED
    BY <1>8, <2>1 DEF SeenAt
<1>9. CASE c.r.kind = "byte"
  BY <1>9 DEF SeenAt
<1> QED
  BY <1>2, <1>7, <1>8, <1>9

LEMMA BytesAfter ==
  ASSUME PlacesInv, PlacesInv', NEW t \in Threads, JobInv(t), InCall(t), todo[t] = {},
         NEW k \in Nat, k <= MinLeft(t), k <= ctr[t], Apply(t, k),
         UNCHANGED <<cache, backing>>
  PROVE  /\ \A x \in 0 .. (Bytes - 1) :
              Remains(t, k, "tagged", x) \/ MemByte(x)' = GoalByte(t, "tagged", x)
         /\ \A a \in 0 .. (NativeSize - 1) :
              Remains(t, k, "native", a) \/ native'[a] = GoalByte(t, "native", a)
<1>1. /\ \A n \in 0 .. (Bytes - 1) :
              MemByte(n)' = IF InChunk(t, k, "tagged", n)
                              THEN SeenAt(call[t].r, n - call[t].l.a) ELSE MemByte(n)
      /\ \A a \in 0 .. (NativeSize - 1) :
              native'[a] = IF InChunk(t, k, "native", a)
                             THEN SeenAt(call[t].r, a - call[t].l.a) ELSE native[a]
  BY ApplyBytes
<1>2. /\ \A n \in 0 .. (Bytes - 1) :
              ToWrite(t, "tagged", n) \/ MemByte(n) = GoalByte(t, "tagged", n)
      /\ \A a \in 0 .. (NativeSize - 1) :
              ToWrite(t, "native", a) \/ native[a] = GoalByte(t, "native", a)
  BY DEF JobInv
<1>3. ASSUME NEW x \in 0 .. (Bytes - 1)
      PROVE  Remains(t, k, "tagged", x) \/ MemByte(x)' = GoalByte(t, "tagged", x)
  <2> DEFINE new == MemByte(x)'
             old == MemByte(x)
  <2>1. /\ ToWrite(t, "tagged", x) \/ old = GoalByte(t, "tagged", x)
        /\ new = IF InChunk(t, k, "tagged", x)
                   THEN SeenAt(call[t].r, x - call[t].l.a) ELSE old
        /\ x \in Nat
    BY <1>1, <1>2
  <2> HIDE DEF new, old
  <2>2. ByteStep(t, k, "tagged", x, old, new)
    BY <2>1 DEF ByteStep
  <2>3. Remains(t, k, "tagged", x) \/ new = GoalByte(t, "tagged", x)
    BY <2>2, ByteAfter
  <2> QED
    BY <2>3 DEF new
<1>4. ASSUME NEW a \in 0 .. (NativeSize - 1)
      PROVE  Remains(t, k, "native", a) \/ native'[a] = GoalByte(t, "native", a)
  <2> DEFINE new == native'[a]
             old == native[a]
  <2>1. /\ ToWrite(t, "native", a) \/ old = GoalByte(t, "native", a)
        /\ new = IF InChunk(t, k, "native", a)
                   THEN SeenAt(call[t].r, a - call[t].l.a) ELSE old
        /\ a \in Nat
    BY <1>1, <1>2
  <2> HIDE DEF new, old
  <2>2. ByteStep(t, k, "native", a, old, new)
    BY <2>1 DEF ByteStep
  <2>3. Remains(t, k, "native", a) \/ new = GoalByte(t, "native", a)
    BY <2>2, ByteAfter
  <2> QED
    BY <2>3 DEF new
<1> QED
  BY <1>3, <1>4


LEMMA SeenSame ==
  ASSUME Mem' = Mem, native' = native
  PROVE  /\ \A p, i : SeenAt(p, i)' = SeenAt(p, i)
         /\ \A p, n : SeenBytes(p, n)' = SeenBytes(p, n)
         /\ \A c : Expected(c)' = Expected(c)
<1>1. \A p, i : SeenAt(p, i)' = SeenAt(p, i)
  BY DEF SeenAt
<1>2. \A p, n : SeenBytes(p, n)' = SeenBytes(p, n)
  BY <1>1 DEF SeenBytes
<1>3. ASSUME NEW c
      PROVE  Expected(c)' = Expected(c)
  <2>1. SeenBytes(c.l, c.n)' = SeenBytes(c.l, c.n) /\ SeenBytes(c.r, c.n)' = SeenBytes(c.r, c.n)
    BY <1>2
  <2> QED
    BY <2>1 DEF Expected, Value, Advance, Compare, Find, NULL, Number
<1> QED
  BY <1>1, <1>2, <1>3

(* Links and faults change nothing a call cares about. *)
LEMMA JobKept ==
  ASSUME NEW t \in Threads, JobInv(t), Mem' = Mem, native' = native,
         call'[t] = call[t], ctr'[t] = ctr[t], goal'[t] = goal[t], result'[t] = result[t],
         InCall(t) \/ (tlb'[t] = tlb[t] /\ pc'[t] = pc[t])
  PROVE  JobInv(t)'
<1>1. InCall(t)' = InCall(t) /\ Done(t)' = Done(t)
  BY DEF InCall, Done
<1>2. /\ \A i : SeenAt(call[t].l, i)' = SeenAt(call[t].l, i)
      /\ \A i : SeenAt(call[t].r, i)' = SeenAt(call[t].r, i)
  BY DEF SeenAt
<1>3. /\ \A n : MemByte(n)' = MemByte(n)
      /\ \A kind, a : ToWrite(t, kind, a)' = ToWrite(t, kind, a)
      /\ \A kind, a : GoalByte(t, kind, a)' = GoalByte(t, kind, a)
  BY DEF MemByte, ToWrite, GoalByte, Done
<1>4. \A kind, i : GoalByte(t, kind, call[t].l.a + i)' = GoalByte(t, kind, call[t].l.a + i)
  BY DEF GoalByte
<1>5. Expected(call[t])' = Expected(call[t])
  <2>1. /\ SeenBytes(call[t].l, call[t].n)' = SeenBytes(call[t].l, call[t].n)
        /\ SeenBytes(call[t].r, call[t].n)' = SeenBytes(call[t].r, call[t].n)
    BY <1>2 DEF SeenBytes
  <2> QED
    BY <2>1 DEF Expected, Value, Advance, Compare, Find, NULL, Number
<1>6. OperandsApart(call[t])' = OperandsApart(call[t])
  BY DEF OperandsApart
<1>7. CASE InCall(t)
  <2>1. call'[t].func # "returned"
    BY <1>7 DEF InCall
  <2> QED
    BY <1>1, <1>2, <1>3, <1>4, <1>5, <1>6, <1>7, <2>1 DEF JobInv
<1>8. CASE ~InCall(t)
  <2>1. tlb'[t] = tlb[t] /\ pc'[t] = pc[t]
    BY <1>8
  <2>2. KeptFor(t, result[t], goal[t].result)' = KeptFor(t, result[t], goal[t].result)
    BY <2>1 DEF KeptFor, Counted
  <2> QED
    BY <1>1, <1>8, <2>2 DEF JobInv
<1> QED
  BY <1>7, <1>8


(* What a call has to do, byte by byte. *)
LEMMA GoalIs ==
  ASSUME PlacesInv, NEW c \in ProgramCalls
  PROVE  /\ Goal(c).mem \in [Pages -> [Offsets -> Values]]
         /\ Goal(c).native \in [0 .. (NativeSize - 1) -> Values]
         /\ Goal(c).result = Expected(c)
         /\ \A x \in 0 .. (Bytes - 1) :
              Goal(c).mem[x \div PageSize][x % PageSize] =
                IF c.func \in Writes /\ Covers(c.l, c.n, "tagged", x)
                  THEN SeenAt(c.r, x - c.l.a) ELSE MemByte(x)
         /\ \A a \in 0 .. (NativeSize - 1) :
              Goal(c).native[a] =
                IF c.func \in Writes /\ Covers(c.l, c.n, "native", a)
                  THEN SeenAt(c.r, a - c.l.a) ELSE native[a]
<1> DEFINE l == c.l
           n == c.n
           writes == c.func \in Writes
           Byte(x) == IF writes /\ Covers(l, n, "tagged", x) THEN SeenAt(c.r, x - l.a)
                                                             ELSE MemByte(x)
           Cell(a) == IF writes /\ Covers(l, n, "native", a) THEN SeenAt(c.r, a - l.a)
                                                             ELSE native[a]
<1>1. /\ n \in Nat /\ l \in Pointers /\ c.r \in Pointers /\ Fits(c.r, n)
      /\ l.kind \in {"tagged", "native"}
  BY CallFields, PointerKinds
<1>2. l.a \in Nat
  BY <1>1, PointerKinds
<1>3. ASSUME NEW x \in Nat, NEW kind, Covers(l, n, kind, x)
      PROVE  SeenAt(c.r, x - l.a) \in Values
  <2> DEFINE i == x - l.a
  <2>1. x \in l.a .. (l.a + n - 1)
    BY <1>3 DEF Covers
  <2>2. i \in 0 .. (n - 1)
    <3> DEFINE b == l.a
    <3> HIDE DEF b, n
    <3>1. x - b \in 0 .. (n - 1)
      BY <1>1, <1>2, <2>1 DEF b
    <3> QED
      BY <3>1 DEF b
  <2> HIDE DEF i, n
  <2> QED
    BY <1>1, <2>2, SeenValues DEF i
<1>4. Mem \in [Pages -> [Offsets -> Values]]
  BY MemTypes DEF PlacesInv
<1>5. ASSUME NEW p \in Pages, NEW o \in Offsets
      PROVE  /\ p * PageSize + o \in 0 .. (Bytes - 1) /\ MemByte(p * PageSize + o) = Mem[p][o]
             /\ Byte(p * PageSize + o) \in Values
  <2> DEFINE x == p * PageSize + o
  <2>1. PageSize * p = p * PageSize
    BY PagesOffsets, Sizes
  <2>2. x \in 0 .. (Bytes - 1) /\ x \div PageSize = p /\ x % PageSize = o
    BY <2>1, PageByte
  <2>3. MemByte(x) = Mem[p][o]
    BY <2>2 DEF MemByte
  <2> HIDE DEF x
  <2>4. x \in Nat
    BY <2>2
  <2>5. Byte(x) \in Values
    BY <1>3, <1>4, <2>3, <2>4
  <2> QED
    BY <2>2, <2>3, <2>5 DEF x
<1>6. Goal(c).mem = [p \in Pages |-> [o \in Offsets |-> Byte(p * PageSize + o)]]
  <2>1. Goal(c).mem = [p \in Pages |-> [o \in Offsets |->
           IF writes /\ Covers(l, n, "tagged", p * PageSize + o)
             THEN SeenAt(c.r, p * PageSize + o - l.a) ELSE Mem[p][o]]]
    BY DEF Goal
  <2>2. ASSUME NEW p \in Pages, NEW o \in Offsets
        PROVE  (IF writes /\ Covers(l, n, "tagged", p * PageSize + o)
                  THEN SeenAt(c.r, p * PageSize + o - l.a) ELSE Mem[p][o])
               = Byte(p * PageSize + o)
    <3>1. p * PageSize + o - l.a = (p * PageSize + o) - l.a
      BY <1>2, PagesOffsets, Sizes
    <3> QED
      BY <1>5, <3>1
  <2> HIDE DEF Byte
  <2> QED
    BY <2>1, <2>2
<1>7. Goal(c).native = [a \in 0 .. (NativeSize - 1) |-> Cell(a)]
  BY DEF Goal
<1>8. \A a \in 0 .. (NativeSize - 1) : Cell(a) \in Values
  <2> TAKE a \in 0 .. (NativeSize - 1)
  <2>1. native[a] \in Values /\ a \in Nat
    BY DEF PlacesInv, WrapperTypes
  <2> QED
    BY <1>3, <2>1
<1>9. Goal(c).result = Expected(c)
  BY DEF Goal
<1> HIDE DEF Byte, Cell
<1>10. ASSUME NEW x \in 0 .. (Bytes - 1)
       PROVE  Goal(c).mem[x \div PageSize][x % PageSize] = Byte(x)
  <2> DEFINE p == x \div PageSize
             o == x % PageSize
  <2>1. p \in Pages /\ o \in Offsets /\ x = PageSize * p + o
    BY StorageByte
  <2> HIDE DEF p, o
  <2>2. p \in Nat /\ o \in Nat /\ PageSize \in Nat
    BY <2>1, PagesOffsets, Sizes
  <2>3. x = p * PageSize + o
    <3>1. PageSize * p = p * PageSize
      BY <2>2
    <3> QED
      BY <2>1, <3>1
  <2>4. Goal(c).mem[p][o] = Byte(p * PageSize + o)
    BY <1>6, <2>1
  <2> QED
    BY <2>3, <2>4 DEF p, o
<1>11. Goal(c).mem \in [Pages -> [Offsets -> Values]]
  BY <1>5, <1>6
<1>12. Goal(c).native \in [0 .. (NativeSize - 1) -> Values]
  BY <1>7, <1>8
<1>13. \A a \in 0 .. (NativeSize - 1) : Goal(c).native[a] = Cell(a)
  BY <1>7
<1> QED
  BY <1>9, <1>10, <1>11, <1>12, <1>13 DEF Byte, Cell


LEMMA JobBegins ==
  ASSUME PlacesInv, NEW t \in Threads, NEW c \in Calls, Begin(t, c), OperandsApart(c)
  PROVE  JobInv(t)'
<1>1. /\ call' = [call EXCEPT ![t] = c] /\ ctr' = [ctr EXCEPT ![t] = c.n]
      /\ goal' = [goal EXCEPT ![t] = Goal(c)] /\ native' = native /\ UNCHANGED vars
  BY DEF Begin
<1>2. /\ call'[t] = c /\ ctr'[t] = c.n /\ goal'[t] = Goal(c) /\ Mem' = Mem
  BY <1>1, MemSame DEF PlacesInv, WrapperTypes, vars, lstoreVars
<1>3. /\ c \in ProgramCalls /\ c.n \in Nat /\ c.func \notin {"none", "returned"}
      /\ c.l \in Pointers /\ c.l.kind \in {"tagged", "native"} /\ Fits(c.l, c.n)
  BY CallsOK, CallFields, PointerKinds
<1>4. c.l.a \in Nat
  BY <1>3, PointerKinds
<1>5. /\ Goal(c).mem \in [Pages -> [Offsets -> Values]]
      /\ Goal(c).native \in [0 .. (NativeSize - 1) -> Values]
      /\ Goal(c).result = Expected(c)
      /\ \A x \in 0 .. (Bytes - 1) :
              Goal(c).mem[x \div PageSize][x % PageSize] =
                IF c.func \in Writes /\ Covers(c.l, c.n, "tagged", x)
                  THEN SeenAt(c.r, x - c.l.a) ELSE MemByte(x)
      /\ \A a \in 0 .. (NativeSize - 1) :
              Goal(c).native[a] =
                IF c.func \in Writes /\ Covers(c.l, c.n, "native", a)
                  THEN SeenAt(c.r, a - c.l.a) ELSE native[a]
  BY <1>3, GoalIs
<1>6. /\ \A p, i : SeenAt(p, i)' = SeenAt(p, i)
      /\ Expected(c)' = Expected(c)
  BY <1>1, <1>2, SeenSame
<1>7. InCall(t)' /\ Done(t)' = 0 /\ call'[t].func # "returned"
  BY <1>2, <1>3 DEF InCall, Done
<1>8. \A kind, a : ToWrite(t, kind, a)' <=> c.func \in Writes /\ Covers(c.l, c.n, kind, a)
  <2>1. \A kind, a : ToWrite(t, kind, a)' <=>
          /\ c.func \in Writes /\ kind = c.l.kind
          /\ a \in (c.l.a + 0) .. (c.l.a + c.n - 1)
    BY <1>2, <1>7 DEF ToWrite
  <2>2. c.l.a + 0 = c.l.a
    BY <1>4
  <2> QED
    BY <2>1, <2>2 DEF Covers
<1>9. ASSUME NEW x \in 0 .. (Bytes - 1)
      PROVE  ToWrite(t, "tagged", x)' \/ MemByte(x)' = GoalByte(t, "tagged", x)'
  <2>1. GoalByte(t, "tagged", x)' = Goal(c).mem[x \div PageSize][x % PageSize]
    BY <1>2 DEF GoalByte
  <2>2. MemByte(x)' = MemByte(x)
    BY <1>2 DEF MemByte
  <2>3. ~ToWrite(t, "tagged", x)' => ~(c.func \in Writes /\ Covers(c.l, c.n, "tagged", x))
    BY <1>8
  <2> QED
    BY <1>5, <2>1, <2>2, <2>3
<1>10. ASSUME NEW a \in 0 .. (NativeSize - 1)
       PROVE  ToWrite(t, "native", a)' \/ native'[a] = GoalByte(t, "native", a)'
  <2>1. GoalByte(t, "native", a)' = Goal(c).native[a]
    BY <1>2 DEF GoalByte
  <2>2. ~ToWrite(t, "native", a)' => ~(c.func \in Writes /\ Covers(c.l, c.n, "native", a))
    BY <1>8
  <2> QED
    BY <1>1, <1>5, <2>1, <2>2
<1>11. ASSUME c.func \in Writes, NEW i \in 0 .. (c.n - 1)
       PROVE  GoalByte(t, c.l.kind, c.l.a + i)' = SeenAt(c.r, i)
  <2> DEFINE a == c.l.a + i
  <2>1. /\ c.l.kind = "tagged" => a \in 0 .. (Bytes - 1)
        /\ c.l.kind = "native" => a \in 0 .. (NativeSize - 1)
    BY <1>3, SeenValues
  <2>2. a \in c.l.a .. (c.l.a + c.n - 1) /\ a - c.l.a = i
    <3> DEFINE b == c.l.a
               n == c.n
    <3>1. b \in Nat /\ n \in Nat /\ i \in 0 .. (n - 1)
      BY <1>3, <1>4
    <3> HIDE DEF b, n
    <3>2. b + i \in b .. (b + n - 1) /\ (b + i) - b = i
      BY <3>1
    <3> QED
      BY <3>2 DEF b, n
  <2> HIDE DEF a
  <2>3. Covers(c.l, c.n, c.l.kind, a)
    BY <2>2 DEF Covers
  <2>4. CASE c.l.kind = "tagged"
    <3>1. GoalByte(t, "tagged", a)' = Goal(c).mem[a \div PageSize][a % PageSize]
      BY <1>2 DEF GoalByte
    <3> QED
      BY <1>5, <1>11, <2>1, <2>2, <2>3, <2>4, <3>1 DEF a
  <2>5. CASE c.l.kind = "native"
    <3>1. GoalByte(t, "native", a)' = Goal(c).native[a]
      BY <1>2 DEF GoalByte
    <3> QED
      BY <1>5, <1>11, <2>1, <2>2, <2>3, <2>5, <3>1 DEF a
  <2> QED
    BY <1>3, <2>4, <2>5
<1>12. Expected(call[t])' = goal'[t].result
  <2>1. Expected(call[t])' = Expected(c)'
    BY <1>2 DEF Expected, Value, Advance, Compare, Find, NULL, Number, SeenBytes, SeenAt
  <2> QED
    BY <1>2, <1>5, <1>6, <2>1
<1>13. \A i \in 0 .. (0 - 1) : FALSE
  OBVIOUS
<1>14. OperandsApart(call[t])'
  BY <1>2 DEF OperandsApart
<1>15. ASSUME c.func \in Writes, NEW i \in 0 .. (c.n - 1)
       PROVE  GoalByte(t, call[t].l.kind, call[t].l.a + i)' = SeenAt(call[t].r, i)'
  <2>1. GoalByte(t, call[t].l.kind, call[t].l.a + i)' = GoalByte(t, c.l.kind, c.l.a + i)'
    BY <1>2 DEF GoalByte
  <2>2. SeenAt(call[t].r, i)' = SeenAt(c.r, i)'
    BY <1>2 DEF SeenAt
  <2> QED
    BY <1>6, <1>11, <1>15, <2>1, <2>2
<1> QED
  BY <1>2, <1>5, <1>7, <1>9, <1>10, <1>12, <1>13, <1>14, <1>15 DEF JobInv


LEMMA JobContinues ==
  ASSUME PlacesInv, PlacesInv', NEW t \in Threads, JobInv(t), Chunk(t)
  PROVE  JobInv(t)'
<1> DEFINE k == MinLeft(t)
           d == Done(t)
           n == call[t].n
<1>1. /\ InCall(t) /\ todo[t] = {} /\ ctr[t] > k /\ Apply(t, k) /\ ~Stops(t, k)
      /\ ctr' = [ctr EXCEPT ![t] = @ - k]
      /\ UNCHANGED <<cache, backing, call, result, goal>>
  BY DEF Chunk
<1>2. k \in Nat
  BY <1>1, MinLeftIs
<1>3. /\ n \in Nat /\ d \in Nat /\ ctr[t] \in Nat /\ n = d + ctr[t]
      /\ call[t].func \in Writes \cup {"memcmp", "memchr"}
      /\ "memcmp" \notin Writes /\ "memchr" \notin Writes
  BY <1>1, CallIs
<1>4. k <= ctr[t] /\ ctr'[t] = ctr[t] - k /\ Done(t)' = d + k
  <2>1. ctr'[t] = ctr[t] - k
    BY <1>1 DEF PlacesInv, WrapperTypes
  <2> DEFINE c == ctr[t]
  <2>2. Done(t)' = n - (c - k) /\ d = n - c /\ c \in Nat /\ c > k
    BY <1>1, <1>3, <2>1 DEF Done
  <2> HIDE DEF c, k, n, d
  <2>3. n - (c - k) = d + k /\ k <= c
    BY <1>2, <1>3, <2>2
  <2> QED
    BY <2>1, <2>2, <2>3 DEF c
<1> HIDE DEF k
<1>5. /\ OperandsApart(call[t]) /\ goal[t].result = Expected(call[t])
      /\ goal[t].mem \in [Pages -> [Offsets -> Values]]
      /\ goal[t].native \in [0 .. (NativeSize - 1) -> Values]
      /\ call[t].func \in Writes => \A i \in d .. (n - 1) :
            GoalByte(t, call[t].l.kind, call[t].l.a + i) = SeenAt(call[t].r, i)
  BY <1>1 DEF JobInv
<1>6. /\ \A x \in 0 .. (Bytes - 1) :
              Remains(t, k, "tagged", x) \/ MemByte(x)' = GoalByte(t, "tagged", x)
      /\ \A a \in 0 .. (NativeSize - 1) :
              Remains(t, k, "native", a) \/ native'[a] = GoalByte(t, "native", a)
  <2>1. k <= MinLeft(t)
    BY <1>2 DEF k
  <2> QED
    BY <1>1, <1>2, <1>4, <2>1, BytesAfter
<1>7. call[t].func \notin Writes => Mem' = Mem /\ native' = native
  <2>1. k <= MinLeft(t)
    BY <1>2 DEF k
  <2> QED
    BY <1>1, <1>2, <1>4, <2>1, ApplyBytes
<1>8. /\ InCall(t)' /\ call'[t].func # "returned" /\ OperandsApart(call[t])'
      /\ \A kind, a : GoalByte(t, kind, a)' = GoalByte(t, kind, a)
      /\ \A i : GoalByte(t, call[t].l.kind, call[t].l.a + i)'
                  = GoalByte(t, call[t].l.kind, call[t].l.a + i)
  BY <1>1, <1>5 DEF InCall, OperandsApart, GoalByte
<1>9. \A kind, a : ToWrite(t, kind, a)' <=> Remains(t, k, kind, a)
  BY <1>1, <1>4 DEF ToWrite, Remains
<1>10. Expected(call[t])' = goal[t].result
  <2>1. CASE call[t].func \in Writes
    <3>1. Expected(call[t]) = call[t].l
      BY <1>3, <2>1 DEF Expected, Value
    <3>2. Expected(call[t])' = call[t].l
      BY <1>1, <1>3, <2>1 DEF Expected, Value
    <3> QED
      BY <1>5, <3>1, <3>2
  <2>2. CASE call[t].func \notin Writes
    <3>1. /\ \A i : SeenAt(call[t].l, i)' = SeenAt(call[t].l, i)
          /\ \A i : SeenAt(call[t].r, i)' = SeenAt(call[t].r, i)
      BY <1>1, <1>7, <2>2 DEF SeenAt
    <3>2. /\ SeenBytes(call[t].l, call[t].n)' = SeenBytes(call[t].l, call[t].n)
          /\ SeenBytes(call[t].r, call[t].n)' = SeenBytes(call[t].r, call[t].n)
      BY <1>1, <3>1 DEF SeenBytes
    <3>3. Expected(call[t])' = Expected(call[t])
      BY <1>1, <3>2 DEF Expected, Value, Advance, Compare, Find, NULL, Number
    <3> QED
      BY <1>5, <3>3
  <2> QED
    BY <2>1, <2>2
<1>11. ASSUME call[t].func \in Writes, NEW i \in (d + k) .. (n - 1)
       PROVE  GoalByte(t, call[t].l.kind, call[t].l.a + i)' = SeenAt(call[t].r, i)'
  <2>1. i \in d .. (n - 1)
    <3> HIDE DEF d, n
    <3> QED
      BY <1>2, <1>3
  <2>2. PICK c : c = call[t]
    OBVIOUS
  <2>3. SeenAt(c.r, i)' = SeenAt(c.r, i)
    <3>1. k <= MinLeft(t) /\ i \in Done(t) .. (c.n - 1)
      BY <1>2, <2>1, <2>2 DEF k
    <3> QED
      BY <1>1, <1>2, <1>4, <1>11, <2>2, <3>1, SourceKept
  <2>4. SeenAt(call[t].r, i)' = SeenAt(c.r, i)'
    BY <1>1, <2>2 DEF SeenAt
  <2> QED
    BY <1>5, <1>8, <1>11, <2>1, <2>2, <2>3, <2>4
<1>12. ASSUME call[t].func \notin Writes, NEW i
       PROVE  /\ SeenAt(call[t].l, i)' = SeenAt(call[t].l, i)
              /\ SeenAt(call[t].r, i)' = SeenAt(call[t].r, i)
  BY <1>1, <1>7, <1>12 DEF SeenAt
<1>13. ASSUME call[t].func = "memcmp", NEW i \in 0 .. ((d + k) - 1)
       PROVE  SeenAt(call[t].l, i)' = SeenAt(call[t].r, i)'
  <2>1. k <= MinLeft(t)
    BY <1>2 DEF k
  <2>2. \A j \in 0 .. (Done(t) + k - 1) : SeenAt(call[t].l, j) = SeenAt(call[t].r, j)
    BY <1>1, <1>2, <1>3, <1>4, <1>13, <2>1, CompareResult DEF Stops
  <2>3. i \in 0 .. (Done(t) + k - 1)
    BY <1>2, <1>3
  <2> QED
    BY <1>3, <1>12, <1>13, <2>2, <2>3
<1>14. ASSUME call[t].func = "memchr", NEW i \in 0 .. ((d + k) - 1)
       PROVE  SeenAt(call[t].l, i)' # SeenAt(call[t].r, i)'
  <2>1. k <= MinLeft(t)
    BY <1>2 DEF k
  <2>2. \A j \in 0 .. (Done(t) + k - 1) : SeenAt(call[t].l, j) # SeenAt(call[t].r, j)
    BY <1>1, <1>2, <1>3, <1>4, <1>14, <2>1, FindResult DEF Stops
  <2>3. i \in 0 .. (Done(t) + k - 1)
    BY <1>2, <1>3
  <2> QED
    BY <1>3, <1>12, <1>14, <2>2, <2>3
<1> HIDE DEF d, n
<1>15. /\ goal'[t] = goal[t] /\ call'[t] = call[t] /\ call'[t].n = n
  BY <1>1 DEF n
<1> QED
  BY <1>4, <1>5, <1>6, <1>8, <1>9, <1>10, <1>11, <1>13, <1>14, <1>15 DEF JobInv


LEMMA JobEnds ==
  ASSUME PlacesInv, PlacesInv', NEW t \in Threads, JobInv(t), LastChunk(t)
  PROVE  JobInv(t)'
<1> DEFINE k == IF ctr[t] > MinLeft(t) THEN MinLeft(t) ELSE ctr[t]
           cr == ChunkResult(t, k)
           stops == call[t].func \notin Writes /\ cr # NULL
           new == IF call[t].func \in Writes THEN call[t].l ELSE cr
<1>1. /\ InCall(t) /\ todo[t] = {} /\ Apply(t, k) /\ (ctr[t] <= MinLeft(t) \/ stops)
      /\ call' = [call EXCEPT ![t] = Returned]
      /\ result' = [result EXCEPT ![t] = new]
      /\ UNCHANGED <<cache, backing, goal, tlb, pc>>
  BY DEF LastChunk, Stops, threadVars
<1>2. /\ ctr[t] \in Nat /\ Done(t) \in Nat /\ call[t].n = Done(t) + ctr[t] /\ call[t].n \in Nat
      /\ call[t].func \in Writes \cup {"memcmp", "memchr"}
      /\ "memcmp" \notin Writes /\ "memchr" \notin Writes
      /\ call[t].l \in Pointers /\ call[t].l.kind \in {"tagged", "native"}
  BY <1>1, CallIs
<1>3. MinLeft(t) \in Nat
  BY <1>1, MinLeftIs
<1>4. k \in Nat /\ k <= MinLeft(t) /\ k <= ctr[t] /\ (k = ctr[t] \/ stops)
  <2> DEFINE m == MinLeft(t)
             c == ctr[t]
  <2>1. m \in Nat /\ c \in Nat /\ (c <= m \/ stops) /\ k = IF c > m THEN m ELSE c
    BY <1>1, <1>2, <1>3
  <2> HIDE DEF m, c, k, cr, stops
  <2> QED
    BY <2>1 DEF m, c
<1>5. new = IF call[t].func \in Writes THEN call[t].l ELSE cr
  OBVIOUS
<1> HIDE DEF k, new
<1>6. /\ call'[t] = Returned /\ result'[t] = new /\ goal'[t] = goal[t]
  BY <1>1 DEF PlacesInv, WrapperTypes
<1>7. /\ goal[t].result = Expected(call[t])
      /\ goal[t].mem \in [Pages -> [Offsets -> Values]]
      /\ goal[t].native \in [0 .. (NativeSize - 1) -> Values]
  BY <1>1 DEF JobInv
<1>8. call[t].func \in Writes => ~stops /\ Expected(call[t]) = call[t].l
  BY <1>2 DEF Expected, Value
<1>9. \A kind, a : ~Remains(t, k, kind, a)
  <2> SUFFICES ASSUME NEW kind, NEW a, Remains(t, k, kind, a) PROVE FALSE
    OBVIOUS
  <2> DEFINE n == call[t].n
             b == call[t].l.a
             d == Done(t)
  <2>1. k = ctr[t]
    BY <1>4, <1>8 DEF Remains
  <2>2. a \in (b + (d + k)) .. (b + n - 1) /\ b \in Nat /\ n \in Nat /\ d \in Nat /\ n = d + k
    BY <1>2, <2>1, PointerKinds DEF Remains
  <2> HIDE DEF n, b, d
  <2> QED
    BY <1>4, <2>2
<1>10. /\ \A x \in 0 .. (Bytes - 1) : MemByte(x)' = GoalByte(t, "tagged", x)
       /\ \A a \in 0 .. (NativeSize - 1) : native'[a] = GoalByte(t, "native", a)
  BY <1>1, <1>4, <1>9, BytesAfter
<1>11. Mem' = goal[t].mem
  <2>1. ASSUME NEW p \in Pages, NEW o \in Offsets
        PROVE  Mem'[p][o] = goal[t].mem[p][o]
    <3> DEFINE x == PageSize * p + o
    <3>1. x \in 0 .. (Bytes - 1) /\ x \div PageSize = p /\ x % PageSize = o
      BY PageByte
    <3>2. MemByte(x)' = Mem'[p][o] /\ GoalByte(t, "tagged", x) = goal[t].mem[p][o]
      BY <3>1 DEF MemByte, GoalByte
    <3> HIDE DEF x
    <3> QED
      BY <1>10, <3>1, <3>2
  <2>2. Mem \in [Pages -> [Offsets -> Values]] /\ Mem' \in [Pages -> [Offsets -> Values]]
    <3>1. \A p \in Pages : Mem'[p] \in [Offsets -> Values]
      <4> TAKE p \in Pages
      <4>1. /\ \A f \in Frames : cache'[f] = p => Mem'[p] = data'[f]
            /\ (\A f \in Frames : cache'[f] # p) => Mem'[p] = backing'[p]
        BY MemAtNext DEF PlacesInv, LinkInv
      <4> QED
        BY <4>1 DEF PlacesInv, LinkInv, TypeOK
    <3>2. Mem' = [p \in Pages |-> Mem'[p]]
      BY DEF Mem
    <3> DEFINE M == Mem'
    <3>3. M = [p \in Pages |-> M[p]] /\ \A p \in Pages : M[p] \in [Offsets -> Values]
      BY <3>1, <3>2
    <3> HIDE DEF M
    <3>4. M \in [Pages -> [Offsets -> Values]]
      BY <3>3
    <3>5. Mem \in [Pages -> [Offsets -> Values]]
      BY MemTypes DEF PlacesInv
    <3> QED
      BY <3>4, <3>5 DEF M
  <2> DEFINE M == Mem'
             G == goal[t].mem
  <2>3. /\ M \in [Pages -> [Offsets -> Values]] /\ G \in [Pages -> [Offsets -> Values]]
        /\ \A p \in Pages : \A o \in Offsets : M[p][o] = G[p][o]
    BY <1>7, <2>1, <2>2
  <2> HIDE DEF M, G
  <2>4. \A p \in Pages : M[p] = G[p]
    BY <2>3
  <2>5. M = G
    BY <2>3, <2>4
  <2> QED
    BY <2>5 DEF M, G
<1>12. native' = goal[t].native
  <2> DEFINE N == native'
             G == goal[t].native
             D == 0 .. (NativeSize - 1)
  <2>1. \A a \in D : N[a] = G[a]
    BY <1>10 DEF GoalByte
  <2>2. N \in [D -> Values] /\ G \in [D -> Values]
    BY <1>7 DEF PlacesInv, WrapperTypes
  <2> HIDE DEF N, G, D
  <2>3. N = G
    BY <2>1, <2>2
  <2> QED
    BY <2>3 DEF N, G
<1>13. new = goal[t].result \/ KeptFor(t, new, goal[t].result)
  <2>1. CASE call[t].func \in Writes
    BY <1>5, <1>7, <1>8, <2>1
  <2>2. CASE call[t].func = "memcmp"
    <3>1. /\ cr # NULL => Expected(call[t]) = cr
          /\ cr = NULL /\ k = ctr[t] => Expected(call[t]) = NULL
      BY <1>1, <1>4, <2>2, CompareResult
    <3> QED
      BY <1>2, <1>4, <1>5, <1>7, <2>2, <3>1
  <2>3. CASE call[t].func = "memchr"
    <3>1. /\ cr # NULL => Expected(call[t]) = cr \/ KeptFor(t, cr, Expected(call[t]))
          /\ cr = NULL /\ k = ctr[t] => Expected(call[t]) = NULL
      BY <1>1, <1>4, <2>3, FindResult
    <3>2. new = cr
      BY <1>2, <1>5, <2>3
    <3> QED
      BY <1>4, <1>7, <3>1, <3>2
  <2> QED
    BY <1>2, <2>1, <2>2, <2>3
<1>14. ~InCall(t)'
  BY <1>6 DEF InCall, Returned
<1>15. result'[t] = goal'[t].result \/ KeptFor(t, result[t], goal[t].result)'
  <2>1. KeptFor(t, result[t], goal[t].result)' = KeptFor(t, new, goal[t].result)
    BY <1>1, <1>6 DEF KeptFor, Counted
  <2> QED
    BY <1>6, <1>13, <2>1
<1> QED
  BY <1>6, <1>11, <1>12, <1>14, <1>15 DEF JobInv

LEMMA JobStep ==
  ASSUME PlacesInv, PlacesInv', NEW t \in Threads, JobInv(t), WrapperStep(t)
  PROVE  JobInv(t)'
<1>1. CASE Chunk(t)
  BY <1>1, JobContinues
<1>2. CASE LastChunk(t)
  BY <1>2, JobEnds
<1>3. CASE Leave(t)
  <2>1. call'[t] = NoCall
    BY <1>3 DEF Leave, PlacesInv, WrapperTypes
  <2> QED
    BY <2>1 DEF JobInv, InCall, NoCall
<1>4. CASE PageFault(t)
  <2>1. UNCHANGED <<cache, data, backing>> /\ UNCHANGED wrapperVars
    BY <1>4 DEF PageFault, LinkHit, LinkMiss, lstoreVars
  <2>2. InCall(t)
    BY <1>4 DEF PageFault, PlacesInv, CallInv
  <2> QED
    BY <2>1, <2>2, MemSame, JobKept DEF wrapperVars
<1>5. CASE PageFaulted(t)
  <2>1. UNCHANGED <<cache, data, backing, call, ctr, goal, result, native>>
    BY <1>5 DEF PageFaulted, lstoreVars
  <2>2. InCall(t)
    BY <1>5 DEF PageFaulted, PlacesInv, CallInv
  <2> QED
    BY <2>1, <2>2, MemSame, JobKept
<1>6. CASE LinkStep(t) /\ UNCHANGED wrapperVars
  <2>1. Mem' = Mem
    <3>1. CASE FaultLoad(t)
      BY <3>1, FaultKeepsMem DEF PlacesInv
    <3>2. CASE ~FaultLoad(t)
      BY <1>6, <3>2, MemSame DEF LinkStep, FaultResident, Drop, Insert, lstoreVars
    <3> QED
      BY <3>1, <3>2
  <2>2. InCall(t)
    <3>1. pc[t] # "idle"
      BY <1>6 DEF LinkStep, FaultResident, FaultLoad, Drop, Insert
    <3> QED
      BY <3>1 DEF PlacesInv, CallInv
  <2> QED
    BY <1>6, <2>1, <2>2, JobKept DEF wrapperVars
<1> QED
  BY <1>1, <1>2, <1>3, <1>4, <1>5, <1>6 DEF WrapperStep

LEMMA WrapperInvNext ==
  ASSUME LstoreMod = IndexMod, \A t, u \in Threads : t = u, \A c \in Calls : OperandsApart(c),
         WrapperInv, DroppedNotInUse, [WrapperNext]_allVars
  PROVE  WrapperInv'
<1>1. PlacesInv /\ PlacesInv' /\ \A t \in Threads : JobInv(t)
  BY PlacesNext DEF WrapperInv
<1>2. CASE UNCHANGED allVars
  <2>1. Mem' = Mem
    BY <1>2, MemSame DEF allVars, vars, lstoreVars
  <2>2. \A t \in Threads : JobInv(t)'
    BY <1>1, <1>2, <2>1, JobKept DEF allVars, vars, threadVars, wrapperVars
  <2> QED
    BY <1>1, <2>2 DEF WrapperInv
<1>3. ASSUME NEW t \in Threads, WrapperStep(t)
      PROVE  WrapperInv'
  <2>1. JobInv(t)'
    BY <1>1, <1>3, JobStep
  <2> QED
    BY <1>1, <2>1 DEF WrapperInv
<1>4. ASSUME NEW t \in Threads, NEW c \in Calls, Begin(t, c)
      PROVE  WrapperInv'
  <2>1. JobInv(t)'
    BY <1>1, <1>4, JobBegins
  <2> QED
    BY <1>1, <2>1 DEF WrapperInv
<1>5. ASSUME NEW f \in Frames, TakenByOthers(f)
      PROVE  WrapperInv'
  <2>1. Mem' = Mem /\ UNCHANGED wrapperVars /\ UNCHANGED <<tlb, pc>>
    BY <1>1, <1>5, TakenInv DEF PlacesInv, TakenByOthers, threadVars
  <2>2. \A t \in Threads : JobInv(t)'
    BY <1>1, <2>1, JobKept DEF wrapperVars
  <2> QED
    BY <1>1, <2>2 DEF WrapperInv
<1> QED
  BY <1>2, <1>3, <1>4, <1>5 DEF WrapperNext

LEMMA WrapperInvInit ==
  ASSUME WrapperInit
  PROVE  WrapperInv
<1>1. \A t \in Threads : JobInv(t)
  BY DEF WrapperInit, JobInv, InCall, NoCall
<1> QED
  BY <1>1, WrapperInitPlaces DEF WrapperInv

(* Between two chunks every byte is as it should be when the call returns  *)
(* but those still to be written, and the bytes compared so far did not    *)
(* decide the result (lines 907-998, 1017-1076), for one thread and calls  *)
(* whose operands do not overlap, as long as no link drops a page the      *)
(* wrapper has an address into.                                            *)
THEOREM WrapperInvariant ==
  ASSUME LstoreMod = IndexMod, \A t, u \in Threads : t = u, \A c \in Calls : OperandsApart(c)
  PROVE  WrapperSpec => ([]DroppedNotInUse => []WrapperInv)
<1>1. WrapperInit => WrapperInv
  BY WrapperInvInit
<1>2. WrapperInv /\ DroppedNotInUse /\ [WrapperNext]_allVars => WrapperInv'
  BY WrapperInvNext
<1> QED
  BY <1>1, <1>2, PTL DEF WrapperSpec

(* ... so that when a call returns, both memories are what the libc        *)
(* function would have left on flat memory, and its result is libc's; only *)
(* memchr returns, instead of a pointer into its operand, the raw address  *)
(* the page cache has the found byte at, good for as long as the page is   *)
(* in the thread's TLB (lines 1049-1060, 1096-1099, 1127-1132).            *)
THEOREM WrappersDoTheirJob ==
  ASSUME LstoreMod = IndexMod, \A t, u \in Threads : t = u, \A c \in Calls : OperandsApart(c)
  PROVE  WrapperSpec => ([]DroppedNotInUse => []CallsDoTheirJob)
<1>1. ASSUME WrapperInv, NEW t \in Threads, call[t].func = "returned"
      PROVE  /\ Mem = goal[t].mem /\ native = goal[t].native
             /\ LeadsTo(result[t], goal[t].result)
  <2> DEFINE x == result[t]
             p == goal[t].result
  <2>1. /\ JobInv(t) /\ TlbCoherent
        /\ Mem = goal[t].mem /\ native = goal[t].native
        /\ x = p \/ KeptFor(t, x, p)
    BY <1>1 DEF WrapperInv, JobInv, PlacesInv, LinkInv
  <2> HIDE DEF x, p
  <2>2. CASE KeptFor(t, x, p)
    <3>1. PICK j \in Counted(t) :
             /\ x.kind = "frame" /\ p.kind = "tagged"
             /\ tlb[t][j].bs = p.a \div PageSize
             /\ tlb[t][j].epc = x.f /\ x.o = p.a % PageSize
      BY <2>2 DEF KeptFor
    <3>2. cache[x.f] = p.a \div PageSize
      BY <2>1, <3>1 DEF TlbCoherent
    <3> QED
      BY <2>1, <3>1, <3>2 DEF LeadsTo, x, p
  <2> QED
    BY <2>1, <2>2 DEF LeadsTo, x, p
<1>2. WrapperInv => CallsDoTheirJob
  BY <1>1 DEF CallsDoTheirJob
<1> QED
  BY <1>2, WrapperInvariant, PTL


---------------------------------------------------------------------------
(* The first call of a thread drops no page in use *)

(* Where a tagged operand is. *)
LEMMA TaggedIs ==
  ASSUME PlacesInv, NEW t \in Threads, InCall(t), NEW s \in Sides,
         IsTagged(ptr[t][s]) \/ IsTagged(Operand(call[t], s))
  PROVE  LET op == Operand(call[t], s) IN
         /\ IsTagged(ptr[t][s]) /\ IsTagged(op) /\ op \in Pointers /\ op.a \in Nat
         /\ call[t] \in ProgramCalls /\ call[t].n \in Nat
         /\ ctr[t] \in Nat /\ Done(t) \in Nat /\ call[t].n = Done(t) + ctr[t]
         /\ ptr[t][s].a = op.a + Done(t) /\ ptr[t][s].a \in 0 .. (Bytes - 1)
         /\ PageAt(t, s) = (op.a + Done(t)) \div PageSize /\ PageAt(t, s) \in Pages
         /\ OffsetAt(t, s) \in 0 .. (PageSize - 1)
<1> DEFINE op == Operand(call[t], s)
<1>1. WrapperTypes /\ CallInv(t)
  BY DEF PlacesInv
<1>2. call[t] \in ProgramCalls
  BY <1>1 DEF WrapperTypes, InCall, NoCall, Returned
<1>3. op \in Pointers /\ call[t].n \in Nat
  BY <1>2, CallFields
<1>4. ctr[t] \in Nat /\ ctr[t] <= call[t].n
  BY <1>1 DEF WrapperTypes, CallInv
<1>5. Done(t) \in Nat /\ call[t].n = Done(t) + ctr[t]
  BY <1>3, <1>4 DEF Done
<1>6. ptr[t][s] = Advance(op, Done(t)) /\ ptr[t][s] \in Pointers
  BY <1>1 DEF CallInv, OperandInv, WrapperTypes
<1>7. ptr[t][s].kind = op.kind
  BY <1>3, <1>5, <1>6, AdvanceKind
<1>8. IsTagged(ptr[t][s]) /\ IsTagged(op) /\ op.kind = "tagged" /\ ptr[t][s].kind = "tagged"
  BY <1>7 DEF IsTagged
<1>9. op.a \in Nat /\ ptr[t][s].a = op.a + Done(t)
  BY <1>3, <1>5, <1>6, <1>8, AdvanceKind
<1>10. ptr[t][s].a \in 0 .. (Bytes - 1)
  BY <1>6, <1>8, PointerKinds
<1>11. ptr[t][s].a \div PageSize \in Pages /\ ptr[t][s].a % PageSize \in 0 .. (PageSize - 1)
  BY <1>10, StorageByte, PagesOffsets
<1> QED
  BY <1>2, <1>3, <1>4, <1>5, <1>8, <1>9, <1>10, <1>11 DEF PageAt, OffsetAt

(* Only what the thread itself does to its call and its TLB matters. *)
LEMMA FirstCallKept ==
  ASSUME NEW u \in Threads, FirstCall(u), made'[u] = made[u],
         call'[u] = call[u], ptr'[u] = ptr[u], todo'[u] = todo[u], ctr'[u] = ctr[u],
         \A i \in Slots : tlb'[u][i].bs = tlb[u][i].bs,
         (pc'[u] = "linked") = (pc[u] = "linked")
  PROVE  FirstCall(u)'
<1>1. /\ InCall(u)' = InCall(u) /\ NextSide(u)' = NextSide(u) /\ Done(u)' = Done(u)
      /\ \A s : PageAt(u, s)' = PageAt(u, s) /\ OffsetAt(u, s)' = OffsetAt(u, s)
      /\ \A s : Operand(call[u], s)' = Operand(call[u], s)
  BY DEF InCall, NextSide, Done, PageAt, OffsetAt, Operand
<1>2. \A s, k : Within(u, s, k)' = Within(u, s, k)
  BY <1>1 DEF Within
<1>3. \A s : ToLink(u, s)' = ToLink(u, s)
  BY <1>1 DEF ToLink
<1>4. \A s : LinkedFor(u, s)' = LinkedFor(u, s)
  BY <1>1, <1>3 DEF LinkedFor
<1>5. \A s, x : Recent(u, s, x)' = Recent(u, s, x)
  BY <1>1, <1>2 DEF Recent
<1>6. PagesApart(call[u])' = PagesApart(call[u])
  BY DEF PagesApart
<1> QED
  BY <1>1, <1>2, <1>4, <1>5, <1>6 DEF FirstCall


(* A byte is on an earlier page than a later one that starts its page. *)
LEMMA EarlierPage ==
  ASSUME NEW a \in Nat, NEW d \in Nat, NEW j \in 0 .. (d - 1), (a + d) % PageSize = 0
  PROVE  (a + j) \div PageSize # (a + d) \div PageSize
<1> DEFINE p == (a + j) \div PageSize
           q == (a + d) \div PageSize
           r == (a + j) % PageSize
<1>1. PageSize \in Nat \ {0} /\ a + j \in Nat /\ a + d \in Nat
  BY Sizes
<1>2. r \in Nat /\ p \in Int /\ a + j = PageSize * p + r
  BY <1>1, DividedBy
<1>3. q \in Int /\ a + d = PageSize * q + 0
  BY <1>1, DividedBy
<1> HIDE DEF p, q, r
<1> SUFFICES ASSUME p = q PROVE FALSE
  BY DEF p, q
<1> DEFINE z == PageSize * p
<1>4. z \in Int /\ a + j = z + r /\ a + d = z
  BY <1>1, <1>2, <1>3
<1> HIDE DEF z
<1> QED
  BY <1>2, <1>4

(* A link finds its page only for a call on no bytes, and then it is the   *)
(* page the other operand was linked for.                                  *)
LEMMA LinkMisses ==
  ASSUME PlacesInv, NEW t \in Threads, FirstCall(t), todo[t] # {}, pc[t] = "idle",
         NEW i \in Slots, tlb[t][i].bs = PageAt(t, NextSide(t))
  PROVE  LET s == NextSide(t) IN
         /\ call[t].n = 0 /\ Done(t) = 0 /\ todo[t] = {s}
         /\ \E x \in Sides \ {s} : IsTagged(ptr[t][x]) /\ PageAt(t, x) = PageAt(t, s)
<1> DEFINE s == NextSide(t)
           op == Operand(call[t], s)
           d == Done(t)
           n == call[t].n
<1>1. WrapperTypes /\ CallInv(t) /\ InCall(t)
  BY DEF PlacesInv, CallInv
<1>2. s \in todo[t] /\ s \in Sides /\ IsTagged(ptr[t][s])
  BY <1>1, NextIsToDo DEF WrapperTypes, CallInv, OperandInv
<1>3. /\ IsTagged(op) /\ op.a \in Nat /\ n \in Nat /\ ctr[t] \in Nat /\ d \in Nat
      /\ n = d + ctr[t] /\ PageAt(t, s) = (op.a + d) \div PageSize /\ PageAt(t, s) \in Pages
      /\ ptr[t][s].a = op.a + d
  BY <1>1, <1>2, TaggedIs
<1>4. PICK x \in Sides : IsTagged(Operand(call[t], x)) /\ tlb[t][i].bs \in LinkedFor(t, x)
  BY <1>1, <1>3, Conversions DEF FirstCall
<1> DEFINE ox == Operand(call[t], x)
<1>5. PICK j \in 0 .. (IF ToLink(t, x) THEN d - 1 ELSE d) :
         tlb[t][i].bs = (ox.a + j) \div PageSize
  BY <1>4 DEF LinkedFor
<1>6. j \in 0 .. d /\ (x \in todo[t] => j \in 0 .. (d - 1))
  <2>1. x \in todo[t] => ToLink(t, x)
    BY DEF ToLink
  <2> QED
    BY <1>3, <1>5, <2>1
<1>7. (ox.a + j) \div PageSize = (op.a + d) \div PageSize
  BY <1>3, <1>5
<1>8. x # s
  <2> SUFFICES ASSUME x = s PROVE FALSE
    OBVIOUS
  <2>1. j \in 0 .. (d - 1)
    BY <1>2, <1>6
  <2>2. (op.a + d) % PageSize = 0
    <3>1. d > 0
      BY <1>3, <2>1
    <3> QED
      BY <1>1, <1>2, <1>3, <3>1 DEF FirstCall, OffsetAt
  <2> HIDE DEF d, op, s
  <2>3. (op.a + j) \div PageSize # (op.a + d) \div PageSize
    BY <1>3, <2>1, <2>2, EarlierPage
  <2> QED
    BY <1>7, <2>3 DEF op
<1>9. n = 0
  <2> SUFFICES ASSUME n > 0 PROVE FALSE
    BY <1>3
  <2>1. ctr[t] > 0 /\ PagesApart(call[t])
    BY <1>1 DEF FirstCall
  <2>2. d \in 0 .. (n - 1) /\ j \in 0 .. (n - 1)
    BY <1>3, <1>6, <2>1
  <2>3. IsTagged(call[t].l) /\ IsTagged(call[t].r)
        /\ (\/ op = call[t].l /\ ox = call[t].r
            \/ op = call[t].r /\ ox = call[t].l)
    BY <1>2, <1>3, <1>4, <1>8 DEF Operand, Sides
  <2>4. \A y, z \in 0 .. (n - 1) :
           (call[t].l.a + y) \div PageSize # (call[t].r.a + z) \div PageSize
    BY <2>1, <2>3 DEF PagesApart
  <2> HIDE DEF op, ox, d, n
  <2> QED
    BY <1>7, <2>2, <2>3, <2>4
<1>10. d = 0 /\ j = 0 /\ x \notin todo[t]
  BY <1>3, <1>6, <1>9
<1>11. todo[t] = {s}
  <2>1. todo[t] \subseteq Sides
    BY <1>1 DEF WrapperTypes
  <2> QED
    BY <1>2, <1>8, <1>10, <2>1 DEF Sides
<1>12. IsTagged(ptr[t][x]) /\ PageAt(t, x) = (ox.a + d) \div PageSize
  BY <1>1, <1>4, TaggedIs
<1> QED
  BY <1>3, <1>7, <1>8, <1>9, <1>10, <1>11, <1>12

LEMMA WithinMore ==
  ASSUME NEW t, NEW s, NEW k \in Nat, NEW m \in Nat, k <= m, Within(t, s, k)
  PROVE  Within(t, s, m)
BY DEF Within, Slots

(* So the page the TLB drops is not that of the other operand. *)
LEMMA DropsNone ==
  ASSUME PlacesInv, TLBSize >= 3, NEW t \in Threads, FirstCall(t), pc[t] = "drop",
         NEW s \in Sides \ todo[t], place[t][s].kind = "frame"
  PROVE  cache[place[t][s].f] # tlb[t][TLBSize].bs
<1> DEFINE x == NextSide(t)
<1>1. LinkInv /\ WrapperTypes /\ CallInv(t) /\ todo[t] # {} /\ InCall(t)
  BY DEF PlacesInv, CallInv
<1>2. x \in todo[t] /\ x \in Sides /\ IsTagged(ptr[t][x]) /\ s # x
  BY <1>1, NextIsToDo DEF WrapperTypes, CallInv, OperandInv
<1>3. todo[t] = {x}
  <2>1. todo[t] \subseteq Sides
    BY <1>1 DEF WrapperTypes
  <2> QED
    BY <1>2, <2>1 DEF Sides
<1>4. IsTagged(ptr[t][s])
  <2>1. ~IsTagged(ptr[t][s]) => place[t][s] = ptr[t][s] /\ ptr[t][s] \in Pointers
    BY <1>1 DEF CallInv, OperandInv, WrapperTypes
  <2> QED
    BY <2>1, PointerKinds
<1>5. LinkStays(t, s)
  BY <1>1, <1>4 DEF CallInv, OperandInv
<1>6. cache[place[t][s].f] = PageAt(t, s)
  BY <1>1, <1>5 DEF LinkStays, LinkInv, TlbCoherent, PageAt
<1>7. Within(t, s, 2)
  <2>1. Recent(t, s, x)
    BY <1>1, <1>2, <1>4 DEF FirstCall
  <2>2. Within(t, s, 1) \/ Within(t, s, 2)
    BY <1>3, <2>1 DEF Recent
  <2> QED
    BY <2>2, WithinMore
<1>8. PICK i \in Slots : i <= 2 /\ tlb[t][i].bs = PageAt(t, s)
  BY <1>7 DEF Within
<1>9. i # TLBSize /\ TLBSize \in Slots
  BY <1>8, ConstantsOK DEF Slots
<1>10. PageAt(t, s) # NoPage
  BY <1>1, <1>4, TaggedIs, Conversions
<1> QED
  BY <1>1, <1>6, <1>8, <1>9, <1>10 DEF LinkInv, NoDuplicates


(* What a link does to the TLB: the page is in slot 1 when it returns, and *)
(* the other operand at most one slot further back.                        *)
LEMMA LinkedFirst ==
  ASSUME PlacesInv, NEW t \in Threads, FirstCall(t), todo[t] # {}, pc[t] # "linked",
         pc'[t] = "linked", UNCHANGED wrapperVars,
         \A i \in Slots : tlb'[t][i].bs = PageAt(t, NextSide(t))
                            \/ \E j \in Slots : tlb'[t][i].bs = tlb[t][j].bs,
         Within(t, NextSide(t), 1)',
         \A y, x \in Sides :
            y # x /\ IsTagged(ptr[t][y]) /\ todo[t] = {x} => Recent(t, y, x)'
  PROVE  FirstCall(t)'
<1> USE DEF wrapperVars
<1>1. WrapperTypes /\ CallInv(t) /\ InCall(t)
  BY DEF PlacesInv, CallInv
<1>2. PICK s \in todo[t] : s = NextSide(t) /\ s \in Sides /\ IsTagged(ptr[t][s])
  BY <1>1, NextIsToDo DEF WrapperTypes, CallInv, OperandInv
<1>3. /\ IsTagged(Operand(call[t], s)) /\ Done(t) \in Nat
      /\ PageAt(t, s) = (Operand(call[t], s).a + Done(t)) \div PageSize
  BY <1>1, <1>2, TaggedIs
<1>4. /\ InCall(t)' = InCall(t) /\ NextSide(t)' = s /\ Done(t)' = Done(t)
      /\ \A x : OffsetAt(t, x)' = OffsetAt(t, x)
      /\ \A x : Operand(call[t], x)' = Operand(call[t], x)
  BY <1>2 DEF InCall, NextSide, Done, OffsetAt, Operand
<1>5. made[t] # 0
  BY <1>1 DEF FirstCall, InCall, NoCall
<1>6. \A x \in Sides : ToLink(t, x)' => ToLink(t, x)
  BY DEF ToLink
<1>7. \A x \in Sides : LinkedFor(t, x) \subseteq LinkedFor(t, x)'
  <2> DEFINE d == Done(t)
  <2>1. d \in Nat
    BY <1>3
  <2>2. \A x \in Sides :
          (0 .. (IF ToLink(t, x) THEN d - 1 ELSE d))
            \subseteq (0 .. (IF ToLink(t, x)' THEN d - 1 ELSE d))
    BY <1>6, <2>1
  <2> QED
    BY <1>4, <2>2 DEF LinkedFor
<1>8. PageAt(t, s) \in LinkedFor(t, s)'
  <2>1. ~ToLink(t, s)'
    BY <1>4 DEF ToLink
  <2> QED
    BY <1>3, <1>4, <2>1 DEF LinkedFor
<1>9. ASSUME NEW i \in Slots
      PROVE  \/ tlb'[t][i].bs = NoPage
             \/ \E x \in Sides : /\ IsTagged(Operand(call[t], x))
                                 /\ tlb'[t][i].bs \in LinkedFor(t, x)'
  <2>1. CASE tlb'[t][i].bs = PageAt(t, s)
    BY <1>2, <1>3, <1>8, <2>1
  <2>2. CASE \E j \in Slots : tlb'[t][i].bs = tlb[t][j].bs
    <3>1. PICK j \in Slots : tlb'[t][i].bs = tlb[t][j].bs
      BY <2>2
    <3>2. tlb[t][j].bs = NoPage \/ \E x \in Sides : /\ IsTagged(Operand(call[t], x))
                                                   /\ tlb[t][j].bs \in LinkedFor(t, x)
      BY <1>1 DEF FirstCall
    <3> QED
      BY <1>7, <3>1, <3>2
  <2> QED
    BY <1>2, <2>1, <2>2
<1>10. ASSUME NEW y \in Sides, NEW x \in Sides, y # x, IsTagged(ptr[t][y]), IsTagged(ptr[t][x])
       PROVE  Recent(t, y, x)'
  <2>1. CASE todo[t] = {x}
    BY <1>10, <2>1
  <2>2. CASE todo[t] # {x}
    <3>1. todo'[t] # {x} /\ todo'[t] # {}
      BY <2>2
    <3> QED
      BY <3>1 DEF Recent
  <2> QED
    BY <2>1, <2>2
<1>11. PagesApart(call[t])' = PagesApart(call[t])
  BY DEF PagesApart
<1>12. /\ PagesApart(call[t])' /\ (call'[t].n > 0 => ctr'[t] > 0)
       /\ \A x \in todo'[t] : Done(t)' > 0 => OffsetAt(t, x)' = 0
  BY <1>1, <1>4, <1>11 DEF FirstCall
<1>13. Within(t, NextSide(t), 1)'
  OBVIOUS
<1> QED
  BY <1>4, <1>5, <1>9, <1>10, <1>12, <1>13 DEF FirstCall

LEMMA FaultFirst ==
  ASSUME PlacesInv, NEW t \in Threads, FirstCall(t), PageFault(t)
  PROVE  FirstCall(t)'
<1>1. /\ LinkInv /\ TypeOK /\ WrapperTypes /\ CallInv(t) /\ InCall(t)
      /\ todo[t] # {} /\ UNCHANGED wrapperVars /\ pc[t] = "idle"
  BY DEF PlacesInv, LinkInv, CallInv, PageFault, LinkHit, LinkMiss
<1>2. PICK s \in todo[t] : s = NextSide(t) /\ s \in Sides
  BY <1>1, NextIsToDo DEF WrapperTypes
<1> DEFINE r == RequestOf(t, s)
<1>3. r.page = PageAt(t, s) /\ PageAt(t, s) \in Pages
  BY <1>1, <1>2, RequestIs, TaggedIs DEF PageAt
<1>4. CASE LinkMiss(t, r)
  <2>1. tlb' = tlb /\ pc'[t] = "fault"
    BY <1>1, <1>4 DEF LinkMiss, TypeOK
  <2> QED
    BY <1>1, <2>1, FirstCallKept DEF wrapperVars
<1>5. CASE LinkHit(t, r)
  <2> DEFINE i == FirstHit(t, r.page)
  <2>1. i \in Slots /\ tlb[t][i].bs = PageAt(t, s)
    BY <1>1, <1>3, <1>5, LookupFinds DEF LinkHit
  <2>2. call[t].n = 0 /\ Done(t) = 0 /\ todo[t] = {s}
    BY <1>1, <1>2, <2>1, LinkMisses
  <2>3. PICK x \in Sides \ {s} : IsTagged(ptr[t][x]) /\ PageAt(t, x) = PageAt(t, s)
    BY <1>1, <1>2, <2>1, LinkMisses
  <2>4. \A j \in Slots : tlb'[t][j].bs = tlb[t][j].bs
    <3> DEFINE E == [bs : Pages \cup {NoPage, 0}, epc : 0 .. (EpcMod - 1), dirty : BOOLEAN]
    <3>1. tlb' = [tlb EXCEPT ![t][i].dirty = @ \/ r.dirty]
      BY <1>5 DEF LinkHit
    <3>2. tlb \in [Threads -> [Slots -> E]]
      BY <1>1 DEF TypeOK
    <3> HIDE DEF i, r
    <3> SUFFICES ASSUME NEW j \in Slots PROVE tlb'[t][j].bs = tlb[t][j].bs
      OBVIOUS
    <3>3. CASE j # i
      BY <3>1, <3>2, <3>3
    <3>4. CASE j = i
      <4>1. tlb'[t][j] = [tlb[t][j] EXCEPT !.dirty = @ \/ r.dirty] /\ tlb[t][j] \in E
        BY <3>1, <3>2, <3>4
      <4> QED
        BY <4>1
    <3> QED
      BY <3>3, <3>4
  <2>5. pc'[t] = "linked"
    BY <1>1, <1>5 DEF LinkHit, TypeOK
  <2>6. Recent(t, x, s)
    BY <1>1, <1>2, <2>3, TaggedIs, RequestIs DEF FirstCall
  <2>7. Within(t, x, 1)
    BY <1>1, <2>2, <2>6 DEF Recent
  <2>8. PageAt(t, s)' = PageAt(t, s) /\ PageAt(t, x)' = PageAt(t, x) /\ NextSide(t)' = s
    BY <1>1, <1>2 DEF PageAt, NextSide, wrapperVars
  <2>9. Within(t, s, 1)' /\ Within(t, x, 1)'
    BY <2>3, <2>4, <2>7, <2>8 DEF Within
  <2>10. Within(t, x, 2)'
    BY <2>9 DEF Within, Slots
  <2>11. Recent(t, x, s)'
    BY <1>1, <2>2, <2>5, <2>10 DEF Recent, wrapperVars
  <2>12. \A y, z \in Sides : y # z /\ todo[t] = {z} => z = s /\ y = x
    BY <1>2, <2>2, <2>3 DEF Sides
  <2>13. Within(t, NextSide(t), 1)'
    BY <2>8, <2>9 DEF Within
  <2> QED
    BY <1>1, <2>4, <2>5, <2>11, <2>12, <2>13, LinkedFirst
<1> QED
  BY <1>2, <1>4, <1>5 DEF PageFault


LEMMA LinkStepFirst ==
  ASSUME PlacesInv, TLBSize >= 3, NEW t \in Threads, FirstCall(t),
         LinkStep(t), UNCHANGED wrapperVars
  PROVE  FirstCall(t)'
<1>1. /\ LinkInv /\ TypeOK /\ WrapperTypes /\ CallInv(t)
      /\ pc[t] \in {"fault", "drop", "insert"}
  BY DEF PlacesInv, LinkInv, LinkStep, FaultResident, FaultLoad, Drop, Insert
<1>2. todo[t] # {} /\ req[t] = RequestOf(t, NextSide(t)) /\ InCall(t)
  BY <1>1 DEF CallInv
<1>3. PICK s \in todo[t] : s = NextSide(t) /\ s \in Sides
  BY <1>1, <1>2, NextIsToDo DEF WrapperTypes
<1>4. CASE FaultResident(t) \/ FaultLoad(t) \/ Drop(t)
  <2>1. tlb' = tlb /\ pc[t] # "linked" /\ pc'[t] # "linked"
    BY <1>1, <1>4 DEF FaultResident, FaultLoad, Drop, TypeOK
  <2> QED
    BY <2>1, FirstCallKept DEF wrapperVars
<1>5. CASE Insert(t)
  <2>1. req[t].page = PageAt(t, s) /\ PageAt(t, s) \in Pages
    BY <1>2, <1>3, RequestIs, TaggedIs DEF PageAt
  <2>2. /\ pc[t] # "linked" /\ pc'[t] = "linked"
        /\ tlb'[t] = [k \in Slots |->
             IF k = 1 THEN Entry(AsSigned(req[t].page), EpcIndex(res[t]), req[t].dirty)
                      ELSE tlb[t][k - 1]]
    BY <1>1, <1>5 DEF Insert, TypeOK
  <2>3. 1 \in Slots /\ \A k \in Slots : k # 1 => k - 1 \in Slots
    BY ConstantsOK DEF Slots
  <2>4. tlb'[t][1].bs = PageAt(t, s)
    BY <2>1, <2>2, <2>3, Conversions DEF Entry
  <2>5. \A k \in Slots : k # 1 => tlb'[t][k] = tlb[t][k - 1]
    BY <2>2
  <2>6. \A k \in Slots : k < TLBSize => k + 1 \in Slots /\ tlb'[t][k + 1] = tlb[t][k]
    <3> TAKE k \in Slots
    <3> HAVE k < TLBSize
    <3>1. k + 1 \in Slots /\ k + 1 # 1 /\ (k + 1) - 1 = k
      BY ConstantsOK DEF Slots
    <3> QED
      BY <2>5, <3>1
  <2>7. /\ \A x : PageAt(t, x)' = PageAt(t, x) /\ OffsetAt(t, x)' = OffsetAt(t, x)
        /\ NextSide(t)' = s /\ Done(t)' = Done(t) /\ todo' = todo
    BY <1>3 DEF PageAt, OffsetAt, NextSide, Done, wrapperVars
  <2>8. Within(t, NextSide(t), 1)'
    BY <2>3, <2>4, <2>7 DEF Within
  <2>9. \A i \in Slots : tlb'[t][i].bs = PageAt(t, NextSide(t))
                           \/ \E j \in Slots : tlb'[t][i].bs = tlb[t][j].bs
    BY <1>3, <2>3, <2>4, <2>5
  <2>10. ASSUME NEW y \in Sides, NEW x \in Sides, y # x, IsTagged(ptr[t][y]), todo[t] = {x}
         PROVE  Recent(t, y, x)'
    <3>1. IsTagged(ptr[t][x])
      BY <2>10, RequestIs
    <3>2. Recent(t, y, x)
      BY <1>2, <2>10, <3>1 DEF FirstCall
    <3>3. CASE Within(t, y, 1)
      <4>1. PICK i \in Slots : i <= 1 /\ tlb[t][i].bs = PageAt(t, y)
        BY <3>3 DEF Within
      <4>2. i = 1 /\ 2 \in Slots /\ tlb'[t][2] = tlb[t][1]
        BY <2>3, <2>6, <4>1, ConstantsOK DEF Slots
      <4>3. Within(t, y, 2)'
        BY <2>7, <4>1, <4>2 DEF Within
      <4> QED
        BY <2>2, <2>7, <2>10, <4>3 DEF Recent
    <3>4. CASE ~Within(t, y, 1)
      <4>1. Done(t) > 0 /\ OffsetAt(t, x) = 0 /\ OffsetAt(t, y) > 0
        BY <2>2, <2>10, <3>2, <3>4 DEF Recent
      <4> QED
        BY <2>2, <2>7, <2>10, <4>1 DEF Recent
    <3> QED
      BY <3>3, <3>4
  <2> QED
    BY <1>2, <2>2, <2>8, <2>9, <2>10, LinkedFirst
<1> QED
  BY <1>4, <1>5 DEF LinkStep


LEMMA FaultedFirst ==
  ASSUME PlacesInv, NEW t \in Threads, FirstCall(t), PageFaulted(t)
  PROVE  FirstCall(t)'
<1>1. /\ TypeOK /\ WrapperTypes /\ CallInv(t) /\ InCall(t) /\ todo[t] # {} /\ pc[t] = "linked"
      /\ UNCHANGED <<tlb, call, ptr, ctr, made>> /\ pc' = [pc EXCEPT ![t] = "idle"]
  BY DEF PlacesInv, LinkInv, CallInv, PageFaulted, Return
<1>2. PICK s \in todo[t] : s = NextSide(t) /\ s \in Sides /\ IsTagged(ptr[t][s])
  BY <1>1, NextIsToDo DEF WrapperTypes, CallInv, OperandInv
<1>3. pc'[t] = "idle" /\ todo'[t] = todo[t] \ {s} /\ todo[t] \subseteq Sides
  BY <1>1, <1>2 DEF PageFaulted, TypeOK, WrapperTypes
<1>4. /\ InCall(t)' = InCall(t) /\ Done(t)' = Done(t) /\ Done(t) \in Nat
      /\ \A x : PageAt(t, x)' = PageAt(t, x) /\ OffsetAt(t, x)' = OffsetAt(t, x)
      /\ \A x : Operand(call[t], x)' = Operand(call[t], x)
      /\ PagesApart(call[t])' = PagesApart(call[t])
  <2>1. Done(t) \in Nat
    BY <1>1, <1>2, TaggedIs
  <2> QED
    BY <1>1, <2>1 DEF InCall, Done, PageAt, OffsetAt, Operand, PagesApart
<1>5. \A x, k : Within(t, x, k)' = Within(t, x, k)
  BY <1>1, <1>4 DEF Within
<1>6. \A x : ToLink(t, x)' = ToLink(t, x)
  BY <1>1, <1>2, <1>3 DEF ToLink
<1>7. \A x : LinkedFor(t, x)' = LinkedFor(t, x)
  BY <1>4, <1>6 DEF LinkedFor
<1>8. Within(t, s, 1) /\ Within(t, s, 2)
  BY <1>1, <1>2, WithinMore DEF FirstCall
<1>9. ASSUME NEW y \in Sides, NEW x \in Sides, y # x, IsTagged(ptr[t][y]), IsTagged(ptr[t][x])
      PROVE  Recent(t, y, x)'
  <2>1. Recent(t, y, x)
    BY <1>1, <1>9 DEF FirstCall
  <2>2. OffsetAt(t, y) \in Nat /\ OffsetAt(t, x) \in Nat
    BY <1>1, <1>9, TaggedIs
  <2>3. ASSUME todo'[t] = {}, OffsetAt(t, y) < OffsetAt(t, x)
        PROVE  Within(t, y, 2)
    <3>1. todo[t] = {s}
      BY <1>2, <1>3, <2>3
    <3>2. CASE y = s
      BY <1>8, <3>2
    <3>3. CASE x = s
      BY <1>1, <2>1, <2>2, <2>3, <3>1, <3>3 DEF Recent
    <3> QED
      BY <1>2, <1>9, <3>2, <3>3 DEF Sides
  <2>4. ASSUME todo'[t] = {x}
        PROVE  Within(t, y, 1)
    <3>1. y = s
      BY <1>2, <1>3, <1>9, <2>4 DEF Sides
    <3> QED
      BY <1>8, <3>1
  <2> QED
    BY <1>3, <1>4, <1>5, <2>3, <2>4 DEF Recent
<1>10. \A x \in todo'[t] : Done(t)' > 0 => OffsetAt(t, x)' = 0
  BY <1>1, <1>3, <1>4 DEF FirstCall
<1>11. made[t] # 0
  BY <1>1 DEF FirstCall, InCall, NoCall
<1> QED
  BY <1>1, <1>3, <1>4, <1>7, <1>9, <1>10, <1>11 DEF FirstCall

(* An operand that reached the end of its page is at the start of the next *)
(* one, the others are further on in theirs.                               *)
LEMMA AfterChunk ==
  ASSUME PlacesInv, PlacesInv', NEW t \in Threads, Chunk(t), NEW s \in Sides,
         IsTagged(ptr[t][s])
  PROVE  LET k == MinLeft(t) IN
         /\ Left(t, s) = PageSize - OffsetAt(t, s) /\ IsTagged(ptr'[t][s])
         /\ Left(t, s) = k => s \in todo'[t] /\ OffsetAt(t, s)' = 0
         /\ Left(t, s) # k => /\ s \notin todo'[t] /\ PageAt(t, s)' = PageAt(t, s)
                              /\ OffsetAt(t, s)' > 0
<1> DEFINE k == MinLeft(t)
           p == ptr[t][s]
<1>1. /\ WrapperTypes /\ InCall(t) /\ todo[t] = {}
      /\ ptr' = [ptr EXCEPT ![t] = [x \in Sides |-> Advance(@[x], k)]]
      /\ todo' = [todo EXCEPT ![t] = {x \in Sides : IsTagged(ptr[t][x]) /\ Left(t, x) = k}]
  BY DEF PlacesInv, Chunk
<1>2. /\ ptr'[t][s] = Advance(p, k)
      /\ s \in todo'[t] <=> Left(t, s) = k
  BY <1>1 DEF WrapperTypes
<1>3. k \in Nat \ {0} /\ k <= Left(t, s) /\ Left(t, s) \in Nat
  BY <1>1, MinLeftIs
<1>4. p.a \in 0 .. (Bytes - 1) /\ OffsetAt(t, s) \in 0 .. (PageSize - 1)
  BY <1>1, TaggedIs
<1>5. Left(t, s) = PageSize - OffsetAt(t, s)
  <2>1. Left(t, s) = PageSize - place[t][s].o
    BY <1>1, LeftIs
  <2>2. LinkStays(t, s)
    BY <1>1 DEF PlacesInv, CallInv, OperandInv
  <2> QED
    BY <2>1, <2>2 DEF LinkStays, OffsetAt
<1>6. ptr'[t][s].a = p.a + k /\ IsTagged(ptr'[t][s])
  <2>1. p \in Pointers /\ p.kind = "tagged"
    BY <1>1 DEF WrapperTypes, IsTagged
  <2> HIDE DEF k, p
  <2>2. Advance(p, k).a = p.a + k /\ Advance(p, k).kind = "tagged"
    BY <1>3, <2>1, AdvanceKind
  <2> QED
    BY <1>2, <2>2 DEF IsTagged
<1>7. /\ PageSize \in Nat \ {0} /\ p.a \in Nat
      /\ p.a = PageSize * (p.a \div PageSize) + OffsetAt(t, s) /\ p.a \div PageSize \in Int
  <2> DEFINE a == p.a
  <2>1. PageSize \in Nat \ {0} /\ a \in Nat
    BY <1>4, Sizes
  <2> HIDE DEF a
  <2>2. a = PageSize * (a \div PageSize) + (a % PageSize) /\ a \div PageSize \in Int
    BY <2>1, DividedBy
  <2> QED
    BY <2>1, <2>2 DEF OffsetAt, a
<1>8. ASSUME Left(t, s) = k
      PROVE  OffsetAt(t, s)' = 0
  <2> DEFINE q == p.a \div PageSize
             o == OffsetAt(t, s)
             a == p.a
  <2>1. k = PageSize - o /\ o \in Int /\ a = PageSize * q + o /\ q \in Int
    BY <1>4, <1>5, <1>7, <1>8
  <2> HIDE DEF k, q, o, a
  <2>2. a + k = PageSize * (q + 1) + 0
    BY <1>7, <2>1
  <2>3. (a + k) % PageSize = 0
    <3>1. 0 \in 0 .. (PageSize - 1)
      BY <1>7
    <3>2. (PageSize * (q + 1) + 0) % PageSize = 0
      <4>1. q + 1 \in Int
        BY <2>1
      <4> QED
        BY <1>7, <3>1, <4>1, Division
    <3> QED
      BY <2>2, <3>2
  <2> QED
    BY <1>6, <2>3 DEF OffsetAt, a
<1>9. ASSUME Left(t, s) # k
      PROVE  PageAt(t, s)' = PageAt(t, s) /\ OffsetAt(t, s)' > 0
  <2> DEFINE o == p.a % PageSize
  <2>1. o = OffsetAt(t, s)
    BY DEF OffsetAt
  <2>2. o + k < PageSize /\ o + k > 0 /\ k \in Nat
    <3> DEFINE left == Left(t, s)
    <3>1. /\ left = PageSize - o /\ o \in 0 .. (PageSize - 1) /\ PageSize \in Nat
          /\ k \in Nat \ {0} /\ k <= left /\ left # k
      BY <1>3, <1>4, <1>5, <1>7, <1>9, <2>1
    <3> HIDE DEF k, o, left
    <3> QED
      BY <3>1
  <2> HIDE DEF k
  <2>3. (p.a + k) \div PageSize = p.a \div PageSize /\ (p.a + k) % PageSize = o + k
    BY <1>4, <2>2, SamePage
  <2> HIDE DEF o
  <2> QED
    BY <1>6, <2>2, <2>3 DEF PageAt, OffsetAt
<1> QED
  BY <1>2, <1>5, <1>6, <1>8, <1>9


LEMMA ChunkFirst ==
  ASSUME PlacesInv, PlacesInv', NEW t \in Threads, FirstCall(t), Chunk(t)
  PROVE  FirstCall(t)'
<1> DEFINE k == MinLeft(t)
<1>1. /\ WrapperTypes /\ InCall(t) /\ todo[t] = {} /\ ctr[t] > k /\ pc[t] = "idle"
      /\ ctr' = [ctr EXCEPT ![t] = @ - k] /\ todo'[t] \subseteq Sides
      /\ UNCHANGED <<tlb, pc, call, made>>
  BY IdleBetweenLinks DEF PlacesInv, Chunk, threadVars, WrapperTypes
<1>2. k \in Nat \ {0} /\ k <= Left(t, "l") /\ k <= Left(t, "r")
      /\ (k = Left(t, "l") \/ k = Left(t, "r"))
  <2>1. \A s \in Sides : MinLeft(t) <= Left(t, s)
    BY <1>1, MinLeftIs
  <2> QED
    BY <1>1, <2>1, MinLeftIs DEF MinLeft, Sides
<1>3. /\ Done(t) \in Nat /\ Done(t)' = Done(t) + k /\ call[t].n \in Nat
      /\ ctr'[t] = ctr[t] - k /\ ctr[t] \in Nat
  <2> DEFINE n == call[t].n
             c == ctr[t]
  <2>1. call[t] \in ProgramCalls
    BY <1>1 DEF WrapperTypes, InCall, NoCall, Returned
  <2>2. n \in Nat /\ c \in Nat /\ c <= n /\ ctr'[t] = c - k
    BY <1>1, <2>1, CallFields DEF WrapperTypes, PlacesInv, CallInv
  <2>3. Done(t) = n - c /\ Done(t)' = n - (c - k)
    BY <1>1, <2>2 DEF Done
  <2> HIDE DEF n, c, k
  <2>4. n - c \in Nat /\ n - (c - k) = (n - c) + k
    BY <1>2, <2>2
  <2> QED
    BY <2>2, <2>3, <2>4 DEF n, c
<1> HIDE DEF k
<1>4. /\ InCall(t)' = InCall(t) /\ PagesApart(call[t])' = PagesApart(call[t])
      /\ \A x : Operand(call[t], x)' = Operand(call[t], x)
  BY <1>1 DEF InCall, PagesApart, Operand
<1>5. \A x \in Sides : LinkedFor(t, x) \subseteq LinkedFor(t, x)'
  <2> DEFINE d == Done(t)
  <2>1. \A x \in Sides : (0 .. d) \subseteq (0 .. (IF ToLink(t, x)' THEN d + k - 1 ELSE d + k))
    <3> HIDE DEF d
    <3>1. d \in Nat
      BY <1>3 DEF d
    <3> QED
      BY <1>2, <3>1
  <2>2. \A x \in Sides : ~ToLink(t, x)
    BY <1>1 DEF ToLink
  <2>3. ASSUME NEW x \in Sides, NEW e \in LinkedFor(t, x)
        PROVE  e \in LinkedFor(t, x)'
    <3>1. PICK j \in 0 .. d : e = (Operand(call[t], x).a + j) \div PageSize
      BY <2>2 DEF LinkedFor
    <3>2. j \in 0 .. (IF ToLink(t, x)' THEN Done(t)' - 1 ELSE Done(t)')
      <4>1. j \in 0 .. (IF ToLink(t, x)' THEN d + k - 1 ELSE d + k)
        BY <2>1
      <4>2. Done(t)' = d + k
        BY <1>3
      <4>3. CASE ToLink(t, x)'
        <5>1. k \in Int /\ d \in Int
          BY <1>2, <1>3
        <5>2. j \in 0 .. (d + k - 1)
          BY <4>1, <4>3
        <5> HIDE DEF d
        <5>3. j \in 0 .. (Done(t)' - 1)
          BY <4>2, <5>1, <5>2
        <5> QED
          BY <4>3, <5>3
      <4>4. CASE ~ToLink(t, x)'
        BY <4>1, <4>2, <4>4
      <4> QED
        BY <4>3, <4>4
    <3> QED
      BY <1>4, <3>1, <3>2 DEF LinkedFor
  <2> QED
    BY <2>3
<1>6. ASSUME NEW s \in Sides, IsTagged(ptr[t][s])
      PROVE  /\ Left(t, s) = PageSize - OffsetAt(t, s)
             /\ OffsetAt(t, s) \in 0 .. (PageSize - 1)
             /\ Left(t, s) = k => s \in todo'[t] /\ OffsetAt(t, s)' = 0
             /\ Left(t, s) # k => /\ s \notin todo'[t] /\ PageAt(t, s)' = PageAt(t, s)
                                  /\ OffsetAt(t, s)' > 0
  BY <1>1, <1>6, AfterChunk, TaggedIs DEF k
<1>7. \A s \in Sides : IsTagged(ptr'[t][s]) = IsTagged(ptr[t][s])
  <2>1. InCall(t)' /\ \A s \in Sides : IsTagged(ptr'[t][s]) = IsTagged(Operand(call[t], s))
    <3>1. InCall(t)' /\ CallInv(t)' /\ WrapperTypes'
      BY <1>1, <1>4 DEF PlacesInv
    <3>2. call[t] \in ProgramCalls /\ Done(t)' \in Nat
      BY <1>1, <1>2, <1>3 DEF WrapperTypes, InCall, NoCall, Returned
    <3>3. ASSUME NEW s \in Sides
          PROVE  IsTagged(ptr'[t][s]) = IsTagged(Operand(call[t], s))
      <4>1. ptr'[t][s] = Advance(Operand(call[t], s)', Done(t)')
        BY <3>1 DEF CallInv, OperandInv, Advance
      <4>2. Operand(call[t], s) \in Pointers
        BY <3>2, CallFields
      <4> QED
        BY <1>4, <3>2, <4>1, <4>2, AdvanceKind DEF IsTagged
    <3> QED
      BY <3>1, <3>3
  <2>2. ASSUME NEW s \in Sides
        PROVE  IsTagged(ptr[t][s]) = IsTagged(Operand(call[t], s))
    BY <1>1, TaggedIs DEF IsTagged
  <2> QED
    BY <2>1, <2>2
<1>8. ASSUME NEW y \in Sides, NEW x \in Sides, y # x, IsTagged(ptr'[t][y]), IsTagged(ptr'[t][x])
      PROVE  Recent(t, y, x)'
  <2>1. IsTagged(ptr[t][y]) /\ IsTagged(ptr[t][x])
    BY <1>7, <1>8
  <2>2. Left(t, y) = k \/ Left(t, x) = k
    BY <1>2, <1>8 DEF Sides
  <2>3. todo'[t] # {}
    BY <1>6, <2>1, <2>2
  <2>4. ASSUME todo'[t] = {x}
        PROVE  /\ Done(t)' > 0 /\ OffsetAt(t, x)' = 0 /\ OffsetAt(t, y)' > 0 /\ Within(t, y, 2)'
    <3>1. Left(t, y) # k /\ Left(t, x) = k
      BY <1>6, <1>8, <2>1, <2>2, <2>4
    <3>2. OffsetAt(t, y) < OffsetAt(t, x)
      <4> DEFINE ly == Left(t, y)
                 lx == Left(t, x)
                 oy == OffsetAt(t, y)
                 ox == OffsetAt(t, x)
      <4>1. /\ ly = PageSize - oy /\ lx = PageSize - ox /\ oy \in 0 .. (PageSize - 1)
            /\ ox \in 0 .. (PageSize - 1) /\ ly # k /\ lx = k /\ PageSize \in Nat
        BY <1>6, <2>1, <3>1, Sizes
      <4>2. k <= ly
        BY <1>2, <1>8 DEF Sides
      <4> HIDE DEF ly, lx, oy, ox
      <4>3. oy < ox
        BY <1>2, <4>1, <4>2
      <4> QED
        BY <4>3 DEF oy, ox
    <3>3. Recent(t, y, x)
      BY <1>1, <1>8, <2>1 DEF FirstCall
    <3>4. Within(t, y, 2)
      BY <1>1, <3>2, <3>3 DEF Recent
    <3>5. /\ OffsetAt(t, x)' = 0 /\ OffsetAt(t, y)' > 0 /\ PageAt(t, y)' = PageAt(t, y)
      BY <1>6, <2>1, <3>1
    <3>6. Within(t, y, 2)'
      BY <1>1, <3>4, <3>5 DEF Within
    <3> QED
      BY <1>2, <1>3, <3>5, <3>6
  <2> QED
    BY <2>3, <2>4 DEF Recent
<1>9. \A x \in todo'[t] : OffsetAt(t, x)' = 0
  <2> TAKE x \in todo'[t]
  <2>1. x \in Sides /\ IsTagged(ptr[t][x])
    BY <1>1, <1>7 DEF PlacesInv, CallInv, OperandInv
  <2> QED
    BY <1>6, <2>1
<1>10. \A i \in Slots :
          \/ tlb'[t][i].bs = NoPage
          \/ \E s \in Sides : /\ IsTagged(Operand(call[t], s)')
                              /\ tlb'[t][i].bs \in LinkedFor(t, s)'
  BY <1>1, <1>4, <1>5 DEF FirstCall
<1>11. made[t] # 0 /\ PagesApart(call[t])
  BY <1>1 DEF FirstCall, InCall, NoCall
<1>12. ctr'[t] > 0
  BY <1>1, <1>2, <1>3 DEF k
<1> QED
  BY <1>1, <1>4, <1>8, <1>9, <1>10, <1>11, <1>12 DEF FirstCall


LEMMA BeginFirst ==
  ASSUME PlacesInv, PlacesInv', MaxCalls = 1, made \in [Threads -> Nat],
         NEW t \in Threads, FirstCall(t), NEW c \in Calls, PagesApart(c), Begin(t, c)
  PROVE  FirstCall(t)'
<1>1. /\ WrapperTypes /\ WrapperTypes' /\ call[t] = NoCall /\ made[t] < MaxCalls
      /\ call'[t] = c /\ ctr'[t] = c.n
      /\ todo'[t] = {s \in Sides : IsTagged(Operand(c, s))}
      /\ ptr'[t] = [s \in Sides |-> Operand(c, s)]
      /\ made'[t] = made[t] + 1 /\ tlb' = tlb /\ pc' = pc
  BY DEF PlacesInv, Begin, WrapperTypes, vars, threadVars
<1>2. made[t] = 0 /\ made'[t] # 0 /\ \A i \in Slots : tlb'[t][i].bs = NoPage
  BY <1>1 DEF FirstCall
<1>3. pc'[t] = "idle"
  BY <1>1 DEF PlacesInv, CallInv, InCall, NoCall
<1>4. c.n \in Nat /\ Done(t)' = 0
  <2>1. c.n \in Nat
    BY CallsOK, CallFields
  <2> QED
    BY <1>1, <2>1 DEF Done
<1>5. ASSUME NEW y \in Sides, NEW x \in Sides, y # x, IsTagged(ptr'[t][y]), IsTagged(ptr'[t][x])
      PROVE  Recent(t, y, x)'
  <2>1. y \in todo'[t] /\ x \in todo'[t]
    BY <1>1, <1>5
  <2>2. todo'[t] # {} /\ todo'[t] # {x}
    BY <1>5, <2>1
  <2> QED
    BY <2>2 DEF Recent
<1>6. PagesApart(call[t])'
  BY <1>1 DEF PagesApart
<1> QED
  BY <1>1, <1>2, <1>3, <1>4, <1>5, <1>6 DEF FirstCall

LEMMA FirstCallStep ==
  ASSUME PlacesInv, PlacesInv', TLBSize >= 3, NEW t \in Threads, FirstCall(t), WrapperStep(t)
  PROVE  FirstCall(t)'
<1>1. CASE LastChunk(t) \/ Leave(t)
  <2>1. WrapperTypes /\ made' = made /\ call[t] # NoCall /\ call'[t] \in {NoCall, Returned}
    BY <1>1 DEF LastChunk, Leave, PlacesInv, WrapperTypes, InCall, NoCall
  <2>2. made'[t] # 0 /\ ~InCall(t)'
    BY <2>1 DEF FirstCall, InCall, NoCall, Returned
  <2> QED
    BY <2>2 DEF FirstCall
<1>2. CASE ~(LastChunk(t) \/ Leave(t))
  BY <1>2, FaultFirst, FaultedFirst, ChunkFirst, LinkStepFirst DEF WrapperStep
<1> QED
  BY <1>1, <1>2

LEMMA FirstCallSafe ==
  ASSUME FirstCallInv, TLBSize >= 3
  PROVE  DroppedNotInUse
BY DropsNone DEF FirstCallInv, DroppedNotInUse

LEMMA FirstCallNext ==
  ASSUME LstoreMod = IndexMod, TLBSize >= 3, MaxCalls = 1, \A c \in Calls : PagesApart(c),
         FirstCallInv, [WrapperNext]_allVars
  PROVE  FirstCallInv'
<1>1. PlacesInv /\ PlacesInv' /\ made \in [Threads -> Nat] /\ \A t \in Threads : FirstCall(t)
  BY PlacesNext, FirstCallSafe DEF FirstCallInv
<1>2. CASE UNCHANGED allVars
  <2>1. \A u \in Threads : FirstCall(u)'
    BY <1>1, <1>2, FirstCallKept DEF allVars, vars, threadVars, wrapperVars
  <2> QED
    BY <1>1, <1>2, <2>1 DEF FirstCallInv, allVars, wrapperVars
<1>3. ASSUME NEW t \in Threads, WrapperStep(t)
      PROVE  FirstCallInv'
  <2>1. FirstCall(t)'
    BY <1>1, <1>3, FirstCallStep
  <2>2. /\ made' = made
        /\ \A u \in Threads \ {t} :
              /\ call'[u] = call[u] /\ ptr'[u] = ptr[u] /\ todo'[u] = todo[u]
              /\ ctr'[u] = ctr[u] /\ tlb'[u] = tlb[u] /\ pc'[u] = pc[u]
    <3> USE DEF wrapperVars, vars, threadVars
    <3>1. TypeOK /\ WrapperTypes
      BY <1>1 DEF PlacesInv, LinkInv
    <3>2. CASE PageFault(t)
      BY <3>1, <3>2 DEF PageFault, LinkHit, LinkMiss, TypeOK
    <3>3. CASE PageFaulted(t)
      BY <3>1, <3>3 DEF PageFaulted, Return, TypeOK, WrapperTypes
    <3>4. CASE Chunk(t)
      <4> DEFINE k == MinLeft(t)
                 np == [s \in Sides |-> Advance(ptr[t][s], k)]
                 nt == {s \in Sides : IsTagged(ptr[t][s]) /\ Left(t, s) = k}
                 nc == ctr[t] - k
      <4>1. /\ ptr' = [ptr EXCEPT ![t] = np] /\ todo' = [todo EXCEPT ![t] = nt]
            /\ ctr' = [ctr EXCEPT ![t] = nc] /\ UNCHANGED <<tlb, pc, call, made>>
        BY <3>4 DEF Chunk
      <4> HIDE DEF np, nt, nc
      <4> QED
        BY <3>1, <4>1 DEF WrapperTypes
    <3>5. CASE LastChunk(t)
      BY <3>1, <3>5 DEF LastChunk, WrapperTypes
    <3>6. CASE Leave(t)
      BY <3>1, <3>6 DEF Leave, WrapperTypes
    <3>7. CASE LinkStep(t) /\ UNCHANGED wrapperVars
      BY <3>1, <3>7 DEF LinkStep, FaultResident, FaultLoad, Drop, Insert, TypeOK
    <3> QED
      BY <1>3, <3>2, <3>3, <3>4, <3>5, <3>6, <3>7 DEF WrapperStep
  <2>3. \A u \in Threads \ {t} : FirstCall(u)'
    BY <1>1, <2>2, FirstCallKept
  <2> QED
    BY <1>1, <2>1, <2>2, <2>3 DEF FirstCallInv
<1>4. ASSUME NEW t \in Threads, NEW c \in Calls, Begin(t, c)
      PROVE  FirstCallInv'
  <2>1. FirstCall(t)'
    BY <1>1, <1>4, BeginFirst
  <2>2. /\ made' = [made EXCEPT ![t] = @ + 1] /\ tlb' = tlb /\ pc' = pc
        /\ \A u \in Threads \ {t} :
              /\ call'[u] = call[u] /\ ptr'[u] = ptr[u] /\ todo'[u] = todo[u]
              /\ ctr'[u] = ctr[u] /\ made'[u] = made[u]
    BY <1>1, <1>4 DEF Begin, vars, threadVars, PlacesInv, WrapperTypes
  <2>3. \A u \in Threads \ {t} : FirstCall(u)'
    BY <1>1, <2>2, FirstCallKept
  <2>4. made' \in [Threads -> Nat]
    BY <1>1, <2>2
  <2> QED
    BY <1>1, <2>1, <2>3, <2>4 DEF FirstCallInv
<1>5. ASSUME NEW f \in Frames, TakenByOthers(f)
      PROVE  FirstCallInv'
  <2>1. UNCHANGED <<threadVars, wrapperVars>>
    BY <1>5 DEF TakenByOthers
  <2>2. \A u \in Threads : FirstCall(u)'
    BY <1>1, <2>1, FirstCallKept DEF threadVars, wrapperVars
  <2> QED
    BY <1>1, <2>1, <2>2 DEF FirstCallInv, wrapperVars
<1> QED
  BY <1>2, <1>3, <1>4, <1>5 DEF WrapperNext

LEMMA FirstCallInit ==
  ASSUME WrapperInit
  PROVE  FirstCallInv
<1>1. \A t \in Threads : FirstCall(t)
  BY DEF WrapperInit, FirstCall, InCall, NoCall, EmptyEntry, Entry, NoPage
<1> QED
  BY <1>1, WrapperInitPlaces DEF WrapperInit, FirstCallInv

(* From an empty TLB of three slots or more, a call whose operands share   *)
(* no page drops no page that one of them points into (lines 478-492),     *)
(* however long it is and however its operands are aligned to each other,  *)
(* and in any number of threads.                                           *)
THEOREM FirstCallInvariant ==
  ASSUME LstoreMod = IndexMod, TLBSize >= 3, MaxCalls = 1, \A c \in Calls : PagesApart(c)
  PROVE  WrapperSpec => []FirstCallInv
<1>1. WrapperInit => FirstCallInv
  BY FirstCallInit
<1>2. FirstCallInv /\ [WrapperNext]_allVars => FirstCallInv'
  BY FirstCallNext
<1> QED
  BY <1>1, <1>2, PTL DEF WrapperSpec

(* ... which is that no page in use is dropped.                            *)
THEOREM FirstCallKeepsPages ==
  ASSUME LstoreMod = IndexMod, TLBSize >= 3, MaxCalls = 1, \A c \in Calls : PagesApart(c)
  PROVE  WrapperSpec => []DroppedNotInUse
<1>1. FirstCallInv => DroppedNotInUse
  BY FirstCallSafe
<1> QED
  BY <1>1, FirstCallInvariant, PTL

(* ... so that such a call does what the libc function does on flat        *)
(* memory, memchr's raw address included, as WrappersDoTheirJob says.      *)
THEOREM FirstCallDoesItsJob ==
  ASSUME LstoreMod = IndexMod, TLBSize >= 3, MaxCalls = 1, \A t, u \in Threads : t = u,
         \A c \in Calls : PagesApart(c) /\ OperandsApart(c)
  PROVE  WrapperSpec => []CallsDoTheirJob
<1>1. WrapperSpec => []DroppedNotInUse
  BY FirstCallKeepsPages
<1>2. WrapperSpec => ([]DroppedNotInUse => []CallsDoTheirJob)
  BY WrappersDoTheirJob
<1> QED
  BY <1>1, <1>2, PTL
=============================================================================
