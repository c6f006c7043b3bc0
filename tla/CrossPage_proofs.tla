--------------------------- MODULE CrossPage_proofs ---------------------------
(***************************************************************************)
(* Proofs about CrossPage for every number of threads, pages and frames,   *)
(* every page size and every race-free program: until a page is dropped    *)
(* between the two links of one access, accesses that cross pages behave   *)
(* like accesses to one flat memory.                                       *)
(***************************************************************************)
EXTENDS CrossPage, CarmorLink_proofs

---------------------------------------------------------------------------
(* Pages and bytes *)

LEMMA StorageSize ==
  PageSize \in Nat \ {0} /\ Cardinality(Pages) \in Nat /\ Bytes \in Nat
<1>1. Cardinality(Pages) \in Nat
  BY ConstantsOK, FS_CardinalityType
<1>2. PageSize \in Nat \ {0}
  BY CrossConstantsOK
<1> DEFINE c == Cardinality(Pages)
<1> HIDE DEF c
<1>3. c \in Nat => PageSize * c \in Nat
  BY <1>2
<1> QED
  BY <1>1, <1>2, <1>3 DEF Bytes, c

(* Byte n is at an offset of a page, ... *)
LEMMA ByteAt ==
  ASSUME NEW n \in 0 .. (Bytes - 1)
  PROVE  /\ n \div PageSize \in Pages /\ n % PageSize \in Offsets
         /\ n = PageSize * (n \div PageSize) + (n % PageSize)
BY StorageSize, CrossConstantsOK, BytePlace DEF Bytes

(* ... and every offset of a page is a byte. *)
LEMMA PageByte ==
  ASSUME NEW p \in Pages, NEW o \in Offsets
  PROVE  /\ PageSize * p + o \in 0 .. (Bytes - 1)
         /\ (PageSize * p + o) \div PageSize = p
         /\ (PageSize * p + o) % PageSize = o
BY StorageSize, CrossConstantsOK, PlaceByte DEF Bytes

LEMMA AccessFields ==
  ASSUME NEW a \in ProgramAccesses
  PROVE  /\ a.addr \in 0 .. (Bytes - 1) /\ a.size \in 1 .. PageSize /\ a.dirty \in BOOLEAN
         /\ a.addr + a.size <= Bytes
         /\ PageSize \in Nat \ {0} /\ Bytes \in Nat
         /\ a # NoAccess
<1>1. /\ a.addr \in 0 .. (Bytes - 1) /\ a.size \in 1 .. PageSize /\ a.dirty \in BOOLEAN
      /\ a.addr + a.size <= Bytes
  BY DEF ProgramAccesses
<1>2. a # NoAccess
  BY <1>1, StorageSize DEF NoAccess
<1> QED
  BY <1>1, <1>2, StorageSize

(* An access has one part, or a second one at the start of the next page. *)
LEMMA PartsOf ==
  ASSUME NEW a \in ProgramAccesses
  PROVE  /\ IF Crosses(a) THEN Parts(a) = <<a.addr, a.addr + InFirstPage(a)>>
                          ELSE Parts(a) = <<a.addr>>
         /\ Len(Parts(a)) = IF Crosses(a) THEN 2 ELSE 1
         /\ InFirstPage(a) \in 1 .. PageSize
         /\ Crosses(a) =>
              /\ InFirstPage(a) < a.size
              /\ a.addr + InFirstPage(a) = PageSize * ((a.addr \div PageSize) + 1)
              /\ (a.addr + InFirstPage(a)) \div PageSize = (a.addr \div PageSize) + 1
              /\ (a.addr + InFirstPage(a)) % PageSize = 0
         /\ \A i \in 1 .. Len(Parts(a)) : Parts(a)[i] \in 0 .. (Bytes - 1)
<1> DEFINE q == a.addr \div PageSize
           o == a.addr % PageSize
<1>1. /\ a.addr \in Nat /\ a.size \in Nat \ {0} /\ a.addr + a.size <= Bytes
      /\ PageSize \in Nat \ {0} /\ Bytes \in Nat /\ a.addr \in 0 .. (Bytes - 1)
  BY AccessFields
<1>2. q \in Int /\ o \in 0 .. (PageSize - 1) /\ a.addr = PageSize * q + o
  BY <1>1, DividedBy
<1>3. Parts(a) = IF Crosses(a) THEN <<a.addr, a.addr + InFirstPage(a)>> ELSE <<a.addr>>
  BY DEF Parts
<1>4. Len(Parts(a)) = IF Crosses(a) THEN 2 ELSE 1
  BY <1>3
<1>5. InFirstPage(a) = PageSize - o /\ (Crosses(a) <=> o + a.size > PageSize)
  BY DEF InFirstPage, Crosses
<1> HIDE DEF q, o
<1>6. Crosses(a) => a.addr + InFirstPage(a) \in 0 .. (Bytes - 1) /\ InFirstPage(a) < a.size
  BY <1>1, <1>2, <1>5
<1>7. a.addr + InFirstPage(a) = PageSize * (q + 1) + 0
  BY <1>1, <1>2, <1>5
<1>8. (a.addr + InFirstPage(a)) \div PageSize = q + 1 /\ (a.addr + InFirstPage(a)) % PageSize = 0
  <2>1. q + 1 \in Int /\ 0 \in 0 .. (PageSize - 1)
    BY <1>1, <1>2
  <2>2. (PageSize * (q + 1) + 0) \div PageSize = q + 1 /\ (PageSize * (q + 1) + 0) % PageSize = 0
    BY <1>1, <2>1, Division
  <2> QED
    BY <1>7, <2>2
<1>9. PageSize * (q + 1) \in Int
  BY <1>1, <1>2
<1>10. \A i \in 1 .. Len(Parts(a)) : Parts(a)[i] \in 0 .. (Bytes - 1)
  BY <1>1, <1>3, <1>4, <1>6
<1>11. InFirstPage(a) \in 1 .. PageSize
  BY <1>1, <1>2, <1>5
<1> QED
  BY <1>3, <1>4, <1>6, <1>7, <1>8, <1>9, <1>10, <1>11 DEF q

(* Where byte i of an access is, counted from the part that has it. *)
LEMMA ByteOfPart ==
  ASSUME NEW a \in ProgramAccesses, NEW i \in 0 .. (a.size - 1)
  PROVE  /\ a.addr + i \in 0 .. (Bytes - 1)
         /\ Crosses(a) /\ i >= InFirstPage(a) =>
              /\ (a.addr + i) \div PageSize = (a.addr + InFirstPage(a)) \div PageSize
              /\ (a.addr + i) % PageSize
                   = ((a.addr + InFirstPage(a)) % PageSize) + i - InFirstPage(a)
         /\ ~(Crosses(a) /\ i >= InFirstPage(a)) =>
              /\ (a.addr + i) \div PageSize = a.addr \div PageSize
              /\ (a.addr + i) % PageSize = (a.addr % PageSize) + i
<1> DEFINE q == a.addr \div PageSize
           o == a.addr % PageSize
           f == InFirstPage(a)
<1>1. /\ a.addr \in Nat /\ a.size \in 1 .. PageSize /\ a.addr + a.size <= Bytes
      /\ PageSize \in Nat \ {0} /\ Bytes \in Nat
  BY AccessFields
<1>2. q \in Int /\ o \in 0 .. (PageSize - 1) /\ a.addr = PageSize * q + o
  BY <1>1, DividedBy
<1>3. f = PageSize - o /\ (Crosses(a) <=> o + a.size > PageSize)
  BY DEF InFirstPage, Crosses
<1>4. /\ Crosses(a) => /\ a.addr + f = PageSize * (q + 1)
                       /\ (a.addr + f) \div PageSize = q + 1 /\ (a.addr + f) % PageSize = 0
      /\ f \in 1 .. PageSize
  BY PartsOf
<1> HIDE DEF q, o, f
<1>5. ASSUME Crosses(a), i >= f
      PROVE  /\ (a.addr + i) \div PageSize = q + 1
             /\ (a.addr + i) % PageSize = i - f
  <2>1. i - f \in 0 .. (PageSize - 1) /\ q + 1 \in Int
    BY <1>1, <1>2, <1>4, <1>5
  <2>2. a.addr + i = PageSize * (q + 1) + (i - f)
    <3> DEFINE z == PageSize * (q + 1)
    <3>1. a.addr + f = z /\ z \in Int
      BY <1>1, <1>2, <1>4, <1>5
    <3> HIDE DEF z
    <3>2. a.addr + i = z + (i - f)
      BY <1>1, <1>4, <3>1
    <3> QED
      BY <3>2 DEF z
  <2> DEFINE p == q + 1
             r == i - f
  <2>3. p \in Int /\ r \in 0 .. (PageSize - 1) /\ a.addr + i = PageSize * p + r
    BY <2>1, <2>2
  <2> HIDE DEF p, r
  <2>4. (PageSize * p + r) \div PageSize = p /\ (PageSize * p + r) % PageSize = r
    BY <1>1, <2>3, Division
  <2> QED
    BY <2>3, <2>4 DEF p, r
<1>6. ASSUME ~(Crosses(a) /\ i >= f)
      PROVE  /\ (a.addr + i) \div PageSize = q
             /\ (a.addr + i) % PageSize = o + i
  <2>1. o + i \in 0 .. (PageSize - 1)
    BY <1>1, <1>2, <1>3, <1>6
  <2>2. a.addr + i = PageSize * q + (o + i)
    <3> DEFINE z == PageSize * q
    <3>1. a.addr = z + o /\ z \in Int
      BY <1>1, <1>2
    <3> HIDE DEF z
    <3>2. a.addr + i = z + (o + i)
      BY <1>2, <3>1
    <3> QED
      BY <3>2 DEF z
  <2> DEFINE r == o + i
  <2>3. r \in 0 .. (PageSize - 1) /\ a.addr + i = PageSize * q + r
    BY <2>1, <2>2
  <2> HIDE DEF r
  <2>4. (PageSize * q + r) \div PageSize = q /\ (PageSize * q + r) % PageSize = r
    BY <1>1, <1>2, <2>3, Division
  <2> QED
    BY <2>3, <2>4 DEF r
<1>7. a.addr + i \in 0 .. (Bytes - 1)
  BY <1>1
<1>8. Crosses(a) => ((a.addr + f) % PageSize) + i - f = i - f
  BY <1>1, <1>4
<1> QED
  BY <1>4, <1>5, <1>6, <1>7, <1>8 DEF q, o, f


---------------------------------------------------------------------------
(* The bytes of an access whose parts are linked *)

(* Byte i of the access a is at its offset in the frame of its page. *)
RawIs(t, a, i) ==
    /\ RawByte(t, a, i) \in [f : Frames, o : Offsets]
    /\ RawByte(t, a, i).o = (a.addr + i) % PageSize
    /\ cache[RawByte(t, a, i).f] = (a.addr + i) \div PageSize

AllRaw(t, a) == \A i \in 0 .. (a.size - 1) : RawIs(t, a, i)

LEMMA LinkedPart ==
  ASSUME LinkInv, CrossTypes, NEW t \in Threads, PartsStay(t), NEW i \in 1 .. Len(at[t])
  PROVE  /\ at[t][i] \in [f : Frames, o : Offsets]
         /\ at[t][i].o = Parts(acc[t])[i] % PageSize
         /\ cache[at[t][i].f] = Parts(acc[t])[i] \div PageSize
         /\ stage[t] = "scatter" \/ acc[t].dirty => StoresTo(t, Parts(acc[t])[i] \div PageSize)
<1>1. at[t][i] \in [f : Frames, o : Offsets]
  <2> DEFINE Places == [f : Frames, o : Offsets]
  <2>1. at[t] \in Seq(Places)
    BY DEF CrossTypes
  <2> HIDE DEF Places
  <2>2. at[t][i] \in Places
    BY <2>1
  <2> QED
    BY <2>2 DEF Places
<1>2. PICK j \in Counted(t) :
        /\ tlb[t][j].bs = Parts(acc[t])[i] \div PageSize
        /\ tlb[t][j].epc = at[t][i].f /\ at[t][i].o = Parts(acc[t])[i] % PageSize
        /\ stage[t] = "scatter" \/ acc[t].dirty => tlb[t][j].dirty
  BY DEF PartsStay
<1>3. cache[tlb[t][j].epc] = tlb[t][j].bs
  BY DEF LinkInv, TlbCoherent
<1> QED
  BY <1>1, <1>2, <1>3 DEF StoresTo

LEMMA RawBytes ==
  ASSUME LinkInv, CrossTypes, NEW t \in Threads, PartsStay(t), acc[t] \in ProgramAccesses,
         Len(at[t]) = Len(Parts(acc[t]))
  PROVE  /\ AllRaw(t, acc[t])
         /\ stage[t] = "scatter" \/ acc[t].dirty =>
              \A n \in BytesOf(acc[t]) : StoresTo(t, n \div PageSize)
<1> DEFINE a == acc[t]
<1>1. /\ a.addr \in Nat /\ a.size \in 1 .. PageSize /\ PageSize \in Nat \ {0}
  BY AccessFields
<1>2. /\ IF Crosses(a) THEN Parts(a) = <<a.addr, a.addr + InFirstPage(a)>>
                       ELSE Parts(a) = <<a.addr>>
      /\ Len(Parts(a)) = IF Crosses(a) THEN 2 ELSE 1
      /\ InFirstPage(a) \in 1 .. PageSize
  BY PartsOf
<1>3. ASSUME NEW i \in 0 .. (a.size - 1)
      PROVE  /\ RawIs(t, a, i)
             /\ stage[t] = "scatter" \/ a.dirty => StoresTo(t, (a.addr + i) \div PageSize)
  <2>1. /\ a.addr + i \in 0 .. (Bytes - 1)
        /\ Crosses(a) /\ i >= InFirstPage(a) =>
              /\ (a.addr + i) \div PageSize = (a.addr + InFirstPage(a)) \div PageSize
              /\ (a.addr + i) % PageSize
                   = ((a.addr + InFirstPage(a)) % PageSize) + i - InFirstPage(a)
        /\ ~(Crosses(a) /\ i >= InFirstPage(a)) =>
              /\ (a.addr + i) \div PageSize = a.addr \div PageSize
              /\ (a.addr + i) % PageSize = (a.addr % PageSize) + i
    BY ByteOfPart
  <2>2. (a.addr + i) % PageSize \in Offsets
    BY <2>1, ByteAt
  <2>3. CASE Crosses(a) /\ i >= InFirstPage(a)
    <3>1. 2 \in 1 .. Len(at[t]) /\ Parts(a)[2] = a.addr + InFirstPage(a)
      BY <1>2, <2>3
    <3>2. /\ at[t][2] \in [f : Frames, o : Offsets]
          /\ at[t][2].o = (a.addr + InFirstPage(a)) % PageSize
          /\ cache[at[t][2].f] = (a.addr + InFirstPage(a)) \div PageSize
          /\ stage[t] = "scatter" \/ a.dirty =>
               StoresTo(t, (a.addr + InFirstPage(a)) \div PageSize)
      BY <3>1, LinkedPart
    <3>3. RawByte(t, a, i) = [f |-> at[t][2].f, o |-> at[t][2].o + i - InFirstPage(a)]
      BY <2>3 DEF RawByte
    <3> HIDE DEF a
    <3>4. RawByte(t, a, i).f = at[t][2].f /\ RawByte(t, a, i).o = (a.addr + i) % PageSize
      BY <2>1, <2>3, <3>2, <3>3
    <3> QED
      BY <2>1, <2>2, <2>3, <3>2, <3>3, <3>4 DEF RawIs
  <2>4. CASE ~(Crosses(a) /\ i >= InFirstPage(a))
    <3>1. 1 \in 1 .. Len(at[t]) /\ Parts(a)[1] = a.addr
      BY <1>2
    <3>2. /\ at[t][1] \in [f : Frames, o : Offsets]
          /\ at[t][1].o = a.addr % PageSize
          /\ cache[at[t][1].f] = a.addr \div PageSize
          /\ stage[t] = "scatter" \/ a.dirty => StoresTo(t, a.addr \div PageSize)
      BY <3>1, LinkedPart
    <3>3. RawByte(t, a, i) = [f |-> at[t][1].f, o |-> at[t][1].o + i]
      BY <2>4 DEF RawByte
    <3> HIDE DEF a
    <3>4. RawByte(t, a, i).f = at[t][1].f /\ RawByte(t, a, i).o = (a.addr + i) % PageSize
      BY <2>1, <2>4, <3>2, <3>3
    <3> QED
      BY <2>1, <2>2, <2>4, <3>2, <3>3, <3>4 DEF RawIs
  <2> QED
    BY <2>3, <2>4
<1>4. ASSUME NEW n \in BytesOf(a), stage[t] = "scatter" \/ a.dirty
      PROVE  StoresTo(t, n \div PageSize)
  <2>1. n - a.addr \in 0 .. (a.size - 1) /\ a.addr + (n - a.addr) = n
    BY <1>1 DEF BytesOf
  <2> QED
    BY <1>3, <1>4, <2>1, SMTT(30)
<1> QED
  BY <1>3, <1>4 DEF AllRaw

(* What is gathered are the bytes the program sees. *)
LEMMA GatheredBytes ==
  ASSUME LinkInv, NEW t \in Threads, NEW a \in ProgramAccesses, AllRaw(t, a)
  PROVE  Gathered(t, a) = [i \in 0 .. (a.size - 1) |-> MemByte(a.addr + i)]
<1>1. ASSUME NEW i \in 0 .. (a.size - 1)
      PROVE  data[RawByte(t, a, i).f][RawByte(t, a, i).o] = MemByte(a.addr + i)
  <2> DEFINE n == a.addr + i
             r == RawByte(t, a, i)
  <2>1. r.f \in Frames /\ r.o = n % PageSize /\ cache[r.f] = n \div PageSize
    BY DEF AllRaw, RawIs
  <2>2. n \div PageSize \in Pages
    BY ByteOfPart, ByteAt
  <2> HIDE DEF n, r
  <2>3. Mem[n \div PageSize] = data[r.f]
    BY <2>1, <2>2, MemAt DEF LinkInv
  <2> QED
    BY <2>1, <2>3 DEF MemByte, n, r
<1> QED
  BY <1>1 DEF Gathered

(* The bytes of an access, numbered from zero. *)
IsBytes(a, bytes) == DOMAIN bytes = 0 .. (a.size - 1)

(* A cell of the page cache, after the bytes were written to the access. *)
CellAfter(a, bytes, f, o) ==
    IF cache[f] \in Pages /\ PageSize * cache[f] + o \in BytesOf(a)
      THEN bytes[(PageSize * cache[f] + o) - a.addr] ELSE data[f][o]

(* What is scattered reaches the bytes of the access, and no others. *)
LEMMA ScatteredCells ==
  ASSUME LinkInv, NEW t \in Threads, NEW a \in ProgramAccesses, AllRaw(t, a),
         NEW bytes, IsBytes(a, bytes), NEW f \in Frames, NEW o \in Offsets
  PROVE  Scattered(t, a, bytes)[f][o] = CellAfter(a, bytes, f, o)
<1> DEFINE Here(i) == RawByte(t, a, i) = [f |-> f, o |-> o]
           n == PageSize * cache[f] + o
<1>1. Scattered(t, a, bytes)[f][o] =
        IF \E i \in 0 .. (a.size - 1) : Here(i)
          THEN bytes[CHOOSE i \in 0 .. (a.size - 1) : Here(i)] ELSE data[f][o]
  BY DEF Scattered, IsBytes
<1>2. a.addr \in Nat /\ a.size \in Nat \ {0}
  BY AccessFields
<1>3. ASSUME NEW i \in 0 .. (a.size - 1), Here(i)
      PROVE  cache[f] \in Pages /\ n = a.addr + i
  <2>1. cache[f] = (a.addr + i) \div PageSize /\ o = (a.addr + i) % PageSize
    <3>1. RawByte(t, a, i).f = f /\ RawByte(t, a, i).o = o
      BY <1>3
    <3> QED
      BY <3>1 DEF AllRaw, RawIs
  <2>2. /\ (a.addr + i) \div PageSize \in Pages
        /\ a.addr + i = PageSize * ((a.addr + i) \div PageSize) + ((a.addr + i) % PageSize)
    BY ByteOfPart, ByteAt
  <2> QED
    BY <2>1, <2>2
<1>4. ASSUME cache[f] \in Pages, n \in BytesOf(a)
      PROVE  n - a.addr \in 0 .. (a.size - 1) /\ Here(n - a.addr)
  <2> DEFINE i == n - a.addr
             r == RawByte(t, a, i)
  <2>1. n \in 0 .. (Bytes - 1) /\ n \div PageSize = cache[f] /\ n % PageSize = o
    BY <1>4, PageByte
  <2> HIDE DEF n
  <2>2. i \in 0 .. (a.size - 1) /\ a.addr + i = n
    BY <1>2, <1>4, <2>1 DEF BytesOf
  <2>3. RawIs(t, a, i)
    BY <2>2 DEF AllRaw
  <2> HIDE DEF i
  <2>4. r \in [f : Frames, o : Offsets] /\ r.o = o /\ cache[r.f] = cache[f]
    BY <2>1, <2>2, <2>3 DEF RawIs
  <2>5. r.f = f
    BY <1>4, <2>4, Conversions DEF LinkInv, CacheInjective
  <2> QED
    BY <2>2, <2>4, <2>5 DEF i
<1> HIDE DEF Here, n
<1> SUFFICES Scattered(t, a, bytes)[f][o] =
               IF cache[f] \in Pages /\ n \in BytesOf(a) THEN bytes[n - a.addr] ELSE data[f][o]
  BY DEF n, CellAfter
<1>5. CASE \E i \in 0 .. (a.size - 1) : Here(i)
  <2> DEFINE i == CHOOSE i \in 0 .. (a.size - 1) : Here(i)
  <2>1. i \in 0 .. (a.size - 1) /\ Here(i)
    BY <1>5
  <2> HIDE DEF i
  <2>2. cache[f] \in Pages /\ n = a.addr + i
    BY <1>3, <2>1
  <2>3. n \in BytesOf(a) /\ n - a.addr = i
    BY <1>2, <2>1, <2>2 DEF BytesOf
  <2>4. Scattered(t, a, bytes)[f][o] = bytes[i]
    BY <1>1, <1>5 DEF i
  <2> QED
    BY <2>2, <2>3, <2>4
<1>6. CASE ~ \E i \in 0 .. (a.size - 1) : Here(i)
  BY <1>1, <1>4, <1>6
<1> QED
  BY <1>5, <1>6


(* The memory the program sees after bytes were scattered to an access. *)
LEMMA ScatteredMemory ==
  ASSUME LinkInv, NEW t \in Threads, NEW a \in ProgramAccesses, AllRaw(t, a),
         NEW bytes, IsBytes(a, bytes),
         data' = Scattered(t, a, bytes), UNCHANGED <<cache, backing>>,
         NEW n \in 0 .. (Bytes - 1)
  PROVE  MemByte(n)' = IF n \in BytesOf(a) THEN bytes[n - a.addr] ELSE MemByte(n)
<1> DEFINE p == n \div PageSize
           o == n % PageSize
<1>1. p \in Pages /\ o \in Offsets /\ n = PageSize * p + o
  BY ByteAt
<1>2. CacheInjective /\ CacheInjective'
  BY DEF LinkInv, CacheInjective
<1>3. MemByte(n) = Mem[p][o] /\ MemByte(n)' = Mem'[p][o]
  BY DEF MemByte
<1> HIDE DEF p, o
<1>4. CASE \E f \in Frames : cache[f] = p
  <2>1. PICK f \in Frames : cache[f] = p
    BY <1>4
  <2>2. Mem[p] = data[f] /\ Mem'[p] = data'[f]
    BY <1>1, <1>2, <2>1, MemAt, MemAtNext
  <2>3. Scattered(t, a, bytes)[f][o] = CellAfter(a, bytes, f, o)
    BY <1>1, ScatteredCells
  <2> QED
    BY <1>1, <1>3, <2>1, <2>2, <2>3 DEF CellAfter
<1>5. CASE \A f \in Frames : cache[f] # p
  <2>1. Mem[p] = backing[p] /\ Mem'[p] = backing'[p]
    BY <1>1, <1>2, <1>5, MemAt, MemAtNext
  <2>2. n \notin BytesOf(a)
    <3> SUFFICES ASSUME n \in BytesOf(a) PROVE FALSE
      OBVIOUS
    <3>1. n - a.addr \in 0 .. (a.size - 1) /\ a.addr + (n - a.addr) = n
      BY AccessFields DEF BytesOf
    <3>2. RawIs(t, a, n - a.addr)
      BY <3>1 DEF AllRaw
    <3> QED
      BY <1>5, <3>1, <3>2 DEF RawIs, p
  <2> QED
    BY <1>3, <2>1, <2>2
<1> QED
  BY <1>4, <1>5

LEMMA ScatteredInv ==
  ASSUME LinkInv, NEW t \in Threads, NEW a \in ProgramAccesses, AllRaw(t, a),
         \A n \in BytesOf(a) : StoresTo(t, n \div PageSize),
         NEW bytes, IsBytes(a, bytes),
         \A i \in 0 .. (a.size - 1) : bytes[i] \in Values,
         data' = Scattered(t, a, bytes), UNCHANGED <<threadVars, cache, ref, dirty, backing>>
  PROVE  LinkInv'
<1>1. \A f \in Frames, o \in Offsets : data'[f][o] = CellAfter(a, bytes, f, o)
  <2>1. \A f \in Frames, o \in Offsets :
          Scattered(t, a, bytes)[f][o] = CellAfter(a, bytes, f, o)
    BY ScatteredCells
  <2> QED
    BY <2>1
<1>2. DOMAIN data' = Frames /\ \A f \in Frames : data'[f] = [o \in Offsets |-> data'[f][o]]
  BY DEF Scattered
<1>3. data \in [Frames -> [Offsets -> Values]]
  BY DEF LinkInv, TypeOK
<1>4. \A n \in BytesOf(a) : n - a.addr \in 0 .. (a.size - 1)
  BY AccessFields DEF BytesOf
<1>5. data' \in [Frames -> [Offsets -> Values]]
  <2>1. \A f \in Frames, o \in Offsets : data'[f][o] \in Values
    BY <1>1, <1>3, <1>4 DEF CellAfter
  <2>2. data' = [f \in Frames |-> data'[f]]
    BY <1>2 DEF Scattered
  <2> QED
    BY <1>2, <2>1, <2>2
<1>6. ASSUME NEW f \in Frames, data'[f] # data[f]
      PROVE  StoresTo(t, cache[f])
  <2>1. data[f] = [o \in Offsets |-> data[f][o]]
    BY <1>3
  <2>2. PICK o \in Offsets : data'[f][o] # data[f][o]
    BY <1>2, <1>6, <2>1
  <2>3. cache[f] \in Pages /\ PageSize * cache[f] + o \in BytesOf(a)
    BY <1>1, <2>2 DEF CellAfter
  <2>4. (PageSize * cache[f] + o) \div PageSize = cache[f]
    BY <2>3, PageByte
  <2> QED
    BY <2>3, <2>4
<1> QED
  BY <1>5, <1>6, WrittenInv


---------------------------------------------------------------------------
(* What a step of one thread leaves alone *)

SameFor(u) ==
    /\ stage'[u] = stage[u] /\ acc'[u] = acc[u] /\ at'[u] = at[u] /\ buf'[u] = buf[u]
    /\ pending'[u] = pending[u] /\ back'[u] = back[u] /\ seen'[u] = seen[u]
    /\ tlb'[u] = tlb[u] /\ pc'[u] = pc[u] /\ req'[u] = req[u]

FlatKept(a) == \A n \in BytesOf(a) : flat'[n] = flat[n]

OthersSame(t) ==
    \A u \in Threads \ {t} : SameFor(u) /\ (stage[u] # "idle" => FlatKept(acc[u]))

LEMMA FlatBytesKept ==
  ASSUME NEW a \in ProgramAccesses, FlatKept(a)
  PROVE  [i \in 0 .. (a.size - 1) |-> flat'[a.addr + i]] = FlatBytes(a)
<1>1. a.addr \in Nat /\ a.size \in Nat
  BY AccessFields
<1>2. \A i \in 0 .. (a.size - 1) : a.addr + i \in BytesOf(a)
  BY <1>1 DEF BytesOf
<1>3. \A i \in 0 .. (a.size - 1) : flat'[a.addr + i] = flat[a.addr + i]
  BY <1>2 DEF FlatKept
<1> QED
  BY <1>3 DEF FlatBytes

LEMMA BytesCurrentKept ==
  ASSUME NEW u \in Threads, StageInv(u), BytesCurrent(u),
         stage'[u] = stage[u], acc'[u] = acc[u], buf'[u] = buf[u], seen'[u] = seen[u],
         stage[u] # "idle" => FlatKept(acc[u])
  PROVE  BytesCurrent(u)'
<1>1. CASE stage[u] = "idle"
  BY <1>1 DEF BytesCurrent
<1>2. CASE stage[u] # "idle"
  <2>1. acc[u] \in ProgramAccesses
    BY <1>2 DEF StageInv
  <2>2. FlatBytes(acc[u])' = FlatBytes(acc[u])
    <3>1. FlatBytes(acc[u])' = [i \in 0 .. (acc[u].size - 1) |-> flat'[acc[u].addr + i]]
      BY DEF FlatBytes
    <3> QED
      BY <1>2, <2>1, <3>1, FlatBytesKept
  <2>3. Crosses(acc[u])' = Crosses(acc[u])
    BY DEF Crosses
  <2> QED
    BY <2>2, <2>3 DEF BytesCurrent
<1> QED
  BY <1>1, <1>2

LEMMA OthersKept ==
  ASSUME NEW u \in Threads, SameFor(u), stage[u] # "idle" => FlatKept(acc[u]),
         StageInv(u), PartsStay(u), BytesCurrent(u)
  PROVE  StageInv(u)' /\ PartsStay(u)' /\ BytesCurrent(u)'
<1> USE DEF SameFor
<1>1. /\ Parts(acc[u])' = Parts(acc[u]) /\ Crosses(acc[u])' = Crosses(acc[u])
      /\ Current(u)' = Current(u) /\ NextPart(u)' = NextPart(u)
      /\ AllLinked(u)' = AllLinked(u)
  BY DEF Parts, Crosses, InFirstPage, Current, NextPart, AllLinked
<1>2. RequestOf(u)' = RequestOf(u) /\ Counted(u)' = Counted(u)
  BY <1>1 DEF RequestOf, Counted
<1>3. StageInv(u)'
  BY <1>1, <1>2 DEF StageInv
<1>4. PartsStay(u)'
  BY <1>1, <1>2 DEF PartsStay
<1> QED
  BY <1>3, <1>4, BytesCurrentKept

LEMMA StepGood ==
  ASSUME CrossGood, NEW t \in Threads, OthersSame(t), LinkInv', CrossTypes',
         StageInv(t)', PartsStay(t)', BytesCurrent(t)', NoConflicts', MemCurrent'
  PROVE  CrossGood'
<1>1. ASSUME NEW u \in Threads, u # t
      PROVE  StageInv(u)' /\ PartsStay(u)' /\ BytesCurrent(u)'
  <2>1. StageInv(u) /\ PartsStay(u) /\ BytesCurrent(u)
    BY DEF CrossGood
  <2>2. SameFor(u) /\ (stage[u] # "idle" => FlatKept(acc[u]))
    BY <1>1 DEF OthersSame
  <2> QED
    BY <2>1, <2>2, OthersKept
<1>2. \A u \in Threads : StageInv(u)' /\ PartsStay(u)' /\ BytesCurrent(u)'
  BY <1>1
<1> QED
  BY <1>2 DEF CrossGood

(* A thread that is done accesses nothing. *)
LEMMA NoConflictsKept ==
  ASSUME NoConflicts, NEW t \in Threads, stage'[t] # "idle" => stage[t] # "idle",
         acc' = acc, \A u \in Threads \ {t} : stage'[u] = stage[u]
  PROVE  NoConflicts'
<1>1. \A u, v \in Threads : Conflict(acc[u], acc[v])' = Conflict(acc[u], acc[v])
  BY DEF Conflict, BytesOf
<1> QED
  BY <1>1 DEF NoConflicts

LEMMA MemKept ==
  ASSUME MemCurrent, Mem' = Mem, flat' = flat, acc' = acc,
         \A u \in Threads :
           stage[u] \in {"used", "scatter"} /\ acc[u].dirty /\ Crosses(acc[u]) =>
                stage'[u] \in {"used", "scatter"}
  PROVE  MemCurrent'
<1>1. \A n : InBuffer(n) => InBuffer(n)'
  BY DEF InBuffer, BytesOf, Crosses
<1> QED
  BY <1>1 DEF MemCurrent, MemByte


(* Linking does not touch the bytes of an access, nor what it has done so   *)
(* far: the types and the rest of the invariant stay.                      *)
LEMMA LinkKeeps ==
  ASSUME CrossGood, NEW t \in Threads,
         UNCHANGED <<stage, acc, at, buf, pending, back, seen, flat>>, Mem' = Mem,
         \A u \in Threads \ {t} : tlb'[u] = tlb[u] /\ pc'[u] = pc[u] /\ req'[u] = req[u],
         LinkInv', StageInv(t)', PartsStay(t)'
  PROVE  CrossGood'
<1>1. OthersSame(t)
  BY DEF OthersSame, SameFor, FlatKept
<1>2. CrossTypes'
  BY DEF CrossGood, CrossTypes
<1>3. BytesCurrent(t)'
  BY BytesCurrentKept DEF CrossGood, FlatKept
<1>4. NoConflicts'
  BY NoConflictsKept DEF CrossGood
<1>5. MemCurrent'
  BY MemKept DEF CrossGood
<1> QED
  BY <1>1, <1>2, <1>3, <1>4, <1>5, StepGood

LEMMA AtIsSeq ==
  ASSUME CrossTypes, NEW t \in Threads
  PROVE  Len(at[t]) \in Nat /\ \A i \in 1 .. Len(at[t]) : at[t][i] \in [f : Frames, o : Offsets]
<1> DEFINE Places == [f : Frames, o : Offsets]
<1>1. at[t] \in Seq(Places)
  BY DEF CrossTypes
<1> HIDE DEF Places
<1>2. Len(at[t]) \in Nat /\ \A i \in 1 .. Len(at[t]) : at[t][i] \in Places
  BY <1>1
<1> QED
  BY <1>2 DEF Places

(* A part is an address of the storage area. *)
LEMMA PartIsRequest ==
  ASSUME CrossGood, NEW t \in Threads, stage[t] \in {"link", "scatter"}, ~AllLinked(t)
  PROVE  /\ Current(t) = acc[t] /\ acc[t] \in ProgramAccesses
         /\ Len(at[t]) \in Nat /\ Len(at[t]) + 1 \in 1 .. Len(Parts(acc[t]))
         /\ NextPart(t) \in 0 .. (Bytes - 1)
         /\ RequestOf(t) \in Accesses
         /\ RequestOf(t).page = NextPart(t) \div PageSize
         /\ RequestOf(t).off = NextPart(t) % PageSize
         /\ stage[t] = "scatter" \/ acc[t].dirty => RequestOf(t).dirty
<1>1. Current(t) = acc[t] /\ acc[t] \in ProgramAccesses /\ Len(at[t]) <= Len(Parts(acc[t]))
  BY DEF CrossGood, StageInv, Current
<1>2. Len(at[t]) \in Nat
  BY AtIsSeq DEF CrossGood
<1>3. Len(at[t]) # Len(Parts(acc[t])) /\ Len(Parts(acc[t])) \in Nat
  BY <1>1, PartsOf DEF AllLinked
<1>4. Len(at[t]) + 1 \in 1 .. Len(Parts(acc[t]))
  BY <1>1, <1>2, <1>3
<1>5. NextPart(t) \in 0 .. (Bytes - 1)
  <2>1. \A i \in 1 .. Len(Parts(acc[t])) : Parts(acc[t])[i] \in 0 .. (Bytes - 1)
    BY <1>1, PartsOf
  <2> QED
    BY <1>1, <1>4, <2>1 DEF NextPart
<1>6. NextPart(t) \div PageSize \in Pages /\ NextPart(t) % PageSize \in Offsets
  BY <1>5, ByteAt
<1>7. acc[t].dirty \in BOOLEAN
  BY <1>1, AccessFields
<1>8. RequestOf(t) \in Accesses
  BY <1>6, <1>7, CrossConstantsOK DEF RequestOf
<1> QED
  BY <1>1, <1>2, <1>4, <1>5, <1>8 DEF RequestOf


---------------------------------------------------------------------------
(* The steps of a link *)

LEMMA PageFaultGood ==
  ASSUME CrossGood, NEW t \in Threads, PageFault(t)
  PROVE  CrossGood'
<1> DEFINE r == RequestOf(t)
<1>1. /\ stage[t] \in {"link", "scatter"} /\ ~AllLinked(t)
      /\ LinkHit(t, r) \/ LinkMiss(t, r)
      /\ UNCHANGED crossVars
  BY DEF PageFault
<1>2. /\ r \in Accesses /\ r.page \in Pages
  <2>1. r \in Accesses
    BY <1>1, PartIsRequest
  <2> QED
    BY <2>1, AccessesOK
<1>3. LinkInv /\ TypeOK /\ StageInv(t) /\ PartsStay(t)
  BY DEF CrossGood, LinkInv
<1>4. r' = r
  BY <1>1 DEF crossVars, RequestOf, NextPart, Current, Parts, Crosses, InFirstPage
<1> HIDE DEF r
<1>5. LinkInv'
  BY <1>1, <1>2, <1>3, LinkHitInv, LinkMissInv
<1>6. UNCHANGED lstoreVars /\ pc[t] = "idle" /\ pc' = [pc EXCEPT ![t] = pc'[t]]
      /\ pc'[t] # "new" /\ pc'[t] # "insert" /\ req' = [req EXCEPT ![t] = r]
  BY <1>1, <1>3 DEF LinkHit, LinkMiss, TypeOK, lstoreVars
<1>7. \A u \in Threads \ {t} : pc'[u] = pc[u] /\ req'[u] = req[u]
  BY <1>3, <1>6 DEF TypeOK
<1>8. /\ \A u \in Threads \ {t} : tlb'[u] = tlb[u]
      /\ \A i \in Slots : /\ tlb'[t][i].bs = tlb[t][i].bs /\ tlb'[t][i].epc = tlb[t][i].epc
                          /\ tlb[t][i].dirty => tlb'[t][i].dirty
  <2>1. CASE LinkMiss(t, r)
    BY <2>1 DEF LinkMiss
  <2>2. CASE LinkHit(t, r)
    <3> DEFINE h == FirstHit(t, r.page)
    <3>1. tlb' = [tlb EXCEPT ![t][h].dirty = tlb[t][h].dirty \/ r.dirty]
      BY <2>2 DEF LinkHit
    <3>2. h \in Slots
      BY <1>2, <1>3, <2>2, LookupFinds DEF LinkHit
    <3> HIDE DEF h
    <3> QED
      BY <1>3, <3>1, <3>2 DEF TypeOK
  <2> QED
    BY <1>1, <2>1, <2>2
<1>9. Counted(t)' = Counted(t)
  BY <1>3, <1>6, <1>8 DEF Counted
<1>10. PartsStay(t)'
  <2>1. Parts(acc[t])' = Parts(acc[t]) /\ UNCHANGED <<at, stage, acc>>
    BY <1>1 DEF crossVars, Parts, Crosses, InFirstPage
  <2>2. Counted(t) \subseteq Slots
    BY DEF Counted
  <2> QED
    BY <1>3, <1>8, <1>9, <2>1, <2>2 DEF PartsStay
<1>11. StageInv(t)'
  <2>1. UNCHANGED <<stage, acc, at, pending, back, seen>>
    BY <1>1 DEF crossVars
  <2>2. /\ AllLinked(t)' = AllLinked(t) /\ Parts(acc[t])' = Parts(acc[t])
        /\ Crosses(acc[t])' = Crosses(acc[t])
    BY <2>1 DEF AllLinked, Current, Parts, Crosses, InFirstPage
  <2>3. req'[t] = r /\ RequestOf(t)' = r
    <3>1. req'[t] = r
      BY <1>3, <1>6 DEF TypeOK
    <3>2. RequestOf(t)' = r
      BY <1>4 DEF r
    <3> QED
      BY <3>1, <3>2
  <2> QED
    BY <1>1, <1>3, <2>1, <2>2, <2>3 DEF StageInv
<1>12. Mem' = Mem
  BY <1>6, MemSame DEF lstoreVars
<1>13. UNCHANGED <<stage, acc, at, buf, pending, back, seen, flat>>
  BY <1>1 DEF crossVars
<1> QED
  BY <1>5, <1>7, <1>8, <1>10, <1>11, <1>12, <1>13, LinkKeeps


(* The lstore's steps neither change the memory nor lose a part, but for a *)
(* drop of the first part's page.                                          *)
LEMMA PageFaultStepGood ==
  ASSUME LstoreMod = IndexMod, CrossGood, NEW t \in Threads, PageFaultStep(t), ~slipped'
  PROVE  CrossGood'
<1>1. /\ LinkStep(t)
      /\ UNCHANGED <<stage, acc, at, buf, pending, back, seen, flat>>
      /\ ~(pc[t] = "drop" /\ at[t] # <<>>
            /\ tlb[t][TLBSize].bs = Parts(Current(t))[1] \div PageSize)
  BY DEF PageFaultStep
<1>2. LinkInv /\ TypeOK /\ StageInv(t) /\ PartsStay(t)
  BY DEF CrossGood, LinkInv
<1>3. pc[t] \in {"fault", "drop", "insert"} /\ req' = req /\ pc'[t] # "new"
  BY <1>1, <1>2 DEF LinkStep, FaultResident, FaultLoad, Drop, Insert, TypeOK
<1>4. LinkInv'
  BY <1>1, <1>2, FaultResidentInv, FaultLoadInv, DropInv, InsertInv DEF LinkStep
<1>5. \A u \in Threads \ {t} : tlb'[u] = tlb[u] /\ pc'[u] = pc[u] /\ req'[u] = req[u]
  BY <1>1, <1>2 DEF LinkStep, FaultResident, FaultLoad, Drop, Insert, TypeOK
<1>6. Mem' = Mem
  <2>1. CASE FaultLoad(t)
    BY <1>2, <1>4, <2>1, FaultKeepsMem
  <2>2. CASE ~FaultLoad(t)
    BY <1>1, <2>2, MemSame DEF LinkStep, FaultResident, Drop, Insert, lstoreVars
  <2> QED
    BY <2>1, <2>2
<1>7. stage[t] \in {"link", "scatter"} /\ ~AllLinked(t) /\ req[t] = RequestOf(t)
  BY <1>2, <1>3 DEF StageInv
<1>8. /\ Current(t) = acc[t] /\ acc[t] \in ProgramAccesses
      /\ Len(at[t]) \in Nat /\ Len(at[t]) + 1 \in 1 .. Len(Parts(acc[t]))
  BY <1>7, PartIsRequest
<1>9. StageInv(t)'
  <2>1. /\ AllLinked(t)' = AllLinked(t) /\ Parts(acc[t])' = Parts(acc[t])
        /\ Crosses(acc[t])' = Crosses(acc[t]) /\ RequestOf(t)' = RequestOf(t)
    BY <1>1 DEF AllLinked, RequestOf, NextPart, Current, Parts, Crosses, InFirstPage
  <2> QED
    BY <1>1, <1>2, <1>3, <1>7, <2>1 DEF StageInv
<1>10. \A i \in 1 .. Len(at[t]) : i = 1 /\ at[t] # <<>>
  <2> DEFINE n == Len(at[t])
             m == Len(Parts(acc[t]))
  <2>1. m = 1 \/ m = 2
    BY <1>8, PartsOf
  <2>2. n \in Nat /\ n + 1 \in 1 .. m /\ (at[t] = <<>> => n = 0)
    BY <1>8
  <2> HIDE DEF n, m
  <2>3. \A i \in 1 .. n : i = 1 /\ n # 0
    BY <2>1, <2>2
  <2> QED
    BY <2>2, <2>3 DEF n
<1>11. PartsStay(t)'
  <2> SUFFICES ASSUME NEW i \in 1 .. Len(at[t]), NEW j \in Counted(t),
                      tlb[t][j].bs = Parts(acc[t])[i] \div PageSize
               PROVE  \E k \in Counted(t)' : tlb'[t][k] = tlb[t][j]
    <3>1. Parts(acc[t])' = Parts(acc[t]) /\ UNCHANGED <<at, stage, acc>>
      BY <1>1 DEF Parts, Crosses, InFirstPage
    <3> QED
      BY <1>2, <3>1 DEF PartsStay
  <2>1. CASE FaultResident(t) \/ FaultLoad(t)
    <3>1. tlb' = tlb /\ pc[t] = "fault" /\ pc'[t] = "drop"
      BY <1>2, <2>1 DEF FaultResident, FaultLoad, TypeOK
    <3>2. Counted(t)' = Counted(t)
      BY <3>1 DEF Counted
    <3> QED
      BY <3>1, <3>2
  <2>2. CASE Drop(t)
    <3>1. tlb' = tlb /\ pc[t] = "drop" /\ pc'[t] = "insert"
      BY <1>2, <2>2 DEF Drop, TypeOK
    <3>2. Counted(t)' = Counted(t) \ {TLBSize}
      BY <3>1 DEF Counted
    <3>3. tlb[t][TLBSize].bs # Parts(acc[t])[1] \div PageSize
      BY <1>1, <1>8, <1>10, <3>1
    <3>4. j # TLBSize
      BY <1>10, <3>3
    <3> QED
      BY <3>1, <3>2, <3>4
  <2>3. CASE Insert(t)
    <3>1. /\ pc[t] = "insert" /\ pc'[t] = "linked"
          /\ tlb'[t] = [k \in Slots |->
               IF k = 1 THEN Entry(AsSigned(req[t].page), EpcIndex(res[t]), req[t].dirty)
                        ELSE tlb[t][k - 1]]
      BY <1>2, <2>3 DEF Insert, TypeOK
    <3>2. j \in Slots /\ j # TLBSize /\ j + 1 \in Slots /\ j + 1 # 1 /\ (j + 1) - 1 = j
      BY <3>1, ConstantsOK DEF Counted, Slots
    <3>3. tlb'[t][j + 1] = tlb[t][j]
      BY <3>1, <3>2
    <3>4. j + 1 \in Counted(t)'
      BY <3>1, <3>2, <3>3 DEF Counted
    <3> QED
      BY <3>3, <3>4
  <2> QED
    BY <1>1, <2>1, <2>2, <2>3 DEF LinkStep
<1> QED
  BY <1>1, <1>4, <1>5, <1>6, <1>9, <1>11, LinkKeeps

LEMMA PageFaultedGood ==
  ASSUME CrossGood, NEW t \in Threads, PageFaulted(t)
  PROVE  CrossGood'
<1> DEFINE part == [f |-> res[t], o |-> req[t].off]
<1>1. /\ pc[t] = "linked" /\ at' = [at EXCEPT ![t] = Append(at[t], part)]
      /\ Return(t) /\ UNCHANGED <<tlb, val, lstoreVars>>
      /\ UNCHANGED <<stage, acc, buf, pending, back, seen, flat>>
  BY DEF PageFaulted
<1>2. LinkInv /\ TypeOK /\ CrossTypes /\ StageInv(t) /\ PartsStay(t)
  BY DEF CrossGood, LinkInv
<1>3. stage[t] \in {"link", "scatter"} /\ ~AllLinked(t) /\ req[t] = RequestOf(t)
  BY <1>1, <1>2 DEF StageInv
<1>4. /\ Current(t) = acc[t] /\ acc[t] \in ProgramAccesses
      /\ Len(at[t]) \in Nat /\ Len(at[t]) + 1 \in 1 .. Len(Parts(acc[t]))
      /\ NextPart(t) \in 0 .. (Bytes - 1)
      /\ RequestOf(t) \in Accesses
      /\ RequestOf(t).page = NextPart(t) \div PageSize
      /\ RequestOf(t).off = NextPart(t) % PageSize
      /\ stage[t] = "scatter" \/ acc[t].dirty => RequestOf(t).dirty
  BY <1>3, PartIsRequest, <1>2
<1>5. PICK j \in Counted(t) : /\ tlb[t][j].bs = req[t].page
                              /\ tlb[t][j].epc = res[t]
                              /\ res[t] \in Frames
                              /\ req[t].dirty => tlb[t][j].dirty
  BY <1>1, <1>2, LinkedCounted
<1>6. part \in [f : Frames, o : Offsets]
  <2>1. NextPart(t) % PageSize \in Offsets
    BY <1>4, ByteAt
  <2> QED
    BY <1>3, <1>4, <1>5, <2>1
<1>7. part.f = res[t] /\ part.o = NextPart(t) % PageSize
  BY <1>3, <1>4
<1> HIDE DEF part
<1>8. LinkInv'
  BY <1>1, <1>2, ReturnInv
<1>9. CrossTypes'
  <2> DEFINE Places == [f : Frames, o : Offsets]
  <2>1. at \in [Threads -> Seq(Places)] /\ part \in Places
    BY <1>2, <1>6 DEF CrossTypes
  <2> HIDE DEF Places
  <2>2. at' \in [Threads -> Seq(Places)]
    BY <1>1, <2>1
  <2>3. at' \in [Threads -> Seq([f : Frames, o : Offsets])]
    BY <2>2 DEF Places
  <2> QED
    BY <1>1, <1>2, <2>3 DEF CrossTypes
<1>10. /\ \A u \in Threads \ {t} : at'[u] = at[u] /\ pc'[u] = pc[u] /\ req'[u] = req[u]
       /\ at'[t] = Append(at[t], part) /\ pc'[t] = "idle"
  <2>1. at = [u \in Threads |-> at[u]]
    BY <1>2 DEF CrossTypes
  <2> QED
    BY <1>1, <1>2, <2>1 DEF Return, TypeOK
<1>11. /\ Len(at'[t]) = Len(at[t]) + 1 /\ at'[t][Len(at[t]) + 1] = part
       /\ \A i \in 1 .. Len(at[t]) : at'[t][i] = at[t][i]
  <2> DEFINE Places == [f : Frames, o : Offsets]
  <2>1. at[t] \in Seq(Places) /\ part \in Places
    BY <1>2, <1>6 DEF CrossTypes
  <2> HIDE DEF Places
  <2> QED
    BY <1>10, <2>1
<1>12. Counted(t)' = Counted(t)
  BY <1>1, <1>10 DEF Counted
<1>13. /\ Parts(acc[t])' = Parts(acc[t]) /\ Crosses(acc[t])' = Crosses(acc[t])
       /\ Current(t)' = acc[t]
  BY <1>1, <1>4 DEF Parts, Crosses, InFirstPage, Current
<1>14. StageInv(t)'
  BY <1>1, <1>2, <1>3, <1>4, <1>10, <1>11, <1>13 DEF StageInv
<1>15. PartsStay(t)'
  <2> SUFFICES ASSUME NEW i \in 1 .. (Len(at[t]) + 1)
               PROVE  \E k \in Counted(t) :
                        /\ tlb[t][k].bs = Parts(acc[t])[i] \div PageSize
                        /\ tlb[t][k].epc = at'[t][i].f
                        /\ at'[t][i].o = Parts(acc[t])[i] % PageSize
                        /\ stage[t] = "scatter" \/ acc[t].dirty => tlb[t][k].dirty
    BY <1>1, <1>11, <1>12, <1>13 DEF PartsStay
  <2>1. CASE i \in 1 .. Len(at[t])
    BY <1>2, <1>11, <2>1 DEF PartsStay
  <2>2. CASE i = Len(at[t]) + 1
    <3>1. Parts(acc[t])[i] = NextPart(t)
      BY <1>4, <2>2 DEF NextPart
    <3> QED
      BY <1>3, <1>4, <1>5, <1>7, <1>11, <2>2, <3>1
  <2> QED
    BY <1>4, <2>1, <2>2
<1>16. OthersSame(t)
  BY <1>1, <1>10 DEF OthersSame, SameFor, FlatKept
<1>17. BytesCurrent(t)'
  BY <1>1, BytesCurrentKept DEF CrossGood, FlatKept
<1>18. NoConflicts' /\ MemCurrent'
  <2>1. Mem' = Mem
    BY <1>1, MemSame DEF lstoreVars
  <2> QED
    BY <1>1, <2>1, NoConflictsKept, MemKept DEF CrossGood
<1> QED
  BY <1>8, <1>9, <1>14, <1>15, <1>16, <1>17, <1>18, StepGood


---------------------------------------------------------------------------
(* The steps of an access *)

(* The steps that leave the links and the memory alone: the types and the  *)
(* links' invariant hold after any of them that keeps the types of what it *)
(* changes.                                                                *)
LEMMA VarsSame ==
  ASSUME CrossGood, UNCHANGED vars
  PROVE  LinkInv' /\ Mem' = Mem
<1>1. LinkInv /\ UNCHANGED <<threadVars, cache, ref, dirty, backing, data>>
  BY DEF CrossGood, vars, lstoreVars
<1>2. data' \in [Frames -> [Offsets -> Values]]
  BY <1>1 DEF LinkInv, TypeOK
<1>3. LinkInv'
  BY <1>1, <1>2, WrittenInv
<1> QED
  BY <1>1, <1>3, MemSame

LEMMA BeginGood ==
  ASSUME CrossGood, NEW t \in Threads, NEW a \in Program[t], Begin(t, a)
  PROVE  CrossGood'
<1>1. /\ stage[t] = "idle"
      /\ \A u \in Threads \ {t} : stage[u] # "idle" => ~Conflict(a, acc[u])
      /\ stage' = [stage EXCEPT ![t] = "link"] /\ acc' = [acc EXCEPT ![t] = a]
      /\ seen' = [seen EXCEPT ![t] = <<>>]
      /\ UNCHANGED <<vars, at, buf, pending, back, flat>>
  BY DEF Begin
<1>2. CrossTypes /\ StageInv(t) /\ NoConflicts /\ MemCurrent
  BY DEF CrossGood
<1>3. a \in ProgramAccesses
  BY ProgramOK
<1>4. /\ stage'[t] = "link" /\ acc'[t] = a /\ seen'[t] = <<>>
      /\ \A u \in Threads \ {t} :
            stage'[u] = stage[u] /\ acc'[u] = acc[u] /\ seen'[u] = seen[u]
  BY <1>1, <1>2 DEF CrossTypes
<1>5. LinkInv' /\ Mem' = Mem
  BY <1>1, VarsSame
<1>6. OthersSame(t)
  BY <1>1, <1>4 DEF OthersSame, SameFor, FlatKept, vars, threadVars
<1>7. CrossTypes'
  <2>1. stage' \in [Threads -> {"idle", "link", "use", "used", "scatter"}]
    BY <1>1, <1>2 DEF CrossTypes
  <2>2. acc' \in [Threads -> ProgramAccesses \cup {NoAccess}]
    BY <1>1, <1>2, <1>3 DEF CrossTypes
  <2>3. seen' = [u \in Threads |-> seen'[u]]
    BY <1>1, <1>2 DEF CrossTypes
  <2> QED
    BY <1>1, <1>2, <2>1, <2>2, <2>3 DEF CrossTypes
<1>8. at'[t] = <<>> /\ pending'[t] = NoAccess /\ pc'[t] = "idle"
  BY <1>1, <1>2 DEF StageInv, vars, threadVars
<1>9. Len(at'[t]) = 0 /\ Len(Parts(a)) \in {1, 2}
  BY <1>3, <1>8, PartsOf
<1>10. StageInv(t)'
  BY <1>3, <1>4, <1>8, <1>9 DEF StageInv
<1>11. PartsStay(t)'
  BY <1>9 DEF PartsStay
<1>12. BytesCurrent(t)'
  BY <1>4 DEF BytesCurrent
<1>13. NoConflicts'
  <2> SUFFICES ASSUME NEW u \in Threads, NEW v \in Threads, u # v,
                      stage'[u] # "idle", stage'[v] # "idle"
               PROVE  ~Conflict(acc'[u], acc'[v])
    BY DEF NoConflicts, Conflict, BytesOf
  <2>1. \A b, c : Conflict(b, c) <=> Conflict(c, b)
    BY DEF Conflict
  <2>2. CASE u # t /\ v # t
    BY <1>2, <1>4, <2>2 DEF NoConflicts
  <2>3. CASE u = t
    BY <1>1, <1>4, <2>3
  <2>4. CASE v = t
    BY <1>1, <1>4, <2>1, <2>4
  <2> QED
    BY <2>2, <2>3, <2>4
<1>14. MemCurrent'
  <2>1. \A n : InBuffer(n) => InBuffer(n)'
    <3> SUFFICES ASSUME NEW n, NEW u \in Threads, stage[u] \in {"used", "scatter"},
                        acc[u].dirty /\ Crosses(acc[u]) /\ n \in BytesOf(acc[u])
                 PROVE  InBuffer(n)'
      BY DEF InBuffer
    <3>1. stage'[u] = stage[u] /\ acc'[u] = acc[u]
      BY <1>1, <1>4
    <3> QED
      BY <3>1 DEF InBuffer, Crosses, BytesOf
  <2> QED
    BY <1>1, <1>2, <1>5, <2>1 DEF MemCurrent, MemByte
<1> QED
  BY <1>5, <1>6, <1>7, <1>10, <1>11, <1>12, <1>13, <1>14, StepGood


(* No other thread has bytes of the access in its buffer: the program has  *)
(* no data race.                                                           *)
LEMMA AccessSees ==
  ASSUME CrossGood, NEW t \in Threads, stage[t] \in {"link", "use"}, NEW n \in BytesOf(acc[t])
  PROVE  n \in 0 .. (Bytes - 1) /\ MemByte(n) = flat[n]
<1>1. acc[t] \in ProgramAccesses
  BY DEF CrossGood, StageInv
<1>2. n \in 0 .. (Bytes - 1)
  BY <1>1, AccessFields DEF BytesOf
<1>3. ~InBuffer(n)
  <2> SUFFICES ASSUME NEW u \in Threads, stage[u] \in {"used", "scatter"},
                      acc[u].dirty, n \in BytesOf(acc[u])
               PROVE  FALSE
    BY DEF InBuffer
  <2>1. Conflict(acc[t], acc[u])
    BY DEF Conflict
  <2> QED
    BY <2>1 DEF CrossGood, NoConflicts
<1> QED
  BY <1>2, <1>3 DEF CrossGood, MemCurrent

LEMMA LinkedRaw ==
  ASSUME CrossGood, NEW t \in Threads, stage[t] \in {"link", "use", "scatter"}, AllLinked(t)
  PROVE  /\ acc[t] \in ProgramAccesses /\ AllRaw(t, acc[t])
         /\ stage[t] = "scatter" \/ acc[t].dirty =>
              \A n \in BytesOf(acc[t]) : StoresTo(t, n \div PageSize)
<1>1. acc[t] \in ProgramAccesses /\ Current(t) = acc[t]
  BY DEF CrossGood, StageInv, Current
<1>2. Len(at[t]) = Len(Parts(acc[t]))
  BY <1>1 DEF AllLinked
<1>3. LinkInv /\ CrossTypes /\ PartsStay(t)
  BY DEF CrossGood
<1> QED
  BY <1>1, <1>2, <1>3, RawBytes

LEMMA GatheredFlat ==
  ASSUME CrossGood, NEW t \in Threads, stage[t] \in {"link", "use"}, AllLinked(t)
  PROVE  Gathered(t, acc[t]) = FlatBytes(acc[t])
<1> DEFINE a == acc[t]
<1>1. a \in ProgramAccesses /\ AllRaw(t, a) /\ LinkInv
  BY LinkedRaw DEF CrossGood
<1>2. Gathered(t, a) = [i \in 0 .. (a.size - 1) |-> MemByte(a.addr + i)]
  BY <1>1, GatheredBytes
<1>3. \A i \in 0 .. (a.size - 1) : a.addr + i \in BytesOf(a)
  BY <1>1, AccessFields DEF BytesOf
<1>4. \A n \in BytesOf(a) : MemByte(n) = flat[n]
  BY AccessSees
<1> HIDE DEF a
<1>5. \A i \in 0 .. (a.size - 1) : MemByte(a.addr + i) = flat[a.addr + i]
  BY <1>3, <1>4
<1>6. Gathered(t, a) = FlatBytes(a)
  BY <1>2, <1>5 DEF FlatBytes
<1> QED
  BY <1>6 DEF a

LEMMA AtEmptied ==
  ASSUME CrossTypes, NEW t \in Threads, at' = [at EXCEPT ![t] = <<>>]
  PROVE  at' \in [Threads -> Seq([f : Frames, o : Offsets])]
<1> DEFINE Places == [f : Frames, o : Offsets]
<1>1. at \in [Threads -> Seq(Places)]
  BY DEF CrossTypes
<1> HIDE DEF Places
<1>2. at' \in [Threads -> Seq(Places)]
  BY <1>1
<1> QED
  BY <1>2 DEF Places

LEMMA LinkedGood ==
  ASSUME CrossGood, NEW t \in Threads, Linked(t)
  PROVE  CrossGood'
<1>1. /\ stage[t] = "link" /\ pc[t] = "idle" /\ AllLinked(t)
      /\ stage' = [stage EXCEPT ![t] = "use"]
      /\ IF Crosses(acc[t])
           THEN /\ buf' = [buf EXCEPT ![t] = Gathered(t, acc[t])]
                /\ pending' = [pending EXCEPT ![t] = acc[t]]
           ELSE UNCHANGED <<buf, pending>>
      /\ UNCHANGED <<vars, acc, at, back, seen, flat>>
  BY DEF Linked
<1>2. CrossTypes /\ StageInv(t) /\ PartsStay(t) /\ NoConflicts /\ MemCurrent
  BY DEF CrossGood
<1>3. acc[t] \in ProgramAccesses
  BY <1>1, <1>2 DEF StageInv
<1>4. /\ stage'[t] = "use"
      /\ \A u \in Threads \ {t} :
            stage'[u] = stage[u] /\ buf'[u] = buf[u] /\ pending'[u] = pending[u]
      /\ pending'[t] = IF Crosses(acc[t]) THEN acc[t] ELSE NoAccess
      /\ Crosses(acc[t]) => buf'[t] = Gathered(t, acc[t])
  <2>1. stage = [u \in Threads |-> stage[u]] /\ buf = [u \in Threads |-> buf[u]]
        /\ pending = [u \in Threads |-> pending[u]] /\ pending[t] = NoAccess
    BY <1>1, <1>2 DEF CrossTypes, StageInv
  <2> QED
    BY <1>1, <2>1
<1>5. LinkInv' /\ Mem' = Mem
  BY <1>1, VarsSame
<1>6. OthersSame(t)
  BY <1>1, <1>4 DEF OthersSame, SameFor, FlatKept, vars, threadVars
<1>7. CrossTypes'
  BY <1>1, <1>2 DEF CrossTypes
<1>8. /\ Crosses(acc[t])' = Crosses(acc[t]) /\ Parts(acc[t])' = Parts(acc[t])
      /\ AllLinked(t)'
  BY <1>1, <1>4 DEF Crosses, Parts, InFirstPage, AllLinked, Current
<1>9. seen'[t] = <<>> /\ pc'[t] = "idle" /\ at'[t] = at[t]
  BY <1>1, <1>2 DEF StageInv, vars, threadVars
<1>10. StageInv(t)'
  BY <1>1, <1>3, <1>4, <1>8, <1>9 DEF StageInv
<1>11. PartsStay(t)'
  <2>1. Counted(t)' = Counted(t) /\ tlb' = tlb
    BY <1>1 DEF Counted, vars, threadVars
  <2> QED
    BY <1>1, <1>2, <1>4, <1>8, <2>1 DEF PartsStay
<1>12. BytesCurrent(t)'
  <2>1. FlatBytes(acc[t])' = FlatBytes(acc[t])
    BY <1>1 DEF FlatBytes
  <2>2. Gathered(t, acc[t]) = FlatBytes(acc[t])
    BY <1>1, GatheredFlat
  <2> QED
    BY <1>1, <1>4, <1>8, <1>9, <2>1, <2>2 DEF BytesCurrent
<1>13. NoConflicts' /\ MemCurrent'
  <2>1. stage'[t] # "idle" => stage[t] # "idle"
    BY <1>1
  <2>2. NoConflicts'
    BY <1>1, <1>2, <1>4, <2>1, NoConflictsKept
  <2>3. MemCurrent'
    BY <1>1, <1>2, <1>4, <1>5, MemKept
  <2> QED
    BY <2>2, <2>3
<1> QED
  BY <1>5, <1>6, <1>7, <1>10, <1>11, <1>12, <1>13, StepGood

LEMMA LoadBytesGood ==
  ASSUME CrossGood, NEW t \in Threads, LoadBytes(t)
  PROVE  CrossGood'
<1>1. /\ stage[t] = "use" /\ ~acc[t].dirty
      /\ stage' = [stage EXCEPT ![t] = "used"]
      /\ seen' = [seen EXCEPT ![t] =
                    IF Crosses(acc[t]) THEN buf[t] ELSE Gathered(t, acc[t])]
      /\ at' = [at EXCEPT ![t] = <<>>]
      /\ UNCHANGED <<vars, acc, buf, pending, back, flat>>
  BY DEF LoadBytes
<1>2. /\ CrossTypes /\ StageInv(t) /\ NoConflicts /\ MemCurrent /\ BytesCurrent(t)
  BY DEF CrossGood
<1>3. acc[t] \in ProgramAccesses /\ AllLinked(t) /\ pc[t] = "idle"
  BY <1>1, <1>2 DEF StageInv
<1>4. /\ stage'[t] = "used" /\ at'[t] = <<>> /\ seen'[t] = FlatBytes(acc[t])
      /\ \A u \in Threads \ {t} :
            stage'[u] = stage[u] /\ at'[u] = at[u] /\ seen'[u] = seen[u]
  <2>1. stage = [u \in Threads |-> stage[u]] /\ at = [u \in Threads |-> at[u]]
        /\ seen = [u \in Threads |-> seen[u]]
    BY <1>1, <1>2 DEF CrossTypes
  <2>2. Gathered(t, acc[t]) = FlatBytes(acc[t])
    BY <1>1, <1>3, GatheredFlat
  <2>3. Crosses(acc[t]) => buf[t] = FlatBytes(acc[t])
    BY <1>1, <1>2 DEF BytesCurrent
  <2> QED
    BY <1>1, <2>1, <2>2, <2>3
<1>5. LinkInv' /\ Mem' = Mem
  BY <1>1, VarsSame
<1>6. OthersSame(t)
  BY <1>1, <1>4 DEF OthersSame, SameFor, FlatKept, vars, threadVars
<1>7. CrossTypes'
  <2>1. at' \in [Threads -> Seq([f : Frames, o : Offsets])]
    BY <1>1, <1>2, AtEmptied
  <2> QED
    BY <1>1, <1>2, <2>1 DEF CrossTypes
<1>8. Crosses(acc[t])' = Crosses(acc[t]) /\ pc'[t] = "idle"
  BY <1>1, <1>3 DEF Crosses, vars, threadVars
<1>9. StageInv(t)'
  BY <1>1, <1>2, <1>3, <1>4, <1>8 DEF StageInv
<1>10. PartsStay(t)'
  BY <1>4 DEF PartsStay
<1>11. BytesCurrent(t)'
  <2>1. FlatBytes(acc[t])' = FlatBytes(acc[t])
    BY <1>1 DEF FlatBytes
  <2> QED
    BY <1>1, <1>2, <1>4, <1>8, <2>1 DEF BytesCurrent
<1>12. NoConflicts' /\ MemCurrent'
  <2>1. stage'[t] # "idle" => stage[t] # "idle"
    BY <1>1
  <2>2. NoConflicts'
    BY <1>1, <1>2, <1>4, <2>1, NoConflictsKept
  <2>3. MemCurrent'
    BY <1>1, <1>2, <1>4, <1>5, MemKept
  <2> QED
    BY <2>2, <2>3
<1> QED
  BY <1>5, <1>6, <1>7, <1>9, <1>10, <1>11, <1>12, StepGood


(* What a store writes, and the flat memory after it. *)
LEMMA StoredBytes ==
  ASSUME NEW a \in ProgramAccesses, NEW v \in {0, 1}
  PROVE  /\ IsBytes(a, Stored(a, v))
         /\ \A i \in 0 .. (a.size - 1) : Stored(a, v)[i] \in Values
<1>1. /\ a.addr \in Nat /\ a.size \in Nat /\ a.addr + a.size <= Bytes /\ Bytes \in Nat
  BY AccessFields
<1>2. 0 .. (2 * Bytes - 1) \subseteq Values
  BY CrossConstantsOK
<1>3. \A i \in 0 .. (a.size - 1) : Stored(a, v)[i] = a.addr + i + v * Bytes
  BY DEF Stored
<1>4. \A i \in 0 .. (a.size - 1) : a.addr + i + v * Bytes \in 0 .. (2 * Bytes - 1)
  <2>1. CASE v = 0
    BY <1>1, <2>1
  <2>2. CASE v = 1
    BY <1>1, <2>2
  <2> QED
    BY <2>1, <2>2
<1> QED
  BY <1>2, <1>3, <1>4 DEF IsBytes, Stored

(* The flat memory after bytes were stored to an access. *)
FlatAfter(a, bytes) ==
    [n \in 0 .. (Bytes - 1) |-> IF n \in BytesOf(a) THEN bytes[n - a.addr] ELSE flat[n]]

LEMMA StoredFlat ==
  ASSUME CrossTypes, NEW a \in ProgramAccesses, NEW v \in {0, 1},
         flat' = FlatAfter(a, Stored(a, v))
  PROVE  /\ flat' \in [0 .. (Bytes - 1) -> Values]
         /\ [i \in 0 .. (a.size - 1) |-> flat'[a.addr + i]] = Stored(a, v)
         /\ \A n \in 0 .. (Bytes - 1) : n \notin BytesOf(a) => flat'[n] = flat[n]
<1>1. /\ a.addr \in Nat /\ a.size \in Nat /\ a.addr + a.size <= Bytes /\ Bytes \in Nat
  BY AccessFields
<1>2. /\ DOMAIN Stored(a, v) = 0 .. (a.size - 1)
      /\ \A i \in 0 .. (a.size - 1) : Stored(a, v)[i] \in Values
  BY StoredBytes DEF IsBytes
<1>3. flat \in [0 .. (Bytes - 1) -> Values]
  BY DEF CrossTypes
<1>4. \A n \in BytesOf(a) : n - a.addr \in 0 .. (a.size - 1)
  BY <1>1 DEF BytesOf
<1>5. flat' \in [0 .. (Bytes - 1) -> Values]
  BY <1>2, <1>3, <1>4 DEF FlatAfter
<1>6. ASSUME NEW i \in 0 .. (a.size - 1)
      PROVE  flat'[a.addr + i] = Stored(a, v)[i]
  <2>1. a.addr + i \in 0 .. (Bytes - 1) /\ a.addr + i \in BytesOf(a) /\ (a.addr + i) - a.addr = i
    BY <1>1 DEF BytesOf
  <2> QED
    BY <2>1 DEF FlatAfter
<1>7. Stored(a, v) = [i \in 0 .. (a.size - 1) |-> Stored(a, v)[i]]
  BY DEF Stored
<1>8. [i \in 0 .. (a.size - 1) |-> flat'[a.addr + i]] = Stored(a, v)
  BY <1>6, <1>7
<1> QED
  BY <1>5, <1>8 DEF FlatAfter


LEMMA StoreBytesGood ==
  ASSUME CrossGood, NEW t \in Threads, NEW v \in {0, 1}, StoreBytes(t, v)
  PROVE  CrossGood'
<1> DEFINE a == acc[t]
           bytes == Stored(a, v)
<1>1. /\ stage[t] = "use" /\ a.dirty
      /\ stage' = [stage EXCEPT ![t] = "used"]
      /\ IF Crosses(a) THEN buf' = [buf EXCEPT ![t] = bytes] /\ UNCHANGED data
                       ELSE data' = Scattered(t, a, bytes) /\ UNCHANGED buf
      /\ flat' = [n \in DOMAIN flat |->
                    IF n \in BytesOf(a) THEN bytes[n - a.addr] ELSE flat[n]]
      /\ at' = [at EXCEPT ![t] = <<>>]
      /\ UNCHANGED <<threadVars, cache, ref, dirty, backing, acc, pending, back, seen>>
  BY DEF StoreBytes, BytesOf
<1>2. /\ LinkInv /\ CrossTypes /\ StageInv(t) /\ NoConflicts /\ MemCurrent
  BY DEF CrossGood
<1>3. a \in ProgramAccesses /\ AllLinked(t) /\ pc[t] = "idle" /\ seen[t] = <<>>
  BY <1>1, <1>2 DEF StageInv
<1>4. AllRaw(t, a) /\ \A n \in BytesOf(a) : StoresTo(t, n \div PageSize)
  BY <1>1, <1>3, LinkedRaw
<1>5. IsBytes(a, bytes) /\ \A i \in 0 .. (a.size - 1) : bytes[i] \in Values
  BY <1>3, StoredBytes
<1>6. flat' = FlatAfter(a, bytes)
  <2>1. DOMAIN flat = 0 .. (Bytes - 1)
    BY <1>2 DEF CrossTypes
  <2> QED
    BY <1>1, <2>1 DEF FlatAfter
<1>7. /\ flat' \in [0 .. (Bytes - 1) -> Values]
      /\ [i \in 0 .. (a.size - 1) |-> flat'[a.addr + i]] = bytes
      /\ \A n \in 0 .. (Bytes - 1) : n \notin BytesOf(a) => flat'[n] = flat[n]
  BY <1>2, <1>3, <1>6, StoredFlat
<1>8. /\ stage'[t] = "used" /\ at'[t] = <<>> /\ (Crosses(a) => buf'[t] = bytes)
      /\ \A u \in Threads \ {t} : stage'[u] = stage[u] /\ at'[u] = at[u] /\ buf'[u] = buf[u]
  <2>1. stage = [u \in Threads |-> stage[u]] /\ at = [u \in Threads |-> at[u]]
        /\ buf = [u \in Threads |-> buf[u]]
    BY <1>1, <1>2 DEF CrossTypes
  <2> QED
    BY <1>1, <2>1
<1>9. ASSUME NEW u \in Threads \ {t}, stage[u] # "idle"
      PROVE  FlatKept(acc[u])
  <2>1. ~Conflict(a, acc[u])
    BY <1>1, <1>2, <1>9 DEF NoConflicts
  <2>2. acc[u] \in ProgramAccesses
    BY <1>9 DEF CrossGood, StageInv
  <2>3. \A n \in BytesOf(acc[u]) : n \notin BytesOf(a) /\ n \in 0 .. (Bytes - 1)
    BY <1>1, <2>1, <2>2, AccessFields DEF Conflict, BytesOf
  <2> QED
    BY <1>7, <2>3 DEF FlatKept
<1>10. OthersSame(t)
  BY <1>1, <1>8, <1>9 DEF OthersSame, SameFor, threadVars
<1> HIDE DEF bytes
<1>11. LinkInv'
  <2>1. CASE Crosses(a)
    <3>1. UNCHANGED vars
      BY <1>1, <2>1 DEF vars, lstoreVars
    <3> QED
      BY <3>1, VarsSame
  <2>2. CASE ~Crosses(a)
    <3>1. data' = Scattered(t, a, bytes)
      BY <1>1, <2>2
    <3>2. UNCHANGED <<threadVars, cache, ref, dirty, backing>>
      BY <1>1
    <3> HIDE DEF a
    <3> QED
      BY <1>2, <1>3, <1>4, <1>5, <3>1, <3>2, ScatteredInv
  <2> QED
    BY <2>1, <2>2
<1>12. \A n : InBuffer(n) => InBuffer(n)'
  BY <1>1, <1>8 DEF InBuffer, Crosses, BytesOf
<1>13. MemCurrent'
  <2> SUFFICES ASSUME NEW n \in 0 .. (Bytes - 1), ~InBuffer(n)'
               PROVE  MemByte(n)' = flat'[n]
    BY DEF MemCurrent
  <2>1. MemByte(n) = flat[n]
    BY <1>2, <1>12 DEF MemCurrent
  <2>2. flat'[n] = IF n \in BytesOf(a) THEN bytes[n - a.addr] ELSE flat[n]
    BY <1>6 DEF FlatAfter
  <2>3. CASE Crosses(a)
    <3>1. Mem' = Mem
      BY <1>1, <2>3, MemSame
    <3>2. n \notin BytesOf(a)
      BY <1>1, <1>8, <2>3 DEF InBuffer, Crosses, BytesOf
    <3> QED
      BY <2>1, <2>2, <3>1, <3>2 DEF MemByte
  <2>4. CASE ~Crosses(a)
    <3>1. data' = Scattered(t, a, bytes) /\ UNCHANGED <<cache, backing>>
      BY <1>1, <2>4
    <3> HIDE DEF a
    <3>2. MemByte(n)' = IF n \in BytesOf(a) THEN bytes[n - a.addr] ELSE MemByte(n)
      BY <1>2, <1>3, <1>4, <1>5, <3>1, ScatteredMemory
    <3> QED
      BY <2>1, <2>2, <3>2
  <2> QED
    BY <2>3, <2>4
<1>14. CrossTypes'
  <2>1. at' \in [Threads -> Seq([f : Frames, o : Offsets])]
    BY <1>1, <1>2, AtEmptied
  <2> QED
    BY <1>1, <1>2, <1>7, <2>1 DEF CrossTypes
<1>15. Crosses(a)' = Crosses(a) /\ pc'[t] = "idle" /\ a' = a
  BY <1>1, <1>3 DEF Crosses, threadVars
<1>16. StageInv(t)'
  BY <1>1, <1>2, <1>3, <1>8, <1>15 DEF StageInv
<1>17. PartsStay(t)'
  BY <1>8 DEF PartsStay
<1>18. BytesCurrent(t)'
  <2>1. FlatBytes(acc[t])' = bytes
    <3>1. acc'[t] = a
      BY <1>1
    <3>2. FlatBytes(acc[t])' = [i \in 0 .. (acc'[t].size - 1) |-> flat'[acc'[t].addr + i]]
      BY DEF FlatBytes
    <3> HIDE DEF a, bytes
    <3> QED
      BY ONLY <1>7, <3>1, <3>2
  <2> QED
    BY <1>1, <1>3, <1>8, <1>15, <2>1 DEF BytesCurrent
<1>19. NoConflicts'
  <2>1. stage'[t] # "idle" => stage[t] # "idle"
    BY <1>1
  <2> QED
    BY <1>1, <1>2, <1>8, <2>1, NoConflictsKept
<1> QED
  BY <1>10, <1>11, <1>13, <1>14, <1>16, <1>17, <1>18, <1>19, StepGood

(* An access that stayed in its page, or one whose bytes the next step is  *)
(* to write back.                                                          *)
LEMMA NothingPendingGood ==
  ASSUME CrossGood, NEW t \in Threads, NothingPending(t)
  PROVE  CrossGood'
<1>1. /\ stage[t] = "used" /\ pending[t] = NoAccess
      /\ stage' = [stage EXCEPT ![t] = "idle"]
      /\ UNCHANGED <<vars, acc, at, buf, pending, back, seen, flat>>
  BY DEF NothingPending
<1>2. CrossTypes /\ StageInv(t) /\ NoConflicts /\ MemCurrent
  BY DEF CrossGood
<1>3. acc[t] \in ProgramAccesses /\ at[t] = <<>> /\ pc[t] = "idle" /\ ~Crosses(acc[t])
  <2>1. acc[t] \in ProgramAccesses
    BY <1>1, <1>2 DEF StageInv
  <2>2. acc[t] # NoAccess
    BY <2>1, AccessFields
  <2> QED
    BY <1>1, <1>2, <2>1, <2>2 DEF StageInv
<1>4. stage'[t] = "idle" /\ \A u \in Threads \ {t} : stage'[u] = stage[u]
  BY <1>1, <1>2 DEF CrossTypes
<1>5. LinkInv' /\ Mem' = Mem
  BY <1>1, VarsSame
<1>6. OthersSame(t)
  BY <1>1, <1>4 DEF OthersSame, SameFor, FlatKept, vars, threadVars
<1>7. CrossTypes'
  BY <1>1, <1>2 DEF CrossTypes
<1>8. pc'[t] = "idle" /\ at'[t] = <<>> /\ pending'[t] = NoAccess
  BY <1>1, <1>3 DEF vars, threadVars
<1>9. StageInv(t)'
  BY <1>4, <1>8 DEF StageInv
<1>10. PartsStay(t)'
  BY <1>8 DEF PartsStay
<1>11. BytesCurrent(t)'
  BY <1>4 DEF BytesCurrent
<1>12. NoConflicts' /\ MemCurrent'
  <2>1. NoConflicts'
    BY <1>1, <1>2, <1>4, NoConflictsKept
  <2>2. MemCurrent'
    BY <1>1, <1>2, <1>3, <1>4, <1>5, MemKept
  <2> QED
    BY <2>1, <2>2
<1> QED
  BY <1>5, <1>6, <1>7, <1>9, <1>10, <1>11, <1>12, StepGood

LEMMA WriteBackGood ==
  ASSUME CrossGood, NEW t \in Threads, WriteBack(t)
  PROVE  CrossGood'
<1>1. /\ stage[t] = "used" /\ pending[t] # NoAccess
      /\ stage' = [stage EXCEPT ![t] = "scatter"]
      /\ back' = [back EXCEPT ![t] = pending[t]]
      /\ pending' = [pending EXCEPT ![t] = NoAccess]
      /\ UNCHANGED <<vars, acc, at, buf, seen, flat>>
  BY DEF WriteBack
<1>2. CrossTypes /\ StageInv(t) /\ BytesCurrent(t) /\ NoConflicts /\ MemCurrent
  BY DEF CrossGood
<1>3. /\ acc[t] \in ProgramAccesses /\ at[t] = <<>> /\ pc[t] = "idle"
      /\ Crosses(acc[t]) /\ pending[t] = acc[t]
  BY <1>1, <1>2 DEF StageInv
<1>4. /\ stage'[t] = "scatter" /\ back'[t] = acc[t] /\ pending'[t] = NoAccess
      /\ \A u \in Threads \ {t} :
            stage'[u] = stage[u] /\ back'[u] = back[u] /\ pending'[u] = pending[u]
  <2>1. stage = [u \in Threads |-> stage[u]] /\ back = [u \in Threads |-> back[u]]
        /\ pending = [u \in Threads |-> pending[u]]
    BY <1>2 DEF CrossTypes
  <2> QED
    BY <1>1, <1>3, <2>1
<1>5. LinkInv' /\ Mem' = Mem
  BY <1>1, VarsSame
<1>6. OthersSame(t)
  BY <1>1, <1>4 DEF OthersSame, SameFor, FlatKept, vars, threadVars
<1>7. CrossTypes'
  BY <1>1, <1>2 DEF CrossTypes
<1>8. /\ pc'[t] = "idle" /\ Len(at'[t]) = 0
      /\ Crosses(acc[t])' = Crosses(acc[t]) /\ Parts(acc[t])' = Parts(acc[t])
  BY <1>1, <1>3 DEF vars, threadVars, Crosses, Parts, InFirstPage
<1>9. Len(Parts(acc[t])) \in {1, 2}
  BY <1>3, PartsOf
<1>10. StageInv(t)'
  BY <1>1, <1>3, <1>4, <1>8, <1>9 DEF StageInv
<1>11. PartsStay(t)'
  BY <1>8 DEF PartsStay
<1>12. BytesCurrent(t)'
  <2>1. FlatBytes(acc[t])' = FlatBytes(acc[t])
    BY <1>1 DEF FlatBytes
  <2> QED
    BY <1>1, <1>2, <1>4, <1>8, <2>1 DEF BytesCurrent
<1>13. NoConflicts' /\ MemCurrent'
  <2>1. stage'[t] # "idle" => stage[t] # "idle"
    BY <1>1
  <2>2. NoConflicts'
    BY <1>1, <1>2, <1>4, <2>1, NoConflictsKept
  <2>3. MemCurrent'
    BY <1>1, <1>2, <1>4, <1>5, MemKept
  <2> QED
    BY <2>2, <2>3
<1> QED
  BY <1>5, <1>6, <1>7, <1>10, <1>11, <1>12, <1>13, StepGood


LEMMA ScatterGood ==
  ASSUME CrossGood, NEW t \in Threads, Scatter(t)
  PROVE  CrossGood'
<1> DEFINE a == acc[t]
           bytes == buf[t]
<1>1. /\ stage[t] = "scatter" /\ pc[t] = "idle" /\ AllLinked(t)
      /\ data' = Scattered(t, back[t], bytes)
      /\ stage' = [stage EXCEPT ![t] = "idle"]
      /\ at' = [at EXCEPT ![t] = <<>>]
      /\ UNCHANGED <<threadVars, cache, ref, dirty, backing, acc, buf, pending, back, seen, flat>>
  BY DEF Scatter
<1>2. LinkInv /\ CrossTypes /\ StageInv(t) /\ BytesCurrent(t) /\ NoConflicts /\ MemCurrent
  BY DEF CrossGood
<1>3. back[t] = a /\ Crosses(a) /\ pending[t] = NoAccess /\ a \in ProgramAccesses
  BY <1>1, <1>2 DEF StageInv
<1>4. AllRaw(t, a) /\ \A n \in BytesOf(a) : StoresTo(t, n \div PageSize)
  BY <1>1, LinkedRaw
<1>5. /\ stage'[t] = "idle" /\ at'[t] = <<>>
      /\ \A u \in Threads \ {t} : stage'[u] = stage[u] /\ at'[u] = at[u]
  <2>1. stage = [u \in Threads |-> stage[u]] /\ at = [u \in Threads |-> at[u]]
    BY <1>2 DEF CrossTypes
  <2> QED
    BY <1>1, <2>1
<1>6. bytes = FlatBytes(a)
  BY <1>1, <1>2, <1>3 DEF BytesCurrent
<1>7. /\ a.addr \in Nat /\ a.size \in Nat /\ a.addr + a.size <= Bytes /\ Bytes \in Nat
  BY <1>3, AccessFields
<1>8. IsBytes(a, bytes) /\ \A i \in 0 .. (a.size - 1) : bytes[i] \in Values
  <2>1. flat \in [0 .. (Bytes - 1) -> Values]
    BY <1>2 DEF CrossTypes
  <2>2. \A i \in 0 .. (a.size - 1) : a.addr + i \in 0 .. (Bytes - 1)
    BY <1>7
  <2> QED
    BY <1>6, <2>1, <2>2 DEF IsBytes, FlatBytes
<1>9. \A n \in BytesOf(a) : bytes[n - a.addr] = flat[n]
  <2>1. \A n \in BytesOf(a) : n - a.addr \in 0 .. (a.size - 1) /\ a.addr + (n - a.addr) = n
    BY <1>7 DEF BytesOf
  <2> QED
    BY <1>6, <2>1 DEF FlatBytes
<1>10. data' = Scattered(t, a, bytes) /\ UNCHANGED <<threadVars, cache, ref, dirty, backing>>
  BY <1>1, <1>3
<1> HIDE DEF bytes
<1>11. LinkInv'
  <2> HIDE DEF a
  <2> QED
    BY <1>2, <1>3, <1>4, <1>8, <1>10, ScatteredInv
<1>12. MemCurrent'
  <2> SUFFICES ASSUME NEW n \in 0 .. (Bytes - 1), ~InBuffer(n)'
               PROVE  MemByte(n)' = flat[n]
    BY <1>1 DEF MemCurrent
  <2>1. MemByte(n)' = IF n \in BytesOf(a) THEN bytes[n - a.addr] ELSE MemByte(n)
    <3>1. UNCHANGED <<cache, backing>>
      BY <1>10
    <3> HIDE DEF a
    <3> QED
      BY <1>2, <1>3, <1>4, <1>8, <1>10, <3>1, ScatteredMemory
  <2>2. CASE n \in BytesOf(a)
    BY <1>9, <2>1, <2>2
  <2>3. CASE n \notin BytesOf(a)
    <3>1. ~InBuffer(n)
      BY <1>1, <1>5, <2>3 DEF InBuffer, Crosses, BytesOf
    <3> QED
      BY <1>2, <2>1, <2>3, <3>1 DEF MemCurrent
  <2> QED
    BY <2>2, <2>3
<1>13. OthersSame(t)
  BY <1>1, <1>5 DEF OthersSame, SameFor, FlatKept, threadVars
<1>14. CrossTypes'
  <2>1. at' \in [Threads -> Seq([f : Frames, o : Offsets])]
    BY <1>1, <1>2, AtEmptied
  <2> QED
    BY <1>1, <1>2, <2>1 DEF CrossTypes
<1>15. pc'[t] = "idle" /\ pending'[t] = NoAccess
  BY <1>1, <1>3 DEF threadVars
<1>16. StageInv(t)'
  BY <1>5, <1>15 DEF StageInv
<1>17. PartsStay(t)'
  BY <1>5 DEF PartsStay
<1>18. BytesCurrent(t)'
  BY <1>5 DEF BytesCurrent
<1>19. NoConflicts'
  BY <1>1, <1>2, <1>5, NoConflictsKept
<1> QED
  BY <1>11, <1>12, <1>13, <1>14, <1>16, <1>17, <1>18, <1>19, StepGood

---------------------------------------------------------------------------
(* The invariant *)

LEMMA PageStart ==
  ASSUME NEW p \in Pages
  PROVE  p * PageSize = PageSize * p
<1> DEFINE c == Cardinality(Pages)
<1>1. p \in 0 .. (c - 1) /\ c \in Nat /\ PageSize \in Nat
  BY CrossConstantsOK, StorageSize
<1> HIDE DEF c
<1>2. p \in Int /\ PageSize \in Int
  BY <1>1
<1> QED
  BY <1>2

LEMMA CrossInitLinks ==
  ASSUME CrossInit
  PROVE  LinkInv
<1> USE DEF CrossInit
<1>1. TLBSize \in Nat \ {0} /\ EpcMod \in Nat \ {0}
  BY ConstantsOK
<1>2. \A t \in Threads : Counted(t) = {}
  BY DEF Counted, EmptyEntry, Entry
<1>3. \A p : Holders(p) = {}
  BY <1>2 DEF Holders
<1>4. backing \in [Pages -> [Offsets -> Values]]
  <2>1. ASSUME NEW p \in Pages, NEW o \in Offsets
        PROVE  p * PageSize + o \in Values
    <3>1. PageSize * p + o \in 0 .. (Bytes - 1)
      BY PageByte
    <3>2. Bytes \in Nat
      BY StorageSize
    <3>3. p * PageSize = PageSize * p
      BY PageStart
    <3>4. 0 .. (Bytes - 1) \subseteq 0 .. (2 * Bytes - 1)
      BY <3>2
    <3> QED
      BY <3>1, <3>3, <3>4, CrossConstantsOK
  <2> QED
    BY <2>1
<1>5. TypeOK
  BY <1>1, <1>4, ValuesOK DEF TypeOK, EmptyEntry, Entry, NoPage, Locations
<1>6. ReqPending
  BY DEF ReqPending
<1>7. EntriesUsable /\ NoDuplicates
  BY DEF EntriesUsable, NoDuplicates, EmptyEntry, Entry, NoPage
<1>8. MissStaysMissed /\ InFlightStays /\ LinkedEntry
  BY DEF MissStaysMissed, InFlightStays, LinkedEntry
<1>9. TlbCoherent
  BY <1>2 DEF TlbCoherent
<1>10. CacheInjective /\ NothingLost
  BY DEF CacheInjective, NothingLost
<1>11. RefMatches
  BY <1>3, FS_EmptySet DEF RefMatches
<1> QED
  BY <1>5, <1>6, <1>7, <1>8, <1>9, <1>10, <1>11 DEF LinkInv

LEMMA CrossInitGood ==
  ASSUME CrossInit
  PROVE  CrossGood
<1> USE DEF CrossInit
<1>1. LinkInv
  BY CrossInitLinks
<1>2. CrossTypes
  <2>1. at \in [Threads -> Seq([f : Frames, o : Offsets])]
    <3> DEFINE Places == [f : Frames, o : Offsets]
    <3> HIDE DEF Places
    <3>1. at \in [Threads -> Seq(Places)]
      OBVIOUS
    <3> QED
      BY <3>1 DEF Places
  <2>2. flat \in [0 .. (Bytes - 1) -> Values]
    <3>1. Bytes \in Nat /\ 0 .. (2 * Bytes - 1) \subseteq Values
      BY StorageSize, CrossConstantsOK
    <3>2. 0 .. (Bytes - 1) \subseteq 0 .. (2 * Bytes - 1)
      BY <3>1
    <3> QED
      BY <3>1, <3>2
  <2> QED
    BY <2>1, <2>2 DEF CrossTypes
<1>3. \A t \in Threads : StageInv(t) /\ PartsStay(t) /\ BytesCurrent(t)
  BY DEF StageInv, PartsStay, BytesCurrent
<1>4. NoConflicts
  BY DEF NoConflicts
<1>5. MemCurrent
  <2> SUFFICES ASSUME NEW n \in 0 .. (Bytes - 1)
               PROVE  MemByte(n) = n
    BY DEF MemCurrent
  <2> DEFINE p == n \div PageSize
             o == n % PageSize
  <2>1. p \in Pages /\ o \in Offsets /\ n = PageSize * p + o
    BY ByteAt
  <2>2. Mem[p] = backing[p]
    <3>1. \A f \in Frames : cache[f] # p
      BY <2>1, Conversions
    <3> HIDE DEF p
    <3> QED
      BY <1>1, <2>1, <3>1, MemAt DEF LinkInv
  <2>3. MemByte(n) = Mem[p][o]
    BY DEF MemByte
  <2> HIDE DEF p, o
  <2>4. PageSize * p = p * PageSize
    BY <2>1, PageStart
  <2> QED
    BY <2>1, <2>2, <2>3, <2>4
<1> QED
  BY <1>1, <1>2, <1>3, <1>4, <1>5 DEF CrossGood

LEMMA CrossStutter ==
  ASSUME CrossGood, UNCHANGED allVars
  PROVE  CrossGood'
<1> USE DEF allVars, crossVars
<1>1. LinkInv' /\ Mem' = Mem
  BY VarsSame
<1>2. ASSUME NEW u \in Threads
      PROVE  StageInv(u)' /\ PartsStay(u)' /\ BytesCurrent(u)'
  <2>1. StageInv(u) /\ PartsStay(u) /\ BytesCurrent(u)
    BY DEF CrossGood
  <2>2. SameFor(u) /\ FlatKept(acc[u])
    BY DEF SameFor, FlatKept, vars, threadVars
  <2> QED
    BY <2>1, <2>2, OthersKept
<1>3. CrossTypes' /\ NoConflicts'
  BY DEF CrossGood, CrossTypes, NoConflicts, Conflict, BytesOf
<1>4. MemCurrent'
  BY <1>1, MemKept DEF CrossGood
<1> QED
  BY <1>1, <1>2, <1>3, <1>4 DEF CrossGood

LEMMA CrossStepGood ==
  ASSUME LstoreMod = IndexMod, CrossInv, [CrossNext]_allVars
  PROVE  CrossInv'
<1> SUFFICES ASSUME ~slipped' PROVE CrossGood'
  BY DEF CrossInv
<1>1. CASE UNCHANGED allVars
  <2>1. CrossGood
    BY <1>1 DEF CrossInv, allVars, crossVars
  <2> QED
    BY <1>1, <2>1, CrossStutter
<1>2. CASE CrossNext
  <2>1. PICK t \in Threads : CrossStep(t) \/ \E a \in Program[t] : Begin(t, a)
    BY <1>2 DEF CrossNext
  <2>2. CASE \E a \in Program[t] : Begin(t, a)
    <3>1. CrossGood
      BY <2>2 DEF CrossInv, Begin
    <3> QED
      BY <2>2, <3>1, BeginGood
  <2>3. CASE PageFault(t)
    <3>1. CrossGood
      BY <2>3 DEF CrossInv, PageFault, crossVars
    <3> QED
      BY <2>3, <3>1, PageFaultGood
  <2>4. CASE PageFaultStep(t)
    <3>1. CrossGood
      BY <2>4 DEF CrossInv, PageFaultStep
    <3> QED
      BY <2>4, <3>1, PageFaultStepGood
  <2>5. CASE PageFaulted(t)
    <3>1. CrossGood
      BY <2>5 DEF CrossInv, PageFaulted
    <3> QED
      BY <2>5, <3>1, PageFaultedGood
  <2>6. CASE Linked(t)
    <3>1. CrossGood
      BY <2>6 DEF CrossInv, Linked
    <3> QED
      BY <2>6, <3>1, LinkedGood
  <2>7. CASE LoadBytes(t)
    <3>1. CrossGood
      BY <2>7 DEF CrossInv, LoadBytes
    <3> QED
      BY <2>7, <3>1, LoadBytesGood
  <2>8. CASE \E v \in {0, 1} : StoreBytes(t, v)
    <3>1. CrossGood
      BY <2>8 DEF CrossInv, StoreBytes
    <3> QED
      BY <2>8, <3>1, StoreBytesGood
  <2>9. CASE NothingPending(t)
    <3>1. CrossGood
      BY <2>9 DEF CrossInv, NothingPending
    <3> QED
      BY <2>9, <3>1, NothingPendingGood
  <2>10. CASE WriteBack(t)
    <3>1. CrossGood
      BY <2>10 DEF CrossInv, WriteBack
    <3> QED
      BY <2>10, <3>1, WriteBackGood
  <2>11. CASE Scatter(t)
    <3>1. CrossGood
      BY <2>11 DEF CrossInv, Scatter
    <3> QED
      BY <2>11, <3>1, ScatterGood
  <2> QED
    BY <2>1, <2>2, <2>3, <2>4, <2>5, <2>6, <2>7, <2>8, <2>9, <2>10, <2>11 DEF CrossStep
<1> QED
  BY <1>1, <1>2

(* The inductive invariant (lines 530-556 and 573-651): until a page is    *)
(* dropped between the two links of one access, the links' invariant holds,*)
(* the linked parts stay in the TLB, and every byte is current in the      *)
(* lstore or in the buffer of the one thread that will write it back.      *)
THEOREM CrossInvariant ==
  ASSUME LstoreMod = IndexMod
  PROVE  CrossSpec => []CrossInv
<1>1. CrossInit => CrossInv
  BY CrossInitGood DEF CrossInv
<1>2. CrossInv /\ [CrossNext]_allVars => CrossInv'
  BY CrossStepGood
<1> QED
  BY <1>1, <1>2, PTL DEF CrossSpec

(* A load, crossing or not, returns the bytes last stored at its address   *)
(* (lines 588-605).                                                        *)
THEOREM LoadsGetStores ==
  ASSUME LstoreMod = IndexMod
  PROVE  CrossSpec => []LoadsSeeStores
<1>1. ASSUME CrossInv, ~slipped, NEW t \in Threads, seen[t] # <<>>, stage[t] # "idle",
             NEW i \in DOMAIN seen[t]
      PROVE  seen[t][i] = flat[acc[t].addr + i]
  <2>1. seen[t] = FlatBytes(acc[t])
    BY <1>1 DEF CrossInv, CrossGood, BytesCurrent
  <2>2. i \in DOMAIN FlatBytes(acc[t]) /\ seen[t][i] = FlatBytes(acc[t])[i]
    BY <1>1, <2>1
  <2> QED
    BY <2>2 DEF FlatBytes
<1>2. CrossInv => LoadsSeeStores
  BY <1>1 DEF LoadsSeeStores
<1> QED
  BY <1>2, CrossInvariant, PTL

(* Between accesses the memory is that of a flat memory: no byte stays in  *)
(* a buffer, and no write-back reverts another thread's store (lines       *)
(* 530-556).                                                               *)
THEOREM StoresArrive ==
  ASSUME LstoreMod = IndexMod
  PROVE  CrossSpec => []StoresReachMemory
<1>1. ASSUME CrossInv, \A t \in Threads : stage[t] = "idle", ~slipped, NEW n \in DOMAIN flat
      PROVE  Mem[n \div PageSize][n % PageSize] = flat[n]
  <2>1. n \in 0 .. (Bytes - 1) /\ MemCurrent
    BY <1>1 DEF CrossInv, CrossGood, CrossTypes
  <2>2. ~InBuffer(n)
    BY <1>1 DEF InBuffer
  <2> QED
    BY <2>1, <2>2 DEF MemCurrent, MemByte
<1>2. CrossInv => StoresReachMemory
  BY <1>1 DEF StoresReachMemory
<1> QED
  BY <1>2, CrossInvariant, PTL
===============================================================================
