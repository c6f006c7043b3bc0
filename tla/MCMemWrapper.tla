--------------------------- MODULE MCMemWrapper ---------------------------
(* Small instances of MemWrapper. *)
EXTENDS MemWrapper, TLC

CONSTANTS t1, none, Size

MCThreads == {t1}
MCPages == 0 .. 5
MCPages7 == 0 .. 6
MCFrames7 == 0 .. 6
MCPages3 == 0 .. 2
MCFrames == 0 .. 3
MCOffsets == {0, 1}
MCValues == 0 .. 20
MCRequests == [page : Pages, off : Offsets, dirty : BOOLEAN]

(* Operands lie in storage; an empty one too, for it is linked all the same. *)
Range(n) == 0 .. (PageSize * Cardinality(Pages) - (IF n = 0 THEN 1 ELSE n))
PagesOf(a, n) == (a \div PageSize) .. ((a + n - 1) \div PageSize)
Apart(a, b, n) == PagesOf(a, n) \cap PagesOf(b, n) = {}

TwoTagged(f) ==
    UNION {{Call(f, Tagged(a), Tagged(b), n) :
              <<a, b>> \in {x \in Range(n) \X Range(n) : Apart(x[1], x[2], n)}}
           : n \in 0 .. Size}
Overlapping(f) ==
    UNION {{Call(f, Tagged(a), Tagged(b), n) : a \in Range(n), b \in Range(n)}
           : n \in 0 .. Size}
OneTagged(f) ==
    UNION {{Call(f, Tagged(a), Native(0), n) : a \in Range(n)}
             \cup {Call(f, Native(0), Tagged(a), n) : a \in Range(n)}
           : n \in 0 .. Size}
WithByte(f) ==
    UNION {{Call(f, Tagged(a), Constant(c), n) : a \in Range(n), c \in {3}}
           : n \in 0 .. Size}

MCCalls ==
    TwoTagged("memcpy") \cup OneTagged("memcpy") \cup OneTagged("memcmp")
      \cup TwoTagged("memcmp") \cup WithByte("memset") \cup WithByte("memchr")
ApartBytes(a, b, n) == a + n <= b \/ b + n <= a
MCAdjacent ==
    UNION {{Call("memcpy", Tagged(a), Tagged(b), n) :
              <<a, b>> \in {x \in Range(n) \X Range(n) : ApartBytes(x[1], x[2], n)}}
           : n \in {Size}}
MCMoves == Overlapping("memmove")
(* Find a byte on page 0, then set five other pages while holding it. *)
MCFoundThenSet == {Call("memchr", Tagged(0), Constant(0), 1),
                   Call("memset", Tagged(PageSize), Constant(0), 5 * PageSize)}

(* Frames are interchangeable, as in MCCarmorLink. *)
PageOf(f) == IF f \in Frames THEN cache[f] ELSE f
PlaceOf(p) == IF p.kind = "frame" THEN <<PageOf(p.f), p.o>> ELSE <<p.kind, p.a>>
WrapperView ==
    <<[t \in Threads |-> [i \in Slots |->
          <<tlb[t][i].bs, PageOf(tlb[t][i].epc), tlb[t][i].dirty>>]],
      [t \in Threads |-> IF pc[t] \in {"drop", "insert", "linked"}
                           THEN PageOf(res[t]) ELSE NoPage],
      [t \in Threads |-> [s \in Sides |-> PlaceOf(place[t][s])]],
      pc, req, ref, dirty, backing, {<<cache[f], data[f]>> : f \in Frames},
      [t \in Threads |-> PlaceOf(result[t])], call, ptr, todo, ctr, native, goal, made>>
===========================================================================
