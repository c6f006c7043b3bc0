----------------------------- MODULE PointerTags -----------------------------
(***************************************************************************)
(* The pointers of an instrumented program (common.h and the switches of   *)
(* armor_runtime.cpp).  The four upper bits of a 64-bit pointer say who    *)
(* owns the memory it leads to: none of them set, and it is a native       *)
(* pointer; bit 63 set, and the whole nibble selects one of four lstores.  *)
(* A pointer is a record of the set of its upper bits and of the address   *)
(* below them, so that "|" is a union and "& CLEAR_BIT_MASK" drops the set.*)
(***************************************************************************)
EXTENDS Integers

TagBits == 60 .. 63
Lstores == 0 .. 3
Native == -1
NoCase == -2

Pointer(tag, a) == [tag |-> tag, addr |-> a]
Null == Pointer({}, 0)

LstoreMask(k) == CASE k = 0 -> {63, 62} [] k = 1 -> {63, 61}
                   [] k = 2 -> {63, 60} [] k = 3 -> {63, 61, 60}

Shift60Val(k) == CASE k = 0 -> 12 [] k = 1 -> 10 [] k = 2 -> 9 [] k = 3 -> 11

IsCarmorPtr(p) == 63 \in p.tag
MakeOriginalPointer(p) == Pointer({}, p.addr)
MakeLstorePtr(k, p) == Pointer(p.tag \cup LstoreMask(k), p.addr)

(* (uintptr_t)p >> 60 *)
TopByte(p) ==
    LET Bit(b) == IF b \in p.tag THEN 1 ELSE 0
    IN  8 * Bit(63) + 4 * Bit(62) + 2 * Bit(61) + Bit(60)

(* The case a switch on the top byte takes; its default branch aborts. *)
Dispatch(p) ==
    IF \E k \in Lstores : Shift60Val(k) = TopByte(p)
      THEN CHOOSE k \in Lstores : Shift60Val(k) = TopByte(p)
      ELSE NoCase

(* The memory a pointer leads to. *)
StoreOf(p) == IF IsCarmorPtr(p) THEN Dispatch(p) ELSE Native
=============================================================================
