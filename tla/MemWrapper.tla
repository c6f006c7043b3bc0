---------------------------- MODULE MemWrapper ----------------------------
(***************************************************************************)
(* The memory intrinsics over tagged pointers, mem/armor_runtime.cpp lines *)
(* 876-1139: __carmor_mem_wrapper and __carmor_mem_wrapper_single run the  *)
(* libc function chunk by chunk, a chunk ending where an operand's page    *)
(* ends, and link again only the operands that reached the end of theirs.  *)
(* Between two links a wrapper keeps raw cache addresses of both operands, *)
(* so two links of one thread are in use at once: the steps of a link are  *)
(* those of CarmorLink, here called by the wrapper.                        *)
(*                                                                         *)
(* Only calls with a tagged operand are modelled: with none, the wrappers  *)
(* call libc and return.  The lstore is a cached one other than number 3,  *)
(* whose case in get_lstore_parameters falls through to the abort (lines   *)
(* 868-872; module Heap has it).  The memory functions return values as    *)
(* they are: memchr a raw address into the page cache, not a pointer into  *)
(* its operand, and the program keeps it for as long as it likes.          *)
(***************************************************************************)
EXTENDS CarmorLink

CONSTANTS
    PageSize,       \* lstore_get_mpage_size()
    NativeSize,     \* size of the program's native buffer
    Calls,          \* the calls the program may make
    MaxCalls        \* how many calls a thread makes (a bound)

Bytes == PageSize * Cardinality(Pages)

(* The pages are numbered from 0 on; the links may be of any address; and  *)
(* Values has the bytes that tell the initial memory apart.                *)
ASSUME WrapperConstantsOK ==
    /\ PageSize \in Nat \ {0} /\ NativeSize \in Nat /\ MaxCalls \in Nat
    /\ Offsets = 0 .. (PageSize - 1)
    /\ Pages = 0 .. (Cardinality(Pages) - 1)
    /\ Accesses = [page : Pages, off : Offsets, dirty : BOOLEAN]
    /\ Values \subseteq Nat
    /\ 0 .. (Bytes - 1) \subseteq Values /\ 0 .. NativeSize \subseteq Values

(* Operands.  A pointer is tagged (into the lstore) or native; memset and  *)
(* memchr have the byte they are given in place of a second pointer.       *)
Sides == {"l", "r"}
Tagged(a) == [kind |-> "tagged", a |-> a]
Native(a) == [kind |-> "native", a |-> a]
Constant(c) == [kind |-> "byte", a |-> c]
Number(x) == [kind |-> "number", a |-> x]
NULL == Number(0)
Pointers ==
    [kind : {"tagged"}, a : 0 .. (Bytes - 1)] \cup [kind : {"native"}, a : 0 .. NativeSize]
      \cup [kind : {"byte"}, a : Values]
IsTagged(p) == p.kind = "tagged"

Writes == {"memcpy", "memmove", "memset"}
Funcs == Writes \cup {"memcmp", "memchr"}
Call(f, l, r, n) == [func |-> f, l |-> l, r |-> r, n |-> n]
Operand(c, s) == IF s = "l" THEN c.l ELSE c.r

(* The n bytes at p are in the storage area or in the native buffer. *)
Fits(p, n) ==
    /\ p.kind = "tagged" => p.a + n <= Bytes
    /\ p.kind = "native" => p.a + n <= NativeSize

(* Calls that stay inside their objects, with the operands the function    *)
(* takes, and whose length fits the int that counts it down.               *)
IntMax == 2147483647
ProgramCalls ==
    {c \in [func : Funcs, l : Pointers, r : Pointers, n : 0 .. IntMax] :
        /\ c.l.kind # "byte" /\ (c.r.kind = "byte" <=> c.func \in {"memset", "memchr"})
        /\ Fits(c.l, c.n) /\ Fits(c.r, c.n)}
ASSUME CallsOK == Calls \subseteq ProgramCalls

VARIABLES
    call,           \* the call each thread is executing, or NoCall
    ptr,            \* vl1 and vr1: the operands' current addresses
    place,          \* vl0 and vr0: where the operands currently point to
    todo,           \* the operands still to be linked before the next chunk
    ctr,            \* bytes left
    result,         \* what the last call returned, which the program keeps
    native,         \* the program's native buffer
    goal,           \* what the call in progress has to achieve
    made            \* calls started by each thread

wrapperVars == <<call, ptr, place, todo, ctr, result, native, goal, made>>
allVars == <<vars, wrapperVars>>

---------------------------------------------------------------------------
(* What a call is given, and the addresses it works on. *)

NoCall == [func |-> "none"]
Returned == [func |-> "returned"]
InCall(t) == call[t].func \notin {"none", "returned"}
Unlimited == 2 ^ 30

(* Faulty: no operand is faulted as dirty.                                 *)
CleanRequestOf(t, s) ==
    [page |-> ptr[t][s].a \div PageSize, off |-> ptr[t][s].a % PageSize,
     dirty |-> FALSE]

(* Only the first operand of a writing function is faulted as dirty. *)
RequestOf(t, s) ==
    [page |-> ptr[t][s].a \div PageSize, off |-> ptr[t][s].a % PageSize,
     dirty |-> s = "l" /\ call[t].func \in Writes]

(* The byte i places behind a raw address. *)
ByteAt(p, i) ==
    CASE p.kind = "frame" -> data[p.f][p.o + i]
      [] p.kind = "native" -> native[p.a + i]
      [] p.kind = "byte" -> p.a
RawBytes(p, k) == [i \in 0 .. (k - 1) |-> ByteAt(p, i)]

---------------------------------------------------------------------------
(* What a call has to do, on flat memory *)

SeenAt(p, i) ==
    CASE p.kind = "tagged" -> Mem[(p.a + i) \div PageSize][(p.a + i) % PageSize]
      [] p.kind = "native" -> native[p.a + i]
      [] p.kind = "byte" -> p.a

SeenBytes(p, n) == [i \in 0 .. (n - 1) |-> SeenAt(p, i)]

Covers(p, n, kind, a) == p.kind = kind /\ a \in p.a .. (p.a + n - 1)

Sign(x) == IF x < 0 THEN -1 ELSE IF x > 0 THEN 1 ELSE 0
First(S) == CHOOSE i \in S : \A j \in S : i <= j

(* memcmp's sign, and where memchr finds the byte (-1: nowhere). *)
Compare(x, y) ==
    LET differ == {i \in DOMAIN x : x[i] # y[i]}
    IN  IF differ = {} THEN 0 ELSE Sign(x[First(differ)] - y[First(differ)])
Find(x, y) ==
    LET same == {i \in DOMAIN x : x[i] = y[i]}
    IN  IF same = {} THEN -1 ELSE First(same)

(* Faulty: the byte of memset and memchr is advanced like a pointer.       *)
AdvanceAll(p, k) ==
    IF p.kind = "frame" THEN [p EXCEPT !.o = @ + k] ELSE [p EXCEPT !.a = @ + k]

(* A pointer or raw address k bytes further; a byte stays what it is.      *)
Advance(p, k) ==
    CASE p.kind = "frame" -> [p EXCEPT !.o = @ + k]
      [] p.kind = "byte" -> p
      [] p.kind \in {"tagged", "native"} -> [p EXCEPT !.a = @ + k]

(* What libc returns for bytes x at p and y: a number, or an address.      *)
Value(func, p, x, y) ==
    CASE func = "memcmp" -> Number(Compare(x, y))
      [] func = "memchr" -> IF Find(x, y) = -1 THEN NULL ELSE Advance(p, Find(x, y))
      [] func \in Writes -> p
Expected(c) == Value(c.func, c.l, SeenBytes(c.l, c.n), SeenBytes(c.r, c.n))

Goal(c) ==
    LET writes == c.func \in Writes IN
    [mem |-> [p \in Pages |-> [o \in Offsets |->
         IF writes /\ Covers(c.l, c.n, "tagged", p * PageSize + o)
           THEN SeenAt(c.r, p * PageSize + o - c.l.a)
           ELSE Mem[p][o]]],
     native |-> [a \in 0 .. (NativeSize - 1) |->
         IF writes /\ Covers(c.l, c.n, "native", a)
           THEN SeenAt(c.r, a - c.l.a)
           ELSE native[a]],
     result |-> Expected(c)]

---------------------------------------------------------------------------
(* The wrappers *)

(* Storage and buffer start with distinguishable bytes. *)
WrapperInit ==
    /\ tlb = [t \in Threads |-> [i \in Slots |-> EmptyEntry]]
    /\ pc = [t \in Threads |-> "idle"]
    /\ req = [t \in Threads |-> NoReq]
    /\ res = [t \in Threads |-> 0]
    /\ val = [t \in Threads |-> NoValue]
    /\ cache = [f \in Frames |-> NoPage]
    /\ ref = [p \in Pages |-> 0]
    /\ dirty = [p \in Pages |-> FALSE]
    /\ data = [f \in Frames |-> [o \in Offsets |-> 0]]
    /\ backing = [p \in Pages |-> [o \in Offsets |-> p * PageSize + o]]
    /\ native = [a \in 0 .. (NativeSize - 1) |-> a + 1]
    /\ call = [t \in Threads |-> NoCall]
    /\ ptr = [t \in Threads |-> [s \in Sides |-> Native(0)]]
    /\ place = [t \in Threads |-> [s \in Sides |-> Native(0)]]
    /\ todo = [t \in Threads |-> {}]
    /\ ctr = [t \in Threads |-> 0]
    /\ result = [t \in Threads |-> NULL]
    /\ goal = [t \in Threads |-> NoCall]
    /\ made = [t \in Threads |-> 0]

(* Entry of a wrapper: the tagged operands have to be linked. *)
Begin(t, c) ==
    /\ call[t] = NoCall
    /\ made[t] < MaxCalls
    /\ \E s \in Sides : IsTagged(Operand(c, s))
    /\ call' = [call EXCEPT ![t] = c]
    /\ ptr' = [ptr EXCEPT ![t] = [s \in Sides |-> Operand(c, s)]]
    /\ place' = [place EXCEPT ![t] = [s \in Sides |-> Operand(c, s)]]
    /\ todo' = [todo EXCEPT ![t] = {s \in Sides : IsTagged(Operand(c, s))}]
    /\ ctr' = [ctr EXCEPT ![t] = c.n]
    /\ goal' = [goal EXCEPT ![t] = Goal(c)]
    /\ made' = [made EXCEPT ![t] = @ + 1]
    /\ UNCHANGED <<result, native, vars>>

(* vl is linked before vr. *)
NextSide(t) == IF "l" \in todo[t] THEN "l" ELSE "r"

(* __carmor_page_fault on the operand's current address. *)
PageFault(t) ==
    /\ todo[t] # {}
    /\ LET r == RequestOf(t, NextSide(t)) IN LinkHit(t, r) \/ LinkMiss(t, r)
    /\ UNCHANGED wrapperVars

(* ... and the raw cache address it returned. *)
PageFaulted(t) ==
    /\ todo[t] # {}
    /\ pc[t] = "linked"
    /\ place' = [place EXCEPT ![t][NextSide(t)] =
                   [kind |-> "frame", f |-> res[t], o |-> req[t].off]]
    /\ todo' = [todo EXCEPT ![t] = @ \ {NextSide(t)}]
    /\ Return(t)
    /\ UNCHANGED <<tlb, val, lstoreVars, call, ptr, ctr, result, native, goal, made>>

(* Faulty: a page is one byte short.                                       *)
LeftButOne(t, s) ==
    IF IsTagged(ptr[t][s]) THEN PageSize - 1 - place[t][s].o ELSE Unlimited

Left(t, s) ==
    IF IsTagged(ptr[t][s]) THEN PageSize - place[t][s].o ELSE Unlimited
MinLeft(t) ==
    IF Left(t, "r") < Left(t, "l") THEN Left(t, "r") ELSE Left(t, "l")

(* The libc function on one chunk of k bytes. *)
Copy(t, k) ==
    LET dst == place[t]["l"]
        Src(i) == ByteAt(place[t]["r"], i)
    IN  IF dst.kind = "frame"
          THEN /\ data' = [data EXCEPT ![dst.f] =
                     [o \in Offsets |-> IF o \in dst.o .. (dst.o + k - 1)
                                          THEN Src(o - dst.o) ELSE @[o]]]
               /\ UNCHANGED native
          ELSE /\ native' = [a \in DOMAIN native |->
                     IF a \in dst.a .. (dst.a + k - 1)
                       THEN Src(a - dst.a) ELSE native[a]]
               /\ UNCHANGED data

(* The value func returns for the chunk, and whether the wrapper stops     *)
(* there: partial_return and not zero.                                     *)
ChunkResult(t, k) ==
    Value(call[t].func, place[t]["l"], RawBytes(place[t]["l"], k), RawBytes(place[t]["r"], k))
Stops(t, k) == call[t].func \notin Writes /\ ChunkResult(t, k) # NULL

Apply(t, k) ==
    IF call[t].func \in Writes THEN Copy(t, k) ELSE UNCHANGED <<data, native>>

(* A chunk that is not the last: both operands advance, and those that     *)
(* reached the end of their page are linked again.                         *)
Chunk(t) ==
    LET k == MinLeft(t) IN
    /\ InCall(t) /\ todo[t] = {}
    /\ ctr[t] > k
    /\ ~Stops(t, k)
    /\ Apply(t, k)
    /\ ptr' = [ptr EXCEPT ![t] = [s \in Sides |-> Advance(@[s], k)]]
    /\ todo' = [todo EXCEPT ![t] =
                  {s \in Sides : IsTagged(ptr[t][s]) /\ Left(t, s) = k}]
    /\ place' = [place EXCEPT ![t] =
                  [s \in Sides |-> IF s \in todo'[t] THEN ptr'[t][s]
                                                     ELSE Advance(@[s], k)]]
    /\ ctr' = [ctr EXCEPT ![t] = @ - k]
    /\ UNCHANGED <<threadVars, cache, ref, dirty, backing, call, result, goal, made>>

(* The last chunk, or a chunk whose result ends memcmp or memchr early;    *)
(* the writing functions return dest.                                      *)
LastChunk(t) ==
    LET k == IF ctr[t] > MinLeft(t) THEN MinLeft(t) ELSE ctr[t] IN
    /\ InCall(t) /\ todo[t] = {}
    /\ ctr[t] <= MinLeft(t) \/ Stops(t, k)
    /\ Apply(t, k)
    /\ result' = [result EXCEPT ![t] =
                    IF call[t].func \in Writes THEN call[t].l ELSE ChunkResult(t, k)]
    /\ call' = [call EXCEPT ![t] = Returned]
    /\ ctr' = [ctr EXCEPT ![t] = 0]
    /\ UNCHANGED <<threadVars, cache, ref, dirty, backing, ptr, place, todo, goal, made>>

(* The program has the result and goes on; what it does is external. *)
Leave(t) ==
    /\ call[t].func = "returned"
    /\ call' = [call EXCEPT ![t] = NoCall]
    /\ UNCHANGED <<vars, ptr, place, todo, ctr, result, native, goal, made>>

(* lstore: the fault of a thread outside the model takes a frame, at any   *)
(* moment between two steps.                                               *)
TakenByOthers(f) ==
    LET q == cache[f] IN
    /\ q # NoPage /\ Loadable(f)
    /\ cache' = [cache EXCEPT ![f] = NoPage]
    /\ backing' = IF dirty[q] THEN [backing EXCEPT ![q] = data[f]] ELSE backing
    /\ dirty' = [dirty EXCEPT ![q] = FALSE]
    /\ data' = [data EXCEPT ![f] = [o \in Offsets |-> 0]]
    /\ UNCHANGED <<threadVars, ref, wrapperVars>>

WrapperStep(t) ==
    \/ PageFault(t) \/ PageFaulted(t)
    \/ Chunk(t) \/ LastChunk(t) \/ Leave(t)
    \/ LinkStep(t) /\ UNCHANGED wrapperVars

WrapperNext ==
    \/ \E t \in Threads : WrapperStep(t) \/ \E c \in Calls : Begin(t, c)
    \/ \E f \in Frames : TakenByOthers(f)

WrapperSpec ==
    /\ WrapperInit /\ [][WrapperNext]_allVars
    /\ \A t \in Threads : WF_allVars(WrapperStep(t))

---------------------------------------------------------------------------
(* Properties *)

(* A result is libc's, except that memchr's is not a pointer into its      *)
(* operand but the address the page cache has the found byte at just now.  *)
LeadsTo(x, p) ==
    \/ x = p
    \/ /\ x.kind = "frame" /\ p.kind = "tagged"
       /\ cache[x.f] = p.a \div PageSize /\ x.o = p.a % PageSize

(* When a call returns, both memories are what the libc function would     *)
(* have left on flat memory, and its result is libc's; but memchr's leads  *)
(* to the byte libc's points to, at that moment, and is no pointer into    *)
(* the operand.  No chunk is skipped, repeated or written through a stale  *)
(* address, whatever the operands' alignment to each other and whatever    *)
(* the lstore evicts (lines 907-998, 1017-1076).                           *)
CallsDoTheirJob ==
    \A t \in Threads : call[t].func = "returned" =>
        /\ Mem = goal[t].mem
        /\ native = goal[t].native
        /\ LeadsTo(result[t], goal[t].result)

(* Lines 478-479: "Decrease ref count since no one else in this thread is  *)
(* currently using this value": the page a link drops from the TLB is not  *)
(* one the thread still has a raw address into.                            *)
DroppedNotInUse ==
    \A t \in Threads : pc[t] = "drop" =>
        \A s \in Sides \ todo[t] :
            place[t][s].kind = "frame" =>
                cache[place[t][s].f] # tlb[t][TLBSize].bs

(* Lines 478-479 again, for the address memchr returned (lines 1057, 1129) *)
(* and the program keeps: the page it leads into is not dropped by a later *)
(* link of the thread.                                                     *)
DroppedNotReturned ==
    \A t \in Threads : pc[t] = "drop" /\ result[t].kind = "frame" =>
        cache[result[t].f] # tlb[t][TLBSize].bs

(* A call returns. *)
CallsReturn ==
    \A t \in Threads : todo[t] # {} ~> call[t].func = "returned"


---------------------------------------------------------------------------
(* What makes the invariants above inductive, part by part, as long as no  *)
(* link drops a page in use (DroppedNotInUse).                             *)

FramePlaces == [kind : {"frame"}, f : Frames, o : Offsets]

WrapperTypes ==
    /\ call \in [Threads -> ProgramCalls \cup {NoCall, Returned}]
    /\ ptr \in [Threads -> [Sides -> Pointers]]
    /\ place \in [Threads -> [Sides -> Pointers \cup FramePlaces]]
    /\ todo \in [Threads -> SUBSET Sides]
    /\ ctr \in [Threads -> Nat]
    /\ native \in [0 .. (NativeSize - 1) -> Values]
    /\ result = [t \in Threads |-> result[t]] /\ goal = [t \in Threads |-> goal[t]]

(* The bytes the call has dealt with. *)
Done(t) == call[t].n - ctr[t]

(* The page of a linked operand is in the thread's TLB still, dirty if it  *)
(* is written: the lstore keeps the frame the wrapper has an address into. *)
LinkStays(t, s) ==
    \E j \in Counted(t) :
        /\ tlb[t][j].bs = ptr[t][s].a \div PageSize
        /\ tlb[t][j].epc = place[t][s].f /\ place[t][s].o = ptr[t][s].a % PageSize
        /\ s = "l" /\ call[t].func \in Writes => tlb[t][j].dirty

(* Both operands have advanced by what was dealt with, and point there.    *)
OperandInv(t, s) ==
    /\ ptr[t][s] = Advance(Operand(call[t], s), Done(t))
    /\ s \in todo[t] => IsTagged(ptr[t][s])
    /\ s \notin todo[t] => IF IsTagged(ptr[t][s])
                             THEN place[t][s].kind = "frame" /\ LinkStays(t, s)
                             ELSE place[t][s] = ptr[t][s]

CallInv(t) ==
    /\ pc[t] # "idle" => todo[t] # {} /\ req[t] = RequestOf(t, NextSide(t))
    /\ todo[t] # {} => InCall(t)
    /\ InCall(t) => ctr[t] <= call[t].n /\ \A s \in Sides : OperandInv(t, s)

PlacesInv == LinkInv /\ WrapperTypes /\ \A t \in Threads : CallInv(t)

(* Memory byte n, the bytes a call has still to write, and what they are   *)
(* to be.                                                                  *)
MemByte(n) == Mem[n \div PageSize][n % PageSize]
ToWrite(t, kind, a) ==
    /\ call[t].func \in Writes /\ kind = call[t].l.kind
    /\ a \in (call[t].l.a + Done(t)) .. (call[t].l.a + call[t].n - 1)
GoalByte(t, kind, a) ==
    IF kind = "tagged" THEN goal[t].mem[a \div PageSize][a % PageSize]
                       ELSE goal[t].native[a]

(* The bytes a call writes are not among those it copies.                  *)
OperandsApart(c) ==
    c.func \in Writes /\ c.l.kind = c.r.kind =>
        c.l.a + c.n <= c.r.a \/ c.r.a + c.n <= c.l.a

(* Raw address x is the place of the byte p points to, and its page is in  *)
(* the thread's TLB: the lstore keeps the frame.                           *)
KeptFor(t, x, p) ==
    \E j \in Counted(t) :
        /\ x.kind = "frame" /\ p.kind = "tagged"
        /\ tlb[t][j].bs = p.a \div PageSize
        /\ tlb[t][j].epc = x.f /\ x.o = p.a % PageSize

(* Everything else is as it should be when the call returns, the bytes to  *)
(* copy are not overwritten yet, and the bytes compared so far did not     *)
(* decide the result.                                                      *)
JobInv(t) ==
    /\ InCall(t) =>
        /\ OperandsApart(call[t])
        /\ goal[t].mem \in [Pages -> [Offsets -> Values]]
        /\ goal[t].native \in [0 .. (NativeSize - 1) -> Values]
        /\ goal[t].result = Expected(call[t])
        /\ \A n \in 0 .. (Bytes - 1) :
              ToWrite(t, "tagged", n) \/ MemByte(n) = GoalByte(t, "tagged", n)
        /\ \A a \in 0 .. (NativeSize - 1) :
              ToWrite(t, "native", a) \/ native[a] = GoalByte(t, "native", a)
        /\ call[t].func \in Writes =>
              \A i \in Done(t) .. (call[t].n - 1) :
                  GoalByte(t, call[t].l.kind, call[t].l.a + i) = SeenAt(call[t].r, i)
        /\ call[t].func = "memcmp" =>
              \A i \in 0 .. (Done(t) - 1) : SeenAt(call[t].l, i) = SeenAt(call[t].r, i)
        /\ call[t].func = "memchr" =>
              \A i \in 0 .. (Done(t) - 1) : SeenAt(call[t].l, i) # SeenAt(call[t].r, i)
    /\ call[t].func = "returned" =>
        /\ Mem = goal[t].mem /\ native = goal[t].native
        /\ result[t] = goal[t].result \/ KeptFor(t, result[t], goal[t].result)

(* All of it: the inductive invariant of the calls, between any two steps. *)
WrapperInv == PlacesInv /\ \A t \in Threads : JobInv(t)


---------------------------------------------------------------------------
(* Why the first call of a thread, if its operands share no page, drops no *)
(* page it has an address into, with three slots or more: every link of it *)
(* misses, an operand that is linked enters slot 1, and none is followed   *)
(* by more than two links before it is linked again.                       *)

PagesApart(c) ==
    c.n > 0 /\ IsTagged(c.l) /\ IsTagged(c.r) =>
        \A i, j \in 0 .. (c.n - 1) :
            (c.l.a + i) \div PageSize # (c.r.a + j) \div PageSize

PageAt(t, s) == ptr[t][s].a \div PageSize
OffsetAt(t, s) == ptr[t][s].a % PageSize
Within(t, s, k) == \E i \in Slots : i <= k /\ tlb[t][i].bs = PageAt(t, s)

(* The pages an operand was linked for: not its current one if that is to  *)
(* be linked still.                                                        *)
ToLink(t, s) == s \in todo[t] /\ ~(pc[t] = "linked" /\ s = NextSide(t))
LinkedFor(t, s) ==
    {(Operand(call[t], s).a + j) \div PageSize :
        j \in 0 .. (IF ToLink(t, s) THEN Done(t) - 1 ELSE Done(t))}

(* Operand s is in slot 1 or 2 whenever the other one is to be linked, or  *)
(* in slot 3 when it is its turn to be.                                    *)
Recent(t, s, other) ==
    /\ todo[t] = {} /\ OffsetAt(t, s) < OffsetAt(t, other) => Within(t, s, 2)
    /\ todo[t] = {other} =>
        \/ Within(t, s, IF pc[t] = "linked" THEN 2 ELSE 1)
        \/ /\ Done(t) > 0 /\ OffsetAt(t, other) = 0 /\ OffsetAt(t, s) > 0
           /\ pc[t] = "linked" \/ Within(t, s, 2)

FirstCall(t) ==
    /\ made[t] = 0 => call[t] = NoCall /\ \A i \in Slots : tlb[t][i].bs = NoPage
    /\ InCall(t) =>
        /\ PagesApart(call[t])
        /\ call[t].n > 0 => ctr[t] > 0
        /\ \A s \in todo[t] : Done(t) > 0 => OffsetAt(t, s) = 0
        /\ \A i \in Slots :
              \/ tlb[t][i].bs = NoPage
              \/ \E s \in Sides : /\ IsTagged(Operand(call[t], s))
                                  /\ tlb[t][i].bs \in LinkedFor(t, s)
        /\ pc[t] = "linked" => Within(t, NextSide(t), 1)
        /\ \A s, x \in Sides :
              s # x /\ IsTagged(ptr[t][s]) /\ IsTagged(ptr[t][x]) => Recent(t, s, x)

(* The links of a first call leave both operands' pages in the TLB.        *)
FirstCallInv == PlacesInv /\ made \in [Threads -> Nat] /\ \A t \in Threads : FirstCall(t)
===========================================================================
