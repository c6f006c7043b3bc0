----------------------------- MODULE CrossPage -----------------------------
(***************************************************************************)
(* Accesses that reach from one page into the next, mem/armor_runtime.cpp  *)
(* lines 530-556 and 573-651: the two pages are linked one after the other *)
(* and their bytes gathered in a buffer of the thread, the program works   *)
(* on the buffer, and a later call links both pages again and scatters the *)
(* bytes.  The links are those of CarmorLink.  The write-back is called    *)
(* after every access: if a load left its bytes behind, the write-back     *)
(* after a later store would scatter them over it.                         *)
(***************************************************************************)
EXTENDS CarmorLink, Sequences

CONSTANTS
    PageSize,       \* lstore_get_mpage_size()
    MaxAccessSize,  \* MAX_ACCESS_SIZE, the bytes of gt_CrossPageBuffer
    Program,        \* the accesses of each thread: [addr, size, dirty]
    MaxAccesses     \* how many accesses a thread makes (a bound)

Bytes == PageSize * Cardinality(Pages)

(* The pages are numbered from 0 on; the links may be of any address; and  *)
(* Values has what a store writes here, which tells every byte apart.      *)
ASSUME CrossConstantsOK ==
    /\ PageSize \in Nat \ {0} /\ MaxAccessSize \in Nat
    /\ MaxAccesses \in [Threads -> Nat]
    /\ Offsets = 0 .. (PageSize - 1)
    /\ Pages = 0 .. (Cardinality(Pages) - 1)
    /\ Accesses = [page : Pages, off : Offsets, dirty : BOOLEAN]
    /\ 0 .. (2 * Bytes - 1) \subseteq Values

(* The accesses of an instrumented program: inside the storage area, not   *)
(* longer than a page, so that they are on two pages at most, and not      *)
(* longer than the buffer, which the code does not check.                  *)
ProgramAccesses ==
    {a \in [addr : 0 .. (Bytes - 1), size : 1 .. PageSize, dirty : BOOLEAN] :
        a.addr + a.size <= Bytes /\ a.size <= MaxAccessSize}
ASSUME ProgramOK == Program \in [Threads -> SUBSET ProgramAccesses]

VARIABLES
    stage,          \* "idle", "link", "use", "used" or "scatter"
    acc,            \* the access being performed
    at,             \* frame and offset of each part linked so far
    buf,            \* gt_CrossPageBuffer
    pending,        \* gt_crosspage_access and its size, or NoAccess
    back,           \* the access being written back
    seen,           \* the bytes the last load returned
    flat,           \* what a flat memory would hold
    slipped,        \* a second link dropped the page of the first one
    made            \* accesses started by each thread

crossVars == <<stage, acc, at, buf, pending, back, seen, flat, slipped, made>>
allVars == <<vars, crossVars>>

---------------------------------------------------------------------------
NoAccess == [addr |-> 0, size |-> 0, dirty |-> FALSE]

Crosses(a) == (a.addr % PageSize) + a.size > PageSize

(* bytes_to_copy_from_first_page *)
InFirstPage(a) == PageSize - (a.addr % PageSize)

(* The addresses a link or a write-back of the access faults, in order. *)
Parts(a) ==
    IF Crosses(a) THEN <<a.addr, a.addr + InFirstPage(a)>> ELSE <<a.addr>>

Current(t) == IF stage[t] = "scatter" THEN back[t] ELSE acc[t]
NextPart(t) == Parts(Current(t))[Len(at[t]) + 1]
AllLinked(t) == Len(at[t]) = Len(Parts(Current(t)))

(* Faulty: pages are always faulted as clean.                              *)
CleanRequestOf(t) ==
    [page |-> NextPart(t) \div PageSize, off |-> NextPart(t) % PageSize,
     dirty |-> FALSE]

RequestOf(t) ==
    [page |-> NextPart(t) \div PageSize, off |-> NextPart(t) % PageSize,
     dirty |-> stage[t] = "scatter" \/ acc[t].dirty]

(* The raw address of byte i of the access, relative to the linked parts. *)
RawByte(t, a, i) ==
    IF Crosses(a) /\ i >= InFirstPage(a)
      THEN [f |-> at[t][2].f, o |-> at[t][2].o + i - InFirstPage(a)]
      ELSE [f |-> at[t][1].f, o |-> at[t][1].o + i]

Gathered(t, a) ==
    [i \in 0 .. (a.size - 1) |-> data[RawByte(t, a, i).f][RawByte(t, a, i).o]]

Scattered(t, a, bytes) ==
    [f \in Frames |-> [o \in Offsets |->
        IF \E i \in DOMAIN bytes : RawByte(t, a, i) = [f |-> f, o |-> o]
          THEN bytes[CHOOSE i \in DOMAIN bytes :
                       RawByte(t, a, i) = [f |-> f, o |-> o]]
          ELSE data[f][o]]]

(* A store writes one of two values, different for every address. *)
Stored(a, v) == [i \in 0 .. (a.size - 1) |-> a.addr + i + v * Bytes]

---------------------------------------------------------------------------
(* TLBs are empty, byte n of storage holds n. *)
CrossInit ==
    /\ tlb = [t \in Threads |-> [i \in Slots |-> EmptyEntry]]
    /\ pc = [t \in Threads |-> "idle"]
    /\ req = [t \in Threads |-> NoReq]
    /\ res = [t \in Threads |-> 0]
    /\ val = [t \in Threads |-> NoValue]
    /\ cache = [f \in Frames |-> NoPage]
    /\ ref = [p \in Pages |-> 0]
    /\ dirty = [p \in Pages |-> FALSE]
    /\ data = [f \in Frames |-> [o \in Offsets |-> 0]]
    /\ backing = [p \in Pages |-> [o \in Offsets |-> p * PageSize + o]]
    /\ stage = [t \in Threads |-> "idle"]
    /\ acc = [t \in Threads |-> NoAccess]
    /\ at = [t \in Threads |-> <<>>]
    /\ buf = [t \in Threads |-> <<>>]
    /\ pending = [t \in Threads |-> NoAccess]
    /\ back = [t \in Threads |-> NoAccess]
    /\ seen = [t \in Threads |-> <<>>]
    /\ flat = [n \in 0 .. (Bytes - 1) |-> n]
    /\ slipped = FALSE
    /\ made = [t \in Threads |-> 0]

BytesOf(a) == a.addr .. (a.addr + a.size - 1)
Conflict(a, b) == (a.dirty \/ b.dirty) /\ BytesOf(a) \cap BytesOf(b) # {}

(* The program reaches an instrumented access.  It has no data race of its *)
(* own: what the other threads access meanwhile, up to the write-back that *)
(* follows the access, is elsewhere or only loaded.                        *)
Begin(t, a) ==
    /\ stage[t] = "idle" /\ made[t] < MaxAccesses[t]
    /\ \A u \in Threads \ {t} : stage[u] # "idle" => ~Conflict(a, acc[u])
    /\ stage' = [stage EXCEPT ![t] = "link"]
    /\ acc' = [acc EXCEPT ![t] = a]
    /\ seen' = [seen EXCEPT ![t] = <<>>]
    /\ made' = [made EXCEPT ![t] = @ + 1]
    /\ UNCHANGED <<vars, at, buf, pending, back, flat, slipped>>

(* __carmor_page_fault on a part, or the template's own lookup when the    *)
(* access stays within a page, ...                                         *)
PageFault(t) ==
    /\ stage[t] \in {"link", "scatter"} /\ ~AllLinked(t)
    /\ LinkHit(t, RequestOf(t)) \/ LinkMiss(t, RequestOf(t))
    /\ UNCHANGED crossVars

(* ... whose drop may hit the page of the first part, ...                  *)
PageFaultStep(t) ==
    /\ LinkStep(t)
    /\ slipped' = (slipped \/ /\ pc[t] = "drop" /\ at[t] # <<>>
                              /\ tlb[t][TLBSize].bs = Parts(Current(t))[1] \div PageSize)
    /\ UNCHANGED <<stage, acc, at, buf, pending, back, seen, flat, made>>

(* ... and the raw address it returns.                                     *)
PageFaulted(t) ==
    /\ pc[t] = "linked"
    /\ at' = [at EXCEPT ![t] = Append(@, [f |-> res[t], o |-> req[t].off])]
    /\ Return(t)
    /\ UNCHANGED <<tlb, val, lstoreVars,
                   stage, acc, buf, pending, back, seen, flat, slipped, made>>

(* The end of the link: an access that crosses goes through the buffer and *)
(* leaves it to be written back.                                           *)
Linked(t) ==
    /\ stage[t] = "link" /\ pc[t] = "idle" /\ AllLinked(t)
    /\ stage' = [stage EXCEPT ![t] = "use"]
    /\ IF Crosses(acc[t])
         THEN /\ buf' = [buf EXCEPT ![t] = Gathered(t, acc[t])]
              /\ pending' = [pending EXCEPT ![t] = acc[t]]
         ELSE UNCHANGED <<buf, pending>>
    /\ UNCHANGED <<vars, acc, at, back, seen, flat, slipped, made>>

(* The access of the program to the address the link returned. *)
LoadBytes(t) ==
    /\ stage[t] = "use" /\ ~acc[t].dirty
    /\ stage' = [stage EXCEPT ![t] = "used"]
    /\ seen' = [seen EXCEPT ![t] =
                  IF Crosses(acc[t]) THEN buf[t] ELSE Gathered(t, acc[t])]
    /\ at' = [at EXCEPT ![t] = <<>>]
    /\ UNCHANGED <<vars, acc, buf, pending, back, flat, slipped, made>>

StoreBytes(t, v) ==
    LET a == acc[t] IN
    /\ stage[t] = "use" /\ a.dirty
    /\ stage' = [stage EXCEPT ![t] = "used"]
    /\ IF Crosses(a)
         THEN buf' = [buf EXCEPT ![t] = Stored(a, v)] /\ UNCHANGED data
         ELSE data' = Scattered(t, a, Stored(a, v)) /\ UNCHANGED buf
    /\ flat' = [n \in DOMAIN flat |->
                  IF n \in a.addr .. (a.addr + a.size - 1)
                    THEN Stored(a, v)[n - a.addr] ELSE flat[n]]
    /\ at' = [at EXCEPT ![t] = <<>>]
    /\ UNCHANGED <<threadVars, cache, ref, dirty, backing,
                   acc, pending, back, seen, slipped, made>>

(* __carmor_writeback_cached_cross_page: nothing to do, ...                *)
NothingPending(t) ==
    /\ stage[t] = "used" /\ pending[t] = NoAccess
    /\ stage' = [stage EXCEPT ![t] = "idle"]
    /\ UNCHANGED <<vars, acc, at, buf, pending, back, seen, flat, slipped, made>>

(* Faulty: the access stays pending, and is written back once more.        *)
WriteBackAgain(t) ==
    /\ stage[t] = "used" /\ pending[t] # NoAccess
    /\ stage' = [stage EXCEPT ![t] = "scatter"]
    /\ back' = [back EXCEPT ![t] = pending[t]]
    /\ UNCHANGED <<vars, acc, at, buf, pending, seen, flat, slipped, made>>

(* ... or both pages to be faulted as dirty, ...                           *)
WriteBack(t) ==
    /\ stage[t] = "used" /\ pending[t] # NoAccess
    /\ stage' = [stage EXCEPT ![t] = "scatter"]
    /\ back' = [back EXCEPT ![t] = pending[t]]
    /\ pending' = [pending EXCEPT ![t] = NoAccess]
    /\ UNCHANGED <<vars, acc, at, buf, seen, flat, slipped, made>>

(* Faulty: only the bytes of the first page are copied.                    *)
ScatterFirst(t) ==
    LET first == [i \in 0 .. (InFirstPage(back[t]) - 1) |-> buf[t][i]] IN
    /\ stage[t] = "scatter" /\ pc[t] = "idle" /\ AllLinked(t)
    /\ data' = Scattered(t, back[t], first)
    /\ stage' = [stage EXCEPT ![t] = "idle"]
    /\ at' = [at EXCEPT ![t] = <<>>]
    /\ UNCHANGED <<threadVars, cache, ref, dirty, backing,
                   acc, buf, pending, back, seen, flat, slipped, made>>

(* ... and the buffer copied to them.                                      *)
Scatter(t) ==
    /\ stage[t] = "scatter" /\ pc[t] = "idle" /\ AllLinked(t)
    /\ data' = Scattered(t, back[t], buf[t])
    /\ stage' = [stage EXCEPT ![t] = "idle"]
    /\ at' = [at EXCEPT ![t] = <<>>]
    /\ UNCHANGED <<threadVars, cache, ref, dirty, backing,
                   acc, buf, pending, back, seen, flat, slipped, made>>

CrossStep(t) ==
    \/ PageFault(t) \/ PageFaultStep(t) \/ PageFaulted(t) \/ Linked(t)
    \/ LoadBytes(t) \/ \E v \in {0, 1} : StoreBytes(t, v)
    \/ NothingPending(t) \/ WriteBack(t) \/ Scatter(t)

CrossNext ==
    \E t \in Threads : CrossStep(t) \/ \E a \in Program[t] : Begin(t, a)

CrossSpec == CrossInit /\ [][CrossNext]_allVars

---------------------------------------------------------------------------
(* Properties.  A page dropped between the two links of one access can be  *)
(* evicted before its bytes are copied; but for that nothing goes wrong,   *)
(* though the buffer is written back after loads too and other threads     *)
(* store to the bytes beside it.                                           *)

(* A load returns the bytes last stored at its address (lines 588-605).    *)
LoadsSeeStores ==
    \A t \in Threads :
        seen[t] # <<>> /\ stage[t] # "idle" /\ ~slipped =>
            \A i \in DOMAIN seen[t] : seen[t][i] = flat[acc[t].addr + i]

(* Between accesses the memory is what a flat memory would be: no byte of  *)
(* a store is lost in the buffer, and writing back never reverts a store   *)
(* of another thread (lines 530-556).                                      *)
StoresReachMemory ==
    (\A t \in Threads : stage[t] = "idle") /\ ~slipped =>
        \A n \in DOMAIN flat : Mem[n \div PageSize][n % PageSize] = flat[n]

---------------------------------------------------------------------------
(* What makes the invariants above inductive, part by part.                *)

CrossTypes ==
    /\ stage \in [Threads -> {"idle", "link", "use", "used", "scatter"}]
    /\ acc \in [Threads -> ProgramAccesses \cup {NoAccess}]
    /\ at \in [Threads -> Seq([f : Frames, o : Offsets])]
    /\ buf = [t \in Threads |-> buf[t]] /\ seen = [t \in Threads |-> seen[t]]
    /\ pending = [t \in Threads |-> pending[t]] /\ back = [t \in Threads |-> back[t]]
    /\ flat \in [0 .. (Bytes - 1) -> Values]

(* What the stages of an access have done so far: an access that crosses   *)
(* is left for the write-back, which finds the access it follows.          *)
StageInv(t) ==
    /\ stage[t] # "idle" => acc[t] \in ProgramAccesses
    /\ stage[t] = "scatter" => back[t] = acc[t] /\ Crosses(acc[t])
    /\ pending[t] = IF stage[t] \in {"use", "used"} /\ Crosses(acc[t])
                      THEN acc[t] ELSE NoAccess
    /\ stage[t] \in {"link", "use"} => seen[t] = <<>>
    /\ stage[t] \in {"idle", "used"} => at[t] = <<>>
    /\ stage[t] \in {"link", "scatter"} => Len(at[t]) <= Len(Parts(acc[t]))
    /\ stage[t] = "use" => AllLinked(t)
    /\ pc[t] # "idle" => /\ stage[t] \in {"link", "scatter"} /\ ~AllLinked(t)
                         /\ req[t] = RequestOf(t)

(* The parts linked so far are in the thread's TLB still, dirty if they    *)
(* will be written: the lstore keeps their frames.                         *)
PartsStay(t) ==
    \A i \in 1 .. Len(at[t]) :
        LET n == Parts(acc[t])[i] IN
        \E j \in Counted(t) :
            /\ tlb[t][j].bs = n \div PageSize
            /\ tlb[t][j].epc = at[t][i].f /\ at[t][i].o = n % PageSize
            /\ stage[t] = "scatter" \/ acc[t].dirty => tlb[t][j].dirty

NoConflicts ==
    \A t, u \in Threads :
        t # u /\ stage[t] # "idle" /\ stage[u] # "idle" => ~Conflict(acc[t], acc[u])

FlatBytes(a) == [i \in 0 .. (a.size - 1) |-> flat[a.addr + i]]

(* Whoever loads or gathers gets the bytes of the flat memory, ...         *)
BytesCurrent(t) ==
    /\ stage[t] \in {"use", "used", "scatter"} /\ Crosses(acc[t]) =>
          buf[t] = FlatBytes(acc[t])
    /\ stage[t] # "idle" /\ seen[t] # <<>> => seen[t] = FlatBytes(acc[t])

(* ... which the lstore has, but for those in a buffer to be written back. *)
InBuffer(n) ==
    \E t \in Threads : /\ stage[t] \in {"used", "scatter"}
                       /\ acc[t].dirty /\ Crosses(acc[t]) /\ n \in BytesOf(acc[t])
MemByte(n) == Mem[n \div PageSize][n % PageSize]
MemCurrent == \A n \in 0 .. (Bytes - 1) : InBuffer(n) \/ MemByte(n) = flat[n]

CrossGood ==
    /\ LinkInv /\ CrossTypes
    /\ \A t \in Threads : StageInv(t) /\ PartsStay(t) /\ BytesCurrent(t)
    /\ NoConflicts /\ MemCurrent

CrossInv == ~slipped => CrossGood
===========================================================================
