---------------------------- MODULE CarmorLink ----------------------------
(***************************************************************************)
(* Linking a tagged pointer, mem/armor_runtime.cpp: a thread looks the     *)
(* page up in its own TLB and, on a miss, asks the lstore for the page     *)
(* (mpf_handler_c), tells it which page fell out of the TLB                *)
(* (notify_tlb_dropped) and which one came in (notify_tlb_cached), then    *)
(* dereferences the cache address the link returned.                       *)
(*                                                                         *)
(* The lstore itself (its page cache, reference counts, dirty marks and    *)
(* backing storage) is not in this repository: it is the environment the   *)
(* calls above assume, and the definitions that stand for it say so.       *)
(***************************************************************************)
EXTENDS Integers, FiniteSets

CONSTANTS
    Threads,        \* the program's threads
    InitThreads,    \* those that ran __carmor_initialize_template
    Pages,          \* page indices of the storage area
    Frames,         \* indices of the page cache's slots
    TLBSize,        \* TLB_SIZE
    IndexMod,       \* number of values of an unsigned page index (2^32)
    EpcMod,         \* number of values of epc_page_index (2^16)
    LstoreMod,      \* number of page indices the lstore tells apart
    Offsets,        \* offsets within a page
    Values,         \* what a byte can hold; fresh storage holds 0
    NoValue,        \* no value was read yet
    Accesses        \* the addresses the program loads and stores

ASSUME ConstantsOK ==
    /\ IsFiniteSet(Threads) /\ InitThreads \subseteq Threads
    /\ IsFiniteSet(Pages)
    /\ TLBSize \in Nat \ {0}
    /\ IndexMod \in Nat \ {0} /\ EpcMod \in Nat \ {0} /\ LstoreMod \in Nat
    /\ IndexMod <= LstoreMod

(* Page indices fit a non-negative int32_t and frame indices a uint16_t:   *)
(* beyond that the narrow fields of s_victim_cache lose information.       *)
ASSUME IndicesFit ==
    /\ Pages \subseteq 0 .. ((IndexMod \div 2) - 1)
    /\ Frames \subseteq 0 .. (EpcMod - 1)

ASSUME ValuesOK == 0 \in Values /\ NoValue \notin Values

ASSUME AccessesOK ==
    Accesses \subseteq [page : Pages, off : Offsets, dirty : BOOLEAN]

VARIABLES
    tlb,            \* gt_TLB of each thread, slot 1 the newest
    pc,             \* where each thread is
    req,            \* the address it is linking: page, offset, dirty
    res,            \* the frame mpf_handler_c or the TLB gave it
    val,            \* the value its last load returned
    cache,          \* lstore: the page each frame holds
    ref,            \* lstore: reference count of each page
    dirty,          \* lstore: pages reported dirty since they were loaded
    data,           \* lstore: contents of each frame
    backing         \* lstore: contents of each page in storage

threadVars == <<tlb, pc, req, res, val>>
lstoreVars == <<cache, ref, dirty, data, backing>>
vars == <<threadVars, lstoreVars>>

---------------------------------------------------------------------------
(* Data *)

Slots == 1 .. TLBSize
NoPage == -1
NoReq == [page |-> NoPage, off |-> -1, dirty |-> FALSE]
Locations == {"new", "idle", "fault", "drop", "insert", "linked"}

Entry(p, f, d) == [bs |-> p, epc |-> f, dirty |-> d]

(* memset(gt_TLB, 0xFF, ...) and the zeroes of a fresh thread's gt_TLB. *)
EmptyEntry == Entry(-1, EpcMod - 1, TRUE)
ZeroEntry == Entry(0, 0, FALSE)

(* Faulty variants of definitions that follow, each with one mistake: the  *)
(* properties below tell them from the code.                               *)
UnshiftedIndex(u) == 2 * u          \* line 493 without the shift of line 453
NarrowEpcIndex(f) == f % 2          \* an epc_page_index too narrow
MirroredPtrPage(b, r) == (b + ((b - r) % IndexMod)) % LstoreMod

(* int32_t -> unsigned, unsigned -> int32_t, and a frame into uint16_t. *)
AsUnsigned(i) == i % IndexMod
AsSigned(u) == IF u < IndexMod \div 2 THEN u ELSE u - IndexMod
EpcIndex(f) == f % EpcMod

(* The page of removed_bs_page as the lstore sees it: the unsigned         *)
(* difference of the indices times the page size is subtracted from the    *)
(* pointer being linked.                                                   *)
RemovedPtrPage(b, r) == (b - AsUnsigned(b - r)) % LstoreMod

(* The slots the do-while of the lookup can stop at; it stops at the first. *)
Hits(t, p) == {i \in Slots : AsUnsigned(tlb[t][i].bs) = p}
FirstHit(t, p) == CHOOSE i \in Hits(t, p) : \A j \in Hits(t, p) : i <= j

---------------------------------------------------------------------------
(* Initial states *)

Init ==
    /\ tlb = [t \in Threads |-> [i \in Slots |-> ZeroEntry]]
    /\ pc = [t \in Threads |-> IF t \in InitThreads THEN "new" ELSE "idle"]
    /\ req = [t \in Threads |-> NoReq]
    /\ res = [t \in Threads |-> 0]
    /\ val = [t \in Threads |-> NoValue]
    /\ cache = [f \in Frames |-> NoPage]
    /\ ref = [p \in Pages |-> 0]
    /\ dirty = [p \in Pages |-> FALSE]
    /\ data = [f \in Frames |-> [o \in Offsets |-> 0]]
    /\ backing = [p \in Pages |-> [o \in Offsets |-> 0]]

(* __carmor_initialize_template fills the calling thread's TLB with 0xFF,  *)
(* once lstore_init has succeeded; it aborts when that fails.              *)
Initialize(t) ==
    /\ pc[t] = "new"
    /\ pc' = [pc EXCEPT ![t] = "idle"]
    /\ tlb' = [tlb EXCEPT ![t] = [i \in Slots |-> EmptyEntry]]
    /\ UNCHANGED <<req, res, val, lstoreVars>>

---------------------------------------------------------------------------
(* Linking *)

(* Faulty: the entry stays clean when a store finds it.                    *)
LinkHitStaysClean(t, r) ==
    /\ pc[t] = "idle"
    /\ Hits(t, r.page) # {}
    /\ res' = [res EXCEPT ![t] = tlb[t][FirstHit(t, r.page)].epc]
    /\ pc' = [pc EXCEPT ![t] = "linked"]
    /\ req' = [req EXCEPT ![t] = r]
    /\ val' = [val EXCEPT ![t] = NoValue]
    /\ UNCHANGED <<tlb, lstoreVars>>

(* The lookup finds the page: the entry becomes dirty if the access is, and *)
(* the frame is taken from the entry.                                      *)
LinkHit(t, r) ==
    /\ pc[t] = "idle"
    /\ Hits(t, r.page) # {}
    /\ LET i == FirstHit(t, r.page) IN
        /\ tlb' = [tlb EXCEPT ![t][i].dirty = @ \/ r.dirty]
        /\ res' = [res EXCEPT ![t] = tlb[t][i].epc]
    /\ pc' = [pc EXCEPT ![t] = "linked"]
    /\ req' = [req EXCEPT ![t] = r]
    /\ val' = [val EXCEPT ![t] = NoValue]
    /\ UNCHANGED lstoreVars

LinkMiss(t, r) ==
    /\ pc[t] = "idle"
    /\ Hits(t, r.page) = {}
    /\ pc' = [pc EXCEPT ![t] = "fault"]
    /\ req' = [req EXCEPT ![t] = r]
    /\ val' = [val EXCEPT ![t] = NoValue]
    /\ UNCHANGED <<tlb, res, lstoreVars>>

(* lstore: a frame some thread was just given and has not yet counted. *)
Held(f) == \E u \in Threads : pc[u] \in {"drop", "insert"} /\ res[u] = f

(* lstore: a frame that can take a new page. *)
Loadable(f) == cache[f] # NoPage => ref[cache[f]] = 0 /\ ~Held(f)

(* lstore: frame f gives up its page, writing it back if it was reported   *)
(* dirty, and is filled with page p.                                       *)
Load(f, p) ==
    LET q == cache[f] IN
    /\ cache' = [cache EXCEPT ![f] = p]
    /\ IF q # NoPage /\ dirty[q]
         THEN backing' = [backing EXCEPT ![q] = data[f]]
         ELSE backing' = backing
    /\ dirty' = IF q = NoPage THEN dirty ELSE [dirty EXCEPT ![q] = FALSE]
    /\ data' = [data EXCEPT ![f] = backing[p]]

(* mpf_handler_c: the frame of the page, after loading it if need be. *)
FaultResident(t) ==
    /\ pc[t] = "fault"
    /\ \E f \in Frames :
        /\ cache[f] = req[t].page
        /\ res' = [res EXCEPT ![t] = f]
    /\ pc' = [pc EXCEPT ![t] = "drop"]
    /\ UNCHANGED <<tlb, req, val, lstoreVars>>

FaultLoad(t) ==
    /\ pc[t] = "fault"
    /\ \A f \in Frames : cache[f] # req[t].page
    /\ \E f \in Frames :
        /\ Loadable(f)
        /\ Load(f, req[t].page)
        /\ res' = [res EXCEPT ![t] = f]
    /\ pc' = [pc EXCEPT ![t] = "drop"]
    /\ UNCHANGED <<tlb, req, val, ref>>

(* Faulty: the drop reports the page clean, ...                            *)
DropReportsClean(t) ==
    LET last == tlb[t][TLBSize]
        p == RemovedPtrPage(req[t].page, last.bs)
    IN
    /\ pc[t] = "drop"
    /\ pc' = [pc EXCEPT ![t] = "insert"]
    /\ ref' = IF last.bs >= 0 /\ p \in Pages THEN [ref EXCEPT ![p] = @ - 1] ELSE ref
    /\ UNCHANGED <<tlb, req, res, val, cache, dirty, data, backing>>

(* ... or takes page 0 for an empty entry (> 0 for >= 0 at line 482).      *)
DropForgetsPageZero(t) ==
    LET last == tlb[t][TLBSize]
        p == RemovedPtrPage(req[t].page, last.bs)
    IN
    /\ pc[t] = "drop"
    /\ pc' = [pc EXCEPT ![t] = "insert"]
    /\ IF last.bs > 0 /\ p \in Pages
         THEN /\ ref' = [ref EXCEPT ![p] = @ - 1]
              /\ dirty' = [dirty EXCEPT ![p] = @ \/ last.dirty]
         ELSE UNCHANGED <<ref, dirty>>
    /\ UNCHANGED <<tlb, req, res, val, cache, data, backing>>

(* The entry in the last slot falls out: its page is released, and its     *)
(* dirty mark handed to the lstore.                                        *)
Drop(t) ==
    LET last == tlb[t][TLBSize]
        p == RemovedPtrPage(req[t].page, last.bs)
    IN
    /\ pc[t] = "drop"
    /\ pc' = [pc EXCEPT ![t] = "insert"]
    /\ IF last.bs >= 0 /\ p \in Pages
         THEN /\ ref' = [ref EXCEPT ![p] = @ - 1]
              /\ dirty' = [dirty EXCEPT ![p] = @ \/ last.dirty]
         ELSE UNCHANGED <<ref, dirty>>
    /\ UNCHANGED <<tlb, req, res, val, cache, data, backing>>

(* Faulty: the lstore is not told of the new page, ...                     *)
InsertUncounted(t) ==
    LET new == Entry(AsSigned(req[t].page), EpcIndex(res[t]), req[t].dirty) IN
    /\ pc[t] = "insert"
    /\ pc' = [pc EXCEPT ![t] = "linked"]
    /\ tlb' = [tlb EXCEPT ![t] =
                 [i \in Slots |-> IF i = 1 THEN new ELSE tlb[t][i - 1]]]
    /\ UNCHANGED <<req, res, val, lstoreVars>>

(* ... or the new entry takes the last slot, without the memmove.          *)
InsertLast(t) ==
    LET new == Entry(AsSigned(req[t].page), EpcIndex(res[t]), req[t].dirty) IN
    /\ pc[t] = "insert"
    /\ pc' = [pc EXCEPT ![t] = "linked"]
    /\ tlb' = [tlb EXCEPT ![t][TLBSize] = new]
    /\ ref' = [ref EXCEPT ![req[t].page] = @ + 1]
    /\ UNCHANGED <<req, res, val, cache, dirty, data, backing>>

(* memmove of the TLB, notify_tlb_cached and the new first entry. *)
Insert(t) ==
    LET new == Entry(AsSigned(req[t].page), EpcIndex(res[t]), req[t].dirty) IN
    /\ pc[t] = "insert"
    /\ pc' = [pc EXCEPT ![t] = "linked"]
    /\ tlb' = [tlb EXCEPT ![t] =
                 [i \in Slots |-> IF i = 1 THEN new ELSE tlb[t][i - 1]]]
    /\ ref' = [ref EXCEPT ![req[t].page] = @ + 1]
    /\ UNCHANGED <<req, res, val, cache, dirty, data, backing>>

---------------------------------------------------------------------------
(* The instrumented access: a load links with dirty = FALSE, a store with   *)
(* dirty = TRUE, and both dereference the cache address the link returned. *)

(* The address a link returned is not kept beyond the access.              *)
Return(t) ==
    /\ pc' = [pc EXCEPT ![t] = "idle"]
    /\ req' = [req EXCEPT ![t] = NoReq]
    /\ res' = [res EXCEPT ![t] = 0]

LoadLinked(t) ==
    /\ pc[t] = "linked"
    /\ ~req[t].dirty
    /\ val' = [val EXCEPT ![t] = data[res[t]][req[t].off]]
    /\ Return(t)
    /\ UNCHANGED <<tlb, lstoreVars>>

StoreLinked(t, v) ==
    /\ pc[t] = "linked"
    /\ req[t].dirty
    /\ data' = [data EXCEPT ![res[t]][req[t].off] = v]
    /\ Return(t)
    /\ UNCHANGED <<tlb, val, cache, ref, dirty, backing>>

Access(t) == LoadLinked(t) \/ \E v \in Values : StoreLinked(t, v)

(* The steps of a link once it was called. *)
LinkStep(t) == FaultResident(t) \/ FaultLoad(t) \/ Drop(t) \/ Insert(t)

Next ==
    \E t \in Threads :
        \/ Initialize(t)
        \/ \E r \in Accesses : LinkHit(t, r) \/ LinkMiss(t, r)
        \/ LinkStep(t)
        \/ Access(t)

Spec == Init /\ [][Next]_vars

(* A thread inside a link keeps running: there is nothing in the runtime   *)
(* it could wait for but a frame.                                          *)
Fairness == \A t \in Threads : WF_vars(LinkStep(t))

FairSpec == Spec /\ Fairness

---------------------------------------------------------------------------
(* Properties *)

TypeOK ==
    /\ tlb \in [Threads -> [Slots ->
                 [bs : Pages \cup {NoPage, 0},
                  epc : 0 .. (EpcMod - 1), dirty : BOOLEAN]]]
    /\ pc \in [Threads -> Locations]
    /\ req \in [Threads -> Accesses \cup {NoReq}]
    /\ res \in [Threads -> 0 .. (EpcMod - 1)]
    /\ val \in [Threads -> Values \cup {NoValue}]
    /\ cache \in [Frames -> Pages \cup {NoPage}]
    /\ ref \in [Pages -> Int]
    /\ dirty \in [Pages -> BOOLEAN]
    /\ data \in [Frames -> [Offsets -> Values]]
    /\ backing \in [Pages -> [Offsets -> Values]]

(* The slots whose page this thread has counted at the lstore: an entry    *)
(* filled by a link, except the last one between its drop and the memmove. *)
Counted(t) ==
    {i \in Slots : /\ pc[t] # "new"
                   /\ tlb[t][i].bs >= 0
                   /\ ~(pc[t] = "insert" /\ i = TLBSize)}

Holders(p) == {t \in Threads : \E i \in Counted(t) : tlb[t][i].bs = p}

(* A TLB never sends an access to a frame that by now holds another page:  *)
(* no eviction happens behind a cached translation's back (lines 462-469   *)
(* trust the entry without asking the lstore).                             *)
TlbCoherent ==
    \A t \in Threads : \A i \in Counted(t) :
        cache[tlb[t][i].epc] = tlb[t][i].bs

(* The lstore's reference count of a page is at all times the number of    *)
(* threads whose TLB has the page: each notify_tlb_cached is paired with   *)
(* exactly one notify_tlb_dropped that names the same page (lines 475-492).*)
RefMatches == \A p \in Pages : ref[p] = Cardinality(Holders(p))

(* When a thread is about to dereference the address a link returned, the  *)
(* frame still holds the page it asked for and cannot be evicted.          *)
LinkedFrameStays ==
    \A t \in Threads :
        pc[t] = "linked" => /\ cache[res[t]] = req[t].page
                            /\ ~Loadable(res[t])

(* A page nobody remembers as dirty, neither the lstore nor a TLB entry,   *)
(* equals its copy in storage: evicting it cannot lose a store.            *)
NothingLost ==
    \A f \in Frames :
        \/ cache[f] = NoPage
        \/ dirty[cache[f]]
        \/ \E t \in Threads : \E i \in Counted(t) :
              tlb[t][i].bs = cache[f] /\ tlb[t][i].dirty
        \/ data[f] = backing[cache[f]]

(* With one frame per TLB slot and one per link in flight, a fault always  *)
(* finds a frame: no thread waits for another to drop a page.              *)
FrameAvailable ==
    \A t \in Threads :
        pc[t] = "fault" =>
            \E f \in Frames : cache[f] = req[t].page \/ Loadable(f)

(* A link that missed returns.                                             *)
LinkReturns == \A t \in Threads : pc[t] = "fault" ~> pc[t] = "linked"

(* The memory the program sees: the cached copy of a page if there is one. *)
Mem == [p \in Pages |->
          IF \E f \in Frames : cache[f] = p
            THEN data[CHOOSE f \in Frames : cache[f] = p]
            ELSE backing[p]]

Flat == INSTANCE FlatMemory WITH mem <- Mem, want <- req

(* Accesses through links are accesses to one flat memory (FlatMemory).    *)
LinksAreFlat == Flat!FlatSpec

---------------------------------------------------------------------------
(* What makes the invariants above inductive, part by part.                *)

(* A request is pending exactly inside a link or an access. *)
ReqPending ==
    \A t \in Threads : pc[t] \in {"new", "idle"} <=> req[t] = NoReq

(* After initialisation an entry is empty or names a page and a frame. *)
EntriesUsable ==
    \A t \in Threads : pc[t] # "new" =>
        \A i \in Slots :
            \/ tlb[t][i].bs = NoPage
            \/ tlb[t][i].bs \in Pages /\ tlb[t][i].epc \in Frames

(* A TLB has a page at most once: a link inserts only what the lookup did  *)
(* not find.                                                               *)
NoDuplicates ==
    \A t \in Threads : pc[t] # "new" =>
        \A i, j \in Slots :
            tlb[t][i].bs = tlb[t][j].bs /\ tlb[t][i].bs # NoPage => i = j

(* While a miss is handled the page is not in the thread's TLB, ... *)
MissStaysMissed ==
    \A t \in Threads : pc[t] \in {"fault", "drop", "insert"} =>
        \A i \in Slots : tlb[t][i].bs # req[t].page

(* ... and once it was brought in, it stays until it is counted.           *)
InFlightStays ==
    \A t \in Threads : pc[t] \in {"drop", "insert"} =>
        res[t] \in Frames /\ cache[res[t]] = req[t].page

(* A link returns the frame of a TLB entry, marked dirty for a store. *)
LinkedEntry ==
    \A t \in Threads : pc[t] = "linked" =>
        \E i \in Slots : /\ tlb[t][i].bs = req[t].page
                         /\ tlb[t][i].epc = res[t]
                         /\ req[t].dirty => tlb[t][i].dirty

(* A page is in at most one frame. *)
CacheInjective ==
    \A f, g \in Frames : cache[f] = cache[g] /\ cache[f] # NoPage => f = g

LinkInv ==
    /\ TypeOK
    /\ ReqPending
    /\ EntriesUsable
    /\ NoDuplicates
    /\ MissStaysMissed
    /\ InFlightStays
    /\ LinkedEntry
    /\ TlbCoherent
    /\ CacheInjective
    /\ RefMatches
    /\ NothingLost
===========================================================================
