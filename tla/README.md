# A TLA+ model of the carmor runtime and its passes

carmor compiles a C program so that annotated data lives in a *local store*
(lstore): pointers into it carry a tag in their top four bits, and the compiler
puts a call in front of every access that turns the tagged pointer into an
address of a page cache. `src/mem` is the runtime those calls reach,
`src/passes` a set of LLVM passes, `src/outoftree` the tool that reads the
annotations. This directory models the runtime and the passes in TLA+,
model-checks them with TLC on small instances and proves their main results with
TLAPS.

    tlc -workers 2 -config MCLinkCoherence.cfg MCCarmorLink.tla
    tlapm CarmorLink_proofs.tla

## Inventory

| Component | Code | State | Operations | Hard part |
|---|---|---|---|---|
| Cached link and TLB | `mem/armor_runtime.cpp` 73-107, 228-248, 441-528 | a TLB per thread; behind the calls, the lstore's page cache, reference counts and dirty marks | initialise, look up, fault, drop, insert | the lstore is shared by threads, and the TLB trusts what it remembers; between two calls into the lstore anything can happen |
| Memory intrinsics | 876-1139 | raw addresses of two operands, bytes left | memcpy, memmove, memcmp, memchr, memset in chunks | two links of one thread in use at once, every alignment of operands |
| Valid iterations | 406-439, 653-683 | none | how long a hoisted link serves a loop | integer arithmetic at page boundaries, both directions |
| Cross-page accesses | 110-113, 530-556, 573-651 | buffer, pending write-back | link through a buffer, write back | two faults per access, stale buffer |
| Direct links | 107-127, 687-822, 826-874 | one buffer per thread, sized once | fetch, write back, fill, dispatch on the tag | buffer reuse, whole pages written back, missing `break`s |
| Heap wrappers | 263-404, 558-571, `mem/common.h` 111-170 | allocations of libc and of four lstores | malloc, calloc, memalign, realloc, free, globals | failed allocations, tags, sizes, which allocator a pointer came from |
| Virtual pointer table | `mem/memory.c`, `mem/uthash.h` | counter, hash table | set, get | none: a prototype nothing calls |
| Stub lstore, buffer allocation | 144-224, `mem/mstore_common.h` | none | placeholders the compiler replaces, mmap | none |
| Test lstore, example | `mem/test_lstore.cpp`, `mem/example.c` | a map | demonstration | none |
| Call counters | `passes/lib/*CallCounter*.cpp` | a counter per function | instrument, count, print | unsynchronised counting, which calls count where |
| RIV, DuplicateBB | `passes/lib/RIV.cpp`, `DuplicateBB.cpp` | values reachable per block; a re-mapping | walk of the dominator tree, duplication | values replaced while they are still to be used |
| MBA, Ratio | `passes/lib/MBA*.cpp`, `Ratio.cpp` | none | rewrite arithmetic, pick at random | equality at every width, uses of what is erased |
| Pass drivers | `passes/tools`, `passes/HelloWorld` | files on disk | parse, instrument, verify, save, compile, link; report | a step fails and files of an earlier build remain |
| Comment tool | `outoftree/commenttool` | none | removes declarations from a source text | none |

How they interact: the compiler emits a call of a link before each access (or,
for a loop, before a run of accesses as long as the valid-iterations function
allows), and replaces libc's memory functions by the intrinsics. A link consults
its thread's TLB, and on a miss calls the lstore three times: `mpf_handler_c`
brings the page in, `notify_tlb_dropped` gives back the page that falls out of
the TLB, `notify_tlb_cached` counts the new one. The intrinsics reach the same
link through `__carmor_page_fault`. The heap wrappers produce the tagged
pointers; `calloc` and `realloc` call the intrinsics. The lstore is chosen by
the compiler and is not in the repository. A direct lstore has no page cache: its
links copy the bytes of one access to a buffer of the thread and, after a store,
back. The passes are separate: `opt` rewrites a module with them, `static`
reports on it, and `dynamic` instruments it and builds a binary whose threads
call the counting runtime.

What makes each correct: a link's address must lead to the page asked for until
it is used; no store may be lost by an eviction; counts must stay exact, or
pages are evicted in use or never; a fault must find a frame; an intrinsic must
do what libc does; a loop must stay inside what it linked; a heap wrapper must
give each pointer to the allocator it came from, and the objects the program sees
must be those of a C heap; a pass must leave a module that verifies and means what it meant; a count
must be the number of calls; a build that reports success must have built.
PROJECT.json lists the hazards line by line.

## Modules

`FlatMemory` is the promise: all threads read and write one flat memory, an
access beginning and taking effect in two steps.

`CarmorLink` is the link and the lstore around it. `tlb` is `gt_TLB` of each
thread, slot 1 the newest; `pc` says where a thread is in
`__carmor_link_cached_template`:

| Action | Code |
|---|---|
| `Initialize` | the `memset` of 228-248 (a thread outside `InitThreads` never runs it and keeps the zeroed TLB) |
| `LinkHit` | the loop of 461-471 stops at an entry, marks it and returns |
| `LinkMiss` | the loop ends without an entry |
| `FaultResident`, `FaultLoad` | `mpf_handler_c`, line 475: the page's frame, or any evictable one |
| `Drop` | 478-486, with the unsigned arithmetic that names the dropped page (`RemovedPtrPage`) |
| `Insert` | 488-501: `memmove`, `notify_tlb_cached`, the new entry with its narrow fields |
| `LoadLinked`, `StoreLinked` | the access of the program through the returned address |

These are separate actions because the code calls into the lstore between them
and threads share it; what lies between two calls touches only the thread's own
TLB. The lstore (`cache`, `ref`, `dirty`, `data`, `backing`, and `Held`,
`Loadable`, `Load`) is modelled from what the calls need: it may evict any page
whose count is zero and which no fault has just returned, and writes a page back
if it was reported dirty. `Held` is an assumption about the lstore: the
interface gives the frame no reference between `mpf_handler_c` and
`notify_tlb_cached`, so an lstore has to protect it by itself.

`MemWrapper` extends `CarmorLink`: a wrapper calls links (`PageFault`,
`PageFaulted`) and works on raw addresses between them (`Chunk`, `LastChunk`,
libc's function on one chunk). `place` is `vl0`/`vr0`, `ptr` is `vl1`/`vr1`,
`todo` the operands still to be linked before the next chunk. The
single-operand wrapper (1000-1077) is the same with the byte argument as its
second operand. `Goal` computes, at the call, what libc would leave on flat
memory. Results are kept as the code returns them: a `memchr` that finds its byte
returns the raw address of that byte in the page cache, untagged, and not libc's
pointer into the operand (1057, 1129). `CallsDoTheirJob` therefore says of it only
that it leads to libc's byte when the call returns (`LeadsTo`); `result` stays with
the program afterwards, and the run wrapper_memchr shows that the page under it
does not. `TakenByOthers` is a fault of a thread outside the model: it takes any
frame the lstore may give away, at any moment.

`CrossPage` extends `CarmorLink` too: an access is linked part by part
(`PageFault`, `PageFaulted`, `at` holding the raw addresses), gathered into the
buffer (`Linked`), used, and scattered by the write-back (`WriteBack`,
`Scatter`). The template's own lookup and miss (603-650) are the same code as
447-502. Accesses are at most a page and at most `MaxAccessSize` (64 bytes) long;
the code does not check the latter against its buffer. The write-back is taken to be called after every access: the calls are
emitted by a compiler pass that is not in the repository, and a pending buffer
left by a load would be written over a later store. `flat` is what a flat memory
would hold; `slipped` records that the drop made by the second link of an access
hit the page of the first, after which that page may be evicted under the copy.

`ValidIterations` is 406-439, with truncating division (`Quotient`) and the
comparison of an int with a `size_t` (`EndsBeyondPage`), in the loop it is for. The
step is narrowed to an int of `IntMod` values first (`RealStep`).

`PointerTags` has the tag bits of `common.h` (a pointer is its set of upper bits
and an address) and the switches on them: `Dispatch` is the case a switch takes,
`NoCase` its aborting default.

`DirectLink` is the direct buffer. `mem[s]` are the cells of each lstore and of
native memory, `buf` is `gt_direct_buffer`, `acc` the access a thread is in
between its link and its last step. `LinkDirect` is 751-791, `WritebackDirect`
687-721, `Fill` what the intrinsics do to a direct lstore when they write to it
(memset, and memcpy from native memory): bytes are collected in the buffer and
whole pages written back. Native memory and cached lstores are flat here, which
`CarmorLink` shows of a cached lstore.

`Heap` extends `DirectLink` with 277-404 and 558-571. `taken[s]` are the blocks
an allocator has given out; `ptr` and `size` belong to the program. An allocator
answers with the lowest free range or fails, at any call (`Addresses`). Each heap
call is one action: the lstore's allocator, its tag and the intrinsic that
follows are one call of the program, and two threads do not touch the same
object during one (`NotAccessed`, `NoRace`); accesses through direct links are
three steps, so that those of several threads interleave. `why` is the reason
the program stopped (an assertion, `abort()` in the case of lstore 3, a fault
through NULL). `bad` names the uses after which the runtime promises nothing:

| `bad` | Code |
|---|---|
| `unchecked_alloc` | a failed `lstore_alloc` is tagged (284, 385-394, 562) |
| `memalign_free` | a memalign pointer is freed or resized (319-376); the base kept before it is never read |
| `calloc_wrap` | the product of 291 wraps |
| `int_size` | a block's size does not fit the int of 355 |
| `partial_page` | a fill of a direct lstore is not of whole pages (976-983, 1028-1054) |
| `small_buffer` | the thread's buffer was made for an lstore of smaller pages (118-127) |

These are hazards of the code without a statement in the repository they
contradict; they are modelled up to the step that meets them, and the properties
claim nothing beyond it. `CHeap` is the promise: objects of the program, with
`malloc`, `calloc`, `realloc`, `free`, loads and stores as C has them, any of
which may fail and then changes nothing.

`IR` is the part of LLVM the passes use: functions in SSA form, dominators, the
verifier's rules, and the execution of a module. It is external throughout. A
value's name is a tuple of words, so that clones get the original's name and a
word more, and an erased instruction is a name that nothing defines. `ModuleOK`
is the shape every module has that LLVM can read (distinct function names, a
terminator at the end of each block, branches inside the function and never to
its entry): `ProgramsOK` asks it of the programs, and nothing more about their
code. An execution is cut off after `Fuel * Fuel` steps (a bound); `Execute`
takes only programs that end before.

`RIV`, `DuplicateBB`, `MBA` and `CallCounter` are operators on such modules:
`ReachableValues` is `RIV::runOnFunction`; `Duplicated` is
`DuplicateBB::duplicate` for one block, with `ReMapperAfter`; `MBAAdd` and
`MBASub` rewrite instruction by instruction (`MixedAdd`, `MixedSub`), the first
under the draws of its generator; `Instrumented` and `StaticCount` are the two
counters.

`Toolchain` composes them. Its actions:

| Action | Code |
|---|---|
| `RunMBAAdd`, `RunMBASub` | the passes over every function of the file, under any accepted ratio |
| `PickTargets`, `Duplicate`, `DuplicateEnds` | `DuplicateBB::runOnFunction`: targets and context values first, then one duplication after the other |
| `Launch`, `CountStaticCalls` | `main` and `countStaticCalls` of static; a file that cannot be read ends either tool |
| `Launch`, `InstrumentAndVerify`, `SaveModule`, `Compile`, `Link` | `main` of dynamic; each step may fail and end the tool (`ReportFatalError`), leaving older files |
| `Execute`, `IncrLoad`, `IncrStore`, `PrintCounts` | the binary: `++count` as a load and a store per thread, and the destructor that prints when the first thread returns from main |

An execution's trace keeps apart the calls that name a function of the module
("enter") and those through a pointer ("ienter"), as it does those of external ones
("call", "invoke", "icall"). `CountsTrue` takes the code's word for what is counted,
an internal function's entries; finding 5 is that the documents promise direct calls.

`misled` is set when DuplicateBB was handed a context value its block cannot use
(see the end of Findings); the file is then broken, `opt` refuses it, and `SameMeaning`
and `FilesVerify` claim nothing of it.

Definitions marked "Faulty" differ from the one they precede by one mistake.
The specification does not use them: putting one in the place of the original
must make a property fail, which shows that the property depends on that code.

`MC*` modules give the constants small values.

## Runs

| Run | Instance | Shows |
|---|---|---|
| link_coherence | 2 threads, 4 pages (page 0 stored to, the others loaded), 4 frames, TLB of 2, bits as values | `TlbCoherent`, `RefMatches`, `LinkedFrameStays`, `NothingLost`, `LinksAreFlat` (refinement of `FlatMemory`), and the inductive invariant `LinkInv` of the proofs |
| link_live | 2 threads, 5 pages, 4 frames, TLB of 1, loads | `FrameAvailable`, `LinkReturns` |
| wrapper_calls | pages of 2 bytes, 6 pages, 4 frames, TLB of 3, all operands on disjoint pages, lengths 0-5 | `CallsDoTheirJob`, `DroppedNotInUse`, `CallsReturn`, and the inductive invariants `WrapperInv` and `FirstCallInv` |
| wrapper_drop | the code's TLB of 5, one memcpy between adjacent ranges | counterexample, see Findings |
| wrapper_move | memmove over overlapping ranges | counterexample |
| wrapper_memchr | the code's TLB of 5, a memchr and then a memset over five other pages | counterexample |
| cross_page | 2 threads, 4 pages of 2 bytes, 4 frames, TLB of 2; one thread crosses a page end and makes 3 accesses, the other stores beside it and makes 2 | `LoadsSeeStores`, `StoresReachMemory` and the inductive invariant `CrossInv`, all unless `slipped` |
| iterations | pages of 8, steps -9..9 in an int of 32 values, sizes 1-4 | `RunsInsideLink`, `RunInv`, `LoopEnds` |
| windows | steps shorter than the element | counterexample |
| heap | 2 threads, 2 pointers, 3 cells in each store; a cached lstore, one direct with pages of 2, lstore 3, and buffers of 1 left by a fourth; sizes 1 and 2, accesses of 1 and 3 | `HeapRefines` (refinement of `CHeap`), `BlocksOwned`, `LinkedBytesCurrent`, `TagsKnown`, and the inductive invariant `HeapInv` |
| passes | 6 programs (a branch, a loop, an invoke, calls, an invoke of an internal function), up to 2 passes, 3 blocks duplicated, 2 tools and 2 threads; runs of at most 625 steps | `SameMeaning`, `FilesVerify`, `FreshBinary`, `CountersKeepUp`, `CountsTrue`, `StaticCoversCalls` |
| direct_calls | the program with a function called directly and through a pointer | counterexample |

Why the bounds are enough to meet the interesting cases:

- Two threads are what a race needs. The lstore may put a page into any frame it
  may evict, even when another is free, so that with four pages, four frames and
  TLBs of two, pages are evicted, written back and loaded into other frames while
  the other thread's TLB still names the old ones; each miss on a full TLB drops
  an entry. One page stored to is enough for a store to be lost. `IndexMod` is a
  small power of two, so the index differences of line 484 wrap.
- link_live has one frame for each TLB slot and each fault in flight, the number
  the comment of `FrameAvailable` names, and one page more; with fewer frames a
  fault can wait for ever.
- In wrapper_calls an operand of five bytes at an odd offset spans three pages,
  so the two operands cross page ends at different chunks, and six links go
  through a TLB of three. Each call starts on an empty TLB: the operands are on
  disjoint pages and the TLB is long enough that a link drops only pages behind
  both operands. Without the first condition `DroppedNotInUse` fails, which is
  the run wrapper_drop; three entries are the fewest for which the theorem
  `FirstCallKeepsPages` promises it.
- In cross_page four pages meet in four frames only by choice of the lstore, so
  pages are evicted and reloaded with four; the second thread stores to the other
  byte of a page the first one gathers and scatters, and faults a page of its own
  that can take the frame of a dropped one. `slipped` is reachable in this
  instance, and both properties fail in it when that condition is left out: a
  crossing access that finds its first page in the oldest TLB entry and misses on
  the second copies from an evicted page.
- In heap, three cells hold two objects or one that must move; MinSize sends a
  malloc of one cell to native memory although its callers pass a cached lstore,
  so that the variables hold pointers of every store; `SizeMod` and `IntMod` are
  6, so that products and sizes wrap at the sizes used; a direct page of two cells
  holds parts of two objects. All thirteen actions fire, and every member of `bad`
  and every `why` is reached but the fault through NULL (a calloc of native memory
  that fails).
- In passes, a file meets two passes, so that each pass runs on the output of
  each; up to three blocks, among them parts of one duplicated by an earlier
  pass, are duplicated under every context value; the constants 255 and 200 make the 8-bit additions and
  subtractions wrap. Two tools make a second build fail on top of a first. Two
  threads that call the same functions lose increments. Every program ends well
  within the 25 * 25 steps of `Fuel`.
- For iterations, steps exceed the page in both directions, sizes divide the
  page or not, and a loop starts anywhere.

Frames are interchangeable in the model, so runs over `CarmorLink` compare
states by what the frames hold (`FramesView`, `WrapperView`, `CrossView`) and not by their
numbers; threads are interchangeable in link_coherence (symmetry;
not used with the liveness properties). `HeapView` leaves out the last operation
and the bytes of a buffer outside an access, and takes all states in which the
program has stopped or left the contract in the same way as one; threads and
pointers are interchangeable in heap. `val` and the values are part of the
view, so the refinement is not affected.

Deadlock is checked in the link runs. It is not in the others, where the bound
on calls, iterations, passes or tools ends every behaviour.

Fairness: `FairSpec` asks weak fairness of the steps of a link only. The runtime
holds no lock and waits for nothing inside a link, so a thread that the
scheduler runs at all takes its next step; nothing is asked of the program, which
may stop between accesses. `WrapperSpec` asks the same of the steps inside a
wrapper, and `ValidIterations` of the loop. Strong fairness is not needed:
`FrameAvailable` says that a fault never has to wait for another thread.

## Findings

1. **wrapper_drop.** Line 478 drops the oldest TLB entry "since no one else in
   this thread is currently using this value". A wrapper keeps raw addresses
   into two pages (912-963). A TLB hit does not make an entry younger, so when
   the destination's current page was linked long ago, the next link for the
   source drops it while the wrapper still writes to it; the lstore may evict it.
2. **wrapper_move.** `__carmor_memmove` splits into chunks upwards whatever the
   order of the ranges: with overlapping ranges and the destination above the
   source, a later chunk reads what an earlier one wrote.
3. **windows.** Line 436 holds the (commented out) assertion that the last granted
   iteration ends inside the page. It does not when the elements overlap: one
   iteration taken back (427) is too few when the step is shorter than the access.
4. **wrapper_memchr.** `__carmor_memchr` returns libc's result for a chunk: a raw
   address into the page cache without a tag. No reference keeps its page (line 478
   again: "no one else in this thread is currently using this value"), so a later
   miss of the thread drops it and the lstore may reuse the frame while the program
   holds the pointer.
5. **direct_calls.** The header of `DynamicCallCounter.cpp` (6), the README of the
   passes (159), the report's column "#N DIRECT CALLS" and `inputs/input_for_cc.c`
   (10-11: calls through casts "won't be counted") promise direct calls. An internal
   function is counted on entry (line 164), so its calls through pointers count too,
   as the test `dynamic-cc.ll` expects.

Not runs, but met on the way: a cross-page access can lose its first page in the
same way as the wrappers (`slipped`); only the initialising thread's TLB is made empty
(242), so other threads start with five entries that claim page 0; the theorems
therefore assume `InitThreads = Threads`. `WideLstoreMisled` shows that naming
the dropped page by an unsigned difference is wrong as soon as the lstore tells
apart at least twice as many pages as a 32-bit index (the product of line 484 is
not reduced to 32 bits when the page size is a `size_t`). The README
of the passes (257-258) says that the values RIV reports for a block can be used in
it; but the result of an invoke is handed down the dominator tree to its landing pad
and to the blocks behind it, where it does not exist (RIV.cpp 94), and DuplicateBB
leaves out the landing pad, not the blocks behind. RIV's comment "Arguments
and globals are always live" (70) is not what follows it either: globals are not
added, and arguments are whatever their type, so that DuplicateBB can compare a
floating-point argument with an integer zero. `VirtualMemory_set` (memory.c 31) never
increments `count`, so that all objects get the virtual pointer 1.

## Proofs

`CarmorLink_proofs` proves, for any finite set of threads and pages, any frames
and any TLB size:

- `LinkInvariant`: `Spec => []LinkInv`;
- `TranslationsCoherent`, `CountsExact`, `StoresKept`, `LinkedFramesStay`: the
  safety properties of the runs;
- `TypesKept`: the type invariant, which needs `LinkInv` for the fields of a TLB
  entry;
- `FaultsFindFrames`: `FrameAvailable`, provided there are
  `Cardinality(Threads) * (TLBSize + 1)` frames. Every frame that is neither free
  nor evictable is pinned by a TLB entry or a fault in flight of some thread
  (`PinnedBySomeone`), and each of the `TLBSize + 1` places of a thread pins one
  frame at most (`PinsOneFrame`);
- `LinksRefineFlatMemory`: `Spec => LinksAreFlat`;
- `WideLstoreMisled`, about the arithmetic alone.

Assumed: the named ASSUMEs of `CarmorLink` (indices fit their fields, 0 is a
value), `InitThreads = Threads`, and `LstoreMod = IndexMod` (the lstore tells
apart as many pages as the index does).

The argument. `TlbCoherent` is not inductive: a load may put a page into a frame
a TLB entry names, unless the entry's page has a positive count; so `RefMatches`
is needed, which counts for each page the threads whose TLB has it. Counting
holders and not entries needs `NoDuplicates`, which an insert keeps because what
it inserts was missed (`MissStaysMissed`). `InFlightStays` carries the page from
the fault to the insert, `LinkedEntry` from the insert or the hit to the access;
`CacheInjective` makes "the frame of a page" a function, and `NothingLost` is
what an eviction needs to be invisible. `LinkInv` is the conjunction; it is
checked by TLC in link_coherence and preserved by each action in one lemma.
The refinement maps `mem` to the cached copy of each page, or to its copy in
storage, and `want` to the pending request: only a store changes the mapped
memory, and a load or an eviction leaves it alone.

`MemWrapper_proofs` builds on these, for every page size, number of pages, frames
and TLB entries, and every call inside its objects:

- `RawAddressesStay`, for any threads: as long as `DroppedNotInUse` holds, so does
  `PlacesInv`, which ties each raw address to a TLB entry of the thread (dirty if
  the operand is written to) and so, through `LinkInv`, to a frame the lstore
  keeps. The condition cannot be left out: wrapper_drop refutes it in general.
- `WrapperInvariant` and `WrappersDoTheirJob`: under the same condition, in one
  thread and for operands that do not overlap (wrapper_move refutes it if they
  do), a call that returns left both memories as libc would and returns libc's
  result; for memchr, the raw address of the byte libc's pointer leads to, in the
  sense of `LeadsTo`: that it stays there is not claimed, and false (finding 4).
  `CallsDoTheirJob` speaks of the return only. The invariant, `JobInv`, says of
  each chunk's end that every byte is what the call has to leave there or is still
  to be written, that what is still to be copied is not overwritten, and that the
  bytes compared so far were equal (memcmp) or not the one looked for (memchr); of
  a returned memchr, that the page it leads into is in the thread's TLB (`KeptFor`),
  which is why no eviction between the return and the check can falsify it. A
  thread is alone because libc promises nothing to two threads that race; the
  lstore takes frames away all the same (`TakenByOthers`).
- `FirstCallInvariant` and `FirstCallKeepsPages`: the condition holds, for any
  threads, in a thread's first call if its operands share no page and the TLB has
  three entries or more (the code has five). Every link of such a call misses, so
  that an operand just linked is in entry 1. The chunks end where the first of the
  two operands reaches a page end; an operand that is behind in its page is linked
  sooner, and `Recent` counts the links of the other one since: two at most, and
  only when it is the operand's own turn next. For later calls it is false in
  general: an operand's page may hit in an old entry.
- `FirstCallDoesItsJob` puts both together: in one thread such a call does its
  job in the same sense, without a condition on the run.

`CrossPage_proofs` proves `CrossInvariant`, `LoadsGetStores` and `StoresArrive`
for every number of threads, page size and race-free program (`Begin` lets no
access conflict with one in progress): until a second link drops the first link's
page (`slipped`), crossing accesses behave as accesses to one flat memory.
`PartsStay` keeps the parts linked so far in the thread's TLB; `MemCurrent` says
that the lstore holds the flat memory but for bytes in a buffer that is to be
written back. A write-back that follows a load writes too: `BytesCurrent` shows
that it writes what is there, as no other thread stores to those bytes meanwhile.
What remains when `slipped` is set is the hazard itself, and nothing is claimed.

`Heap_proofs` proves `HeapInvariant`, `BlocksAreOwned`,
`LinkedBytesStayCurrent` and `HeapIsCHeap` (`Spec => HeapRefines`): for any threads,
variables, sizes, page sizes and sets of direct lstores, the wrappers and the
direct links are a C heap until they meet one of the uses in `bad`, or stop.
`BlocksOwned` is not inductive: that a free gives back the right block needs the
blocks of a store to be apart, each object in one block and each block with one
object (`BlocksInv`); that a store's bytes survive in a buffer until they are
written back needs that no other access, and no call, touches the object
meanwhile (`NoRaces`, `AccessesInside`). The lemma `HeapStep` shows for each of the
actions both that the invariant is kept and that the step is one of `CHeap` or a
stutter: the abstract object of a variable is what its block's cells hold.

It also proves `PointersDispatch`: for every set of lstore sizes, blocks
and variables, every pointer the wrappers hand out selects native memory or one
of four lstores. The invariant says of each variable that its tag is empty or is
one of the four masks, and that accesses in progress carry such pointers; it
needs that a mask is put on untagged addresses only, which is what `TaggedTwice`
breaks.

`ValidIterations_proofs` proves `IterationsInvariant` (`RunInv`) and `IterationsStayInside` for every page size,
step, size and start, provided steps fit an int (`StepsFit`; a multiple of
2^32 would divide by zero in line 423) and elements do not overlap upwards
(`NoOverlap`, the condition the run windows shows to be necessary). `RunInv` says that the
next and the last granted iteration fit the page; those between lie between them.

`Execution_proofs` is about the executions of `IR`, for every module of the shape
`ModuleOK`, every input and every `Fuel`. Its theorems are inductions over the
steps of a run, done with the library's theorem on least naturals instead of one
that takes an operator:

- `StaticCountCoversRuns`: each call in a run's trace that names its function, one
  of the module or an external one, is of a function StaticCallCounter counts. The invariant says of every frame that it is
  at a block of its function, whatever its variables hold.
- `InstrumentationCounts`: when a run of the instrumented module has ended, so has
  the run of the original, with the same result, and each function's counter was
  incremented as often as the function was called there (an internal function
  however it is called, an external one where a call names it). It is a simulation
  (`Sim`): each step of the instrumented program is one of the original or an
  increment, after which the frames have the same variables and the program
  counter stands behind the increments inserted before it; `Even` balances the
  two traces, up to the entry or call whose increment is due next or just made.

`Toolchain_proofs` proves, for any programs, passes, draws, tools, failures,
threads and interleavings:

- `SuccessMeansFreshBinary`: `exit 0` means that the binary is that of the input.
  The invariant follows the tool's stage: from "compiled" on the object file is
  that of the input, because compiling fails fatally or replaces it.
- `ReportCoversCalls` (`StaticCoversCalls`). The invariant `ModulesInv` says that
  the file, and everything made from it (a tool's input, the report, the object
  and the binary on disk), is a module of the program's functions with the shape
  `ModuleOK`. It is inductive because each pass keeps that shape, which the lemmas
  `MBAAddSound`, `MBASubSound` and `DuplicatedSound` show of any function: a
  duplication, for instance, makes labels that are new (`NewLabelFresh`) and
  branches that stay inside the function.
- `CountersAreBehindOnlyByRaces` (`CountersKeepUp`) and `PrintedCountsAreTrue`
  (`CountsTrue`). `CountersKeepUp` is not inductive: a thread between its load and
  its store holds a value that the store will put back. `RunInv` adds that this
  value is not above the increments made, and, where no two overlapped, that it
  is the counter's value still and no other thread is at that counter. A store
  then adds one to the increments made (`MadeGrows`) and at most one above them to
  the counter. At the print, the increments made are part of those of the
  runs, all of them when every thread is done, and `InstrumentationCounts`
  exchanges them for the calls of the original program, thread by thread.

`MBA_proofs` proves that what the two substitutions insert computes what it
replaces, for all operands: `MixedSubIsSub` at every width, `MixedAddIsAdd` at
eight bits. The second rests on `CarriesAndSum` (a sum is the exclusive or and
twice the carries, from the eight digits of each operand) and on
`AffineIdentity` (39 and 151 are inverse modulo 256, and 151 * 23 + 111 is 0).
They are about the instructions in a row; that the rewriting of a whole function
keeps its meaning (`SameMeaning`) is model-checked.

The constants of the other modules are assumed to be what their sources make
them: `WrapperConstantsOK` and `CrossConstantsOK` number the pages from 0 and let
links be of any address, `CallsOK` and `ProgramOK` keep calls and accesses inside
their objects (a length fits the int of 911, an access is not longer than a page
or than the cross-page buffer),
`LinkConstantsOK` gives direct lstores pages of at least one byte, and `RequestsOK`
leaves requests of no bytes to the C library. The theorems about `MemWrapper` and
`CrossPage` assume `LstoreMod = IndexMod` as `LinkInvariant` does.

Only model-checked: liveness (`LinkReturns`, `CallsReturn`, `LoopEnds`), which is
beyond the prover, and two properties of what the passes do to functions:
`SameMeaning`, which speaks of runs that end within `Fuel` (a longer program does
not satisfy it, so that it is no theorem as it stands), and `FilesVerify`, which
would need the dominators of a duplicated block's surroundings.

## Not modelled, and the plan

Left, in order:

1. Proofs: `FilesVerify`, for which each pass has to keep every definition on all
   paths to its uses, and that a rewritten function computes what it did, by a
   simulation as for `InstrumentationCounts`.
2. `CrossPage` against an abstract memory of accesses of several bytes.
3. The intrinsics that read a direct lstore: `__carmor_page_fault` asks a direct
   lstore for zero bytes, so that memcpy, memcmp and memchr from one work on what
   the buffer held. Nothing could be claimed of their results.

Left out of modelled parts: vector accesses (asserted absent), the build without
a TLB (`DISABLE_TLB`), several links of a direct lstore by one thread before a
writeback, a failure of the `memalign` that makes the direct buffer inside a fill
(an assertion), and instrumenting a module that is instrumented already.

Not modelled: the virtual pointer table of `memory.c`, a prototype with a `main` of its
own that nothing else calls and whose allocation and deletion are stubs; the stub lstore and the buffer it allocates, which the compiler
replaces; the test lstore and the example, which demonstrate; the HelloWorld
pass and the layout of reports, which print; the comment tool, a prototype that
removes text ranges through Clang's rewriter and of which no document says what
it should keep.
