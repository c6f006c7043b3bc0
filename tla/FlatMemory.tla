---------------------------- MODULE FlatMemory ----------------------------
(***************************************************************************)
(* What the runtime of mem/armor_runtime.cpp promises an annotated program *)
(* for memory reached through tagged pointers: the accesses of all threads *)
(* behave as if they went straight to one flat memory, whatever the page   *)
(* cache, the TLBs and the eviction of pages do underneath.                *)
(***************************************************************************)
EXTENDS Integers

CONSTANTS
    Threads,        \* the program's threads
    Pages,          \* page indices of the storage area
    Offsets,        \* offsets within a page
    Values,         \* what a byte can hold; fresh storage holds 0
    NoValue         \* no value was read yet

VARIABLES
    mem,            \* [Pages -> [Offsets -> Values]]
    want,           \* the access each thread is performing
    val             \* the value each thread's last load returned

flatVars == <<mem, want, val>>

Access  == [page : Pages, off : Offsets, dirty : BOOLEAN]
NoAccess == [page |-> -1, off |-> -1, dirty |-> FALSE]

FlatInit ==
    /\ mem = [p \in Pages |-> [o \in Offsets |-> 0]]
    /\ want = [t \in Threads |-> NoAccess]
    /\ val = [t \in Threads |-> NoValue]

(* The thread names the address it is about to read or write. *)
Begin(t, a) ==
    /\ want[t] = NoAccess
    /\ want' = [want EXCEPT ![t] = a]
    /\ val' = [val EXCEPT ![t] = NoValue]
    /\ UNCHANGED mem

(* A load returns what the memory holds at that address at that moment. *)
Read(t) ==
    /\ want[t] # NoAccess
    /\ ~want[t].dirty
    /\ val' = [val EXCEPT ![t] = mem[want[t].page][want[t].off]]
    /\ want' = [want EXCEPT ![t] = NoAccess]
    /\ UNCHANGED mem

(* A store changes that address and nothing else. *)
Write(t, v) ==
    /\ want[t] # NoAccess
    /\ want[t].dirty
    /\ mem' = [mem EXCEPT ![want[t].page][want[t].off] = v]
    /\ want' = [want EXCEPT ![t] = NoAccess]
    /\ UNCHANGED val

FlatNext ==
    \E t \in Threads :
        \/ \E a \in Access : Begin(t, a)
        \/ Read(t)
        \/ \E v \in Values : Write(t, v)

FlatSpec == FlatInit /\ [][FlatNext]_flatVars

===========================================================================
