------------------------------ MODULE DirectLink ------------------------------
(***************************************************************************)
(* Links of direct lstores, and the generic link that selects an lstore.   *)
(* A direct lstore has no page cache: a link copies the bytes of the       *)
(* access from the memory storage to a buffer of the thread, the program   *)
(* works on the buffer, and a writeback copies the bytes to the storage.   *)
(* A thread has one buffer for all lstores, made by its first link with    *)
(* the page size of that lstore.  Cached lstores and native memory are     *)
(* flat here: CarmorLink shows that a cached lstore is.                    *)
(*                                                                         *)
(* why is "no" until abort() or a crash stops the program; bad collects    *)
(* the uses from which on the runtime promises nothing.                    *)
(***************************************************************************)
EXTENDS PointerTags, FiniteSets

CONSTANTS Threads, Direct, LinkedBefore, PageSize, HeapTop, Values, Junk, AccessSizes

ASSUME LinkConstantsOK ==
    /\ Direct \subseteq Lstores /\ LinkedBefore \subseteq Lstores
    /\ PageSize \in [Lstores -> Nat \ {0}]
    /\ HeapTop \in Nat
    /\ AccessSizes \subseteq Nat \ {0}

VARIABLES mem, buf, acc, why, bad
linkVars == <<mem, buf, acc, why, bad>>

Stores == {Native} \cup Lstores
Addrs == 1 .. HeapTop
Idle == [stage |-> "idle"]

(* n cells of one value. *)
Same(n, x) == [i \in 0 .. n - 1 |-> x]

(* The threads may have linked an lstore of LinkedBefore already, and so    *)
(* have their buffers.                                                     *)
LinkInit ==
    /\ mem = [s \in Stores |-> [a \in Addrs |-> Junk]]
    /\ \E first \in {<<>>} \cup {Same(PageSize[k], Junk) : k \in LinkedBefore} :
          buf = [t \in Threads |-> first]
    /\ acc = [t \in Threads |-> Idle]
    /\ why = "no" /\ bad = {}

Running == why = "no" /\ bad = {}

(* m with the cells new[0], new[1], ... at the address a of the store s. *)
Put(m, s, a, new) ==
    [m EXCEPT ![s] = [c \in Addrs |-> IF c - a \in DOMAIN new
                                        THEN new[c - a] ELSE @[c]]]

(* The n cells at the address a of the store s. *)
Cells(m, s, a, n) ==
    [i \in 0 .. n - 1 |-> IF a + i \in Addrs THEN m[s][a + i] ELSE Junk]

(* The first call of a thread sizes its buffer for good. *)
DirectBuffer(t, k) == IF buf[t] = <<>> THEN Same(PageSize[k], Junk) ELSE buf[t]

(* Beyond a buffer there is memory of someone else. *)
Held(f, i) == IF i \in DOMAIN f THEN f[i] ELSE Junk

Overlay(f, new) == [i \in DOMAIN f |-> IF i \in DOMAIN new THEN new[i] ELSE f[i]]

TooSmall(f, n) == IF n > Cardinality(DOMAIN f) THEN {"small_buffer"} ELSE {}

Stop(reason) == why' = reason /\ UNCHANGED <<mem, buf, acc, bad>>

(* Faulty variant: the whole buffer goes back, as in a page write. *)
WrittenPage(k, n) == PageSize[k]
(* The bytes lstore_write_back takes from the buffer: the access's. *)
WrittenBytes(k, n) == n

(* __carmor_link_generic of a direct lstore: the access a of the thread t. *)
(* The assertions fail when the access is longer than a page, and when     *)
(* there is no memory for the thread's buffer.                             *)
LinkDirect(t, a) ==
    LET k == Dispatch(a.p)
        f == DirectBuffer(t, k)
    IN  /\ acc[t] = Idle
        /\ \/ k = 3 /\ Stop("lstore3")
           \/ k # 3 /\ (PageSize[k] < a.n \/ buf[t] = <<>>) /\ Stop("assert")
           \/ /\ k # 3 /\ PageSize[k] >= a.n
              /\ buf' = [buf EXCEPT ![t] = Overlay(f, Cells(mem, k, a.p.addr, a.n))]
              /\ acc' = [acc EXCEPT ![t] = a]
              /\ bad' = TooSmall(f, a.n)
              /\ UNCHANGED <<mem, why>>

(* The program's load or store through the pointer the link returned. *)
LoadBuffer(t) ==
    /\ acc[t].stage = "load"
    /\ acc' = [acc EXCEPT ![t] = Idle]
    /\ UNCHANGED <<mem, buf, why, bad>>

StoreBuffer(t) ==
    /\ acc[t].stage = "store"
    /\ buf' = [buf EXCEPT ![t] = Overlay(@, Same(acc[t].n, acc[t].x))]
    /\ acc' = [acc EXCEPT ![t].stage = "stored"]
    /\ UNCHANGED <<mem, why, bad>>

WritebackDirect(t) ==
    LET k == Dispatch(acc[t].p)
        f == DirectBuffer(t, k)
        n == WrittenBytes(k, acc[t].n)
    IN  /\ acc[t].stage = "stored"
        /\ mem' = Put(mem, k, acc[t].p.addr, [i \in 0 .. n - 1 |-> Held(f, i)])
        /\ buf' = [buf EXCEPT ![t] = f]
        /\ acc' = [acc EXCEPT ![t] = Idle]
        /\ UNCHANGED <<why, bad>>

(***************************************************************************)
(* memset, and memcpy from native memory: the cells new[0 .. n-1] go to p. *)
(* m is the memory before, the result the memory, the buffers, why and bad *)
(* after.  A direct lstore faults zero bytes in, fills the buffer page by  *)
(* page and writes whole pages back, the last one with what the buffer     *)
(* held before: right only for a whole number of pages.                    *)
(***************************************************************************)
LastPage(n, page) == ((n - 1) \div page) * page

FillDirect(m, t, p, n, new) ==
    LET k == Dispatch(p)
        page == PageSize[k]
        last == LastPage(n, page)
        old == DirectBuffer(t, k)
        held == [x \in DOMAIN old |->
                   IF last + x < n THEN new[last + x]
                   ELSE IF last > 0 /\ x < page THEN new[last - page + x]
                   ELSE old[x]]
        written == [x \in 0 .. last + page - 1 |->
                      IF x < last THEN new[x]
                      ELSE Held(held, x - last)]
    IN  [mem |-> Put(m, k, p.addr, written),
         buf |-> [buf EXCEPT ![t] = held],
         why |-> "no",
         bad |-> (IF n % page = 0 THEN {} ELSE {"partial_page"})
                   \cup TooSmall(old, page)]

Fill(m, t, p, n, new) ==
    LET k == Dispatch(p)
        Flat(s) == [mem |-> Put(m, s, p.addr, new), buf |-> buf,
                    why |-> "no", bad |-> {}]
        Stopped(r) == [mem |-> m, buf |-> buf, why |-> r, bad |-> {}]
    IN  IF ~IsCarmorPtr(p)
          THEN IF p = Null /\ n > 0 THEN Stopped("fault") ELSE Flat(Native)
        ELSE IF k = 3 THEN Stopped("lstore3")
        ELSE IF k \in Direct /\ n > 0 THEN FillDirect(m, t, p, n, new)
        ELSE Flat(k)
===============================================================================
