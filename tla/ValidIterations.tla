-------------------------- MODULE ValidIterations --------------------------
(***************************************************************************)
(* Hoisting a link out of a loop, mem/armor_runtime.cpp lines 406-439: the *)
(* loop links its pointer, asks __carmor_get_valid_iterations_template for *)
(* how many iterations the linked address serves, runs that many on the    *)
(* raw address and links again.  The loop itself is emitted by a compiler  *)
(* pass that is not in this repository; it is modelled from what the       *)
(* function is for.                                                        *)
(***************************************************************************)
EXTENDS Integers

CONSTANTS
    PageSize,       \* lstore_get_mpage_size()
    Loops,          \* the loops of the program: [step, size]
    Starts,         \* addresses a loop may start at
    IntMod,         \* 2^32: how many values an int has
    MaxTrips        \* iterations of a loop (a bound)

ASSUME LoopConstantsOK ==
    /\ PageSize \in Nat \ {0}
    /\ Loops \subseteq [step : Int \ {0}, size : 1 .. PageSize]
    /\ Starts \subseteq Nat
    /\ IntMod \in Nat \ {0}
    /\ MaxTrips \in Nat

VARIABLES
    loop,           \* the loop being run
    addr,           \* tagged address of the next access
    kind,           \* what the pointer was linked to: a page or the buffer
    raw,            \* offset of the raw address in that page or buffer
    quota,          \* iterations left before the next link
    trips           \* iterations done

vars == <<loop, addr, kind, raw, quota, trips>>

---------------------------------------------------------------------------
(* int division truncates towards zero. *)
Quotient(a, b) ==
    IF b > 0 THEN (IF a >= 0 THEN a \div b ELSE -((-a) \div b))
             ELSE (IF a >= 0 THEN -(a \div (-b)) ELSE (-a) \div (-b))

(* realStep: the 64-bit step in an int. *)
RealStep(step) == ((step + IntMod \div 2) % IntMod) - (IntMod \div 2)

(* Faulty: one byte too many below the offset.                             *)
LeftBytesAndOne(off, step) == IF step > 0 THEN PageSize - off ELSE -(off + 2)

LeftBytes(off, step) == IF step > 0 THEN PageSize - off ELSE -(off + 1)

(* The sum is an int compared with a size_t: a negative one counts as huge. *)
EndsBeyondPage(off, n, step, size) ==
    LET end == off + (n - 1) * step + size IN end > PageSize \/ end < 0

(* Faulty: the result is not raised to 1.                                  *)
CachedIterationsOrNone(off, step, size) ==
    LET real == RealStep(step)
        n == Quotient(LeftBytes(off, real), real)
    IN  IF EndsBeyondPage(off, n, real, size) THEN n - 1 ELSE n

(* The iterations a pointer linked to a cached page is good for. *)
CachedIterations(off, step, size) ==
    LET real == RealStep(step)
        n == Quotient(LeftBytes(off, real), real)
        m == IF EndsBeyondPage(off, n, real, size) THEN n - 1 ELSE n
    IN  IF m <= 0 THEN 1 ELSE m

(* Faulty: the buffer is taken for a page.                                 *)
IterationsAnywhere(k, off, step, size) == CachedIterations(off, step, size)

Iterations(k, off, step, size) ==
    IF k = "buffer" THEN 1 ELSE CachedIterations(off, step, size)

---------------------------------------------------------------------------
Init ==
    /\ loop \in Loops
    /\ addr \in Starts
    /\ kind = "none" /\ raw = 0 /\ quota = 0 /\ trips = 0

(* __carmor_link_cached_cross_page: an access that reaches into the next   *)
(* page goes through the cross-page buffer.                                *)
Relink ==
    /\ quota = 0 /\ trips < MaxTrips /\ addr >= 0
    /\ LET off == addr % PageSize
           k == IF off + loop.size > PageSize THEN "buffer" ELSE "page"
       IN  /\ kind' = k
           /\ raw' = IF k = "buffer" THEN 0 ELSE off
           /\ quota' = Iterations(k, off, loop.step, loop.size)
    /\ UNCHANGED <<loop, addr, trips>>

(* One iteration on the raw address. *)
Iterate ==
    /\ quota > 0 /\ trips < MaxTrips
    /\ raw' = raw + loop.step
    /\ addr' = addr + loop.step
    /\ quota' = quota - 1
    /\ trips' = trips + 1
    /\ UNCHANGED <<loop, kind>>

Next == Relink \/ Iterate

Spec == Init /\ [][Next]_vars /\ WF_vars(Next)

---------------------------------------------------------------------------
(* Properties *)

(* Every iteration the function allows stays inside what was linked, from  *)
(* its first byte to its last, in either direction; this is the assertion  *)
(* written at line 436.                                                    *)
RunsInsideLink ==
    quota > 0 =>
        /\ raw >= 0
        /\ raw + loop.size <= (IF kind = "buffer" THEN loop.size ELSE PageSize)

(* A loop gets to its end: no link allows zero iterations. *)
LoopEnds == <>(trips = MaxTrips \/ addr < 0)

---------------------------------------------------------------------------
(* The inductive invariant behind RunsInsideLink: the iterations still     *)
(* allowed, from the next one to the last one, fit the page.               *)

TypeOK ==
    /\ loop \in Loops
    /\ addr \in Int /\ raw \in Int /\ quota \in Nat /\ trips \in Nat
    /\ kind \in {"none", "page", "buffer"}

FitsPage(off, size) == off >= 0 /\ off + size <= PageSize

RunInv ==
    /\ TypeOK
    /\ quota > 0 /\ kind = "buffer" => raw = 0 /\ quota = 1
    /\ quota > 0 /\ kind # "buffer" =>
          /\ FitsPage(raw, loop.size)
          /\ FitsPage(raw + (quota - 1) * loop.step, loop.size)
===========================================================================
