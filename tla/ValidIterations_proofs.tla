----------------------- MODULE ValidIterations_proofs -----------------------
(***************************************************************************)
(* For every page size, element size, step and start, a loop over elements *)
(* that do not overlap when it runs upwards, and whose step fits an int,   *)
(* never leaves what it linked.                                            *)
(***************************************************************************)
EXTENDS ValidIterations, TLAPS

(* Elements overlap when an upward step is shorter than the element. *)
NoOverlap == \A l \in Loops : l.step > 0 => l.size <= l.step

(* No step changes when it is narrowed to an int. *)
StepsFit == \A l \in Loops : RealStep(l.step) = l.step

(* C division never overshoots its dividend. *)
LEMMA QuotientUp ==
  ASSUME NEW a \in Nat, NEW b \in Int, b > 0
  PROVE  Quotient(a, b) \in Nat /\ Quotient(a, b) * b <= a
BY DEF Quotient

LEMMA QuotientDown ==
  ASSUME NEW a \in Nat, NEW b \in Int, b > 0
  PROVE  Quotient(-(a + 1), -b) \in Nat /\ Quotient(-(a + 1), -b) * b <= a + 1
<1>1. Quotient(-(a + 1), -b) = (a + 1) \div b
  BY DEF Quotient
<1> QED
  BY <1>1

(* The number of iterations granted to an upward loop. *)
LEMMA UpwardRunFits ==
  ASSUME PageSize \in Nat \ {0},
         NEW off \in 0 .. (PageSize - 1), NEW step \in Int, step > 0,
         NEW size \in Nat \ {0}, size <= step, off + size <= PageSize,
         RealStep(step) = step
  PROVE  LET c == CachedIterations(off, step, size) IN
         c \in Nat \ {0} /\ FitsPage(off + (c - 1) * step, size)
<1> DEFINE n == Quotient(LeftBytes(off, step), step)
           c == CachedIterations(off, step, size)
<1>1. LeftBytes(off, step) = PageSize - off /\ PageSize - off \in Nat
  BY DEF LeftBytes
<1>2. n \in Nat /\ n * step <= PageSize - off
  BY <1>1, QuotientUp
<1> HIDE DEF n
<1>3. c = LET m == IF EndsBeyondPage(off, n, step, size) THEN n - 1 ELSE n
          IN  IF m <= 0 THEN 1 ELSE m
  BY DEF CachedIterations, n
<1>4. CASE c = 1
  BY <1>4 DEF FitsPage
<1>5. CASE c # 1 /\ EndsBeyondPage(off, n, step, size)
  <2>1. c = n - 1 /\ n - 1 > 0
    BY <1>2, <1>3, <1>5
  <2>2. (c - 1) * step = n * step - step - step
    BY <1>2, <2>1
  <2>3. (c - 1) * step >= 0
    BY <1>2, <2>1
  <2>4. c \in Nat \ {0}
    BY <1>2, <2>1
  <2>5. n * step \in Int /\ (c - 1) * step \in Int
    BY <1>2, <2>4
  <2> QED
    BY <1>2, <2>2, <2>3, <2>4, <2>5 DEF FitsPage
<1>6. CASE c # 1 /\ ~EndsBeyondPage(off, n, step, size)
  <2>1. c = n /\ n > 0
    BY <1>2, <1>3, <1>6
  <2>2. (c - 1) * step \in Int /\ (c - 1) * step >= 0
    BY <1>2, <2>1
  <2>3. off + (n - 1) * step + size <= PageSize
    BY <1>2, <1>6, <2>1, <2>2 DEF EndsBeyondPage
  <2> QED
    BY <1>2, <2>1, <2>2, <2>3 DEF FitsPage
<1> QED
  BY <1>4, <1>5, <1>6

(* ... and to a downward one. *)
LEMMA DownwardRunFits ==
  ASSUME PageSize \in Nat \ {0},
         NEW off \in 0 .. (PageSize - 1), NEW step \in Int, step < 0,
         NEW size \in Nat \ {0}, off + size <= PageSize,
         RealStep(step) = step
  PROVE  LET c == CachedIterations(off, step, size) IN
         c \in Nat \ {0} /\ FitsPage(off + (c - 1) * step, size)
<1> DEFINE n == Quotient(LeftBytes(off, step), step)
           c == CachedIterations(off, step, size)
           down == -step
<1>1. LeftBytes(off, step) = -(off + 1) /\ down \in Int /\ down > 0 /\ step = -down
  BY DEF LeftBytes
<1>2. n \in Nat /\ n * down <= off + 1
  BY <1>1, QuotientDown
<1> HIDE DEF n
<1>3. c = LET m == IF EndsBeyondPage(off, n, step, size) THEN n - 1 ELSE n
          IN  IF m <= 0 THEN 1 ELSE m
  BY DEF CachedIterations, n
<1>4. c \in Nat \ {0} /\ (c = 1 \/ c <= n)
  BY <1>2, <1>3
<1> HIDE DEF c
<1>a. off \in Int /\ off >= 0 /\ size \in Int /\ PageSize \in Int
  OBVIOUS
<1>5. CASE c = 1
  <2>1. (c - 1) * step = 0
    BY <1>1, <1>5
  <2>2. FitsPage(off + (c - 1) * step, size)
    BY <1>a, <2>1 DEF FitsPage
  <2> QED
    BY <1>4, <2>2 DEF c
<1>6. CASE c # 1 /\ c <= n
  <2>1. c * down <= n * down
    BY <1>1, <1>2, <1>4, <1>6
  <2>2. (c - 1) * step = -(c * down) + down /\ c * down \in Int
    BY <1>1, <1>4
  <2>3. off + (c - 1) * step >= 0
    BY <1>1, <1>2, <2>1, <2>2
  <2>4. (c - 1) * step <= 0 /\ (c - 1) * step \in Int
    BY <1>1, <1>4
  <2>5. FitsPage(off + (c - 1) * step, size)
    BY <1>a, <2>3, <2>4 DEF FitsPage
  <2> QED
    BY <1>4, <2>5 DEF c
<1> QED
  BY <1>4, <1>5, <1>6 DEF c

(* Linking establishes the invariant. *)
LEMMA RelinkInv ==
  ASSUME NoOverlap, StepsFit, RunInv, Relink
  PROVE  RunInv'
<1> DEFINE off == addr % PageSize
<1>1. /\ PageSize \in Nat \ {0}
      /\ loop \in Loops /\ loop.step \in Int \ {0} /\ loop.size \in 1 .. PageSize
  BY LoopConstantsOK DEF RunInv, TypeOK
<1>2. addr \in Int /\ addr >= 0 /\ off \in 0 .. (PageSize - 1)
  BY <1>1 DEF RunInv, TypeOK, Relink
<1>3. CASE off + loop.size > PageSize
  <2>1. kind' = "buffer" /\ raw' = 0 /\ quota' = 1 /\ UNCHANGED <<loop, addr, trips>>
    BY <1>3 DEF Relink, Iterations
  <2> QED
    BY <2>1 DEF RunInv, TypeOK
<1>4. CASE off + loop.size <= PageSize
  <2> DEFINE c == CachedIterations(off, loop.step, loop.size)
  <2>1. /\ kind' = "page" /\ raw' = off /\ quota' = c
        /\ UNCHANGED <<loop, addr, trips>>
    BY <1>1, <1>2, <1>4 DEF Relink, Iterations
  <2>2. c \in Nat \ {0} /\ FitsPage(off + (c - 1) * loop.step, loop.size)
    <3>1. CASE loop.step > 0
      BY <1>1, <1>2, <1>4, <3>1, UpwardRunFits DEF NoOverlap, StepsFit
    <3>2. CASE loop.step < 0
      BY <1>1, <1>2, <1>4, <3>2, DownwardRunFits DEF StepsFit
    <3> QED
      BY <1>1, <3>1, <3>2
  <2> HIDE DEF c
  <2>3. FitsPage(off, loop.size)
    BY <1>1, <1>2, <1>4 DEF FitsPage
  <2>4. TypeOK'
    BY <1>2, <2>1, <2>2 DEF RunInv, TypeOK
  <2> QED
    BY <2>1, <2>2, <2>3, <2>4 DEF RunInv, FitsPage
<1> QED
  BY <1>1, <1>2, <1>3, <1>4

(* An iteration moves the window of allowed ones by a step. *)
LEMMA IterateInv ==
  ASSUME RunInv, Iterate
  PROVE  RunInv'
<1>1. /\ PageSize \in Nat \ {0}
      /\ loop.step \in Int \ {0} /\ loop.size \in 1 .. PageSize
      /\ raw \in Int /\ quota \in Nat /\ quota > 0
      /\ raw' = raw + loop.step /\ quota' = quota - 1
      /\ UNCHANGED <<loop, kind>>
  BY LoopConstantsOK DEF RunInv, TypeOK, Iterate
<1>2. TypeOK'
  BY <1>1 DEF RunInv, TypeOK, Iterate
<1>3. ASSUME quota' > 0, kind # "buffer"
      PROVE  /\ FitsPage(raw', loop.size)
             /\ FitsPage(raw' + (quota' - 1) * loop.step, loop.size)
  <2> DEFINE last == (quota - 1) * loop.step
             rest == (quota - 2) * loop.step
  <2>1. /\ FitsPage(raw, loop.size)
        /\ FitsPage(raw + last, loop.size)
    BY <1>1, <1>3 DEF RunInv
  <2>2. rest \in Int /\ last = rest + loop.step
    BY <1>1
  <2>3. (loop.step > 0 => rest >= 0) /\ (loop.step < 0 => rest <= 0)
    BY <1>1, <1>3
  <2>4. raw' + (quota' - 1) * loop.step = raw + last
    <3>1. (quota' - 1) * loop.step = rest
      BY <1>1
    <3> QED
      BY <1>1, <2>2, <3>1
  <2> HIDE DEF last, rest
  <2>5. FitsPage(raw + loop.step, loop.size)
    BY <1>1, <2>1, <2>2, <2>3 DEF FitsPage
  <2> QED
    BY <1>1, <2>1, <2>4, <2>5
<1>4. kind = "buffer" => quota' = 0
  BY <1>1 DEF RunInv
<1> QED
  BY <1>1, <1>2, <1>3, <1>4 DEF RunInv

(* The iterations still allowed, from the next to the last, stay inside    *)
(* what was linked, whatever the loop has done so far.                     *)
THEOREM IterationsInvariant ==
  ASSUME NoOverlap, StepsFit
  PROVE  Spec => []RunInv
<1>1. Init => RunInv
  BY LoopConstantsOK DEF Init, RunInv, TypeOK
<1>2. RunInv /\ [Next]_vars => RunInv'
  <2>1. RunInv /\ UNCHANGED vars => RunInv'
    BY DEF RunInv, TypeOK, FitsPage, vars
  <2> QED
    BY <2>1, RelinkInv, IterateInv DEF Next
<1> QED
  BY <1>1, <1>2, PTL DEF Spec

(* Every iteration the function grants stays inside what was linked. *)
THEOREM IterationsStayInside ==
  ASSUME NoOverlap, StepsFit
  PROVE  Spec => []RunsInsideLink
<1>1. RunInv => RunsInsideLink
  <2>1. RunInv => loop.size \in Int
    BY LoopConstantsOK DEF RunInv, TypeOK
  <2> QED
    BY <2>1 DEF RunInv, RunsInsideLink, FitsPage
<1> QED
  BY <1>1, IterationsInvariant, PTL

=============================================================================
