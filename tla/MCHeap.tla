-------------------------------- MODULE MCHeap --------------------------------
(* A small instance of Heap: a cached lstore, a direct one and lstore 3.   *)
EXTENDS Heap, TLC

CONSTANTS t1, t2, x, y

MCThreads == {t1, t2}
MCVars == {x, y}
MCMallocs == {0, 2, 3}
MCPageSize == [k \in Lstores |-> IF k = 1 THEN 1 ELSE 2]
MCMin == [k \in Lstores |-> IF k \in {0, 3} THEN 2 ELSE 1]
MCMax == [k \in Lstores |-> 10]
MCValues == {1}
MCDirect == {1, 2, 3}

(* The last operation matters only to the step that makes it, the bytes in *)
(* a buffer outside an access only to a fill that is not of whole pages,   *)
(* and nothing is claimed once the program has stopped or left the         *)
(* contract.                                                               *)
BufferView(t) ==
    <<Cardinality(DOMAIN buf[t]),
      IF acc[t] = Idle THEN <<>> ELSE [i \in 1 .. acc[t].n |-> buf[t][i - 1]]>>
HeapView ==
    IF Running
      THEN <<mem, [t \in Threads |-> BufferView(t)], acc, taken, ptr, size>>
      ELSE <<why, bad, op[1]>>

HeapSymmetry == Permutations(MCThreads) \cup Permutations(MCVars)
===============================================================================
