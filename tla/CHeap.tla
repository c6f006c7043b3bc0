-------------------------------- MODULE CHeap --------------------------------
(***************************************************************************)
(* What the heap calls and the accesses through a pointer promise a C      *)
(* program, whatever memory is behind them.  obj[v] is the object that the *)
(* pointer variable v owns, a sequence of cells, empty when v owns none;   *)
(* op is the program's last operation, with what it returned.              *)
(***************************************************************************)
EXTENDS Integers, Sequences

CONSTANTS Vars, Sizes, Values
VARIABLES obj, op

Init == obj = [v \in Vars |-> <<>>] /\ op = <<"start">>

OthersKept(v) == \A u \in Vars \ {v} : obj'[u] = obj[u]

(* v owns a new object of n cells, of any contents. *)
New(v, n) == obj[v] = <<>> /\ Len(obj'[v]) = n /\ OthersKept(v)

Malloc(v, n) == op' = <<"malloc", v, n>> /\ New(v, n)

Calloc(v, n) ==
    /\ op' = <<"calloc", v, n>> /\ New(v, n)
    /\ \A i \in 1 .. n : obj'[v][i] = 0

(* A global variable moves to the heap: the copy is the global. *)
Global(v) ==
    /\ op'[1] = "global" /\ op' = <<"global", v, obj'[v]>>
    /\ New(v, Len(obj'[v]))

(* The object keeps the cells that both sizes have. *)
Realloc(v, n) ==
    /\ op' = <<"realloc", v, n>> /\ OthersKept(v)
    /\ Len(obj'[v]) = n
    /\ \A i \in DOMAIN obj[v] \cap 1 .. n : obj'[v][i] = obj[v][i]

Free(v) ==
    /\ op' = <<"free", v>> /\ obj'[v] = <<>> /\ OthersKept(v)

(* The n cells from the i-th on take the value x. *)
Store(v, i, n, x) ==
    /\ op' = <<"store", v, i, n, x>>
    /\ i + n - 1 <= Len(obj[v]) /\ OthersKept(v)
    /\ obj'[v] = [j \in DOMAIN obj[v] |-> IF j \in i .. i + n - 1
                                            THEN x ELSE obj[v][j]]

(* The program reads n cells from the i-th on. *)
Load(v, i, n) ==
    /\ op'[1] = "load" /\ op'[2] = v /\ i + n - 1 <= Len(obj[v])
    /\ op' = <<"load", v, SubSeq(obj[v], i, i + n - 1)>>
    /\ UNCHANGED obj

(* A call returns NULL, or stops the program, and every object stays. *)
Fail == op' = <<"fail">> /\ UNCHANGED obj

(* The operation names the variable it is about. *)
About(v) == Len(op') > 1 /\ op'[2] = v

Next ==
    \/ Fail
    \/ \E v \in Vars : About(v) /\
          \/ Free(v) \/ Global(v)
          \/ \E n \in Sizes : Malloc(v, n) \/ Calloc(v, n) \/ Realloc(v, n)
          \/ \E i, n \in Sizes :
                Load(v, i, n) \/ \E x \in Values : Store(v, i, n, x)
==============================================================================
