---------------------------------- MODULE RIV ----------------------------------
(***************************************************************************)
(* RIV::runOnFunction: the integer values each basic block can use,        *)
(* handed down the dominator tree from the entry.                          *)
(***************************************************************************)
EXTENDS IR

(* STEP 1: the integer instructions of a block, phi nodes and terminators  *)
(* among them.                                                             *)
DefinedValues(b) ==
    {i.def : i \in {j \in ToSet(b.phis \o b.body \o <<b.term>>) : IsIntegerTy(j.ty)}}

(* STEP 2: the entry has the arguments, of any type, and no globals; a     *)
(* child has what its parent defines and what its parent has.  A block     *)
(* that is not in the dominator tree has nothing.                          *)
ReachableValues(fn) ==
    LET doms == StrictDoms(fn)
        RIVMap[b \in DOMAIN doms] ==
            IF b = fn.entry THEN {p.def : p \in ToSet(fn.params)}
            ELSE LET node == IDom(doms, b)
                 IN  DefinedValues(fn.code[node]) \cup RIVMap[node]
    IN  [l \in Labels(fn) |-> IF l \in DOMAIN doms THEN RIVMap[l] ELSE {}]
================================================================================
