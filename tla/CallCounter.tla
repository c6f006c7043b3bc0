------------------------------ MODULE CallCounter ------------------------------
(***************************************************************************)
(* StaticCallCounter, and the instrumentation of DynamicCallCounter.  A    *)
(* module has its functions in order (names), the code of those it defines *)
(* (fns) and, once instrumented, lt_RUNTIME_functionInfo (table).          *)
(***************************************************************************)
EXTENDS IR

IncrCC == <<"lt_RUNTIME_incrCC">>
PrintFn == <<"lt_RUNTIME_print">>

(* Faulty variant: a terminator is no call site. *)
CallSitesOfBody(b) == {k \in DOMAIN b.body : b.body[k].op \in {"call", "invoke"}}

(* Call sites that name the function they call, invokes included. *)
CallSites(b) == {k \in Positions(b) : InstrAt(b, k).op \in {"call", "invoke"}}

IsDeclaration(M, f) == f \notin DOMAIN M.fns

(* Each site counts for the function it names, in every defined function. *)
StaticCount(M) ==
    LET sites == UNION {UNION {{<<f, l, k>> : k \in CallSites(M.fns[f].code[l])}
                                : l \in Labels(M.fns[f])} : f \in DOMAIN M.fns}
        Callee(s) == InstrAt(M.fns[s[1]].code[s[2]], s[3]).callee
    IN  [g \in {Callee(s) : s \in sites} |-> Cardinality({s \in sites : Callee(s) = g})]

ID(M, f) == CHOOSE k \in DOMAIN M.names : M.names[k] = f
Incr(M, f) == CallTo("call", None, "void", IncrCC, <<Const(ID(M, f))>>)

(* What is counted of a trace: an internal function's calls however it is  *)
(* called, an external one's only where a call names it.                   *)
CallsIn(trace, f) == {k \in DOMAIN trace : trace[k].fn = f /\ trace[k].kind # "icall"}

(* The calls of f that name it, and the program's start.                   *)
DirectCallsIn(trace, f) == {k \in CallsIn(trace, f) : trace[k].kind # "ienter"}

(* The calls of lt_RUNTIME_incrCC in a trace, at their places.    *)
Increments(trace) ==
    {<<k, trace[k].args[1]>> : k \in {j \in DOMAIN trace : trace[j].fn = IncrCC}}

(* Faulty variant: calls of internal functions are counted here as well. *)
CountedAnyway(M, i) == i.op \in {"call", "invoke"}

(* installCCInstruction: an external function is counted before each of    *)
(* its direct calls.                                                       *)
Counted(M, i) == i.op \in {"call", "invoke"} /\ IsDeclaration(M, i.callee)

WithCounts(M, instrs) ==
    FlattenSeq([k \in DOMAIN instrs |->
       IF Counted(M, instrs[k]) THEN <<Incr(M, instrs[k].callee), instrs[k]>>
       ELSE <<instrs[k]>>])

(* runOnModule: each internal function is counted on its entry. *)
Instrumented(M) ==
    LET Code(f, l) ==
          LET b == M.fns[f].code[l]
              counts == WithCounts(M, b.body \o <<b.term>>)
          IN  [b EXCEPT !.body = (IF l = M.fns[f].entry THEN <<Incr(M, f)>> ELSE <<>>)
                                   \o Front(counts)]
    IN  [names |-> M.names \o <<IncrCC, PrintFn>>,
         fns |-> [f \in DOMAIN M.fns |->
                    [M.fns[f] EXCEPT !.code = [l \in DOMAIN @ |-> Code(f, l)]]],
         table |-> M.names]
================================================================================
