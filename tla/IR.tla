---------------------------------- MODULE IR ----------------------------------
(***************************************************************************)
(* The part of LLVM the passes of src/passes work on, as they use it:      *)
(* functions in SSA form, the control-flow graph and its dominators, the   *)
(* rule that a definition dominates its uses, and what running a module    *)
(* does.  A value or a label is a tuple of words, so that a clone's name   *)
(* is its original's with a word more; the pointer to an erased            *)
(* instruction is a value that no instruction defines.                     *)
(*                                                                         *)
(* An instruction, a terminator included, is a record of its opcode, the   *)
(* value it defines, its type, its operands, the callee and the targets.   *)
(* fn.code[l] is the block l, with its phi nodes, its body and its         *)
(* terminator; fn.order is the order of the blocks in the function.        *)
(***************************************************************************)
EXTENDS Integers, Sequences, FiniteSets, SequencesExt

None == <<>>
Const(n) == <<"const", n>>
IsConst(x) == x # None /\ x[1] = "const"

Instr(op, def, ty, args) ==
    [op |-> op, def |-> def, ty |-> ty, args |-> args, callee |-> None, to |-> <<>>]
CallTo(op, def, ty, callee, args) == [Instr(op, def, ty, args) EXCEPT !.callee = callee]
Br(l) == [Instr("br", None, "void", <<>>) EXCEPT !.to = <<l>>]
CondBr(x, yes, no) == [Instr("br", None, "void", <<x>>) EXCEPT !.to = <<yes, no>>]
Ret(x) == Instr("ret", None, "void", <<x>>)
Invoke(def, ty, callee, args, normal, unwind) ==
    [CallTo("invoke", def, ty, callee, args) EXCEPT !.to = <<normal, unwind>>]

Block(phis, body, term) == [phis |-> phis, body |-> body, term |-> term, pad |-> FALSE]

IsIntegerTy(ty) == ty \in {"i1", "i8", "i16"}
Modulus(ty) == CASE ty = "i1" -> 2 [] ty = "i8" -> 256 [] ty = "i16" -> 65536

(* The definitions of a block: every one of them but an invoke's is        *)
(* available at its end.                                                   *)
Defs(instrs) == {i.def : i \in ToSet(instrs)} \ {None}
BlockDefs(b) == Defs(b.phis) \cup Defs(b.body)
-----------------------------------------------------------------------------
Labels(fn) == DOMAIN fn.code
Edges(fn) == UNION {{<<l, s>> : s \in ToSet(fn.code[l].term.to)} : l \in Labels(fn)}
Preds(fn, l) == {p \in Labels(fn) : <<p, l>> \in Edges(fn)}

(* The blocks that the entry reaches along the edges E. *)
Reached(fn, E) ==
    LET R[n \in 0 .. Cardinality(Labels(fn))] ==
          IF n = 0 THEN {fn.entry}
          ELSE LET S == R[n - 1] IN S \cup {e[2] : e \in {d \in E : d[1] \in S}}
    IN  R[Cardinality(Labels(fn))]

(* What the passes may count on in a module: every name is defined once,   *)
(* blocks end in their terminator and call functions of the module, and    *)
(* no branch leads to an entry.                                            *)
Terminators == {"ret", "br", "invoke"}

IsSeq(s) == s \in Seq(ToSet(s))

InstrOK(names, i) ==
    /\ i = [op |-> i.op, def |-> i.def, ty |-> i.ty, args |-> i.args,
            callee |-> i.callee, to |-> i.to]
    /\ i.op \in {"call", "icall", "invoke"} => i.callee \in names

BlockOK(names, targets, b) ==
    /\ b = [phis |-> b.phis, body |-> b.body, term |-> b.term, pad |-> b.pad]
    /\ IsSeq(b.body)
    /\ \A k \in DOMAIN b.body : InstrOK(names, b.body[k]) /\ b.body[k].op \notin Terminators
    /\ InstrOK(names, b.term) /\ b.term.op \in Terminators /\ b.term.to \in Seq(targets)
    /\ b.term.op = "br" => Len(b.term.to) \in {1, 2}
    /\ b.term.op = "invoke" => Len(b.term.to) = 2

FnOK(names, fn) ==
    /\ fn = [params |-> fn.params, entry |-> fn.entry, order |-> fn.order, code |-> fn.code]
    /\ fn.code = [l \in Labels(fn) |-> fn.code[l]]
    /\ IsFiniteSet(Labels(fn)) /\ \A l \in Labels(fn) : IsSeq(l)
    /\ fn.entry \in Labels(fn)
    /\ \A l \in Labels(fn) : BlockOK(names, Labels(fn) \ {fn.entry}, fn.code[l])

ModuleOK(M) ==
    /\ M = [names |-> M.names, fns |-> M.fns, table |-> M.table]
    /\ IsSeq(M.names) /\ IsInjective(M.names)
    /\ M.fns = [f \in DOMAIN M.fns |-> M.fns[f]] /\ DOMAIN M.fns \subseteq ToSet(M.names)
    /\ \A f \in DOMAIN M.fns : FnOK(ToSet(M.names), M.fns[f])

Subst(s, x) == IF x \in DOMAIN s THEN s[x] ELSE x
SubstAll(s, args) == [k \in DOMAIN args |-> Subst(s, args[k])]

(* replaceAllUsesWith, for each value of the domain of s. *)
ArgsReplaced(i, s) == [i EXCEPT !.args = SubstAll(s, i.args)]
FromReplaced(p, s) == [p EXCEPT !.from = SubstAll(s, p.from)]
BlockReplaced(b, s) ==
    [b EXCEPT !.phis = [k \in DOMAIN b.phis |-> FromReplaced(b.phis[k], s)],
              !.body = [k \in DOMAIN b.body |-> ArgsReplaced(b.body[k], s)],
              !.term = ArgsReplaced(b.term, s)]

UsesReplaced(fn, s) ==
    [fn EXCEPT !.code = [l \in Labels(fn) |-> BlockReplaced(fn.code[l], s)]]

(* A label for a new block beside b, which may have been split before. *)
NewLabel(fn, b, word) ==
    LET Longer(n) == b \o [k \in 1 .. n |-> word]
    IN  Longer(CHOOSE n \in 1 .. Cardinality(Labels(fn)) + 1 :
                  /\ Longer(n) \notin Labels(fn)
                  /\ \A k \in 1 .. n - 1 : Longer(k) \in Labels(fn))

(* Every path from the entry to another block b goes through d. *)
StrictDoms(fn) ==
    LET all == Reached(fn, Edges(fn))
        Beyond(d) == all \ Reached(fn, {e \in Edges(fn) : e[1] # d})
        beyond == [d \in all |-> Beyond(d) \ {d}]
    IN  [b \in all |-> {d \in all : b \in beyond[d]}]

IDom(doms, b) == CHOOSE d \in doms[b] : doms[b] = doms[d] \cup {d}

(* The values a block may use from its first instruction on.  The result   *)
(* of an invoke exists only beyond the edge to its normal target.          *)
Available(fn) ==
    LET doms == StrictDoms(fn)
        BeyondInvoke(l) ==
            LET t == fn.code[l].term
            IN  IF t.op = "invoke" /\ t.def # None
                  THEN DOMAIN doms \ Reached(fn, Edges(fn) \ {<<l, t.to[1]>>})
                  ELSE {}
    IN  [b \in DOMAIN doms |->
            {p.def : p \in ToSet(fn.params)}
              \cup UNION {BlockDefs(fn.code[d]) : d \in doms[b]}
              \cup {fn.code[l].term.def : l \in {d \in DOMAIN doms : b \in BeyondInvoke(d)}}]

(* What the verifier asks: a phi node has a value for every predecessor,   *)
(* and every operand is defined, once, and on every path to its use.       *)
WellFormed(fn) ==
    LET avail == Available(fn)
        Defining(l) == SelectSeq(fn.code[l].phis \o fn.code[l].body,
                                 LAMBDA i : i.def # None)
        Sound(args, from) == \A x \in ToSet(args) : IsConst(x) \/ x \in from
        AtEnd(q) == avail[q] \cup BlockDefs(fn.code[q])
                       \cup ({fn.code[q].term.def} \ {None})
    IN  /\ Cardinality(UNION {BlockDefs(fn.code[l]) : l \in Labels(fn)})
              = Cardinality(UNION {{<<l, k>> : k \in DOMAIN Defining(l)} : l \in Labels(fn)})
        /\ \A l \in DOMAIN avail :
          LET b == fn.code[l]
              Before(i) == avail[l] \cup Defs(b.phis) \cup Defs(SubSeq(b.body, 1, i - 1))
          IN  /\ \A p \in ToSet(b.phis) :
                    /\ DOMAIN p.from = Preds(fn, l)
                    /\ \A q \in Preds(fn, l) \cap DOMAIN avail :
                          Sound(<<p.from[q]>>, AtEnd(q))
              /\ \A i \in DOMAIN b.body : Sound(b.body[i].args, Before(i))
              /\ Sound(b.term.args, Before(Len(b.body) + 1))
-----------------------------------------------------------------------------
(* Arithmetic of the opcodes; the bitwise ones at a width of eight bits.   *)
Weight == <<1, 2, 4, 8, 16, 32, 64, 128>>
Bit(x, i) == (x \div Weight[i]) % 2

FromBits(b) == b[1] + 2 * b[2] + 4 * b[3] + 8 * b[4]
                 + 16 * b[5] + 32 * b[6] + 64 * b[7] + 128 * b[8]

And8(x, y) == FromBits([i \in 1 .. 8 |-> IF Bit(x, i) = 1 /\ Bit(y, i) = 1 THEN 1 ELSE 0])
Xor8(x, y) == FromBits([i \in 1 .. 8 |-> IF Bit(x, i) = Bit(y, i) THEN 0 ELSE 1])

Eval(op, ty, a) ==
    CASE op = "add" -> (a[1] + a[2]) % Modulus(ty)
      [] op = "sub" -> (a[1] - a[2]) % Modulus(ty)
      [] op = "mul" -> (a[1] * a[2]) % Modulus(ty)
      [] op = "not" -> Modulus(ty) - 1 - a[1]
      [] op = "and" -> And8(a[1], a[2])
      [] op = "xor" -> Xor8(a[1], a[2])
      [] op = "isnull" -> IF a[1] = 0 THEN 1 ELSE 0

(***************************************************************************)
(* A run of the module M from its function f: a stack of frames, and the   *)
(* trace of the calls made.  M.names lists the functions in the order of   *)
(* the module, M.fns those defined in it.  An external function returns    *)
(* its first argument and one; throws says whether invokes unwind.         *)
(***************************************************************************)
Undefined == -1
Val(env, x) == IF IsConst(x) THEN x[2] ELSE IF x \in DOMAIN env THEN env[x] ELSE Undefined

(* back is the call that the frame answers. *)
Frame(M, f, vals, back) ==
    [fn |-> f, at |-> M.fns[f].entry, pc |-> 1, back |-> back,
     env |-> [p \in {q.def : q \in ToSet(M.fns[f].params)} |->
                vals[CHOOSE i \in DOMAIN vals : M.fns[f].params[i].def = p]]]

Event(kind, f, vals) == [kind |-> kind, fn |-> f, args |-> vals]

Starting(M, f, vals) ==
    [stack |-> <<Frame(M, f, vals, None)>>, trace |-> <<Event("start", f, vals)>>,
     status |-> "running", ret |-> 0]

Bind(env, x, v) ==
    IF x = None THEN env
    ELSE [y \in DOMAIN env \cup {x} |-> IF y = x THEN v ELSE env[y]]

(* To the block l: its phi nodes take their values at once. *)
Jump(M, fr, l) ==
    LET phis == M.fns[fr.fn].code[l].phis
        Of(x) == phis[CHOOSE i \in DOMAIN phis : phis[i].def = x]
    IN  [fr EXCEPT !.at = l, !.pc = 1,
                   !.env = [x \in Defs(phis) |-> Val(fr.env, Of(x).from[fr.at])] @@ @]

(* The k-th instruction of a block; the terminator is the last.            *)
InstrAt(b, k) == IF k <= Len(b.body) THEN b.body[k] ELSE b.term
Positions(b) == 1 .. Len(b.body) + 1

Top(m) == Last(m.stack)
WithTop(m, fr) == [m EXCEPT !.stack = Front(@) \o <<fr>>]
Here(M, fr) == InstrAt(M.fns[fr.fn].code[fr.at], fr.pc)
Values(fr, i) == [k \in DOMAIN i.args |-> Val(fr.env, i.args[k])]
Ahead(fr, i, v) == [fr EXCEPT !.pc = @ + 1, !.env = Bind(@, i.def, v)]

(* Frames of ended calls are popped, and the caller takes the result and   *)
(* goes on, from an invoke to its normal target.                           *)
Resumed(M, fr, i, v) ==
    IF i.op = "invoke" THEN Jump(M, Ahead(fr, i, v), i.to[1]) ELSE Ahead(fr, i, v)

Return(M, m, v) ==
    IF Len(m.stack) = 1 THEN [m EXCEPT !.status = "done", !.ret = v]
    ELSE LET up == [m EXCEPT !.stack = Front(@)]
         IN  WithTop(up, Resumed(M, Top(up), Top(m).back, v))

(* A call of a function of the module; the trace tells those through a     *)
(* pointer from those that name the function.                              *)
EnterKind(i) == IF i.op = "icall" THEN "ienter" ELSE "enter"
Enter(M, m, i, vals) ==
    [m EXCEPT !.stack = Append(@, Frame(M, i.callee, vals, i)),
              !.trace = Append(@, Event(EnterKind(i), i.callee, vals))]

(* A call of an external function, which returns or, invoked, may unwind.  *)
Answer(vals) == IF vals = <<>> THEN 1 ELSE (vals[1] + 1) % 256
CallOut(M, m, i, vals, throws) ==
    LET fr == Top(m)
        next == IF i.op = "invoke" /\ throws THEN Jump(M, fr, i.to[2])
                ELSE Resumed(M, fr, i, Answer(vals))
    IN  [WithTop(m, next) EXCEPT !.trace = Append(@, Event(i.op, i.callee, vals))]

IsCall(i) == i.op \in {"call", "icall", "invoke"}
Target(i, vals) == i.to[IF Len(i.to) = 2 /\ vals[1] = 0 THEN 2 ELSE 1]

StepOf(M, throws, m) ==
    LET fr == Top(m)
        i == Here(M, fr)
        vals == Values(fr, i)
    IN  CASE Undefined \in ToSet(vals) -> [m EXCEPT !.status = "undefined"]
          [] Undefined \notin ToSet(vals) ->
               CASE i.op = "ret" -> Return(M, m, vals[1])
                 [] i.op = "br" -> WithTop(m, Jump(M, fr, Target(i, vals)))
                 [] IsCall(i) -> IF i.callee \in DOMAIN M.fns THEN Enter(M, m, i, vals)
                                 ELSE CallOut(M, m, i, vals, throws)
                 [] OTHER -> WithTop(m, Ahead(fr, i, Eval(i.op, i.ty, vals)))

(* A program that has not ended goes on, for at most Fuel * Fuel steps (a  *)
(* bound), Fuel at a time: programs end long before.                       *)
CONSTANT Fuel
ASSUME FuelOK == Fuel \in Nat

Burst(M, throws, m) ==
    LET S[n \in 0 .. Fuel] ==
          IF n = 0 THEN m
          ELSE LET s == S[n - 1] IN IF s.status = "running" THEN StepOf(M, throws, s) ELSE s
    IN  S[Fuel]

Run(M, f, vals, throws) ==
    LET R[n \in 0 .. Fuel] ==
          IF n = 0 THEN Starting(M, f, vals)
          ELSE LET m == R[n - 1] IN IF m.status = "running" THEN Burst(M, throws, m) ELSE m
    IN  R[Fuel]

Outcome(M, f, vals, throws) == [Run(M, f, vals, throws) EXCEPT !.stack = <<>>]
===============================================================================
