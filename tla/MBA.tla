---------------------------------- MODULE MBA ----------------------------------
(***************************************************************************)
(* The substitutions of MBAAdd and MBASub, instruction by instruction, and *)
(* the ratio option that says how often MBAAdd and DuplicateBB apply.      *)
(***************************************************************************)
EXTENDS IR

(* parser<Ratio>::parse, in quarters: an argument is the number strtod     *)
(* finds at its start, if any.  Neither comparison holds of a NaN.         *)
CONSTANTS NaN, Rejected
Greater(a, b) == a # NaN /\ b # NaN /\ a > b
Parse(arg) ==
    IF ~arg.number \/ Greater(0, arg.quarters) \/ Greater(arg.quarters, 4)
      THEN Rejected ELSE arg.quarters

(* The draw is > Ratio in MBAAdd, and <= Ratio in DuplicateBB. *)
SkipsAdd(draw, ratio) == Greater(draw, ratio)
Duplicates(draw, ratio) == ratio # NaN /\ ~Greater(draw, ratio)

(* (((a ^ b) + 2 * (a & b)) * 39 + 23) * 151 + 111, at the width of i8. *)
MixedAdd(i) ==
    LET V(word) == Append(i.def, word)
        New(op, word, x, y) == Instr(op, V(word), "i8", <<x, y>>)
    IN  << New("xor", "e0", i.args[1], i.args[2]),
           New("and", "and", i.args[1], i.args[2]),
           New("mul", "e1", Const(2), V("and")),
           New("add", "e2", V("e0"), V("e1")),
           New("mul", "e3", Const(39), V("e2")),
           New("add", "e4", Const(23), V("e3")),
           New("mul", "e5", Const(151), V("e4")),
           New("add", "new", Const(111), V("e5")) >>

(* Faulty variant: a + ~b. *)
MixedSubShort(i) ==
    << Instr("not", Append(i.def, "not"), i.ty, <<i.args[2]>>),
       Instr("add", Append(i.def, "new"), i.ty, <<i.args[1], Append(i.def, "not")>>) >>

(* (a + ~b) + 1, at any width. *)
MixedSub(i) ==
    LET V(word) == Append(i.def, word)
    IN  << Instr("not", V("not"), i.ty, <<i.args[2]>>),
           Instr("add", V("sum"), i.ty, <<i.args[1], V("not")>>),
           Instr("add", V("new"), i.ty, <<V("sum"), Const(1)>>) >>

(* The adds of other widths do not draw.  The generator is seeded anew for *)
(* every block: the k-th candidate of each block meets the k-th draw.      *)
IsCandidate(i) == i.op = "add" /\ i.ty = "i8"

(* ReplaceInstWithInst in a function: Insts(body) has a sequence for each  *)
(* instruction of a body, whose last one takes over the uses of an         *)
(* instruction that is gone.                                               *)
InstsReplaced(fn, Insts(_)) ==
    LET Filled(b) == [b EXCEPT !.body = FlattenSeq(Insts(b.body))]
        new == [fn EXCEPT !.code = [l \in Labels(fn) |-> Filled(fn.code[l])]]
        erased == UNION {BlockDefs(fn.code[l]) \ BlockDefs(new.code[l]) : l \in Labels(fn)}
    IN  UsesReplaced(new, [v \in erased |-> Append(v, "new")])

MBAAdd(fn, draws, ratio) ==
    LET Insts(body) ==
          LET Nth(k) == Cardinality({j \in 1 .. k : IsCandidate(body[j])})
          IN  [k \in DOMAIN body |->
                 IF IsCandidate(body[k]) /\ ~SkipsAdd(draws[Nth(k)], ratio)
                   THEN MixedAdd(body[k]) ELSE <<body[k]>>]
    IN  InstsReplaced(fn, Insts)

MBASub(fn) ==
    LET Insts(body) ==
          [k \in DOMAIN body |->
             IF body[k].op = "sub" /\ IsIntegerTy(body[k].ty)
               THEN MixedSub(body[k]) ELSE <<body[k]>>]
    IN  InstsReplaced(fn, Insts)
================================================================================
