------------------------------ MODULE DuplicateBB ------------------------------
(***************************************************************************)
(* DuplicateBB::duplicate: a block becomes a condition on its context      *)
(* value, two clones of its body and a tail that merges what they define.  *)
(***************************************************************************)
EXTENDS RIV

(* Faulty variant: the value as RIV knew it. *)
AsPicked(remapper, ctx) == ctx
(* A context value picked before its own block was duplicated is now the   *)
(* phi node that replaced it.                                              *)
ReMapped(remapper, ctx) == Subst(remapper, ctx)

(* ThenVMap and ElseVMap lead from an instruction to its clone.  The map   *)
(* follows when the instruction is replaced by its phi node.               *)
VMap(phi, side) ==
    [p \in {phi[v] : v \in DOMAIN phi} |-> Append(Front(p), side)]

(* Phi nodes that named the block as the one they come from name its tail. *)
ComingFrom(b, tail, blk) ==
    LET Phi(p) == [p EXCEPT !.from = [q \in {IF x = b THEN tail ELSE x : x \in DOMAIN p.from} |->
                                        p.from[IF q = tail THEN b ELSE q]]]
    IN  [blk EXCEPT !.phis = [k \in DOMAIN blk.phis |-> Phi(blk.phis[k])]]

Duplicated(fn, b, ctx, remapper) ==
    LET then == NewLabel(fn, b, "then")
        else == NewLabel(fn, b, "else")
        tail == NewLabel(fn, b, "tail")
        phi == [v \in Defs(fn.code[b].body) |-> Append(v, "phi")]
        new == UsesReplaced(fn, phi)
        body == new.code[b].body
        cond == Instr("isnull", Append(tail, "isnull"), "i1", <<ReMapped(remapper, ctx)>>)
        Clone(side) ==
            [k \in DOMAIN body |->
               [ArgsReplaced(body[k], VMap(phi, side)) EXCEPT
                  !.def = IF @ = None THEN None ELSE Append(@, side)]]
        PhiOf(i) == [def |-> phi[i.def], ty |-> i.ty,
                     from |-> (then :> Append(i.def, "then")) @@
                              (else :> Append(i.def, "else"))]
        valued == SelectSeq(body, LAMBDA i : i.def # None)
        merged == [k \in DOMAIN valued |-> PhiOf(valued[k])]
        at == CHOOSE i \in DOMAIN fn.order : fn.order[i] = b
        split == [new.code[b] EXCEPT !.body = <<cond>>, !.term = CondBr(cond.def, then, else)]
        code == [l \in Labels(fn) \cup {then, else, tail} |->
                   CASE l = then -> Block(<<>>, Clone("then"), Br(tail))
                     [] l = else -> Block(<<>>, Clone("else"), Br(tail))
                     [] l = tail -> Block(merged, <<>>, new.code[b].term)
                     [] l = b -> ComingFrom(b, tail, split)
                     [] OTHER -> ComingFrom(b, tail, new.code[l])]
    IN  [new EXCEPT !.code = code,
                    !.order = SubSeq(@, 1, at) \o <<then, else, tail>>
                                \o SubSeq(@, at + 1, Len(@))]

(* ReMapper[&Instr] = Phi, for every instruction replaced. *)
ReMapperAfter(fn, b, remapper) ==
    [v \in Defs(fn.code[b].body) |-> Append(v, "phi")] @@ remapper
================================================================================
