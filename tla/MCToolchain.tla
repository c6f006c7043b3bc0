------------------------------ MODULE MCToolchain ------------------------------
(* Small programs for Toolchain. *)
EXTENDS Toolchain

CONSTANT absent

A == <<"a">>
X == <<"x">>
Y == <<"y">>
Z == <<"z">>
W == <<"w">>
U == <<"u">>
F == <<"f">>
I == <<"i">>
Main == <<"main">>
G == <<"g">>
Ext == <<"ext">>
Throwing == <<"throwing">>
Entry == <<"entry">>
L == <<"left">>
R == <<"right">>
Join == <<"join">>
Loop == <<"loop">>
Param(v, ty) == [def |-> v, ty |-> ty]
PhiNode(def, ty, from) == [def |-> def, ty |-> ty, from |-> from]
Fn(params, order, code) == [params |-> params, entry |-> order[1], order |-> order, code |-> code]
Module(names, fns) == [names |-> names, fns |-> fns, table |-> <<>>]

(* A branch, additions and subtractions, calls and a phi node; an argument *)
(* that is no integer.                                                     *)
Diamond ==
    Fn(<<Param(A, "i8"), Param(F, "float")>>, <<Entry, Join, L, R>>,
       (Entry :> Block(<<>>, <<Instr("add", X, "i8", <<A, Const(255)>>)>>, CondBr(X, L, R))) @@
       (L :> Block(<<>>, <<Instr("sub", Y, "i8", <<X, A>>),
                          CallTo("call", None, "void", Ext, <<Y>>)>>, Br(Join))) @@
       (R :> Block(<<>>, <<CallTo("call", Z, "i8", Ext, <<A>>)>>, Br(Join))) @@
       (Join :> Block(<<PhiNode(W, "i8", (L :> Y) @@ (R :> Z))>>,
                      <<Instr("add", U, "i8", <<W, X>>)>>, Ret(U))))

(* A block that is its own successor. *)
Looping ==
    Fn(<<Param(A, "i8")>>, <<Entry, Loop, Join>>,
       (Entry :> Block(<<>>, <<>>, Br(Loop))) @@
       (Loop :> Block(<<PhiNode(I, "i8", (Entry :> A) @@ (Loop :> X))>>,
                      <<CallTo("call", Z, "i8", Ext, <<I>>),
                        Instr("add", X, "i8", <<I, Const(255)>>)>>, CondBr(X, Loop, Join))) @@
       (Join :> Block(<<>>, <<>>, Ret(Z))))

(* An invoke, and a landing pad with a block behind it. *)
Unwinding ==
    Fn(<<Param(A, "i8")>>, <<Entry, L, R, Join>>,
       (Entry :> Block(<<>>, <<Instr("add", X, "i16", <<A, A>>)>>,
                       Invoke(Z, "i8", Throwing, <<A>>, L, R))) @@
       (L :> Block(<<>>, <<>>, Ret(Z))) @@
       (R :> [Block(<<>>, <<Instr("sub", Y, "i16", <<X, A>>)>>, Br(Join)) EXCEPT !.pad = TRUE]) @@
       (Join :> Block(<<>>, <<CallTo("call", None, "void", Ext, <<Y>>)>>, Ret(A))))

(* main calls g, directly and through a pointer, and g and main call ext. *)
Calling ==
    Fn(<<Param(A, "i8")>>, <<Entry, L, R>>,
       (Entry :> Block(<<>>, <<CallTo("call", X, "i8", G, <<A>>)>>, CondBr(A, L, R))) @@
       (L :> Block(<<>>, <<CallTo("icall", None, "void", G, <<A>>)>>, Ret(X))) @@
       (R :> Block(<<>>, <<CallTo("icall", None, "void", Ext, <<A>>),
                          CallTo("call", None, "void", Ext, <<X>>)>>, Ret(X))))
Callee ==
    Fn(<<Param(W, "i8")>>, <<Entry>>,
       Entry :> Block(<<>>, <<CallTo("call", Y, "i8", Ext, <<W>>)>>, Ret(Y)))

Program(module, inputs, throws, passes, dups, tools, starts) ==
    [module |-> module, main |-> Main, inputs |-> inputs, throws |-> throws,
     passes |-> passes, targets |-> dups, tools |-> tools, starts |-> starts]
One(fn) == Module(<<Main, Ext, Throwing>>, Main :> fn)

MCPrograms ==
    {Program(One(Diamond), {<<0, 0>>, <<1, 0>>, <<200, 0>>}, FALSE, 2, 2, 0, <<<<1, 0>>>>),
     Program(One(Looping), {<<1>>, <<2>>}, FALSE, 2, 3, 0, <<<<2>>>>),
     Program(One(Unwinding), {<<3>>}, TRUE, 2, 2, 0, <<<<3>>>>),
     Program(One(Unwinding), {<<3>>}, TRUE, 1, 1, 2, <<<<3>>>>),
     Program(Module(<<Ext, Main, G>>, (Main :> Calling) @@ (G :> Callee)),
             {<<0>>, <<1>>}, FALSE, 1, 1, 1, <<<<0>>, <<1>>>>),
     Program(Module(<<Main, Ext, Throwing>>, (Main :> Unwinding) @@ (Throwing :> Callee)),
             {<<3>>}, FALSE, 1, 1, 1, <<<<3>>>>)}

(* The ratios 0.5 and nan; an argument that is no number, and one above 1. *)
MCRatios == {[number |-> TRUE, quarters |-> 2], [number |-> TRUE, quarters |-> NaN],
             [number |-> FALSE, quarters |-> 0], [number |-> TRUE, quarters |-> 6]}

MCCalling == {p \in MCPrograms : G \in DOMAIN p.module.fns}
================================================================================
