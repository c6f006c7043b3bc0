--------------------------- MODULE Toolchain_proofs ---------------------------
(***************************************************************************)
(* The steps of dynamic over any failures and any files that earlier       *)
(* builds left; modules that keep their shape whatever passes run; reports *)
(* that miss no call; and counters under any number of threads.            *)
(***************************************************************************)
EXTENDS Toolchain, Execution_proofs

ToolRecord ==
    /\ tool = [name |-> tool.name, stage |-> tool.stage,
               input |-> tool.input, mod |-> tool.mod]
    /\ disk = [obj |-> disk.obj, bin |-> disk.bin, saved |-> disk.saved]

(* Between compilation and linking the object file is the input's. *)
ObjectIsInputs ==
    tool.name = "dynamic" /\ tool.stage = "compiled" => disk.obj.of = tool.input

BuildInv == ToolRecord /\ ObjectIsInputs /\ FreshBinary

LEMMA OthersKeepBuild ==
  ASSUME BuildInv, UNCHANGED <<tool, disk>>
  PROVE  BuildInv'
BY DEF BuildInv, ToolRecord, ObjectIsInputs, FreshBinary

(* Where dynamic has neither an object file nor a binary to answer for,    *)
(* nothing is promised.                                                    *)
LEMMA EarlierStage ==
  ASSUME ToolRecord',
         (tool.name)' # "dynamic" \/ (tool.stage)' \notin {"compiled", "exit 0"}
  PROVE  BuildInv'
BY DEF BuildInv, ObjectIsInputs, FreshBinary

LEMMA LaunchInv ==
  ASSUME BuildInv, NEW name, Launch(name)
  PROVE  BuildInv'
<1>1. UNCHANGED disk
  BY DEF Launch
<1>2. \/ tool' = [name |-> name, stage |-> "parsed", input |-> file, mod |-> file]
      \/ tool' = [name |-> name, stage |-> "unread", input |-> Absent, mod |-> Absent]
  BY DEF Launch
<1>3. (tool.stage)' \in {"parsed", "unread"}
  BY <1>2
<1>4. (tool = [name |-> tool.name, stage |-> tool.stage,
               input |-> tool.input, mod |-> tool.mod])'
  BY <1>2
<1>5. ToolRecord'
  BY <1>1, <1>4 DEF BuildInv, ToolRecord
<1> QED
  BY <1>3, <1>5, EarlierStage

LEMMA CountStaticCallsInv ==
  ASSUME BuildInv, CountStaticCalls
  PROVE  BuildInv'
<1>1. /\ tool.name = "static" /\ tool' = [tool EXCEPT !.stage = "exit 0"]
      /\ UNCHANGED disk
  BY DEF CountStaticCalls, ToolStep
<1>2. ToolRecord' /\ (tool.name)' = "static"
  BY <1>1 DEF BuildInv, ToolRecord
<1> QED
  BY <1>2, EarlierStage

LEMMA InstrumentInv ==
  ASSUME BuildInv, InstrumentAndVerify
  PROVE  BuildInv'
<1>1. PICK s \in {"verified", "fatal"} :
        tool' = [tool EXCEPT !.stage = s, !.mod = Instrumented(tool.mod)]
  BY DEF InstrumentAndVerify, ReportFatalError
<1>2. UNCHANGED disk
  BY DEF InstrumentAndVerify
<1>3. ToolRecord' /\ (tool.stage)' = s
  BY <1>1, <1>2 DEF BuildInv, ToolRecord
<1> QED
  BY <1>3, EarlierStage

LEMMA SaveModuleInv ==
  ASSUME BuildInv, SaveModule
  PROVE  BuildInv'
<1>1. PICK s \in {"saved", "fatal"} : tool' = [tool EXCEPT !.stage = s]
  BY DEF SaveModule, Goes, ReportFatalError
<1>2. \/ UNCHANGED disk
      \/ \E f : disk' = [disk EXCEPT !.saved = f]
  BY DEF SaveModule
<1>3. ToolRecord' /\ (tool.stage)' = s
  BY <1>1, <1>2 DEF BuildInv, ToolRecord
<1> QED
  BY <1>3, EarlierStage

LEMMA CompileInv ==
  ASSUME BuildInv, Compile
  PROVE  BuildInv'
<1>1. CASE /\ tool' = [tool EXCEPT !.stage = "compiled"]
           /\ disk' = [disk EXCEPT !.obj = [of |-> tool.input, mod |-> tool.mod]]
  BY <1>1 DEF BuildInv, ToolRecord, ObjectIsInputs, FreshBinary
<1>2. CASE /\ tool' = [tool EXCEPT !.stage = "fatal"]
           /\ \E o : disk' = [disk EXCEPT !.obj = o]
  BY <1>2 DEF BuildInv, ToolRecord, ObjectIsInputs, FreshBinary
<1> QED
  BY <1>1, <1>2 DEF Compile, Goes, ReportFatalError

LEMMA LinkBinaryInv ==
  ASSUME BuildInv, Link
  PROVE  BuildInv'
<1>1. CASE /\ tool.name = "dynamic" /\ tool.stage = "compiled"
           /\ tool' = [tool EXCEPT !.stage = "exit 0"]
           /\ disk.obj # Absent /\ disk' = [disk EXCEPT !.bin = disk.obj]
  BY <1>1 DEF BuildInv, ToolRecord, ObjectIsInputs, FreshBinary
<1>2. CASE /\ tool' = [tool EXCEPT !.stage = "fatal"]
           /\ \E b : disk' = [disk EXCEPT !.bin = b]
  BY <1>2 DEF BuildInv, ToolRecord, ObjectIsInputs, FreshBinary
<1> QED
  BY <1>1, <1>2 DEF Link, ToolStep, Goes, ReportFatalError

(* Nothing but the steps of the tools touches a tool or the files it makes. *)
LEMMA OthersKeepTools ==
  ASSUME \/ RunMBAAdd \/ RunMBASub \/ PickTargets \/ Duplicate \/ DuplicateEnds
         \/ Execute \/ PrintCounts \/ \E t \in Threads : IncrLoad(t) \/ IncrStore(t)
  PROVE  UNCHANGED <<prog, tool, report, disk>>
<1>1. RunMBAAdd \/ RunMBASub \/ PickTargets => UNCHANGED <<prog, toolVars>>
  BY DEF RunMBAAdd, RunMBASub, PickTargets, Pass
<1>2. Duplicate \/ DuplicateEnds \/ Execute \/ PrintCounts => UNCHANGED <<prog, toolVars>>
  BY DEF Duplicate, DuplicateEnds, Execute, PrintCounts
<1>3. (\E t \in Threads : IncrLoad(t) \/ IncrStore(t)) => UNCHANGED <<prog, toolVars>>
  BY DEF IncrLoad, IncrStore
<1> QED
  BY <1>1, <1>2, <1>3 DEF toolVars

(* dynamic never reports success over a binary that is not its input's,    *)
(* whichever steps fail and whatever an earlier build left behind.         *)
THEOREM SuccessMeansFreshBinary == Spec => []FreshBinary
<1>1. Init => BuildInv
  BY DEF Init, BuildInv, ToolRecord, ObjectIsInputs, FreshBinary
<1>2. BuildInv /\ [Next]_vars => BuildInv'
  <2> SUFFICES ASSUME BuildInv, [Next]_vars
               PROVE  BuildInv'
    OBVIOUS
  <2>1. CASE UNCHANGED vars
    BY <2>1, OthersKeepBuild DEF vars, toolVars
  <2>2. CASE Launch("static") \/ Launch("dynamic")
    BY <2>2, LaunchInv
  <2>3. CASE CountStaticCalls \/ InstrumentAndVerify \/ SaveModule \/ Compile \/ Link
    BY <2>3, CountStaticCallsInv, InstrumentInv, SaveModuleInv, CompileInv, LinkBinaryInv
  <2>4. CASE \/ RunMBAAdd \/ RunMBASub \/ PickTargets \/ Duplicate \/ DuplicateEnds
             \/ Execute \/ PrintCounts \/ \E t \in Threads : IncrLoad(t) \/ IncrStore(t)
    BY <2>4, OthersKeepTools, OthersKeepBuild
  <2> QED
    BY <2>1, <2>2, <2>3, <2>4 DEF Next
<1>3. BuildInv => FreshBinary
  BY DEF BuildInv
<1> QED
  BY <1>1, <1>2, <1>3, PTL DEF Spec


---------------------------------------------------------------------------
(* The passes leave modules as they expect to find them *)

LEMMA BlocksSound ==
  ASSUME NEW names, NEW fn, FnOK(names, fn), NEW code, code = [l \in Labels(fn) |-> code[l]],
         \A l \in Labels(fn) : BlockOK(names, Labels(fn) \ {fn.entry}, code[l])
  PROVE  /\ FnOK(names, [fn EXCEPT !.code = code])
         /\ Labels([fn EXCEPT !.code = code]) = Labels(fn)
         /\ [fn EXCEPT !.code = code].entry = fn.entry
         /\ [fn EXCEPT !.code = code].code = code
<1> DEFINE g == [fn EXCEPT !.code = code]
<1>1. fn = [params |-> fn.params, entry |-> fn.entry, order |-> fn.order, code |-> fn.code]
  BY DEF FnOK
<1>2. g = [params |-> fn.params, entry |-> fn.entry, order |-> fn.order, code |-> code]
  BY <1>1
<1>3. DOMAIN code = Labels(fn)
  OBVIOUS
<1> HIDE DEF g
<1>4. Labels(g) = Labels(fn) /\ g.entry = fn.entry /\ g.code = code
  BY <1>2, <1>3 DEF Labels
<1>5. FnOK(names, g)
  <2>1. g = [params |-> g.params, entry |-> g.entry, order |-> g.order, code |-> g.code]
    BY <1>2
  <2>2. /\ IsFiniteSet(Labels(fn)) /\ \A l \in Labels(fn) : IsSeq(l)
        /\ fn.entry \in Labels(fn)
    BY DEF FnOK
  <2> QED
    BY <1>4, <2>1, <2>2 DEF FnOK
<1> QED
  BY <1>4, <1>5 DEF g

(* An instruction keeps its opcode, its callee and its targets. *)
LEMMA InstrSound ==
  ASSUME NEW names, NEW i, InstrOK(names, i), NEW args
  PROVE  LET j == [i EXCEPT !.args = args]
         IN  InstrOK(names, j) /\ j.op = i.op /\ j.to = i.to
BY DEF InstrOK

LEMMA BodySound ==
  ASSUME NEW names, NEW targets0, NEW b, BlockOK(names, targets0, b), NEW s, IsSeq(s),
         \A k \in DOMAIN s : InstrOK(names, s[k]) /\ s[k].op \notin Terminators
  PROVE  LET c == [b EXCEPT !.body = s]
         IN  BlockOK(names, targets0, c) /\ c.body = s /\ c.term = b.term
<1>1. b = [phis |-> b.phis, body |-> b.body, term |-> b.term, pad |-> b.pad]
  BY DEF BlockOK
<1> DEFINE c == [b EXCEPT !.body = s]
<1>2. c = [phis |-> b.phis, body |-> s, term |-> b.term, pad |-> b.pad]
  BY <1>1
<1> HIDE DEF c
<1>3. c = [phis |-> c.phis, body |-> c.body, term |-> c.term, pad |-> c.pad]
      /\ c.body = s /\ c.term = b.term
  BY <1>2
<1>4. BlockOK(names, targets0, c)
  BY <1>3 DEF BlockOK
<1> QED
  BY <1>3, <1>4 DEF c

LEMMA UsesSound ==
  ASSUME NEW names, NEW targets0, NEW b, BlockOK(names, targets0, b), NEW s
  PROVE  BlockOK(names, targets0, BlockReplaced(b, s))
<1> DEFINE phis == [k \in DOMAIN b.phis |-> FromReplaced(b.phis[k], s)]
           body == [k \in DOMAIN b.body |-> ArgsReplaced(b.body[k], s)]
           term == ArgsReplaced(b.term, s)
           c == BlockReplaced(b, s)
<1>1. b = [phis |-> b.phis, body |-> b.body, term |-> b.term, pad |-> b.pad]
  BY DEF BlockOK
<1>2. c = [phis |-> phis, body |-> body, term |-> term, pad |-> b.pad]
  <2>1. c = [b EXCEPT !.phis = phis, !.body = body, !.term = term]
    BY DEF BlockReplaced
  <2> HIDE DEF c, phis, body, term
  <2> QED
    BY <1>1, <2>1
<1>3. IsSeq(b.body) /\ DOMAIN b.body = 1 .. Len(b.body) /\ Len(b.body) \in Nat
  BY SeqFacts DEF BlockOK
<1>4. IsSeq(body) /\ DOMAIN body = DOMAIN b.body
  <2>1. DOMAIN body = 1 .. Len(b.body) /\ body = [k \in 1 .. Len(b.body) |-> body[k]]
    BY <1>3
  <2> HIDE DEF body
  <2> QED
    BY <1>3, <2>1, SeqFunction
<1>5. ASSUME NEW k \in DOMAIN b.body
      PROVE  InstrOK(names, body[k]) /\ body[k].op \notin Terminators
  <2>1. InstrOK(names, b.body[k]) /\ b.body[k].op \notin Terminators
    BY DEF BlockOK
  <2> DEFINE i == b.body[k]
             j == [i EXCEPT !.args = SubstAll(s, i.args)]
  <2>2. body[k] = j
    BY DEF ArgsReplaced
  <2>3. InstrOK(names, j) /\ j.op = i.op
    <3> HIDE DEF body
    <3> QED
      BY <2>1, InstrSound
  <2> HIDE DEF body, j
  <2> QED
    BY <2>1, <2>2, <2>3
<1>6. /\ InstrOK(names, term) /\ term.op = b.term.op /\ term.to = b.term.to
  <2>1. InstrOK(names, b.term)
    BY DEF BlockOK
  <2>2. term = [b.term EXCEPT !.args = SubstAll(s, b.term.args)]
    BY DEF ArgsReplaced
  <2> QED
    BY <2>1, <2>2, InstrSound
<1>7. /\ b.term.op \in Terminators /\ b.term.to \in Seq(targets0)
      /\ b.term.op = "br" => Len(b.term.to) \in {1, 2}
      /\ b.term.op = "invoke" => Len(b.term.to) = 2
  BY DEF BlockOK
<1> HIDE DEF phis, body, term, c
<1>8. c = [phis |-> c.phis, body |-> c.body, term |-> c.term, pad |-> c.pad]
      /\ c.body = body /\ c.term = term
  BY <1>2
<1>9. BlockOK(names, targets0, c)
  BY <1>4, <1>5, <1>6, <1>7, <1>8 DEF BlockOK
<1> QED
  BY <1>9 DEF c

LEMMA UsesReplacedSound ==
  ASSUME NEW names, NEW fn, FnOK(names, fn), NEW s
  PROVE  /\ FnOK(names, UsesReplaced(fn, s))
         /\ Labels(UsesReplaced(fn, s)) = Labels(fn)
         /\ UsesReplaced(fn, s).entry = fn.entry
<1> DEFINE code == [l \in Labels(fn) |-> BlockReplaced(fn.code[l], s)]
<1>1. UsesReplaced(fn, s) = [fn EXCEPT !.code = code]
  BY DEF UsesReplaced
<1>2. ASSUME NEW l \in Labels(fn)
      PROVE  BlockOK(names, Labels(fn) \ {fn.entry}, code[l])
  BY UsesSound DEF FnOK
<1>3. code = [l \in Labels(fn) |-> code[l]]
  OBVIOUS
<1> HIDE DEF code
<1> QED
  BY <1>1, <1>2, <1>3, BlocksSound


(* The sequences that replace the instructions of a body, laid out. *)
LEMMA FilledSound ==
  ASSUME NEW names, NEW targets0, NEW b, BlockOK(names, targets0, b),
         NEW ss, IsSeq(ss), \A k \in 1 .. Len(ss) : IsSeq(ss[k]),
         \A k \in 1 .. Len(ss) : \A j \in 1 .. Len(ss[k]) :
            InstrOK(names, ss[k][j]) /\ ss[k][j].op \notin Terminators
  PROVE  BlockOK(names, targets0, [b EXCEPT !.body = FlattenSeq(ss)])
<1> DEFINE s == FlattenSeq(ss)
<1>1. PICK off : Ends(ss, off) /\ Laid(ss, off, Len(ss), s)
  BY FlattenLaid
<1> HIDE DEF s
<1>2. IsSeq(s) /\ Len(s) = off[Len(ss)] /\ DOMAIN s = 1 .. Len(s)
  BY <1>1, SeqFacts DEF Laid
<1>3. ASSUME NEW p \in DOMAIN s
      PROVE  InstrOK(names, s[p]) /\ s[p].op \notin Terminators
  <2>1. PICK k \in 1 .. Len(ss) : \E j \in 1 .. Len(ss[k]) : p = off[k - 1] + j
    BY <1>1, <1>2 DEF Laid
  <2>2. PICK j \in 1 .. Len(ss[k]) : p = off[k - 1] + j
    BY <2>1
  <2>3. s[p] = ss[k][j]
    BY <1>1, <2>2 DEF Laid
  <2> QED
    BY <2>3
<1>4. BlockOK(names, targets0, [b EXCEPT !.body = s])
  BY <1>2, <1>3, BodySound
<1> QED
  BY <1>4 DEF s

LEMMA AddsSound ==
  ASSUME NEW names, NEW i
  PROVE  /\ IsSeq(MixedAdd(i))
         /\ \A j \in 1 .. Len(MixedAdd(i)) :
               InstrOK(names, MixedAdd(i)[j]) /\ MixedAdd(i)[j].op \notin Terminators
<1> DEFINE P(x) == InstrOK(names, x) /\ x.op \notin Terminators
<1>1. ASSUME NEW op \in {"xor", "and", "mul", "add"}, NEW def, NEW args
      PROVE  P(Instr(op, def, "i8", args))
  BY DEF Instr, InstrOK, Terminators
<1> HIDE DEF P
<1>2. ASSUME NEW a1, NEW a2, NEW a3, NEW a4, NEW a5, NEW a6, NEW a7, NEW a8,
             P(a1), P(a2), P(a3), P(a4), P(a5), P(a6), P(a7), P(a8)
      PROVE  LET s == <<a1, a2, a3, a4, a5, a6, a7, a8>>
             IN  IsSeq(s) /\ \A j \in 1 .. Len(s) : P(s[j])
  <2> DEFINE s == <<a1, a2, a3, a4, a5, a6, a7, a8>>
  <2>1. s \in Seq({a1, a2, a3, a4, a5, a6, a7, a8}) /\ Len(s) = 8
    OBVIOUS
  <2>2. \A j \in 1 .. 8 : P(s[j])
    BY <1>2
  <2> QED
    BY <2>1, <2>2, SeqOver
<1>3. IsSeq(MixedAdd(i)) /\ \A j \in 1 .. Len(MixedAdd(i)) : P(MixedAdd(i)[j])
  BY <1>1, <1>2 DEF MixedAdd
<1> QED
  BY <1>3 DEF P

LEMMA SubsSound ==
  ASSUME NEW names, NEW i, IsIntegerTy(i.ty)
  PROVE  /\ IsSeq(MixedSub(i))
         /\ \A j \in 1 .. Len(MixedSub(i)) :
               InstrOK(names, MixedSub(i)[j]) /\ MixedSub(i)[j].op \notin Terminators
<1> DEFINE P(x) == InstrOK(names, x) /\ x.op \notin Terminators
<1>1. ASSUME NEW op \in {"not", "add"}, NEW def, NEW args
      PROVE  P(Instr(op, def, i.ty, args))
  BY DEF Instr, InstrOK, Terminators
<1> HIDE DEF P
<1>2. ASSUME NEW a1, NEW a2, NEW a3, P(a1), P(a2), P(a3)
      PROVE  LET s == <<a1, a2, a3>>
             IN  IsSeq(s) /\ \A j \in 1 .. Len(s) : P(s[j])
  <2> DEFINE s == <<a1, a2, a3>>
  <2>1. s \in Seq({a1, a2, a3}) /\ Len(s) = 3
    OBVIOUS
  <2>2. \A j \in 1 .. 3 : P(s[j])
    BY <1>2
  <2> QED
    BY <2>1, <2>2, SeqOver
<1>3. IsSeq(MixedSub(i)) /\ \A j \in 1 .. Len(MixedSub(i)) : P(MixedSub(i)[j])
  BY <1>1, <1>2 DEF MixedSub
<1> QED
  BY <1>3 DEF P

LEMMA OneSound ==
  ASSUME NEW names, NEW targets0, NEW b, BlockOK(names, targets0, b), NEW k \in DOMAIN b.body
  PROVE  /\ IsSeq(<<b.body[k]>>)
         /\ \A j \in 1 .. Len(<<b.body[k]>>) :
               InstrOK(names, <<b.body[k]>>[j]) /\ <<b.body[k]>>[j].op \notin Terminators
<1> DEFINE i == b.body[k]
           s == <<i>>
<1>1. InstrOK(names, i) /\ i.op \notin Terminators
  BY DEF BlockOK
<1>2. IsSeq(s) /\ Len(s) = 1 /\ s[1] = i
  BY SeqOne
<1> HIDE DEF i, s
<1>3. \A j \in 1 .. Len(s) : j = 1
  BY <1>2
<1>4. \A j \in 1 .. Len(s) : InstrOK(names, s[j]) /\ s[j].op \notin Terminators
  BY <1>1, <1>2, <1>3
<1> QED
  BY <1>2, <1>4 DEF i, s

LEMMA BodiesSound ==
  ASSUME NEW names, NEW targets0, NEW b, BlockOK(names, targets0, b), NEW ss,
         ss = [k \in DOMAIN b.body |-> ss[k]],
         \A k \in DOMAIN b.body :
            \/ ss[k] = <<b.body[k]>>
            \/ ss[k] = MixedAdd(b.body[k])
            \/ ss[k] = MixedSub(b.body[k]) /\ IsIntegerTy(b.body[k].ty)
  PROVE  BlockOK(names, targets0, [b EXCEPT !.body = FlattenSeq(ss)])
<1>1. IsSeq(b.body) /\ DOMAIN b.body = 1 .. Len(b.body) /\ Len(b.body) \in Nat
  BY SeqFacts DEF BlockOK
<1>2. DOMAIN ss = 1 .. Len(b.body) /\ ss = [k \in 1 .. Len(b.body) |-> ss[k]]
  BY <1>1
<1>3. IsSeq(ss) /\ Len(ss) = Len(b.body)
  BY <1>1, <1>2, SeqFunction
<1>4. ASSUME NEW k \in 1 .. Len(ss)
      PROVE  /\ IsSeq(ss[k])
             /\ \A j \in 1 .. Len(ss[k]) :
                   InstrOK(names, ss[k][j]) /\ ss[k][j].op \notin Terminators
  <2>1. k \in DOMAIN b.body
    BY <1>1, <1>3
  <2>2. CASE ss[k] = <<b.body[k]>>
    <3> DEFINE t == <<b.body[k]>>
    <3>1. /\ IsSeq(t)
          /\ \A j \in 1 .. Len(t) : InstrOK(names, t[j]) /\ t[j].op \notin Terminators
      BY <2>1, OneSound
    <3> HIDE DEF t
    <3>2. ss[k] = t
      BY <2>2 DEF t
    <3> QED
      BY <3>1, <3>2
  <2>3. CASE ss[k] = MixedAdd(b.body[k])
    BY <2>3, AddsSound
  <2>4. CASE ss[k] = MixedSub(b.body[k]) /\ IsIntegerTy(b.body[k].ty)
    BY <2>4, SubsSound
  <2> QED
    BY <2>1, <2>2, <2>3, <2>4
<1> QED
  BY <1>3, <1>4, FilledSound


(* What the two passes make of a function: ss[l] has the sequences that    *)
(* replace the instructions of the block l.                                *)
Replacing(fn, ss) ==
    \A l \in Labels(fn) :
       /\ ss[l] = [k \in DOMAIN fn.code[l].body |-> ss[l][k]]
       /\ \A k \in DOMAIN fn.code[l].body :
            LET i == fn.code[l].body[k]
            IN  \/ ss[l][k] = <<i>>
                \/ ss[l][k] = MixedAdd(i)
                \/ ss[l][k] = MixedSub(i) /\ IsIntegerTy(i.ty)

Rewritten(fn, ss, s) ==
    UsesReplaced([fn EXCEPT !.code = [l \in Labels(fn) |->
                                        [fn.code[l] EXCEPT !.body = FlattenSeq(ss[l])]]], s)

LEMMA InstsReplacedSound ==
  ASSUME NEW names, NEW fn, FnOK(names, fn), NEW ss, Replacing(fn, ss), NEW s
  PROVE  /\ FnOK(names, Rewritten(fn, ss, s)) /\ Labels(Rewritten(fn, ss, s)) = Labels(fn)
         /\ Rewritten(fn, ss, s).entry = fn.entry
<1> DEFINE code == [l \in Labels(fn) |-> [fn.code[l] EXCEPT !.body = FlattenSeq(ss[l])]]
           new == [fn EXCEPT !.code = code]
<1>1. ASSUME NEW l \in Labels(fn)
      PROVE  BlockOK(names, Labels(fn) \ {fn.entry}, code[l])
  <2> DEFINE b == fn.code[l]
             t == ss[l]
             c == [b EXCEPT !.body = FlattenSeq(t)]
  <2>1. BlockOK(names, Labels(fn) \ {fn.entry}, b)
    BY DEF FnOK
  <2>2. /\ t = [k \in DOMAIN b.body |-> t[k]]
        /\ \A k \in DOMAIN b.body :
             \/ t[k] = <<b.body[k]>>
             \/ t[k] = MixedAdd(b.body[k])
             \/ t[k] = MixedSub(b.body[k]) /\ IsIntegerTy(b.body[k].ty)
    BY DEF Replacing
  <2>3. code[l] = c
    OBVIOUS
  <2> HIDE DEF b, t, code
  <2>4. BlockOK(names, Labels(fn) \ {fn.entry}, c)
    BY <2>1, <2>2, BodiesSound
  <2> QED
    BY <2>3, <2>4
<1>2. code = [l \in Labels(fn) |-> code[l]]
  OBVIOUS
<1>3. FnOK(names, new) /\ Labels(new) = Labels(fn) /\ new.entry = fn.entry
        /\ new.code = code
  <2> HIDE DEF code
  <2> QED
    BY <1>1, <1>2, BlocksSound
<1> HIDE DEF new
<1>4. /\ FnOK(names, UsesReplaced(new, s)) /\ Labels(UsesReplaced(new, s)) = Labels(fn)
      /\ UsesReplaced(new, s).entry = fn.entry
  BY <1>3, UsesReplacedSound
<1> QED
  BY <1>4 DEF new, Rewritten

LEMMA MBASubSound ==
  ASSUME NEW names, NEW fn, FnOK(names, fn)
  PROVE  /\ FnOK(names, MBASub(fn)) /\ Labels(MBASub(fn)) = Labels(fn)
         /\ MBASub(fn).entry = fn.entry
<1> DEFINE Insts(body) == [k \in DOMAIN body |->
             IF body[k].op = "sub" /\ IsIntegerTy(body[k].ty)
               THEN MixedSub(body[k]) ELSE <<body[k]>>]
           ss == [l \in Labels(fn) |-> Insts(fn.code[l].body)]
<1>1. \E s : MBASub(fn) = Rewritten(fn, ss, s)
  BY DEF MBASub, InstsReplaced, Rewritten
<1>2. Replacing(fn, ss)
  BY DEF Replacing
<1>3. PICK s : MBASub(fn) = Rewritten(fn, ss, s)
  BY <1>1
<1> HIDE DEF ss
<1> QED
  BY <1>2, <1>3, InstsReplacedSound

LEMMA MBAAddSound ==
  ASSUME NEW names, NEW fn, FnOK(names, fn), NEW draws, NEW ratio
  PROVE  /\ FnOK(names, MBAAdd(fn, draws, ratio))
         /\ Labels(MBAAdd(fn, draws, ratio)) = Labels(fn)
         /\ MBAAdd(fn, draws, ratio).entry = fn.entry
<1> DEFINE Insts(body) ==
             LET Nth(k) == Cardinality({j \in 1 .. k : IsCandidate(body[j])})
             IN  [k \in DOMAIN body |->
                    IF IsCandidate(body[k]) /\ ~SkipsAdd(draws[Nth(k)], ratio)
                      THEN MixedAdd(body[k]) ELSE <<body[k]>>]
           ss == [l \in Labels(fn) |-> Insts(fn.code[l].body)]
<1>1. \E s : MBAAdd(fn, draws, ratio) = Rewritten(fn, ss, s)
  BY DEF MBAAdd, InstsReplaced, Rewritten
<1>2. Replacing(fn, ss)
  BY DEF Replacing
<1>3. PICK s : MBAAdd(fn, draws, ratio) = Rewritten(fn, ss, s)
  BY <1>1
<1> HIDE DEF ss
<1> QED
  BY <1>2, <1>3, InstsReplacedSound


LEMMA SameWords ==
  ASSUME NEW n \in Nat, NEW x
  PROVE  IsSeq([k \in 1 .. n |-> x]) /\ Len([k \in 1 .. n |-> x]) = n
<1> DEFINE w == [k \in 1 .. n |-> x]
<1>1. DOMAIN w = 1 .. n /\ w = [k \in 1 .. n |-> w[k]]
  OBVIOUS
<1> HIDE DEF w
<1>2. IsSeq(w) /\ Len(w) = n
  BY <1>1, SeqFunction
<1> QED
  BY <1>2 DEF w

LEMMA NewLabelFresh ==
  ASSUME NEW names, NEW fn, FnOK(names, fn), NEW b \in Labels(fn), NEW word
  PROVE  NewLabel(fn, b, word) \notin Labels(fn) /\ IsSeq(NewLabel(fn, b, word))
<1> DEFINE L == Labels(fn)
           Longer(n) == b \o [k \in 1 .. n |-> word]
           N == Cardinality(L)
           S == {n \in 1 .. N + 1 : Longer(n) \notin L}
           Least(n) == Longer(n) \notin L /\ \A k \in 1 .. n - 1 : Longer(k) \in L
           n0 == CHOOSE n \in 1 .. N + 1 : Least(n)
<1>1. IsFiniteSet(L) /\ IsSeq(b) /\ N \in Nat /\ Len(b) \in Nat
  BY FS_CardinalityType, SeqFacts DEF FnOK
<1>2. ASSUME NEW n \in Nat
      PROVE  IsSeq(Longer(n)) /\ Len(Longer(n)) = Len(b) + n
  <2> DEFINE w == [k \in 1 .. n |-> word]
  <2>1. IsSeq(w) /\ Len(w) = n
    BY SameWords
  <2>2. Longer(n) = b \o w
    OBVIOUS
  <2> HIDE DEF w, Longer
  <2>3. IsSeq(b \o w) /\ Len(b \o w) = Len(b) + Len(w)
    BY <1>1, <2>1, SeqConcat
  <2> QED
    BY <2>1, <2>2, <2>3
<1> HIDE DEF Longer
<1>3. S # {}
  <2> SUFFICES ASSUME S = {}
               PROVE  FALSE
    OBVIOUS
  <2> DEFINE g == [n \in 1 .. N + 1 |-> Longer(n)]
  <2>1. g \in [1 .. N + 1 -> L]
    OBVIOUS
  <2>2. IsFiniteSet(1 .. N + 1) /\ Cardinality(1 .. N + 1) = N + 1
    <3>1. 1 \in Int /\ N + 1 \in Int /\ ~(1 > N + 1) /\ (N + 1) - 1 + 1 = N + 1
      BY <1>1
    <3> HIDE DEF N
    <3> QED
      BY <3>1, FS_Interval
  <2>3. N < N + 1
    BY <1>1
  <2> HIDE DEF g, L
  <2>4. \E x, y \in 1 .. N + 1 : x # y /\ g[x] = g[y]
    BY <1>1, <2>1, <2>2, <2>3, FS_PigeonHole
  <2>5. PICK x \in 1 .. N + 1 : \E y \in 1 .. N + 1 : x # y /\ g[x] = g[y]
    BY <2>4
  <2>6. PICK y \in 1 .. N + 1 : x # y /\ g[x] = g[y]
    BY <2>5
  <2>7. Longer(x) = Longer(y) /\ x \in Nat /\ y \in Nat
    BY <1>1, <2>6 DEF g
  <2>8. Len(b) + x = Len(b) + y
    BY <1>2, <2>7
  <2> QED
    BY <1>1, <2>6, <2>7, <2>8
<1>4. \E n \in 1 .. N + 1 : Least(n)
  <2>1. PICK n \in S : \A m \in S : n <= m
    <3>1. S \subseteq Nat
      BY <1>1
    <3> HIDE DEF S
    <3> QED
      BY <1>3, <3>1, LeastNatural
  <2>2. n \in 1 .. N + 1 /\ Longer(n) \notin L
    OBVIOUS
  <2>3. ASSUME NEW k \in 1 .. n - 1
        PROVE  Longer(k) \in L
    <3>1. k \in 1 .. N + 1 /\ ~(n <= k)
      BY <1>1, <2>2
    <3> QED
      BY <2>1, <3>1
  <2> QED
    BY <2>2, <2>3
<1>5. n0 \in 1 .. N + 1 /\ Least(n0)
  <2> HIDE DEF Least
  <2> QED
    BY <1>4
<1>6. NewLabel(fn, b, word) = Longer(n0)
  BY DEF NewLabel, Longer
<1> HIDE DEF n0
<1>7. n0 \in Nat /\ Longer(n0) \notin L
  BY <1>1, <1>5
<1> QED
  BY <1>2, <1>6, <1>7

LEMMA MoreTargets ==
  ASSUME NEW names, NEW S, NEW T, S \subseteq T, NEW b, BlockOK(names, S, b)
  PROVE  BlockOK(names, T, b)
<1>1. b.term.to \in Seq(T)
  BY SeqMonotonic DEF BlockOK
<1> QED
  BY <1>1 DEF BlockOK

LEMMA PhisSound ==
  ASSUME NEW names, NEW T, NEW b, BlockOK(names, T, b), NEW phis
  PROVE  BlockOK(names, T, [b EXCEPT !.phis = phis])
<1> DEFINE c == [b EXCEPT !.phis = phis]
<1>1. b = [phis |-> b.phis, body |-> b.body, term |-> b.term, pad |-> b.pad]
  BY DEF BlockOK
<1>2. c = [phis |-> phis, body |-> b.body, term |-> b.term, pad |-> b.pad]
  BY <1>1
<1> HIDE DEF c
<1>3. c = [phis |-> c.phis, body |-> c.body, term |-> c.term, pad |-> c.pad]
      /\ c.body = b.body /\ c.term = b.term
  BY <1>2
<1>4. BlockOK(names, T, c)
  BY <1>3 DEF BlockOK
<1> QED
  BY <1>4 DEF c

LEMMA CloneSound ==
  ASSUME NEW names, NEW i, InstrOK(names, i), NEW s, NEW def
  PROVE  LET j == [ArgsReplaced(i, s) EXCEPT !.def = def]
         IN  InstrOK(names, j) /\ j.op = i.op
<1> DEFINE a == SubstAll(s, i.args)
           j == [ArgsReplaced(i, s) EXCEPT !.def = def]
<1>1. i = [op |-> i.op, def |-> i.def, ty |-> i.ty, args |-> i.args,
           callee |-> i.callee, to |-> i.to]
  BY DEF InstrOK
<1>2. ArgsReplaced(i, s) = [op |-> i.op, def |-> i.def, ty |-> i.ty, args |-> a,
                            callee |-> i.callee, to |-> i.to]
  BY <1>1 DEF ArgsReplaced
<1> HIDE DEF a
<1>3. j = [op |-> i.op, def |-> def, ty |-> i.ty, args |-> a, callee |-> i.callee, to |-> i.to]
  BY <1>2
<1> HIDE DEF j
<1>4. InstrOK(names, j) /\ j.op = i.op
  BY <1>3 DEF InstrOK
<1> QED
  BY <1>4 DEF j

(* A new block with a body of checked instructions. *)
LEMMA NewBlockSound ==
  ASSUME NEW names, NEW T, NEW phis, NEW s, IsSeq(s),
         \A k \in DOMAIN s : InstrOK(names, s[k]) /\ s[k].op \notin Terminators,
         NEW term, InstrOK(names, term), term.op \in Terminators, term.to \in Seq(T),
         term.op = "br" => Len(term.to) \in {1, 2}, term.op = "invoke" => Len(term.to) = 2
  PROVE  BlockOK(names, T, Block(phis, s, term))
<1> DEFINE c == Block(phis, s, term)
<1>1. c = [phis |-> phis, body |-> s, term |-> term, pad |-> FALSE]
  BY DEF Block
<1> HIDE DEF c
<1>2. c = [phis |-> c.phis, body |-> c.body, term |-> c.term, pad |-> c.pad]
      /\ c.body = s /\ c.term = term
  BY <1>1
<1>3. BlockOK(names, T, c)
  BY <1>2 DEF BlockOK
<1> QED
  BY <1>3 DEF c


LEMMA ComingFromSound ==
  ASSUME NEW names, NEW T, NEW c, BlockOK(names, T, c), NEW b, NEW tail
  PROVE  BlockOK(names, T, ComingFrom(b, tail, c))
BY PhisSound DEF ComingFrom

LEMMA ClonesSound ==
  ASSUME NEW names, NEW T, NEW c, BlockOK(names, T, c), NEW s, NEW def
  PROVE  LET t == [k \in DOMAIN c.body |-> [ArgsReplaced(c.body[k], s) EXCEPT !.def = def[k]]]
         IN  /\ IsSeq(t)
             /\ \A k \in DOMAIN t : InstrOK(names, t[k]) /\ t[k].op \notin Terminators
<1> DEFINE t == [k \in DOMAIN c.body |-> [ArgsReplaced(c.body[k], s) EXCEPT !.def = def[k]]]
<1>1. IsSeq(c.body) /\ DOMAIN c.body = 1 .. Len(c.body) /\ Len(c.body) \in Nat
  BY SeqFacts DEF BlockOK
<1>2. DOMAIN t = 1 .. Len(c.body) /\ t = [k \in 1 .. Len(c.body) |-> t[k]]
  BY <1>1
<1>3. ASSUME NEW k \in DOMAIN c.body
      PROVE  InstrOK(names, t[k]) /\ t[k].op \notin Terminators
  <2> DEFINE i == c.body[k]
             j == [ArgsReplaced(i, s) EXCEPT !.def = def[k]]
  <2>1. InstrOK(names, i) /\ i.op \notin Terminators
    BY DEF BlockOK
  <2>2. t[k] = j
    OBVIOUS
  <2> HIDE DEF t, i
  <2>3. InstrOK(names, j) /\ j.op = i.op
    BY <2>1, CloneSound
  <2> QED
    BY <2>1, <2>2, <2>3
<1> HIDE DEF t
<1>4. IsSeq(t) /\ DOMAIN t = DOMAIN c.body
  BY <1>1, <1>2, SeqFunction
<1>5. IsSeq(t) /\ \A k \in DOMAIN t : InstrOK(names, t[k]) /\ t[k].op \notin Terminators
  BY <1>3, <1>4
<1> QED
  BY <1>5 DEF t

LEMMA CondBrSound ==
  ASSUME NEW names, NEW x, NEW l, NEW m
  PROVE  /\ InstrOK(names, CondBr(x, l, m)) /\ CondBr(x, l, m).op = "br"
         /\ CondBr(x, l, m).to = <<l, m>>
<1> DEFINE j == CondBr(x, l, m)
<1>1. j = [op |-> "br", def |-> None, ty |-> "void", args |-> <<x>>, callee |-> None,
           to |-> <<l, m>>]
  BY DEF CondBr, Instr
<1> HIDE DEF j
<1>2. InstrOK(names, j) /\ j.op = "br" /\ j.to = <<l, m>>
  BY <1>1 DEF InstrOK
<1> QED
  BY <1>2 DEF j

(* A function with more blocks. *)
Grown(fn, code, order) == [fn EXCEPT !.code = code, !.order = order]

LEMMA GrownSound ==
  ASSUME NEW names, NEW fn, FnOK(names, fn), NEW L, Labels(fn) \subseteq L, IsFiniteSet(L),
         \A l \in L : IsSeq(l), NEW code, code = [l \in L |-> code[l]], NEW order,
         \A l \in L : BlockOK(names, L \ {fn.entry}, code[l])
  PROVE  FnOK(names, Grown(fn, code, order)) /\ Labels(Grown(fn, code, order)) = L
<1> DEFINE g == Grown(fn, code, order)
<1>1. fn = [params |-> fn.params, entry |-> fn.entry, order |-> fn.order, code |-> fn.code]
      /\ fn.entry \in Labels(fn)
  BY DEF FnOK
<1>2. g = [params |-> fn.params, entry |-> fn.entry, order |-> order, code |-> code]
  <2>1. g = [fn EXCEPT !.code = code, !.order = order]
    BY DEF Grown
  <2> HIDE DEF g
  <2> QED
    BY <1>1, <2>1
<1>3. DOMAIN code = L
  OBVIOUS
<1> HIDE DEF g
<1>4. Labels(g) = L /\ g.entry = fn.entry /\ g.code = code
      /\ g = [params |-> g.params, entry |-> g.entry, order |-> g.order, code |-> g.code]
  BY <1>2, <1>3 DEF Labels
<1>5. FnOK(names, g)
  BY <1>1, <1>4 DEF FnOK
<1> QED
  BY <1>4, <1>5 DEF g

LEMMA DuplicatedSound ==
  ASSUME NEW names, NEW fn, FnOK(names, fn), NEW b \in Labels(fn), NEW ctx, NEW renames
  PROVE  /\ FnOK(names, Duplicated(fn, b, ctx, renames))
         /\ Labels(fn) \subseteq Labels(Duplicated(fn, b, ctx, renames))
<1> DEFINE then == NewLabel(fn, b, "then")
           else == NewLabel(fn, b, "else")
           tail == NewLabel(fn, b, "tail")
           phi == [v \in Defs(fn.code[b].body) |-> Append(v, "phi")]
           new == UsesReplaced(fn, phi)
           body == new.code[b].body
           cond == Instr("isnull", Append(tail, "isnull"), "i1", <<ReMapped(renames, ctx)>>)
           Clone(side) ==
             [k \in DOMAIN body |->
                [ArgsReplaced(body[k], VMap(phi, side)) EXCEPT
                   !.def = IF @ = None THEN None ELSE Append(@, side)]]
           PhiOf(i) == [def |-> phi[i.def], ty |-> i.ty,
                        from |-> (then :> Append(i.def, "then")) @@
                                 (else :> Append(i.def, "else"))]
           valued == SelectSeq(body, LAMBDA i : i.def # None)
           merged == [k \in DOMAIN valued |-> PhiOf(valued[k])]
           at == CHOOSE i \in DOMAIN fn.order : fn.order[i] = b
           split == [new.code[b] EXCEPT !.body = <<cond>>, !.term = CondBr(cond.def, then, else)]
           L == Labels(fn) \cup {then, else, tail}
           T == L \ {fn.entry}
           code == [l \in L |->
                      CASE l = then -> Block(<<>>, Clone("then"), Br(tail))
                        [] l = else -> Block(<<>>, Clone("else"), Br(tail))
                        [] l = tail -> Block(merged, <<>>, new.code[b].term)
                        [] l = b -> ComingFrom(b, tail, split)
                        [] OTHER -> ComingFrom(b, tail, new.code[l])]
           order == SubSeq(new.order, 1, at) \o <<then, else, tail>>
                       \o SubSeq(new.order, at + 1, Len(new.order))
<1>1. /\ FnOK(names, new) /\ Labels(new) = Labels(fn) /\ new.entry = fn.entry
  BY UsesReplacedSound
<1>2. Duplicated(fn, b, ctx, renames) = Grown(new, code, order)
  BY DEF Duplicated, Grown
<1> HIDE DEF phi, new
<1>3. /\ then \notin Labels(fn) /\ else \notin Labels(fn) /\ tail \notin Labels(fn)
      /\ IsSeq(then) /\ IsSeq(else) /\ IsSeq(tail)
  <2>1. then \notin Labels(fn) /\ IsSeq(then)
    BY NewLabelFresh
  <2>2. else \notin Labels(fn) /\ IsSeq(else)
    BY NewLabelFresh
  <2>3. tail \notin Labels(fn) /\ IsSeq(tail)
    BY NewLabelFresh
  <2> HIDE DEF then, else, tail
  <2> QED
    BY <2>1, <2>2, <2>3
<1>4. fn.entry \in Labels(fn) /\ IsFiniteSet(Labels(fn)) /\ \A l \in Labels(fn) : IsSeq(l)
  BY DEF FnOK
<1> HIDE DEF then, else, tail
<1>5. IsFiniteSet(L) /\ Labels(new) \subseteq L /\ \A l \in L : IsSeq(l)
  <2>1. IsFiniteSet({then, else, tail})
    <3>1. IsFiniteSet({} \cup {then}) /\ {} \cup {then} = {then}
      BY FS_EmptySet, FS_AddElement
    <3>2. IsFiniteSet({then} \cup {else})
      BY <3>1, FS_AddElement
    <3>3. IsFiniteSet(({then} \cup {else}) \cup {tail})
      BY <3>2, FS_AddElement
    <3>4. ({then} \cup {else}) \cup {tail} = {then, else, tail}
      OBVIOUS
    <3> QED
      BY <3>3, <3>4
  <2>2. IsFiniteSet(L)
    BY <1>4, <2>1, FS_Union
  <2> QED
    BY <1>1, <1>3, <1>4, <2>2
<1>6. /\ then \in T /\ else \in T /\ tail \in T /\ Labels(fn) \ {fn.entry} \subseteq T
  BY <1>3, <1>4
<1>7. ASSUME NEW l \in Labels(fn)
      PROVE  BlockOK(names, T, new.code[l])
  <2>1. BlockOK(names, Labels(fn) \ {fn.entry}, new.code[l])
    BY <1>1 DEF FnOK
  <2> HIDE DEF T
  <2> QED
    BY <1>6, <2>1, MoreTargets
<1> HIDE DEF T, merged, order
<1>8. ASSUME NEW side
      PROVE  BlockOK(names, T, Block(<<>>, Clone(side), Br(tail)))
  <2> DEFINE def == [k \in DOMAIN body |->
                       IF ArgsReplaced(body[k], VMap(phi, side)).def = None THEN None
                       ELSE Append(ArgsReplaced(body[k], VMap(phi, side)).def, side)]
             c == new.code[b]
             s == VMap(phi, side)
             t == [k \in DOMAIN c.body |-> [ArgsReplaced(c.body[k], s) EXCEPT !.def = def[k]]]
  <2>1. t = Clone(side)
    OBVIOUS
  <2>2. BlockOK(names, T, c)
    BY <1>7
  <2> HIDE DEF def, s
  <2>3. /\ IsSeq(t)
        /\ \A k \in DOMAIN t : InstrOK(names, t[k]) /\ t[k].op \notin Terminators
    BY <2>2, ClonesSound
  <2>4. /\ InstrOK(names, Br(tail)) /\ Br(tail).op \in Terminators /\ Br(tail).op = "br"
        /\ Br(tail).to = <<tail>>
    BY DEF Br, Instr, InstrOK, Terminators
  <2>5. Br(tail).to \in Seq(T) /\ Len(Br(tail).to) = 1
    BY <1>6, <2>4
  <2> HIDE DEF t
  <2>6. BlockOK(names, T, Block(<<>>, t, Br(tail)))
    BY <2>3, <2>4, <2>5, NewBlockSound
  <2> QED
    BY <2>1, <2>6
<1>9. BlockOK(names, T, Block(merged, <<>>, new.code[b].term))
  <2>1. BlockOK(names, T, new.code[b])
    BY <1>7
  <2> DEFINE t == new.code[b].term
             e == <<>>
  <2>2. /\ InstrOK(names, t) /\ t.op \in Terminators /\ t.to \in Seq(T)
        /\ t.op = "br" => Len(t.to) \in {1, 2}
        /\ t.op = "invoke" => Len(t.to) = 2
    BY <2>1 DEF BlockOK
  <2>3. IsSeq(e) /\ DOMAIN e = {}
    BY SeqEmpty
  <2> HIDE DEF t, e
  <2>4. BlockOK(names, T, Block(merged, e, t))
    BY <2>2, <2>3, NewBlockSound
  <2> QED
    BY <2>4 DEF t, e
<1>10. BlockOK(names, T, split)
  <2> DEFINE t == CondBr(cond.def, then, else)
             s == <<cond>>
             c == new.code[b]
  <2>1. BlockOK(names, T, c)
    BY <1>7
  <2>2. InstrOK(names, cond) /\ cond.op \notin Terminators
    BY DEF Instr, InstrOK, Terminators
  <2> HIDE DEF cond
  <2>3. InstrOK(names, t) /\ t.op = "br" /\ t.to = <<then, else>>
    <3> HIDE DEF L, code, split, Clone
    <3>1. \A x : LET j == CondBr(x, then, else)
                 IN  InstrOK(names, j) /\ j.op = "br" /\ j.to = <<then, else>>
      BY ONLY CondBrSound
    <3> QED
      BY ONLY <3>1 DEF t
  <2> HIDE DEF t
  <2>4. t.op \in Terminators /\ t.to \in Seq(T) /\ Len(t.to) = 2
    BY <1>6, <2>3 DEF Terminators
  <2>5. IsSeq(s) /\ \A k \in DOMAIN s : InstrOK(names, s[k]) /\ s[k].op \notin Terminators
    <3>1. IsSeq(s) /\ Len(s) = 1 /\ s[1] = cond /\ DOMAIN s = 1 .. Len(s)
      BY SeqOne, SeqFacts
    <3> QED
      BY <2>2, <3>1
  <2>6. c = [phis |-> c.phis, body |-> c.body, term |-> c.term, pad |-> c.pad]
    BY <2>1 DEF BlockOK
  <2>7. split = [phis |-> c.phis, body |-> s, term |-> t, pad |-> c.pad]
    <3>1. split = [c EXCEPT !.body = s, !.term = t]
      BY DEF t
    <3> HIDE DEF c, split, s
    <3> QED
      BY <2>6, <3>1
  <2> HIDE DEF s, split
  <2>8. split = [phis |-> split.phis, body |-> split.body, term |-> split.term, pad |-> split.pad]
        /\ split.body = s /\ split.term = t
    BY <2>7
  <2> QED
    BY <2>3, <2>4, <2>5, <2>8 DEF BlockOK
<1> HIDE DEF split, body, cond
<1>11. ASSUME NEW l \in L
       PROVE  BlockOK(names, T, code[l])
  <2>1. BlockOK(names, T, ComingFrom(b, tail, split))
    BY <1>10, ComingFromSound
  <2>2. l \in Labels(fn) => BlockOK(names, T, ComingFrom(b, tail, new.code[l]))
    BY <1>7, ComingFromSound
  <2> HIDE DEF Clone
  <2>3. /\ BlockOK(names, T, Block(<<>>, Clone("then"), Br(tail)))
        /\ BlockOK(names, T, Block(<<>>, Clone("else"), Br(tail)))
    BY <1>8
  <2>4. code[l] = CASE l = then -> Block(<<>>, Clone("then"), Br(tail))
                    [] l = else -> Block(<<>>, Clone("else"), Br(tail))
                    [] l = tail -> Block(merged, <<>>, new.code[b].term)
                    [] l = b -> ComingFrom(b, tail, split)
                    [] OTHER -> ComingFrom(b, tail, new.code[l])
    OBVIOUS
  <2> HIDE DEF code
  <2> QED
    BY <1>9, <2>1, <2>2, <2>3, <2>4
<1>12. code = [l \in L |-> code[l]]
  OBVIOUS
<1> HIDE DEF code
<1>13. FnOK(names, Grown(new, code, order)) /\ Labels(Grown(new, code, order)) = L
  <2>1. \A l \in L : BlockOK(names, L \ {new.entry}, code[l])
    BY <1>1, <1>11 DEF T
  <2> HIDE DEF L
  <2> QED
    BY <1>1, <1>5, <1>12, <2>1, GrownSound
<1> QED
  BY <1>2, <1>13


LEMMA FnsSound ==
  ASSUME NEW M, SourceOK(M), NEW fns, fns = [f \in DOMAIN M.fns |-> fns[f]],
         \A f \in DOMAIN M.fns : FnOK(ToSet(M.names), fns[f]),
         NEW N, N = [M EXCEPT !.fns = fns]
  PROVE  /\ SourceOK(N) /\ N.names = M.names /\ N.fns = fns
         /\ DOMAIN N.fns = DOMAIN M.fns
<1>1. M = [names |-> M.names, fns |-> M.fns, table |-> M.table]
  BY DEF SourceOK, ModuleOK
<1>2. N = [names |-> M.names, fns |-> fns, table |-> M.table]
  BY <1>1
<1>3. DOMAIN fns = DOMAIN M.fns
  OBVIOUS
<1>4. N = [names |-> N.names, fns |-> N.fns, table |-> N.table]
      /\ N.names = M.names /\ N.fns = fns /\ DOMAIN N.fns = DOMAIN M.fns
  BY <1>2, <1>3
<1>5. SourceOK(N)
  BY <1>4 DEF SourceOK, ModuleOK
<1> QED
  BY <1>4, <1>5

---------------------------------------------------------------------------
(* Every module on the way is one of the program's *)

Like(p, M) ==
    SourceOK(M) /\ M.names = p.module.names /\ DOMAIN M.fns = DOMAIN p.module.fns

FileInv ==
    /\ prog \in Programs /\ Like(prog, file)
    /\ \A x \in DOMAIN targets :
         x[1] \in DOMAIN file.fns /\ x[2] \in Labels(file.fns[x[1]])

(* What a tool has read, and what its input is before it has instrumented it. *)
Built(x) == Like(prog, x.of) /\ x.mod = Instrumented(x.of)

ToolInv ==
    /\ ToolRecord
    /\ tool.stage \in {"parsed", "verified", "saved", "compiled"} => Like(prog, tool.input)
    /\ tool.stage = "parsed" => tool.mod = tool.input
    /\ tool.stage \in {"verified", "saved", "compiled"} => tool.mod = Instrumented(tool.input)

FilesInv ==
    /\ report # Absent => Like(prog, report.of) /\ report.counts = StaticCount(report.of)
    /\ disk.obj # Absent => Built(disk.obj)
    /\ disk.bin # Absent => Built(disk.bin)

ModulesInv == FileInv /\ ToolInv /\ FilesInv

LEMMA InitModules == Init => ModulesInv
<1> SUFFICES ASSUME Init
             PROVE  ModulesInv
  OBVIOUS
<1>1. prog \in Programs /\ Like(prog, file)
  BY ProgramsOK DEF Init, Like, SourceOK
<1>2. DOMAIN targets = {}
  BY DEF Init
<1> QED
  BY <1>1, <1>2 DEF Init, ModulesInv, FileInv, ToolInv, FilesInv, ToolRecord

LEMMA EveryFnKeeps ==
  ASSUME FileInv, UNCHANGED <<prog, targets>>, NEW fns, fns = [f \in DOMAIN file.fns |-> fns[f]],
         \A f \in DOMAIN file.fns : /\ FnOK(ToSet(file.names), fns[f])
                                    /\ Labels(file.fns[f]) \subseteq Labels(fns[f]),
         file' = [file EXCEPT !.fns = fns]
  PROVE  FileInv'
<1>1. SourceOK(file) /\ file.names = prog.module.names /\ DOMAIN file.fns = DOMAIN prog.module.fns
  BY DEF FileInv, Like
<1>2. /\ SourceOK(file') /\ file'.names = file.names /\ file'.fns = fns
      /\ DOMAIN file'.fns = DOMAIN file.fns
  <2>1. \A f \in DOMAIN file.fns : FnOK(ToSet(file.names), fns[f])
    OBVIOUS
  <2> QED
    BY <1>1, <2>1, FnsSound
<1>3. Like(prog, file)'
  BY <1>1, <1>2 DEF Like
<1>4. ASSUME NEW x \in DOMAIN targets
      PROVE  x[1] \in DOMAIN file'.fns /\ x[2] \in Labels(file'.fns[x[1]])
  BY <1>2 DEF FileInv
<1> QED
  BY <1>3, <1>4 DEF FileInv

LEMMA FnsAreOK ==
  ASSUME FileInv, NEW f \in DOMAIN file.fns
  PROVE  FnOK(ToSet(file.names), file.fns[f])
BY SourceParts DEF FileInv, Like

LEMMA RunMBAAddKeeps ==
  ASSUME FileInv, RunMBAAdd
  PROVE  FileInv'
<1>1. UNCHANGED <<prog, targets>>
  BY DEF RunMBAAdd, Pass
<1>2. PICK arg \in RatioArgs, draws \in [1 .. MaxCandidates -> Draws] :
        file' = [file EXCEPT !.fns = [f \in DOMAIN file.fns |->
                                        MBAAdd(file.fns[f], draws, Parse(arg))]]
  BY DEF RunMBAAdd, Pass
<1> DEFINE ratio == Parse(arg)
<1> DEFINE fns == [f \in DOMAIN file.fns |-> MBAAdd(file.fns[f], draws, ratio)]
<1>4. ASSUME NEW f \in DOMAIN file.fns
      PROVE  FnOK(ToSet(file.names), fns[f]) /\ Labels(file.fns[f]) \subseteq Labels(fns[f])
  BY FnsAreOK, MBAAddSound
<1>5. fns = [f \in DOMAIN file.fns |-> fns[f]]
  OBVIOUS
<1> HIDE DEF fns
<1>6. file' = [file EXCEPT !.fns = fns]
  BY <1>2 DEF fns
<1> QED
  BY <1>1, <1>4, <1>5, <1>6, EveryFnKeeps

LEMMA RunMBASubKeeps ==
  ASSUME FileInv, RunMBASub
  PROVE  FileInv'
<1>1. UNCHANGED <<prog, targets>>
  BY DEF RunMBASub, Pass
<1> DEFINE fns == [f \in DOMAIN file.fns |-> MBASub(file.fns[f])]
<1>2. file' = [file EXCEPT !.fns = fns]
  BY DEF RunMBASub, Pass
<1>4. ASSUME NEW f \in DOMAIN file.fns
      PROVE  FnOK(ToSet(file.names), fns[f]) /\ Labels(file.fns[f]) \subseteq Labels(fns[f])
  BY FnsAreOK, MBASubSound
<1>5. fns = [f \in DOMAIN file.fns |-> fns[f]]
  OBVIOUS
<1> HIDE DEF fns
<1> QED
  BY <1>1, <1>2, <1>4, <1>5, EveryFnKeeps

LEMMA PickTargetsKeeps ==
  ASSUME FileInv, PickTargets
  PROVE  FileInv'
<1> DEFINE blocks == UNION {{<<f, l>> : l \in {k \in Labels(file.fns[f]) :
                                              ~file.fns[f].code[k].pad}} : f \in DOMAIN file.fns}
<1>1. UNCHANGED <<prog, file>>
  BY DEF PickTargets, Pass
<1>2. ASSUME NEW x \in blocks
      PROVE  x[1] \in DOMAIN file.fns /\ x[2] \in Labels(file.fns[x[1]])
  OBVIOUS
<1>3. DOMAIN targets' \subseteq blocks
  BY DEF PickTargets, Pass, kSubset
<1> HIDE DEF blocks
<1> QED
  BY <1>1, <1>2, <1>3 DEF FileInv

LEMMA DuplicateKeeps ==
  ASSUME FileInv, Duplicate
  PROVE  FileInv'
<1>1. PICK x \in DOMAIN targets :
        /\ file' = [file EXCEPT !.fns[x[1]] = Duplicated(@, x[2], targets[x], remapper)]
        /\ targets' = [y \in DOMAIN targets \ {x} |-> targets[y]]
        /\ UNCHANGED prog
  BY DEF Duplicate
<1> DEFINE g == x[1]
           d == Duplicated(file.fns[g], x[2], targets[x], remapper)
           fns == [f \in DOMAIN file.fns |-> IF f = g THEN d ELSE file.fns[f]]
<1>2. g \in DOMAIN file.fns /\ x[2] \in Labels(file.fns[g])
  BY DEF FileInv
<1>3. SourceOK(file) /\ file.names = prog.module.names /\ DOMAIN file.fns = DOMAIN prog.module.fns
  BY DEF FileInv, Like
<1>4. FnOK(ToSet(file.names), d) /\ Labels(file.fns[g]) \subseteq Labels(d)
  BY <1>2, FnsAreOK, DuplicatedSound
<1> HIDE DEF d
<1>5. file' = [file EXCEPT !.fns = fns]
  <2>1. file.fns = [f \in DOMAIN file.fns |-> file.fns[f]]
    BY <1>3 DEF SourceOK, ModuleOK
  <2>2. file' = [file EXCEPT !.fns = [file.fns EXCEPT ![g] = d]]
    BY <1>1 DEF d
  <2>3. [file.fns EXCEPT ![g] = d] = fns
    BY <2>1
  <2> QED
    BY <2>2, <2>3
<1>6. ASSUME NEW f \in DOMAIN file.fns
      PROVE  FnOK(ToSet(file.names), fns[f]) /\ Labels(file.fns[f]) \subseteq Labels(fns[f])
  BY <1>4, FnsAreOK
<1>7. fns = [f \in DOMAIN file.fns |-> fns[f]]
  OBVIOUS
<1> HIDE DEF fns
<1>8. /\ SourceOK(file') /\ file'.names = file.names /\ file'.fns = fns
      /\ DOMAIN file'.fns = DOMAIN file.fns
  BY <1>3, <1>5, <1>6, <1>7, FnsSound
<1>9. Like(prog, file)'
  BY <1>1, <1>3, <1>8 DEF Like
<1>10. ASSUME NEW y \in DOMAIN targets'
       PROVE  y[1] \in DOMAIN file'.fns /\ y[2] \in Labels(file'.fns[y[1]])
  <2>1. y[1] \in DOMAIN file.fns /\ y[2] \in Labels(file.fns[y[1]])
    BY <1>1 DEF FileInv
  <2> QED
    BY <1>6, <1>8, <2>1
<1> QED
  BY <1>1, <1>9, <1>10 DEF FileInv


(* The tools and the run read the file, and change neither it nor targets. *)
LEMMA OthersKeepFile ==
  ASSUME \/ DuplicateEnds \/ Launch("static") \/ Launch("dynamic") \/ CountStaticCalls
         \/ InstrumentAndVerify \/ SaveModule \/ Compile \/ Link
         \/ Execute \/ PrintCounts \/ \E t \in Threads : IncrLoad(t) \/ IncrStore(t)
  PROVE  UNCHANGED <<prog, file, targets>>
<1>1. DuplicateEnds \/ Launch("static") \/ Launch("dynamic") => UNCHANGED <<prog, file, targets>>
  BY DEF DuplicateEnds, Launch, optVars
<1>2. CountStaticCalls \/ InstrumentAndVerify => UNCHANGED <<prog, file, targets>>
  BY DEF CountStaticCalls, InstrumentAndVerify, ToolStep, optVars
<1>3. SaveModule \/ Compile \/ Link => UNCHANGED <<prog, file, targets>>
  BY DEF SaveModule, Compile, Link, ToolStep, optVars
<1>4. Execute \/ PrintCounts => UNCHANGED <<prog, file, targets>>
  BY DEF Execute, PrintCounts, optVars
<1>5. (\E t \in Threads : IncrLoad(t) \/ IncrStore(t)) => UNCHANGED <<prog, file, targets>>
  BY DEF IncrLoad, IncrStore, optVars
<1> QED
  BY <1>1, <1>2, <1>3, <1>4, <1>5

LEMMA FileKept ==
  ASSUME FileInv, [Next]_vars
  PROVE  FileInv'
<1>1. CASE UNCHANGED vars
  BY <1>1 DEF vars, optVars, FileInv
<1>2. CASE RunMBAAdd \/ RunMBASub \/ PickTargets \/ Duplicate
  BY <1>2, RunMBAAddKeeps, RunMBASubKeeps, PickTargetsKeeps, DuplicateKeeps
<1>3. CASE \/ DuplicateEnds \/ Launch("static") \/ Launch("dynamic") \/ CountStaticCalls
           \/ InstrumentAndVerify \/ SaveModule \/ Compile \/ Link
           \/ Execute \/ PrintCounts \/ \E t \in Threads : IncrLoad(t) \/ IncrStore(t)
  BY <1>3, OthersKeepFile DEF FileInv
<1> QED
  BY <1>1, <1>2, <1>3 DEF Next

LEMMA LaunchKeeps ==
  ASSUME ModulesInv, NEW name \in {"static", "dynamic"}, Launch(name)
  PROVE  ToolInv' /\ FilesInv'
<1>1. Like(prog, file)
  BY DEF ModulesInv, FileInv
<1>2. UNCHANGED <<prog, report, disk>>
  BY DEF Launch
<1>3. FilesInv'
  BY <1>2 DEF ModulesInv, FilesInv, Built
<1>4. \/ tool' = [name |-> name, stage |-> "parsed", input |-> file, mod |-> file]
      \/ tool' = [name |-> name, stage |-> "unread", input |-> Absent, mod |-> Absent]
  BY DEF Launch
<1>5. ToolInv'
  BY <1>1, <1>2, <1>4 DEF ModulesInv, ToolInv, ToolRecord
<1> QED
  BY <1>3, <1>5

LEMMA CountStaticCallsKeeps ==
  ASSUME ModulesInv, CountStaticCalls
  PROVE  ToolInv' /\ FilesInv'
<1>1. /\ tool.stage = "parsed" /\ tool' = [tool EXCEPT !.stage = "exit 0"]
      /\ report' = [of |-> tool.input, counts |-> StaticCount(tool.input)]
      /\ UNCHANGED <<prog, disk>>
  BY DEF CountStaticCalls, ToolStep
<1>2. Like(prog, tool.input)
  BY <1>1 DEF ModulesInv, ToolInv
<1>3. FilesInv'
  BY <1>1, <1>2 DEF ModulesInv, FilesInv, Built
<1>4. ToolInv'
  BY <1>1 DEF ModulesInv, ToolInv, ToolRecord
<1> QED
  BY <1>3, <1>4

LEMMA InstrumentKeeps ==
  ASSUME ModulesInv, InstrumentAndVerify
  PROVE  ToolInv' /\ FilesInv'
<1> DEFINE M == Instrumented(tool.mod)
           next == IF \A f \in DOMAIN M.fns : WellFormed(M.fns[f])
                     THEN "verified" ELSE ReportFatalError("verified")
<1>0. next # "parsed"
  BY DEF ReportFatalError
<1> HIDE DEF next
<1>1. /\ tool.stage = "parsed" /\ UNCHANGED <<prog, report, disk>>
      /\ tool' = [tool EXCEPT !.stage = next, !.mod = M]
  BY DEF InstrumentAndVerify, ToolStep, next
<1>2. Like(prog, tool.input) /\ tool.mod = tool.input /\ ToolRecord
  BY <1>1 DEF ModulesInv, ToolInv
<1>3. /\ ToolRecord' /\ tool'.input = tool.input /\ tool'.mod = Instrumented(tool.input)
      /\ tool'.stage # "parsed"
  BY <1>0, <1>1, <1>2 DEF ToolRecord
<1>4. FilesInv'
  BY <1>1 DEF ModulesInv, FilesInv, Built
<1>5. ToolInv'
  BY <1>1, <1>2, <1>3 DEF ToolInv
<1> QED
  BY <1>4, <1>5

LEMMA SaveModuleKeeps ==
  ASSUME ModulesInv, SaveModule
  PROVE  ToolInv' /\ FilesInv'
<1>1. /\ tool.stage = "verified" /\ UNCHANGED <<prog, report>>
      /\ \E next \in {"saved", "fatal"} : tool' = [tool EXCEPT !.stage = next]
      /\ \E s : disk' = [disk EXCEPT !.saved = s] \/ UNCHANGED disk
  BY DEF SaveModule, ToolStep, Goes, ReportFatalError
<1>2. /\ Like(prog, tool.input) /\ tool.mod = Instrumented(tool.input) /\ ToolRecord
      /\ FilesInv
  BY <1>1 DEF ModulesInv, ToolInv
<1>3. /\ ToolRecord' /\ tool'.input = tool.input /\ tool'.mod = tool.mod
      /\ disk'.obj = disk.obj /\ disk'.bin = disk.bin /\ tool'.stage # "parsed"
  BY <1>1, <1>2 DEF ToolRecord
<1>4. FilesInv'
  BY <1>1, <1>2, <1>3 DEF FilesInv, Built
<1>5. ToolInv'
  BY <1>1, <1>2, <1>3 DEF ToolInv
<1> QED
  BY <1>4, <1>5

LEMMA CompileKeeps ==
  ASSUME ModulesInv, Compile
  PROVE  ToolInv' /\ FilesInv'
<1>1. /\ tool.stage = "saved" /\ UNCHANGED <<prog, report>>
      /\ \E next \in {"compiled", "fatal"} : tool' = [tool EXCEPT !.stage = next]
      /\ \E x \in {[of |-> tool.input, mod |-> tool.mod], disk.obj, Absent} :
            disk' = [disk EXCEPT !.obj = x]
  BY DEF Compile, ToolStep, Goes, ReportFatalError
<1>2. /\ Like(prog, tool.input) /\ tool.mod = Instrumented(tool.input) /\ ToolRecord
      /\ FilesInv
  BY <1>1 DEF ModulesInv, ToolInv
<1>3. PICK x \in {[of |-> tool.input, mod |-> tool.mod], disk.obj, Absent} :
        disk' = [disk EXCEPT !.obj = x]
  BY <1>1
<1>4. /\ ToolRecord' /\ tool'.input = tool.input /\ tool'.mod = tool.mod
      /\ disk'.obj = x /\ disk'.bin = disk.bin /\ tool'.stage # "parsed"
  BY <1>1, <1>2, <1>3 DEF ToolRecord
<1>5. x # Absent => Built(x)
  BY <1>2 DEF FilesInv, Built
<1>6. FilesInv'
  BY <1>1, <1>2, <1>4, <1>5 DEF FilesInv, Built
<1>7. ToolInv'
  BY <1>1, <1>2, <1>4 DEF ToolInv
<1> QED
  BY <1>6, <1>7

LEMMA LinkKeeps ==
  ASSUME ModulesInv, Link
  PROVE  ToolInv' /\ FilesInv'
<1>1. /\ tool.stage = "compiled" /\ UNCHANGED <<prog, report>>
      /\ \E next \in {"exit 0", "fatal"} : tool' = [tool EXCEPT !.stage = next]
      /\ \E x \in {disk.obj, disk.bin, Absent} : disk' = [disk EXCEPT !.bin = x]
  BY DEF Link, ToolStep, Goes, ReportFatalError
<1>2. FilesInv /\ ToolRecord
  BY DEF ModulesInv, ToolInv
<1>3. PICK x \in {disk.obj, disk.bin, Absent} : disk' = [disk EXCEPT !.bin = x]
  BY <1>1
<1>4. /\ ToolRecord' /\ disk'.bin = x /\ disk'.obj = disk.obj
      /\ tool'.stage \in {"exit 0", "fatal"}
  BY <1>1, <1>2, <1>3 DEF ToolRecord
<1>5. x # Absent => Built(x)
  BY <1>2 DEF FilesInv
<1>6. FilesInv'
  BY <1>1, <1>2, <1>4, <1>5 DEF FilesInv, Built
<1>7. ToolInv'
  BY <1>4 DEF ToolInv
<1> QED
  BY <1>6, <1>7

LEMMA ModulesKept ==
  ASSUME ModulesInv, [Next]_vars
  PROVE  ModulesInv'
<1>1. FileInv'
  BY FileKept DEF ModulesInv
<1>2. CASE \/ UNCHANGED vars
           \/ RunMBAAdd \/ RunMBASub \/ PickTargets \/ Duplicate \/ DuplicateEnds
           \/ Execute \/ PrintCounts \/ \E t \in Threads : IncrLoad(t) \/ IncrStore(t)
  <2>1. UNCHANGED <<prog, tool, report, disk>>
    BY <1>2, OthersKeepTools DEF vars, toolVars
  <2> QED
    BY <1>1, <2>1 DEF ModulesInv, ToolInv, ToolRecord, FilesInv, Built
<1>3. CASE Launch("static") \/ Launch("dynamic")
  BY <1>1, <1>3, LaunchKeeps DEF ModulesInv
<1>4. CASE CountStaticCalls \/ InstrumentAndVerify \/ SaveModule \/ Compile \/ Link
  <2>1. ToolInv' /\ FilesInv'
    BY <1>4, CountStaticCallsKeeps, InstrumentKeeps, SaveModuleKeeps, CompileKeeps, LinkKeeps
  <2> QED
    BY <1>1, <2>1 DEF ModulesInv
<1> QED
  BY <1>2, <1>3, <1>4 DEF Next

(* Whatever opt did to the file before, a report of static names every     *)
(* function that a run of the reported module calls directly: for any      *)
(* program, passes, draws, inputs and length of the run.                   *)
THEOREM ReportCoversCalls == Spec => []StaticCoversCalls
<1>1. ModulesInv => StaticCoversCalls
  <2> SUFFICES ASSUME ModulesInv, report # Absent, NEW vals, NEW throws,
                      NEW k \in DOMAIN Meaning(report.of, vals, throws).trace,
                      Meaning(report.of, vals, throws).trace[k].kind \in {"call", "invoke", "enter"}
               PROVE  Meaning(report.of, vals, throws).trace[k].fn \in DOMAIN report.counts
    BY DEF StaticCoversCalls
  <2>1. /\ SourceOK(report.of) /\ DOMAIN report.of.fns = DOMAIN prog.module.fns
        /\ report.counts = StaticCount(report.of) /\ prog \in Programs
    BY DEF ModulesInv, FilesInv, FileInv, Like
  <2>2. prog.main \in DOMAIN report.of.fns
    BY <2>1, ProgramsOK
  <2> QED
    BY <2>1, <2>2, StaticCountCoversRuns DEF Meaning
<1>2. ModulesInv /\ [Next]_vars => ModulesInv'
  BY ModulesKept
<1> QED
  BY <1>1, <1>2, InitModules, PTL DEF Spec


---------------------------------------------------------------------------
(* Counting what the threads do: pairs of a thread and one of its elements *)

Pairs(T, B) == UNION {{t} \X B[t] : t \in T}

LEMMA PairsAre ==
  ASSUME NEW T, NEW B, NEW p
  PROVE  p \in Pairs(T, B) <=> p[1] \in T /\ p[2] \in B[p[1]] /\ p = <<p[1], p[2]>>
BY DEF Pairs

LEMMA PairsFinite ==
  ASSUME NEW T, IsFiniteSet(T), NEW B, \A t \in T : IsFiniteSet(B[t])
  PROVE  IsFiniteSet(Pairs(T, B)) /\ Cardinality(Pairs(T, B)) \in Nat
<1> DEFINE S == {{t} \X B[t] : t \in T}
           f == [t \in T |-> {t} \X B[t]]
<1>1. f \in Surjection(T, S)
  BY DEF Surjection
<1>2. IsFiniteSet(S)
  <2> HIDE DEF f, S
  <2> QED
    BY <1>1, FS_Surjection
<1>3. ASSUME NEW t \in T
      PROVE  IsFiniteSet({t} \X B[t])
  <2>1. IsFiniteSet({t})
    BY FS_Singleton
  <2> QED
    BY <2>1, FS_Product
<1>4. \A s \in S : IsFiniteSet(s)
  BY <1>3
<1>5. IsFiniteSet(UNION S)
  <2> HIDE DEF S
  <2> QED
    BY <1>2, <1>4, FS_UNION
<1> QED
  BY <1>5, FS_CardinalityType DEF Pairs

LEMMA PairsWithin ==
  ASSUME NEW T, IsFiniteSet(T), NEW A, NEW B,
         \A t \in T : IsFiniteSet(B[t]) /\ A[t] \subseteq B[t]
  PROVE  Cardinality(Pairs(T, A)) <= Cardinality(Pairs(T, B))
<1>1. IsFiniteSet(Pairs(T, B))
  BY PairsFinite
<1>2. Pairs(T, A) \subseteq Pairs(T, B)
  BY DEF Pairs
<1> QED
  BY <1>1, <1>2, FS_Subset

LEMMA PairsGrow ==
  ASSUME NEW T, IsFiniteSet(T), NEW A, NEW B, NEW u \in T, NEW x,
         \A t \in T : IsFiniteSet(A[t]), x \notin A[u],
         \A t \in T : B[t] = IF t = u THEN A[t] \cup {x} ELSE A[t]
  PROVE  Cardinality(Pairs(T, B)) = Cardinality(Pairs(T, A)) + 1
<1>1. IsFiniteSet(Pairs(T, A))
  BY PairsFinite
<1>2. Pairs(T, B) = Pairs(T, A) \cup {<<u, x>>}
  <2>1. ASSUME NEW p
        PROVE  p \in Pairs(T, B) <=> p \in Pairs(T, A) \/ p = <<u, x>>
    <3>1. p \in Pairs(T, B) <=> p[1] \in T /\ p[2] \in B[p[1]] /\ p = <<p[1], p[2]>>
      BY PairsAre
    <3>2. p \in Pairs(T, A) <=> p[1] \in T /\ p[2] \in A[p[1]] /\ p = <<p[1], p[2]>>
      BY PairsAre
    <3>3. p[1] \in T => (p[2] \in B[p[1]] <=> p[2] \in A[p[1]] \/ (p[1] = u /\ p[2] = x))
      OBVIOUS
    <3>4. p = <<u, x>> <=> p = <<p[1], p[2]>> /\ p[1] = u /\ p[2] = x
      OBVIOUS
    <3> QED
      BY <3>1, <3>2, <3>3, <3>4
  <2> QED
    BY <2>1
<1>3. <<u, x>> \notin Pairs(T, A)
  BY DEF Pairs
<1> QED
  BY <1>1, <1>2, <1>3, FS_AddElement

LEMMA PairsAsMany ==
  ASSUME NEW T, IsFiniteSet(T), NEW A, NEW B,
         \A t \in T : /\ IsFiniteSet(A[t]) /\ IsFiniteSet(B[t])
                      /\ Cardinality(A[t]) = Cardinality(B[t])
  PROVE  Cardinality(Pairs(T, A)) = Cardinality(Pairs(T, B))
<1>1. \A t \in T : \E h : h \in Bijection(A[t], B[t])
  BY FS_SameCardinalityBij DEF ExistsBijection
<1> DEFINE H == [t \in T |-> CHOOSE h : h \in Bijection(A[t], B[t])]
           P == Pairs(T, A)
           Q == Pairs(T, B)
           F == [p \in P |-> <<p[1], H[p[1]][p[2]]>>]
<1>2. ASSUME NEW t \in T
      PROVE  H[t] \in Bijection(A[t], B[t])
  BY <1>1
<1> HIDE DEF H
<1>3. ASSUME NEW t \in T
      PROVE  /\ H[t] \in [A[t] -> B[t]]
             /\ \A a, b \in A[t] : H[t][a] = H[t][b] => a = b
             /\ \A b \in B[t] : \E a \in A[t] : H[t][a] = b
  BY <1>2 DEF Bijection, Injection, Surjection, IsInjective
<1>4. F \in [P -> Q]
  BY <1>3 DEF Pairs
<1>5. ASSUME NEW p \in P, NEW q \in P, F[p] = F[q]
      PROVE  p = q
  <2>1. /\ p[1] \in T /\ p[2] \in A[p[1]] /\ p = <<p[1], p[2]>>
        /\ q[1] \in T /\ q[2] \in A[q[1]] /\ q = <<q[1], q[2]>>
    BY DEF Pairs
  <2>2. p[1] = q[1] /\ H[p[1]][p[2]] = H[q[1]][q[2]]
    BY <1>5
  <2>3. p[2] = q[2]
    BY <1>3, <2>1, <2>2
  <2> QED
    BY <2>1, <2>2, <2>3
<1>6. ASSUME NEW q \in Q
      PROVE  \E p \in P : F[p] = q
  <2>1. q[1] \in T /\ q[2] \in B[q[1]] /\ q = <<q[1], q[2]>>
    BY DEF Pairs
  <2>2. PICK a \in A[q[1]] : H[q[1]][a] = q[2]
    BY <1>3, <2>1
  <2>3. <<q[1], a>> \in P
    BY <2>1, <2>2 DEF Pairs
  <2>4. F[<<q[1], a>>] = q
    BY <2>1, <2>2, <2>3
  <2> QED
    BY <2>3, <2>4
<1>7. F \in Bijection(P, Q)
  <2> HIDE DEF F, P, Q
  <2> QED
    BY <1>4, <1>5, <1>6 DEF Bijection, Injection, Surjection, IsInjective
<1>8. IsFiniteSet(P)
  BY PairsFinite
<1> HIDE DEF P, Q, F
<1>9. Cardinality(Q) = Cardinality(P)
  BY <1>7, <1>8, FS_Bijection DEF ExistsBijection
<1> QED
  BY <1>9 DEF P, Q


---------------------------------------------------------------------------
(* The threads of a run and its counters *)

Incs(t) == Increments(RunOf(disk.bin.mod, t).trace)
MadeBy(id) == [t \in Threads |-> {x \in Incs(t) \ todo[t] : x[2] = id}]

RunReady ==
    /\ disk.bin # Absent /\ printed = Absent
    /\ \A t \in Threads : RunOf(disk.bin.mod, t).status = "done"

RunTyped ==
    /\ DOMAIN todo = Threads /\ DOMAIN reg = Threads
    /\ \A t \in Threads : todo[t] \subseteq Incs(t)
    /\ DOMAIN counts = DOMAIN disk.bin.mod.table
    /\ \A id \in DOMAIN counts : counts[id] \in Nat

(* What a thread has loaded is not above the increments made; where no two *)
(* overlapped it is the counter's value, and no other thread is at it.     *)
LoadedAt(t, id) ==
    /\ todo[t] # {} /\ reg[t][1] \in Nat /\ reg[t][1] <= Cardinality(Made(id))
    /\ id \notin raced =>
          /\ reg[t][1] = counts[id]
          /\ \A u \in Threads \ {t} : reg[u] # None => NextOf(u)[2] # id

LoadedOK(t) == reg[t] # None => \A id : id = NextOf(t)[2] => LoadedAt(t, id)

RunInv ==
    mode = "run" => RunReady /\ RunTyped /\ (\A t \in Threads : LoadedOK(t)) /\ CountersKeepUp

CountInv == ModulesInv /\ RunInv /\ CountsTrue

LEMMA ThreadsFinite ==
  ASSUME ModulesInv
  PROVE  IsFiniteSet(Threads)
BY ProgramsOK DEF ModulesInv, FileInv, Threads

LEMMA BinaryFacts ==
  ASSUME ModulesInv, RunReady
  PROVE  /\ IsFiniteSet(Threads) /\ disk.bin.mod.table = disk.bin.of.names
         /\ \A t \in Threads :
              /\ IsFiniteSet(Incs(t))
              /\ \A x \in Incs(t) : x[1] \in Nat /\ x[2] \in DOMAIN disk.bin.mod.table
         /\ \A t \in Threads : \A id \in DOMAIN disk.bin.mod.table :
              LET calls == CallsIn(RunOf(disk.bin.of, t).trace, disk.bin.mod.table[id])
              IN  /\ IsFiniteSet(calls)
                  /\ Cardinality({x \in Incs(t) : x[2] = id}) = Cardinality(calls)
<1> DEFINE M == disk.bin.of
           N == disk.bin.mod
<1>1. Like(prog, M) /\ N = Instrumented(M)
  BY DEF ModulesInv, FilesInv, RunReady, Built
<1>2. /\ SourceOK(M) /\ prog.main \in DOMAIN M.fns /\ N.table = M.names
  BY <1>1, ProgramsOK, InstrumentedFunction DEF ModulesInv, FileInv, Like
<1>3. ASSUME NEW t \in Threads
      PROVE  /\ IsFiniteSet(Incs(t))
             /\ \A x \in Incs(t) : x[1] \in Nat /\ x[2] \in DOMAIN M.names
             /\ \A id \in DOMAIN M.names :
                  /\ IsFiniteSet(CallsIn(RunOf(M, t).trace, M.names[id]))
                  /\ Cardinality(Increment(RunOf(N, t).trace, id)) =
                        Cardinality(CallsIn(RunOf(M, t).trace, M.names[id]))
  <2> DEFINE u == Outcome(N, prog.main, prog.starts[t], prog.throws)
             v == Outcome(M, prog.main, prog.starts[t], prog.throws)
  <2>1. RunOf(N, t) = u /\ RunOf(M, t) = v /\ u.status = "done"
    BY DEF RunOf, RunReady
  <2>2. /\ IsFiniteSet(Increments(u.trace))
        /\ \A x \in Increments(u.trace) : x[1] \in Nat /\ x[2] \in DOMAIN M.names
        /\ \A id \in DOMAIN M.names :
             /\ IsFiniteSet(CallsIn(v.trace, M.names[id]))
             /\ Cardinality(Increment(u.trace, id)) = Cardinality(CallsIn(v.trace, M.names[id]))
    BY <1>1, <1>2, <2>1, InstrumentationCounts
  <2> HIDE DEF u, v
  <2> QED
    BY <2>1, <2>2 DEF Incs
<1>4. ASSUME NEW t \in Threads, NEW id \in DOMAIN M.names
      PROVE  LET calls == CallsIn(RunOf(M, t).trace, M.names[id])
             IN  /\ IsFiniteSet(calls)
                 /\ Cardinality({x \in Incs(t) : x[2] = id}) = Cardinality(calls)
  <2>1. {x \in Incs(t) : x[2] = id} = Increment(RunOf(N, t).trace, id)
    BY DEF Incs, Increment
  <2> QED
    BY <1>3, <2>1
<1>5. N.table = M.names /\ IsFiniteSet(Threads)
  BY <1>2, ThreadsFinite
<1>6. /\ \A t \in Threads :
           /\ IsFiniteSet(Incs(t))
           /\ \A x \in Incs(t) : x[1] \in Nat /\ x[2] \in DOMAIN N.table
      /\ \A t \in Threads : \A id \in DOMAIN N.table :
           LET calls == CallsIn(RunOf(M, t).trace, N.table[id])
           IN  /\ IsFiniteSet(calls)
               /\ Cardinality({x \in Incs(t) : x[2] = id}) = Cardinality(calls)
  <2> HIDE DEF M, N
  <2> QED
    BY <1>3, <1>4, <1>5
<1> QED
  BY <1>5, <1>6

LEMMA NextIs ==
  ASSUME ModulesInv, RunReady, RunTyped, NEW t \in Threads, todo[t] # {}
  PROVE  /\ NextOf(t) \in todo[t] /\ NextOf(t) \in Incs(t)
         /\ NextOf(t)[2] \in DOMAIN counts
<1>1. \A x \in Incs(t) : x[1] \in Nat /\ x[2] \in DOMAIN counts
  BY BinaryFacts DEF RunTyped
<1>2. todo[t] \subseteq Incs(t)
  BY DEF RunTyped
<1> DEFINE S == {x[1] : x \in todo[t]}
<1>3. S \subseteq Nat /\ S # {}
  BY <1>1, <1>2
<1>4. PICK k \in S : \A j \in S : k <= j
  <2> HIDE DEF S
  <2> QED
    BY <1>3, LeastNatural
<1>5. PICK x \in todo[t] : x[1] = k
  OBVIOUS
<1>6. \A y \in todo[t] : x[1] <= y[1]
  BY <1>4, <1>5
<1>7. NextOf(t) \in todo[t]
  BY <1>6 DEF NextOf
<1> QED
  BY <1>1, <1>2, <1>7

LEMMA MadeIs ==
  ASSUME NEW id
  PROVE  Made(id) = Pairs(Threads, MadeBy(id))
BY DEF Made, Pairs, MadeBy, Incs

LEMMA MadeFinite ==
  ASSUME ModulesInv, RunReady, NEW id
  PROVE  /\ IsFiniteSet(Made(id)) /\ Cardinality(Made(id)) \in Nat
         /\ \A t \in Threads : IsFiniteSet(MadeBy(id)[t])
         /\ Made(id) = {} => Cardinality(Made(id)) = 0
<1>1. ASSUME NEW t \in Threads
      PROVE  IsFiniteSet(MadeBy(id)[t])
  <2>1. MadeBy(id)[t] \subseteq Incs(t)
    BY DEF MadeBy
  <2> QED
    BY <2>1, BinaryFacts, FS_Subset
<1>2. IsFiniteSet(Pairs(Threads, MadeBy(id))) /\ Cardinality(Pairs(Threads, MadeBy(id))) \in Nat
  BY <1>1, BinaryFacts, PairsFinite
<1> QED
  BY <1>1, <1>2, MadeIs, FS_EmptySet

(* A store makes one increment more, of its counter and of no other. *)
LEMMA MadeGrows ==
  ASSUME ModulesInv, RunReady, RunTyped, NEW t \in Threads, todo[t] # {},
         todo' = [todo EXCEPT ![t] = @ \ {NextOf(t)}], UNCHANGED <<prog, disk>>
  PROVE  \A j : IF j = NextOf(t)[2] THEN Cardinality(Made(j)') = Cardinality(Made(j)) + 1
              ELSE Made(j)' = Made(j)
<1> DEFINE n == NextOf(t)
           A(j) == MadeBy(j)
           B(j) == [u \in Threads |-> {x \in Incs(u) \ todo'[u] : x[2] = j}]
<1>1. n \in todo[t] /\ n \in Incs(t)
  BY NextIs
<1>2. DOMAIN todo = Threads /\ IsFiniteSet(Threads)
  BY BinaryFacts DEF RunTyped
<1> HIDE DEF n
<1>3. /\ todo'[t] = todo[t] \ {n}
      /\ \A u \in Threads : u # t => todo'[u] = todo[u]
  BY <1>2 DEF n
<1>4. Threads' = Threads /\ \A u : Incs(u)' = Incs(u)
  BY DEF Threads, Incs, RunOf
<1>5. ASSUME NEW j
      PROVE  Made(j)' = Pairs(Threads, B(j))
  BY <1>4 DEF Made, Pairs, Incs
<1>6. ASSUME NEW j, NEW u \in Threads
      PROVE  B(j)[u] = IF u = t /\ j = n[2] THEN A(j)[u] \cup {n} ELSE A(j)[u]
  <2>1. A(j)[u] = {x \in Incs(u) \ todo[u] : x[2] = j}
    BY DEF MadeBy
  <2>2. B(j)[u] = {x \in Incs(u) \ todo'[u] : x[2] = j}
    OBVIOUS
  <2> HIDE DEF A, B
  <2> QED
    BY <1>1, <1>3, <2>1, <2>2
<1>7. n \notin A(n[2])[t]
  BY <1>1 DEF MadeBy
<1> HIDE DEF A, B
<1>8. Cardinality(Pairs(Threads, B(n[2]))) = Cardinality(Pairs(Threads, A(n[2]))) + 1
  <2> DEFINE a == A(n[2])
             b == B(n[2])
  <2>1. \A u \in Threads : IsFiniteSet(a[u])
    BY MadeFinite DEF A
  <2>2. \A u \in Threads : b[u] = IF u = t THEN a[u] \cup {n} ELSE a[u]
    BY <1>6
  <2>3. n \notin a[t]
    BY <1>7
  <2> HIDE DEF a, b
  <2>4. Cardinality(Pairs(Threads, b)) = Cardinality(Pairs(Threads, a)) + 1
    BY <1>2, <2>1, <2>2, <2>3, PairsGrow
  <2> QED
    BY <2>4 DEF a, b
<1>9. ASSUME NEW j, j # n[2]
      PROVE  Pairs(Threads, B(j)) = Pairs(Threads, A(j))
  <2>1. \A u \in Threads : B(j)[u] = A(j)[u]
    BY <1>6, <1>9
  <2> QED
    BY <2>1 DEF Pairs
<1>10. \A j : Made(j) = Pairs(Threads, A(j))
  BY MadeIs DEF A
<1>11. ASSUME NEW j
       PROVE  IF j = n[2] THEN Cardinality(Made(j)') = Cardinality(Made(j)) + 1
              ELSE Made(j)' = Made(j)
  <2>1. Made(j)' = Pairs(Threads, B(j)) /\ Made(j) = Pairs(Threads, A(j))
    BY <1>5, <1>10
  <2> QED
    BY <1>8, <1>9, <2>1
<1> QED
  BY <1>11 DEF n


LEMMA MadeStays ==
  ASSUME UNCHANGED <<prog, disk, todo>>
  PROVE  /\ \A j : Made(j)' = Made(j)
         /\ \A t : NextOf(t)' = NextOf(t) /\ Incs(t)' = Incs(t)
         /\ Threads' = Threads
<1>1. Threads' = Threads
  BY DEF Threads
<1>2. ASSUME NEW j
      PROVE  Made(j)' = Made(j)
  BY <1>1 DEF Made, RunOf
<1>3. ASSUME NEW t
      PROVE  NextOf(t)' = NextOf(t) /\ Incs(t)' = Incs(t)
  BY DEF NextOf, Incs, RunOf
<1> QED
  BY <1>1, <1>2, <1>3

LEMMA ExecuteKeeps ==
  ASSUME ModulesInv, Execute, ModulesInv'
  PROVE  RunInv'
<1>1. /\ UNCHANGED <<prog, disk, printed>>
      /\ disk.bin # Absent /\ printed = Absent
      /\ \A t \in Threads : RunOf(disk.bin.mod, t).status = "done"
  BY DEF Execute, toolVars
<1>2. /\ todo' = [t \in Threads |-> Incs(t)]
      /\ reg' = [t \in Threads |-> None]
      /\ counts' = [id \in DOMAIN disk.bin.mod.table |-> 0]
  BY DEF Execute, Incs
<1>3. Threads' = Threads /\ \A t : Incs(t)' = Incs(t) /\ \A M : RunOf(M, t)' = RunOf(M, t)
  BY <1>1 DEF Threads, Incs, RunOf
<1>4. RunReady'
  <2>1. \A t \in Threads : RunOf(disk.bin.mod, t)' = RunOf(disk.bin.mod, t)
    BY <1>1 DEF RunOf
  <2> QED
    BY <1>1, <1>3, <2>1 DEF RunReady
<1>5. RunTyped'
  BY <1>1, <1>2, <1>3 DEF RunTyped
<1>6. ASSUME NEW t \in Threads
      PROVE  LoadedOK(t)'
  BY <1>2 DEF LoadedOK
<1>7. ASSUME NEW j
      PROVE  Made(j)' = {}
  <2>1. \A t \in Threads : Incs(t)' \ todo'[t] = {}
    BY <1>2, <1>3
  <2>2. Made(j)' = UNION {{t} \X {x \in Incs(t)' \ todo'[t] : x[2] = j} : t \in Threads}
    BY <1>3 DEF Made, Incs
  <2> QED
    BY <2>1, <2>2
<1>8. CountersKeepUp'
  <2>1. \A j : Cardinality(Made(j)') = 0
    BY <1>7, FS_EmptySet
  <2> QED
    BY <1>2, <1>7, <2>1 DEF CountersKeepUp
<1> QED
  BY <1>3, <1>4, <1>5, <1>6, <1>8 DEF RunInv

LEMMA IncrLoadKeeps ==
  ASSUME ModulesInv, RunInv, NEW t \in Threads, IncrLoad(t)
  PROVE  RunInv'
<1>0. PICK id : id = NextOf(t)[2]
  OBVIOUS
<1>1. /\ mode = "run" /\ todo[t] # {} /\ reg[t] = None
      /\ UNCHANGED <<prog, mode, disk, todo, counts, printed>>
      /\ reg' = [reg EXCEPT ![t] = <<counts[id]>>]
      /\ raced' = IF \E u \in Threads : reg[u] # None /\ NextOf(u)[2] = id
                    THEN raced \cup {id} ELSE raced
  BY <1>0 DEF IncrLoad, Running, toolVars
<1>2. /\ RunReady /\ RunTyped /\ (\A u \in Threads : LoadedOK(u)) /\ CountersKeepUp
  BY <1>1 DEF RunInv
<1>3. /\ \A j : Made(j)' = Made(j)
      /\ \A u : NextOf(u)' = NextOf(u) /\ Incs(u)' = Incs(u)
      /\ Threads' = Threads
  BY <1>1, MadeStays
<1>4. RunReady'
  <2>1. \A u \in Threads : RunOf(disk.bin.mod, u)' = RunOf(disk.bin.mod, u)
    BY <1>1 DEF RunOf
  <2> QED
    BY <1>1, <1>2, <1>3, <2>1 DEF RunReady
<1>5. RunTyped'
  BY <1>1, <1>2, <1>3 DEF RunTyped
<1>6. raced \subseteq raced'
  BY <1>1
<1>7. CountersKeepUp'
  BY <1>1, <1>2, <1>3, <1>6 DEF CountersKeepUp
<1>8. id \in DOMAIN counts /\ counts[id] \in Nat /\ counts[id] <= Cardinality(Made(id))
  <2>1. id \in DOMAIN counts
    BY <1>0, <1>1, <1>2, NextIs
  <2> QED
    BY <1>1, <1>2, <2>1 DEF RunTyped, CountersKeepUp
<1>9. reg'[t] = <<counts[id]>> /\ \A u \in Threads \ {t} : reg'[u] = reg[u]
  BY <1>1, <1>2 DEF RunTyped
<1>10. reg'[t][1] = counts[id]
  BY <1>9
<1>11. LoadedOK(t)'
  <2>1. id \notin raced' => \A u \in Threads \ {t} : reg'[u] # None => NextOf(u)[2] # id
    BY <1>1, <1>9
  <2>2. LoadedAt(t, id)'
    BY <1>1, <1>3, <1>8, <1>10, <2>1 DEF LoadedAt
  <2> QED
    BY <1>0, <1>3, <2>2 DEF LoadedOK
<1>12. ASSUME NEW u \in Threads \ {t}
       PROVE  LoadedOK(u)'
  <2> SUFFICES ASSUME reg'[u] # None, NEW j, j = NextOf(u)[2]
               PROVE  LoadedAt(u, j)'
    BY <1>3 DEF LoadedOK
  <2>1. reg[u] # None /\ reg'[u] = reg[u]
    BY <1>9
  <2>2. LoadedAt(u, j)
    BY <1>2, <2>1 DEF LoadedOK
  <2>3. j \notin raced' => j # id /\ j \notin raced
    BY <1>1, <2>1
  <2>4. ASSUME j \notin raced', NEW v \in Threads \ {u}, reg'[v] # None
        PROVE  NextOf(v)[2] # j
    <3>1. CASE v = t
      BY <1>0, <2>3, <2>4, <3>1
    <3>2. CASE v # t
      BY <1>9, <2>2, <2>3, <2>4, <3>2 DEF LoadedAt
    <3> QED
      BY <3>1, <3>2
  <2> QED
    BY <1>1, <1>3, <2>1, <2>2, <2>3, <2>4 DEF LoadedAt
<1> QED
  BY <1>3, <1>4, <1>5, <1>7, <1>11, <1>12 DEF RunInv


LEMMA IncrStoreKeeps ==
  ASSUME ModulesInv, RunInv, NEW t \in Threads, IncrStore(t)
  PROVE  RunInv'
<1>0. PICK id : id = NextOf(t)[2]
  OBVIOUS
<1>1. /\ mode = "run" /\ todo[t] # {} /\ reg[t] # None
      /\ UNCHANGED <<prog, mode, disk, raced, printed>>
      /\ counts' = [counts EXCEPT ![id] = reg[t][1] + 1]
      /\ reg' = [reg EXCEPT ![t] = None]
      /\ todo' = [todo EXCEPT ![t] = @ \ {NextOf(t)}]
  BY <1>0 DEF IncrStore, Running, toolVars, Incremented
<1>2. /\ RunReady /\ RunTyped /\ (\A u \in Threads : LoadedOK(u)) /\ CountersKeepUp
  BY <1>1 DEF RunInv
<1>3. /\ Threads' = Threads /\ (\A u : Incs(u)' = Incs(u))
      /\ \A u \in Threads : RunOf(disk.bin.mod, u)' = RunOf(disk.bin.mod, u)
  BY <1>1 DEF Threads, Incs, RunOf
<1>4. RunReady'
  BY <1>1, <1>2, <1>3 DEF RunReady
<1>5. LoadedAt(t, id) /\ id \in DOMAIN counts
  BY <1>0, <1>1, <1>2, NextIs DEF LoadedOK
<1>6. PICK r : r = reg[t][1]
  OBVIOUS
<1>7. /\ r \in Nat /\ r <= Cardinality(Made(id))
      /\ id \notin raced => r = counts[id]
  BY <1>5, <1>6 DEF LoadedAt
<1>8. /\ \A j \in DOMAIN counts : counts'[j] = IF j = id THEN r + 1 ELSE counts[j]
      /\ DOMAIN counts' = DOMAIN counts
  BY <1>1, <1>6
<1>9. /\ reg'[t] = None /\ DOMAIN reg' = Threads /\ DOMAIN todo' = Threads
      /\ todo'[t] = todo[t] \ {NextOf(t)}
      /\ \A u \in Threads \ {t} : reg'[u] = reg[u] /\ todo'[u] = todo[u]
  BY <1>1, <1>2 DEF RunTyped
<1>10. RunTyped'
  <2>1. \A u \in Threads : todo'[u] \subseteq Incs(u)
    BY <1>2, <1>9 DEF RunTyped
  <2>2. \A j \in DOMAIN counts' : counts'[j] \in Nat
    BY <1>2, <1>7, <1>8 DEF RunTyped
  <2>3. DOMAIN counts' = DOMAIN disk'.bin.mod.table
    BY <1>1, <1>2, <1>8 DEF RunTyped
  <2> QED
    BY <1>3, <1>9, <2>1, <2>2, <2>3 DEF RunTyped
<1>11. \A j : IF j = id THEN Cardinality(Made(j)') = Cardinality(Made(j)) + 1
               ELSE Made(j)' = Made(j)
  BY <1>0, <1>1, <1>2, MadeGrows
<1>12. \A j : Cardinality(Made(j)) \in Nat
  BY <1>2, MadeFinite
<1>13. ASSUME NEW j \in DOMAIN counts
       PROVE  /\ counts'[j] <= Cardinality(Made(j)')
              /\ j \notin raced' => counts'[j] = Cardinality(Made(j)')
              /\ Made(j)' # {} => counts'[j] > 0
  <2>1. /\ counts[j] <= Cardinality(Made(j))
        /\ j \notin raced => counts[j] = Cardinality(Made(j))
        /\ Made(j) # {} => counts[j] > 0
    BY <1>1, <1>2 DEF CountersKeepUp
  <2>2. CASE j = id
    <3>1. Cardinality(Made(j)') = Cardinality(Made(j)) + 1 /\ counts'[j] = r + 1
      BY <1>8, <1>11, <2>2
    <3> QED
      BY <1>1, <1>7, <1>12, <2>1, <2>2, <3>1
  <2>3. CASE j # id
    BY <1>1, <1>8, <1>11, <2>1, <2>3
  <2> QED
    BY <2>2, <2>3
<1>14. CountersKeepUp'
  BY <1>8, <1>13 DEF CountersKeepUp
<1>15. LoadedOK(t)'
  BY <1>9 DEF LoadedOK
<1>16. ASSUME NEW u \in Threads \ {t}
       PROVE  LoadedOK(u)'
  <2>1. NextOf(u)' = NextOf(u)
    BY <1>9 DEF NextOf
  <2> SUFFICES ASSUME reg'[u] # None, NEW j, j = NextOf(u)[2]
               PROVE  LoadedAt(u, j)'
    BY <2>1 DEF LoadedOK
  <2>2. reg[u] # None /\ reg'[u] = reg[u] /\ todo'[u] = todo[u]
    BY <1>9
  <2>3. LoadedAt(u, j)
    BY <1>2, <2>2 DEF LoadedOK
  <2>4. Cardinality(Made(j)) <= Cardinality(Made(j)')
    BY <1>11, <1>12
  <2>5. reg'[u][1] \in Nat /\ reg'[u][1] <= Cardinality(Made(j)')
    <3>1. reg[u][1] \in Nat /\ reg[u][1] <= Cardinality(Made(j)) /\ Cardinality(Made(j)) \in Nat
      BY <1>12, <2>3 DEF LoadedAt
    <3>2. Cardinality(Made(j)') \in Nat
      BY <1>11, <1>12
    <3> QED
      BY <2>2, <2>4, <3>1, <3>2
  <2>6. ASSUME j \notin raced
        PROVE  /\ reg'[u][1] = counts'[j]
               /\ \A v \in Threads \ {u} : reg'[v] # None => NextOf(v)'[2] # j
    <3>1. j # id
      BY <1>5, <2>2, <2>6 DEF LoadedAt
    <3>2. j \in DOMAIN counts
      BY <1>2, <2>3, NextIs DEF LoadedAt
    <3>3. reg'[u][1] = counts'[j]
      BY <1>8, <2>2, <2>3, <2>6, <3>1, <3>2 DEF LoadedAt
    <3>4. ASSUME NEW v \in Threads \ {u}, reg'[v] # None
          PROVE  NextOf(v)'[2] # j
      <4>1. v # t /\ reg[v] # None
        BY <1>9, <3>4
      <4>2. NextOf(v)' = NextOf(v)
        BY <1>9, <4>1 DEF NextOf
      <4> QED
        BY <2>3, <2>6, <4>1, <4>2 DEF LoadedAt
    <3> QED
      BY <3>3, <3>4
  <2> QED
    BY <1>1, <1>3, <2>2, <2>3, <2>5, <2>6 DEF LoadedAt
<1> QED
  BY <1>3, <1>4, <1>10, <1>14, <1>15, <1>16 DEF RunInv

LEMMA PrintCountsTrue ==
  ASSUME ModulesInv, RunInv, PrintCounts
  PROVE  CountsTrue'
<1> DEFINE N == disk.bin.mod
           M == disk.bin.of
<1>1. /\ mode = "run" /\ UNCHANGED <<prog, disk, todo, counts, raced>>
      /\ printed' = [of |-> M, counts |-> [k \in DOMAIN counts |-> <<N.table[k], counts[k]>>]]
  BY DEF PrintCounts, toolVars
<1>2. RunReady /\ RunTyped /\ CountersKeepUp
  BY <1>1 DEF RunInv
<1>3. Threads' = Threads /\ (\A t : RunOf(M, t)' = RunOf(M, t)) /\ IsFiniteSet(Threads)
  BY <1>1, ThreadsFinite DEF Threads, RunOf
<1>4. ASSUME NEW k \in DOMAIN counts
      PROVE  LET calls == UNION {{t} \X CallsIn(RunOf(M, t).trace, N.table[k]) : t \in Threads}
                 done == \A t \in Threads : todo[t] = {}
             IN  /\ counts[k] <= Cardinality(calls)
                 /\ done /\ k \notin raced => counts[k] = Cardinality(calls)
                 /\ done /\ calls # {} => counts[k] > 0
  <2> DEFINE C == [t \in Threads |-> CallsIn(RunOf(M, t).trace, N.table[k])]
             I == [t \in Threads |-> {x \in Incs(t) : x[2] = k}]
             m == MadeBy(k)
             done == \A t \in Threads : todo[t] = {}
  <2>1. k \in DOMAIN N.table
    BY <1>2 DEF RunTyped
  <2>2. \A t \in Threads : /\ IsFiniteSet(Incs(t))
                           /\ IsFiniteSet(C[t]) /\ Cardinality(I[t]) = Cardinality(C[t])
    BY <1>2, <2>1, BinaryFacts
  <2>3. \A t \in Threads : IsFiniteSet(I[t])
    <3>1. \A t \in Threads : I[t] \subseteq Incs(t)
      OBVIOUS
    <3> HIDE DEF I
    <3> QED
      BY <2>2, <3>1, FS_Subset
  <2>4. \A t \in Threads : m[t] \subseteq I[t]
    BY DEF MadeBy
  <2>5. done => Pairs(Threads, m) = Pairs(Threads, I)
    BY DEF MadeBy, Pairs
  <2>6. UNION {{t} \X CallsIn(RunOf(M, t).trace, N.table[k]) : t \in Threads} = Pairs(Threads, C)
    BY DEF Pairs
  <2>7. Made(k) = Pairs(Threads, m)
    BY MadeIs
  <2> HIDE DEF C, I, m
  <2>8. /\ Cardinality(Pairs(Threads, I)) = Cardinality(Pairs(Threads, C))
        /\ IsFiniteSet(Pairs(Threads, C)) /\ Cardinality(Pairs(Threads, C)) \in Nat
    BY <1>3, <2>2, <2>3, PairsAsMany, PairsFinite
  <2>9. /\ IsFiniteSet(Pairs(Threads, I))
        /\ Cardinality(Pairs(Threads, m)) <= Cardinality(Pairs(Threads, I))
    BY <1>3, <2>3, <2>4, PairsFinite, PairsWithin
  <2>10. /\ counts[k] \in Nat /\ counts[k] <= Cardinality(Pairs(Threads, m))
         /\ k \notin raced => counts[k] = Cardinality(Pairs(Threads, m))
         /\ Pairs(Threads, m) # {} => counts[k] > 0
    BY <1>1, <1>2, <2>7 DEF CountersKeepUp, RunTyped
  <2>11. Cardinality(Pairs(Threads, m)) \in Nat
    BY <1>2, <2>7, MadeFinite
  <2>12. Pairs(Threads, C) # {} => Pairs(Threads, I) # {}
    <3> HAVE Pairs(Threads, C) # {}
    <3>1. Cardinality(Pairs(Threads, C)) # 0
      BY <2>8, FS_EmptySet
    <3> QED
      BY <2>8, <3>1, FS_EmptySet
  <2> HIDE DEF done
  <2> QED
    <3>1. /\ counts[k] <= Cardinality(Pairs(Threads, C))
          /\ done /\ k \notin raced => counts[k] = Cardinality(Pairs(Threads, C))
          /\ done /\ Pairs(Threads, C) # {} => counts[k] > 0
      BY <2>5, <2>8, <2>9, <2>10, <2>11, <2>12
    <3> QED
      BY <2>6, <3>1 DEF done
<1>5. DOMAIN printed'.counts = DOMAIN counts /\ printed'.of = M
  BY <1>1
<1>6. \A k \in DOMAIN counts : printed'.counts[k] = <<N.table[k], counts[k]>>
  BY <1>1
<1>7. ASSUME NEW k \in DOMAIN counts
      PROVE  printed'.counts[k][1] = N.table[k] /\ printed'.counts[k][2] = counts[k]
  BY <1>6
<1>8. \A t : RunOf(printed.of, t)' = RunOf(M, t)
  BY <1>1, <1>5 DEF RunOf
<1> HIDE DEF N, M
<1>9. ASSUME NEW k \in DOMAIN counts
      PROVE  UNION {{t} \X CallsIn(RunOf(printed.of, t)'.trace, printed'.counts[k][1])
                      : t \in Threads'}
                = UNION {{t} \X CallsIn(RunOf(M, t).trace, N.table[k]) : t \in Threads}
  BY <1>3, <1>7, <1>8
<1>10. ASSUME NEW k \in DOMAIN counts
       PROVE  LET n == printed'.counts[k][2]
                  calls == UNION {{t} \X CallsIn(RunOf(printed.of, t)'.trace, printed'.counts[k][1])
                                    : t \in Threads'}
                  done == \A t \in Threads' : todo'[t] = {}
              IN  /\ n <= Cardinality(calls)
                  /\ done /\ k \notin raced' => n = Cardinality(calls)
                  /\ done /\ calls # {} => n > 0
  <2>1. PICK c : c = UNION {{t} \X CallsIn(RunOf(M, t).trace, N.table[k]) : t \in Threads}
    OBVIOUS
  <2>2. /\ counts[k] <= Cardinality(c)
        /\ (\A t \in Threads : todo[t] = {}) /\ k \notin raced => counts[k] = Cardinality(c)
        /\ (\A t \in Threads : todo[t] = {}) /\ c # {} => counts[k] > 0
    BY <1>4, <2>1
  <2>3. UNION {{t} \X CallsIn(RunOf(printed.of, t)'.trace, printed'.counts[k][1])
                 : t \in Threads'} = c
    BY <1>9, <2>1
  <2> QED
    BY <1>1, <1>3, <1>7, <2>2, <2>3
<1> QED
  BY <1>5, <1>10 DEF CountsTrue


(* The actions that are not of the running threads: none starts a run or   *)
(* changes what the threads have left or what was printed.                 *)
LEMMA OthersKeepRuns ==
  ASSUME RunMBAAdd \/ RunMBASub \/ PickTargets \/ Duplicate \/ DuplicateEnds
           \/ Launch("static") \/ Launch("dynamic") \/ CountStaticCalls
           \/ InstrumentAndVerify \/ SaveModule \/ Compile \/ Link
  PROVE  UNCHANGED <<prog, todo, raced, printed>> /\ mode' # "run"
<1>1. CASE RunMBAAdd
  BY <1>1 DEF RunMBAAdd, Pass, runVars
<1>2. CASE RunMBASub
  BY <1>2 DEF RunMBASub, Pass, runVars
<1>3. CASE PickTargets
  BY <1>3 DEF PickTargets, Pass, runVars
<1>4. CASE Duplicate
  BY <1>4 DEF Duplicate, runVars
<1>5. CASE DuplicateEnds
  BY <1>5 DEF DuplicateEnds, runVars
<1>6. ASSUME NEW name, Launch(name)
      PROVE  UNCHANGED <<prog, todo, raced, printed>> /\ mode' # "run"
  BY <1>6 DEF Launch, runVars
<1>7. ASSUME NEW name, NEW from, NEW to, ToolStep(name, from, to)
      PROVE  UNCHANGED <<prog, todo, raced, printed>> /\ mode' # "run"
  BY <1>7 DEF ToolStep, runVars
<1>8. CASE CountStaticCalls
  BY <1>7, <1>8 DEF CountStaticCalls
<1>9. CASE InstrumentAndVerify
  BY <1>7, <1>9 DEF InstrumentAndVerify
<1>10. CASE SaveModule
  BY <1>7, <1>10 DEF SaveModule
<1>11. CASE Compile
  BY <1>7, <1>11 DEF Compile
<1>12. CASE Link
  BY <1>7, <1>12 DEF Link
<1> QED
  BY <1>1, <1>2, <1>3, <1>4, <1>5, <1>6, <1>8, <1>9, <1>10, <1>11, <1>12

LEMMA CountsTrueStays ==
  ASSUME CountsTrue, UNCHANGED <<prog, todo, raced, printed>>
  PROVE  CountsTrue'
<1>1. \A M, t : RunOf(M, t)' = RunOf(M, t)
  BY DEF RunOf
<1> QED
  BY <1>1 DEF CountsTrue, Threads, RunOf

LEMMA RunInvStutters ==
  ASSUME RunInv, UNCHANGED vars
  PROVE  RunInv'
<1> SUFFICES ASSUME mode' = "run"
             PROVE  (RunReady /\ RunTyped /\ (\A t \in Threads : LoadedOK(t)) /\ CountersKeepUp)'
  BY DEF RunInv
<1>1. UNCHANGED <<prog, mode, disk, todo, reg, counts, raced, printed>>
  BY DEF vars, toolVars, runVars
<1>2. RunReady /\ RunTyped /\ (\A t \in Threads : LoadedOK(t)) /\ CountersKeepUp
  BY <1>1 DEF RunInv
<1>3. /\ \A j : Made(j)' = Made(j)
      /\ \A t : NextOf(t)' = NextOf(t) /\ Incs(t)' = Incs(t)
      /\ Threads' = Threads
  BY <1>1, MadeStays
<1>4. RunReady'
  <2>1. \A t \in Threads : RunOf(disk.bin.mod, t)' = RunOf(disk.bin.mod, t)
    BY <1>1 DEF RunOf
  <2> QED
    BY <1>1, <1>2, <1>3, <2>1 DEF RunReady
<1>5. RunTyped'
  BY <1>1, <1>2, <1>3 DEF RunTyped
<1>6. ASSUME NEW t \in Threads
      PROVE  LoadedOK(t)'
  <2> SUFFICES ASSUME reg'[t] # None, NEW id, id = NextOf(t)[2]
               PROVE  LoadedAt(t, id)'
    BY <1>3 DEF LoadedOK
  <2>1. LoadedAt(t, id)
    BY <1>1, <1>2 DEF LoadedOK
  <2> QED
    BY <1>1, <1>3, <2>1 DEF LoadedAt
<1>7. CountersKeepUp'
  BY <1>1, <1>2, <1>3 DEF CountersKeepUp
<1> QED
  BY <1>3, <1>4, <1>5, <1>6, <1>7

LEMMA InitCount == Init => CountInv
<1> SUFFICES ASSUME Init PROVE CountInv
  OBVIOUS
<1>1. ModulesInv
  BY InitModules
<1>2. RunInv /\ CountsTrue
  BY DEF Init, RunInv, CountsTrue
<1> QED
  BY <1>1, <1>2 DEF CountInv

LEMMA CountKept == CountInv /\ [Next]_vars => CountInv'
<1> SUFFICES ASSUME CountInv, [Next]_vars PROVE CountInv'
  OBVIOUS
<1>1. ModulesInv /\ RunInv /\ CountsTrue
  BY DEF CountInv
<1>2. ModulesInv'
  BY <1>1, ModulesKept
<1>3. ASSUME UNCHANGED printed, printed = Absent
      PROVE  CountsTrue'
  BY <1>3 DEF CountsTrue
<1>4. ASSUME mode = "run", UNCHANGED printed
      PROVE  CountsTrue'
  BY <1>1, <1>3, <1>4 DEF RunInv, RunReady
<1>5. CASE UNCHANGED vars
  <2>1. UNCHANGED <<prog, todo, raced, printed>>
    BY <1>5 DEF vars, runVars
  <2> QED
    BY <1>1, <1>2, <1>5, <2>1, RunInvStutters, CountsTrueStays DEF CountInv
<1>6. CASE Execute
  <2>1. UNCHANGED printed /\ printed = Absent
    BY <1>6 DEF Execute
  <2> QED
    BY <1>1, <1>2, <1>3, <1>6, <2>1, ExecuteKeeps DEF CountInv
<1>7. CASE PrintCounts
  <2>1. RunInv'
    BY <1>7 DEF PrintCounts, RunInv
  <2> QED
    BY <1>1, <1>2, <1>7, <2>1, PrintCountsTrue DEF CountInv
<1>8. ASSUME NEW t \in Threads, IncrLoad(t) \/ IncrStore(t)
      PROVE  CountInv'
  <2>1. mode = "run" /\ UNCHANGED printed
    BY <1>8 DEF IncrLoad, IncrStore, Running
  <2>2. RunInv'
    BY <1>1, <1>8, IncrLoadKeeps, IncrStoreKeeps
  <2> QED
    BY <1>2, <1>4, <2>1, <2>2 DEF CountInv
<1>9. CASE \/ RunMBAAdd \/ RunMBASub \/ PickTargets \/ Duplicate \/ DuplicateEnds
           \/ Launch("static") \/ Launch("dynamic") \/ CountStaticCalls
           \/ InstrumentAndVerify \/ SaveModule \/ Compile \/ Link
  <2>1. UNCHANGED <<prog, todo, raced, printed>> /\ mode' # "run"
    BY <1>9, OthersKeepRuns
  <2>2. RunInv'
    BY <2>1 DEF RunInv
  <2> QED
    BY <1>1, <1>2, <2>1, <2>2, CountsTrueStays DEF CountInv
<1> QED
  BY <1>5, <1>6, <1>7, <1>8, <1>9 DEF Next

(* ++lt_RUNTIME_functionInfo[id].count in several threads: a counter loses *)
(* increments only where two of them overlapped, it is never above the     *)
(* increments made, and once one was made it is not 0.                     *)
THEOREM CountersAreBehindOnlyByRaces == Spec => []CountersKeepUp
<1>1. Init => CountInv
  BY InitCount
<1>2. CountInv /\ [Next]_vars => CountInv'
  BY CountKept
<1>3. CountInv => CountersKeepUp
  BY DEF CountInv, RunInv, CountersKeepUp
<1> QED
  BY <1>1, <1>2, <1>3, PTL DEF Spec

(* lt_RUNTIME_print, for every program, whatever passes ran over its file  *)
(* before dynamic, however its threads interleave and whenever the first   *)
(* returns: the counts are those of calls the uninstrumented program       *)
(* makes, never too high, and exact when no increments overlapped and      *)
(* every thread was done.                                                  *)
THEOREM PrintedCountsAreTrue == Spec => []CountsTrue
<1>1. Init => CountInv
  BY InitCount
<1>2. CountInv /\ [Next]_vars => CountInv'
  BY CountKept
<1>3. CountInv => CountsTrue
  BY DEF CountInv
<1> QED
  BY <1>1, <1>2, <1>3, PTL DEF Spec
================================================================================
