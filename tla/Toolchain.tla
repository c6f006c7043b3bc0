------------------------------- MODULE Toolchain -------------------------------
(***************************************************************************)
(* A program's way through the tools of src/passes: opt runs the           *)
(* transformation passes over its bitcode file, static reports on it,      *)
(* dynamic instruments it and builds a binary, and the threads of the      *)
(* binary count their calls.  mode says who is at work.                    *)
(*                                                                         *)
(* misled is TRUE once DuplicateBB was given a context value that its      *)
(* block cannot use (see Usable): the file is then broken.                 *)
(***************************************************************************)
EXTENDS DuplicateBB, MBA, CallCounter

CONSTANTS Programs, RatioArgs, Draws, Absent

ASSUME ProgramsOK ==
    \A p \in Programs :
        /\ ModuleOK(p.module) /\ p.main \in DOMAIN p.module.fns
        /\ {IncrCC, PrintFn} \cap ToSet(p.module.names) = {}
        /\ IsFiniteSet(DOMAIN p.starts)

VARIABLES prog, mode, passesLeft, targetsLeft, file, targets, remapper, misled,
          toolsLeft, tool, report, disk, todo, reg, counts, raced, printed

optVars == <<file, targets, remapper, misled>>
toolVars == <<tool, report, disk>>
runVars == <<todo, reg, counts, raced, printed>>
vars == <<prog, mode, passesLeft, targetsLeft, toolsLeft, optVars, toolVars, runVars>>

Threads == DOMAIN prog.starts

Init ==
    /\ prog \in Programs /\ mode = "idle"
    /\ passesLeft = prog.passes /\ targetsLeft = prog.targets /\ toolsLeft = prog.tools
    /\ file = prog.module /\ targets = <<>> /\ remapper = <<>> /\ misled = FALSE
    /\ tool = [name |-> "none", stage |-> "none", input |-> Absent, mod |-> Absent]
    /\ report = Absent
    /\ disk = [obj |-> Absent, bin |-> Absent, saved |-> Absent]
    /\ todo = <<>> /\ reg = <<>> /\ counts = <<>> /\ raced = {} /\ printed = Absent
-----------------------------------------------------------------------------
(* opt runs one pass over every function of the file.  It verifies what it *)
(* reads: there is no way on from a broken file.                           *)
Pass(change) ==
    /\ mode = "idle" /\ passesLeft > 0 /\ ~misled
    /\ passesLeft' = passesLeft - 1
    /\ change
    /\ UNCHANGED <<prog, toolsLeft, toolVars, runVars>>

MaxCandidates ==
    LET C(f, l) == Len(SelectSeq(file.fns[f].code[l].body, IsCandidate))
    IN  CHOOSE n \in 0 .. 9 :
           /\ \A f \in DOMAIN file.fns : \A l \in Labels(file.fns[f]) : C(f, l) <= n
           /\ n > 0 => \E f \in DOMAIN file.fns : \E l \in Labels(file.fns[f]) : C(f, l) = n

RunMBAAdd ==
    Pass(/\ \E arg \in RatioArgs, draws \in [1 .. MaxCandidates -> Draws] :
              /\ Parse(arg) # Rejected
              /\ file' = [file EXCEPT !.fns = [f \in DOMAIN file.fns |->
                             MBAAdd(file.fns[f], draws, Parse(arg))]]
         /\ UNCHANGED <<mode, targetsLeft, targets, remapper, misled>>)

RunMBASub ==
    Pass(/\ file' = [file EXCEPT !.fns = [f \in DOMAIN file.fns |-> MBASub(file.fns[f])]]
         /\ UNCHANGED <<mode, targetsLeft, targets, remapper, misled>>)

(* The values a block may test for being null: available there, and of a   *)
(* type that has an integer comparison.  RIV reports others as well: an    *)
(* invoke's result to its landing pad and the blocks behind it (RIV.cpp    *)
(* line 94), and arguments of any type (line 72).                          *)
Usable(fn) ==
    LET avail == Available(fn)
    IN  [l \in DOMAIN avail |->
           avail[l] \ {p.def : p \in {q \in ToSet(fn.params) : q.ty = "float"}}]

(* DuplicateBB::runOnFunction, up to the duplication: a draw for each      *)
(* block, and a context value for each block that is drawn and has one.    *)
PickTargets ==
    LET riv == [f \in DOMAIN file.fns |-> ReachableValues(file.fns[f])]
        blocks == UNION {{<<f, l>> : l \in {k \in Labels(file.fns[f]) :
                                              ~file.fns[f].code[k].pad}} : f \in DOMAIN file.fns}
    IN  Pass(\E arg \in RatioArgs, drawn \in UNION {kSubset(n, blocks) : n \in 0 .. targetsLeft} :
               /\ Parse(arg) # Rejected
               /\ drawn # {} => \E d \in Draws : Duplicates(d, Parse(arg))
               /\ drawn # blocks => \E d \in Draws : ~Duplicates(d, Parse(arg))
               /\ LET T == {b \in drawn : riv[b[1]][b[2]] # {}}
                  IN  /\ T = drawn /\ targetsLeft' = targetsLeft - Cardinality(T)
                      /\ \E ctx \in [T -> UNION {riv[b[1]][b[2]] : b \in T}] :
                           /\ \A b \in T : ctx[b] \in riv[b[1]][b[2]]
                           /\ targets' = ctx
                           /\ misled' = (misled \/ \E b \in T :
                                 ctx[b] \notin Usable(file.fns[b[1]])[b[2]])
               /\ mode' = "duplicating"
               /\ UNCHANGED <<file, remapper>>)

(* Functions are visited in the order of the module, and their blocks in   *)
(* that of the function.                                                   *)
Precedes(x, y) ==
    LET Place(z) == CHOOSE k \in DOMAIN file.fns[z[1]].order : file.fns[z[1]].order[k] = z[2]
    IN  IF x[1] = y[1] THEN Place(x) < Place(y) ELSE ID(file, x[1]) < ID(file, y[1])

(* DuplicateBB::duplicate of the next target.  A value belongs to one      *)
(* function, so that one remapper does for all of them.                    *)
Duplicate ==
    /\ mode = "duplicating"
    /\ \E x \in DOMAIN targets :
         /\ \A y \in DOMAIN targets \ {x} : Precedes(x, y)
         /\ file' = [file EXCEPT !.fns[x[1]] = Duplicated(@, x[2], targets[x], remapper)]
         /\ remapper' = ReMapperAfter(file.fns[x[1]], x[2], remapper)
         /\ targets' = [y \in DOMAIN targets \ {x} |-> targets[y]]
    /\ UNCHANGED <<prog, mode, passesLeft, targetsLeft, toolsLeft, misled, toolVars, runVars>>

DuplicateEnds ==
    /\ mode = "duplicating" /\ DOMAIN targets = {}
    /\ mode' = "idle" /\ remapper' = <<>>
    /\ UNCHANGED <<prog, passesLeft, targetsLeft, toolsLeft, file, targets, misled, toolVars, runVars>>
-----------------------------------------------------------------------------
(* main of static and of dynamic: the file is parsed, or the tool exits -1.*)
Launch(name) ==
    /\ mode = "idle" /\ toolsLeft > 0 /\ toolsLeft' = toolsLeft - 1
    /\ \/ /\ tool' = [name |-> name, stage |-> "parsed", input |-> file, mod |-> file]
          /\ mode' = "tool"
       \/ /\ tool' = [name |-> name, stage |-> "unread", input |-> Absent, mod |-> Absent]
          /\ UNCHANGED mode
    /\ UNCHANGED <<prog, passesLeft, targetsLeft, optVars, report, disk, runVars>>

ToolStep(name, from, to) ==
    /\ mode = "tool" /\ tool.name = name /\ tool.stage = from
    /\ mode' = IF to \in {"exit 0", "fatal"} THEN "idle" ELSE "tool"
    /\ UNCHANGED <<prog, passesLeft, targetsLeft, toolsLeft, optVars, runVars>>

CountStaticCalls ==
    /\ ToolStep("static", "parsed", "exit 0")
    /\ report' = [of |-> tool.input, counts |-> StaticCount(tool.input)]
    /\ tool' = [tool EXCEPT !.stage = "exit 0"]
    /\ UNCHANGED disk

(* Faulty variant: an error is reported, and the tool goes on. *)
ReportOnly(next) == next
(* report_fatal_error ends the tool, whatever was next. *)
ReportFatalError(next) == "fatal"

Goes(to) == tool' = [tool EXCEPT !.stage = to] /\ UNCHANGED report

(* The passes of countDynamicCalls: the call counter and the verifier. *)
InstrumentAndVerify ==
    LET M == Instrumented(tool.mod)
        ok == \A f \in DOMAIN M.fns : WellFormed(M.fns[f])
        next == IF ok THEN "verified" ELSE ReportFatalError("verified")
    IN  /\ ToolStep("dynamic", "parsed", next)
        /\ tool' = [tool EXCEPT !.stage = next, !.mod = M]
        /\ UNCHANGED <<report, disk>>

SaveModule ==
    \/ /\ ToolStep("dynamic", "verified", "saved") /\ Goes("saved")
       /\ \E asked \in BOOLEAN : disk' = [disk EXCEPT !.saved = IF asked THEN tool.mod ELSE @]
    \/ LET next == ReportFatalError("saved")
       IN  ToolStep("dynamic", "verified", next) /\ Goes(next) /\ UNCHANGED disk

(* A compilation that fails leaves the object file of an earlier build, or *)
(* none.  An object file that cannot be opened passes the check of lines   *)
(* 117-120 (its pointer is never null, ErrCode is not looked at) but ends  *)
(* the tool all the same: LLVM's stream reports the unread error fatally.  *)
Compile ==
    \/ /\ ToolStep("dynamic", "saved", "compiled") /\ Goes("compiled")
       /\ disk' = [disk EXCEPT !.obj = [of |-> tool.input, mod |-> tool.mod]]
    \/ LET next == ReportFatalError("compiled")
       IN  /\ ToolStep("dynamic", "saved", next) /\ Goes(next)
           /\ \E left \in {disk.obj, Absent} : disk' = [disk EXCEPT !.obj = left]

Link ==
    \/ /\ ToolStep("dynamic", "compiled", "exit 0") /\ Goes("exit 0")
       /\ disk.obj # Absent
       /\ disk' = [disk EXCEPT !.bin = disk.obj]
    \/ LET next == ReportFatalError("exit 0")
       IN  /\ ToolStep("dynamic", "compiled", next) /\ Goes(next)
           /\ \E left \in {disk.bin, Absent} : disk' = [disk EXCEPT !.bin = left]
-----------------------------------------------------------------------------
RunOf(M, t) == Outcome(M, prog.main, prog.starts[t], prog.throws)

(* A program that does not end within Fuel is out of bounds. *)
Execute ==
    /\ mode = "idle" /\ disk.bin # Absent /\ printed = Absent
    /\ \A t \in Threads : RunOf(disk.bin.mod, t).status = "done"
    /\ mode' = "run"
    /\ todo' = [t \in Threads |-> Increments(RunOf(disk.bin.mod, t).trace)]
    /\ reg' = [t \in Threads |-> None]
    /\ counts' = [id \in DOMAIN disk.bin.mod.table |-> 0]
    /\ raced' = {}
    /\ UNCHANGED <<prog, passesLeft, targetsLeft, toolsLeft, optVars, toolVars, printed>>

Running(t) == mode = "run" /\ todo[t] # {}
NextOf(t) == CHOOSE x \in todo[t] : \A y \in todo[t] : x[1] <= y[1]

(* ++lt_RUNTIME_functionInfo[id].count is a load and a store. *)
IncrLoad(t) ==
    /\ Running(t) /\ reg[t] = None
    /\ LET id == NextOf(t)[2]
       IN  /\ reg' = [reg EXCEPT ![t] = <<counts[id]>>]
           /\ raced' = IF \E u \in Threads : reg[u] # None /\ NextOf(u)[2] = id
                         THEN raced \cup {id} ELSE raced
    /\ UNCHANGED <<prog, mode, passesLeft, targetsLeft, toolsLeft, optVars, toolVars, todo, counts, printed>>

(* Faulty variant: a mark that the function was called. *)
Marked(n) == 1
Incremented(n) == n + 1

IncrStore(t) ==
    /\ Running(t) /\ reg[t] # None
    /\ counts' = [counts EXCEPT ![NextOf(t)[2]] = Incremented(reg[t][1])]
    /\ reg' = [reg EXCEPT ![t] = None]
    /\ todo' = [todo EXCEPT ![t] = @ \ {NextOf(t)}]
    /\ UNCHANGED <<prog, mode, passesLeft, targetsLeft, toolsLeft, optVars, toolVars, raced, printed>>

(* lt_RUNTIME_print, a destructor of the program: when the first thread    *)
(* returns from main, whatever the others are doing.                       *)
PrintCounts ==
    /\ mode = "run" /\ todo[1] = {}
    /\ printed' = [of |-> disk.bin.of,
                   counts |-> [k \in DOMAIN counts |-> <<disk.bin.mod.table[k], counts[k]>>]]
    /\ mode' = "idle"
    /\ UNCHANGED <<prog, passesLeft, targetsLeft, toolsLeft, optVars, toolVars, todo, reg, counts, raced>>

Next ==
    \/ RunMBAAdd \/ RunMBASub \/ PickTargets \/ Duplicate \/ DuplicateEnds
    \/ Launch("static") \/ Launch("dynamic") \/ CountStaticCalls
    \/ InstrumentAndVerify \/ SaveModule \/ Compile \/ Link
    \/ Execute \/ PrintCounts
    \/ \E t \in Threads : IncrLoad(t) \/ IncrStore(t)

Spec == Init /\ [][Next]_vars
-----------------------------------------------------------------------------
Meaning(M, vals, throws) == Outcome(M, prog.main, vals, throws)

(* Whatever passes opt ran, the program makes the same calls with the same *)
(* arguments and returns the same value.                                   *)
SameMeaning ==
    mode = "idle" /\ ~misled =>
        \A vals \in prog.inputs, throws \in {FALSE, prog.throws} :
            /\ Meaning(file, vals, throws) = Meaning(prog.module, vals, throws)
            /\ Meaning(file, vals, throws).status = "done"

(* After each duplicated block and each pass every operand is defined on   *)
(* every path to its use: no clone, phi node or condition refers to an     *)
(* erased instruction or to one of the other branch.                       *)
FilesVerify == ~misled => \A f \in DOMAIN file.fns : WellFormed(file.fns[f])

(* dynamic exits with 0 only when the binary is that of its input, however *)
(* its steps failed before and in earlier builds.                          *)
FreshBinary ==
    tool.name = "dynamic" /\ tool.stage = "exit 0" =>
        disk.bin # Absent /\ disk.bin.of = tool.input

(* The increments of a counter that the threads have made. *)
Made(id) ==
    UNION {{t} \X {x \in Increments(RunOf(disk.bin.mod, t).trace) \ todo[t] : x[2] = id}
             : t \in Threads}

(* While the threads run, a counter is behind the increments made only     *)
(* where two of them overlapped, and then it has not stayed at 0.          *)
CountersKeepUp ==
    mode = "run" =>
        \A id \in DOMAIN counts :
            /\ counts[id] <= Cardinality(Made(id))
            /\ id \notin raced => counts[id] = Cardinality(Made(id))
            /\ Made(id) # {} => counts[id] > 0

(* The printed counts are those of the program before instrumentation:     *)
(* never too high, exact when no increments of the function overlapped and *)
(* every thread was done, and not 0 when a function was called then.  An   *)
(* internal function is counted on its entry, so that its calls through    *)
(* pointers count as well (DynamicCallCounter.cpp line 164), which is more *)
(* than the direct calls its header promises (OnlyDirectCounted).          *)
CountsTrue ==
    printed # Absent =>
        \A k \in DOMAIN printed.counts :
            LET n == printed.counts[k][2]
                calls == UNION {{t} \X CallsIn(RunOf(printed.of, t).trace, printed.counts[k][1])
                                  : t \in Threads}
                done == \A t \in Threads : todo[t] = {}
            IN  /\ n <= Cardinality(calls)
                /\ done /\ k \notin raced => n = Cardinality(calls)
                /\ done /\ calls # {} => n > 0

(* DynamicCallCounter.cpp line 6: "Counts the number of dynamic (i.e.      *)
(* run-time) direct function calls.": no function has a higher count than  *)
(* it has calls that name it (and a start as main).                        *)
OnlyDirectCounted ==
    printed # Absent =>
        \A k \in DOMAIN printed.counts :
            printed.counts[k][2] <= Cardinality(UNION {
                {t} \X DirectCallsIn(RunOf(printed.of, t).trace, printed.counts[k][1])
                  : t \in Threads})

(* A function that some run calls directly, be it one of the module or an  *)
(* external one, is in the static report.                                  *)
StaticCoversCalls ==
    report # Absent =>
        \A vals \in prog.inputs, throws \in {FALSE, prog.throws} :
            LET trace == Meaning(report.of, vals, throws).trace
            IN  \A k \in DOMAIN trace :
                  trace[k].kind \in {"call", "invoke", "enter"} =>
                      trace[k].fn \in DOMAIN report.counts
================================================================================
