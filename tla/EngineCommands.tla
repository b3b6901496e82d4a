--------------------------- MODULE EngineCommands ---------------------------
(***************************************************************************)
(* The commands the methods of GDBEngine queue: the name the handlers know *)
(* a command by, what GDB is told, and what is kept with it until GDB has  *)
(* answered.  A method that queues several commands is a sequence.         *)
(***************************************************************************)
EXTENDS Integers, Sequences, TLC

Command(name, text) ==
    [name |-> name, text |-> text, tag0 |-> <<>>, tag1 |-> <<>>, tag2 |-> 0, variable |-> <<>>,
     slot |-> FALSE, signal |-> TRUE]
NoCommand == Command("", <<>>)
Slotted(c, slot) == [c EXCEPT !.slot = slot]
About(c, variable) == [c EXCEPT !.variable = <<variable>>]
Tagged(c, tag0, tag1) == [c EXCEPT !.tag0 = tag0, !.tag1 = tag1]

(***************************************************************************)
(* The target, and how it moves.                                           *)
(***************************************************************************)
LoadProgram(running, program) ==
    IF running THEN <<Command("load-program", <<"-file-exec-and-symbols", program>>),
                      Command("load-program", <<"set args", "x">>)>>
    ELSE <<Command("load-program", <<"set breakpoint pending on">>),
           Command("load-program", <<"handle SIGINT stop print nopass">>),
           Command("load-program", <<"handle SIGHUP nostop print nopass">>),
           Command("load-program", <<"-enable-pretty-printing">>)>>
SetTtyPath(name) == <<Command(name, <<"set inferior-tty", "/tty">>)>>
AttachToTarget(pid) == <<Command("attach-to-program", <<"attach", pid>>), Command("", <<"info proc">>)>>
AttachToRemoteTarget == <<Command("", <<"-target-select remote", "host:1">>)>>
DetachFromTarget == <<Command("detach-from-target", <<"-target-detach">>)>>
DisconnectFromRemoteTarget == <<Command("disconnect-from-remote-target", <<"-target-disconnect">>)>>

DoContinue == <<Command("do-continue", <<"-exec-continue">>)>>
Run == <<Command("run", <<"-exec-run">>)>>
ReRun(slot) == <<Slotted(Command("re-run", <<"-exec-run">>), slot)>>
GetTargetInfo == <<Command("get-target-info", <<"info proc">>)>>
StepIn == <<Command("step-in", <<"-exec-step">>)>>
StepOut == <<Command("step-out", <<"-exec-finish">>)>>
StepOver == <<Command("step-over", <<"-exec-next">>)>>
StepOverAsm == <<Command("step-over-asm", <<"-exec-next-instruction">>)>>
StepInAsm == <<Command("step-in-asm", <<"-exec-step-instruction">>)>>
ContinueToPosition(place) == <<Command("continue-to-position", <<"-exec-until", place>>)>>
JumpToPosition(place, slot) == <<Slotted(Command("jump-to-position", <<"-exec-jump", place>>), slot)>>

(***************************************************************************)
(* Breakpoints.  A breakpoint with a count below zero is a countpoint; one *)
(* on a function is not.                                                   *)
(***************************************************************************)
ListBreakpoints == <<Command("list-breakpoints", <<"-break-list">>)>>
Insert(place, condition, count) ==
    <<"-break-insert", "-f">> \o (IF condition = <<>> THEN <<>> ELSE <<"-c">> \o condition)
    \o (IF count < 0 THEN <<>> ELSE <<"-i", ToString(count)>>) \o <<place>>
NameFor(count) == IF count < 0 THEN "set-countpoint" ELSE "set-breakpoint"
SetBreakpointAt(place, condition, count, slot) ==
    <<Slotted(Command(NameFor(count), Insert(place, condition, count)), slot)>>
SetBreakpointOnLine(place, condition, count) == <<Command(NameFor(count), Insert(place, condition, count))>>
SetBreakpointAtAddress(address, condition, count) == <<Command(NameFor(count), Insert(address, condition, count))>>
SetBreakpointOnFunction(function, condition, count, slot) ==
    <<Slotted(Command("set-breakpoint", Insert(function, condition, count)), slot)>>

EnableBreakpoint(number, slot) ==
    <<Slotted(Command("enable-breakpoint", <<"-break-enable", number>>), slot)>> \o ListBreakpoints
DisableBreakpoint(number) == <<Command("disable-breakpoint", <<"-break-disable", number>>)>> \o ListBreakpoints
SetIgnoreCount(number, count) ==
    IF number = "" \/ count < 0 THEN <<>>
    ELSE <<Command("set-breakpoint-ignore-count", <<"-break-after", number, ToString(count)>>)>> \o ListBreakpoints
SetCondition(number, condition) ==
    IF number = "" THEN <<>>
    ELSE <<Command("set-breakpoint-condition", <<"-break-condition", number>> \o condition)>> \o ListBreakpoints
EnableCountpoint(number, yes) ==
    <<Tagged(Command(IF yes THEN "enable-countpoint" ELSE "disable-countpoint",
                     <<"-break-commands", number, IF yes THEN "continue" ELSE "">>), <<number>>, <<>>)>>
DeleteOnLine(place) == <<Command("delete-breakpoint", <<"-break-delete", place>>)>>
DeleteBreakpoint(number) == <<Command("delete-breakpoint", <<"-break-delete", number>>)>>
SetWatchpoint(expression, write, read) ==
    IF expression = "" THEN <<>>
    ELSE <<Command("set-watchpoint", <<"-break-watch">> \o (IF write /\ read THEN <<"-a">> ELSE IF read THEN <<"-r">> ELSE <<>>)
                                     \o <<expression>>)>> \o ListBreakpoints
SetCatch(event) == <<Command("catch", <<"catch", event>>)>> \o ListBreakpoints

(***************************************************************************)
(* Threads, frames and what is in them.                                    *)
(***************************************************************************)
ListThreads == <<Command("list-threads", <<"-thread-list-ids">>)>>
SelectThread(thread) == <<Command("select-thread", <<"-thread-select", thread>>)>>
Window(low, high) == IF low >= 0 /\ high >= 0 THEN <<ToString(low), ToString(high)>> ELSE <<>>
ListFrames(low, high, slot) == <<Slotted(Command("list-frames", <<"-stack-list-frames">> \o Window(low, high)), slot)>>
SelectFrame(level) == <<[Command("select-frame", <<"-stack-select-frame", ToString(level)>>) EXCEPT !.tag2 = level]>>
ListFramesArguments(low, high, slot) ==
    <<Slotted(Command("list-frames-arguments", <<"-stack-list-arguments">> \o Window(low, high)), slot)>>
ListLocalVariables(slot) == <<Slotted(Command("list-local-variables", <<"-stack-list-locals">>), slot)>>
ListGlobalVariables == <<Command("list-global-variables", <<"info variables">>)>>

Evaluate == "-data-evaluate-expression"
EvaluateExpression(e) == IF e = "" THEN <<>> ELSE <<Command("evaluate-expression", <<Evaluate, e>>)>>
CallFunction(e) == IF e = "" THEN <<>> ELSE <<Command("call-function", <<Evaluate, e>>)>>
PrintVariableValue(n) ==
    IF n = "" THEN <<>> ELSE <<Tagged(Command("print-variable-value", <<Evaluate, n>>), <<"print-variable-value">>, <<n>>)>>
GetVariableValue(v) == <<About(Command("get-variable-value", <<Evaluate, v>>), v)>>
PrintPointedVariableValue(n) ==
    IF n = "" THEN <<>>
    ELSE <<Tagged(Command("print-pointed-variable-value", <<Evaluate, "*", n>>), <<"print-pointed-variable-value">>, <<n>>)>>
PrintVariableType(n) ==
    IF n = "" THEN <<>> ELSE <<Tagged(Command("print-variable-type", <<"ptype", n>>), <<"print-variable-type">>, <<n>>)>>
GetVariableType(v) == <<About(Command("get-variable-type", <<"ptype", v>>), v)>>
DereferenceVariable(v, pointer) ==
    IF pointer THEN <<About(Command("dereference-variable", <<Evaluate, "*", v>>), v)>> ELSE <<>>
ListFiles == <<Command("list-files", <<"-file-list-exec-source-files">>)>>

(***************************************************************************)
(* Registers, memory, instructions.                                        *)
(***************************************************************************)
ListRegisterNames == <<Command("list-register-names", <<"-data-list-register-names">>)>>
ListChangedRegisters == <<Command("list-changed-registers", <<"-data-list-changed-registers">>)>>
ListAllRegisterValues == <<Command("list-register-values", <<"-data-list-register-values", "x">>)>>
ListRegisterValues(registers) == <<Command("list-register-values", <<"-data-list-register-values", "x">> \o registers)>>
SetRegisterValue(n, v) ==
    <<Tagged(Command("set-register-value", <<Evaluate, "$", n, "=", v>>), <<"set-register-value">>, <<n>>)>>
ReadMemory(address, count) == <<Command("read-memory", <<"-data-read-memory", address, count>>)>>
(* The address kept with a byte is that of the next one.                   *)
SetMemory(address, bytes) ==
    [b \in DOMAIN bytes |-> Tagged(Command("set-memory", <<Evaluate, "*", ToString(address + b - 1), "=", bytes[b]>>),
                                   <<"set-memory">>, <<ToString(address + b)>>)]
DisassembleRange(start, end, pure, slot) ==
    <<Slotted(Command("disassemble-address-range", <<"-data-disassemble", "-s", start, "-e", end, "--", pure>>), slot)>>
DisassembleLines(file, line, count, pure, slot) ==
    <<Slotted(Tagged(Command("disassemble-line-range-in-file",
                             <<"-data-disassemble", "-f", file, "-l", line>>
                             \o (IF count = 0 THEN <<>> ELSE <<"-n", ToString(count)>>) \o <<"--", pure>>),
                     <<file>>, <<line>>), slot)>>

(***************************************************************************)
(* Variable objects.                                                       *)
(***************************************************************************)
CreateVariable(n, slot, signal) ==
    IF n = "" THEN <<>>
    ELSE <<Slotted([Tagged(Command("create-variable", <<"-var-create", n>>), <<n>>, <<>>) EXCEPT !.signal = signal], slot)>>
DeleteVariable(v, slot) == <<Slotted(About(Command("delete-variable", <<"-var-delete", v>>), v), slot)>>
DeleteByName(n, slot) == <<Slotted(Command("delete-variable", <<"-var-delete", n>>), slot)>>
UnfoldVariable(v, slot, signal) ==
    <<Slotted([About(Command("unfold-variable", <<"-var-list-children", v>>), v) EXCEPT !.signal = signal], slot)>>
AssignVariable(v, expression, slot) ==
    <<Slotted(About(Command("assign-variable", <<"-var-assign", v, expression>>), v), slot)>>
EvaluateVariableExpr(v, slot) == <<Slotted(About(Command("evaluate-expression", <<"-var-evaluate-expression", v>>), v), slot)>>
ListChangedVariables(v, slot) == <<Slotted(About(Command("list-changed-variables", <<"-var-update", v>>), v), slot)>>
QueryVariablePathExpr(v, slot) ==
    <<Slotted(About(Command("query-variable-path-expr", <<"-var-info-path-expression", v>>), v), slot)>>
QueryVariableFormat(v, slot) == <<Slotted(About(Command("query-variable-format", <<"-var-show-format", v>>), v), slot)>>
SetVariableFormat(v, format) == <<Command("set-variable-format", <<"-var-set-format", v, format>>)>>
SetVariableVisualizer(v, visualizer, slot) ==
    <<Slotted(Tagged(About(Command("set-variable-visualizer", <<"-var-set-visualizer", v, visualizer>>), v),
                     <<visualizer>>, <<>>), slot)>>
=============================================================================
