--------------------------- MODULE OutputHandlers ---------------------------
(***************************************************************************)
(* The handlers GDBEngine passes each record to, with the command it       *)
(* answers: each one that wants it tells the observers of a signal, and    *)
(* calls back the one who asked.  What a handler throws stops no other.    *)
(* The end of an exited program, the queue and the display of variables    *)
(* are in DebugSession, GdbCommandQueue and VariableObjects.               *)
(***************************************************************************)
EXTENDS MIRecords, EngineCommands

(* What the engine keeps, and the signals it sent.                         *)
NewEngine(cache) ==
    [signals |-> <<>>, state |-> "RUNNING", queued |-> FALSE, attached |-> FALSE, level |-> 0,
     address |-> <<>>, cache |-> cache]

Tell(e, signal, val) == [e EXCEPT !.signals = Append(@, [to |-> signal, val |-> val])]
CallSlot(e, c, val) == IF c.slot THEN Tell(e, "slot", val) ELSE e
SetState(e, state) == IF state = "READY" /\ e.queued THEN e ELSE [e EXCEPT !.state = state]
Ready(e) == SetState(e, "READY")

Done(o) == o.result.kind = "done"
Has(o, kind) == \E a \in Range(o.result.got) : a.kind = kind
Got(o, kind) == (CHOOSE a \in Range(o.result.got) : a.kind = kind).val
Asyncs(o, is) == SelectSeq(o.records, LAMBDA r : r.async.is = is)
Texts(o, channel) == Map(LAMBDA r : r.stream.text, SelectSeq(o.records, LAMBDA r : r.stream.on = channel))
BeginsWith(s, w) == s # <<>> /\ Head(s) = w

(***************************************************************************)
(* Streams, and what becomes of the target.                                *)
(***************************************************************************)
OnStreamRecord(e, o) ==
    LET TellAll(f, channel, signal) ==
            LET all == FlattenSeq(Texts(o, channel)) IN IF all = <<>> THEN f ELSE Tell(f, signal, all)
    IN  TellAll(TellAll(TellAll(e, "console", "console_message"), "target", "target_output_message"), "log", "log_message")

OnDetach(e, c, o) ==
    IF Done(o) /\ c.name = "detach-from-target"
    THEN SetState(Tell([e EXCEPT !.queued = FALSE], "detached_from_target", <<>>), "NOT_STARTED")
    ELSE e

(* The last stop counts, when the target does not run again behind it.     *)
LastStop(o) ==
    LET moves == SelectSeq(o.records, LAMBDA r : r.async.is \in {"running", "stopped"})
    IN  IF moves # <<>> /\ Last(moves).async.is = "stopped" THEN <<Last(moves).async>> ELSE <<>>
Exits == {"exited", "exited-normally", "exited-signalled"}
OnStopped(e, o) ==
    LET stop == LastStop(o)[1]
        level == IF stop.frame = <<>> THEN e.level ELSE stop.frame[1].level
        number == IF stop.reason \in {"breakpoint-hit", "watchpoint-scope"} THEN stop.number ELSE 0
        told == Tell([e EXCEPT !.level = level], "stopped", [stop EXCEPT !.number = number])
    IN  IF LastStop(o) = <<>> THEN e
        ELSE IF stop.reason \in Exits
        THEN Tell(Tell(SetState(told, "PROGRAM_EXITED"), "detached_from_target", <<>>), "program_finished", <<>>)
        ELSE Ready(told)

OnSignalReceived(e, o) ==
    LET received == SelectSeq(Asyncs(o, "stopped"), LAMBDA r : r.async.reason = "signal-received")
    IN  IF received = <<>> THEN e ELSE Ready(Tell(e, "signal_received", Head(received).async.signal))

OnRunning(e, c, o) ==
    LET asked == IF c.name \in {"jump-to-position", "re-run"} THEN CallSlot(e, c, <<>>) ELSE e
        again == IF c.name = "re-run" THEN Tell(asked, "inferior_re_run", <<>>) ELSE asked
    IN  IF o.result.kind = "running" THEN Tell(again, "running", <<>>) ELSE e
OnConnected(e, o) == IF o.result.kind = "connected" THEN Tell(Ready(e), "connected_to_server", <<>>) ELSE e
OnError(e, o) == IF o.result.kind = "error" THEN Ready(Tell(e, "error", Got(o, "error"))) ELSE e

(***************************************************************************)
(* Breakpoints.                                                            *)
(***************************************************************************)
(* A breakpoint known already stays a countpoint, with its first count.    *)
AppendToCache(cache, b) ==
    LET known == b.number \in DOMAIN cache
        kept == IF ~known THEN b
                ELSE [b EXCEPT !.initial = cache[b.number].initial,
                               !.type = IF cache[b.number].type = "countpoint" THEN "countpoint" ELSE @]
    IN  [n \in DOMAIN cache \union {b.number} |-> IF n = b.number THEN kept ELSE cache[n]]
Forget(cache, number) == [n \in DOMAIN cache \ {number} |-> cache[n]]

NotifyDeleted(e, number) ==
    IF number \in DOMAIN e.cache
    THEN [Tell(e, "breakpoint_deleted", e.cache[number]) EXCEPT !.cache = Forget(@, number)]
    ELSE e
Modify(e, b) ==
    LET appended == AppendToCache(NotifyDeleted(e, b.number).cache, b)
    IN  [Tell(NotifyDeleted(e, b.number), "breakpoints_set", {appended[b.number]}) EXCEPT !.cache = appended]

BreakpointsSet(o) ==
    FlattenSeq(Map(LAMBDA a : CASE a.kind = "breakpoint" -> <<a.val>> [] a.kind = "table" -> a.val [] OTHER -> <<>>,
                   o.result.got))
(* The number is what is behind the name of the command.                   *)
Deleted(c) == IF Len(c.text) > 1 /\ c.text[2] \in DOMAIN Digits THEN Digits[c.text[2]] ELSE 0

WithModified(e, o) == FoldLeft(LAMBDA f, r : Modify(f, r.async.breakpoint), e, Asyncs(o, "modified"))
WithCached(e, set) == [e EXCEPT !.cache = FoldLeft(AppendToCache, @, set)]
BreakpointsTold(cached, c, o, set) ==
    LET shown == {cached.cache[b.number] : b \in Range(set)}
    IN  IF set # <<>> /\ c.name = "set-countpoint" /\ Cardinality(shown) # 1 THEN cached
        ELSE IF set # <<>> /\ c.name \in {"set-breakpoint", "set-countpoint"}
        THEN Ready(Tell(IF c.name = "set-breakpoint" THEN CallSlot(cached, c, shown) ELSE [cached EXCEPT !.queued = TRUE],
                        "breakpoints_set", shown))
        ELSE IF Done(o) /\ BeginsWith(c.text, "-break-delete") THEN Ready(NotifyDeleted(cached, Deleted(c)))
        ELSE IF set # <<>> THEN Ready(Tell(cached, "breakpoints_list", Range(cached.cache)))
        ELSE cached
OnBreakpoint(e, c, o) ==
    BreakpointsTold(WithCached(WithModified(e, o), BreakpointsSet(o)), c, o, BreakpointsSet(o))

(***************************************************************************)
(* A command that is done.                                                 *)
(***************************************************************************)
StateAtDone(c) ==
    CASE c.name = "attach-to-program" -> "READY"
      [] c.name = "load-program" -> "INFERIOR_LOADED"
      [] c.name = "detach-from-target" -> "NOT_STARTED"
      [] OTHER -> "READY"
FlagAsCountpoint(e, number, yes) ==
    IF number \notin DOMAIN e.cache THEN e
    ELSE [e EXCEPT !.cache[number].type = IF yes /\ @ = "breakpoint" THEN "countpoint" ELSE "breakpoint"]
OnCommandDone(e, c, o) ==
    LET attached == [e EXCEPT !.attached = CASE c.name \in {"attach-to-program", "load-program"} -> TRUE
                                             [] c.name = "detach-from-target" -> FALSE
                                             [] OTHER -> @,
                              !.level = IF c.name = "select-frame" THEN c.tag2 ELSE @]
        ready == SetState(attached, StateAtDone(c))
        flagged == FlagAsCountpoint(ready, Atoi(c.tag0), c.name = "enable-countpoint")
        answered ==
            CASE c.name \in {"enable-countpoint", "disable-countpoint"} ->
                    Tell(flagged, "breakpoints_list", Range(flagged.cache))
              [] c.name = "query-variable-path-expr" /\ Has(o, "path") -> CallSlot(ready, c, Got(o, "path"))
              [] c.name = "-break-enable" -> CallSlot(ready, c, Range(ready.cache))
              [] c.name = "set-variable-visualizer" -> CallSlot(ready, c, c.tag0)
              [] OTHER -> ready
    IN  IF Done(o) THEN Tell(answered, "command_done", c.name) ELSE e

(***************************************************************************)
(* Answers that say themselves what they are.                              *)
(***************************************************************************)
Listed(e, c, o, kind, signal) ==
    IF Done(o) /\ Has(o, kind) THEN Ready(Tell(CallSlot(e, c, Got(o, kind)), signal, Got(o, kind))) ELSE e
Unasked(e, o, kind, signal) == Listed(e, NoCommand, o, kind, signal)

OnFramesListed(e, c, o) ==
    LET top == IF Done(o) /\ Has(o, "stack") /\ Got(o, "stack")[1].level = 0 THEN Got(o, "stack")[1].address ELSE e.address
    IN  Listed([e EXCEPT !.address = top], c, o, "stack", "frames_listed")
OnFramesParamsListed(e, c, o) == Listed(e, c, o, "args", "frames_arguments_listed")
OnLocalVariablesListed(e, c, o) == Listed(e, c, o, "locals", "local_variables_listed")
OnFileList(e, o) == Unasked(e, o, "files", "files_listed")
OnThreadList(e, o) == IF Has(o, "threads") THEN Tell(e, "threads_listed", Got(o, "threads")) ELSE e
OnThreadSelected(e, o) ==
    LET selected == Asyncs(o, "selected")
    IN  IF Has(o, "thread") THEN Tell(e, "thread_selected", Got(o, "thread").thread)
        ELSE IF selected = <<>> THEN e
        ELSE Tell(e, "thread_selected", Head(selected).async.thread)
OnCurrentFrame(e, o) == IF Has(o, "frame") THEN Tell(e, "current_frame", Got(o, "frame")) ELSE e
OnRegisterNamesListed(e, o) == Unasked(e, o, "registers", "register_names_listed")
OnChangedRegistersListed(e, o) == Unasked(e, o, "changed", "changed_registers_listed")
OnRegisterValuesListed(e, o) == Unasked(e, o, "values", "register_values_listed")
OnReadMemory(e, o) == Unasked(e, o, "memory", "read_memory")
OnSetMemory(e, c, o) == IF Done(o) /\ c.name = "set-memory" THEN Ready(Tell(e, "set_memory", c.tag1)) ELSE e

(* Instructions of source lines: the first and the last line tell the      *)
(* range, and a last line without instructions has none to tell.           *)
InstrsOf(a) == IF "line" \in DOMAIN a THEN a.instrs ELSE <<a>>
OnDisassemble(e, c, o) ==
    LET all == Got(o, "asm")
        told == [file |-> IF c.name = "disassemble-line-range-in-file" THEN c.tag0 ELSE <<>>, asm |-> all]
    IN  IF ~(c.name \in {"disassemble-line-range-in-file", "disassemble-address-range"} /\ Has(o, "asm")) THEN e
        ELSE IF InstrsOf(Head(all)) # <<>> /\ InstrsOf(Last(all)) = <<>> THEN e
        ELSE Ready(Tell(CallSlot(e, c, told), "instructions_disassembled", told))

(***************************************************************************)
(* Values and variable objects.                                            *)
(***************************************************************************)
ValueCommands ==
    {"print-variable-value", "get-variable-value", "print-pointed-variable-value", "dereference-variable",
     "set-register-value", "set-memory", "assign-variable", "evaluate-expression"}
OnResultRecord(e, c, o) ==
    LET name == IF c.tag1 # <<>> THEN c.tag1 ELSE c.variable
        value == [Got(o, "value") EXCEPT !.name = name]
        text == [Got(o, "value") EXCEPT !.name = name, !.members = <<>>]
        told ==
            CASE c.name = "print-variable-value" -> Tell(e, "variable_value", value)
              [] c.name = "get-variable-value" -> Tell(e, "variable_value_set", value)
              [] c.name = "assign-variable" -> Tell(CallSlot(e, c, text), "assigned_variable", text)
              [] c.name = "evaluate-expression" -> Tell(CallSlot(e, c, text), "variable_expression_evaluated", text)
              [] c.name = "print-pointed-variable-value" ->
                    Tell(e, "pointed_variable_value", [value EXCEPT !.name = <<"*">> \o name])
              [] c.name = "dereference-variable" -> Tell(e, "variable_dereferenced", value)
              [] OTHER -> Tell(e, "register_value_changed", text)
    IN  IF ~(c.name \in ValueCommands /\ Done(o) /\ Has(o, "value")) \/ name = <<>> THEN e ELSE Ready(told)

OnCreateVariable(e, c, o) ==
    LET made == [named |-> c.tag0, object |-> Got(o, "variable")]
        slotted == CallSlot(e, c, made)
    IN  IF ~(Done(o) /\ c.name = "create-variable" /\ Has(o, "variable")) THEN e
        ELSE Ready(IF c.signal THEN Tell(slotted, "variable_created", made) ELSE slotted)
OnDeleteVariable(e, c, o) ==
    IF Done(o) /\ c.name = "delete-variable" /\ Has(o, "deleted")
    THEN Tell(CallSlot(e, c, c.variable), "variable_deleted", c.variable)
    ELSE e
OnUnfoldVariable(e, c, o) ==
    LET unfolded == [of |-> c.variable, members |-> Got(o, "children")]
        slotted == CallSlot(e, c, unfolded)
    IN  IF ~(Done(o) /\ c.name = "unfold-variable" /\ Has(o, "children")) THEN e
        ELSE IF c.signal THEN Tell(slotted, "variable_unfolded", unfolded) ELSE slotted
OnListChangedVariable(e, c, o) ==
    IF Done(o) /\ c.name = "list-changed-variables" /\ Has(o, "changes")
    THEN Tell(CallSlot(e, c, Got(o, "changes")), "changed_variables", Got(o, "changes"))
    ELSE e
OnVariableFormat(e, c, o) ==
    IF Done(o) /\ c.name = "query-variable-format" /\ Has(o, "format")
    THEN CallSlot(e, c, Got(o, "format").format)
    ELSE e

(***************************************************************************)
(* Answers in the words of the console.                                    *)
(***************************************************************************)
At(s, w) == SelectInSeq(s, LAMBDA u : u = w)
(* The process and its program, from the last lines that name them.        *)
LinesOfProcess(o) == SelectSeq(Texts(o, "console"), LAMBDA s : At(s, "process") # 0)
LinesOfExe(o) == SelectSeq(Texts(o, "console"), LAMBDA s : At(s, "process") = 0 /\ At(s, "exe") # 0)
ProcInfo(process, exe) ==
    LET pid == SubSeq(Last(process), At(Last(process), "process") + 2, Len(Last(process)))
        path == SubSeq(Last(exe), At(Last(exe), "'") + 1, Len(Last(exe)))
    IN  IF process = <<>> \/ exe = <<>> THEN <<>>
        ELSE IF Atoi(pid) = 0 \/ Len(pid) < 2 \/ At(path, "'") = 0 THEN <<>>
        ELSE <<[pid |-> Atoi(pid), path |-> SubSeq(path, 1, At(path, "'") - 1)]>>
OnInfoProc(e, c, o) ==
    LET Told(info) == IF info = <<>> THEN e ELSE Ready(Tell(e, "got_target_info", info[1]))
    IN  IF BeginsWith(c.text, "info proc") /\ o.records # <<>>
        THEN Told(ProcInfo(LinesOfProcess(o), LinesOfExe(o))) ELSE e

(* The variables of a file are kept when the next file begins.             *)
IsFile(s) == BeginsWith(s, "File")
IsDeclaration(s) == Len(s) > 2 /\ SubSeq(s, Len(s) - 1, Len(s)) = <<";", "\n">>
DeclaredName(s) == s[Len(s) - 2]
GlobalVariables(o) ==
    FoldLeft(LAMBDA g, s :
                IF IsFile(s) THEN [found |-> TRUE, all |-> g.all \union g.here, here |-> {}]
                ELSE IF g.found /\ IsDeclaration(s) THEN [g EXCEPT !.here = @ \union {DeclaredName(s)}]
                ELSE g,
             [found |-> FALSE, all |-> {}, here |-> {}], Texts(o, "console"))
OnGlobalVariablesListed(e, c, o) ==
    IF c.name = "list-global-variables" /\ GlobalVariables(o).found
    THEN Ready(Tell(e, "global_variables_listed", GlobalVariables(o).all))
    ELSE e

(* The record behind the one that repeats the command begins the type.     *)
Printed(r) == IF r.stream.on = "console" THEN r.stream.text ELSE <<>>
TypeIn(o) == FlattenSeq(Map(Printed, SubSeq(o.records, 2, Len(o.records))))
OnVariableType(e, c, o) ==
    LET repeated == \E r \in Range(o.records) : r.stream.on \in {"console", "log"} /\ BeginsWith(r.stream.text, "ptype")
        all == SubSeq(TypeIn(o), 5, Len(TypeIn(o)))
        type == IF BeginsWith(Reverse(all), "\n") THEN Front(all) ELSE all
        of == IF c.name = "print-variable-type" THEN c.tag1 ELSE c.variable
    IN  IF ~(c.name \in {"print-variable-type", "get-variable-type"} /\ repeated) THEN e
        ELSE IF Len(o.records) < 2 \/ ~IsPrefix(<<"type", " ", "=", " ">>, Printed(o.records[2])) THEN e
        ELSE IF type = <<>> THEN Ready(e)
        ELSE Ready(Tell(e, IF c.name = "print-variable-type" THEN "variable_type" ELSE "variable_type_set",
                        [of |-> of, type |-> type]))

(***************************************************************************)
(* Every handler, in the order of init_output_handlers.                    *)
(***************************************************************************)
OnLifeOfProgram(e, c, o) ==
    OnConnected(OnRunning(OnCommandDone(OnBreakpoint(
        OnStopped(OnDetach(OnStreamRecord(e, o), c, o), o), c, o), c, o), c, o), o)
OnFramesAndValues(e, c, o) ==
    OnSignalReceived(OnVariableType(OnResultRecord(OnGlobalVariablesListed(OnLocalVariablesListed(
        OnInfoProc(OnFramesParamsListed(OnFramesListed(e, c, o), c, o), c, o), c, o), c, o), c, o), c, o), o)
OnThreadsAndMemory(e, c, o) ==
    OnSetMemory(OnReadMemory(OnRegisterValuesListed(OnChangedRegistersListed(OnRegisterNamesListed(OnCurrentFrame(
        OnFileList(OnThreadSelected(OnThreadList(OnDisassemble(OnError(e, o), c, o), o), o), o), o), o), o), o), o), c, o)
OnVariableObjects(e, c, o) ==
    OnVariableFormat(OnListChangedVariable(OnUnfoldVariable(OnDeleteVariable(
        OnCreateVariable(e, c, o), c, o), c, o), c, o), c, o)
Submit(e, c, o) ==
    OnVariableObjects(OnThreadsAndMemory(OnFramesAndValues(OnLifeOfProgram(e, c, o), c, o), c, o), c, o)
=============================================================================
