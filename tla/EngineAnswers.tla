---------------------------- MODULE EngineAnswers ----------------------------
(***************************************************************************)
(* From what the user asked for to what the views are told: a command of   *)
(* the engine, what GDB says while it is in flight, the records the parser *)
(* makes of it and the signals the handlers send.                          *)
(***************************************************************************)
EXTENDS StdoutLoop, OutputHandlers

CONSTANT Exchanges      \* what is asked, what GDB says, the breakpoints known

VARIABLES
    command,    \* the command in flight
    engine      \* what the engine keeps, and the signals it sent
vars == <<loopVars, command, engine>>

Init == \E x \in Exchanges : LoopInit(x.said) /\ command = x.asked /\ engine = NewEngine(x.known)

(* The command is told with a record that answers it.                      *)
HandleOutput ==
    LET given == IF retired = 0 /\ Last(told').result # NoResult THEN command ELSE NoCommand
    IN  /\ OnGdbStdout
        /\ engine' = IF told' = told THEN engine ELSE Submit(engine, given, Last(told'))
        /\ UNCHANGED command

Spec == Init /\ [][HandleOutput]_vars

(***************************************************************************)
(* What each of them is to be told.                                        *)
(***************************************************************************)
Heard(signal) == Map(LAMBDA s : s.val, SelectSeq(engine.signals, LAMBDA s : s.to = signal))
Once(b, val) == IF b THEN <<val>> ELSE <<>>
Meant == Kept(sent)
Holds(kind) == Done(Meant) /\ Has(Meant, kind)
Asked(names) == command.name \in names

(* Answers that are told as they are.                                      *)
Replies ==
    [frames_listed |-> "stack", frames_arguments_listed |-> "args", local_variables_listed |-> "locals",
     files_listed |-> "files", threads_listed |-> "threads", register_names_listed |-> "registers",
     changed_registers_listed |-> "changed", register_values_listed |-> "values", read_memory |-> "memory",
     current_frame |-> "frame", changed_variables |-> "changes"]
(* What the value of an expression is told as, by the command.             *)
ValueSignals ==
    [c \in ValueCommands \ {"set-memory"} |->
        CASE c = "print-variable-value" -> "variable_value" [] c = "get-variable-value" -> "variable_value_set"
          [] c = "print-pointed-variable-value" -> "pointed_variable_value"
          [] c = "dereference-variable" -> "variable_dereferenced" [] c = "set-register-value" -> "register_value_changed"
          [] c = "assign-variable" -> "assigned_variable" [] c = "evaluate-expression" -> "variable_expression_evaluated"]
Named(b) == [number |-> b.number, enabled |-> b.enabled, condition |-> b.condition, hits |-> b.hits]
AllNamed(heard) == Map(LAMBDA bs : {Named(b) : b \in bs}, heard)
Inserted == {Named(b) : b \in Range(BreakpointsSet(Meant))}

(* What is said on the console, and what is said behind a word.            *)
Words == FlattenSeq(Texts(Meant, "console"))
Behind(w) == SubSeq(Words, At(Words, w) + (IF w = "process" THEN 2 ELSE 1), Len(Words))
TypeMeant == [of |-> IF command.tag1 = <<>> THEN command.variable ELSE command.tag1, type |-> SubSeq(Words, 5, Len(Words) - 1)]

(* Left out, see the README: an expression of the user has no variable to  *)
(* put its value in; a byte set is told as a register too; an empty list   *)
(* of breakpoints, several breakpoints for one countpoint, and lines that  *)
(* end without instructions are not told.                                  *)
Unanswerable ==
    \/ Asked({"evaluate-expression"}) /\ command.variable = <<>>
    \/ Asked({"set-memory"})
    \/ Holds("table") /\ Got(Meant, "table") = <<>>
    \/ Asked({"set-countpoint"}) /\ Cardinality(Inserted) > 1
    \/ Holds("asm") /\ InstrsOf(Last(Got(Meant, "asm"))) = <<>>

AnswersTold ==
    /\ \A s \in DOMAIN Replies : Heard(s) = Once(Holds(Replies[s]), Got(Meant, Replies[s]))
    /\ \A c \in DOMAIN ValueSignals :
          Map(LAMBDA v : v.value, Heard(ValueSignals[c])) = Once(Asked({c}) /\ Holds("value"), Got(Meant, "value").value)
    /\ AllNamed(Heard("breakpoints_set")) =
          Map(LAMBDA r : {Named(r.async.breakpoint)}, Asyncs(Meant, "modified"))
          \o Once(Asked({"set-breakpoint", "set-countpoint"}) /\ Inserted # {}, Inserted)
    /\ Asked({"list-breakpoints"}) => AllNamed(Heard("breakpoints_list")) = Once(Holds("table"), Inserted)
    /\ Heard("variable_created") = Once(Asked({"create-variable"}) /\ Holds("variable") /\ command.signal,
                                       [named |-> command.tag0, object |-> Got(Meant, "variable")])
    /\ Heard("variable_type") \o Heard("variable_type_set") =
          Once(Asked({"print-variable-type", "get-variable-type"}) /\ Done(Meant), TypeMeant)
    /\ Len(Heard("got_target_info")) =
          (IF BeginsWith(command.text, "info proc") /\ {"process", "exe"} \subseteq Range(Words) THEN 1 ELSE 0)
    /\ \A p \in Range(Heard("got_target_info")) : p.pid = Atoi(Behind("process")) /\ p.path = <<Head(Behind("'"))>>
    /\ Asked({"list-global-variables"}) => Len(Heard("global_variables_listed")) = 1
    /\ \A vs \in Range(Heard("global_variables_listed")) : \A v \in vs : Head(Behind(v)) = ";"
    /\ Heard("instructions_disassembled") # <<>> <=> Holds("asm")
    /\ Len(Heard("variable_deleted")) = (IF Holds("deleted") THEN 1 ELSE 0)
    /\ Heard("error") = Once(Meant.result.kind = "error", Got(Meant, "error"))
    /\ Heard("command_done") = Once(Done(Meant), command.name)

(* Who asked for the answer is called once it is there.                    *)
SlotsCalled ==
    Len(Heard("slot")) =
        IF ~command.slot \/ Asked({"enable-breakpoint"}) THEN 0
        ELSE IF Asked({"jump-to-position", "re-run"}) THEN (IF Meant.result.kind = "running" THEN 1 ELSE 0)
        ELSE IF Done(Meant) /\ ~Asked({"set-countpoint"}) THEN 1 ELSE 0

NotesTold ==
    /\ \A c \in {"console", "target", "log"} :
          LET all == FlattenSeq(Texts(Meant, c))
          IN  Heard(CASE c = "console" -> "console_message" [] c = "target" -> "target_output_message"
                      [] c = "log" -> "log_message") = Once(all # <<>>, all)
    /\ Map(LAMBDA s : s.reason, Heard("stopped")) = Map(LAMBDA a : a.reason, LastStop(Meant))
    /\ Heard("program_finished") # <<>> <=> Heard("stopped") # <<>> /\ Heard("stopped")[1].reason \in Exits
    /\ Heard("running") # <<>> <=> Meant.result.kind = "running"
    /\ Len(Heard("thread_selected")) = (IF Holds("thread") \/ Asyncs(Meant, "selected") # <<>> THEN 1 ELSE 0)

=============================================================================
