---------------------------- MODULE DebugSession ----------------------------
(***************************************************************************)
(* What the debugger believes about the inferior and what it lets the user *)
(* do about it: IDebugger::State, is_attached and is_running kept by       *)
(* GDBEngine (nmv-gdb-engine.cc), and the sensitivity of the menus kept by *)
(* DBGPerspective (nmv-dbg-perspective.cc), against what GDB and the       *)
(* inferior really do.                                                     *)
(*                                                                         *)
(* The command queue is the one of GdbCommandQueue, over a GDB whose       *)
(* records all parse: at most one command is in flight (OneInFlight there, *)
(* a theorem), so that line_busy is written started # <<>> here.           *)
(***************************************************************************)
EXTENDS Integers, Sequences, FiniteSets

CONSTANTS
    MaxQueue,       \* bound: commands waiting when a client adds more
    MaxFollowUps,   \* bound: commands the views queue at a stop
    Scenarios       \* sets of Features, of which a behaviour has one

(* What may happen: the user acts while commands wait for an answer,       *)
(* continues a program that has exited, attaches to a process; the         *)
(* inferior exits with a command unanswered; GDB dies.                     *)
Features == {"haste", "reuse", "attach", "early exit", "death"}

ASSUME SessionAssumption ==
    /\ MaxQueue \in Nat /\ MaxFollowUps \in Nat
    /\ Scenarios \subseteq SUBSET Features

(* "query": any command answered by ^done that touches neither the state   *)
(* of the inferior nor is_attached; "main": set_breakpoint ("main", slot); *)
(* "resume": -exec-continue and the steps; "run": -exec-run, by run or     *)
(* re_run; "load", "attach", "detach": the commands of those names.        *)
Kinds  == {"query", "main", "resume", "run", "load", "attach", "detach"}
States == {"NOT_STARTED", "INFERIOR_LOADED", "READY", "RUNNING", "PROGRAM_EXITED"}
Menus  == {"detach", "loaded", "ready", "busy"}

(* A record: the kind of its result record, of its stopped record.         *)
Record == [result : {"none", "done", "running", "error"},
           stop : {"none", "hit", "exit"}]

VARIABLES
    e,          \* the engine and the menus
    gdb,        \* GDB: "none", "up" or "dead"
    inferior,   \* what GDB has: "none", "loaded", "stopped" or "running"
    out,        \* records printed by GDB, not handled
    sigint,     \* a SIGINT was sent to GDB and has stopped nothing yet
    may         \* the features of this behaviour, chosen once

vars == <<e, gdb, inferior, out, sigint, may>>

AtMostOne == {<<>>} \union {<<k>> : k \in Kinds}

Engine == [queued : Seq(Kinds), started : AtMostOne, wire : AtMostOne,
           connected : BOOLEAN,         \* gdb_pid and the channels are set
           state : States, attached : BOOLEAN, running : BOOLEAN,
           menus : SUBSET Menus,        \* sensitive action groups
           prog : BOOLEAN,              \* prog_path is not empty
           alive : BOOLEAN]             \* debugger_engine_alive

TypeOK ==
    /\ e \in Engine
    /\ gdb \in {"none", "up", "dead"}
    /\ inferior \in {"none", "loaded", "stopped", "running"}
    /\ out \in Seq(Record)
    /\ sigint \in BOOLEAN /\ may \in Scenarios

Init ==
    /\ e = [queued |-> <<>>, started |-> <<>>, wire |-> <<>>, connected |-> FALSE,
            state |-> "NOT_STARTED", attached |-> FALSE, running |-> FALSE,
            menus |-> {}, prog |-> FALSE, alive |-> FALSE]
    /\ gdb = "none" /\ inferior = "none" /\ out = <<>> /\ sigint = FALSE
    /\ may \in Scenarios

-----------------------------------------------------------------------------
(* The state and the menus.                                                *)

(* update_action_group_sensitivity                                         *)
Sensitive(st, menus) ==
    CASE st = "NOT_STARTED"     -> {}
      [] st = "INFERIOR_LOADED" -> {"loaded"}
      [] st = "READY"           -> {"detach", "loaded", "ready"}
      [] st = "RUNNING"         -> {"detach", "busy"}
      [] st = "PROGRAM_EXITED"  -> (menus \ {"ready", "busy"}) \union {"loaded"}

(* set_state: READY is not announced while commands wait, nor is a state   *)
(* that is the current one.                                                *)
SetState(s, st) ==
    IF (st = "READY" /\ s.queued # <<>>) \/ s.state = st THEN s
    ELSE [s EXCEPT !.state = st, !.menus = Sensitive(st, @)]

-----------------------------------------------------------------------------
(* The queue.                                                              *)

(* Wrong variant: commands are sent while one is in flight.                *)
IdleUnchecked(s) == TRUE

Idle(s) == s.started = <<>>

(* issue_command: "usually, when we send a command to the debugger, it     *)
(* becomes busy (in a running state)".                                     *)
Issue(s, c) ==
    SetState([s EXCEPT !.started = Append(@, c), !.wire = Append(@, c)], "RUNNING")

(* Every caller has a channel here.                                        *)
QueueAll(s, cs) ==
    LET all == s.queued \o cs IN
    IF Idle(s) /\ cs # <<>>
    THEN [Issue([s EXCEPT !.queued = all], Head(all)) EXCEPT !.queued = Tail(@)]
    ELSE [s EXCEPT !.queued = all]

NextCommand(s) ==
    LET freed == [s EXCEPT !.started = <<>>] IN
    IF s.queued = <<>> THEN freed
    ELSE [Issue(freed, Head(s.queued)) EXCEPT !.queued = Tail(@)]

ResetCommandQueue(s) == [s EXCEPT !.queued = <<>>, !.started = <<>>]

-----------------------------------------------------------------------------
(* The output handlers, in the order they run in.                          *)

(* on_debugger_detached_from_target_signal greys the menus out.            *)
Detached(s) ==
    [s EXCEPT !.attached = FALSE, !.menus = @ \ {"ready", "busy", "loaded"}]

(* on_program_finished_signal leaves the menus as after an exit.           *)
Finished(s) ==
    [s EXCEPT !.attached = FALSE, !.menus = Sensitive("PROGRAM_EXITED", @)]

(* OnStoppedHandler, with what the engine and the views do at a stop: the  *)
(* frames are listed, then each view asks for what it shows.               *)
OnHit(s, views) ==
    SetState([QueueAll(s, <<"query">> \o views) EXCEPT !.attached = TRUE], "READY")

(* Wrong variant: the menus are greyed out after they were set.            *)
OnExitSwapped(s) == Detached(Finished(SetState([s EXCEPT !.running = FALSE],
                                               "PROGRAM_EXITED")))

OnExit(s) == Finished(Detached(SetState([s EXCEPT !.running = FALSE],
                                        "PROGRAM_EXITED")))

(* A successful detach: OnDetachHandler drops every command, then          *)
(* OnCommandDoneHandler runs.                                              *)
OnDetached(s) ==
    [SetState(Detached(ResetCommandQueue(s)), "NOT_STARTED") EXCEPT !.attached = FALSE]

(* on_debugger_command_done_signal: the process that was attached is moved *)
(* on by an instruction, then asked about.                                 *)
AttachDone(s) == QueueAll(s, <<"resume", "query">>)

(* Wrong variant: an attach is trusted to be followed by a stop.           *)
OnDoneAttachForgotten(s, c, slot) ==
    CASE c = "load"   -> SetState([s EXCEPT !.attached = TRUE], "INFERIOR_LOADED")
      [] c = "attach" -> AttachDone(SetState(s, "READY"))
      [] c = "detach" -> OnDetached(s)
      [] OTHER        -> SetState(QueueAll(s, slot), "READY")

(* ^done; slot is what the slot of the command queues.                     *)
OnDone(s, c, slot) ==
    CASE c = "load"   -> SetState([s EXCEPT !.attached = TRUE], "INFERIOR_LOADED")
      [] c = "attach" -> AttachDone(SetState([s EXCEPT !.attached = TRUE], "READY"))
      [] c = "detach" -> OnDetached(s)
      [] OTHER        -> SetState(QueueAll(s, slot), "READY")

OnRunning(s) == [s EXCEPT !.running = TRUE]

(* OnErrorHandler: its condition on the state is always true.              *)
OnErrorSilent(s) == s    \* wrong variant: an error is only reported
OnError(s) == SetState(s, "READY")

OnResult(s, r, slot) ==
    CASE r.result = "done"    -> OnDone(s, Head(s.started), slot)
      [] r.result = "running" -> OnRunning(s)
      [] r.result = "error"   -> OnError(s)

(* on_gdb_stdout_signal, for a record that parses.                         *)
Handle(s, r, queued) ==
    CASE r.stop = "hit"  -> OnHit(s, queued)
      [] r.stop = "exit" -> OnExit(s)
      [] OTHER           -> NextCommand(OnResult(s, r, queued))

(* What the subscribers of the record queue: the views at a stop, the slot *)
(* of the breakpoint on main, once it is set there, runs the program.      *)
Views == UNION { [1..n -> {"query"}] : n \in 0..MaxFollowUps }

FollowUps(s, r) ==
    CASE r.stop = "hit" -> Views
      [] r.result = "done" /\ Head(s.started) = "main" -> {<<>>, <<"run">>}
      [] OTHER -> {<<>>}

OnOutputRecord ==
    /\ e.connected /\ out # <<>>
    /\ \E queued \in FollowUps(e, Head(out)) : e' = Handle(e, Head(out), queued)
    /\ out' = Tail(out)
    /\ UNCHANGED <<gdb, inferior, sigint, may>>

(* on_engine_died_signal greys the menus out.                              *)
EngineDied(s) == [s EXCEPT !.alive = FALSE, !.menus = @ \ {"ready", "busy", "loaded"}]

(* The end of GDB: kill_gdb frees the channels, the perspective is told;   *)
(* the engine's state and queue stay.                                      *)
OnHup ==
    /\ e.connected /\ gdb = "dead" /\ out = <<>>
    /\ e' = EngineDied([e EXCEPT !.connected = FALSE, !.wire = <<>>])
    /\ UNCHANGED <<gdb, inferior, out, sigint, may>>

-----------------------------------------------------------------------------
(* The user, through the menus of the debugging perspective.               *)

Free == \/ ~e.connected
        \/ ("haste" \in may \/ (Idle(e) /\ out = <<>>)) /\ Len(e.queued) < MaxQueue

IsAttached == e.connected /\ e.attached

Queues(cs) == e' = QueueAll(e, cs) /\ UNCHANGED <<gdb, inferior, out, may>>

Press(menu) == menu \in e.menus /\ e.connected /\ Free

(* Menu entries that ask GDB something or set something in it.             *)
Query ==
    /\ Press("loaded")
    /\ Queues(<<"query">>)
    /\ UNCHANGED sigint

Step ==
    /\ Press("ready")
    /\ Queues(<<"resume">>)
    /\ UNCHANGED sigint

(* do_continue: runs the inferior if is_running () says it does not run.   *)
Continue ==
    /\ Press("ready") /\ ("reuse" \in may \/ IsAttached)
    /\ Queues(IF e.running THEN <<"resume">> ELSE <<"run">>)
    /\ UNCHANGED sigint

(* stop_target                                                             *)
Stop ==
    /\ "busy" \in e.menus /\ e.connected
    /\ sigint' = (gdb = "up")
    /\ UNCHANGED <<e, gdb, inferior, out, may>>

(* re_run and detach_from_target first stop an inferior that runs, as far  *)
(* as is_attached and the state tell.                                      *)
InterruptNever == sigint' = sigint    \* wrong variant
Interrupt == sigint' = (sigint \/ (gdb = "up" /\ IsAttached /\ e.state = "RUNNING"))

Detach ==
    /\ Press("detach") /\ IsAttached
    /\ Queues(<<"detach">>)
    /\ Interrupt

Rerun ==
    /\ Press("loaded") /\ e.prog /\ IsAttached
    /\ Queues(<<"run">>)
    /\ Interrupt

(* load_program (..., a_force = true): a fresh GDB on the program, a fresh *)
(* queue, the state and the menus as they were; then a breakpoint on main, *)
(* or the breakpoints of the previous run and the run.                     *)
LoadAnd(cs) ==
    /\ e' = [QueueAll([ResetCommandQueue(e) EXCEPT !.connected = TRUE, !.wire = <<>>],
                      <<"load">> \o cs)
               EXCEPT !.attached = TRUE, !.prog = TRUE, !.alive = TRUE]
    /\ gdb' = "up" /\ inferior' = "loaded" /\ out' = <<>> /\ sigint' = FALSE
    /\ UNCHANGED may

(* The "Load Executable" entry, always sensitive.                          *)
Execute == Free /\ \E cs \in {<<>>, <<"main">>, <<"query", "run">>} : LoadAnd(cs)

(* The "Run" entry when there is no engine to ask a re-run to.             *)
Restart ==
    /\ "loaded" \in e.menus /\ e.prog /\ ~IsAttached /\ Free
    /\ LoadAnd(<<"query", "run">>)

(* attach_to_program; GdbCommandQueue has the case of a GDB that died with *)
(* a command in flight.                                                    *)
Attach ==
    /\ "attach" \in may /\ Free /\ (e.connected \/ (Idle(e) /\ e.queued = <<>>))
    /\ e' = QueueAll([e EXCEPT !.connected = TRUE],
                     IF e.connected THEN <<"attach", "query">>
                                    ELSE <<"query", "attach", "query">>)
    /\ IF e.connected THEN UNCHANGED <<gdb, inferior, out>>
       ELSE gdb' = "up" /\ inferior' = "none" /\ out' = <<>>
    /\ sigint' = (sigint /\ e.connected)
    /\ UNCHANGED may

-----------------------------------------------------------------------------
(* GDB and the inferior, external.                                         *)

Result(k) == [result |-> k, stop |-> "none"]
Stopped(k) == [result |-> "none", stop |-> k]

Accepts(c) ==
    CASE c = "resume" -> inferior = "stopped"
      [] c = "run"    -> inferior \in {"loaded", "stopped"}
      [] c = "detach" -> inferior = "stopped"
      [] OTHER        -> TRUE

(* GDB reads no command while the inferior runs.  It may print the stop of *)
(* a process it attaches to.                                               *)
GdbAnswers ==
    /\ gdb = "up" /\ inferior # "running" /\ e.wire # <<>>
    /\ e' = [e EXCEPT !.wire = Tail(@)]
    /\ LET c == Head(e.wire) IN
        \/ /\ c # "load"    \* the program was found by launch_gdb
           /\ out' = Append(out, Result("error"))
           /\ UNCHANGED inferior
        \/ /\ Accepts(c) /\ c \in {"resume", "run"}
           /\ out' = Append(out, Result("running"))
           /\ inferior' = "running"
        \/ /\ Accepts(c) /\ c = "attach"
           /\ \E told \in {<<>>, <<Stopped("hit")>>} :
                out' = out \o told \o <<Result("done")>>
           /\ inferior' = "stopped"
        \/ /\ Accepts(c) /\ c \notin {"resume", "run", "attach"}
           /\ out' = Append(out, Result("done"))
           /\ inferior' = IF c = "detach" THEN "none" ELSE inferior
    /\ UNCHANGED <<gdb, sigint, may>>

InferiorStops ==
    /\ gdb = "up" /\ inferior = "running"
    /\ out' = Append(out, Stopped("hit")) /\ inferior' = "stopped"
    /\ UNCHANGED <<e, gdb, sigint, may>>

InferiorExits ==
    /\ gdb = "up" /\ inferior = "running" /\ ("early exit" \in may \/ Idle(e))
    /\ out' = Append(out, Stopped("exit")) /\ inferior' = "loaded"
    /\ UNCHANGED <<e, gdb, sigint, may>>

(* GDB keeps a SIGINT for the inferior until it runs.                      *)
Interrupted ==
    /\ gdb = "up" /\ inferior = "running" /\ sigint
    /\ out' = Append(out, Stopped("hit")) /\ inferior' = "stopped"
    /\ sigint' = FALSE
    /\ UNCHANGED <<e, gdb, may>>

GdbDies ==
    /\ "death" \in may /\ gdb = "up"
    /\ gdb' = "dead" /\ inferior' = "none" /\ sigint' = FALSE
    /\ UNCHANGED <<e, out, may>>

-----------------------------------------------------------------------------
User == \/ Query \/ Step \/ Continue \/ Stop \/ Detach \/ Rerun
        \/ Execute \/ Restart \/ Attach

Next == \/ User \/ OnOutputRecord \/ OnHup
        \/ GdbAnswers \/ InferiorStops \/ InferiorExits \/ Interrupted \/ GdbDies

Spec == Init /\ [][Next]_vars

(* The main loop serves GDB's output, GDB its input, and a SIGINT stops an *)
(* inferior that runs; nothing else makes it stop.                         *)
FairSpec == Spec /\ WF_vars(OnOutputRecord) /\ WF_vars(OnHup)
                 /\ WF_vars(GdbAnswers) /\ WF_vars(Interrupted)

-----------------------------------------------------------------------------
(* Properties.                                                             *)

(* Nothing is on its way between the user, the engine and GDB.             *)
Settled == /\ e.connected /\ gdb = "up"
           /\ Idle(e) /\ e.wire = <<>> /\ out = <<>>

(* The user waits for the menus and for an exit to be handled.             *)
Waits == "haste" \notin may

(* Once everything is handled the state is RUNNING when the inferior runs, *)
(* and only then, although RUNNING also stands for a command in flight and *)
(* no handler of ^running sets it.                                         *)
StateFollowsInferior == Settled => (e.state = "RUNNING" <=> inferior = "running")

(* And the menus let the user do what the inferior can do: stop it when it *)
(* runs, step it when it is stopped, never both.                           *)
MenusFollowInferior ==
    /\ Settled /\ inferior = "running" => {"busy", "detach"} \subseteq e.menus
    /\ Settled /\ inferior = "stopped" => {"ready", "detach"} \subseteq e.menus
    /\ Settled /\ e.state = "PROGRAM_EXITED" => "loaded" \in e.menus
    /\ {"ready", "busy"} \subseteq e.menus => FALSE

(* The engine knows it is attached whenever GDB has a live process, and    *)
(* not after its exit: detach and re_run trust this to stop the inferior,  *)
(* the Run menu to tell a re-run from a load.                              *)
AttachedToProcess ==
    /\ Waits /\ Settled /\ inferior \in {"stopped", "running"} => IsAttached
    /\ Waits /\ Settled /\ e.state = "PROGRAM_EXITED" => ~IsAttached

(* A detach is answered, although GDB does not read it while the inferior  *)
(* runs and nothing but the SIGINT makes the inferior stop.                *)
InPipe(kind) ==
    LET pipe == e.started \o e.queued IN
    e.connected /\ \E i \in 1..Len(pipe) : pipe[i] = kind

DetachEnds == (Waits /\ InPipe("detach")) ~> ~InPipe("detach")

(* A detach that waits for the inferior to stop has a SIGINT on its way:   *)
(* "we might have first sent a SIGINT to the target (making it to stop)    *)
(* and then, in a second step, sent the detach command" (OnDetachHandler). *)
DetachInterrupts ==
    Waits /\ gdb = "up" /\ e.wire = <<"detach">> /\ inferior = "running" => sigint

(* The user gets the menus back after each stop, whatever the views ask.   *)
MenusComeBack ==
    (Waits /\ e.connected /\ inferior = "stopped" /\ "ready" \notin e.menus)
        ~> (~e.connected \/ inferior # "stopped" \/ "ready" \in e.menus)

-----------------------------------------------------------------------------
(* What the comments of the code say and the code does not do; TLC refutes *)
(* each of these with the constants of session.cfg, RunningIsKnown when    *)
(* "early exit" is added to its first scenario.                            *)

(* "RUNNING: The inferior is currently busy running" (IDebugger::State).   *)
RunningIsKnown == Settled /\ inferior = "running" => e.state = "RUNNING"

(* "READY: The inferior has started its execution, but is currently        *)
(* stopped" (IDebugger::State).                                            *)
ReadyMeansStarted == Settled /\ e.state = "READY" => inferior = "stopped"

(* "Start the inferior if it has not started yet, or make it continue its  *)
(* execution" (DBGPerspective::do_continue).                               *)
ContinueContinues == [][Continue /\ inferior = "stopped" => e.running]_vars

(* "Return true iff the inferior is running: it has received the run       *)
(* command once, and hasn't yet exited" (GDBEngine::is_running).           *)
RunningIsAlive == Settled /\ e.running => inferior \in {"stopped", "running"}

(* "Disconnect the debugger from the running target" (the Detach entry).   *)
DetachOffered == Settled /\ inferior = "running" => IsAttached

(* "If the underlying debugging engine died, restart it, and re run the    *)
(* inferior" (DBGPerspective::run, the Run entry).                         *)
RunOffered == e.prog /\ ~e.connected => "loaded" \in e.menus
=============================================================================
