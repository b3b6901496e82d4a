-------------------------- MODULE GdbCommandQueue --------------------------
(***************************************************************************)
(* The command queue of GDBEngine::Priv (nmv-gdb-engine.cc): the client    *)
(* queues commands, at most one of them is written to GDB at a time, and   *)
(* every output record GDB prints is handed to the output handlers, with   *)
(* the command it answers when it carries a result.                        *)
(*                                                                         *)
(* The engine runs in one thread, the main loop's: a handler, with the     *)
(* slots it calls and the commands they queue, is one step.  GDB is the    *)
(* other process.  It reads the commands from the pseudo terminal and      *)
(* prints records on its standard output, and it does not read while the   *)
(* inferior runs.                                                          *)
(***************************************************************************)
EXTENDS Integers, Sequences, FiniteSets

CONSTANTS
    Kinds,          \* the kinds of commands clients queue in this instance
    MaxCommands,    \* bound: commands queued in a behaviour
    MaxBurst,       \* bound: commands one handler run queues
    MaxBadResults,  \* bound: result records that do not parse
    MaxBadAsync,    \* bound: out-of-band records that do not parse
    MaxCrashes,     \* bound: deaths of the GDB process
    MayTear,        \* may GDB die in the middle of a record it prints?
    Forces,         \* values of load_program's a_force the clients use
    MayAttach,      \* may a client attach to a process once GDB has died?
    MayExit         \* may the engine be asked to exit?

ASSUME QueueAssumption ==
    /\ Kinds \subseteq {"query", "resume", "detach"}
    /\ MaxCommands \in Nat /\ MaxBurst \in Nat
    /\ MaxBadResults \in Nat /\ MaxBadAsync \in Nat /\ MaxCrashes \in Nat
    /\ MayTear \in BOOLEAN /\ MayAttach \in BOOLEAN /\ MayExit \in BOOLEAN
    /\ Forces \subseteq BOOLEAN

(* "query" stands for every command GDB answers with ^done or ^error,      *)
(* "resume" for the ones that make the inferior run (^running, then a      *)
(* later *stopped), "detach" for -target-detach.                           *)
Command == [id : Nat \ {0}, kind : Kinds]
Quit    == [id |-> 0, kind |-> "quit"]

(* A record: "result" when it carries the answer to a command, "async"     *)
(* when it only has out-of-band parts.                                     *)
Record == [has : {"result", "async"}, of : Command \union {Quit},
           ok : BOOLEAN, parses : BOOLEAN]

VARIABLES
    eng,       \* the engine's end: queue, command in flight, line, channel
    gdb,       \* the GDB process
    out,       \* records GDB printed and the engine has not handled
    torn,      \* gdb_stdout_buffer holds the start of an unfinished record
    nextId,    \* number of the next command queued (history)
    answered,  \* commands handed to the handlers as answered (history)
    spent,     \* faults and restarts used up (bounds)
    exiting    \* exit_engine was called

vars == <<eng, gdb, out, torn, nextId, answered, spent, exiting>>

Engine == [queued : Seq(Command),      \* queued_commands
           started : Seq(Command),     \* started_commands
           line_busy : BOOLEAN,
           connected : BOOLEAN,        \* gdb_pid and master_pty_channel set
           wire : Seq(Command \union {Quit})]  \* written, not read by GDB

TypeOK ==
    /\ eng \in Engine
    /\ gdb \in {"none", "ready", "inferior", "dead"}
    /\ out \in Seq(Record)
    /\ torn \in BOOLEAN /\ exiting \in BOOLEAN
    /\ nextId \in Nat \ {0}
    /\ answered \in Seq([command : Nat, reply : Nat])
    /\ spent \in [results : Nat, async : Nat, crashes : Nat]

Init ==
    /\ eng = [queued |-> <<>>, started |-> <<>>, line_busy |-> FALSE,
              connected |-> FALSE, wire |-> <<>>]
    /\ gdb = "none" /\ out = <<>> /\ torn = FALSE
    /\ nextId = 1 /\ answered = <<>> /\ exiting = FALSE
    /\ spent = [results |-> 0, async |-> 0, crashes |-> 0]

-----------------------------------------------------------------------------
(* The engine's operations, on its state e.                                *)

(* Wrong variant: the state of the line is not looked at.                  *)
IdleUnchecked(e) == TRUE

Idle(e) == ~e.line_busy /\ e.started = <<>>

(* issue_command (a_command, a_do_record): nothing happens without channel *)
Issue(e, c, record) ==
    IF ~e.connected THEN e
    ELSE [e EXCEPT !.started = IF record THEN Append(@, c) ELSE @,
                   !.line_busy = TRUE,
                   !.wire = Append(@, c)]

(* Issue the head of the queue and erase it, written or not.               *)
IssueHead(e) ==
    [Issue(e, Head(e.queued), TRUE) EXCEPT !.queued = Tail(@)]

(* queue_command called on each command of cs in turn: the first one finds *)
(* the line idle or not, the others find it busy; without a channel each   *)
(* call drops the head of the queue.                                       *)
QueueAll(e, cs) ==
    LET all == e.queued \o cs IN
    CASE cs = <<>> -> e
      [] cs # <<>> /\ ~Idle(e) -> [e EXCEPT !.queued = all]
      [] cs # <<>> /\ Idle(e) /\ e.connected ->
            IssueHead([e EXCEPT !.queued = all])
      [] OTHER -> [e EXCEPT !.queued = SubSeq(all, Len(cs) + 1, Len(all))]

(* Wrong variant: the commands that wait survive the reset.                *)
ResetKeepsQueued(e) == [e EXCEPT !.started = <<>>, !.line_busy = FALSE]

ResetCommandQueue(e) ==
    [e EXCEPT !.queued = <<>>, !.started = <<>>, !.line_busy = FALSE]

(* Wrong variant: the last command queued is sent first.                   *)
NextCommandLast(e) ==
    LET freed == IF e.started = <<>> THEN e
                 ELSE [e EXCEPT !.started = Tail(@), !.line_busy = FALSE]
        n     == Len(freed.queued)
    IN  IF Idle(freed) /\ n > 0
        THEN [Issue(freed, freed.queued[n], TRUE)
                EXCEPT !.queued = SubSeq(@, 1, n - 1)]
        ELSE freed

(* After the handlers have run for a record with a result, or for one that *)
(* did not parse: the command in flight is over, the next one is sent.     *)
NextCommand(e) ==
    LET freed == IF e.started = <<>> THEN e
                 ELSE [e EXCEPT !.started = Tail(@), !.line_busy = FALSE] IN
    IF Idle(freed) /\ freed.queued # <<>> THEN IssueHead(freed) ELSE freed

-----------------------------------------------------------------------------
(* The client's side.                                                      *)

Burst(n) ==
    { [i \in 1..n |-> [id |-> nextId + i - 1, kind |-> k[i]]] :
        k \in [1..n -> Kinds] }

Bursts(lo) ==
    UNION { Burst(n) : n \in {m \in lo..MaxBurst : nextId + m <= MaxCommands + 1} }

(* A client, from the user interface, queues a command.                    *)
ClientQueues ==
    /\ ~exiting
    /\ \E cs \in Bursts(1) :
        /\ eng' = QueueAll(eng, cs)
        /\ nextId' = nextId + Len(cs)
    /\ UNCHANGED <<gdb, out, torn, answered, spent, exiting>>

(* A new GDB prints its banner; what was left of the previous one's output *)
(* in gdb_stdout_buffer comes before it and spoils the record.             *)
LaunchGdb(e, cs) ==
    /\ eng' = QueueAll([e EXCEPT !.connected = TRUE, !.wire = <<>>], cs)
    /\ gdb' = "ready"
    /\ out' = <<[has |-> "async", of |-> Quit, ok |-> TRUE, parses |-> ~torn]>>
    /\ torn' = FALSE
    /\ nextId' = nextId + Len(cs)
    /\ UNCHANGED <<answered, spent, exiting>>

(* Wrong variant: a forced launch leaves the queue as the crash left it.   *)
LoadProgramNoReset(a_force) ==
    /\ ~exiting
    /\ a_force \/ ~eng.connected
    /\ \E cs \in Bursts(1) : LaunchGdb(eng, cs)

(* load_program: a fresh GDB when forced to or when none is there; with an *)
(* engine that is there it only queues (ClientQueues).                     *)
LoadProgram(a_force) ==
    /\ ~exiting
    /\ a_force \/ ~eng.connected
    /\ \E cs \in Bursts(1) :
        LaunchGdb(IF a_force THEN ResetCommandQueue(eng) ELSE eng, cs)

(* attach_to_target, when GDB is not running: launched without a reset.    *)
AttachToTarget ==
    /\ MayAttach /\ ~exiting
    /\ ~eng.connected
    /\ \E cs \in Bursts(1) : LaunchGdb(eng, cs)

(* exit_engine: forget the queue, send "quit" past it.                     *)
ExitEngine ==
    /\ MayExit /\ ~exiting
    /\ exiting' = TRUE
    /\ eng' = Issue([eng EXCEPT !.queued = <<>>], Quit, FALSE)
    /\ UNCHANGED <<gdb, out, torn, nextId, answered, spent>>

-----------------------------------------------------------------------------
(* on_gdb_stdout_signal, for one record: the handlers run with the command *)
(* in flight when the record has a result; the slots queue the commands    *)
(* cs; then the queue moves on.                                            *)

HasResult(r) == r.has = "result" /\ r.parses

(* OnDetachHandler: "detach-from-target" done drops every command.         *)
DetachDone(e, r) ==
    HasResult(r) /\ r.ok /\ e.started # <<>> /\ Head(e.started).kind = "detach"

(* Wrong variants: the queue moves on at every record; only at a result;   *)
(* only at a result that is no error.                                      *)
HandleRecordAlways(e, r, cs) ==
    NextCommand(QueueAll(IF DetachDone(e, r) THEN ResetCommandQueue(e) ELSE e, cs))

HandleRecordResultsOnly(e, r, cs) ==
    LET handled == QueueAll(IF DetachDone(e, r) THEN ResetCommandQueue(e) ELSE e, cs)
    IN  IF HasResult(r) THEN NextCommand(handled) ELSE handled

HandleRecordNoErrors(e, r, cs) ==
    LET handled == QueueAll(IF DetachDone(e, r) THEN ResetCommandQueue(e) ELSE e, cs)
    IN  IF (HasResult(r) /\ r.ok) \/ ~r.parses THEN NextCommand(handled) ELSE handled

HandleRecord(e, r, cs) ==
    LET kept    == IF DetachDone(e, r) THEN ResetCommandQueue(e) ELSE e
        handled == QueueAll(kept, cs)
    IN  IF HasResult(r) \/ ~r.parses THEN NextCommand(handled) ELSE handled

(* What the step told the handlers: which command, answered by what.       *)
Told(e, r) ==
    IF e.started = <<>> \/ (r.parses /\ ~HasResult(r)) THEN <<>>
    ELSE <<[command |-> Head(e.started).id,
            reply |-> IF HasResult(r) THEN r.of.id ELSE 0]>>

(* No subscriber of the signals of a successful detach queues a command.   *)
OnOutputRecord ==
    /\ eng.connected /\ out # <<>>
    /\ \E cs \in Bursts(0) :
        /\ DetachDone(eng, Head(out)) => cs = <<>>
        /\ eng' = HandleRecord(eng, Head(out), cs)
        /\ nextId' = nextId + Len(cs)
    /\ out' = Tail(out)
    /\ answered' = answered \o Told(eng, Head(out))
    /\ UNCHANGED <<gdb, torn, spent, exiting>>

(* HUP on GDB's output, after all of it was read: kill_gdb closes the      *)
(* channels; the command queue stays as it is.                             *)
OnHup ==
    /\ eng.connected /\ gdb = "dead" /\ out = <<>>
    /\ eng' = [eng EXCEPT !.connected = FALSE, !.wire = <<>>]
    /\ UNCHANGED <<gdb, out, torn, nextId, answered, spent, exiting>>

-----------------------------------------------------------------------------
(* The GDB process, external.                                              *)

Prints(r) == out' = Append(out, r)

(* GDB reads a command and answers it, in success or in error.             *)
GdbAnswers ==
    /\ gdb = "ready" /\ eng.wire # <<>>
    /\ \E ok, parses \in BOOLEAN :
        LET c == Head(eng.wire) IN
        /\ parses \/ spent.results < MaxBadResults
        /\ Prints([has |-> "result", of |-> c, ok |-> ok, parses |-> parses])
        /\ gdb' = CASE c.kind = "quit" -> "dead"
                    [] c.kind = "resume" /\ ok -> "inferior"
                    [] OTHER -> "ready"
        /\ spent' = [spent EXCEPT !.results = IF parses THEN @ ELSE @ + 1]
    /\ eng' = [eng EXCEPT !.wire = Tail(@)]
    /\ UNCHANGED <<torn, nextId, answered, exiting>>

(* The inferior stops, by itself or because stop_target sent it a SIGINT.  *)
InferiorStops ==
    /\ gdb = "inferior"
    /\ gdb' = "ready"
    /\ \E parses \in BOOLEAN :
        /\ parses \/ spent.async < MaxBadAsync
        /\ Prints([has |-> "async", of |-> Quit, ok |-> TRUE, parses |-> parses])
        /\ spent' = [spent EXCEPT !.async = IF parses THEN @ ELSE @ + 1]
    /\ UNCHANGED <<eng, torn, nextId, answered, exiting>>

GdbDies ==
    /\ gdb \in {"ready", "inferior"}
    /\ spent.crashes < MaxCrashes
    /\ spent' = [spent EXCEPT !.crashes = @ + 1]
    /\ gdb' = "dead"
    /\ torn' \in {FALSE, MayTear}
    /\ UNCHANGED <<eng, out, nextId, answered, exiting>>

-----------------------------------------------------------------------------
Load == \E force \in Forces : LoadProgram(force)

Next == \/ ClientQueues \/ Load \/ AttachToTarget \/ ExitEngine
        \/ OnOutputRecord \/ OnHup
        \/ GdbAnswers \/ InferiorStops \/ GdbDies

Spec == Init /\ [][Next]_vars

(* The main loop serves GDB's output, GDB serves its input, the inferior   *)
(* stops after a while (a breakpoint, its end, the user's stop).           *)
FairSpec == Spec /\ WF_vars(OnOutputRecord) /\ WF_vars(OnHup)
                 /\ WF_vars(GdbAnswers) /\ WF_vars(InferiorStops)

-----------------------------------------------------------------------------
(* Properties.                                                             *)

(* At most one recorded command is in flight, and then the line is busy;   *)
(* the line is busy without one only once "quit" has been sent.  A second  *)
(* command in flight would make every later reply pair with a wrong one.   *)
OneInFlight ==
    /\ Len(eng.started) <= 1
    /\ eng.started # <<>> => eng.line_busy
    /\ eng.line_busy /\ ~exiting => eng.started # <<>>

(* What the client queued and GDB has not yet read or answered is exactly  *)
(* the command in flight: the engine never writes a command before the     *)
(* previous one was answered.                                              *)
Answers == {i \in 1..Len(out) : out[i].has = "result"}

WireHoldsInFlight ==
    (gdb # "dead" /\ eng.connected /\ ~exiting) =>
        Len(eng.wire) + Cardinality(Answers) = Len(eng.started)

(* The handlers see each reply with the command that caused it, whatever   *)
(* arrives in between (stops, records that do not parse).                  *)
RepliesMatch ==
    ~exiting => \A i \in 1..Len(answered) :
        answered[i].reply \in {0, answered[i].command}

(* Commands are answered in the order they were queued in, each once: an   *)
(* answered command is older than the one in flight, itself older than the *)
(* ones that wait.                                                         *)
Ids(s) == [i \in 1..Len(s) |-> s[i].id]
History == [i \in 1..Len(answered) |-> answered[i].command]
                \o Ids(eng.started) \o Ids(eng.queued)

FirstInFirstOut ==
    \A i, j \in 1..Len(History) : i < j => History[i] < History[j]

(* The whole implements CommandService, as long as the engine is not told  *)
(* to exit: the line, the pipes, the crashes and the restarts do not show. *)
Service == INSTANCE CommandService WITH
    waiting  <- Ids(eng.queued),
    inFlight <- Ids(eng.started),
    done     <- answered

ImplementsService == Service!Spec

(* The engine never waits for a GDB that has nothing left to answer: with  *)
(* a live GDB whose pipes are empty, the line is free.                     *)
NeverStuck ==
    (eng.connected /\ gdb = "ready" /\ eng.wire = <<>> /\ out = <<>>
        /\ ~exiting) => Idle(eng)

IdSet(s) == {s[i].id : i \in 1..Len(s)}

(* Every command that is in the queue is sent and leaves it, unless the    *)
(* engine is told to exit.                                                 *)
QueueDrains == \A n \in 1..MaxCommands :
    (n \in IdSet(eng.queued)) ~> (n \notin IdSet(eng.queued) \/ exiting)

(* No command stays in flight for ever: its answer comes, or it is given up *)
(* by a reset.  A line that stays busy freezes every view of the debugger. *)
FlightEnds == \A n \in 1..MaxCommands :
    (n \in IdSet(eng.started)) ~> (n \notin IdSet(eng.started) \/ exiting)
=============================================================================
