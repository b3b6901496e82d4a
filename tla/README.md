# Nemiver, specified

TLA+ models of Nemiver, the GNOME front end to GDB, the checks TLC makes on
them and the proofs TLAPS checks. Paths are relative to the repository's `src/`;
"engine" is `GDBEngine` (`src/dbgengine/nmv-gdb-engine.cc`) and "perspective" is
`DBGPerspective` (`src/persp/dbgperspective/nmv-dbg-perspective.cc`).

## 1. The system

Nemiver is one process with one thread of its own, the GTK main loop. It runs
GDB as a child, writes commands to it over a pseudo terminal, and reads records
from its standard output. Everything the user sees follows from those records.

| Part | State | Operations | Interacts with |
| --- | --- | --- | --- |
| Command queue (engine) | `queued_commands`, `started_commands`, `line_busy`, channels, `gdb_stdout_buffer` | queue, issue, handle a record, reset, launch and kill GDB, exit | GDB by pipes; handlers by calls; every client through `queue_command` |
| Session state (engine) | `state`, `is_attached`, `is_running` | run, continue, step, load, attach, detach, re-run, stop | the queue; the perspective by signals; GDB by SIGINT |
| Menus (perspective) | sensitivity of four action groups, `prog_path`, `debugger_engine_alive`, `reused_session` | the entries of the menus, handlers of the engine's signals | the engine by calls and signals |
| Breakpoints | cache (engine), map (perspective), rows (view), GDB's table | set, delete, enable, ignore counts, countpoints, lists, re-run, restart, resume | GDB, the queue, the saved sessions |
| Saved sessions | `SessMgr::sessions`, a transaction stack, an SQLite database shared by all the user's Nemivers | load, store, clear, delete | the perspective; the disk |
| Variables | `IDebugger::Variable` trees, each tied to an object in GDB | create, unfold, update, format, delete | the queue; the walkers and inspectors |
| Walkers, inspectors, expression monitor | which variables are being visited, are in scope, are shown | walk, append, revive, kill | variables; state signals |
| GDB/MI parser | none kept | text to `Output` | the engine, one record at a time |
| Call stack, threads, registers, memory, disassembly | what was last answered | refresh at a stop, select | state signals |
| Source editors | marks, the current file | open, mark, scroll | the perspective's map of breakpoints |
| Workbench, layouts, configuration, plugins, dialogs, C++ parser, terminal | windows, keys, modules, syntax trees | — | — |

What is hard about it:

* **Ordering.** A reply carries no number: it belongs to the command in flight.
  Handlers and the slots they call queue commands while a reply is handled.
* **Crossing.** A stop, an exit or the user's next click arrives between a
  command and its reply. GDB does not read while the inferior runs.
* **Copies.** Breakpoints live in four places, the state of the inferior in
  five, sessions in memory and on disk, and each copy is refreshed by another
  signal.
* **Failure.** GDB dies, a record does not parse, a statement fails, Nemiver is
  killed, two Nemivers write the same database.

What makes each part correct:

| Part | Correct when |
| --- | --- |
| Queue | one command in flight; each reply goes to its command; order kept; everything queued is sent; a new GDB starts from a clean line |
| State and menus | when nothing is on its way, they say what the inferior does; a detach ends; the menus come back |
| Breakpoints | GDB, cache, map and view agree when nothing is on its way; what the user chose is what is set |
| Sessions | operations are atomic whatever fails; no parts of different saves; a saved session can be loaded |
| Variables | a variable's members are those of its object; no object is leaked or used once deleted; a copied value is the whole value |
| Expression monitor | each expression has one row, where GDB says it is; what was killed with a program comes back |
| Call stack, locals | they are those of the frame GDB has selected, whatever was clicked, paged or hidden meanwhile |
| Editors | each tab shows the marks of its breakpoints and no other, and the arrow where the program is |
| Value tip | it shows the word it stands at, whatever was answered meanwhile |
| Registers, memory | what is displayed is what the program has, after stops that were seen or not |
| GDB/MI parser, handlers | what GDB wrote is what the observers are told; one reply retires one command; who asked is answered |
| C++ parser | what is written is what is read |

## 2. The modules

| Module | Models | Depends on |
| --- | --- | --- |
| `CommandService` | abstract: commands served one at a time, in order | |
| `GdbCommandQueue` | the engine's queue, its line to GDB, GDB's death | implements `CommandService` |
| `GdbCommandQueue_proofs` | theorems about it: types, pairing, the line always has an answer ahead, order, the refinement of `CommandService` | `GdbCommandQueue`, `TLAPS` |
| `DebugSession` | state, attachment, menus, against GDB and the inferior | the queue, with line and records simplified as proved there |
| `DebugSession_proofs` | theorems about it: types, state, menus, attachment | `DebugSession`, `TLAPS` |
| `Breakpoints` | the four copies of the breakpoints and the user's choices | commands answered one at a time and in order, as above |
| `Breakpoints_proofs` | theorems about them: types, cache, map and rows | `Breakpoints`, `TLAPS` |
| `Breakpoints_choices` | theorems about what the user chose | `Breakpoints_proofs` |
| `SessionTable` | abstract: sessions cleared, deleted, stored in one step | |
| `SessionStore` | `SessMgr`, transactions, SQLite, several Nemivers | implements `SessionTable` |
| `SessionStore_proofs` | theorems about it: types, whole sessions, the refinement of `SessionTable` | `SessionStore`, `TLAPS` |
| `MCSessionStore` | `SessionStore` with the symmetry of its Nemivers | `SessionStore` |
| `FrameViews` | threads, frames, the call stack and its pages, locals, the arrow | answers in order |
| `VariableObjects` | variable objects, their client side trees, rows, the copying walker | answers in order |
| `ExpressionMonitor` | watched expressions through calls, restarts, the inspector's dialog | answers in order |
| `SourceViews` | tabs of files and assembly, marks, arrow, file monitors | answers in order, a user who waits |
| `ValueTip` | the word under the pointer, timer, request, tip | answers in order |
| `ValueTip_proofs` | theorems about it: the tip shows its word, is under the pointer, leaves nothing in GDB | `ValueTip`, `TLAPS` |
| `DataViews` | registers and memory | answers in order |
| `DataViews_proofs` | theorems about it: registers and bytes shown | `DataViews`, `TLAPS` |
| `MCViews` | one of five views per behaviour | those above but `VariableObjects` |
| `MCViews_proofs` | what is proved of the tip, registers and memory, as `MCViews` states it | `MCViews`, `TLAPS` |
| `MISyntax`, `MIAnswers`, `MIRecords` | `GDBMIParser`: values, answers, records | each on the one before |
| `GdbWriting` | external: how GDB writes what the parser reads | `MIRecords` |
| `StdoutLoop` | `on_gdb_stdout_signal` over one buffer | `GdbWriting` |
| `EngineCommands` | the commands each method of the engine queues | |
| `OutputHandlers` | the registered handlers, in order, and the signals they send | `MIRecords`, `EngineCommands` |
| `EngineAnswers` | from a command to what the views are told | `StdoutLoop`, `OutputHandlers` |
| `CppLexer`, `CppTrees`, `CppParser`, `CppReading` | the C++ lexer, its trees and their text, the parser, a text read by it | each on the one before |
| `MCTexts` | what GDB may say and C++ texts may be in the runs | `EngineAnswers`, `CppReading` |
| `MCTrees` | a text or the variables per behaviour: what is nested to any depth | `MCTexts`, `VariableObjects` |

A definition under a "Wrong variant" comment states a plausible bug of the one that
follows it. Nothing in the models uses it; put in its place, it makes the property
`PROJECT.json` names for it fail.

In `DebugSession`, `Breakpoints` and the six views a behaviour has one *scenario*, a set
of named features (`may`) chosen at the start: what the program has, what the user does,
what goes wrong. `"haste"` is a user who clicks before what he asked for is answered;
`Waits` is its absence. The features of a module are listed, with what they mean,
above its `Features`.

### GdbCommandQueue

`eng` is the engine's end (`queued`, `started`, `line_busy`, `connected`, and
`wire`, what was written and not read). `out` is what GDB printed. A step is a
main loop callback with the slots it calls, so the commands those queue (`Bursts`)
are part of `OnOutputRecord`. A record answers a command or is asynchronous; it
may not parse, in which case the command in flight is retired without a reply
to it, as `on_gdb_stdout_signal` does. `torn` is an unfinished record left in
`gdb_stdout_buffer` by a GDB that died. `LoadProgram`, `AttachToTarget` and
`ExitEngine` are the three operations that go around the queue.

### DebugSession

`e.state`, `e.attached` and `e.running` are the engine's three accounts of the
inferior; `e.menus` the groups the user may click. `inferior` is what GDB really
has. The handlers (`OnHit`, `OnExit`, `OnDone`, `OnRunning`, `OnError`,
`OnDetached`) run in the order of the code, in one step with the queue's
`NextCommand`, and the signals change the menus one after the other. `AttachDone` is
what the perspective queues when an attachment is answered. `sigint` is a
SIGINT the inferior has not met yet. `FollowUps` are the queries the views send at
a stop.

### Breakpoints

`gdb.table` has what GDB counts by itself (ignore counts going down, hits);
`n.cache`, `n.shown` and `n.rows` are the copies. `Told` and `Cache` are the two
halves of `append_breakpoint_to_cache`, which updates its argument as well as the
cache. `wanted` is a history variable: what the user chose for each line.
Countpoints are a GDB script and a flag that each go their own way.

### SessionStore

The step is the SQL statement; the statements for one table are one step, and
the tables are written in any order, the number of a new session first and the
line of a deleted one last. The contents of a session are reduced to the number of
the save they come from, table by table, so that a mixture of two saves shows.
`draft` is the database as the one transaction that writes sees it (`lock`): SQLite
lets no other write, and `step_cur_statement` gives up after two retries, so `Fail`
needs no fault to happen when somebody else writes. `Throw` is what an exception
does to nested `TransactionAutoHelper`s. The failure of a read is taken for the end of
the rows by `read_next_row`: a list of sessions may come out empty (`Loads`).

### The six views

All have the same frame: `gdb` is GDB and the inferior; `n` Nemiver, with `n.queue` the
commands waiting, the first of them in flight; `tabs` what the user can see; `clicks`
counts what he did. A step is a main loop callback: a reply with the handler, the signal
and every slot it calls, or an entry of the user.

* **`FrameViews`.** `gdb.thread` and `gdb.frame` are what GDB has selected;
  the engine keeps `cur_thread_num` and `cur_frame_level`, the call stack its rows,
  its pages and its selection, the inspector the frame its rows belong to. What is
  asked at a stop depends on which views are visible and whether each thinks that it is
  up to date.
* **`VariableObjects`.** `gdb.objs` are the objects; `n.heap` the `Variable`s, shared by
  rows, lists and commands and deleted with the last reference, which queues
  `-var-delete`. `-var-update` may announce a new length, new members and a changed type.
  The visualizer is changed by a chain of commands each sent by the slot of
  the one before; the copy of a value (`VarobjWalker`) unfolds what is folded.
* **`ExpressionMonitor`.** Names are bound to the scopes of the program. An expression
  goes between the two nodes at each stop, is killed with the program and re-created by
  the next, and may be removed, inspected or added again while commands about it wait.
* **`SourceViews`.** A file has a version, a line of an assembly an address. Tabs are
  opened by stops, breakpoints, frames and the user; marks are moved by edits, drawn by
  signals, redrawn by reloads.
* **`ValueTip`.** The pointer moves, the timer fires and GDB answers in any order;
  an answer belongs to the request that is pending, if there is one.
* **`DataViews`.** GDB says which registers changed since it was last asked *that
  question*; the view asks when it is visible. The memory shown begins where the
  address was confirmed, which is not always what the entry says.

`MCViews` puts one of five under each behaviour (`part`), so that all are checked by a run.
`VariableObjects` goes with the texts (`MCTrees`): both have recursive operators, which a
module with theorems cannot reach, and `MCViews` is one that theorems are about.

### Texts

A text is a sequence of units: words and signs. The parser functions return whether they
succeeded, where they stopped and what they read, as the C++ ones do by their result and
their reference parameters. `GdbWriting` writes messages (what GDB means) as units,
after the samples of `tests/test-gdbmi.cc`; `StdoutLoop` reads them back record by
record; `OutputHandlers` are passed what was read, with the command it answers
(`EngineCommands`). The C++ parser is the same with trees: a tree is written as its
`to_string` writes it, read by lexer and parser, and compared. `Endless` is a parsing
function that calls itself without having read anything. The two readers are constants
(`ReadRecord`, `ReadText`) which the configuration sets to the parsers themselves.

## 3. The runs

| Run | Question | Bounds |
| --- | --- | --- |
| `queue_safe` | replies match, order holds, the queue recovers and implements `CommandService` | 4 commands, bursts of 2, one bad record, two deaths of GDB |
| `queue_live` | everything queued is sent and answered, also after bad records | 3 commands, bursts of 2 |
| `queue_attach_after_crash` | *violation*: attaching after GDB died with a command in flight | one death |
| `session` | state and menus agree with the inferior; attachment is right, a detach ends, menus come back | 3 commands waiting, 2 follow-ups, 2 scenarios |
| `breakpoints` | the copies agree; choices, countpoints and ignore counts survive hits and re-runs; what is deleted goes away | 2 lines, 3 breakpoints, 2 hits, 2 waiting, 5 scenarios |
| `bp_resume` | *violation*: a resumed session sets its first breakpoint only | 2 lines |
| `store_shared` | SessMgr's operations are atomic under faults, deaths and a second Nemiver | 2 Nemivers, 3 saves, one session kept |
| `store_lost` | *violation*: resuming the oldest session loses it at the next save | 3 saves, one session kept |
| `views` | the views show what the program has | below, 33 scenarios |
| `trees` | GDB's records, the handlers' signals and C++ texts are read as they were written; variables have their members | each kind of answer, notification, command and tree, optional parts there or not; 10 scenarios of variables |
| `variables_toggle` | *violation*: after a change of visualizers a later stop is lost on changed members | 3 stops, 2 elements |
| `watch_restart` | *violation*: a killed expression is given up for a folded structure | 2 runs, 6 clicks |

What `views` and, of the variables, `trees` ask of each part:

| Property | Says, once everything is answered |
| --- | --- |
| `FramesShown` | call stack, its selection, thread list, engine and arrow are those of GDB's thread and frame |
| `LocalsShown` | the inspector has each variable and argument of that frame once, with current values |
| `ShownWhereItIs` | each expression has one row, in scope or not, as GDB finds it |
| `NothingLost` | what was given and not taken back is kept, and comes back in the next run |
| `BreakpointsKnown`, `MarksShown` | the map is GDB's; each tab has the marks of its breakpoints and no others |
| `ArrowFollows` | the arrow is where the program is; the files of the tabs, and no others, are watched |
| `TipShown` | the tip shows the word it stands at; no object is kept for a tip that has gone |
| `DataShown` | the registers and bytes displayed are those of the program |
| `MembersShown` (`trees`) | the variables have the members GDB has, and the rows show them |
| `PeersOwned` (`trees`) | GDB keeps no object but those on display |
| `VisualizersFollow` (`trees`) | everything is printed with the visualizer that was chosen, members unfolded later included |
| `WalksAreWhole` (`trees`) | no slot meets a destroyed parent or an erased row; the copied value is whole (always) |

Several exclude a scenario in which the code is known to fail; section 5 lists these.

Why the bounds are enough. In the queue a fault concerns the command in flight,
the ones behind it and the ones its handler adds: three or four commands give all
of these, a second death a fault during recovery. State and menus are decided by
whether commands wait, so two or three that wait show every case. Breakpoints
influence each other by their ids and lines: with three ids on two lines there are
a duplicate on a line and one elsewhere. The store's operations concern one session
and "the others"; two tables, one that `clear_session` empties and one it does not
(`env_variables` and `watchpoints` are the latter), give every mixture; keeping one
session instead of five makes excess happen at the second.

In `views`: two threads (the selected one and another) of up to three frames (the inner
one, its caller, one a page away: the page holds one frame), four stops (a new frame, the
same again, another, the first again), three commands waiting when the user adds
one. The tabs have two breakpoints; assembly is shown by windows of two
instructions, so that a stop may be inside, at the end, or outside of it. Two
registers tell one that changed from one that did not; the window on three bytes of
memory is two long. The features that matter to each other are in one scenario; all
of them in one is more than TLC can enumerate. The variables of `trees` are containers of
up to three elements (growing, shrinking, an element in the middle) and a structure, over
four stops.

Deadlock is not checked where counters are bounded (`queue_*`, `store_*`, `views`,
`variables_toggle`, `watch_restart`) nor in `trees`, where a text ends too: there the
model stops when the bound is used up. It is checked in every other run.

`store_shared` uses the symmetry of the two Nemivers: nothing tells them apart and
its temporal property is a safety property.

### Fairness

`queue_live` and `session` assume weak fairness of the main loop's callbacks
(GLib serves a ready source), of GDB's answers (it reads when the inferior does not
run), and, in the queue alone, of the inferior's stopping. `session` does
**not** assume the last: only a SIGINT stops the inferior there, which is the
point of `DetachEnds`. `breakpoints` assumes callbacks and answers. The user is
never assumed to do anything.

## 4. What is proved

**The command queue.** For every value of the constants, under the hypotheses of the
second column:

| Theorem | If | Property | Says |
| --- | --- | --- | --- |
| `TypeCorrect` | | `TypeOK` | the types hold |
| `AtMostOneInFlight` | | `OneInFlight` | at most one recorded command is in flight, the line busy exactly then |
| `RepliesAlwaysMatch` | parse | `RepliesMatch` | each reply goes to its command |
| `AnsweredInOrder` | | `FirstInFirstOut` | commands are answered in the order they were queued in |
| `QueueImplementsService` | parse, no exit | `ImplementsService` | the queue is a `CommandService` |
| `WireServesInFlight` | parse, forced | `WireHoldsInFlight` | what is between engine and GDB is the command in flight, or its one answer |
| `LineNeverStuck` | parse, forced | `NeverStuck` | no engine waits for a GDB that has nothing to answer |

"parse" is `MaxBadAsync = 0, MayTear = FALSE`: stops and what a dying GDB prints can be
parsed. A stop that cannot retires the command in flight, and the answer that comes
then is taken for the next one's. "forced" is `MayAttach = FALSE, FALSE \notin Forces`:
each GDB but the first is launched by a load that resets the queue; the others leave
the line busy for ever (`queue_attach_after_crash`). "no exit" is `MayExit = FALSE`: `"quit"` goes
around the queue. TLC refutes the property without its hypotheses, but that "parse"
is not needed by `NeverStuck` itself, only by the argument.

The argument. `RepliesMatch` is about a history; it is not inductive, for nothing in
it says that the reply which arrives next is the one of the command in flight. The
strengthening relates the two ends of the line: unless the engine is exiting or
cut off from a dead GDB, the commands on the wire followed by the commands whose
results are in `out` are exactly `started`, a sequence of at most one. A record that
does not parse retires the command with reply 0, and a dead GDB's output is either
handled before the HUP or belongs to the channel that is closed. `OneInFlight` says
the line is busy exactly when a command is in flight, which is what makes
`Idle` a sufficient guard. The only assumption beside the hypotheses is
`QueueAssumption`, the types of the constants.

The other four rest on it. Order: the numbers rise from the first answer to the last
command queued, through what is in flight (`OrderInv`), since `nextId` is above all of
them; a reset or a death takes from the middle only. The service: what waits, is in
flight and is done there are `queued`, `started` and `answered` here, so that GDB and its
pipes do not show, and nothing waits while nothing is in flight (`Serves`). The answers: a command in
flight is on the wire or its answer is in `out` (`Served`), which a new GDB would break
if `reset_command_queue` did not come before it.

**The saved sessions.** For any number of Nemivers, tables,
saves and kept sessions, whatever may fail, die, be renamed or purged:

| Theorem | Property | Says |
| --- | --- | --- |
| `TypesHold` | `TypeOK` | the types hold |
| `SessionsAreWhole` | `NeverTorn` | what is on disk about a session comes from one save |
| `NothingStaysOpen` | `NothingLeftOpen` | a Nemiver not at work on the store has no open transaction and no lock |
| `StoreImplementsTable` | `ImplementsTable` | clearing, deleting, storing are done at once or not at all |

The argument. `NeverTorn` speaks of what is committed; what is committed comes from the
draft of a transaction, and what that transaction stores may come from a list of
sessions read long ago. The inductive invariant `IInv` follows the contents all the
way: the lists in memory and the stores planned hold contents of one save (`Typed`,
with `WholeSession` and `WholeOperation`); while an operation runs, the tables it has
already written hold what it stores and every other session of the draft is whole
(`Drafted`); a transaction that has not the lock has written nothing (`Locked`), so
what `Commit` publishes is complete; without a writer the draft is what is on disk.
`Sound` says that a transaction is open only while the first operation of a plan is a
write, and that a new session gets its number before its rows.

For the refinement, `TableInv` says what the draft is: the operation of the Nemiver that
has the lock, applied to the database as far as its remaining tables tell (`Worked`);
other sessions are as they were. `Commit` with no table left is then the operation of
`SessionTable`, and every other step, failures and deaths included, a stutter. That the
number of a new session is new needs the greatest number of a finite set, which comes from
the library's well-founded minimum. The only assumption
is `StoreAssumption`: `attributes` is one of the tables `clear_session` empties, and
the line in `sessions` is none of them.

**The debugging session.** For every bound and every set of scenarios:

| Theorem | If no scenario has | Property | Says |
| --- | --- | --- | --- |
| `TypesOfSession` | | | the types hold |
| `StateIsInferiors` | `haste` with `early exit` | `StateFollowsInferior` | once all is handled, RUNNING exactly when the inferior runs |
| `MenusAreInferiors` | the same | `MenusFollowInferior` | the menus offer what the inferior can do |
| `AttachedIsKnown` | `reuse` without `haste` | `AttachedToProcess` | attached as long as GDB has a process, not after its exit |
| `DetachIsInterrupted` | | `DetachInterrupts` | a detach that waits has a SIGINT on its way |

Both hypotheses are needed, and TLC gives the behaviours. A user in haste queues a
run behind a step, and the program exits before the run, already sent, is answered: the exit is announced
after the state of that run, and stays although the program is running again. A user who
asks something after an exit gets the menus of READY; Continue then runs the program
again, but `OnExit` has cleared `is_attached` and no handler of `^running` sets it.
The scenarios of `session` meet both.

The argument. The properties speak of moments when nothing is on its way; the inductive
invariant has to say of each command in the pipe, and of each record printed, in which
state they will leave the engine. `OutInv` and `AnswerInv` place the one answer among the
records: a `^done` or an `^error` is the last thing printed, a `^running` is followed by at
most the stop it led to, and the inferior is as the last record says. `StateInv` is the
property, weakened to what holds while records wait. It is kept by `TurnInv`: when the last
command of the queue sets the inferior in motion, the state is already RUNNING and no exit
will be handled before its `^running`, or a stop will queue others behind it. `MenuInv`
relates menus to the state, a GDB that died while RUNNING being the exception that ends with
the next announcement. For a user who waits, `WaitInv` says
that only a launch (`Launching`) has commands behind one another, and `AttachInv` that a
program is run only while attached. The only assumption beside the hypotheses is `SessionAssumption`, the types of the
constants.

**The breakpoints.** For every bound and every set of scenarios, no scenario with `restart`
having `haste` or `delete` (`PatientRestarts`) but for the first:

| Theorem | Property | Says |
| --- | --- | --- |
| `BreakpointsTyped` | | the types hold |
| `CacheAgrees` | `CacheIsGdbs` | with nothing on its way, the engine's cache is GDB's table |
| `ViewsAgree` | `ShownIsCached` | and the perspective shows what is in the cache |

TLC refutes `CacheIsGdbs` for `{"restart", "delete"}` and `{"restart", "haste"}`: a restart sends
commands made from the cache as it was, some of them about breakpoints that are no more. The
scenarios of `breakpoints` satisfy the hypothesis.

The argument. What differs between cache and table is on its way, and the inductive
invariant says where. There is one answer at a time, and it ends what is printed but for what a
program that is made to run prints (`OutInv`). What an answer says of a breakpoint is what GDB
has (`AnswerInv`), and so is what `=breakpoint-modified` says, unless the answer of an enable or
disable follows it (`ModifiedInv`); behind that answer waits a list
(`QueueInv`). A breakpoint of GDB's is in the cache, or the answer to its insertion is in the
pipe; one in the cache is GDB's, or the answer to its deletion is in the pipe; a line never differs,
and whether it is enabled only while a list waits (`CacheInv`). `ShownInv` is the same
between cache and perspective. A program loaded again is the exception: the cache then has
breakpoints that GDB has not. `AgainInv` says that the insertions come first in the queue, one for each of
these, in the order of their numbers, so that the new GDB gives each the number it had. The
only other assumption is `BreakpointsAssumption`, the types of the constants.

**What the user chose.** Under `PatientRestarts` and `CarefulChoices`, for the
behaviours of a user who waits (the properties say nothing of the others):

| Theorem | Property | Says |
| --- | --- | --- |
| `ChoicesAreKept` | `ChoicesKept` | with nothing on its way, each line chosen has its breakpoint as chosen, no other line has one |
| `CountpointsGoOn` | `CountpointsContinue` | while the program runs, GDB has the commands of each countpoint |
| `RunsIgnoreAgain` | `RunsIgnore` | each run begins with the ignore counts the user chose |

`CarefulChoices` forbids a waiting user's scenario `resume`, `restart` with `delete`, `disable`
or `count`, and `notify` with `count` or `ignore`. All but `restart` with `delete` (which
`CacheAgrees` needs) are failures of the code: a resumed session sets one breakpoint, a new GDB
enables them all and makes standard breakpoints of its countpoints, and what
`=breakpoint-modified` says of type and ignore count is not what was
chosen. TLC has a behaviour for each (section 5); every scenario of `breakpoints` satisfies
both hypotheses.

The argument. The properties compare what a user chose with the cache when nothing waits, or
with GDB when the program runs; each step in between moves a choice one copy further. For a
user who waits the invariant `Choices` says, on top of the one above, where a choice may
still be. `Turns` is what the queue can hold: behind a command that makes the program run
only lists, the commands of a countpoint alone, insertions with at most a run behind them.
`InsertsChosen` and `LinesChosen` say that the insertions ask for what was chosen, one for
each line that has no breakpoint. `CacheChosen` and `TableChosen` say that cache and GDB
have the choices, but for what a command that waits, or a list, will set; of the ignore counts, which
GDB counts down, only that the command restoring it precedes each run. `OutChosen`
keeps the program's own records from disturbing this: what a running program prints finds
nothing in the queue but what made it run, and lists. `FeaturesChosen` is what the
hypothesis is for: without its feature nothing of the kind was chosen.

**Registers and memory.** For any registers, memory, window, bounds and scenarios that
satisfy `DataViewsAssumption` (`MCViews` has TLC evaluate it):

| Theorem | If no scenario has | Property | Says, once all is answered |
| --- | --- | --- | --- |
| `MemoryIsShown` | | `MemoryShown` | the bytes displayed are those at the address of the entry |
| `RegistersAreShown` | `frames` with `hiding` or `edit` | `RegistersShown` | the rows are the registers of the innermost frame |
| `DataIsShown` | the same | `DataShown` | both, which is what `views` checks of them |

The exceptions to `MemoryShown`, an address typed and not shown and memory that cannot be
written, and to `RegistersShown`, the second stop after a restart or a change by the user, are in
the statements, and TLC refutes these without them. It refutes `RegistersShown` for
`{"registers", "frames", "hiding"}` and `{"registers", "frames", "edit"}` too: what is asked while
another frame is selected is answered for that frame.

The argument for the memory: at most one
command of the memory waits among those of the registers (`OneAtATime`), none while the
program runs, and a read is of the address in the entry. Unless it is a read, the bytes shown
are those of the memory, but for the one that is on its way to where it is shown
(`BytesOf`). `Sensitive` is what keeps it: the view takes a click only where no command waits.

For the registers three copies are related, the rows, what GDB compares with (`seen`) and the
registers themselves. GDB answers `-data-list-changed-registers` for the time it was last asked, so
the view is right only if its rows are what GDB had then: `Compared` says that each is, or
its value is about to be read, or GDB compares with nothing. `Read` says that after a stop
which was seen each row is right, or a command waits that will make it so. `InOrder` is what
they need of the queue: names are never asked for behind changes, a register that is set is
read behind it, and values are asked for only when GDB compares with nothing or with the
present registers. A stop that was not seen leaves `upToDate` false, and `Compared` as it was, which is why
`on_draw_signal` needs to ask once only, however many stops it missed.

**The value tip.** For any bounds and scenarios, without an assumption:

| Theorem | Property | Says |
| --- | --- | --- |
| `TipIsShown` | `TipShown` of `ValueTip` | a tip that is up has one row, of the word it stands at, unfolded once all is answered |
| `TipStaysUnderPointer` | `TipUnderPointer` | for a user who waits it is under the pointer |
| `TipOwnsObjects` | `ObjectsOwned` | once all is answered GDB's objects are those of the Variables held |
| `TipIsShown` (`MCViews_proofs`) | `TipShown` | the three, which is what `views` checks of them |

The exceptions are in the statements: the first says nothing of a hasty user with
visualizers to set, the last nothing of a program that ends.

The argument. The timer, the pointer, the requests and the answers come in any order, and an answer does
not say which request it is of; the perspective keeps one request and takes what comes
for it. The inductive invariant says why that is right. A request that is open is for the
word at its own place (`AsksForWord`): a variable found has the name of the
command, and is taken only for the request of that name. A tip that is up has the row of its
variable, and this is unfolded or the command that will unfold it waits; or it has no
row, and its variable is being revisualized, for this tip and no other (`ShowsWord`). The latter needs
a user who waits, of whom only one command waits at a time (`OneAsks`), apart from deletions, and that is also
what keeps the tip under the pointer: what is created is for where the pointer still is.
`ObjectsFollow` says of each object that it belongs to one Variable, or to one command that
deletes it, never to both and never to two; what `~Variable` does when the last of
tip, rows and commands lets a Variable go moves it from the one to the other. It needs the engine to be
attached as long as there are Variables, which is what an exit ends. The lemmas under it are that the
objects deleted together are each deleted once (`SetToSeq`), and that a new Variable has a number no other has.

**The views together.** A behaviour of `MCViews` is one of a single view, so that what is proved of
a view holds of its part there. `MCViews_proofs` has this for the tip and for registers and memory
(`DataIsShown`, under the hypothesis above): these are the properties as the run checks them.

Only model-checked: the liveness properties (`QueueDrains`, `FlightEnds`,
`DetachEnds`, `MenusComeBack`, `DeletedGoes`), which are out of the prover's reach; the
properties of call stack, locals, expressions and editors in `views`, which await proofs.
What `trees` checks stays with TLC: parsers, lexers and the heap of variables are recursive
over data, with RECURSIVE operators, and their modules are kept out of proofs.

The `TypeOK` of the first four modules is stated by the theorems alone; the other
properties proved are checked by TLC as well.

## 5. Where code and words part

Shown by a run of their own:

* **`queue_attach_after_crash`.** `attach_to_target` launches a GDB without
  `reset_command_queue`: the command the old GDB never answered stays in flight and
  nothing is sent any more.
* **`bp_resume`.** `execute_program` sets one breakpoint per parent id, but the ones
  of a resumed session have none yet: only the first is set.
* **`store_lost`.** `record_and_save_session` deletes the sessions in excess, the
  resumed one among them, then stores its rows under a number that has no line left.
* **`variables_toggle`.** Members that changed at a stop and whose parent is then
  revisualized are orphans in the list of what to draw; at each later stop
  `sibling_index` throws ("fatal: should not be reached") and the rest of the frame is
  not updated.
* **`watch_restart`.** Beside another expression, a structure that is not unfolded
  counts as monitored (`expression_is_monitored`), and the killed one is given up.

Stated in the modules, refuted by TLC under the constants of the run after the change
given, without a run of their own:

| Property | Run | Scenario | What happens |
| --- | --- | --- | --- |
| `ReadyMeansStarted` | `session` | | `set_state (READY)` at the end of an attach, a detach or an error says READY without a started inferior |
| `RunningIsAlive` | same | | `is_running` stays true after a detach and the death of GDB |
| `RunOffered` | same | | no menu entry to run again after GDB's death in some states |
| `ContinueContinues` | same | | after an attach Continue sends `-exec-run`, since no `^running` was seen |
| `DetachOffered` | same | | the condition at 2860 is always true: after an exit an error makes the state READY, the program is continued while `is_attached` is false |
| `RunningIsKnown` | same | "early exit" added to the first | an exit that crosses a command leaves PROGRAM_EXITED while the inferior runs |
| `LinesKept`, `CacheIsGdbs` | `breakpoints` | `{"ignore","restart","delete"}` | the cache is never emptied: a new GDB's numbers meet old breakpoints |
| `EnabledKept` | same | `{"restart","disable"}` | the "initially-disabled" cookie is only looked at for lists |
| `CountpointsKept` | same | `{"restart","count"}` | a countpoint set again is flagged twice, which unflags it |
| `CountpointsKept` | same | `{"notify","count"}` | a record of a hit makes a plain breakpoint of it |
| `IgnoreCountsKept` | same | `{"notify","ignore"}` | ... and the count GDB has left becomes the user's |
| `IgnoreCountsKept` | same | `{"haste","ignore"}` | a re-run before the answer restores the older count |
| `CountpointsContinue` | same | `{"haste","count"}` | the commands of the countpoint are queued behind `-exec-run` |
| `PagesShowArguments` | `views` | with "pages" | frames of the pages after the first never get their arguments |
| `OldersUpdated` | same | with "blocks" | when an inner block adds variables, the older ones keep the values of the last stop |
| `ReloadsChanged` | same | with "edit" | `on_file_content_changed` reloads the file in front, not the one that changed |
| `TipIsCurrent` | same | with "steps" | the tip keeps its value when the program goes on |
| `RegistersAlwaysShown` | same | with "restart" or "edit" | a register that returns to the value of the last comparison is not read again |
| `RegistersFollowFrame` | same | with "frames" | the registers of a selected frame are not asked for |
| `WritesWhereShown` | same | with "typed" | a byte is written at the address in the entry, not at the one that is shown |
| `ClearedIsEmpty` | same | with "exits" | `MemoryView::clear` leaves the bytes of the ended program |

### What the properties leave out

Where the code fails in a way TLC found, the property that would say so excepts the
scenario, and its comment says why:

* *Tabs.* A tab that is closed and opened again by a stop has no marks: `open_file_real`
  does not apply decorations. With a single tab closed, deleting a breakpoint in the view
  opens the file again with the mark of the deleted breakpoint. Breakpoints of files of
  the same name are told apart by base name only: toggling one deletes the other's.
  Assembly is appended, never sorted: when the program goes back to lower addresses the
  arrow finds a wrong line.
* *Tip.* With visualizers to set, a user who goes to another word gets the commands of
  both interleaved, and one variable is shown under the other. After the end of the program objects
  are not deleted.
* *Variables.* A copy that is made while visualizers change meets erased dummy rows and
  copies a member twice (`NoDangling`, `CopyIsWhole`). After the end of the program
  objects are leaked, the engine being detached by then (`PeersOwned`).
* *Expressions.* An expression that is removed while its re-creation waits comes back, or leaves a row
  of its own. The object names of a re-run are those of the run before: releasing a
  killed variable deletes the object of the revived one, unless other objects shift the
  numbers ("others").
* *Frames.* The same function called again, or running in another thread, counts as
  the same frame ("alike"): its variables keep objects of the other. A hasty user gets
  the selection of one frame and the variables of another. Locals hidden over two stops
  in a new frame are the old ones ("hiding locals"). Selecting a thread leaves the
  engine's frame level and the arrow behind.
* *Texts.* `Refused`: an empty list of files or an empty stack fails a record that is well formed,
  and what came before it in the buffer is told twice. `Unanswerable`: `evaluate_expression`
  throws in its handler (neither tag nor variable); the slot of `enable-breakpoint` is never
  called; an empty list of breakpoints is told to nobody; several breakpoints for one
  countpoint throw; `call-function` is told by `command_done` only; a mixed
  disassembly whose last line has no instructions throws; the globals of the last file
  are never listed.

### Met while reading

*Engine.* Watchpoints are inserted as (read, write) into columns (write, read) by
`store_session`; `clear_session` leaves `env_variables` and `watchpoints` behind and is
called in a transaction of its own before the session is stored
(`nmv-dbg-perspective.cc:5169`); `create_db` commits its statements one by one, the
version first (`nmv-tools.cc:88`); `queue_command` and `on_gdb_stdout_signal` erase the
head of the queue even when it could not be written (`nmv-gdb-engine.cc:946`);
`OnDetachHandler` resets the queue in the middle of the handling of its own reply (1426);
conditions at 2860 and 2971 are always true; `load_core_file` launches a GDB without
resetting the queue (3395); `choose_function_overload` writes past the queue, and the
prompt it answers fails `parse_output_record`, for it comes without `(gdb)` (5234);
`set_breakpoint (function)` of a countpoint sends `-i -1`;
`OnSetRegisterValueHandler` is not registered; `set-memory` is told as a change of a
register too. A watchpoint out of scope leaves the view only (`nmv-breakpoints-view.cc:538`);
the view's `enable_breakpoint` slot is connected to no signal that is emitted.

*GDB/MI parser.* A string that ends in an escaped backslash, or has only octal
escapes, is read past its end; `\\303` is taken for an octal escape; an exception of
`THROW_IF_FAIL` leaves the loop before the command in flight is retired; `~""` fails the
record; `operator->` inside a value swallows the members that follow, the brace level being
unsigned; `QuickUStringLess` is no order; "displayint" for "displayhint";
`parse_frame` ignores "from"; tuples that are not closed and trailing commas are
accepted; new children in a change list have no name.

*Variables.* Containers that shrink leave rows behind; the slot of a visualized string
without members is never called; new variables after pretty printing was turned off keep the default
visualizer, against the comment near 6611; a container inside a structure cannot be
unfolded; hasty changes of visualizers name deleted objects; a member handed to the
monitor throws at the next stop and what follows it is not monitored again; `update_debugger_variable`
sets the value from the type; `is_up2date` of the monitor is not reset.

*Editors.* Going to the source of a breakpoint while assembly is shown erases the
text with its marks; two breakpoints of a line share one mark; the arrow of a tab stays
when the program stops in another file; a file reloaded or opened in front gets the
arrow whatever its name; the handler of a deletion throws without an editor;
`open_asm` may load into a buffer nobody keeps; `clear_decorations` never erases (the
loop tests `it != begin ()`); `is_visual_breakpoint_set_at_line` mixes lines from 0 and
from 1; breakpoint signals after the end, without tabs, open the file of an old frame.

*Views.* After a run that ended in thread 2, the next asks for nothing, `cur_thread_num`
being 2 still; `on_debugger_register_value_changed` tests the wrong way round.

*C++.* `this` never parses; a primary that cannot be read makes `parse_postfix_expr` call
itself without end (`-1`, `(a)+1`, `foo<bar*>`); `!`, `!=`, `>>=`, `<<=` and floats are
never scanned; `true` and `false` have no text; strings are printed without quotes;
`new` and `delete` match prefixes and skip a character too many; `unsigned x` reads `x` as a type,
`long long x` takes `long` for the name; pointers to members lose their scope;
`operator /=` is printed "/+", `delete[]` "delete"; of several declarators the first is kept.
`trees` writes the C++ that avoids these.

## 6. What is not modelled

* Variables: assignment, formats, path expressions; `VarWalker`, `VarListWalker` and
  the lists of the backend without variable objects; the inspector's history and its
  selection of members.
* Breakpoints with several locations, watchpoints and catchpoints in `Breakpoints` (their
  commands and answers are in `EngineCommands` and `OutputHandlers`); cookies;
  `complete_breakpoint`; the prompt of overloads.
* `CPPTrait`, the only part of the C++ support the engine calls; the scan for what GDB
  says before a record.
* Editors: reload while assembly is shown, a hasty user, search, the cursor, popup
  menus, files located by the user; assembly as text.
* Registers' colours, the grouping of bytes and the editor of GtkHex; the end of an attachment in `DataViews`.
* The creation of the database, and a read that fails in the middle of one session.
* The connection to a remote target; the GDB that `load_core_file` starts.
* Dialogs, layouts, configuration, plugins, terminal, strings and logs: no decisions
  that several steps could get wrong.

Between modules: a view is checked alone, against GDB and a queue that answers in
order, which is what `GdbCommandQueue` proves of its own; that the views together do not
queue too much for one another is seen only in `DebugSession` (`FollowUps`).

## 7. Plan

Done: the queue, the session, breakpoints, saved sessions; the theorems on the queue, the session, the breakpoints, the saved sessions, registers and memory, the value tip;
the views, parser, commands, handlers and C++ reader.

Left, in this order:

1. Theorems: `BreakpointsKnown` and `ArrowFollows`; `FramesShown`.
2. Watchpoints in `Breakpoints`; the database's creation in `SessionStore`.
3. Liveness of the views: what is asked at a stop is displayed.
4. The prompt of overloads; `VarListWalker`.

## 8. Running it

In this directory: `tlc -config <run>.cfg <module>.tla`, with the module of the
run from `PROJECT.json`; `tlapm <module>.tla` for a module with theorems. `PROJECT.json`
also maps each definition to the lines it stands for. The long runs (`views`, `trees`, `store_shared`) take a
minute or two, the others seconds.
