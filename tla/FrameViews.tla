----------------------------- MODULE FrameViews -----------------------------
(***************************************************************************)
(* Where the program is: the thread and the frame GDB has selected, what   *)
(* GDBEngine (nmv-gdb-engine.cc) believes of them, and the views that      *)
(* follow: the call stack with its pages (nmv-call-stack.cc), the threads  *)
(* (nmv-thread-list.cc), the local variables and the arguments             *)
(* (nmv-local-vars-inspector.cc), and the arrow in the source view         *)
(* (nmv-dbg-perspective.cc).                                               *)
(*                                                                         *)
(* Commands are answered one at a time and in order (GdbCommandQueue): the *)
(* head of queue is the one in flight, and GDB reads none while the        *)
(* program runs.  Left out: -stack-list-frames 0 0, which only says the    *)
(* address of the frame, and what the other views ask at a stop.           *)
(***************************************************************************)
EXTENDS Integers, Sequences, FiniteSets, SequencesExt

CONSTANTS
    Threads,        \* 1..n
    MaxDepth,       \* bound: frames of a thread
    MaxStops,       \* bound: stops of the program
    MaxQueue,       \* bound: commands waiting when the user adds one
    MaxClicks,      \* bound: what the user does at one stop
    Chunk,          \* nb_frames_expansion_chunk: frames of a page
    Scenarios       \* sets of Features, of which a behaviour has one

(* What may happen: the user selects frames, asks for more of them, has    *)
(* and selects threads, does not wait for answers, hides and shows the     *)
(* views, loads a core file, runs the program again; functions call        *)
(* themselves or run in several threads ("alike"), or have inner blocks    *)
(* with variables of their own.                                            *)
Features == {"frames", "pages", "threads", "select threads", "haste", "hiding",
             "hiding locals", "core", "again", "alike", "blocks"}
Tabs == {"stack", "threads", "locals"}

FrameViewsAssumption ==
    /\ Threads = 1..Cardinality(Threads) /\ Threads # {}
    /\ {MaxDepth, MaxStops, MaxQueue, MaxClicks, Chunk} \subseteq Nat /\ Chunk > 0
    /\ Scenarios \subseteq SUBSET Features

VARIABLES
    may,    \* the features of this behaviour, chosen once
    gdb,    \* inferior, stacks (outermost frame first), selection, stops
    n,      \* Nemiver: queue, engine, views and perspective
    tabs,   \* the views that can be drawn
    clicks  \* of the user since the program stopped

vars == <<may, gdb, n, tabs, clicks>>

Live == IF "threads" \in may THEN Threads ELSE {1}
NoStacks == [t \in {} |-> <<>>]
Running(g) == g.stacks # NoStacks
Waits == "haste" \notin may
None == <<>>        \* no frame, no arguments

-----------------------------------------------------------------------------
(* GDB and the program.                                                    *)

(* The functions a frame may be of: without "alike" no two frames that     *)
(* can be at the same level are of the same function.                      *)
Functions(t, depth) ==
    IF "alike" \in may THEN {"f", "g"} ELSE {<<t, depth, 1>>, <<t, depth, 2>>}

(* An activation: its function, the value of its variables (one for all),  *)
(* whether it is in its inner block.                                       *)
Enter(t, depth) == [fn : Functions(t, depth), val : {0}, inner : {FALSE}]

Depth(t) == Len(gdb.stacks[t])

(* IDebugger::Frame: its level counts from the innermost one; thread and   *)
(* depth stand for its address.                                            *)
Frame(t, level) ==
    LET depth == Depth(t) - level
    IN [level |-> level, fn |-> gdb.stacks[t][depth].fn, thread |-> t, depth |-> depth]

Activation(f) == <<f.thread, f.depth, f.fn>>

(* Frame::operator==                                                       *)
SameFrame(f, g) == f # None /\ g # None /\ f.level = g.level /\ f.fn = g.fn

(* GDB knows an activation by its function and its place in the stack.     *)
Exists(a) == /\ a[1] \in DOMAIN gdb.stacks /\ a[2] \in 1..Depth(a[1])
             /\ gdb.stacks[a[1]][a[2]].fn = a[3]
ValueOf(a) == gdb.stacks[a[1]][a[2]].val

(* -stack-list-locals: innermost block first.                              *)
LocalsOf(f) ==
    IF gdb.stacks[f.thread][f.depth].inner THEN <<"y", "x">> ELSE <<"x">>
ArgsOf(f) == {"a"}

Levels(t, low, high) == {l \in low..high : l < Depth(t)}
Listed(t, low, high) ==
    [i \in 1..Cardinality(Levels(t, low, high)) |-> Frame(t, low + i - 1)]

-----------------------------------------------------------------------------
(* GDBEngine's commands.                                                   *)

Queue(s, cmds) == [s EXCEPT !.queue = @ \o cmds]

ListFrames(low, high, slot) ==
    [op |-> "list-frames", low |-> low, high |-> high, slot |-> slot]
ListArguments(low, high, slot) ==
    [op |-> "list-frames-arguments", low |-> low, high |-> high, slot |-> slot]
SelectFrame(level) == [op |-> "select-frame", level |-> level]
SelectThread(t) == [op |-> "select-thread", thread |-> t]
ListThreads == [op |-> "list-threads"]
ListLocals == [op |-> "list-local-variables"]

(* create_variable says the thread and the frame it means, as the engine   *)
(* knows them when the command is queued.                                  *)
CreateVariable(s, name, slot) ==
    [op |-> "create-variable", name |-> name, slot |-> slot,
     thread |-> s.thread, level |-> s.level]
Update(v, slot) ==
    [op |-> "list-changed-variables", name |-> v.name, of |-> v.of, slot |-> slot]

-----------------------------------------------------------------------------
(* LocalVarsInspector.                                                     *)

(* re_init_tree_view                                                       *)
ReInit(s) == [s EXCEPT !.vars = <<>>, !.args = <<>>, !.newFrame = TRUE]

UpdateVars(s) ==
    Queue(s, [i \in 1..Len(s.vars) |-> Update(s.vars[i], "local")])
UpdateArgs(s) ==
    Queue(s, [i \in 1..Len(s.args) |-> Update(s.args[i], "argument")])

(* show_local_variables_of_current_function                                *)
ShowLocals(s, f) ==
    Queue(ReInit([s EXCEPT !.saved = f]),
          <<ListLocals, ListArguments(s.level, s.level, "inspector")>>)

(* finish_handling_debugger_stopped_event, the list of variables being     *)
(* updated at each stop.                                                   *)
FinishLocals(s) ==
    IF s.newFrame \/ (s.vars = <<>> /\ s.args = <<>>)
    THEN Queue(ReInit(s), <<ListLocals, ListArguments(s.saved.level,
                                            s.saved.level, "inspector")>>)
    ELSE UpdateArgs(Queue(s, <<ListLocals>>))

(* Wrong variant: the frame is taken for the one of the last stop.         *)
LocalsOnStoppedSame(s, f) == FinishLocals([s EXCEPT !.newFrame = FALSE, !.saved = f])

(* on_stopped_signal                                                       *)
LocalsOnStopped(s, f) ==
    LET t == [s EXCEPT !.newFrame = ~SameFrame(s.saved, f), !.saved = f]
    IN IF "locals" \in tabs THEN FinishLocals(t)
       ELSE [t EXCEPT !.due = @ \union {"locals"}]

Names(seq) == {seq[i].name : i \in 1..Len(seq)}

(* remove_a_local_variable, of those is_variable_in_list does not find.    *)
RemoveGone(s, names) ==
    [s EXCEPT !.vars = SelectSeq(@, LAMBDA v : v.name \in ToSet(names))]

(* add_new_local_vars_and_update_olders: only the creation of the last     *)
(* variable of the list is followed by an update of all.                   *)
OnLocals(s, names) ==
    LET new == SelectSeq(names, LAMBDA name : name \notin Names(s.vars))
        Create(name) == CreateVariable(s, name,
                            IF name = Last(names) THEN "last local" ELSE "local")
        kept == RemoveGone(s, names)
    IN IF names = <<>> THEN UpdateVars(s)
       ELSE IF new = <<>> THEN UpdateVars(kept)
       ELSE Queue(kept, [i \in 1..Len(new) |-> Create(new[i])])

(* append_a_local_variable                                                 *)
AppendVar(s, v) == [s EXCEPT !.vars = Append(@, v)]

(* on_function_arg_var_created_signal: in a frame that is not new the row  *)
(* of an argument with the name is looked for first.                       *)
AppendArg(s, v) == [s EXCEPT !.args = Append(@, v)]
UpdateArg(s, v) ==
    [s EXCEPT !.args = [i \in DOMAIN @ |-> IF @[i].name = v.name THEN v ELSE @[i]]]
OnArgumentCreated(s, v) ==
    IF ~s.newFrame /\ v.name \in Names(s.args) THEN UpdateArg(s, v) ELSE AppendArg(s, v)

(* ... and append_a_local_variable_and_update_all.                         *)
OnCreated(s, v, slot) ==
    CASE slot = "local" -> AppendVar(s, v)
      [] slot = "last local" -> UpdateVars(AppendVar(s, v))
      [] slot = "argument" -> OnArgumentCreated(s, v)

Refreshed(seq, name, of) ==
    [i \in 1..Len(seq) |->
        IF seq[i].name = name /\ seq[i].of = of /\ Exists(of)
        THEN [seq[i] EXCEPT !.val = ValueOf(of)] ELSE seq[i]]
(* on_local_variable_updated_signal, on_function_args_updated_signal       *)
OnVarsUpdated(s, c) == [s EXCEPT !.vars = Refreshed(@, c.name, c.of)]
OnArgsUpdated(s, c) == [s EXCEPT !.args = Refreshed(@, c.name, c.of)]
OnUpdated(s, c) == IF c.slot = "local" THEN OnVarsUpdated(s, c) ELSE OnArgsUpdated(s, c)

(* on_function_args_listed looks for the frame the engine is at by now.    *)
InspectorOnArguments(s, levels, t) ==
    IF s.level \in levels
    THEN Queue(s, SetToSeq({CreateVariable(s, name, "argument") :
                                name \in ArgsOf(Frame(t, s.level))}))
    ELSE s

-----------------------------------------------------------------------------
(* CallStack.  rows are the frames shown, more the "expand" row; the caches *)
(* frames, params and level_frame_map hold the frames of the rows.         *)

AskFrames(s) == Queue(s, <<ListFrames(s.low, s.high, "call stack")>>)

(* Wrong variant: the pages the user has asked for are not forgotten.      *)
HandleUpdateInPage(s) == AskFrames(s)

(* handle_update                                                           *)
HandleUpdate(s) ==
    LET t == [s EXCEPT !.low = 0, !.high = Chunk]
    IN IF "stack" \in tabs THEN AskFrames(t) ELSE [t EXCEPT !.due = @ \union {"stack"}]

(* Wrong variant: the answer is not known for the one to the user's choice. *)
SetCurrentFrameUntold(s, i) ==
    Queue([s EXCEPT !.cur = s.rows[i].frame], <<SelectFrame(s.rows[i].frame.level)>>)

(* set_current_frame: the whole perspective follows once GDB has answered. *)
SetCurrentFrame(s, i) ==
    Queue([s EXCEPT !.cur = s.rows[i].frame, !.inTrans = TRUE],
          <<SelectFrame(s.rows[i].frame.level)>>)

(* append_frames_to_tree_view                                              *)
AppendFrames(s, frames) ==
    [s EXCEPT !.rows = @ \o [i \in 1..Len(frames) |->
                                [frame |-> frames[i], args |-> None]],
              !.more = Len(frames) >= Chunk]

AskArguments(s, frames) ==
    Queue(s, <<ListArguments(frames[1].level, Last(frames).level, "call stack")>>)

(* on_frames_listed: the first row is selected, without a signal.  For     *)
(* update_stack (core files) the first frame is selected in GDB as well.   *)
OnFrames(s, frames, slot) ==
    LET shown == AskArguments([AppendFrames([s EXCEPT !.rows = <<>>], frames)
                    EXCEPT !.selected = 1, !.waiting = TRUE], frames)
    IN IF slot = "top most" THEN SetCurrentFrame(shown, 1) ELSE shown

(* on_frames_listed_during_paging: the row that was clicked is erased.     *)
OnPage(s, frames) ==
    AskArguments([AppendFrames(s, frames) EXCEPT
                    !.selected = IF @ > Len(s.rows) THEN 0 ELSE @], frames)

(* on_frames_args_listed, update_frames_arguments                          *)
StackOnArguments(s, levels, t) ==
    IF s.waiting
    THEN [s EXCEPT !.waiting = FALSE,
                   !.rows = [i \in 1..Len(@) |->
                        LET level == @[i].frame.level
                        IN [frame |-> @[i].frame,
                            args |-> IF level \in levels
                                     THEN Activation(Frame(t, level)) ELSE @[i].args]]]
    ELSE s

-----------------------------------------------------------------------------
(* DBGPerspective and ThreadList.                                          *)

(* on_frame_selected_signal                                                *)
OnFrameSelected(s, f) ==
    LET there == [s EXCEPT !.where = f]
    IN IF SameFrame(s.frame, f) THEN there
       ELSE ShowLocals([there EXCEPT !.frame = f], f)

(* on_debugger_thread_selected_signal, then                                *)
(* on_thread_list_thread_selected_signal of the perspective.               *)
ThreadsOnSelected(s, t) ==
    LET there == [s EXCEPT !.tid = t, !.row = IF t \in s.tids THEN t ELSE @]
    IN IF s.perspThread = t THEN there
       ELSE ShowLocals([there EXCEPT !.perspThread = t], s.frame)

(* OnThreadSelectedHandler tells of no frame: the level stays.             *)
OnThreadSelected(s, t) ==
    ThreadsOnSelected(HandleUpdate([s EXCEPT !.thread = t]), t)

(* ThreadList::on_debugger_stopped_signal                                  *)
ThreadsOnStopped(s, t) ==
    LET there == [s EXCEPT !.tid = t]
    IN IF "threads" \in tabs THEN Queue(there, <<ListThreads>>)
       ELSE [there EXCEPT !.due = @ \union {"threads"}]

(* on_debugger_threads_listed_signal                                       *)
OnThreads(s) ==
    LET listed == DOMAIN gdb.stacks
    IN [s EXCEPT !.tids = listed, !.row = IF s.tid \in listed THEN s.tid ELSE 0]

(* OnStoppedHandler and the slots of stopped_signal.                       *)
OnStopped(s, f) ==
    [ThreadsOnStopped(HandleUpdate(LocalsOnStopped([s EXCEPT !.level = f.level], f)),
                      f.thread)
        EXCEPT !.frame = f, !.perspThread = f.thread, !.where = f]

(* CallStack::clear                                                        *)
ClearFrames(s) ==
    [s EXCEPT !.rows = <<>>, !.more = FALSE, !.selected = 0, !.low = 0, !.high = Chunk]

(* on_program_finished_signal: unset_where, clear_status_notebook.         *)
OnFinished(s) ==
    ClearFrames([ReInit(s) EXCEPT !.where = None, !.tids = {}, !.tid = 0, !.row = 0])

-----------------------------------------------------------------------------
Init ==
    /\ may \in Scenarios
    /\ gdb = [inferior |-> "none", stacks |-> NoStacks,
              thread |-> 1, level |-> 0, stops |-> 0]
    /\ n = [queue |-> <<>>, level |-> 0, thread |-> 1,
            rows |-> <<>>, more |-> FALSE, selected |-> 0, cur |-> None,
            low |-> 0, high |-> Chunk, waiting |-> FALSE, inTrans |-> FALSE,
            vars |-> <<>>, args |-> <<>>, newFrame |-> TRUE, saved |-> None,
            tids |-> {}, tid |-> 0, row |-> 0,
            frame |-> None, perspThread |-> 0, where |-> None, due |-> {}]
    /\ tabs = Tabs
    /\ clicks = 0

(* The program is run, or goes on: the menus allow it in READY only, which *)
(* no command waits in.                                                    *)
Step ==
    /\ gdb.inferior \in {"none", "stopped"} /\ n.queue = <<>>
    /\ gdb.stops < MaxStops
    /\ (gdb.inferior = "none" /\ gdb.stops > 0 => "again" \in may)
    /\ gdb' = [gdb EXCEPT !.inferior = "running"]
    /\ UNCHANGED <<may, n, tabs, clicks>>

(* What thread t has done when the program stops in it; the first stop is  *)
(* one of thread 1.                                                        *)
Moves(t) ==
    LET stack == gdb.stacks[t] d == Len(stack)
    IN {[stack EXCEPT ![d].val = 1 - @]}
        \union (IF "blocks" \in may
                THEN {[stack EXCEPT ![d].val = 1 - @, ![d].inner = ~@]} ELSE {})
        \union (IF d < MaxDepth THEN {Append(stack, a) : a \in Enter(t, d + 1)} ELSE {})
        \union (IF d > 1 THEN {[Front(stack) EXCEPT ![d - 1].val = 1 - @]} ELSE {})

Beginning(depth) ==
    [t \in Live |-> [d \in 1..(IF t = 1 THEN depth ELSE 1) |-> CHOOSE a \in Enter(t, d) : TRUE]]

Stopped(t) ==
    IF Running(gdb) THEN {[gdb.stacks EXCEPT ![t] = stack] : stack \in Moves(t)}
    ELSE {Beginning(depth) : depth \in {d \in {1, MaxDepth} : t = 1}}

(* A stop, in another thread perhaps: GDB then says =thread-selected too.  *)
InferiorStops ==
    /\ gdb.inferior = "running"
    /\ \E t \in Live : \E stacks \in Stopped(t) :
        LET f == [level |-> 0, fn |-> Last(stacks[t]).fn, thread |-> t,
                  depth |-> Len(stacks[t])]
            s == OnStopped(n, f)
        IN /\ gdb' = [inferior |-> "stopped", stacks |-> stacks, thread |-> t,
                      level |-> 0, stops |-> gdb.stops + 1]
           /\ n' = IF t # gdb.thread THEN OnThreadSelected(s, t) ELSE s
    /\ clicks' = 0 /\ UNCHANGED <<may, tabs>>

(* An exit; the thread list does not know the one that has a status.       *)
InferiorExits ==
    /\ gdb.inferior = "running"
    /\ \E status \in BOOLEAN :
        n' = OnFinished(IF status THEN ThreadsOnStopped(n, 0) ELSE n)
    /\ gdb' = [gdb EXCEPT !.inferior = "none", !.stacks = NoStacks,
                          !.thread = 1, !.level = 0]
    /\ UNCHANGED <<may, tabs, clicks>>

(* load_core_file: nothing stops, update_stack selects the first frame.    *)
LoadCore ==
    /\ "core" \in may /\ gdb.inferior = "none" /\ gdb.stops = 0
    /\ gdb' = [gdb EXCEPT !.inferior = "core", !.stacks = Beginning(MaxDepth)]
    /\ n' = Queue(n, <<ListFrames(0, n.high, "top most")>>)
    /\ UNCHANGED <<may, tabs, clicks>>

-----------------------------------------------------------------------------
(* GDB answers the command in flight, GDBEngine's handler for it runs.     *)

Answers(op) == gdb.inferior # "running" /\ n.queue # <<>> /\ Head(n.queue).op = op
Command == Head(n.queue)
Rest == [n EXCEPT !.queue = Tail(@)]
HasFrame(t, level) == t \in DOMAIN gdb.stacks /\ level < Depth(t)

OnFramesListed ==
    /\ Answers("list-frames")
    /\ n' = IF ~HasFrame(gdb.thread, Command.low) THEN Rest
            ELSE LET frames == Listed(gdb.thread, Command.low, Command.high)
                 IN IF Command.slot = "paging" THEN OnPage(Rest, frames)
                    ELSE OnFrames(Rest, frames, Command.slot)
    /\ UNCHANGED <<may, gdb, tabs, clicks>>

OnFramesParamsListed ==
    /\ Answers("list-frames-arguments")
    /\ n' = IF ~HasFrame(gdb.thread, Command.low) THEN Rest
            ELSE LET levels == Levels(gdb.thread, Command.low, Command.high)
                 IN IF Command.slot = "inspector"
                    THEN InspectorOnArguments(Rest, levels, gdb.thread)
                    ELSE StackOnArguments(Rest, levels, gdb.thread)
    /\ UNCHANGED <<may, gdb, tabs, clicks>>

OnLocalVariablesListed ==
    /\ Answers("list-local-variables")
    /\ n' = IF ~Running(gdb) THEN Rest
            ELSE OnLocals(Rest, LocalsOf(Frame(gdb.thread, gdb.level)))
    /\ UNCHANGED <<may, gdb, tabs, clicks>>

OnCreateVariable ==
    /\ Answers("create-variable")
    /\ n' = IF ~HasFrame(Command.thread, Command.level) THEN Rest
            ELSE LET f == Frame(Command.thread, Command.level) a == Activation(f)
                 IN IF Command.name \in ArgsOf(f) \union ToSet(LocalsOf(f))
                    THEN OnCreated(Rest, [name |-> Command.name, of |-> a,
                                          val |-> ValueOf(a)], Command.slot)
                    ELSE Rest
    /\ UNCHANGED <<may, gdb, tabs, clicks>>

OnListChangedVariable ==
    /\ Answers("list-changed-variables")
    /\ n' = OnUpdated(Rest, Command)
    /\ UNCHANGED <<may, gdb, tabs, clicks>>

(* OnCommandDoneHandler: the level, then CallStack::on_command_done_signal *)
(* with the frame that was clicked last.                                   *)
FrameSelected(s, level) ==
    LET there == [s EXCEPT !.level = level]
    IN IF s.inTrans THEN OnFrameSelected([there EXCEPT !.inTrans = FALSE], s.cur)
       ELSE there

OnCommandDone ==
    /\ Answers("select-frame")
    /\ IF HasFrame(gdb.thread, Command.level)
       THEN /\ gdb' = [gdb EXCEPT !.level = Command.level]
            /\ n' = FrameSelected(Rest, Command.level)
       ELSE gdb' = gdb /\ n' = Rest
    /\ UNCHANGED <<may, tabs, clicks>>

OnThreadSelect ==
    /\ Answers("select-thread")
    /\ IF Command.thread \in DOMAIN gdb.stacks
       THEN /\ gdb' = [gdb EXCEPT !.thread = Command.thread, !.level = 0]
            /\ n' = OnThreadSelected(Rest, Command.thread)
       ELSE gdb' = gdb /\ n' = Rest
    /\ UNCHANGED <<may, tabs, clicks>>

OnThreadList ==
    /\ Answers("list-threads")
    /\ n' = OnThreads(Rest)
    /\ UNCHANGED <<may, gdb, tabs, clicks>>

-----------------------------------------------------------------------------
(* The user.                                                               *)

Free ==
    /\ Len(n.queue) < MaxQueue /\ clicks < MaxClicks /\ clicks' = clicks + 1
    /\ Waits => n.queue = <<>> /\ gdb.inferior \in {"stopped", "core"}

(* update_selected_frame, on a row or on the row that expands the stack.   *)
ClickFrame ==
    /\ "frames" \in may /\ Free /\ "stack" \in tabs
    /\ \E i \in 1..Len(n.rows) : n' = SetCurrentFrame([n EXCEPT !.selected = i], i)
    /\ UNCHANGED <<may, gdb, tabs>>

ClickMore ==
    /\ "pages" \in may /\ Free /\ "stack" \in tabs /\ n.more
    /\ n' = Queue([n EXCEPT !.low = n.high + 1, !.high = n.high + Chunk,
                            !.selected = Len(n.rows) + 1],
                  <<ListFrames(n.high + 1, n.high + Chunk, "paging")>>)
    /\ UNCHANGED <<may, gdb, tabs>>

(* on_tree_view_selection_changed_signal                                   *)
ClickThread ==
    /\ "select threads" \in may /\ Free /\ "threads" \in tabs
    /\ \E t \in n.tids \ {n.row} :
            n' = Queue([n EXCEPT !.row = t], <<SelectThread(t)>>)
    /\ UNCHANGED <<may, gdb, tabs>>

RefreshLocals ==
    /\ Free /\ n.queue = <<>> /\ gdb.inferior = "stopped"
    /\ n' = ShowLocals(n, n.frame)
    /\ UNCHANGED <<may, gdb, tabs>>

MayHide(tab) == IF tab = "locals" THEN "hiding locals" \in may ELSE "hiding" \in may

Hide ==
    /\ Free /\ \E tab \in tabs : MayHide(tab) /\ tabs' = tabs \ {tab}
    /\ UNCHANGED <<may, gdb, n>>

(* on_draw_signal of each view.                                            *)
Drawn(s, tab) ==
    CASE tab = "stack" -> AskFrames(s)
      [] tab = "threads" -> Queue(s, <<ListThreads>>)
      [] tab = "locals" -> FinishLocals(s)

Show ==
    /\ Free
    /\ \E tab \in Tabs \ tabs :
        /\ tabs' = tabs \union {tab}
        /\ n' = IF tab \in n.due THEN Drawn([n EXCEPT !.due = @ \ {tab}], tab) ELSE n
    /\ UNCHANGED <<may, gdb>>

Next == Step \/ InferiorStops \/ InferiorExits \/ LoadCore
            \/ OnFramesListed \/ OnFramesParamsListed \/ OnLocalVariablesListed
            \/ OnCreateVariable \/ OnListChangedVariable \/ OnCommandDone
            \/ OnThreadSelect \/ OnThreadList
            \/ ClickFrame \/ ClickMore \/ ClickThread \/ RefreshLocals \/ Hide \/ Show

Spec == Init /\ [][Next]_vars

-----------------------------------------------------------------------------
Quiet == n.queue = <<>> /\ gdb.inferior \in {"stopped", "core"}
Here == Frame(gdb.thread, gdb.level)

(* The rows of the call stack are the frames of the thread GDB is in, from *)
(* the innermost one on, and whatever is missing can be asked for.         *)
StackShown ==
    Quiet /\ "stack" \in tabs =>
        /\ Len(n.rows) <= Depth(gdb.thread)
        /\ \A i \in 1..Len(n.rows) : n.rows[i].frame = Frame(gdb.thread, i - 1)
        /\ (Len(n.rows) < Depth(gdb.thread) => n.more)

(* Each frame of the first page is shown with its own arguments.           *)
ArgumentsShown ==
    Quiet /\ Waits /\ "stack" \in tabs =>
        \A i \in 1..Len(n.rows) :
            i <= Chunk + 1 => n.rows[i].args = Activation(n.rows[i].frame)

(* The same for the pages that follow.                                     *)
PagesShowArguments ==
    Quiet /\ "stack" \in tabs =>
        \A i \in 1..Len(n.rows) : n.rows[i].args = Activation(n.rows[i].frame)

(* The engine creates variable objects in the frame GDB has selected.      *)
EngineFollows == Quiet => n.thread = gdb.thread /\ n.level = gdb.level

(* One thread is selected: in GDB, in the list, in the perspective.        *)
ThreadShown ==
    Quiet /\ gdb.inferior = "stopped" /\ "threads" \in tabs =>
        /\ n.tids = DOMAIN gdb.stacks
        /\ n.row = gdb.thread /\ n.tid = gdb.thread /\ n.perspThread = gdb.thread

(* The arrow and the selected row are at the frame GDB has selected (but   *)
(* the arrow does not follow the user to another thread).                  *)
ArrowShown ==
    Quiet /\ Waits =>
        /\ (n.where = None \/ n.where.thread = gdb.thread => n.where = Here)
        /\ ("stack" \in tabs /\ n.selected \in 1..Len(n.rows) =>
                n.rows[n.selected].frame = Here)

Current ==
    \A v \in ToSet(n.vars) \union ToSet(n.args) : Exists(v.of) => v.val = ValueOf(v.of)

(* What the inspector shows are the variables and the arguments of that    *)
(* frame, each once, as long as the user selects no thread.                *)
LocalsShown ==
    Quiet /\ Waits /\ "locals" \in tabs /\ "select threads" \notin may =>
        /\ \A v \in ToSet(n.vars) \union ToSet(n.args) : v.of = Activation(Here)
        /\ Names(n.vars) = ToSet(LocalsOf(Here)) /\ Len(n.vars) = Len(LocalsOf(Here))
        /\ Names(n.args) = ArgsOf(Here) /\ Len(n.args) = Cardinality(ArgsOf(Here))

(* ... and their values are current, as long as no block is entered.       *)
ValuesShown ==
    Quiet /\ Waits /\ "locals" \in tabs /\ "blocks" \notin may => Current

(* "Then, update the content of all the local variables that we already    *)
(* had" (add_new_local_vars_and_update_olders).                            *)
OldersUpdated == Quiet /\ "locals" \in tabs => Current
=============================================================================
