------------------------- MODULE ExpressionMonitor -------------------------
(***************************************************************************)
(* The expressions the user has Nemiver watch: the monitor with its two    *)
(* nodes, "in scope" and "out of scope" (nmv-expr-monitor.cc), the dialog  *)
(* in which an expression is inspected and handed to the monitor           *)
(* (nmv-expr-inspector-dialog.cc, nmv-expr-inspector.cc), and the          *)
(* perspective that clears the monitor when a program ends, is restarted   *)
(* or replaced (nmv-dbg-perspective.cc).                                   *)
(*                                                                         *)
(* Commands are answered one at a time and in order (GdbCommandQueue).     *)
(* Members, values and highlighting are in VariableObjects: a Variable     *)
(* here is the root of a tree of them, folded or not.  The user is left no *)
(* choice but to monitor the whole expression, not a member of it.         *)
(***************************************************************************)
EXTENDS Integers, Sequences, FiniteSets, FiniteSetsExt, SequencesExt

CONSTANTS
    MaxGoes,        \* bound: how often the program is run or continued
    MaxQueue,       \* bound: commands waiting when the user adds one
    MaxClicks,      \* bound: what the user does in a behaviour
    Scenarios       \* sets of Features, of which a behaviour has one

(* The expressions: of a global variable, of a variable of main, of one of *)
(* the function main calls, of a structure.  What may happen: the program  *)
(* ends, is run again by another GDB, restarted by the same, replaced by   *)
(* another program; the user removes expressions, hides the monitor, does  *)
(* not wait.  "others": other views have GDB make objects, too, so that    *)
(* the next GDB gives no number a second time to the monitor.              *)
Exprs == {"global", "local", "inner", "struct"}
Features == Exprs \union {"exits", "again", "restart", "replace", "others",
                          "remove", "hiding", "haste"}

ExpressionMonitorAssumption ==
    /\ {MaxGoes, MaxQueue, MaxClicks} \subseteq Nat \ {0}
    /\ Scenarios \subseteq SUBSET Features

VARIABLES
    may,    \* the features of this behaviour, chosen once
    gdb,    \* inferior, stack, objects
    n,      \* Nemiver: queue, heap of Variables, monitor, dialog
    clicks  \* of the user

vars == <<may, gdb, n, clicks>>

Waits == "haste" \notin may
None == 0

-----------------------------------------------------------------------------
(* GDB.  The stack holds activations, outermost first; objects are known   *)
(* by number and belong to the activation their expression was found in.   *)

Everywhere == <<"", 0>>
Place(expr) == IF expr = "inner" THEN "f" ELSE "main"

(* Where an expression is found from the selected frame, the innermost.    *)
Found(g, expr) ==
    IF expr = "global" THEN {Everywhere}
    ELSE IF g.stack # <<>> /\ Last(g.stack)[1] = Place(expr) THEN {Last(g.stack)} ELSE {}
Alive(g, at) == at = Everywhere \/ at \in ToSet(g.stack)

Resumed(g) == [g EXCEPT !.inferior = "running", !.goes = @ + 1]
MayGo(g) == g.goes < MaxGoes
Start(g) == [Resumed(g) EXCEPT !.calls = @ + 1, !.stack = <<<<"main", g.calls + 1>>>>]

NextStacks(g) ==
    {g.stack, SubSeq(g.stack, 1, 1)}
    \union (IF Len(g.stack) = 1 THEN {Append(g.stack, <<"f", g.calls + 1>>)} ELSE {})

(* Another GDB: its numbers start again, unless "others" take them.        *)
Relaunched(g) == [g EXCEPT !.objs = <<>>, !.next = IF "others" \in may THEN @ ELSE 1]

-----------------------------------------------------------------------------
(* Nemiver.  n.heap holds the Variables by number: what is watched, GDB's  *)
(* name, whether in scope, as far as told, whether its members are not.    *)

Variable(expr, obj) == [expr |-> expr, obj |-> obj, scope |-> TRUE, folded |-> expr = "struct"]
Queue(s, cmds) == [s EXCEPT !.queue = @ \o cmds]
CreateVariable(expr, slot) == [op |-> "create", expr |-> expr, slot |-> slot]
ListChanged(s, v) == [op |-> "update", obj |-> s.heap[v].obj, var |-> v]
UnfoldVariable(s, v) == [op |-> "unfold", obj |-> s.heap[v].obj, var |-> v]
DeleteVariable(obj) == [op |-> "delete", obj |-> obj]

Closed == [serial |-> 0, from |-> "", var |-> None, shows |-> None, button |-> FALSE, picker |-> TRUE]
Opened == n.dialog.serial # 0

Nodes == {"in", "out"}
NodeOf(s, v) == IF s.heap[v].scope THEN "in" ELSE "out"
NoRows == [node \in Nodes |-> <<>>]

Throw(s) == [s EXCEPT !.threw = TRUE]
Caught(s) == [s EXCEPT !.threw = FALSE]

(* ~Variable: who holds a Variable, and the object that goes with the last *)
(* of them.  in_scope_exprs is a list of its own that nothing clears.      *)
Held(c) == IF c.op \in {"update", "unfold"} THEN {c.var} ELSE IF c.op = "create" THEN {c.slot[2]} ELSE {}
Holders(s) ==
    UNION {ToSet(s.monitored), ToSet(s.killed), s.revived, s.changed, s.inScope,
           {s.dialog.var, s.dialog.shows}, ToSet(s.rows["in"]), ToSet(s.rows["out"])}
    \union UNION {Held(c) : c \in ToSet(s.queue)}
Release(s) ==
    LET gone == SetToSortSeq(DOMAIN s.heap \ Holders(s), <)
    IN Queue([s EXCEPT !.heap = [v \in DOMAIN @ \ ToSet(gone) |-> @[v]]],
             IF s.attached THEN [i \in 1..Len(gone) |-> DeleteVariable(s.heap[gone[i]].obj)] ELSE <<>>)
Fresh(s) == Min(1..(Cardinality(DOMAIN s.heap) + 1) \ DOMAIN s.heap)

-----------------------------------------------------------------------------
(* The monitor.                                                            *)

(* variables_match: the same Variable, or the same name of GDB's.          *)
Same(s, v, w) == v = w \/ s.heap[v].obj = s.heap[w].obj
PlaceIn(s, list, v) == SelectInSeq(list, LAMBDA w : Same(s, w, v))
Without(s, list, v) == IF PlaceIn(s, list, v) = 0 THEN list ELSE RemoveAt(list, PlaceIn(s, list, v))
HasRow(s, node, v) == PlaceIn(s, s.rows[node], v) # 0

(* expression_is_monitored.  The names of two expressions, one of which    *)
(* was not unfolded, are never compared.                                   *)
IsMonitored(s, v) ==
    \E w \in ToSet(s.monitored) :
        \/ s.heap[v].obj = s.heap[w].obj
        \/ s.heap[v].folded \/ s.heap[w].folded
        \/ s.heap[v].expr = s.heap[w].expr

AddExpression(s, v) ==
    IF IsMonitored(s, v) THEN s
    ELSE [s EXCEPT !.monitored = Append(@, v), !.rows[NodeOf(s, v)] = Append(@, v)]

(* remove_expression: from one list and from the other, with its row under *)
(* the node where it is said to be, or not at all.                         *)
RemovedFrom(s, list, v) ==
    IF s.threw \/ PlaceIn(s, s[list], v) = 0 THEN s
    ELSE IF ~HasRow(s, NodeOf(s, v), v) THEN Throw(s)
    ELSE [s EXCEPT ![list] = Without(s, @, v), !.rows[NodeOf(s, v)] = Without(s, @, v)]
Forgotten(s, v) ==
    IF s.threw THEN s
    ELSE [s EXCEPT !.changed = {w \in @ : ~Same(s, w, v)}, !.revived = {w \in @ : ~Same(s, w, v)}]
RemoveExpression(s, v) == Forgotten(RemovedFrom(RemovedFrom(s, "monitored", v), "killed", v), v)

(* Wrong variant: the row under the second node stays.                     *)
EnsureUnderFirst(s, v, first, second) ==
    IF HasRow(s, first, v) THEN s ELSE [s EXCEPT !.rows[first] = Append(@, v)]
(* ensure_expr_under_first_but_not_under_second                            *)
EnsureUnder(s, v, first, second) ==
    LET t == [s EXCEPT !.rows[second] = Without(s, @, v)]
    IN IF HasRow(t, first, v) THEN t ELSE [t EXCEPT !.rows[first] = Append(@, v)]

UpdateInScopeOrNot(s, v) ==
    IF s.heap[v].scope THEN EnsureUnder([s EXCEPT !.inScope = @ \union {v}], v, "in", "out")
    ELSE EnsureUnder([s EXCEPT !.inScope = @ \ {v}], v, "out", "in")

(* Wrong variant: what was killed before is dropped.                       *)
KillMonitoredOnly(s) ==
    [s EXCEPT !.heap = [v \in DOMAIN @ |-> IF v \in ToSet(s.monitored) THEN [@[v] EXCEPT !.scope = FALSE] ELSE @[v]],
              !.killed = s.monitored]
KillMonitored(s) ==
    [s EXCEPT !.heap = [v \in DOMAIN @ |-> IF v \in ToSet(s.monitored) THEN [@[v] EXCEPT !.scope = FALSE] ELSE @[v]],
              !.killed = @ \o s.monitored]

(* re_init_widget                                                          *)
ReInit(s, remember) ==
    [(IF remember THEN KillMonitored(s) ELSE [s EXCEPT !.killed = <<>>])
        EXCEPT !.monitored = <<>>, !.rows = NoRows, !.revived = {}]

ReMonitorKilled(s, v) ==
    LET t == UpdateInScopeOrNot(s, v)
    IN IF t.heap[v].scope THEN t ELSE Queue(t, <<CreateVariable(t.heap[v].expr, <<"killed", v>>)>>)

(* update_revived_exprs_oo_scope_or_not: those in scope are revived for    *)
(* good; the others would be created once more.                            *)
UpdateRevived(s) ==
    LET out == SetToSortSeq({v \in s.revived : ~s.heap[v].scope}, <)
    IN Queue([s EXCEPT !.revived = ToSet(out)],
             [i \in 1..Len(out) |-> CreateVariable(s.heap[out[i]].expr, <<"revived", out[i]>>)])

(* finish_handling_debugger_stopped_event, of a stop in a frame            *)
Finish(s) ==
    LET asked == Queue([s EXCEPT !.changed = {}],
                       [i \in 1..Len(s.monitored) |-> ListChanged(s, s.monitored[i])])
    IN UpdateRevived(FoldLeft(ReMonitorKilled, asked, asked.killed))

OnStopped(s) == IF s.drawable THEN Finish(s) ELSE [s EXCEPT !.upToDate = FALSE]

OnVarsChanged(s, v) == LET t == UpdateInScopeOrNot(s, v) IN [t EXCEPT !.changed = @ \union {v}]

OnKilledVarRecreated(s, new, killed) ==
    LET t == RemoveExpression(s, killed)
    IN IF t.threw THEN Caught(t)
       ELSE [AddExpression(t, new) EXCEPT !.revived = @ \union {new}]

OnTentativelyCreated(s, new, initial) ==
    IF s.heap[initial].scope THEN s
    ELSE LET t == RemoveExpression(s, initial)
         IN IF t.threw THEN Caught(t) ELSE AddExpression(t, new)

-----------------------------------------------------------------------------
(* The dialog.  Variables made for one that was closed since reach nobody. *)

(* on_expression_created_signal, then on_expr_inspected of the monitor if  *)
(* it has opened the dialog, then on_variable_inspected.  The row is       *)
(* expanded, which asks for the members.                                   *)
OnInspected(s, v, serial) ==
    LET picker == IF s.dialog.from = "monitor" THEN ~IsMonitored(s, v) ELSE s.dialog.picker
    IN IF s.dialog.serial # serial THEN s
       ELSE Queue([s EXCEPT !.dialog = [@ EXCEPT !.var = v, !.shows = v, !.picker = picker,
                                                 !.button = @ \/ picker]],
                  IF s.heap[v].folded THEN <<UnfoldVariable(s, v)>> ELSE <<>>)

-----------------------------------------------------------------------------
Init ==
    /\ may \in Scenarios
    /\ gdb = [inferior |-> "stopped", stack |-> <<<<"main", 1>>>>, calls |-> 1, objs |-> <<>>, next |-> 1,
              goes |-> 0]
    /\ n = [queue |-> <<>>, heap |-> <<>>, monitored |-> <<>>, killed |-> <<>>, revived |-> {}, changed |-> {},
            inScope |-> {}, rows |-> NoRows, drawable |-> TRUE, upToDate |-> TRUE, attached |-> TRUE,
            dialog |-> Closed, opened |-> 0, threw |-> FALSE, wanted |-> {}]
    /\ clicks = 0

Ready == n.queue = <<>> /\ ~Opened

(* The program is continued; it stops where it was, in a function it has   *)
(* called, or after its return.                                            *)
Step ==
    /\ Ready /\ gdb.inferior = "stopped" /\ MayGo(gdb)
    /\ gdb' = Resumed(gdb)
    /\ UNCHANGED <<may, n, clicks>>

InferiorStops ==
    /\ gdb.inferior = "running"
    /\ \E stack \in NextStacks(gdb) :
            gdb' = [gdb EXCEPT !.inferior = "stopped", !.stack = stack,
                               !.calls = IF Len(stack) > Len(gdb.stack) THEN @ + 1 ELSE @]
    /\ n' = Release(OnStopped(n))
    /\ UNCHANGED <<may, clicks>>

(* on_program_finished_signal; a detachment clears the same.               *)
InferiorExits ==
    /\ "exits" \in may /\ gdb.inferior = "running"
    /\ gdb' = [gdb EXCEPT !.inferior = "none", !.stack = <<>>]
    /\ n' = Release([ReInit(n, TRUE) EXCEPT !.attached = FALSE])
    /\ UNCHANGED <<may, clicks>>

(* run, restart_local_inferior: not attached, the program is loaded into   *)
(* another GDB; attached, the same GDB runs it again.                      *)
RunAgain ==
    /\ "again" \in may /\ gdb.inferior = "none" /\ Ready /\ MayGo(gdb)
    /\ gdb' = Start(Relaunched(gdb))
    /\ n' = Release([ReInit(n, TRUE) EXCEPT !.attached = TRUE])
    /\ UNCHANGED <<may, clicks>>
Restart ==
    /\ "restart" \in may /\ gdb.inferior = "stopped" /\ Ready /\ MayGo(gdb)
    /\ gdb' = Start(gdb)
    /\ n' = Release(ReInit(n, TRUE))
    /\ UNCHANGED <<may, clicks>>
(* execute_program, of another program.                                    *)
Replace ==
    /\ "replace" \in may /\ gdb.inferior # "running" /\ Ready /\ MayGo(gdb)
    /\ gdb' = Start(Relaunched(gdb))
    /\ n' = Release([ReInit(n, FALSE) EXCEPT !.attached = TRUE, !.wanted = {}])
    /\ UNCHANGED <<may, clicks>>

(* -var-update tells whether an object is in scope when that has changed.  *)
Reply ==
    /\ n.queue # <<>> /\ gdb.inferior # "running"
    /\ LET c == Head(n.queue)
           s == [n EXCEPT !.queue = Tail(@)]
       IN \/ /\ c.op = "create" /\ Found(gdb, c.expr) = {}
             /\ n' = Release(s)
             /\ UNCHANGED gdb
          \/ /\ c.op = "create"
             /\ \E at \in Found(gdb, c.expr) :
                    gdb' = [gdb EXCEPT !.objs = (gdb.next :> [at |-> at, told |-> TRUE]) @@ @, !.next = @ + 1]
             /\ LET v == Fresh(n)
                    t == [s EXCEPT !.heap = (v :> Variable(c.expr, gdb.next)) @@ @]
                IN n' = Release(CASE c.slot[1] = "inspect" -> OnInspected(t, v, c.slot[3])
                                  [] c.slot[1] = "killed" -> OnKilledVarRecreated(t, v, c.slot[2])
                                  [] c.slot[1] = "revived" -> OnTentativelyCreated(t, v, c.slot[2]))
          \/ /\ c.op = "update" /\ c.obj \in DOMAIN gdb.objs
             /\ LET now == Alive(gdb, gdb.objs[c.obj].at)
                    t == IF now = gdb.objs[c.obj].told THEN s ELSE [s EXCEPT !.heap[c.var].scope = now]
                IN /\ gdb' = [gdb EXCEPT !.objs[c.obj].told = now]
                   /\ n' = Release(OnVarsChanged(t, c.var))
          \/ /\ c.op = "unfold" /\ c.obj \in DOMAIN gdb.objs
             /\ n' = Release([s EXCEPT !.heap[c.var].folded = FALSE])
             /\ UNCHANGED gdb
          \/ /\ c.op \in {"update", "unfold"} /\ c.obj \notin DOMAIN gdb.objs
             /\ n' = Release(s)
             /\ UNCHANGED gdb
          \/ /\ c.op = "delete"
             /\ gdb' = [gdb EXCEPT !.objs = [o \in DOMAIN @ \ {c.obj} |-> @[o]]]
             /\ n' = s
    /\ UNCHANGED <<may, clicks>>

-----------------------------------------------------------------------------
(* The user.  A dialog that is open takes every click.                     *)

Clicks ==
    /\ clicks < MaxClicks /\ clicks' = clicks + 1
    /\ Len(n.queue) <= IF Waits THEN 0 ELSE MaxQueue
    /\ Waits => gdb.inferior # "running"
    /\ UNCHANGED <<may, gdb>>

ShowOrHide ==
    /\ "hiding" \in may /\ ~Opened /\ Clicks
    /\ n' = [n EXCEPT !.drawable = ~@]
(* on_draw_signal                                                          *)
Draw ==
    /\ n.drawable /\ ~n.upToDate
    /\ n' = Release([Finish(n) EXCEPT !.upToDate = TRUE])
    /\ UNCHANGED <<may, gdb, clicks>>

(* on_add_expression_action of the monitor, inspect_expression of the      *)
(* perspective, which needs a debugger that is ready.                      *)
OpenDialog ==
    /\ ~Opened /\ Clicks
    /\ \E from \in {"monitor", "menu"} :
        /\ from = "menu" => gdb.inferior = "stopped" /\ n.queue = <<>>
        /\ from = "monitor" => n.drawable
        /\ n' = [n EXCEPT !.dialog = [Closed EXCEPT !.serial = n.opened + 1, !.from = from], !.opened = @ + 1]

Inspect ==
    /\ Opened /\ Clicks
    /\ \E expr \in may \intersect Exprs :
            n' = Release(Queue([n EXCEPT !.dialog.shows = None],
                               <<CreateVariable(expr, <<"inspect", None, n.dialog.serial>>)>>))

(* on_do_monitor_button_clicked                                            *)
Monitor ==
    /\ Opened /\ n.dialog.button /\ Clicks
    /\ n' = [AddExpression(n, n.dialog.var) EXCEPT !.wanted = @ \union {n.heap[n.dialog.var].expr}]

CloseDialog ==
    /\ Opened
    /\ n' = Release([n EXCEPT !.dialog = Closed])
    /\ UNCHANGED <<may, gdb, clicks>>

(* on_tree_view_row_expanded_signal                                        *)
Expand ==
    /\ n.drawable /\ ~Opened /\ Clicks
    /\ \E node \in Nodes : \E v \in ToSet(n.rows[node]) :
        /\ n.heap[v].folded
        /\ n' = Queue(n, <<UnfoldVariable(n, v)>>)

(* on_remove_expressions_action                                            *)
RemoveSelected ==
    /\ "remove" \in may /\ n.drawable /\ ~Opened /\ Clicks
    /\ \E node \in Nodes : \E v \in ToSet(n.rows[node]) :
            n' = Release([Caught(RemoveExpression(n, v)) EXCEPT !.wanted = @ \ {n.heap[v].expr}])

Next == Step \/ InferiorStops \/ InferiorExits \/ RunAgain \/ Restart \/ Replace \/ Reply
        \/ ShowOrHide \/ Draw \/ OpenDialog \/ Inspect \/ Monitor \/ CloseDialog \/ Expand \/ RemoveSelected

Spec == Init /\ [][Next]_vars

-----------------------------------------------------------------------------
Quiet == n.queue = <<>> /\ gdb.inferior = "stopped" /\ n.drawable /\ n.upToDate
ExprsOf(list) == {n.heap[v].expr : v \in ToSet(list)}

(* When all is answered, each monitored expression has one row, under the  *)
(* node that says whether GDB finds it: after calls and returns, restarts, *)
(* stops that happened while the monitor was hidden.  Other rows are of    *)
(* killed expressions, out of scope (update_expr_in_scope_or_not).         *)
ShownWhereItIs ==
    Quiet /\ (Waits \/ "remove" \notin may) =>
        /\ \A v \in ToSet(n.monitored) :
            /\ n.heap[v].obj \in DOMAIN gdb.objs
            /\ n.heap[v].scope = Alive(gdb, gdb.objs[n.heap[v].obj].at)
            /\ Contains(n.rows[NodeOf(n, v)], v)
        /\ IsInjective(n.rows["in"] \o n.rows["out"])
        /\ ToSet(n.rows["in"]) \subseteq ToSet(n.monitored)
        /\ ToSet(n.rows["out"]) \subseteq ToSet(n.monitored) \union ToSet(n.killed)

(* Whatever happened to the program, the monitor remembers the expressions *)
(* the user gave it and did not take back, and no other                    *)
(* (kill_monitored_expressions, on_killed_var_recreated).                  *)
NothingForgotten ==
    n.queue = <<>> /\ (Waits \/ "remove" \notin may) =>
        ExprsOf(n.monitored) \union ExprsOf(n.killed) = n.wanted

(* ... and an expression that was killed with a program is monitored again *)
(* at the first stop of the next one where it can be evaluated.            *)
RevivedWhenPossible ==
    Quiet /\ (Waits \/ "remove" \notin may) => \A expr \in ExprsOf(n.killed) : Found(gdb, expr) = {}

(* "These expressions must be automatically re-created when the inferior   *)
(* starts again" (kill_monitored_expressions).  Refuted: beside another    *)
(* one a structure that is not unfolded yet counts as monitored, and what  *)
(* was killed is given up for it.                                          *)
KilledComeBack == n.queue = <<>> /\ Waits => n.wanted \subseteq ExprsOf(n.monitored) \union ExprsOf(n.killed)
=============================================================================
