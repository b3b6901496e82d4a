-------------------------- MODULE VariableObjects --------------------------
(***************************************************************************)
(* The local variables on display: GDB's variable objects, their client    *)
(* side IDebugger::Variable trees (nmv-i-debugger.h), the commands and     *)
(* handlers between the two (nmv-gdb-engine.cc, nmv-dbg-common.cc), the    *)
(* rows of LocalVarsInspector (nmv-variables-utils.cc) and the walker that *)
(* copies a value (nmv-varobj-walker.cc).                                  *)
(*                                                                         *)
(* Commands are answered one at a time and in order (GdbCommandQueue).     *)
(* Which variables a frame has is in FrameViews: here a frame has the same *)
(* variables as long as the program stays in it.                           *)
(***************************************************************************)
EXTENDS Integers, Sequences, FiniteSets, FiniteSetsExt, SequencesExt

CONSTANTS
    MaxLen,         \* bound: elements of a container
    MaxStops,       \* bound: stops of the program
    MaxQueue,       \* bound: commands waiting when the user adds one
    MaxClicks,      \* bound: what the user does at one stop
    Scenarios       \* sets of Features, of which a behaviour has one

(* The variables: a container with a pretty printer, a structure with a    *)
(* container in it, a string, which has members without its printer only.  *)
(* What may happen: pretty printing is toggled, other frames are entered,  *)
(* containers shrink, the user does not wait, copies a value, the program  *)
(* ends.                                                                   *)
Shapes == {"container", "struct", "string"}
Features == Shapes \union {"toggle", "frames", "shrinks", "haste", "copy", "exits"}

VariableObjectsAssumption ==
    /\ {MaxLen, MaxStops, MaxQueue, MaxClicks} \subseteq Nat \ {0}
    /\ Scenarios \subseteq SUBSET Features

VARIABLES
    may,    \* the features of this behaviour, chosen once
    gdb,    \* inferior, data of the variables, objects
    n,      \* Nemiver: queue, heap of Variables, rows, what the views note
    clicks  \* of the user since the program stopped

vars == <<may, gdb, n, clicks>>

Waits == "haste" \notin may
None == 0           \* no variable

-----------------------------------------------------------------------------
(* GDB.  An object is named by its place in its tree, <<root, member...>>. *)

(* The member a container or a string has without its printer.             *)
Impl == 0

Locals == SetToSortSeq(may \intersect Shapes, LAMBDA a, b : a = "container" \/ b = "string")
MemberShape(shape, i) == IF shape = "struct" /\ i = 2 THEN "container" ELSE "int"
ShapeOf(g, obj) == FoldLeft(MemberShape, g.roots[obj[1]], Tail(obj))

Members(g, obj) ==
    LET shape == ShapeOf(g, obj)
        printed == g.objs[obj].vis = "default"
    IN CASE shape = "int" -> <<>>
         [] shape = "struct" -> <<1, 2>>
         [] shape = "container" /\ printed -> [i \in 1..g.len |-> i]
         [] shape = "string" /\ printed -> <<>>
         [] OTHER -> <<Impl>>
Dynamic(g, obj) == ShapeOf(g, obj) = "container" /\ g.objs[obj].vis = "default"

(* What a client can tell of values: those of integers and of a string     *)
(* change, compound ones are "{...}".                                      *)
Value(g, obj) ==
    IF Members(g, obj) = <<>> THEN <<"value", g.val>> ELSE <<"{...}">>

Object == [vis |-> "default", listed |-> FALSE, kids |-> <<>>, val |-> <<>>]

Below(g, obj) == {o \in DOMAIN g.objs : IsStrictPrefix(obj, o)}
Without(g, objs) == [g EXCEPT !.objs = [o \in DOMAIN @ \ objs |-> @[o]]]

(* The members are as many and with the values the program has now.        *)
Remembered(g, obj, names) ==
    LET gone == {o \in Below(g, obj) : \A name \in names : ~IsPrefix(name, o)}
    IN [g EXCEPT !.objs = [o \in (DOMAIN @ \ gone) \union names |->
                               IF o \in DOMAIN @ THEN @[o] ELSE Object]]
Listing(g, obj, now, known) ==
    [g EXCEPT !.objs = [o \in DOMAIN @ |->
        IF o = obj THEN [@[o] EXCEPT !.listed = TRUE, !.kids = now]
        ELSE IF o \notin known THEN [@[o] EXCEPT !.val = Value(g, o)] ELSE @[o]]]
WithMembers(g, obj) ==
    LET now == Members(g, obj)
    IN Listing(Remembered(g, obj, {Append(obj, now[i]) : i \in 1..Len(now)}),
               obj, now, DOMAIN g.objs)

(* -var-create, -var-delete, -var-list-children, -var-set-visualizer       *)
Created(g, shape) ==
    LET obj == <<Len(g.roots) + 1>>
        there == [g EXCEPT !.roots = Append(@, shape),
                           !.objs = (obj :> Object) @@ @]
    IN [there EXCEPT !.objs[obj].val = Value(there, obj)]
Deleted(g, obj) == Without(g, {obj} \union Below(g, obj))
Visualized(g, obj, vis) ==
    [Without(g, Below(g, obj)) EXCEPT
        !.objs[obj].vis = vis, !.objs[obj].listed = FALSE, !.objs[obj].kids = <<>>]

(* -var-update: parents before members; the members that have appeared are *)
(* told with the number there are now, which is -1 when it is the same.    *)
RECURSIVE Preorder(_, _)
Preorder(g, obj) ==
    <<obj>> \o FlattenSeq([i \in 1..Len(g.objs[obj].kids) |->
                              Preorder(g, Append(obj, g.objs[obj].kids[i]))])

Change(g, obj) ==
    LET o == g.objs[obj]
        now == Members(g, obj)
        resized == o.listed /\ Dynamic(g, obj) /\ now # o.kids
    IN [obj |-> obj, val |-> Value(g, obj),
        new |-> IF resized THEN Len(now) ELSE -1,
        more |-> IF resized THEN SelectSeq(now, LAMBDA i : i \notin ToSet(o.kids))
                 ELSE <<>>,
        told |-> resized \/ o.val # Value(g, obj)]
Gone(g, obj) ==
    \E k \in 1..(Len(obj) - 1) : LET p == SubSeq(obj, 1, k)
        IN Dynamic(g, p) /\ obj[k + 1] \notin ToSet(Members(g, p))
Changes(g, root) ==
    LET tree == SelectSeq(Preorder(g, root), LAMBDA o : ~Gone(g, o))
        all == [i \in 1..Len(tree) |-> Change(g, tree[i])]
    IN SelectSeq(all, LAMBDA c : c.told)
Revalued(g, root) ==
    [g EXCEPT !.objs = [o \in DOMAIN @ |->
        IF IsPrefix(root, o) THEN [@[o] EXCEPT !.val = Value(g, o)] ELSE @[o]]]
Updated(g, root) ==
    LET resized == {o \in DOMAIN g.objs : IsPrefix(root, o) /\ g.objs[o].listed
                                          /\ Dynamic(g, o)}
    IN Revalued(FoldSet(LAMBDA o, acc : IF o \in DOMAIN acc.objs THEN WithMembers(acc, o)
                                        ELSE acc, g, resized), root)

-----------------------------------------------------------------------------
(* IDebugger::Variable.  n.heap holds the instances alive, by number.      *)
(* parent is a plain pointer, Dangling once the parent was destroyed; kids *)
(* are the references that keep the members alive.                         *)
Dangling == -1

Var(s, v) == s.heap[v]
Variable(obj, val, expects) ==
    [obj |-> obj, parent |-> None, kids |-> <<>>, expects |-> expects,
     val |-> val, vis |-> "unset", revisualize |-> FALSE]

NeedsUnfolding(s, v) == Var(s, v).expects /\ Var(s, v).kids = <<>>
Fresh(s) == Min(1..(Cardinality(DOMAIN s.heap) + 1) \ DOMAIN s.heap)

(* What a pointer to a destroyed variable leads to is not modelled further. *)
Broken(s) == [s EXCEPT !.broken = TRUE]
Throw(s) == [s EXCEPT !.threw = TRUE]
Caught(s) == [s EXCEPT !.threw = FALSE]

RECURSIVE Root(_, _)
Root(s, v) ==
    IF Var(s, v).parent \in {None, Dangling} THEN v ELSE Root(s, Var(s, v).parent)
Orphan(s, v) == Var(s, Root(s, v)).parent = Dangling

(* get_descendant                                                          *)
RECURSIVE Tree(_, _)
Tree(s, v) ==
    <<v>> \o FlattenSeq([i \in 1..Len(Var(s, v).kids) |-> Tree(s, Var(s, v).kids[i])])
Descendant(s, v, obj) ==
    SelectInSeq(Tree(s, v), LAMBDA w : Var(s, w).obj = obj)

(* Variable::append of what an answer describes                            *)
AppendMember(s, v, member) ==
    LET w == Fresh(s)
    IN [s EXCEPT !.heap = (w :> [member EXCEPT !.parent = v])
                          @@ [@ EXCEPT ![v].kids = Append(@, w)]]

(* The members as -var-list-children describes them: numchild, and nothing *)
(* of the members a printer will give.                                     *)
Listed(g, v, obj) ==
    LET o == Append(obj, v)
    IN Variable(o, Value(g, o), Members(g, o) # <<>> /\ ~Dynamic(g, o))
AppendListed(s, g, v, obj) ==
    FoldLeft(LAMBDA t, i : AppendMember(t, v, Listed(g, i, obj)), s, g.objs[obj].kids)

-----------------------------------------------------------------------------
(* GDBEngine's commands.  The text that names the object is written when   *)
(* the command is queued; var keeps the Variable alive.                    *)

Queue(s, cmds) == [s EXCEPT !.queue = @ \o cmds]

ListLocals == [op |-> "list-local-variables", var |-> None]
CreateVariable(shape, last) ==
    [op |-> "create-variable", var |-> None, shape |-> shape, last |-> last]
DeleteVariable(obj) == [op |-> "delete-variable", var |-> None, obj |-> obj]
ListChanged(s, v) ==
    [op |-> "list-changed-variables", var |-> v, obj |-> Var(s, v).obj]
SetVisualizer(s, v, vis, slot) ==
    [op |-> "set-variable-visualizer", var |-> v, obj |-> Var(s, v).obj,
     vis |-> vis, slot |-> slot]
Evaluate(s, v, slot) ==
    [op |-> "evaluate-expression", var |-> v, obj |-> Var(s, v).obj, slot |-> slot]
ListChildren(s, v, slot) ==
    [op |-> "unfold-variable", var |-> v, obj |-> Var(s, v).obj, slot |-> slot]

(* A slot: what is called, with what is bound to it.  then is the slot the *)
(* client gave to the first of a chain of commands.                        *)
Slot(kind, vis, then) == [kind |-> kind, vis |-> vis, then |-> then]
Unfolded(path) == [kind |-> "unfolded", path |-> path]
WalkUnfolded == [kind |-> "walk"]
RowVisualized == [kind |-> "visualized"]

Visualizer(s) == IF s.pretty THEN "default" ELSE "none"

(* unfold_variable_with_visualizer and unfold_variable                     *)
UnfoldWithVisualizer(s, v, vis, then) ==
    Queue(s, <<ListChildren(s, v, Slot("members", vis, then))>>)
UnfoldVariable(s, v, slot) ==
    IF Var(s, v).revisualize
    THEN UnfoldWithVisualizer([s EXCEPT !.heap[v].revisualize = FALSE],
                              v, Var(s, v).vis, slot)
    ELSE Queue(s, <<ListChildren(s, v, slot)>>)

(* revisualize_variable and revisualize_variable_real                      *)
RevisualizeVariable(s, v) ==
    LET vis == Visualizer(s)
        t == [s EXCEPT !.heap[v].kids = <<>>, !.heap[v].revisualize = FALSE]
    IN Queue(t, <<SetVisualizer(t, v, vis, Slot("eval", vis, RowVisualized))>>)

-----------------------------------------------------------------------------
(* The rows.  A row that needs unfolding has one child row without a       *)
(* variable.  A path is the indexes that lead to a row, as in a            *)
(* Gtk::TreePath; n.stray are rows appended where no row is any more.      *)

Row(v, val, rows) == [var |-> v, fold |-> FALSE, val |-> val, rows |-> rows]
Dummy == Row(None, <<>>, <<>>)

(* set_a_variable on a new row                                             *)
RECURSIVE NewRow(_, _)
NewRow(s, v) ==
    IF NeedsUnfolding(s, v)
    THEN [Row(v, Var(s, v).val, <<Dummy>>) EXCEPT !.fold = TRUE]
    ELSE Row(v, Var(s, v).val,
             [i \in 1..Len(Var(s, v).kids) |-> NewRow(s, Var(s, v).kids[i])])

(* append_a_variable under a row                                           *)
AppendRow(s, row, v) ==
    IF row.fold /\ row.rows # <<>>
    THEN [row EXCEPT !.fold = FALSE, !.rows = <<NewRow(s, v)>>]
    ELSE [row EXCEPT !.rows = Append(@, NewRow(s, v))]
AppendRows(s, row, vs) == FoldLeft(LAMBDA r, v : AppendRow(s, r, v), row, vs)

(* update_a_variable_node                                                  *)
UpdateNode(s, row, v) == [row EXCEPT !.var = v, !.val = Var(s, v).val]

(* visualize_a_variable: the rows of members are erased, not the dummy.    *)
Visualize(s, row, v) ==
    LET bare == UpdateNode(s, [row EXCEPT !.rows = SelectSeq(@, LAMBDA r : r.var = None)], v)
    IN IF NeedsUnfolding(s, v)
       THEN [bare EXCEPT !.fold = TRUE, !.rows = Append(@, Dummy)]
       ELSE AppendRows(s, bare, Var(s, v).kids)

RECURSIVE IsRow(_, _), RowAt(_, _), PutRow(_, _, _)
IsRow(rows, path) ==
    path # <<>> /\ Head(path) \in 1..Len(rows)
    /\ (Len(path) = 1 \/ IsRow(rows[Head(path)].rows, Tail(path)))
RowAt(rows, path) ==
    IF Len(path) = 1 THEN rows[Head(path)] ELSE RowAt(rows[Head(path)].rows, Tail(path))
PutRow(rows, path, row) ==
    IF Len(path) = 1 THEN [rows EXCEPT ![Head(path)] = row]
    ELSE [rows EXCEPT ![Head(path)].rows = PutRow(@, Tail(path), row)]
Paths(rows) ==
    {p \in UNION {[1..k -> 1..(MaxLen + 1)] : k \in 1..3} : IsRow(rows, p)}

(* find_a_variable among the rows of local variables                       *)
Matches(s, v, row) ==
    row.var = v \/ (row.var # None /\ Var(s, row.var).obj = Var(s, v).obj)
TopRow(s, v) == SelectInSeq(s.rows, LAMBDA row : Matches(s, v, row))

(* generate_path_to_descendent: sibling_index throws for a variable its    *)
(* parent does not have.                                                   *)
RECURSIVE SiblingPath(_, _), HasSiblingPath(_, _)
HasSiblingPath(s, v) ==
    \/ Var(s, v).parent = None
    \/ /\ Var(s, v).parent # Dangling
       /\ Contains(Var(s, Var(s, v).parent).kids, v)
       /\ HasSiblingPath(s, Var(s, v).parent)
SiblingPath(s, v) ==
    IF Var(s, v).parent = None THEN <<>>
    ELSE SiblingPath(s, Var(s, v).parent)
         \o <<SelectInSeq(Var(s, Var(s, v).parent).kids, LAMBDA w : w = v)>>

(* update_a_variable_real.  The first member erases the dummy row, whose   *)
(* iterator is used for the next one.                                      *)
RECURSIVE UpdateRow(_, _, _, _)
UpdateRow(s, row, v, members) ==
    LET node == UpdateNode(s, row, v)
        kids == Var(s, v).kids
        old == IF row.fold THEN 0 ELSE Len(row.rows)
    IN IF ~members THEN node
       ELSE AppendRows(s,
                [node EXCEPT !.rows = [i \in 1..Len(@) |->
                    IF i <= old /\ i <= Len(kids)
                    THEN UpdateRow(s, @[i], kids[i], TRUE) ELSE @[i]]],
                IF old < Len(kids) THEN SubSeq(kids, old + 1, Len(kids)) ELSE <<>>)
RECURSIVE DummyMet(_, _, _)
DummyMet(s, row, v) ==
    LET kids == Var(s, v).kids
    IN \/ row.fold /\ Len(kids) > 1
       \/ ~row.fold /\ \E i \in 1..Len(kids) :
                i <= Len(row.rows) /\ DummyMet(s, row.rows[i], kids[i])

(* update_a_variable                                                       *)
UpdateLocal(s, v, members) ==
    LET root == Root(s, v)
        top == TopRow(s, root)
        path == <<top>> \o SiblingPath(s, v)
        found == IsRow(s.rows, path) /\ RowAt(s.rows, path).var # None
        where == IF found THEN path ELSE <<top>>
        what == IF found THEN v ELSE root
        all == members \/ ~found
    IN IF s.threw \/ s.broken THEN s
       ELSE IF Orphan(s, v) THEN Broken(s)
       ELSE IF top = 0 THEN s
       ELSE IF ~HasSiblingPath(s, v) THEN Throw([s EXCEPT !.fatal = TRUE])
       ELSE IF all /\ DummyMet(s, RowAt(s.rows, where), what) THEN Broken(s)
       ELSE [s EXCEPT !.rows =
                PutRow(@, where, UpdateRow(s, RowAt(@, where), what, all))]
UpdateLocals(s, vs, members) ==
    FoldLeft(LAMBDA t, v : UpdateLocal(t, v, members), s, vs)

-----------------------------------------------------------------------------
(* Destruction.  A Variable is kept alive by rows, by the lists of the     *)
(* inspector, by commands and by its parent; the ones GDB made by name     *)
(* have their object deleted with them, as long as Nemiver is attached.    *)

RECURSIVE RowVars(_)
RowVars(rows) == UNION {{row.var} \union RowVars(row.rows) : row \in ToSet(rows)}
Held(s) ==
    (RowVars(s.rows) \union ToSet(s.stray) \union ToSet(s.locals) \union ToSet(s.changed)
     \union {c.var : c \in ToSet(s.queue)} \union {s.walk.var}) \ {None}
Alive(s) == UNION {ToSet(Tree(s, v)) : v \in Held(s)}

(* Wrong variant: the destructor leaves the object in GDB.                 *)
ReleaseOnly(s) ==
    LET dead == DOMAIN s.heap \ Alive(s)
    IN [s EXCEPT !.heap = [v \in Alive(s) |->
            IF Var(s, v).parent \in dead
            THEN [Var(s, v) EXCEPT !.parent = Dangling] ELSE Var(s, v)]]

Release(s) ==
    LET dead == DOMAIN s.heap \ Alive(s)
        roots == SetToSortSeq({v \in dead : Len(Var(s, v).obj) = 1}, <)
        left == [v \in Alive(s) |->
                    IF Var(s, v).parent \in dead
                    THEN [Var(s, v) EXCEPT !.parent = Dangling] ELSE Var(s, v)]
    IN Queue([s EXCEPT !.heap = left],
             IF s.attached
             THEN [i \in 1..Len(roots) |-> DeleteVariable(Var(s, roots[i]).obj)]
             ELSE <<>>)

-----------------------------------------------------------------------------
(* LocalVarsInspector.                                                     *)

(* Wrong variant: what was highlighted is not forgotten.                   *)
ReInitKeeping(s) ==
    Release([s EXCEPT !.rows = <<>>, !.stray = <<>>, !.locals = <<>>,
                      !.newFrame = TRUE])

(* re_init_tree_view                                                       *)
ReInit(s) ==
    Release([s EXCEPT !.rows = <<>>, !.stray = <<>>, !.locals = <<>>, !.changed = <<>>,
                      !.newFrame = TRUE])

(* update_local_variables: what was highlighted is drawn again, then every *)
(* variable is asked for its changes.                                      *)
AskChanges(s) ==
    IF s.threw THEN s
    ELSE Queue(s, [i \in 1..Len(s.locals) |-> ListChanged(s, s.locals[i])])
Calmed(s) == IF s.threw THEN s ELSE [s EXCEPT !.changed = <<>>]
UpdateLocalVariables(s) ==
    AskChanges(IF s.newFrame THEN s ELSE Calmed(UpdateLocals(s, s.changed, TRUE)))

(* finish_handling_debugger_stopped_event                                  *)
OnStopped(s, entered) ==
    Queue(IF entered \/ s.locals = <<>> THEN ReInit(s)
          ELSE [s EXCEPT !.newFrame = FALSE], <<ListLocals>>)

(* on_local_variables_listed: a frame has all its variables or none.       *)
OnLocalsListed(s) ==
    IF s.locals # <<>> THEN Caught(UpdateLocalVariables(s))
    ELSE Queue(s, [i \in 1..Len(Locals) |-> CreateVariable(Locals[i], i = Len(Locals))])

(* append_a_local_variable, append_a_local_variable_and_update_all         *)
OnCreated(s, v, last) ==
    LET t == [s EXCEPT !.rows = Append(@, NewRow(s, v)), !.locals = Append(@, v)]
    IN IF last THEN Caught(UpdateLocalVariables(t)) ELSE t

(* on_local_variable_updated_signal                                        *)
OnUpdated(s, vs) ==
    LET t == UpdateLocals(s, vs, FALSE)
    IN IF t.threw THEN Caught(t) ELSE [t EXCEPT !.changed = @ \o vs]

(* on_variable_unfolded_signal, with the path the row had when expanded    *)
OnUnfolded(s, v, path) ==
    IF IsRow(s.rows, path)
    THEN [s EXCEPT !.rows = PutRow(@, path, AppendRows(s, RowAt(@, path), Var(s, v).kids))]
    ELSE [s EXCEPT !.stray = @ \o Var(s, v).kids]

(* update_a_visualized_local_variable                                      *)
OnVisualized(s, v) ==
    LET top == TopRow(s, v)
    IN IF top = 0 THEN s
       ELSE [s EXCEPT !.rows[top] = Visualize(s, @, v)]

-----------------------------------------------------------------------------
(* VarobjWalker, of which the inspector has one.  walk.copy is what        *)
(* dump_variable_value last gave the clipboard.                            *)

RECURSIVE Text(_, _)
Text(s, v) ==
    IF Var(s, v).kids = <<>> THEN Var(s, v).val
    ELSE [i \in 1..Len(Var(s, v).kids) |-> Text(s, Var(s, v).kids[i])]

Visited(s) ==
    IF s.walk.unfolds = 0 THEN [s EXCEPT !.walk.copy = <<Text(s, s.walk.var)>>] ELSE s

Compound(s, v) == Var(s, v).val \in {<<"{...}">>, <<>>}

(* do_walk_variable_real                                                   *)
RECURSIVE WalkVariable(_, _)
WalkVariable(s, v) ==
    IF NeedsUnfolding(s, v) /\ Compound(s, v)
    THEN UnfoldVariable([s EXCEPT !.walk.unfolds = @ + 1], v, WalkUnfolded)
    ELSE IF Var(s, v).kids # <<>>
         THEN FoldLeft(WalkVariable, s, Var(s, v).kids)
         ELSE Visited(s)

(* on_variable_unfolded_signal                                             *)
OnWalkUnfolded(s, v) ==
    Visited(WalkVariable([s EXCEPT !.walk.unfolds = @ - 1], v))

-----------------------------------------------------------------------------
(* The chain of slots of a revisualization.                                *)

Call(s, slot, v) ==
    CASE slot.kind = "unfolded" -> OnUnfolded(s, v, slot.path)
      [] slot.kind = "visualized" -> OnVisualized(s, v)
      [] slot.kind = "walk" -> OnWalkUnfolded(s, v)

(* on_rv_set_visualizer_on_members                                         *)
SetVisualizerOnMembers(s, v, slot) ==
    IF Var(s, v).kids = <<>> THEN s
    ELSE Queue(s, <<SetVisualizer(s, Head(Var(s, v).kids), slot.vis,
                                  [slot EXCEPT !.kind = "next"])>>)

(* Wrong variant: the parent keeps the members it had.                     *)
SetVisualizerOnNextSiblingKeeping(s, v, slot) ==
    LET parent == Var(s, v).parent
        siblings == Var(s, parent).kids
        i == SelectInSeq(siblings, LAMBDA w : w = v)
    IN IF parent = Dangling \/ i = 0 THEN Broken(s)
       ELSE IF i < Len(siblings)
            THEN Queue(s, <<SetVisualizer(s, siblings[i + 1], slot.vis, slot)>>)
            ELSE UnfoldVariable(s, parent, [slot EXCEPT !.kind = "flag"])

(* on_rv_set_visualizer_on_next_sibling: the slot holds an iterator into   *)
(* the members of the parent.                                              *)
SetVisualizerOnNextSibling(s, v, slot) ==
    LET parent == Var(s, v).parent
        siblings == Var(s, parent).kids
        i == SelectInSeq(siblings, LAMBDA w : w = v)
        emptied == [s EXCEPT !.heap[parent].kids = <<>>]
    IN IF parent = Dangling \/ i = 0 THEN Broken(s)
       ELSE IF i < Len(siblings)
            THEN Queue(s, <<SetVisualizer(s, siblings[i + 1], slot.vis, slot)>>)
            ELSE UnfoldVariable(emptied, parent, [slot EXCEPT !.kind = "flag"])

(* Wrong variant: the members' own members will be shown as they come.     *)
FlagForgotten(s, v, slot) ==
    Call([s EXCEPT !.heap = [w \in DOMAIN @ |->
              IF w \in ToSet(Var(s, v).kids) THEN [@[w] EXCEPT !.vis = slot.vis]
              ELSE @[w]]], slot.then, v)

(* on_rv_flag                                                              *)
Flag(s, v, slot) ==
    LET kids == ToSet(Var(s, v).kids)
        flagged == [s EXCEPT !.heap = [w \in DOMAIN @ |->
                        IF w \in kids THEN [@[w] EXCEPT !.vis = slot.vis,
                                                        !.revisualize = TRUE]
                        ELSE @[w]]]
    IN Call(flagged, slot.then, v)

OnVariableVisualizer(s, v, slot) ==
    IF slot.kind = "eval"
    THEN Queue(s, <<Evaluate(s, v, [slot EXCEPT !.kind = "unfold"])>>)
    ELSE SetVisualizerOnNextSibling(s, v, slot)

OnUnfoldVariable(s, v, slot) ==
    CASE slot.kind = "members" -> SetVisualizerOnMembers(s, v, slot)
      [] slot.kind = "flag" -> Flag(s, v, slot)
      [] OTHER -> Call(s, slot, v)

-----------------------------------------------------------------------------
(* VarChange::apply_to_variable: it counts the members of the variable     *)
(* that was asked about, whichever one the change is of.                   *)

ApplyChange(acc, root, c, g) ==
    LET s == acc.s
        at == Descendant(s, root, c.obj)
        v == Tree(s, root)[at]
        size == Len(Var(s, root).kids)
        valued == [s EXCEPT !.heap[v].val = c.val]
        new == [i \in 1..Len(c.more) |-> Listed(g, c.more[i], c.obj)]
        known == \E i \in 1..Len(new) : Descendant(s, root, new[i].obj) # 0
        grown == FoldLeft(LAMBDA t, m : AppendMember(t, v, m), valued, new)
        added == SubSeq(Var(grown, v).kids, Len(Var(s, v).kids) + 1, Len(Var(grown, v).kids))
    IN IF s.threw \/ s.broken THEN acc
       ELSE IF at = 0 THEN [acc EXCEPT !.s = Throw(s)]
       ELSE IF c.new > size
            THEN IF new = <<>> \/ known THEN [acc EXCEPT !.s = Throw(valued)]
                 ELSE [s |-> grown, vars |-> Append(acc.vars, v) \o added]
       ELSE IF c.new > -1 /\ c.new < size
            THEN IF v # root THEN [acc EXCEPT !.s = Broken(s)]
                 ELSE [s |-> [valued EXCEPT !.heap[v].kids = SubSeq(@, 1, c.new)],
                       vars |-> Append(acc.vars, v)]
       ELSE IF new # <<>> THEN [acc EXCEPT !.s = Throw(valued)]
       ELSE [s |-> valued, vars |-> Append(acc.vars, v)]

(* OnListChangedVariableHandler: the answer g describes                    *)
ChangesApplied(all) ==
    IF all.s.threw \/ all.s.broken THEN Caught(all.s) ELSE OnUpdated(all.s, all.vars)
OnListChanged(s, root, g, changes) ==
    ChangesApplied(FoldLeft(LAMBDA acc, c : ApplyChange(acc, root, c, g),
                            [s |-> s, vars |-> <<>>], changes))

-----------------------------------------------------------------------------
Init ==
    /\ may \in Scenarios
    /\ gdb = [inferior |-> "none", len |-> 1, val |-> 0, roots |-> <<>>,
              objs |-> [o \in {} |-> Object], stops |-> 0]
    /\ n = [queue |-> <<>>, heap |-> [v \in {} |-> <<>>], rows |-> <<>>, stray |-> <<>>,
            locals |-> <<>>, changed |-> <<>>, newFrame |-> TRUE, pretty |-> TRUE,
            attached |-> FALSE, walk |-> [var |-> None, unfolds |-> 0, copy |-> <<>>, want |-> <<>>],
            threw |-> FALSE, fatal |-> FALSE, broken |-> FALSE]
    /\ clicks = 0

(* The program is run or goes on: the menus allow it in READY only, which  *)
(* no command waits in.                                                    *)
Step ==
    /\ gdb.inferior \in {"none", "stopped"} /\ n.queue = <<>> /\ ~n.broken
    /\ gdb.stops < MaxStops
    /\ gdb' = [gdb EXCEPT !.inferior = "running"]
    /\ n' = [n EXCEPT !.attached = TRUE]
    /\ UNCHANGED <<may, clicks>>

Lengths == {k \in 1..MaxLen : k >= gdb.len \/ "shrinks" \in may}

InferiorStops ==
    /\ gdb.inferior = "running"
    /\ \E len \in Lengths, entered \in BOOLEAN :
        /\ (n.locals # <<>> /\ entered => "frames" \in may)
        /\ gdb' = [gdb EXCEPT !.inferior = "stopped", !.stops = @ + 1,
                              !.val = 1 - @, !.len = len]
        /\ n' = OnStopped(n, entered)
    /\ clicks' = 0
    /\ UNCHANGED may

(* GDBEngine is not attached any more when the views are cleared.          *)
InferiorExits ==
    /\ gdb.inferior = "running" /\ "exits" \in may /\ gdb.stops > 0
    /\ gdb' = [gdb EXCEPT !.inferior = "none"]
    /\ n' = ReInit([n EXCEPT !.attached = FALSE])
    /\ clicks' = 0
    /\ UNCHANGED may

(* What GDB has then, and Nemiver once the handler has run.                *)
AnswerUnfold(c, s, g) ==
    [g |-> g, s |-> OnUnfoldVariable(AppendListed(s, g, c.var, c.obj), c.var, c.slot)]
AnswerChanges(c, s, g, changes) ==
    [g |-> g, s |-> OnListChanged(s, c.var, g, changes)]

(* The answer to the command in flight, and its handler.  GDB answers with *)
(* an error when it has not the object named.                              *)
Answer(c, s) ==
    LET g == gdb
        known == c.obj \in DOMAIN g.objs
    IN CASE c.op = "delete-variable" ->
              [g |-> IF known THEN Deleted(g, c.obj) ELSE g, s |-> s]
         [] ~known -> [g |-> g, s |-> s]
         [] c.op = "set-variable-visualizer" ->
              [g |-> Visualized(g, c.obj, c.vis),
               s |-> OnVariableVisualizer([s EXCEPT !.heap[c.var].vis = c.vis],
                                          c.var, c.slot)]
         [] c.op = "evaluate-expression" ->
              [g |-> g,
               s |-> UnfoldWithVisualizer([s EXCEPT !.heap[c.var].val = Value(g, c.obj)],
                                          c.var, c.slot.vis, c.slot.then)]
         [] c.op = "unfold-variable" -> AnswerUnfold(c, s, WithMembers(g, c.obj))
         [] c.op = "list-changed-variables" ->
              AnswerChanges(c, s, Updated(g, c.obj), Changes(g, c.obj))

Reply ==
    /\ n.queue # <<>> /\ gdb.inferior # "running" /\ ~n.broken
    /\ LET c == Head(n.queue)
           s == [n EXCEPT !.queue = Tail(@)]
       IN \/ /\ c.op = "list-local-variables"
             /\ n' = Release(OnLocalsListed(s))
             /\ UNCHANGED gdb
          \/ /\ c.op = "create-variable"
             /\ gdb' = Created(gdb, c.shape)
             /\ LET obj == <<Len(gdb'.roots)>>
                    v == Fresh(s)
                    t == [s EXCEPT !.heap = (v :> Variable(obj, Value(gdb', obj),
                                                Members(gdb', obj) # <<>>)) @@ @]
                IN n' = Release(OnCreated(t, v, c.last))
          \/ /\ c.op \notin {"list-local-variables", "create-variable"}
             /\ \E after \in {Answer(c, s)} : gdb' = after.g /\ n' = Release(after.s)
    /\ UNCHANGED <<may, clicks>>

-----------------------------------------------------------------------------
(* The user.                                                               *)

MayClick == /\ clicks < MaxClicks /\ ~n.broken
            /\ Len(n.queue) <= IF Waits THEN 0 ELSE MaxQueue
            /\ gdb.inferior # "none"
            /\ Waits => gdb.inferior = "stopped"
Clicked == clicks' = clicks + 1 /\ UNCHANGED <<may, gdb>>

(* on_tree_view_row_expanded_signal                                        *)
Expand ==
    /\ MayClick
    /\ \E path \in Paths(n.rows) :
        /\ RowAt(n.rows, path).fold
        /\ n' = Release(UnfoldVariable(n, RowAt(n.rows, path).var, Unfolded(path)))
    /\ Clicked

(* on_conf_key_changed_signal, visualize_local_variables_of_current_function *)
Toggle ==
    /\ MayClick /\ "toggle" \in may
    /\ n' = Release(FoldLeft(RevisualizeVariable, [n EXCEPT !.pretty = ~@], n.locals))
    /\ Clicked

RECURSIVE WholeObject(_, _), Whole(_, _)
WholeObject(g, obj) ==
    LET h == WithMembers(g, obj) kids == h.objs[obj].kids
    IN IF kids = <<>> \/ (Dynamic(g, obj) /\ Len(obj) > 1) THEN Value(g, obj)
       ELSE [i \in 1..Len(kids) |-> WholeObject(h, Append(obj, kids[i]))]
Whole(g, v) ==
    LET kids == Var(n, v).kids
    IN IF kids # <<>> THEN [i \in 1..Len(kids) |-> Whole(g, kids[i])]
       ELSE IF NeedsUnfolding(n, v) THEN WholeObject(g, Var(n, v).obj) ELSE Var(n, v).val

(* on_variable_value_copy_to_clipboard_action                              *)
CopyValue ==
    /\ MayClick /\ "copy" \in may
    /\ \E path \in Paths(n.rows) :
        LET v == RowAt(n.rows, path).var
        IN /\ v # None
           /\ n' = Release(WalkVariable([n EXCEPT !.walk.var = v, !.walk.copy = <<>>,
                                                   !.walk.want = <<Whole(gdb, v)>>], v))
    /\ Clicked

Next == Step \/ InferiorStops \/ InferiorExits \/ Reply \/ Expand \/ Toggle \/ CopyValue

Spec == Init /\ [][Next]_vars

-----------------------------------------------------------------------------
Quiet == n.queue = <<>> /\ gdb.inferior = "stopped" /\ ~n.broken
Shown(s) == UNION {ToSet(Tree(s, v)) : v \in ToSet(s.locals)}

(* A variable whose value changed is no longer a member of its parent:     *)
(* drawing it again at the next stop fails (see SiblingsKnown).            *)
Stuck == \E v \in ToSet(n.changed) : ~HasSiblingPath(n, v)

(* When all is answered, the variables on display are the ones GDB has,    *)
(* with the members and the values it would give: after stops, after a     *)
(* revisualization, after -var-update has said that a container grew or    *)
(* shrank (apply_to_variable).  A user who expands a row twice before the  *)
(* answer, or copies the value of a folded one, gets members twice.        *)
MembersAreGdbs ==
    Quiet /\ Waits /\ "copy" \notin may /\ ~Stuck =>
        \A v \in Shown(n) :
            LET obj == Var(n, v).obj
                kids == Var(n, v).kids
            IN /\ obj \in DOMAIN gdb.objs
               /\ Var(n, v).val = Value(gdb, obj)
               /\ kids # <<>> =>
                    [i \in 1..Len(kids) |-> Var(n, kids[i]).obj]
                    = [i \in 1..Len(Members(gdb, obj)) |->
                            Append(obj, Members(gdb, obj)[i])]

(* When all is answered, the tree view shows each local variable once, in  *)
(* order, with its value, and under it its members or, as long as it was   *)
(* not unfolded, the row without a variable (update_a_variable,            *)
(* append_a_variable, visualize_a_variable).  Rows of members that went    *)
(* away stay; a string shown without printer and with it again, too.       *)
RECURSIVE Shows(_, _)
Shows(row, v) ==
    LET kids == Var(n, v).kids
    IN /\ row.var = v /\ row.val = Var(n, v).val
       /\ IF row.fold THEN kids = <<>> /\ row.rows = <<Dummy>>
          ELSE /\ Len(row.rows) = Len(kids)
               /\ \A i \in 1..Len(kids) : Shows(row.rows[i], kids[i])
RowsAreMembers ==
    Quiet /\ Waits /\ may \intersect {"copy", "shrinks", "string"} = {} /\ ~Stuck =>
        /\ n.stray = <<>>
        /\ Len(n.rows) = Len(n.locals)
        /\ \A i \in 1..Len(n.locals) : Shows(n.rows[i], n.locals[i])

(* When all is answered, the objects GDB keeps are the ones of the         *)
(* variables on display: the rest was deleted with its last reference,     *)
(* whichever row, list or command held it (~Variable).  The end of the     *)
(* program is left out: GDBEngine is detached when the views are cleared.  *)
PeersOwned ==
    Quiet /\ "exits" \notin may =>
        {o \in DOMAIN gdb.objs : Len(o) = 1} = {Var(n, v).obj : v \in ToSet(n.locals)}

(* When all is answered, what is on display is printed with the visualizer *)
(* the user chose, members that were unfolded after the choice included    *)
(* (revisualize_variable and its chain of slots).                          *)
VisualizersFollow ==
    Quiet => \A v \in Shown(n) : gdb.objs[Var(n, v).obj].vis = Visualizer(n)

(* No slot goes through a pointer to a parent that was destroyed or an     *)
(* iterator to a member that was erased, not even for a user who does not  *)
(* wait while frames come and go.  With toggles that are not waited for,   *)
(* or a value copied from a folded row, some do.                           *)
NoDangling == ~n.broken \/ may \intersect {"copy", "toggle"} # {}

(* What the walker gave the clipboard in the end is the whole value, every *)
(* folded member of the time unfolded (VarobjWalker).                      *)
CopyIsWhole == Quiet /\ Waits => n.walk.copy = n.walk.want

(* "fatal: should not be reached": sibling_index is asked of members only. *)
(* Refuted: a highlighted member whose parent was revisualized is drawn    *)
(* again at every later stop, and no variable of the frame is updated.     *)
SiblingsKnown == ~n.fatal
=============================================================================
