------------------------------ MODULE ValueTip ------------------------------
(***************************************************************************)
(* The value of the word the pointer rests on (nmv-dbg-perspective.cc), in *)
(* a tip that pops up there (nmv-popup-tip.cc) with an inspector in it     *)
(* (nmv-expr-inspector.cc).  A timer, the answers of GDB and the events of *)
(* the pointer come in any order.                                          *)
(*                                                                         *)
(* Commands are answered one at a time and in order (GdbCommandQueue), by  *)
(* a GDB that waits for the program to stop.  Values and members are in    *)
(* VariableObjects: a value here is the stop at which it was read.         *)
(***************************************************************************)
EXTENDS Integers, Sequences, FiniteSets, FiniteSetsExt, SequencesExt

CONSTANTS
    MaxGoes,        \* bound: how often the program is run or continued
    MaxQueue,       \* bound: commands waiting when the timer goes off
    MaxClicks,      \* bound: what the pointer and the user do in a behaviour
    Scenarios       \* sets of Features, of which a behaviour has one

(* There is a structure; a variable of the function main calls; the same   *)
(* word at two places.  The preferences of visualizers were changed once;  *)
(* the program goes on; it ends; the user does not wait for the answers.   *)
Features == {"struct", "local", "twice", "revisualize", "steps", "exits", "haste"}

ValueTipAssumption ==
    /\ {MaxGoes, MaxQueue, MaxClicks} \subseteq Nat \ {0}
    /\ Scenarios \subseteq SUBSET Features

VARIABLES
    may,    \* the features of this behaviour, chosen once
    gdb,    \* inferior, function it is in, number of the stop, objects
    n,      \* Nemiver: queue, Variables, timer, request, tip
    clicks  \* of the user

vars == <<may, gdb, n, clicks>>

None == 0
Waits == "haste" \notin may

-----------------------------------------------------------------------------
(* The text: at some places there is a word, at one there is none.         *)

Blank == 1
Word == <<"", "x", "s", "y", "x">>
Places == {Blank, 2} \union {p \in 3..5 : <<"", "", "struct", "local", "twice">>[p] \in may}
Found(g, name) == name = "y" => g.in = "f"

-----------------------------------------------------------------------------
(* Nemiver.  n.heap: the Variables by number; n.asked: the word a value    *)
(* was asked for, and where (var_to_popup, var_popup_tip_x, y), if the     *)
(* request is open (in_show_var_value_at_pos_transaction).                 *)

Variable(name, obj, value) == [name |-> name, obj |-> obj, value |-> value, folded |-> name = "s"]
Queue(s, c) == [s EXCEPT !.queue = Append(@, c)]
Up(s) == s.tip.serial # None
Down == [serial |-> None, at |-> None, var |-> None, rows |-> <<>>]
Mine(s, c) == Up(s) /\ s.tip.serial = c.serial

(* ~Variable: the object of a Variable nobody holds any more is deleted.   *)
Holders(s) ==
    {s.tip.var} \union {r.var : r \in ToSet(s.tip.rows)}
    \union {c.var : c \in {c \in ToSet(s.queue) : c.op \in {"unfold", "revisualize"}}}
Release(s) ==
    LET gone == SetToSeq(DOMAIN s.heap \ Holders(s))
    IN [s EXCEPT !.heap = [v \in DOMAIN @ \ ToSet(gone) |-> @[v]],
                 !.queue = IF s.attached
                           THEN @ \o [i \in 1..Len(gone) |-> [op |-> "delete", obj |-> s.heap[gone[i]].obj]]
                           ELSE @]
Fresh(s) == Min(1..(Cardinality(DOMAIN s.heap) + 1) \ DOMAIN s.heap)

(* on_popup_tip_hide: the tip and its inspector are destroyed, the answers *)
(* the inspector waits for are for nobody (sigc::trackable).               *)
Hide(s) == Release([s EXCEPT !.tip = Down])

(* restart_mouse_immobile_timer, for a program that was started            *)
RestartTimer(s) == [s EXCEPT !.timer = s.started]

(* try_to_request_show_variable_value_at_position                          *)
Ask(s) ==
    IF s.last \in {None, Blank} THEN s
    ELSE Queue([s EXCEPT !.asked = [open |-> TRUE, name |-> Word[s.last], at |-> s.last]],
               [op |-> "create", name |-> Word[s.last]])

(* graphically_set_expression: in a store that is not empty, the variable  *)
(* goes under its first row.                                               *)
ShowVariable(s, v) ==
    LET row == [var |-> v, under |-> Len(s.tip.rows) > 0, folded |-> s.heap[v].folded]
        t   == [s EXCEPT !.tip.rows = Append(@, row), !.tip.var = v]
    IN IF row.folded THEN Queue(t, [op |-> "unfold", var |-> v, serial |-> s.tip.serial]) ELSE t

(* set_expression of the inspector; revisualizing takes three commands.    *)
SetExpression(s, v) ==
    LET t == [s EXCEPT !.tip.rows = <<>>, !.tip.var = v]
    IN IF "revisualize" \in may
       THEN Queue(t, [op |-> "revisualize", left |-> 2, var |-> v, serial |-> s.tip.serial])
       ELSE ShowVariable(t, v)

(* get_popup_tip, show_underline_tip_at_position                           *)
GetTip(s) ==
    IF Up(s) THEN s ELSE [s EXCEPT !.tip = [Down EXCEPT !.serial = s.serial], !.serial = @ + 1]
PopUp(s, v) == SetExpression([GetTip(s) EXCEPT !.tip.at = s.asked.at], v)

(* on_variable_created_for_tooltip_signal                                  *)
(* Wrong variant: whatever variable was created.                           *)
OnAnyCreated(s, v) == IF s.asked.open THEN [PopUp(s, v) EXCEPT !.asked = [@ EXCEPT !.open = FALSE]] ELSE s
OnCreated(s, v) ==
    IF s.asked.open /\ s.asked.name = s.heap[v].name
    THEN [PopUp(s, v) EXCEPT !.asked = [open |-> FALSE, name |-> "", at |-> @.at]]
    ELSE s

(* on_expression_unfolded_signal, which takes the first row for that of    *)
(* the variable, and on_var_revisualized                                   *)
OnUnfolded(s, c) ==
    LET t == [s EXCEPT !.heap[c.var].folded = FALSE]
    IN IF Mine(t, c) THEN [t EXCEPT !.tip.rows[1].folded = FALSE] ELSE t
OnRevisualized(s, c) ==
    LET t == [s EXCEPT !.heap[c.var].folded = FALSE]
    IN IF Mine(t, c) THEN ShowVariable(t, c.var) ELSE t

(* hide_popup_tip_if_mouse_is_outside                                      *)
HideIfOutside(s, p) == IF Up(s) /\ s.tip.at # p THEN Hide(s) ELSE s
(* PopupTip::Priv::on_leave_notify_event                                   *)
OnLeaveTip(s, p) == IF Up(s) /\ s.tip.at = p THEN Hide(s) ELSE s

-----------------------------------------------------------------------------
Init ==
    /\ may \in Scenarios
    /\ gdb = [inferior |-> "none", in |-> "main", stop |-> 0, objs |-> {}, next |-> 1, goes |-> 0]
    /\ n = [queue |-> <<>>, heap |-> <<>>, timer |-> FALSE, started |-> FALSE, attached |-> FALSE,
            pointer |-> None, last |-> None, asked |-> [open |-> FALSE, name |-> "", at |-> None],
            tip |-> Down, serial |-> 1]
    /\ clicks = 0

Quiet == n.queue = <<>>

(* The program.                                                            *)
Go ==
    /\ gdb.inferior # "running" /\ gdb.goes < MaxGoes
    /\ gdb.inferior = "stopped" => "steps" \in may
    /\ Quiet
    /\ gdb' = [gdb EXCEPT !.inferior = "running", !.goes = @ + 1]
    /\ n' = [n EXCEPT !.started = TRUE, !.attached = TRUE]
    /\ UNCHANGED <<may, clicks>>
InferiorStops ==
    /\ gdb.inferior = "running"
    /\ \E f \in {"main", "f"} :
        gdb' = [gdb EXCEPT !.inferior = "stopped", !.stop = @ + 1, !.in = f]
    /\ UNCHANGED <<may, n, clicks>>
InferiorExits ==
    /\ "exits" \in may /\ gdb.inferior = "running"
    /\ gdb' = [gdb EXCEPT !.inferior = "none"]
    /\ n' = [n EXCEPT !.attached = FALSE]
    /\ UNCHANGED <<may, clicks>>

Reply ==
    /\ ~Quiet /\ gdb.inferior # "running"
    /\ LET c == Head(n.queue)
           s == [n EXCEPT !.queue = Tail(@)]
       IN \/ /\ c.op = "create" /\ Found(gdb, c.name) /\ gdb.inferior = "stopped"
             /\ LET v == Fresh(s)
                    t == [s EXCEPT !.heap = [w \in DOMAIN @ \union {v} |->
                                              IF w = v THEN Variable(c.name, gdb.next, gdb.stop) ELSE @[w]]]
                IN n' = Release(OnCreated(t, v))
             /\ gdb' = [gdb EXCEPT !.objs = @ \union {gdb.next}, !.next = @ + 1]
          \/ /\ c.op = "create" /\ ~(Found(gdb, c.name) /\ gdb.inferior = "stopped")
             /\ n' = s
             /\ UNCHANGED gdb
          \/ /\ c.op = "delete"
             /\ gdb' = [gdb EXCEPT !.objs = @ \ {c.obj}]
             /\ n' = s
          \/ /\ c.op = "unfold"
             /\ n' = Release(OnUnfolded(s, c))
             /\ UNCHANGED gdb
          \/ /\ c.op = "revisualize"
             /\ LET t == [s EXCEPT !.heap[c.var].value = gdb.stop]
                IN n' = Release(IF c.left > 0 THEN Queue(t, [c EXCEPT !.left = @ - 1]) ELSE OnRevisualized(t, c))
             /\ UNCHANGED gdb
    /\ UNCHANGED <<may, clicks>>

(* on_mouse_immobile_timer_signal                                          *)
TimerFires ==
    /\ n.timer /\ Len(n.queue) < MaxQueue
    /\ Waits => Quiet
    /\ n' = [IF n.attached THEN Ask(n) ELSE n EXCEPT !.timer = FALSE]
    /\ UNCHANGED <<may, gdb, clicks>>

-----------------------------------------------------------------------------
(* The pointer and the user.                                               *)

Clicks == /\ clicks < MaxClicks /\ clicks' = clicks + 1
          /\ Waits => Quiet
          /\ UNCHANGED <<may, gdb>>

(* on_motion_notify_event_signal                                           *)
Move ==
    /\ Clicks
    /\ \E p \in Places \ {n.pointer} :
        n' = HideIfOutside(RestartTimer([n EXCEPT !.pointer = p, !.last = p]), p)

(* The pointer leaves the text, or the tip (on_leave_notify_event_signal). *)
Leave ==
    /\ n.pointer # None /\ Clicks
    /\ n' = OnLeaveTip([n EXCEPT !.pointer = None, !.timer = FALSE], n.pointer)

(* PopupTip::Priv::on_signal_focus_out_event                               *)
FocusOut ==
    /\ Up(n) /\ Clicks
    /\ n' = Hide(n)

Next == Go \/ InferiorStops \/ InferiorExits \/ Reply \/ TimerFires \/ Move \/ Leave \/ FocusOut
Spec == Init /\ [][Next]_vars

-----------------------------------------------------------------------------
(* The tip shows the variable of the word it stands at, and no other, with *)
(* its members, when GDB's answers come after the pointer has gone on to   *)
(* another word.  Visualizers take several commands, among which those of  *)
(* another word get: then the tip may show one variable under the other.   *)
TipShown ==
    Up(n) /\ ~({"revisualize", "haste"} \subseteq may) =>
        /\ \A i \in DOMAIN n.tip.rows :
            /\ i = 1 /\ n.heap[n.tip.rows[i].var].name = Word[n.tip.at]
            /\ Quiet => ~n.tip.rows[i].folded
        /\ Quiet => Len(n.tip.rows) = 1

(* For a user who waits for the answers, the tip is under the pointer.     *)
TipUnderPointer == Waits /\ Up(n) => n.pointer = n.tip.at

(* GDB keeps no object for a tip that has gone, or for a word another was  *)
(* asked for after, as long as there is a program to ask it of.            *)
ObjectsOwned == Quiet /\ "exits" \notin may => gdb.objs = {n.heap[v].obj : v \in DOMAIN n.heap}

(* The tip shows the value of the last stop.  Refuted: the tip stays where *)
(* it is when the program goes on.                                         *)
TipIsCurrent == Quiet /\ Up(n) => n.heap[n.tip.var].value = gdb.stop
=============================================================================
