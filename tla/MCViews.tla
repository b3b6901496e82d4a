------------------------------ MODULE MCViews ------------------------------
(***************************************************************************)
(* The views of the perspective, one of them at a time: where the program  *)
(* is (FrameViews), the watched expressions (ExpressionMonitor), the tabs  *)
(* of files and assembly (SourceViews), the values that pop up under the   *)
(* pointer (ValueTip), its registers and memory (DataViews).  A behaviour  *)
(* is one of one of them.  The two views with theorems are taken with      *)
(* them (MCViews_proofs).                                                  *)
(***************************************************************************)
EXTENDS Naturals

CONSTANTS Threads, MaxDepth, MaxStops, MaxGoes, MaxQueue, MaxClicks, WatchClicks, Chunk,
          TabGoes, TabClicks, TabIds, Window, TipClicks, Registers, Addresses, DataClicks,
          FrameScenarios, WatchScenarios, TabScenarios, TipScenarios, DataScenarios

VARIABLES part, may, gdb, n, tabs, clicks
vars == <<part, may, gdb, n, tabs, clicks>>

F == INSTANCE FrameViews WITH Scenarios <- FrameScenarios
W == INSTANCE ExpressionMonitor WITH Scenarios <- WatchScenarios, MaxClicks <- WatchClicks
S == INSTANCE SourceViews WITH Scenarios <- TabScenarios, MaxGoes <- TabGoes, MaxClicks <- TabClicks, MaxIds <- TabIds
T == INSTANCE ValueTip_proofs WITH Scenarios <- TipScenarios, MaxGoes <- TabGoes, MaxClicks <- TipClicks
D == INSTANCE DataViews_proofs WITH Scenarios <- DataScenarios, MaxClicks <- DataClicks

ASSUME MCViewsAssumption ==
    F!FrameViewsAssumption /\ W!ExpressionMonitorAssumption
    /\ S!SourceViewsAssumption /\ T!ValueTipAssumption /\ D!DataViewsAssumption

Init ==
    \/ part = "frames" /\ F!Init
    \/ part = "watches" /\ tabs = {} /\ W!Init
    \/ part = "tabs" /\ tabs = {} /\ S!Init
    \/ part = "tip" /\ tabs = {} /\ T!Init
    \/ part = "data" /\ tabs = {} /\ D!Init

Next ==
    /\ UNCHANGED part
    /\ \/ part = "frames" /\ F!Next
       \/ part = "watches" /\ W!Next /\ UNCHANGED tabs
       \/ part = "tabs" /\ S!Next /\ UNCHANGED tabs
       \/ part = "tip" /\ T!Next /\ UNCHANGED tabs
       \/ part = "data" /\ D!Next /\ UNCHANGED tabs

Spec == Init /\ [][Next]_vars

-----------------------------------------------------------------------------
Frames(p) == part = "frames" => p
Watches(p) == part = "watches" => p
Tabs(p) == part = "tabs" => p
Tip(p) == part = "tip" => p
Data(p) == part = "data" => p

(* The call stack shows the frames of GDB's thread with their arguments;   *)
(* the thread list and the engine follow the thread GDB has selected, the  *)
(* arrow and the selected row the frame.                                   *)
FramesShown ==
    Frames(F!StackShown /\ F!ArgumentsShown /\ F!ThreadShown /\ F!EngineFollows /\ F!ArrowShown)
(* The inspector shows the variables of that frame, with current values.   *)
LocalsShown == Frames(F!LocalsShown /\ F!ValuesShown)

(* Each monitored expression has its row where GDB says it is.             *)
ShownWhereItIs == Watches(W!ShownWhereItIs)
(* The monitor remembers what the user gave it and did not take back, and  *)
(* what was killed is monitored again where it can be evaluated.           *)
NothingLost == Watches(W!NothingForgotten /\ W!RevivedWhenPossible)

(* The perspective knows the breakpoints GDB has.                          *)
BreakpointsKnown == Tabs(S!BreakpointsKnown)
(* The tabs of files show their marks and no others.                       *)
MarksShown == Tabs(S!MarksShown)
(* The arrow is where the program is, in the tab in front; the files of    *)
(* the tabs are watched.                                                   *)
ArrowFollows == Tabs(S!ArrowShown /\ S!TabsWatched)

(* The tip shows the variable of the word it stands at, whatever was asked *)
(* and answered meanwhile, and GDB keeps no object for a tip that has gone.*)
TipShown == Tip(T!TipShown /\ T!TipUnderPointer /\ T!ObjectsOwned)

(* The rows are the registers, the bytes the memory of the program, after  *)
(* stops that were seen or not, and changes by the user.                   *)
DataShown == Data(D!DataShown)
=============================================================================
