------------------------------ MODULE MCTrees ------------------------------
(***************************************************************************)
(* What is of any depth, one of them at a time: the texts of GDB and of    *)
(* C++ (MCTexts), and the variables with their members (VariableObjects).  *)
(***************************************************************************)
EXTENDS MCTexts

CONSTANTS MaxLen, MaxStops, MaxQueue, MaxClicks, Scenarios

VARIABLES part, may, gdb, n, clicks
variables == <<may, gdb, n, clicks>>

V == INSTANCE VariableObjects

ASSUME MCTreesAssumption == V!VariableObjectsAssumption

TreeInit ==
    \/ part = "texts" /\ TextInit /\ may = {} /\ gdb = <<>> /\ n = <<>> /\ clicks = 0
    \/ /\ part = "variables" /\ V!Init
       /\ LoopInit(Quiet.said) /\ command = Quiet.asked /\ engine = NewEngine(Quiet.known)
       /\ source = NoSource /\ reading = <<>>
TreeNext ==
    /\ UNCHANGED part
    /\ \/ part = "texts" /\ TextNext /\ UNCHANGED variables
       \/ part = "variables" /\ V!Next /\ UNCHANGED <<vars, cppVars>>
TreeSpec == TreeInit /\ [][TreeNext]_<<part, vars, cppVars, variables>>

-----------------------------------------------------------------------------
Variables(p) == part = "variables" => p

(* The variables on display have the members GDB has, and rows show them.  *)
MembersShown == Variables(V!MembersAreGdbs /\ V!RowsAreMembers)
(* GDB keeps no object but those on display.                               *)
PeersOwned == Variables(V!PeersOwned)
(* All is printed with the visualizer that was chosen.                     *)
VisualizersFollow == Variables(V!VisualizersFollow)
(* No slot meets a destroyed parent or an erased member; the copied value  *)
(* is the whole value.                                                     *)
WalksAreWhole == Variables(V!NoDangling /\ V!CopyIsWhole)
=============================================================================
