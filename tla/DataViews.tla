----------------------------- MODULE DataViews -----------------------------
(***************************************************************************)
(* The registers of the program (nmv-registers-view.cc) and a piece of its *)
(* memory (nmv-memory-view.cc), which the user may change.  GDB tells      *)
(* which registers differ from those it had when it was last asked; the    *)
(* view of registers reads the values of these, when it can be seen.       *)
(*                                                                         *)
(* Commands are answered one at a time and in order (GdbCommandQueue), by  *)
(* a GDB that waits for the program to stop.                               *)
(***************************************************************************)
EXTENDS Integers, Sequences, FiniteSets, FiniteSetsExt, SequencesExt

CONSTANTS
    Registers,      \* numbers of registers
    Addresses,      \* of the memory the program has
    Window,         \* how many bytes the view of memory holds
    MaxGoes,        \* bound: how often the program is run or continued
    MaxQueue,       \* bound: commands waiting when the user clicks
    MaxClicks,      \* bound: clicks of the user in a behaviour
    Scenarios       \* sets of Features, of which a behaviour has one

(* What the program changes; the user hides the registers, selects frames, *)
(* changes registers or bytes, types an address without having it shown,   *)
(* restarts; the program ends; some bytes cannot be written.               *)
Features == {"registers", "memory", "hiding", "frames", "edit", "typed", "restart", "exits", "readonly"}

DataViewsAssumption ==
    /\ Registers \subseteq Nat /\ IsFiniteSet(Registers)
    /\ Addresses \subseteq Nat /\ \A a \in Addresses : a >= Window
    /\ {Window, MaxGoes, MaxQueue, MaxClicks} \subseteq Nat \ {0}
    /\ Scenarios \subseteq SUBSET Features

VARIABLES
    may,    \* the features of this behaviour, chosen once
    gdb,    \* inferior, its frames' registers, those last compared, memory
    n,      \* Nemiver: queue, view of registers, view of memory
    clicks  \* of the user

vars == <<may, gdb, n, clicks>>

None == -1
NoAddress == 0
Values == {0, 1}
Levels == IF "frames" \in may THEN {0, 1} ELSE {0}
Running == gdb.inferior = "running"

-----------------------------------------------------------------------------
(* The view of registers.                                                  *)

Queue(s, c) == [s EXCEPT !.queue = Append(@, c)]
ListValues(s, regs) == Queue(s, [op |-> "values", regs |-> regs])

FinishStopped(s) ==
    IF s.firstRun THEN Queue([s EXCEPT !.firstRun = FALSE], [op |-> "names"])
    ELSE Queue(s, [op |-> "changed"])

(* Wrong variant: a stop nobody sees is forgotten.                         *)
RegistersOnStoppedUnseen(s) == IF s.visible THEN FinishStopped(s) ELSE s
RegistersOnStopped(s) == IF s.visible THEN FinishStopped(s) ELSE [s EXCEPT !.upToDate = FALSE]
Draw(s) == IF s.upToDate THEN s ELSE [FinishStopped(s) EXCEPT !.upToDate = TRUE]

OnNamesListed(s) ==
    ListValues([s EXCEPT !.rows = [r \in Registers |-> None]], Registers)
OnChangedListed(s, regs) == IF regs = {} THEN s ELSE ListValues(s, regs)
(* The colour of the rows is left out, and with it                         *)
(* on_debugger_register_value_changed, which changes nothing else.         *)
OnValuesListed(s, regs, values) ==
    [s EXCEPT !.rows = [r \in DOMAIN @ |-> IF r \in regs THEN values[r] ELSE @[r]]]

-----------------------------------------------------------------------------
(* The view of memory: the address typed, the address the bytes are of.    *)

ReadMemory(s) ==
    IF s.entry = NoAddress THEN s ELSE Queue(s, [op |-> "read", at |-> s.entry])
OnMemoryRead(s, a, bytes) == [s EXCEPT !.entry = a, !.start = a, !.bytes = bytes]
(* on_document_changed: the address is that of the entry.                  *)
WriteByte(s, i, b) == Queue(s, [op |-> "write", at |-> s.entry + i - 1, byte |-> b])
Sensitive == n.queue = <<>> /\ ~Running

(* clear_status_notebook: the bytes stay.                                  *)
ClearStatusNotebook(s) ==
    [s EXCEPT !.rows = <<>>, !.firstRun = TRUE, !.entry = NoAddress]

-----------------------------------------------------------------------------
Init ==
    /\ may \in Scenarios
    /\ gdb = [inferior |-> "none", regs |-> [l \in {0} |-> [r \in Registers |-> 0]], frame |-> 0,
              seen |-> <<>>, mem |-> [a \in Addresses |-> 0], goes |-> 0]
    /\ n = [queue |-> <<>>, rows |-> <<>>, firstRun |-> TRUE, upToDate |-> TRUE, visible |-> "hiding" \notin may,
            entry |-> NoAddress, start |-> NoAddress, bytes |-> <<>>]
    /\ clicks = 0

Quiet == n.queue = <<>>
Go(g) == [g EXCEPT !.inferior = "running", !.goes = @ + 1]

(* run, of a program that has ended, in another GDB; restart, in the same  *)
Run ==
    /\ gdb.inferior = "none" /\ Quiet /\ gdb.goes < MaxGoes
    /\ gdb' = [Go(gdb) EXCEPT !.seen = <<>>]
    /\ n' = ClearStatusNotebook(n)
    /\ UNCHANGED <<may, clicks>>
Restart ==
    /\ "restart" \in may /\ gdb.inferior = "stopped" /\ Quiet /\ gdb.goes < MaxGoes
    /\ gdb' = Go(gdb)
    /\ n' = ClearStatusNotebook(n)
    /\ UNCHANGED <<may, clicks>>
Continue ==
    /\ gdb.inferior = "stopped" /\ Quiet /\ gdb.goes < MaxGoes
    /\ gdb' = Go(gdb)
    /\ UNCHANGED <<may, n, clicks>>

InferiorStops ==
    /\ Running
    /\ \E regs \in [Levels -> [Registers -> Values]], mem \in [Addresses -> Values] :
        /\ "registers" \notin may => \A l \in Levels : regs[l] = gdb.regs[0]
        /\ "memory" \notin may => mem = gdb.mem
        /\ gdb' = [gdb EXCEPT !.inferior = "stopped", !.regs = regs, !.mem = mem, !.frame = 0]
    /\ n' = ReadMemory(RegistersOnStopped(n))
    /\ UNCHANGED <<may, clicks>>
InferiorExits ==
    /\ "exits" \in may /\ Running
    /\ gdb' = [gdb EXCEPT !.inferior = "none"]
    /\ n' = ClearStatusNotebook(n)
    /\ UNCHANGED <<may, clicks>>

-----------------------------------------------------------------------------
(* GDB.  What cannot be evaluated is an error, which changes no view.      *)

Readable == {a \in Addresses : a..(a + Window - 1) \subseteq Addresses}
Current == gdb.regs[gdb.frame]
Changed ==
    IF gdb.seen = <<>> THEN Registers ELSE {r \in Registers : Current[r] # gdb.seen[r]}
Writable(a) == a \in Addresses /\ ("readonly" \in may => a # Max(Addresses))
Bytes(a) == [i \in 1..Window |-> gdb.mem[a + i - 1]]

Reply ==
    /\ ~Quiet /\ ~Running
    /\ LET c == Head(n.queue)
           s == [n EXCEPT !.queue = Tail(@)]
           can == gdb.inferior = "stopped"
       IN \/ /\ c.op = "names"
             /\ n' = OnNamesListed(s)
             /\ UNCHANGED gdb
          \/ /\ c.op = "changed" /\ can
             /\ n' = OnChangedListed(s, Changed)
             /\ gdb' = [gdb EXCEPT !.seen = Current]
          \/ /\ c.op = "values" /\ can
             /\ n' = OnValuesListed(s, c.regs, Current)
             /\ UNCHANGED gdb
          \/ /\ c.op = "set" /\ can
             /\ n' = s
             /\ gdb' = [gdb EXCEPT !.regs[gdb.frame][c.reg] = c.val]
          \/ /\ c.op = "frame" /\ can
             /\ n' = s
             /\ gdb' = [gdb EXCEPT !.frame = c.level]
          \/ /\ c.op = "read" /\ can
             /\ n' = OnMemoryRead(s, c.at, Bytes(c.at))
             /\ UNCHANGED gdb
          \/ /\ c.op = "write" /\ can /\ Writable(c.at)
             /\ n' = s
             /\ gdb' = [gdb EXCEPT !.mem[c.at] = c.byte]
          \/ /\ \/ c.op # "names" /\ ~can
                \/ c.op = "write" /\ ~Writable(c.at)
                \/ c.op = "set"
             /\ n' = s
             /\ UNCHANGED gdb
    /\ UNCHANGED <<may, clicks>>

-----------------------------------------------------------------------------
(* The user.                                                               *)

Clicks == /\ clicks < MaxClicks /\ clicks' = clicks + 1
          /\ UNCHANGED <<may, gdb>>

ShowOrHide ==
    /\ "hiding" \in may /\ Clicks
    /\ n' = IF n.visible THEN [n EXCEPT !.visible = FALSE] ELSE Draw([n EXCEPT !.visible = TRUE])

SelectFrame ==
    /\ "frames" \in may /\ gdb.inferior = "stopped" /\ Quiet /\ Clicks
    /\ \E l \in Levels \ {gdb.frame} : n' = Queue(n, [op |-> "frame", level |-> l])

(* on_register_value_edited: the cell holds what was typed, until the      *)
(* value is read back.                                                     *)
EditRegister ==
    /\ {"edit", "registers"} \subseteq may /\ Len(n.queue) < MaxQueue /\ Clicks
    /\ \E r \in DOMAIN n.rows, v \in Values :
        /\ v # n.rows[r]
        /\ n' = ListValues(Queue([n EXCEPT !.rows[r] = v], [op |-> "set", reg |-> r, val |-> v]), {r})

Jump ==
    /\ "memory" \in may /\ Sensitive /\ Clicks
    /\ \E a \in Readable : n' = ReadMemory([n EXCEPT !.entry = a])
TypeAddress ==
    /\ "typed" \in may /\ Sensitive /\ Clicks
    /\ \E a \in Readable \ {n.entry} : n' = [n EXCEPT !.entry = a]
EditByte ==
    /\ {"edit", "memory"} \subseteq may /\ Sensitive /\ Clicks
    /\ \E i \in DOMAIN n.bytes :
        LET b == 1 - n.bytes[i]
        IN n' = WriteByte([n EXCEPT !.bytes[i] = b], i, b)

Next ==
    \/ Run \/ Restart \/ Continue \/ InferiorStops \/ InferiorExits \/ Reply
    \/ ShowOrHide \/ SelectFrame \/ EditRegister \/ Jump \/ TypeAddress \/ EditByte

Spec == Init /\ [][Next]_vars

-----------------------------------------------------------------------------
Settled == Quiet /\ gdb.inferior = "stopped"

(* Once all is answered the rows are the registers of the innermost frame, *)
(* whether the stops were seen or not.  GDB compares with the last time it *)
(* was asked, which is not when the values were read: after a restart or a *)
(* change by the user, the rows may be wrong from the second stop on.  A   *)
(* hidden view that is shown, and a register that is changed, are read in  *)
(* the frame selected: no scenario has that with another frame.            *)
RegistersShown ==
    Settled /\ n.visible /\ ({"edit", "restart"} \intersect may # {} => gdb.goes = 1) =>
        /\ DOMAIN n.rows = Registers
        /\ \A r \in Registers : n.rows[r] = gdb.regs[0][r]

(* The bytes shown are those the program has there, unless some cannot be  *)
(* written or the address was typed and not shown.                         *)
MemoryShown ==
    Settled /\ n.entry # NoAddress /\ {"typed", "readonly"} \intersect may = {} =>
        n.start = n.entry /\ n.bytes = Bytes(n.start)

(* Both views show what the program has.                                   *)
DataShown == RegistersShown /\ MemoryShown

(* Refuted: the same, after restarts and changes by the user; the values   *)
(* of the selected frame; bytes written where they are shown; no bytes of  *)
(* a program that has ended.                                               *)
RegistersAlwaysShown ==
    Settled /\ n.visible /\ "frames" \notin may => \A r \in DOMAIN n.rows : n.rows[r] = Current[r]
RegistersFollowFrame == Settled /\ n.visible /\ "edit" \notin may => \A r \in DOMAIN n.rows : n.rows[r] = Current[r]
WritesWhereShown == \A c \in ToSet(n.queue) : c.op = "write" => c.at \in n.start..(n.start + Window - 1)
ClearedIsEmpty == gdb.inferior = "none" /\ Quiet /\ n.entry = NoAddress => n.bytes = <<>>
=============================================================================
