-------------------------- MODULE DataViews_proofs --------------------------
(***************************************************************************)
(* Theorems about the views of registers and memory, for any registers,    *)
(* memory, window and behaviour of the user: what is shown is what the     *)
(* program has.  The memory comes first; the registers play no part in it  *)
(* but that their commands share the queue.                                *)
(***************************************************************************)
EXTENDS DataViews, TLAPS

(* Commands of the view of memory, among those of the queue.               *)
MemoryOps == {"read", "write"}

Command ==
    [op : {"names", "changed"}]
      \union [op : {"values"}, regs : SUBSET Registers]
      \union [op : {"set"}, reg : Registers, val : Values]
      \union [op : {"frame"}, level : {0, 1}]
      \union [op : {"read"}, at : Readable]
      \union [op : {"write"}, at : Int, byte : Values]

Positions(q) == {i \in DOMAIN q : q[i].op \in MemoryOps}
Pending(q) == {q[i] : i \in Positions(q)}
OneAtATime(q) == \A i, j \in Positions(q) : i = j

(* Nemiver and GDB: of the registers, only that they are there.            *)
Nemiver(s) ==
    /\ s \in [queue : Seq(Command), rows : {s.rows}, firstRun : BOOLEAN, upToDate : BOOLEAN,
              visible : BOOLEAN, entry : Readable \union {NoAddress},
              start : Readable \union {NoAddress}, bytes : {<<>>} \union [1..Window -> Values]]
    /\ DOMAIN s.rows \subseteq Registers
    /\ OneAtATime(s.queue)

Gdb(g) ==
    g \in [inferior : {"none", "running", "stopped"}, regs : {g.regs}, frame : {g.frame},
           seen : {g.seen}, mem : [Addresses -> Values], goes : Nat]

(* The bytes shown, but for what is on its way to the memory, unless they  *)
(* are about to be read.                                                   *)
BytesOf(s, mem) ==
    (\A c \in Pending(s.queue) : c.op = "write") =>
        /\ s.start = s.entry
        /\ s.bytes \in [1..Window -> Values]
        /\ \A c \in Pending(s.queue) :
            /\ c.at \in s.entry..(s.entry + Window - 1)
            /\ c.byte = s.bytes[c.at - s.entry + 1]
        /\ \A i \in 1..Window :
            \/ s.bytes[i] = mem[s.entry + i - 1]
            \/ \E c \in Pending(s.queue) : c.at = s.entry + i - 1

Plain == {"typed", "readonly"} \intersect may = {}

IInv ==
    /\ Nemiver(n) /\ Gdb(gdb)
    /\ Running => Pending(n.queue) = {}
    /\ \A c \in Pending(n.queue) : c.op = "read" => c.at = n.entry
    /\ Plain /\ gdb.inferior = "stopped" /\ n.entry # NoAddress => BytesOf(n, gdb.mem)

-----------------------------------------------------------------------------
(* Lemmas about the queue.                                                 *)

(* A command of the registers changes nothing of what is pending.          *)
LEMMA AppendOther ==
    ASSUME NEW q \in Seq(Command), NEW c \in Command, c.op \notin MemoryOps
    PROVE  /\ Append(q, c) \in Seq(Command)
           /\ Positions(Append(q, c)) = Positions(q)
           /\ Pending(Append(q, c)) = Pending(q)
<1> DEFINE r == Append(q, c)
<1>1. r \in Seq(Command) /\ DOMAIN r = 1..(Len(q) + 1) /\ DOMAIN q = 1..Len(q) /\ Len(q) \in Nat
  OBVIOUS
<1>2. /\ \A i \in 1..Len(q) : r[i] = q[i]
      /\ r[Len(q) + 1] = c
  OBVIOUS
<1> HIDE DEF r
<1>3. Positions(r) = Positions(q)
  BY <1>1, <1>2 DEF Positions
<1>4. \A i \in Positions(q) : r[i] = q[i]
  BY <1>1, <1>2 DEF Positions
<1>5. Pending(r) = Pending(q)
  BY <1>3, <1>4 DEF Pending
<1> QED
  BY <1>1, <1>3, <1>5 DEF r

(* A command of the memory, where none is pending, is the only one.        *)
LEMMA AppendMemory ==
    ASSUME NEW q \in Seq(Command), NEW c \in Command, c.op \in MemoryOps, Pending(q) = {}
    PROVE  /\ Append(q, c) \in Seq(Command)
           /\ OneAtATime(Append(q, c))
           /\ Pending(Append(q, c)) = {c}
<1> DEFINE r == Append(q, c)
<1>1. r \in Seq(Command) /\ DOMAIN r = 1..(Len(q) + 1) /\ DOMAIN q = 1..Len(q) /\ Len(q) \in Nat
  OBVIOUS
<1>2. /\ \A i \in 1..Len(q) : r[i] = q[i]
      /\ r[Len(q) + 1] = c
  OBVIOUS
<1>3. Positions(q) = {}
  BY DEF Pending
<1> HIDE DEF r
<1>4. Positions(r) = {Len(q) + 1}
  BY <1>1, <1>2, <1>3 DEF Positions
<1>5. OneAtATime(r) /\ Pending(r) = {c}
  BY <1>2, <1>4 DEF OneAtATime, Pending
<1> QED
  BY <1>1, <1>5 DEF r

(* A command answered: what is pending is as before, or it was pending.    *)
LEMMA Answered ==
    ASSUME NEW q \in Seq(Command), q # <<>>, OneAtATime(q)
    PROVE  /\ Head(q) \in Command /\ Tail(q) \in Seq(Command)
           /\ OneAtATime(Tail(q))
           /\ Head(q).op \notin MemoryOps => Pending(Tail(q)) = Pending(q)
           /\ Head(q).op \in MemoryOps => Pending(q) = {Head(q)} /\ Pending(Tail(q)) = {}
<1> DEFINE r == Tail(q)
<1>1. /\ Head(q) \in Command /\ Head(q) = q[1] /\ r \in Seq(Command)
      /\ DOMAIN q = 1..Len(q) /\ Len(q) \in Nat \ {0} /\ DOMAIN r = 1..(Len(q) - 1)
  OBVIOUS
<1>2. \A i \in 1..(Len(q) - 1) : r[i] = q[i + 1]
  OBVIOUS
<1> HIDE DEF r
<1>3. \A i \in Positions(r) : i + 1 \in Positions(q) /\ r[i] = q[i + 1] /\ i \in Nat \ {0}
  BY <1>1, <1>2 DEF Positions
<1>4. \A i \in Positions(q) : i # 1 => i - 1 \in Positions(r) /\ q[i] = r[i - 1]
  <2> SUFFICES ASSUME NEW i \in Positions(q), i # 1
               PROVE  i - 1 \in Positions(r) /\ q[i] = r[i - 1]
    OBVIOUS
  <2>1. i \in 2..Len(q) /\ q[i].op \in MemoryOps
    BY <1>1 DEF Positions
  <2>2. i - 1 \in 1..(Len(q) - 1) /\ (i - 1) + 1 = i
    BY <2>1, <1>1
  <2>3. r[i - 1] = q[i]
    BY <2>2, <1>2
  <2> QED
    BY <2>1, <2>2, <2>3, <1>1 DEF Positions
<1>5. OneAtATime(r)
  BY <1>3 DEF OneAtATime
<1>6. ASSUME Head(q).op \notin MemoryOps
      PROVE  Pending(r) = Pending(q)
  <2>1. 1 \notin Positions(q)
    BY <1>1, <1>6 DEF Positions
  <2> QED
    BY <2>1, <1>3, <1>4 DEF Pending
<1>7. ASSUME Head(q).op \in MemoryOps
      PROVE  Pending(q) = {Head(q)} /\ Pending(r) = {}
  <2>1. 1 \in Positions(q)
    BY <1>1, <1>7 DEF Positions
  <2>2. Positions(q) = {1}
    BY <2>1 DEF OneAtATime
  <2>3. Positions(r) = {}
    BY <2>2, <1>3
  <2> QED
    BY <2>2, <2>3, <1>1 DEF Pending
<1> QED
  BY <1>1, <1>5, <1>6, <1>7 DEF r

-----------------------------------------------------------------------------
(* Lemmas about the operations.                                            *)

(* A Nemiver that differs in the registers only.                           *)
SameMemory(s, t) ==
    /\ Nemiver(t)
    /\ t.entry = s.entry /\ t.start = s.start /\ t.bytes = s.bytes
    /\ Pending(t.queue) = Pending(s.queue)

(* Another queue, and nothing else.                                        *)
LEMMA OtherQueue ==
    ASSUME NEW s, Nemiver(s), NEW q
    PROVE  [s EXCEPT !.queue = q]
             = [queue |-> q, rows |-> s.rows, firstRun |-> s.firstRun,
                upToDate |-> s.upToDate, visible |-> s.visible, entry |-> s.entry,
                start |-> s.start, bytes |-> s.bytes]
<1>1. s \in [queue : {s.queue}, rows : {s.rows}, firstRun : {s.firstRun}, upToDate : {s.upToDate},
             visible : {s.visible}, entry : {s.entry}, start : {s.start}, bytes : {s.bytes}]
  BY DEF Nemiver
<1> QED
  BY <1>1

(* The commands of the registers leave the memory alone.                   *)
LEMMA QueueOther ==
    ASSUME NEW s, Nemiver(s), NEW c \in Command, c.op \notin MemoryOps
    PROVE  SameMemory(s, Queue(s, c))
<1>1. /\ Append(s.queue, c) \in Seq(Command)
      /\ Positions(Append(s.queue, c)) = Positions(s.queue)
      /\ Pending(Append(s.queue, c)) = Pending(s.queue)
  BY AppendOther DEF Nemiver
<1>2. OneAtATime(s.queue) => OneAtATime(Append(s.queue, c))
  BY <1>1 DEF OneAtATime
<1>3. Queue(s, c) = [queue |-> Append(s.queue, c), rows |-> s.rows, firstRun |-> s.firstRun,
                     upToDate |-> s.upToDate, visible |-> s.visible, entry |-> s.entry,
                     start |-> s.start, bytes |-> s.bytes]
  BY OtherQueue DEF Queue
<1> HIDE DEF Queue
<1> QED
  BY <1>1, <1>2, <1>3 DEF SameMemory, Nemiver

(* So do the flags of the view.                                            *)
LEMMA Flags ==
    ASSUME NEW s, Nemiver(s), NEW b \in BOOLEAN
    PROVE  /\ SameMemory(s, s)
           /\ SameMemory(s, [s EXCEPT !.firstRun = b])
           /\ SameMemory(s, [s EXCEPT !.upToDate = b])
           /\ SameMemory(s, [s EXCEPT !.visible = b])
  BY DEF SameMemory, Nemiver

LEMMA Rows ==
    ASSUME NEW s, Nemiver(s), NEW f, DOMAIN f \subseteq Registers
    PROVE  SameMemory(s, [s EXCEPT !.rows = f])
  BY DEF SameMemory, Nemiver

LEMMA CommandOps ==
    /\ [op |-> "names"] \in Command /\ [op |-> "changed"] \in Command
    /\ \A regs \in SUBSET Registers : [op |-> "values", regs |-> regs] \in Command
    /\ \A r \in Registers, v \in Values : [op |-> "set", reg |-> r, val |-> v] \in Command
    /\ \A l \in {0, 1} : [op |-> "frame", level |-> l] \in Command
    /\ \A a \in Readable : [op |-> "read", at |-> a] \in Command
    /\ \A a \in Int, b \in Values : [op |-> "write", at |-> a, byte |-> b] \in Command
  BY DEF Command

LEMMA ListValuesSame ==
    ASSUME NEW s, Nemiver(s), NEW regs \in SUBSET Registers
    PROVE  SameMemory(s, ListValues(s, regs))
<1>1. [op |-> "values", regs |-> regs] \in Command
  BY CommandOps
<1>2. [op |-> "values", regs |-> regs].op \notin MemoryOps
  BY DEF MemoryOps
<1> QED
  BY <1>1, <1>2, QueueOther DEF ListValues

LEMMA FinishStoppedSame ==
    ASSUME NEW s, Nemiver(s)
    PROVE  SameMemory(s, FinishStopped(s))
<1> DEFINE t == [s EXCEPT !.firstRun = FALSE]
<1>1. SameMemory(s, t)
  BY Flags
<1>2. Nemiver(t)
  BY <1>1 DEF SameMemory
<1>3. /\ [op |-> "names"] \in Command /\ [op |-> "names"].op \notin MemoryOps
      /\ [op |-> "changed"] \in Command /\ [op |-> "changed"].op \notin MemoryOps
  BY CommandOps DEF MemoryOps
<1> HIDE DEF t
<1>4. SameMemory(t, Queue(t, [op |-> "names"]))
  BY <1>2, <1>3, QueueOther
<1>5. SameMemory(s, Queue(s, [op |-> "changed"]))
  BY <1>3, QueueOther
<1>6. SameMemory(s, Queue(t, [op |-> "names"]))
  BY <1>1, <1>4 DEF SameMemory
<1>7. FinishStopped(s) = IF s.firstRun THEN Queue(t, [op |-> "names"])
                         ELSE Queue(s, [op |-> "changed"])
  BY DEF FinishStopped, t
<1> QED
  BY <1>5, <1>6, <1>7

LEMMA StoppedSame ==
    ASSUME NEW s, Nemiver(s)
    PROVE  SameMemory(s, RegistersOnStopped(s))
  BY FinishStoppedSame, Flags DEF RegistersOnStopped

LEMMA DrawSame ==
    ASSUME NEW s, Nemiver(s)
    PROVE  SameMemory(s, Draw(s))
<1> DEFINE t == FinishStopped(s)
<1>1. SameMemory(s, t)
  BY FinishStoppedSame
<1> HIDE DEF t
<1>2. SameMemory(t, [t EXCEPT !.upToDate = TRUE])
  BY <1>1, Flags DEF SameMemory
<1>3. SameMemory(s, [t EXCEPT !.upToDate = TRUE])
  BY <1>1, <1>2 DEF SameMemory
<1>4. SameMemory(s, s)
  BY Flags
<1> QED
  BY <1>3, <1>4 DEF Draw, t

(* What is read is what the entry says, and is all that is pending.        *)
LEMMA ReadMemoryReads ==
    ASSUME NEW s, Nemiver(s), Pending(s.queue) = {}
    PROVE  LET t == ReadMemory(s) IN
           /\ Nemiver(t)
           /\ t.entry = s.entry /\ t.start = s.start /\ t.bytes = s.bytes
           /\ s.entry = NoAddress => t = s
           /\ s.entry # NoAddress => Pending(t.queue) = {[op |-> "read", at |-> s.entry]}
<1> DEFINE c == [op |-> "read", at |-> s.entry]
           t == ReadMemory(s)
<1>1. CASE s.entry = NoAddress
  BY <1>1 DEF ReadMemory
<1>2. CASE s.entry # NoAddress
  <2>1. c \in Command /\ c.op \in MemoryOps
    BY <1>2, CommandOps DEF Nemiver, MemoryOps
  <2>2. t = [queue |-> Append(s.queue, c), rows |-> s.rows, firstRun |-> s.firstRun,
             upToDate |-> s.upToDate, visible |-> s.visible, entry |-> s.entry,
             start |-> s.start, bytes |-> s.bytes]
    BY <1>2, OtherQueue DEF ReadMemory, Queue
  <2> HIDE DEF c, t
  <2>3. /\ Append(s.queue, c) \in Seq(Command)
        /\ OneAtATime(Append(s.queue, c)) /\ Pending(Append(s.queue, c)) = {c}
    BY <2>1, AppendMemory DEF Nemiver
  <2>4. Nemiver(t) /\ Pending(t.queue) = {c}
    BY <2>2, <2>3 DEF Nemiver
  <2> QED
    BY <1>2, <2>2, <2>4 DEF c, t
<1> QED
  BY <1>1, <1>2

(* The status is cleared where nothing is pending.                         *)
LEMMA Clears ==
    ASSUME NEW s, Nemiver(s)
    PROVE  LET t == ClearStatusNotebook(s) IN
           Nemiver(t) /\ t.queue = s.queue /\ t.entry = NoAddress
<1>1. DOMAIN <<>> \subseteq Registers
  OBVIOUS
<1> QED
  BY <1>1 DEF ClearStatusNotebook, Nemiver

(* A step that leaves the memory, and what is shown of it, as they are.    *)
LEMMA SameKeeps ==
    ASSUME IInv, SameMemory(n, n'), UNCHANGED may,
           Gdb(gdb'), gdb'.inferior = gdb.inferior, gdb'.mem = gdb.mem
    PROVE  IInv'
<1>1. \A mem : BytesOf(n, mem) => BytesOf(n', mem)
  BY DEF SameMemory, BytesOf
<1> QED
  BY <1>1 DEF IInv, SameMemory, Running, Plain

-----------------------------------------------------------------------------
(* Initial states and steps.                                               *)

LEMMA InitIInv ==
    ASSUME Init
    PROVE  IInv
<1>1. Pending(<<>>) = {} /\ OneAtATime(<<>>) /\ <<>> \in Seq(Command)
  BY DEF Pending, OneAtATime, Positions
<1>2. Gdb(gdb) /\ gdb.inferior = "none"
  BY DEF Init, Gdb, Values
<1>3. DOMAIN <<>> \subseteq Registers
  OBVIOUS
<1>4. /\ n.queue = <<>> /\ n.rows = <<>> /\ n.entry = NoAddress
      /\ n \in [queue : Seq(Command), rows : {n.rows}, firstRun : BOOLEAN, upToDate : BOOLEAN,
                visible : BOOLEAN, entry : Readable \union {NoAddress},
                start : Readable \union {NoAddress}, bytes : {<<>>} \union [1..Window -> Values]]
  BY <1>1 DEF Init
<1>5. Nemiver(n)
  BY <1>1, <1>3, <1>4 DEF Nemiver
<1> QED
  BY <1>1, <1>2, <1>4, <1>5 DEF IInv, Running

(* The steps that clear the status: nothing is pending then, and no        *)
(* address is entered afterwards.                                          *)
LEMMA ClearKeeps ==
    ASSUME IInv, Pending(n.queue) = {}, n' = ClearStatusNotebook(n), Gdb(gdb')
    PROVE  IInv'
  BY Clears DEF IInv

LEMMA GoKeeps ==
    ASSUME IInv
    PROVE  /\ Gdb(Go(gdb)) /\ Go(gdb).inferior = "running" /\ Go(gdb).mem = gdb.mem
           /\ Gdb([Go(gdb) EXCEPT !.seen = <<>>])
           /\ Gdb([gdb EXCEPT !.inferior = "none"])
<1>1. Gdb(gdb)
  BY DEF IInv
<1>2. Go(gdb) = [inferior |-> "running", regs |-> gdb.regs, frame |-> gdb.frame,
                 seen |-> gdb.seen, mem |-> gdb.mem, goes |-> gdb.goes + 1]
  <2>1. gdb.goes \in Nat
    BY <1>1 DEF Gdb
  <2>2. PICK g : g = [gdb EXCEPT !.inferior = "running"]
    OBVIOUS
  <2>3. /\ Gdb(g) /\ g.goes = gdb.goes
        /\ g = [inferior |-> "running", regs |-> gdb.regs, frame |-> gdb.frame,
                seen |-> gdb.seen, mem |-> gdb.mem, goes |-> gdb.goes]
    BY <1>1, <2>2 DEF Gdb
  <2>4. Go(gdb) = [g EXCEPT !.goes = gdb.goes + 1]
    BY <1>1, <2>2, <2>3 DEF Go, Gdb
  <2> QED
    BY <2>1, <2>3, <2>4 DEF Gdb
<1>3. [Go(gdb) EXCEPT !.seen = <<>>]
        = [inferior |-> "running", regs |-> gdb.regs, frame |-> gdb.frame,
           seen |-> <<>>, mem |-> gdb.mem, goes |-> gdb.goes + 1]
  BY <1>2
<1>4. [gdb EXCEPT !.inferior = "none"]
        = [inferior |-> "none", regs |-> gdb.regs, frame |-> gdb.frame,
           seen |-> gdb.seen, mem |-> gdb.mem, goes |-> gdb.goes]
  BY <1>1 DEF Gdb
<1>5. gdb.mem \in [Addresses -> Values] /\ gdb.goes \in Nat
  BY <1>1 DEF Gdb
<1> QED
  BY <1>2, <1>3, <1>4, <1>5 DEF Gdb

LEMMA QuietIsIdle ==
    ASSUME Quiet
    PROVE  Pending(n.queue) = {}
  BY DEF Quiet, Pending, Positions

LEMMA GoesKeep ==
    ASSUME IInv, Run \/ Restart \/ Continue \/ InferiorExits
    PROVE  IInv'
<1>1. CASE Run
  BY <1>1, GoKeeps, QuietIsIdle, ClearKeeps DEF Run
<1>2. CASE Restart
  BY <1>2, GoKeeps, QuietIsIdle, ClearKeeps DEF Restart
<1>3. CASE Continue
  <2>1. Pending(n.queue) = {} /\ n' = n /\ may' = may /\ gdb' = Go(gdb)
    BY <1>3, QuietIsIdle DEF Continue
  <2>2. Gdb(gdb') /\ gdb'.inferior = "running"
    BY <2>1, GoKeeps
  <2> QED
    BY <2>1, <2>2 DEF IInv
<1>4. CASE InferiorExits
  BY <1>4, GoKeeps, ClearKeeps DEF InferiorExits, IInv
<1> QED
  BY <1>1, <1>2, <1>3, <1>4

(* At a stop the bytes are read where the entry says, if it says anything. *)
LEMMA StopsKeeps ==
    ASSUME IInv, InferiorStops
    PROVE  IInv'
<1> DEFINE s == RegistersOnStopped(n)
<1>1. Nemiver(n) /\ Pending(n.queue) = {}
  BY DEF InferiorStops, IInv
<1>2. Nemiver(s) /\ Pending(s.queue) = {}
  BY <1>1, StoppedSame DEF SameMemory
<1>3. n' = ReadMemory(s) /\ may' = may
  BY DEF InferiorStops
<1>4. Gdb(gdb') /\ gdb'.inferior = "stopped"
  <2>1. PICK regs \in [Levels -> [Registers -> Values]], mem \in [Addresses -> Values] :
            gdb' = [gdb EXCEPT !.inferior = "stopped", !.regs = regs, !.mem = mem, !.frame = 0]
    BY DEF InferiorStops
  <2>2. Gdb(gdb)
    BY DEF IInv
  <2>3. gdb' = [inferior |-> "stopped", regs |-> regs, frame |-> 0,
                seen |-> gdb.seen, mem |-> mem, goes |-> gdb.goes]
    BY <2>1, <2>2 DEF Gdb
  <2>4. gdb.goes \in Nat
    BY <2>2 DEF Gdb
  <2> QED
    BY <2>3, <2>4 DEF Gdb
<1> HIDE DEF s
<1>5. /\ Nemiver(n') /\ n'.entry = s.entry
      /\ s.entry = NoAddress => n' = s
      /\ s.entry # NoAddress => Pending(n'.queue) = {[op |-> "read", at |-> s.entry]}
  BY <1>2, <1>3, ReadMemoryReads
<1>6. CASE s.entry = NoAddress
  BY <1>2, <1>4, <1>5, <1>6 DEF IInv, Running
<1>7. CASE s.entry # NoAddress
  <2>1. ~ \A c \in Pending(n'.queue) : c.op = "write"
    <3>1. [op |-> "read", at |-> s.entry] \in Pending(n'.queue)
      BY <1>5, <1>7
    <3>2. [op |-> "read", at |-> s.entry].op # "write"
      OBVIOUS
    <3> QED
      BY <3>1, <3>2
  <2>2. BytesOf(n', gdb'.mem)
    BY <2>1 DEF BytesOf
  <2>3. \A c \in Pending(n'.queue) : c.op = "read" => c.at = n'.entry
    BY <1>5, <1>7
  <2> QED
    BY <1>4, <1>5, <2>2, <2>3 DEF IInv, Running
<1> QED
  BY <1>6, <1>7

(* What the user does about registers leaves the memory alone.             *)
LEMMA RegisterClicksKeep ==
    ASSUME IInv, ShowOrHide \/ SelectFrame \/ EditRegister
    PROVE  IInv'
<1>1. Nemiver(n) /\ Gdb(gdb)
  BY DEF IInv
<1>2. UNCHANGED may /\ gdb' = gdb
  BY DEF ShowOrHide, SelectFrame, EditRegister, Clicks
<1>3. CASE ShowOrHide
  <2>1. /\ SameMemory(n, [n EXCEPT !.visible = FALSE])
        /\ SameMemory(n, [n EXCEPT !.visible = TRUE])
    BY <1>1, Flags
  <2>2. SameMemory(n, Draw([n EXCEPT !.visible = TRUE]))
    <3> DEFINE s == [n EXCEPT !.visible = TRUE]
    <3>1. SameMemory(n, s)
      BY <2>1
    <3> HIDE DEF s
    <3>2. SameMemory(s, Draw(s))
      BY <3>1, DrawSame DEF SameMemory
    <3>3. SameMemory(n, Draw(s))
      BY <3>1, <3>2 DEF SameMemory
    <3> QED
      BY <3>3 DEF s
  <2>3. SameMemory(n, n')
    BY <1>3, <2>1, <2>2 DEF ShowOrHide
  <2> QED
    BY <1>1, <1>2, <2>3, SameKeeps
<1>4. CASE SelectFrame
  <2>1. PICK l \in Levels : n' = Queue(n, [op |-> "frame", level |-> l])
    BY <1>4 DEF SelectFrame
  <2>2. [op |-> "frame", level |-> l] \in Command
    BY CommandOps DEF Levels
  <2>3. [op |-> "frame", level |-> l].op \notin MemoryOps
    BY DEF MemoryOps
  <2>4. SameMemory(n, n')
    BY <1>1, <2>1, <2>2, <2>3, QueueOther
  <2> QED
    BY <1>1, <1>2, <2>4, SameKeeps
<1>5. CASE EditRegister
  <2>1. PICK r \in DOMAIN n.rows, v \in Values :
            n' = ListValues(Queue([n EXCEPT !.rows[r] = v], [op |-> "set", reg |-> r, val |-> v]), {r})
    BY <1>5 DEF EditRegister
  <2> DEFINE c == [op |-> "set", reg |-> r, val |-> v]
             f == [n.rows EXCEPT ![r] = v]
             s == [n EXCEPT !.rows = f]
             t == Queue(s, c)
  <2>2. r \in Registers /\ DOMAIN f \subseteq Registers
    BY <1>1 DEF Nemiver
  <2>3. c \in Command /\ c.op \notin MemoryOps
    BY <2>2, CommandOps DEF MemoryOps
  <2>4. [n EXCEPT !.rows[r] = v] = s
    BY <1>1 DEF Nemiver
  <2> HIDE DEF c, f
  <2>5. SameMemory(n, s)
    BY <1>1, <2>2, Rows
  <2> HIDE DEF s
  <2>6. SameMemory(s, t)
    BY <2>3, <2>5, QueueOther DEF SameMemory
  <2> HIDE DEF t
  <2>7. SameMemory(t, ListValues(t, {r}))
    BY <2>2, <2>6, ListValuesSame DEF SameMemory
  <2>8. n' = ListValues(t, {r})
    BY <2>1, <2>4 DEF t, c
  <2>9. SameMemory(n, n')
    BY <2>5, <2>6, <2>7, <2>8 DEF SameMemory
  <2> QED
    BY <1>1, <1>2, <2>9, SameKeeps
<1> QED
  BY <1>3, <1>4, <1>5

(* The address is changed where no command waits, and read at once.        *)
LEMMA AddressClicksKeep ==
    ASSUME IInv, Jump \/ TypeAddress
    PROVE  IInv'
<1>1. /\ Nemiver(n) /\ Gdb(gdb) /\ UNCHANGED may /\ gdb' = gdb
      /\ Pending(n.queue) = {} /\ ~Running /\ ~Running'
  BY QuietIsIdle DEF IInv, Jump, TypeAddress, Clicks, Sensitive, Quiet, Running
<1>2. PICK a \in Readable : n' = ReadMemory([n EXCEPT !.entry = a])
                         \/ (n' = [n EXCEPT !.entry = a] /\ TypeAddress)
  BY DEF Jump, TypeAddress
<1> DEFINE s == [n EXCEPT !.entry = a]
<1>3. Nemiver(s) /\ Pending(s.queue) = {} /\ s.entry = a
  BY <1>1 DEF Nemiver
<1> HIDE DEF s
<1>4. CASE n' = s /\ TypeAddress
  <2>1. ~Plain'
    BY <1>1, <1>4 DEF Plain, TypeAddress
  <2> QED
    BY <1>1, <1>3, <1>4, <2>1 DEF IInv
<1>5. CASE n' = ReadMemory(s)
  <2>1. /\ Nemiver(n') /\ n'.entry = s.entry
        /\ s.entry = NoAddress => n' = s
        /\ s.entry # NoAddress => Pending(n'.queue) = {[op |-> "read", at |-> s.entry]}
    BY <1>3, <1>5, ReadMemoryReads
  <2>2. CASE s.entry = NoAddress
    BY <1>1, <1>3, <2>1, <2>2 DEF IInv
  <2>3. CASE s.entry # NoAddress
    <3>1. ~ \A c \in Pending(n'.queue) : c.op = "write"
      <4>1. [op |-> "read", at |-> s.entry] \in Pending(n'.queue)
        BY <2>1, <2>3
      <4>2. [op |-> "read", at |-> s.entry].op # "write"
        OBVIOUS
      <4> QED
        BY <4>1, <4>2
    <3>2. BytesOf(n', gdb'.mem)
      BY <3>1 DEF BytesOf
    <3>3. \A c \in Pending(n'.queue) : c.op = "read" => c.at = n'.entry
      BY <2>1, <2>3
    <3> QED
      BY <1>1, <2>1, <3>2, <3>3 DEF IInv
  <2> QED
    BY <2>2, <2>3
<1> QED
  BY <1>2, <1>4, <1>5 DEF s

(* A byte is edited where no command waits: it is shown as typed, and on   *)
(* its way to where it is shown.                                           *)
LEMMA EditByteKeeps ==
    ASSUME DataViewsAssumption, IInv, EditByte
    PROVE  IInv'
<1>1. /\ Nemiver(n) /\ Gdb(gdb) /\ UNCHANGED may /\ gdb' = gdb
      /\ Pending(n.queue) = {} /\ ~Running /\ ~Running'
  BY QuietIsIdle DEF IInv, EditByte, Clicks, Sensitive, Quiet, Running
<1>2. PICK i \in DOMAIN n.bytes :
          n' = WriteByte([n EXCEPT !.bytes[i] = 1 - n.bytes[i]], i, 1 - n.bytes[i])
  BY DEF EditByte
<1>3. Window \in Nat \ {0} /\ Addresses \subseteq Nat /\ NoAddress = 0
  BY DEF DataViewsAssumption, NoAddress
<1>4. n.bytes \in [1..Window -> Values] /\ i \in 1..Window
  <2>1. n.bytes \in {<<>>} \union [1..Window -> Values]
    BY <1>1 DEF Nemiver
  <2>2. n.bytes # <<>>
    OBVIOUS
  <2> QED
    BY <2>1, <2>2
<1>5. n.entry \in Nat
  <2>1. n.entry \in Readable \union {NoAddress}
    BY <1>1 DEF Nemiver
  <2>2. Readable \subseteq Addresses
    BY DEF Readable
  <2>3. Readable \subseteq Nat /\ NoAddress \in Nat
    BY <1>3, <2>2
  <2>4. Readable \union {NoAddress} \subseteq Nat
    BY <2>3
  <2> QED
    BY <2>1, <2>4
<1> DEFINE b == 1 - n.bytes[i]
           at == n.entry + i - 1
           c == [op |-> "write", at |-> at, byte |-> b]
           bs == [n.bytes EXCEPT ![i] = b]
<1>6. /\ b \in Values /\ at \in Int /\ bs \in [1..Window -> Values] /\ bs[i] = b
      /\ \A j \in 1..Window : j # i => bs[j] = n.bytes[j]
  BY <1>4, <1>5 DEF Values
<1>7. c \in Command /\ c.op = "write" /\ c.at = at /\ c.byte = b
  <2> HIDE DEF at, b
  <2>1. c \in Command
    BY <1>6, CommandOps
  <2> QED
    BY <2>1
<1>8. c.op \in MemoryOps
  BY <1>7 DEF MemoryOps
<1>9. n' = Queue([n EXCEPT !.bytes = bs], c)
  <2>1. [n EXCEPT !.bytes[i] = b] = [n EXCEPT !.bytes = bs]
    BY <1>1 DEF Nemiver
  <2>2. [n EXCEPT !.bytes = bs].entry = n.entry
    BY <1>1 DEF Nemiver
  <2> QED
    BY <1>2, <2>1, <2>2 DEF WriteByte
<1> HIDE DEF b, c, bs
<1>10. n' = [queue |-> Append(n.queue, c), rows |-> n.rows, firstRun |-> n.firstRun,
             upToDate |-> n.upToDate, visible |-> n.visible, entry |-> n.entry,
             start |-> n.start, bytes |-> bs]
  BY <1>1, <1>9 DEF Queue, Nemiver
<1>11. /\ Append(n.queue, c) \in Seq(Command)
       /\ OneAtATime(Append(n.queue, c)) /\ Pending(Append(n.queue, c)) = {c}
  BY <1>1, <1>7, <1>8, AppendMemory DEF Nemiver
<1>12. Nemiver(n') /\ Pending(n'.queue) = {c}
  BY <1>1, <1>6, <1>10, <1>11 DEF Nemiver
<1>13. ASSUME Plain, gdb.inferior = "stopped", n.entry # NoAddress
       PROVE  BytesOf(n', gdb.mem)
  <2>1. n.start = n.entry /\ \A j \in 1..Window : n.bytes[j] = gdb.mem[n.entry + j - 1]
    BY <1>1, <1>13 DEF IInv, BytesOf
  <2>2. n'.start = n'.entry /\ n'.entry = n.entry /\ n'.bytes = bs
    BY <1>10, <2>1
  <2>3. at \in n.entry..(n.entry + Window - 1) /\ at - n.entry + 1 = i
    BY <1>3, <1>4, <1>5
  <2>4. \A d \in Pending(n'.queue) :
            /\ d.at \in n'.entry..(n'.entry + Window - 1)
            /\ d.byte = n'.bytes[d.at - n'.entry + 1]
    BY <1>6, <1>7, <1>12, <2>2, <2>3
  <2>5. ASSUME NEW j \in 1..Window
        PROVE  \/ n'.bytes[j] = gdb.mem[n'.entry + j - 1]
               \/ \E d \in Pending(n'.queue) : d.at = n'.entry + j - 1
    <3>1. CASE j = i
      BY <1>7, <1>12, <2>2, <3>1
    <3>2. CASE j # i
      BY <1>6, <2>1, <2>2, <3>2
    <3> QED
      BY <3>1, <3>2
  <2>6. n'.bytes \in [1..Window -> Values]
    BY <1>6, <2>2
  <2> QED
    BY <2>2, <2>4, <2>5, <2>6 DEF BytesOf
<1>14. n'.entry = n.entry /\ \A d \in Pending(n'.queue) : d.op # "read"
  BY <1>7, <1>10, <1>12
<1> QED
  BY <1>1, <1>12, <1>13, <1>14 DEF IInv, Plain

-----------------------------------------------------------------------------
(* The answers of GDB, by the command answered.                            *)

(* Nemiver as the handlers find it: the command is out of the queue.       *)
Dequeued == [n EXCEPT !.queue = Tail(@)]

LEMMA DequeuedCommand ==
    ASSUME IInv, ~Quiet
    PROVE  /\ Head(n.queue) \in Command
           /\ Nemiver(Dequeued)
           /\ Dequeued.entry = n.entry /\ Dequeued.start = n.start /\ Dequeued.bytes = n.bytes
           /\ Head(n.queue).op \notin MemoryOps => SameMemory(n, Dequeued)
           /\ Head(n.queue).op \in MemoryOps =>
                Pending(n.queue) = {Head(n.queue)} /\ Pending(Dequeued.queue) = {}
<1> DEFINE q == n.queue
<1>1. Nemiver(n) /\ q \in Seq(Command) /\ q # <<>> /\ OneAtATime(q)
  BY DEF IInv, Nemiver, Quiet
<1>2. Dequeued = [queue |-> Tail(q), rows |-> n.rows, firstRun |-> n.firstRun,
                  upToDate |-> n.upToDate, visible |-> n.visible, entry |-> n.entry,
                  start |-> n.start, bytes |-> n.bytes]
  BY <1>1, OtherQueue DEF Dequeued
<1> HIDE DEF q
<1>3. /\ Head(q) \in Command /\ Tail(q) \in Seq(Command) /\ OneAtATime(Tail(q))
      /\ Head(q).op \notin MemoryOps => Pending(Tail(q)) = Pending(q)
      /\ Head(q).op \in MemoryOps => Pending(q) = {Head(q)} /\ Pending(Tail(q)) = {}
  BY <1>1, Answered
<1>4. Nemiver(Dequeued)
  BY <1>1, <1>2, <1>3 DEF Nemiver
<1> QED
  BY <1>2, <1>3, <1>4 DEF SameMemory, q

(* The commands of the registers, answered or refused.                     *)
LEMMA RegisterRepliesKeep ==
    ASSUME IInv, Reply, Head(n.queue).op \notin MemoryOps
    PROVE  IInv'
<1> DEFINE c == Head(n.queue)
<1>1. /\ c \in Command /\ c.op \in {"names", "changed", "values", "set", "frame"}
      /\ Nemiver(n) /\ Nemiver(Dequeued) /\ SameMemory(n, Dequeued) /\ Gdb(gdb) /\ may' = may
  <2>1. ~Quiet /\ may' = may /\ Nemiver(n) /\ Gdb(gdb)
    BY DEF Reply, IInv
  <2>2. c \in Command /\ Nemiver(Dequeued) /\ SameMemory(n, Dequeued)
    BY <2>1, DequeuedCommand
  <2>3. c.op \in {"names", "changed", "values", "set", "frame", "read", "write"}
    BY <2>2 DEF Command
  <2> QED
    BY <2>1, <2>2, <2>3 DEF MemoryOps
<1>2. c.op = "values" => c.regs \in SUBSET Registers
  BY <1>1 DEF Command
<1>3. /\ \/ n' = OnNamesListed(Dequeued)
         \/ n' = OnChangedListed(Dequeued, Changed)
         \/ c.op = "values" /\ n' = OnValuesListed(Dequeued, c.regs, Current)
         \/ n' = Dequeued
      /\ \/ gdb' = gdb
         \/ gdb' = [gdb EXCEPT !.seen = Current]
         \/ gdb' = [gdb EXCEPT !.regs[gdb.frame][c.reg] = c.val]
         \/ gdb' = [gdb EXCEPT !.frame = c.level]
  BY <1>1 DEF Reply, Dequeued, MemoryOps
<1> HIDE DEF c
<1>4. Changed \in SUBSET Registers
  BY DEF Changed
<1>5. SameMemory(Dequeued, OnNamesListed(Dequeued))
  <2> DEFINE s == [Dequeued EXCEPT !.rows = [r \in Registers |-> None]]
  <2>1. SameMemory(Dequeued, s)
    BY <1>1, Rows
  <2> HIDE DEF s
  <2>2. SameMemory(s, ListValues(s, Registers))
    BY <2>1, ListValuesSame DEF SameMemory
  <2>3. OnNamesListed(Dequeued) = ListValues(s, Registers)
    BY DEF OnNamesListed, s
  <2> QED
    BY <2>1, <2>2, <2>3 DEF SameMemory
<1>6. SameMemory(Dequeued, OnChangedListed(Dequeued, Changed))
  BY <1>1, <1>4, ListValuesSame, Flags DEF OnChangedListed
<1>7. \A regs, values : SameMemory(Dequeued, OnValuesListed(Dequeued, regs, values))
  <2> SUFFICES ASSUME NEW regs, NEW values
               PROVE  SameMemory(Dequeued, OnValuesListed(Dequeued, regs, values))
    OBVIOUS
  <2> DEFINE f == [r \in DOMAIN Dequeued.rows |->
                     IF r \in regs THEN values[r] ELSE Dequeued.rows[r]]
  <2>1. DOMAIN f \subseteq Registers
    BY <1>1 DEF Nemiver
  <2>2. OnValuesListed(Dequeued, regs, values) = [Dequeued EXCEPT !.rows = f]
    BY <1>1 DEF OnValuesListed, Nemiver
  <2> HIDE DEF f
  <2> QED
    BY <1>1, <2>1, <2>2, Rows
<1>8. SameMemory(Dequeued, Dequeued)
  BY <1>1, Flags
<1>9. SameMemory(n, n')
  <2>1. SameMemory(Dequeued, n')
    BY <1>3, <1>5, <1>6, <1>7, <1>8
  <2> QED
    BY <1>1, <2>1 DEF SameMemory
<1>10. Gdb(gdb') /\ gdb'.inferior = gdb.inferior /\ gdb'.mem = gdb.mem
  BY <1>1, <1>3 DEF Gdb
<1> QED
  BY <1>1, <1>9, <1>10, SameKeeps

(* A read answered shows the bytes there; refused, it was of a program     *)
(* that is no more.                                                        *)
LEMMA ReadReplyKeeps ==
    ASSUME DataViewsAssumption, IInv, Reply, Head(n.queue).op = "read"
    PROVE  IInv'
<1> DEFINE c == Head(n.queue)
           bs == Bytes(c.at)
<1>1. /\ c \in Command /\ Nemiver(Dequeued) /\ Gdb(gdb) /\ may' = may /\ ~Running
      /\ Pending(n.queue) = {c} /\ Pending(Dequeued.queue) = {}
      /\ Dequeued.entry = n.entry
  <2>1. ~Quiet /\ may' = may /\ ~Running /\ Gdb(gdb) /\ c.op \in MemoryOps
    BY DEF Reply, IInv, MemoryOps
  <2> QED
    BY <2>1, DequeuedCommand
<1>2. c.at \in Readable /\ c.at = n.entry
  BY <1>1 DEF Command, IInv
<1>3. /\ gdb' = gdb
      /\ \/ n' = OnMemoryRead(Dequeued, c.at, bs)
         \/ gdb.inferior # "stopped" /\ n' = Dequeued
  BY DEF Reply, Dequeued
<1>4. CASE n' = Dequeued /\ gdb.inferior # "stopped"
  BY <1>1, <1>3, <1>4 DEF IInv, Running
<1>5. CASE n' = OnMemoryRead(Dequeued, c.at, bs)
  <2>1. bs \in [1..Window -> Values] /\ \A i \in 1..Window : bs[i] = gdb.mem[c.at + i - 1]
    <3>1. c.at \in Nat /\ c.at..(c.at + Window - 1) \subseteq Addresses /\ Window \in Nat
      BY <1>2 DEF Readable, DataViewsAssumption
    <3>2. \A i \in 1..Window : c.at + i - 1 \in Addresses
      BY <3>1
    <3>3. gdb.mem \in [Addresses -> Values]
      BY <1>1 DEF Gdb
    <3> QED
      BY <3>2, <3>3 DEF Bytes
  <2> HIDE DEF bs, c
  <2>2. n' = [queue |-> Dequeued.queue, rows |-> Dequeued.rows, firstRun |-> Dequeued.firstRun,
              upToDate |-> Dequeued.upToDate, visible |-> Dequeued.visible, entry |-> c.at,
              start |-> c.at, bytes |-> bs]
    BY <1>1, <1>5 DEF OnMemoryRead, Nemiver
  <2>3. Nemiver(n') /\ Pending(n'.queue) = {} /\ n'.entry = c.at /\ n'.start = c.at /\ n'.bytes = bs
    BY <1>1, <1>2, <2>1, <2>2 DEF Nemiver
  <2>4. BytesOf(n', gdb.mem)
    BY <2>1, <2>3 DEF BytesOf
  <2> QED
    BY <1>1, <1>3, <2>3, <2>4 DEF IInv, Running
<1> QED
  BY <1>3, <1>4, <1>5

(* A write answered puts the byte where it is shown; it is refused of a    *)
(* program that is no more, or where no memory is shown.                   *)
LEMMA WriteReplyKeeps ==
    ASSUME DataViewsAssumption, IInv, Reply, Head(n.queue).op = "write"
    PROVE  IInv'
<1> DEFINE c == Head(n.queue)
<1>1. /\ c \in Command /\ Nemiver(Dequeued) /\ Gdb(gdb) /\ may' = may /\ ~Running
      /\ Pending(n.queue) = {c} /\ Pending(Dequeued.queue) = {}
      /\ Dequeued.entry = n.entry /\ Dequeued.start = n.start /\ Dequeued.bytes = n.bytes
  <2>1. ~Quiet /\ may' = may /\ ~Running /\ Gdb(gdb) /\ c.op \in MemoryOps
    BY DEF Reply, IInv, MemoryOps
  <2> QED
    BY <2>1, DequeuedCommand
<1>2. c.at \in Int /\ c.byte \in Values
  BY <1>1 DEF Command
<1>3. /\ n' = Dequeued
      /\ \/ /\ Writable(c.at)
            /\ gdb' = [gdb EXCEPT !.mem[c.at] = c.byte]
         \/ /\ gdb.inferior # "stopped" \/ ~Writable(c.at)
            /\ gdb' = gdb
  BY DEF Reply, Dequeued
<1>4. Window \in Nat \ {0} /\ Addresses \subseteq Nat
  BY DEF DataViewsAssumption
<1>5. ASSUME Plain, gdb.inferior = "stopped", n.entry # NoAddress
      PROVE  /\ n.entry \in Nat /\ n.start = n.entry /\ n.bytes \in [1..Window -> Values]
             /\ c.at \in n.entry..(n.entry + Window - 1) /\ c.at \in Addresses
             /\ c.byte = n.bytes[c.at - n.entry + 1]
             /\ \A i \in 1..Window :
                   n.bytes[i] = gdb.mem[n.entry + i - 1] \/ c.at = n.entry + i - 1
             /\ \A i \in 1..Window : n.entry + i - 1 \in Addresses
  <2>1. BytesOf(n, gdb.mem) /\ n.entry \in Readable
    BY <1>5 DEF IInv, Nemiver
  <2>2. n.entry \in Addresses /\ n.entry..(n.entry + Window - 1) \subseteq Addresses
    BY <2>1 DEF Readable
  <2>3. n.entry \in Nat
    BY <1>4, <2>2
  <2>4. \A i \in 1..Window : n.entry + i - 1 \in n.entry..(n.entry + Window - 1)
    BY <1>4, <2>3
  <2>5. \A d \in Pending(n.queue) : d.op = "write"
    BY <1>1
  <2> HIDE DEF c
  <2>6. /\ n.start = n.entry /\ n.bytes \in [1..Window -> Values]
        /\ c.at \in n.entry..(n.entry + Window - 1)
        /\ c.byte = n.bytes[c.at - n.entry + 1]
        /\ \A i \in 1..Window :
              n.bytes[i] = gdb.mem[n.entry + i - 1] \/ c.at = n.entry + i - 1
    BY <1>1, <2>1, <2>5 DEF BytesOf
  <2> QED
    BY <2>2, <2>3, <2>4, <2>6
<1> HIDE DEF c
<1>6. CASE gdb' = gdb /\ (gdb.inferior # "stopped" \/ ~Writable(c.at))
  <2>1. ~(Plain /\ gdb.inferior = "stopped" /\ n.entry # NoAddress)
    BY <1>5, <1>6 DEF Writable, Plain
  <2> QED
    BY <1>1, <1>3, <1>6, <2>1 DEF IInv, Running, Plain
<1>7. CASE Writable(c.at) /\ gdb' = [gdb EXCEPT !.mem[c.at] = c.byte]
  <2> DEFINE mem == [gdb.mem EXCEPT ![c.at] = c.byte]
  <2>1. /\ mem \in [Addresses -> Values] /\ c.at \in Addresses /\ mem[c.at] = c.byte
        /\ \A a \in Addresses : a # c.at => mem[a] = gdb.mem[a]
    BY <1>1, <1>2, <1>7 DEF Gdb, Writable
  <2>2. gdb' = [gdb EXCEPT !.mem = mem]
    BY <1>1, <1>7 DEF Gdb
  <2> HIDE DEF mem
  <2>3. Gdb(gdb') /\ gdb'.inferior = gdb.inferior /\ gdb'.mem = mem
    BY <1>1, <2>1, <2>2 DEF Gdb
  <2>4. ASSUME Plain, gdb.inferior = "stopped", n.entry # NoAddress
        PROVE  BytesOf(Dequeued, mem)
    <3>1. ASSUME NEW i \in 1..Window
          PROVE  n.bytes[i] = mem[n.entry + i - 1]
      <4>1. CASE c.at = n.entry + i - 1
        <5>1. c.at - n.entry + 1 = i
          BY <1>4, <1>5, <2>4, <4>1
        <5> QED
          BY <1>4, <1>5, <2>1, <2>4, <4>1, <5>1
      <4>2. CASE c.at # n.entry + i - 1
        BY <1>4, <1>5, <2>1, <2>4, <4>2
      <4> QED
        BY <4>1, <4>2
    <3> QED
      BY <1>1, <1>5, <2>4, <3>1 DEF BytesOf
  <2> QED
    BY <1>1, <1>3, <2>3, <2>4 DEF IInv, Running, Plain
<1> QED
  BY <1>3, <1>6, <1>7

LEMMA StepIInv ==
    ASSUME DataViewsAssumption, IInv, [Next]_vars
    PROVE  IInv'
<1>1. CASE UNCHANGED vars
  BY <1>1 DEF vars, IInv, Running, Plain
<1>2. CASE Next
  <2>1. CASE Reply
    <3>1. CASE Head(n.queue).op = "read"
      BY <2>1, <3>1, ReadReplyKeeps
    <3>2. CASE Head(n.queue).op = "write"
      BY <2>1, <3>2, WriteReplyKeeps
    <3>3. CASE Head(n.queue).op \notin MemoryOps
      BY <2>1, <3>3, RegisterRepliesKeep
    <3> QED
      BY <3>1, <3>2, <3>3 DEF MemoryOps
  <2> QED
    BY <1>2, <2>1, GoesKeep, StopsKeeps, RegisterClicksKeep, AddressClicksKeep, EditByteKeeps
    DEF Next
<1> QED
  BY <1>1, <1>2

(* What the invariant is for: nothing pending, the bytes are the memory's. *)
LEMMA IInvShown ==
    ASSUME IInv
    PROVE  MemoryShown
<1> SUFFICES ASSUME Settled, n.entry # NoAddress, Plain
             PROVE  n.start = n.entry /\ n.bytes = Bytes(n.start)
  BY DEF MemoryShown, Plain
<1>1. Pending(n.queue) = {} /\ gdb.inferior = "stopped"
  BY QuietIsIdle DEF Settled
<1>2. BytesOf(n, gdb.mem)
  BY <1>1 DEF IInv
<1>3. /\ n.start = n.entry /\ n.bytes \in [1..Window -> Values]
      /\ \A i \in 1..Window : n.bytes[i] = gdb.mem[n.entry + i - 1]
  BY <1>1, <1>2 DEF BytesOf
<1>4. n.bytes = [i \in 1..Window |-> gdb.mem[n.start + i - 1]]
  BY <1>3
<1> QED
  BY <1>3, <1>4 DEF Bytes

(* Once all is answered, the bytes shown at the address of the entry are   *)
(* those the stopped program has there, whatever it wrote and the user     *)
(* edited, jumped to or restarted: nmv-memory-view.cc reads them at each   *)
(* stop and writes what is typed where it is shown.                        *)
THEOREM MemoryIsShown ==
    ASSUME DataViewsAssumption
    PROVE  Spec => []MemoryShown
<1>1. Init => IInv
  BY InitIInv
<1>2. IInv /\ [Next]_vars => IInv'
  BY StepIInv
<1>3. IInv => MemoryShown
  BY IInvShown
<1> QED
  BY <1>1, <1>2, <1>3, PTL DEF Spec

-----------------------------------------------------------------------------
(* The view of registers.                                                  *)

(* The view reads the registers of the frame GDB has selected: who hides   *)
(* it, or changes a register, while another frame than the innermost is    *)
(* selected is shown the registers of that frame.                          *)
FramesAlone == \A s \in Scenarios : "frames" \in s => s \intersect {"hiding", "edit"} = {}

(* What waits in a queue, and the registers it is about.                   *)
RegisterOps == {"names", "changed", "values", "set"}
Ops(q) == {q[i].op : i \in DOMAIN q}
Reading(q) ==
    {r \in Registers : \E i \in DOMAIN q : q[i].op = "values" /\ r \in q[i].regs}
NamesFirst(q) ==
    \A i, j \in DOMAIN q : i < j /\ q[j].op = "names" => q[i].op # "changed"
SetsRead(q) ==
    \A i \in DOMAIN q : q[i].op = "set" =>
        \E j \in DOMAIN q : i < j /\ q[j].op = "values" /\ q[i].reg \in q[j].regs

Bank == [Registers -> Values]
Banks ==
    /\ may \in Scenarios
    /\ gdb.regs \in [{0} -> Bank] \union [{0, 1} -> Bank]
    /\ gdb.seen \in {<<>>} \union Bank
    /\ n.visible => n.upToDate
    /\ gdb.goes = 0 => gdb.inferior = "none" /\ n.upToDate

(* Registers are only asked for with the innermost frame selected.         *)
Asks(op) == op \in Ops(n.queue)
FramesInv ==
    IF "frames" \in may
    THEN /\ n.visible
         /\ Running => n.queue = <<>>
         /\ Asks("frame") => Ops(n.queue) = {"frame"}
         /\ gdb.frame # 0 => Ops(n.queue) \intersect RegisterOps = {}
    ELSE gdb.frame = 0 /\ ~Asks("frame")

(* A row holds the value GDB compares with, unless it is about to be read; *)
(* it holds the value of the register, unless the stop was not seen.       *)
Upset == {"edit", "restart"} \intersect may # {}
Coming(r) == Asks("names") \/ r \in Reading(n.queue)
Compared ==
    IF n.firstRun
    THEN gdb.seen = <<>> /\ n.rows = <<>> /\ Ops(n.queue) \intersect RegisterOps = {}
    ELSE /\ Asks("names") \/ DOMAIN n.rows = Registers
         /\ \A r \in Registers : Coming(r) \/ gdb.seen = <<>> \/ n.rows[r] = gdb.seen[r]
Read ==
    gdb.inferior = "stopped" /\ n.upToDate =>
        /\ ~n.firstRun
        /\ \A r \in Registers : Coming(r) \/ Asks("changed") \/ n.rows[r] = gdb.regs[0][r]
InOrder ==
    /\ NamesFirst(n.queue) /\ SetsRead(n.queue)
    /\ Asks("names") => gdb.seen = <<>>
    /\ Asks("values") => ~Running /\ (gdb.seen = <<>> \/ gdb.seen = gdb.regs[0])
    /\ Asks("set") => ~Running /\ "edit" \in may
FirstOnly ==
    Upset =>
        /\ gdb.seen = <<>> /\ ~Asks("changed")
        /\ Running => n.upToDate /\ n.firstRun
        /\ ~n.upToDate => n.firstRun

Followed == gdb.inferior # "none" /\ (Upset => gdb.goes = 1)
RInv ==
    /\ IInv /\ Banks /\ FramesInv
    /\ Followed => Compared /\ Read /\ InOrder /\ FirstOnly

-----------------------------------------------------------------------------
(* Lemmas about what waits.                                                *)

LEMMA NothingWaits == Ops(<<>>) = {} /\ Reading(<<>>) = {} /\ NamesFirst(<<>>) /\ SetsRead(<<>>)
  BY DEF Ops, Reading, NamesFirst, SetsRead

(* A command queued is the last to be answered.                            *)
LEMMA OneMore ==
    ASSUME NEW q \in Seq(Command), NEW c \in Command
    PROVE  LET r == Append(q, c) IN
           /\ r \in Seq(Command)
           /\ Ops(r) = Ops(q) \union {c.op}
           /\ c.op # "values" => Reading(r) = Reading(q)
           /\ c.op = "values" => Reading(r) = Reading(q) \union c.regs
           /\ NamesFirst(q) /\ (c.op = "names" => "changed" \notin Ops(q)) => NamesFirst(r)
           /\ SetsRead(q) /\ c.op # "set" => SetsRead(r)
<1> DEFINE r == Append(q, c)
<1>1. r \in Seq(Command) /\ DOMAIN r = 1..(Len(q) + 1) /\ DOMAIN q = 1..Len(q) /\ Len(q) \in Nat
  OBVIOUS
<1>2. /\ \A i \in 1..Len(q) : r[i] = q[i]
      /\ r[Len(q) + 1] = c
  OBVIOUS
<1> HIDE DEF r
<1>3. Ops(r) = Ops(q) \union {c.op}
  <2>1. \A i \in DOMAIN r : r[i].op \in Ops(q) \union {c.op}
    BY <1>1, <1>2 DEF Ops
  <2>2. \A i \in DOMAIN q : i \in DOMAIN r /\ r[i].op = q[i].op
    BY <1>1, <1>2
  <2>3. Len(q) + 1 \in DOMAIN r
    BY <1>1
  <2> QED
    BY <1>2, <2>1, <2>2, <2>3 DEF Ops
<1>4. c.op # "values" => Reading(r) = Reading(q)
  BY <1>1, <1>2 DEF Reading
<1>5. c.op = "values" => c.regs \in SUBSET Registers
  BY DEF Command
<1>6. ASSUME c.op = "values"
      PROVE  Reading(r) = Reading(q) \union c.regs
  <2>1. Reading(r) \subseteq Reading(q) \union c.regs
    BY <1>1, <1>2 DEF Reading
  <2>2. Reading(q) \subseteq Reading(r)
    BY <1>1, <1>2 DEF Reading
  <2>3. Len(q) + 1 \in DOMAIN r
    BY <1>1
  <2>4. c.regs \subseteq Reading(r)
    BY <1>2, <1>5, <1>6, <2>3 DEF Reading
  <2> QED
    BY <2>1, <2>2, <2>4
<1>7. NamesFirst(q) /\ (c.op = "names" => "changed" \notin Ops(q)) => NamesFirst(r)
  BY <1>1, <1>2 DEF NamesFirst, Ops
<1>8. SetsRead(q) /\ c.op # "set" => SetsRead(r)
  BY <1>1, <1>2 DEF SetsRead
<1> QED
  BY <1>1, <1>3, <1>4, <1>6, <1>7, <1>8 DEF r

LEMMA OnlyOne ==
    ASSUME NEW c \in Command, NEW q, q = Append(<<>>, c)
    PROVE  /\ Ops(q) = {c.op}
           /\ c.op # "values" => Reading(q) = {}
           /\ NamesFirst(q)
           /\ c.op # "set" => SetsRead(q)
<1>1. DOMAIN q = {1} /\ q[1] = c
  <2>1. DOMAIN q = 1..1 /\ q[1] = c
    OBVIOUS
  <2> QED
    BY <2>1
<1>2. Ops(q) = {c.op}
  BY <1>1 DEF Ops
<1>3. c.op # "values" => Reading(q) = {}
  BY <1>1 DEF Reading
<1>4. NamesFirst(q) /\ (c.op # "set" => SetsRead(q))
  BY <1>1 DEF NamesFirst, SetsRead
<1> QED
  BY <1>2, <1>3, <1>4

(* A command answered is no longer waited for; a register that was set is  *)
(* read again behind it.                                                   *)
LEMMA OneLess ==
    ASSUME NEW q \in Seq(Command), q # <<>>
    PROVE  LET h == Head(q)
               t == Tail(q)
           IN /\ h \in Command /\ t \in Seq(Command)
              /\ Ops(q) = Ops(t) \union {h.op}
              /\ h.op # "values" => Reading(q) = Reading(t)
              /\ h.op = "values" => Reading(q) = Reading(t) \union h.regs
              /\ NamesFirst(q) => NamesFirst(t)
              /\ NamesFirst(q) /\ h.op = "changed" => "names" \notin Ops(t)
              /\ SetsRead(q) => SetsRead(t)
              /\ SetsRead(q) /\ h.op = "set" => h.reg \in Reading(t)
<1> DEFINE h == Head(q)
           t == Tail(q)
<1>1. /\ h \in Command /\ h = q[1] /\ t \in Seq(Command)
      /\ DOMAIN q = 1..Len(q) /\ Len(q) \in Nat \ {0} /\ DOMAIN t = 1..(Len(q) - 1)
  OBVIOUS
<1>2. \A i \in 1..(Len(q) - 1) : t[i] = q[i + 1]
  OBVIOUS
<1> HIDE DEF h, t
<1>3. \A i \in DOMAIN t : i + 1 \in DOMAIN q /\ t[i] = q[i + 1] /\ i \in Nat \ {0}
  BY <1>1, <1>2
<1>4. \A i \in DOMAIN q : i # 1 => i - 1 \in DOMAIN t /\ q[i] = t[i - 1] /\ i \in Nat
  <2> SUFFICES ASSUME NEW i \in DOMAIN q, i # 1
               PROVE  i - 1 \in DOMAIN t /\ q[i] = t[i - 1] /\ i \in Nat
    OBVIOUS
  <2>1. i - 1 \in 1..(Len(q) - 1) /\ (i - 1) + 1 = i /\ i \in Nat
    BY <1>1
  <2> QED
    BY <1>1, <1>2, <2>1
<1>5. 1 \in DOMAIN q
  BY <1>1
<1>6. Ops(q) = Ops(t) \union {h.op}
  <2>1. Ops(q) \subseteq Ops(t) \union {h.op}
    BY <1>1, <1>4 DEF Ops
  <2>2. Ops(t) \subseteq Ops(q)
    BY <1>3 DEF Ops
  <2>3. h.op \in Ops(q)
    BY <1>1, <1>5 DEF Ops
  <2> QED
    BY <2>1, <2>2, <2>3
<1>7. Reading(t) \subseteq Reading(q)
  BY <1>3 DEF Reading
<1>8. h.op # "values" => Reading(q) = Reading(t)
  BY <1>1, <1>4, <1>7 DEF Reading
<1>9. ASSUME h.op = "values"
      PROVE  Reading(q) = Reading(t) \union h.regs
  <2>1. h.regs \in SUBSET Registers
    BY <1>1, <1>9 DEF Command
  <2>2. h.regs \subseteq Reading(q)
    BY <1>1, <1>5, <1>9, <2>1 DEF Reading
  <2>3. Reading(q) \subseteq Reading(t) \union h.regs
    BY <1>1, <1>4 DEF Reading
  <2> QED
    BY <1>7, <2>2, <2>3
<1>10. NamesFirst(q) => NamesFirst(t)
  <2> SUFFICES ASSUME NamesFirst(q), NEW i \in DOMAIN t, NEW j \in DOMAIN t, i < j, t[j].op = "names"
               PROVE  t[i].op # "changed"
    BY DEF NamesFirst
  <2>1. i + 1 < j + 1 /\ i + 1 \in DOMAIN q /\ j + 1 \in DOMAIN q
    BY <1>3
  <2> QED
    BY <1>3, <2>1 DEF NamesFirst
<1>11. ASSUME NamesFirst(q), h.op = "changed"
       PROVE  "names" \notin Ops(t)
  <2> SUFFICES ASSUME NEW i \in DOMAIN t, t[i].op = "names"
               PROVE  FALSE
    BY DEF Ops
  <2>1. 1 < i + 1 /\ i + 1 \in DOMAIN q /\ q[i + 1].op = "names"
    BY <1>3
  <2> QED
    BY <1>1, <1>5, <1>11, <2>1 DEF NamesFirst
<1>12. ASSUME SetsRead(q)
       PROVE  SetsRead(t)
  <2> SUFFICES ASSUME NEW i \in DOMAIN t, t[i].op = "set"
               PROVE  \E j \in DOMAIN t : i < j /\ t[j].op = "values" /\ t[i].reg \in t[j].regs
    BY DEF SetsRead
  <2>1. i + 1 \in DOMAIN q /\ q[i + 1] = t[i] /\ i \in Nat \ {0}
    BY <1>3
  <2>2. PICK j \in DOMAIN q : i + 1 < j /\ q[j].op = "values" /\ t[i].reg \in q[j].regs
    BY <1>12, <2>1 DEF SetsRead
  <2>3. j \in Nat /\ j # 1
    BY <1>1, <2>1, <2>2
  <2>4. j - 1 \in DOMAIN t /\ q[j] = t[j - 1] /\ i < j - 1
    BY <1>4, <2>1, <2>2, <2>3
  <2> QED
    BY <2>2, <2>4
<1>13. ASSUME SetsRead(q), h.op = "set"
       PROVE  h.reg \in Reading(t)
  <2>1. PICK j \in DOMAIN q : 1 < j /\ q[j].op = "values" /\ h.reg \in q[j].regs
    BY <1>1, <1>5, <1>13 DEF SetsRead
  <2>2. j - 1 \in DOMAIN t /\ q[j] = t[j - 1]
    BY <1>4, <2>1
  <2>3. h.reg \in Registers
    BY <1>1, <1>13 DEF Command
  <2> QED
    BY <2>1, <2>2, <2>3 DEF Reading
<1> QED
  BY <1>1, <1>6, <1>8, <1>9, <1>10, <1>11, <1>12, <1>13 DEF h, t

-----------------------------------------------------------------------------
(* Lemmas about the operations on the view of registers.                   *)

(* All but the queue.                                                      *)
SameView(s, t) ==
    /\ t.rows = s.rows /\ t.firstRun = s.firstRun
    /\ t.upToDate = s.upToDate /\ t.visible = s.visible

LEMMA QueueOnly ==
    ASSUME NEW s, Nemiver(s), NEW c
    PROVE  Queue(s, c).queue = Append(s.queue, c) /\ SameView(s, Queue(s, c))
<1>1. Queue(s, c) = [queue |-> Append(s.queue, c), rows |-> s.rows, firstRun |-> s.firstRun,
                     upToDate |-> s.upToDate, visible |-> s.visible, entry |-> s.entry,
                     start |-> s.start, bytes |-> s.bytes]
  BY OtherQueue DEF Queue
<1> QED
  BY <1>1 DEF SameView

LEMMA FinishStoppedQueues ==
    ASSUME NEW s, Nemiver(s)
    PROVE  LET t == FinishStopped(s) IN
           /\ t.rows = s.rows /\ t.upToDate = s.upToDate /\ t.visible = s.visible
           /\ t.firstRun = FALSE
           /\ t.queue = Append(s.queue, [op |-> IF s.firstRun THEN "names" ELSE "changed"])
<1> DEFINE u == [s EXCEPT !.firstRun = FALSE]
<1>1. /\ u.rows = s.rows /\ u.upToDate = s.upToDate /\ u.visible = s.visible
      /\ u.firstRun = FALSE /\ u.queue = s.queue
  BY DEF Nemiver
<1>2. Nemiver(u)
  BY Flags DEF SameMemory
<1>3. s.firstRun \in BOOLEAN
  BY DEF Nemiver
<1> HIDE DEF u
<1>4. /\ Queue(u, [op |-> "names"]).queue = Append(u.queue, [op |-> "names"])
      /\ SameView(u, Queue(u, [op |-> "names"]))
  BY <1>2, QueueOnly
<1>5. /\ Queue(s, [op |-> "changed"]).queue = Append(s.queue, [op |-> "changed"])
      /\ SameView(s, Queue(s, [op |-> "changed"]))
  BY QueueOnly
<1>6. FinishStopped(s) = IF s.firstRun THEN Queue(u, [op |-> "names"])
                         ELSE Queue(s, [op |-> "changed"])
  BY DEF FinishStopped, u
<1> HIDE DEF FinishStopped
<1> QED
  BY <1>1, <1>3, <1>4, <1>5, <1>6 DEF SameView

LEMMA ReadMemoryQueues ==
    ASSUME NEW s, Nemiver(s)
    PROVE  LET t == ReadMemory(s) IN
           /\ SameView(s, t)
           /\ \/ t.queue = s.queue
              \/ s.entry \in Readable /\ t.queue = Append(s.queue, [op |-> "read", at |-> s.entry])
<1>1. CASE s.entry = NoAddress
  BY <1>1 DEF ReadMemory, SameView
<1>2. CASE s.entry # NoAddress
  <2>1. s.entry \in Readable
    BY <1>2 DEF Nemiver
  <2>2. ReadMemory(s) = Queue(s, [op |-> "read", at |-> s.entry])
    BY <1>2 DEF ReadMemory
  <2> QED
    BY <2>1, <2>2, QueueOnly
<1> QED
  BY <1>1, <1>2

LEMMA ClearsView ==
    ASSUME NEW s, Nemiver(s)
    PROVE  LET t == ClearStatusNotebook(s) IN
           /\ t.queue = s.queue /\ t.rows = <<>> /\ t.firstRun = TRUE
           /\ t.upToDate = s.upToDate /\ t.visible = s.visible
BY DEF ClearStatusNotebook, Nemiver

LEMMA GoFields ==
    ASSUME Gdb(gdb)
    PROVE  LET g == Go(gdb)
               f == [Go(gdb) EXCEPT !.seen = <<>>]
           IN /\ g.inferior = "running" /\ g.goes = gdb.goes + 1
              /\ g.regs = gdb.regs /\ g.frame = gdb.frame /\ g.seen = gdb.seen
              /\ f.inferior = "running" /\ f.goes = gdb.goes + 1
              /\ f.regs = gdb.regs /\ f.frame = gdb.frame /\ f.seen = <<>>
<1>1. Go(gdb) = [inferior |-> "running", regs |-> gdb.regs, frame |-> gdb.frame,
                 seen |-> gdb.seen, mem |-> gdb.mem, goes |-> gdb.goes + 1]
  <2>1. gdb.goes \in Nat
    BY DEF Gdb
  <2>2. PICK g : g = [gdb EXCEPT !.inferior = "running"]
    OBVIOUS
  <2>3. /\ g.goes = gdb.goes
        /\ g = [inferior |-> "running", regs |-> gdb.regs, frame |-> gdb.frame,
                seen |-> gdb.seen, mem |-> gdb.mem, goes |-> gdb.goes]
    BY <2>2 DEF Gdb
  <2>4. Go(gdb) = [g EXCEPT !.goes = gdb.goes + 1]
    BY <2>2, <2>3 DEF Go, Gdb
  <2> QED
    BY <2>3, <2>4
<1> HIDE DEF Go
<1> QED
  BY <1>1

-----------------------------------------------------------------------------
(* The invariant, step by step.                                            *)

LEMMA InitRInv ==
    ASSUME FramesAlone, Init
    PROVE  RInv
<1>1. /\ may \in Scenarios /\ gdb.inferior = "none" /\ gdb.seen = <<>> /\ gdb.frame = 0 /\ gdb.goes = 0
      /\ n.queue = <<>> /\ n.upToDate = TRUE /\ n.visible = ("hiding" \notin may)
      /\ gdb.regs = [l \in {0} |-> [r \in Registers |-> 0]]
  BY DEF Init
<1>2. gdb.regs \in [{0} -> Bank]
  BY <1>1 DEF Bank, Values
<1> QED
  BY <1>1, <1>2, InitIInv, NothingWaits
  DEF FramesAlone, RInv, Banks, FramesInv, Asks, Followed, Running

(* A program run or continued: nothing waits, and nothing is changed but   *)
(* what GDB compares with, when it is another GDB.                         *)
LEMMA GoesKeepRows ==
    ASSUME RInv, IInv', Run \/ Restart \/ Continue \/ InferiorExits
    PROVE  RInv'
<1>1. Nemiver(n) /\ Gdb(gdb) /\ may' = may /\ gdb.goes \in Nat
  BY DEF RInv, IInv, Run, Restart, Continue, InferiorExits, Gdb
<1>2. CASE Run
  <2>1. /\ n.queue = <<>> /\ n'.queue = <<>> /\ n'.rows = <<>> /\ n'.firstRun = TRUE
        /\ n'.upToDate = n.upToDate /\ n'.visible = n.visible
        /\ gdb'.inferior = "running" /\ gdb'.goes = gdb.goes + 1
        /\ gdb'.regs = gdb.regs /\ gdb'.frame = gdb.frame /\ gdb'.seen = <<>>
    BY <1>1, <1>2, ClearsView, GoFields DEF Run, Quiet
  <2>2. Banks'
    BY <1>1, <2>1 DEF RInv, Banks
  <2>3. FramesInv'
    BY <1>1, <2>1, NothingWaits DEF RInv, FramesInv, Asks
  <2>4. Followed' => Compared' /\ Read' /\ InOrder' /\ FirstOnly'
    BY <1>1, <2>1, NothingWaits
    DEF RInv, Banks, Followed, Compared, Read, InOrder, FirstOnly, Asks, Running, Upset
  <2> QED
    BY <2>2, <2>3, <2>4 DEF RInv
<1>3. CASE Restart
  <2>1. /\ n.queue = <<>> /\ n'.queue = <<>>
        /\ n'.upToDate = n.upToDate /\ n'.visible = n.visible
        /\ gdb.inferior = "stopped" /\ gdb'.inferior = "running" /\ gdb'.goes = gdb.goes + 1
        /\ gdb'.regs = gdb.regs /\ gdb'.frame = gdb.frame /\ gdb'.seen = gdb.seen
        /\ "restart" \in may
    BY <1>1, <1>3, ClearsView, GoFields DEF Restart, Quiet
  <2>2. Banks' /\ gdb.goes # 0
    BY <1>1, <2>1 DEF RInv, Banks
  <2>3. FramesInv'
    BY <1>1, <2>1, NothingWaits DEF RInv, FramesInv, Asks
  <2>4. ~Followed'
    BY <1>1, <2>1, <2>2 DEF Followed, Upset
  <2> QED
    BY <2>2, <2>3, <2>4 DEF RInv
<1>4. CASE Continue
  <2>1. /\ n.queue = <<>> /\ n' = n
        /\ gdb.inferior = "stopped" /\ gdb'.inferior = "running" /\ gdb'.goes = gdb.goes + 1
        /\ gdb'.regs = gdb.regs /\ gdb'.frame = gdb.frame /\ gdb'.seen = gdb.seen
    BY <1>1, <1>4, GoFields DEF Continue, Quiet
  <2>2. Banks' /\ gdb.goes # 0
    BY <1>1, <2>1 DEF RInv, Banks
  <2>3. FramesInv'
    BY <1>1, <2>1, NothingWaits DEF RInv, FramesInv, Asks
  <2>4. Followed' => ~Upset /\ Followed
    BY <1>1, <2>1, <2>2 DEF Followed, Upset
  <2>5. Followed' => Compared' /\ Read' /\ InOrder' /\ FirstOnly'
    BY <1>1, <2>1, <2>4, NothingWaits
    DEF RInv, Compared, Read, InOrder, FirstOnly, Asks, Coming, Running, Upset
  <2> QED
    BY <2>2, <2>3, <2>5 DEF RInv
<1>5. CASE InferiorExits
  <2>1. /\ n'.queue = n.queue /\ n'.upToDate = n.upToDate /\ n'.visible = n.visible
        /\ Running /\ gdb' = [gdb EXCEPT !.inferior = "none"]
    BY <1>1, <1>5, ClearsView DEF InferiorExits
  <2>2. /\ gdb'.inferior = "none" /\ gdb'.regs = gdb.regs /\ gdb'.frame = gdb.frame
        /\ gdb'.seen = gdb.seen /\ gdb'.goes = gdb.goes
    BY <1>1, <2>1 DEF Gdb
  <2>3. Banks'
    BY <1>1, <2>1, <2>2 DEF RInv, Banks, Running
  <2>4. FramesInv'
    BY <1>1, <2>1, <2>2 DEF RInv, FramesInv, Asks, Running
  <2> QED
    BY <2>2, <2>3, <2>4 DEF RInv, Followed
<1> QED
  BY <1>2, <1>3, <1>4, <1>5

(* A stop that is seen asks for the registers; one that is not is          *)
(* remembered.                                                             *)
LEMMA StopsKeepRows ==
    ASSUME RInv, IInv', InferiorStops
    PROVE  RInv'
<1> DEFINE s == RegistersOnStopped(n)
           c == [op |-> IF n.firstRun THEN "names" ELSE "changed"]
<1>1. Nemiver(n) /\ Gdb(gdb) /\ may' = may /\ Running /\ n.queue \in Seq(Command)
  BY DEF RInv, IInv, InferiorStops, Nemiver
<1>2. /\ gdb'.inferior = "stopped" /\ gdb'.frame = 0 /\ gdb'.seen = gdb.seen /\ gdb'.goes = gdb.goes
      /\ gdb'.regs \in [{0} -> Bank] \union [{0, 1} -> Bank]
  <2>1. PICK regs \in [Levels -> [Registers -> Values]], mem \in [Addresses -> Values] :
            gdb' = [gdb EXCEPT !.inferior = "stopped", !.regs = regs, !.mem = mem, !.frame = 0]
    BY DEF InferiorStops
  <2>2. regs \in [{0} -> Bank] \union [{0, 1} -> Bank]
    BY DEF Levels, Bank
  <2>3. gdb'.inferior = "stopped" /\ gdb'.frame = 0 /\ gdb'.seen = gdb.seen
        /\ gdb'.goes = gdb.goes /\ gdb'.regs = regs
    BY <1>1, <2>1 DEF Gdb
  <2> QED
    BY <2>2, <2>3
<1>3. /\ Nemiver(s) /\ s.rows = n.rows /\ s.visible = n.visible
      /\ \/ /\ n.visible /\ s.upToDate = n.upToDate /\ s.firstRun = FALSE
            /\ s.queue = Append(n.queue, c)
         \/ /\ ~n.visible /\ s.upToDate = FALSE /\ s.firstRun = n.firstRun /\ s.queue = n.queue
  <2>1. Nemiver(s)
    BY <1>1, StoppedSame DEF SameMemory
  <2>2. CASE n.visible
    BY <1>1, <2>1, <2>2, FinishStoppedQueues DEF RegistersOnStopped
  <2>3. CASE ~n.visible
    <3>1. s = [n EXCEPT !.upToDate = FALSE]
      BY <2>3 DEF RegistersOnStopped
    <3>2. s.rows = n.rows /\ s.visible = n.visible /\ s.upToDate = FALSE
          /\ s.firstRun = n.firstRun /\ s.queue = n.queue
      BY <1>1, <3>1 DEF Nemiver
    <3> QED
      BY <2>1, <2>3, <3>2
  <2> QED
    BY <2>2, <2>3
<1>4. n' = ReadMemory(s)
  BY DEF InferiorStops
<1>5. c \in Command /\ c.op = IF n.firstRun THEN "names" ELSE "changed"
  BY CommandOps
<1> HIDE DEF s, c
<1>6. SameView(s, n') /\ n'.rows = n.rows /\ n'.visible = n.visible
      /\ n'.upToDate = s.upToDate /\ n'.firstRun = s.firstRun
  BY <1>3, <1>4, ReadMemoryQueues DEF SameView
<1>7. /\ s.queue \in Seq(Command)
      /\ Ops(n'.queue) = Ops(s.queue) \/ Ops(n'.queue) = Ops(s.queue) \union {"read"}
      /\ Reading(n'.queue) = Reading(s.queue)
      /\ NamesFirst(s.queue) => NamesFirst(n'.queue)
      /\ SetsRead(s.queue) => SetsRead(n'.queue)
  <2>1. s.queue \in Seq(Command)
    BY <1>3 DEF Nemiver
  <2>2. CASE n'.queue = s.queue
    BY <2>1, <2>2
  <2>3. CASE s.entry \in Readable /\ n'.queue = Append(s.queue, [op |-> "read", at |-> s.entry])
    <3> DEFINE d == [op |-> "read", at |-> s.entry]
    <3>1. d \in Command /\ d.op = "read"
      BY <2>3, CommandOps
    <3>2. n'.queue = Append(s.queue, d)
      BY <2>3
    <3> HIDE DEF d
    <3> QED
      BY <2>1, <3>1, <3>2, OneMore
  <2> QED
    BY <1>3, <1>4, <2>2, <2>3, ReadMemoryQueues
<1>8. Banks' /\ FramesInv'
  <2>1. Banks'
    BY <1>1, <1>2, <1>3, <1>6 DEF RInv, Banks, Running
  <2>2. CASE "frames" \in may
    <3>1. n.visible /\ n.queue = <<>>
      BY <1>1, <2>2 DEF RInv, FramesInv
    <3>2. Ops(s.queue) = {c.op}
      BY <1>1, <1>3, <1>5, <3>1, OneMore, NothingWaits
    <3> QED
      BY <1>1, <1>2, <1>5, <1>6, <1>7, <2>1, <2>2, <3>1, <3>2 DEF FramesInv, Asks, Running
  <2>3. CASE "frames" \notin may
    <3>1. "frame" \notin Ops(n.queue)
      BY <2>3 DEF RInv, FramesInv, Asks
    <3>2. "frame" \notin Ops(s.queue)
      BY <1>1, <1>3, <1>5, <3>1, OneMore
    <3> QED
      BY <1>1, <1>2, <1>7, <2>1, <2>3, <3>2 DEF FramesInv, Asks
  <2> QED
    BY <2>1, <2>2, <2>3
<1>9. ASSUME Followed'
      PROVE  Compared' /\ Read' /\ InOrder' /\ FirstOnly'
  <2>1. Followed /\ Upset' = Upset
    BY <1>1, <1>2, <1>9 DEF Followed, Upset, Running
  <2>2. Compared /\ Read /\ InOrder /\ FirstOnly /\ ~Asks("values") /\ ~Asks("set")
    BY <1>1, <2>1 DEF RInv, InOrder
  <2>3. n.firstRun => Ops(n.queue) \intersect RegisterOps = {}
    BY <2>2 DEF Compared
  <2>4. CASE n.visible
    <3>1. s.queue = Append(n.queue, c) /\ n'.firstRun = FALSE /\ n'.upToDate = n.upToDate
      BY <1>3, <1>6, <2>4
    <3>2. /\ Ops(s.queue) = Ops(n.queue) \union {c.op} /\ Reading(s.queue) = Reading(n.queue)
          /\ NamesFirst(s.queue) /\ SetsRead(s.queue)
      <4>1. "changed" \in RegisterOps /\ c.op \notin {"values", "set"}
        BY <1>5 DEF RegisterOps
      <4> QED
        BY <1>1, <1>5, <2>2, <2>3, <3>1, <4>1, OneMore DEF InOrder
    <3>3. Compared'
      BY <1>2, <1>5, <1>6, <1>7, <2>2, <3>1, <3>2 DEF Compared, Asks, Coming
    <3>4. Read'
      BY <1>2, <1>5, <1>6, <1>7, <3>1, <3>2 DEF Read, Asks, Coming
    <3>5. InOrder'
      BY <1>1, <1>2, <1>5, <1>6, <1>7, <2>2, <3>1, <3>2 DEF InOrder, Compared, Asks, Running
    <3>6. FirstOnly'
      BY <1>1, <1>2, <1>5, <1>6, <1>7, <2>1, <2>2, <3>1, <3>2, <2>4
      DEF FirstOnly, Compared, Asks, Running, RInv, Banks
    <3> QED
      BY <3>3, <3>4, <3>5, <3>6
  <2>5. CASE ~n.visible
    <3>1. s.queue = n.queue /\ n'.firstRun = n.firstRun /\ n'.upToDate = FALSE
      BY <1>3, <1>6, <2>5
    <3>2. Compared'
      BY <1>2, <1>6, <1>7, <2>2, <3>1 DEF Compared, Asks, Coming, RegisterOps
    <3>3. Read'
      BY <3>1 DEF Read
    <3>4. InOrder'
      BY <1>1, <1>2, <1>7, <2>2, <3>1 DEF InOrder, Asks, Running
    <3>5. FirstOnly'
      BY <1>1, <1>2, <1>7, <2>1, <2>2, <3>1 DEF FirstOnly, Asks, Running
    <3> QED
      BY <3>2, <3>3, <3>4, <3>5
  <2> QED
    BY <2>4, <2>5
<1> QED
  BY <1>8, <1>9 DEF RInv

(* The view shown again after a stop it did not see asks for the registers.*)
LEMMA ShowKeepsRows ==
    ASSUME FramesAlone, RInv, IInv', ShowOrHide
    PROVE  RInv'
<1>1. /\ Nemiver(n) /\ may' = may /\ gdb' = gdb /\ n.queue \in Seq(Command)
      /\ "frames" \notin may
  BY DEF RInv, IInv, Banks, FramesAlone, ShowOrHide, Clicks, Nemiver
<1>2. CASE n.visible
  <2>1. n' = [n EXCEPT !.visible = FALSE]
    BY <1>2 DEF ShowOrHide
  <2>2. /\ n'.queue = n.queue /\ n'.rows = n.rows /\ n'.firstRun = n.firstRun
        /\ n'.upToDate = n.upToDate /\ n'.visible = FALSE
    BY <1>1, <2>1 DEF Nemiver
  <2> QED
    BY <1>1, <2>2
    DEF RInv, Banks, FramesInv, Followed, Compared, Read, InOrder, FirstOnly, Asks, Coming, Running, Upset
<1>3. CASE ~n.visible
  <2> DEFINE s == [n EXCEPT !.visible = TRUE]
             c == [op |-> IF n.firstRun THEN "names" ELSE "changed"]
  <2>1. n' = Draw(s)
    BY <1>3 DEF ShowOrHide
  <2>2. /\ Nemiver(s) /\ s.queue = n.queue /\ s.rows = n.rows /\ s.firstRun = n.firstRun
        /\ s.upToDate = n.upToDate /\ s.visible = TRUE
    BY <1>1, Flags DEF Nemiver, SameMemory
  <2>3. c \in Command /\ c.op = IF n.firstRun THEN "names" ELSE "changed"
    BY CommandOps
  <2> HIDE DEF s, c
  <2>4. CASE n.upToDate
    <3>1. /\ n'.queue = n.queue /\ n'.rows = n.rows /\ n'.firstRun = n.firstRun
          /\ n'.upToDate = n.upToDate /\ n'.visible = TRUE
      BY <2>1, <2>2, <2>4 DEF Draw
    <3>2. Banks' /\ FramesInv'
      BY <1>1, <2>4, <3>1 DEF RInv, Banks, FramesInv, Asks
    <3>3. Followed' => Compared' /\ Read' /\ InOrder' /\ FirstOnly'
      BY <1>1, <3>1
      DEF RInv, Followed, Compared, Read, InOrder, FirstOnly, Asks, Coming, Running, Upset
    <3> QED
      BY <3>2, <3>3 DEF RInv
  <2>5. CASE ~n.upToDate
    <3> DEFINE t == FinishStopped(s)
    <3>1. /\ Nemiver(t) /\ t.rows = n.rows /\ t.visible = TRUE /\ t.firstRun = FALSE
          /\ t.queue = Append(n.queue, c)
      <4>1. Nemiver(t)
        BY <2>2, FinishStoppedSame DEF SameMemory
      <4> QED
        BY <2>2, <4>1, FinishStoppedQueues DEF c
    <3>2. n' = [t EXCEPT !.upToDate = TRUE]
      BY <2>1, <2>2, <2>5 DEF Draw
    <3> HIDE DEF t
    <3>3. /\ n'.rows = n.rows /\ n'.visible = TRUE /\ n'.firstRun = FALSE /\ n'.upToDate = TRUE
          /\ n'.queue = Append(n.queue, c)
      BY <3>1, <3>2 DEF Nemiver
    <3>4. /\ Ops(n'.queue) = Ops(n.queue) \union {c.op} /\ Reading(n'.queue) = Reading(n.queue)
          /\ NamesFirst(n.queue) /\ (n.firstRun => "changed" \notin Ops(n.queue)) => NamesFirst(n'.queue)
          /\ SetsRead(n.queue) => SetsRead(n'.queue)
      BY <1>1, <2>3, <3>3, OneMore
    <3>5. Banks' /\ FramesInv'
      BY <1>1, <2>3, <3>3, <3>4 DEF RInv, Banks, FramesInv, Asks
    <3>6. ASSUME Followed'
          PROVE  Compared' /\ Read' /\ InOrder' /\ FirstOnly'
      <4>1. Followed /\ Upset' = Upset
        BY <1>1, <3>6 DEF Followed, Upset
      <4>2. Compared /\ Read /\ InOrder /\ FirstOnly
        BY <4>1 DEF RInv
      <4>3. n.firstRun => gdb.seen = <<>> /\ Ops(n.queue) \intersect RegisterOps = {}
        BY <4>2 DEF Compared
      <4>4. Compared'
        BY <1>1, <2>3, <3>3, <3>4, <4>2 DEF Compared, Asks, Coming
      <4>5. Read'
        BY <1>1, <2>3, <3>3, <3>4 DEF Read, Asks, Coming
      <4>6. InOrder'
        BY <1>1, <2>3, <3>3, <3>4, <4>2, <4>3 DEF InOrder, Asks, Running, RegisterOps
      <4>7. FirstOnly'
        BY <1>1, <2>3, <2>5, <3>3, <3>4, <4>1, <4>2 DEF FirstOnly, Asks, Running
      <4> QED
        BY <4>4, <4>5, <4>6, <4>7
    <3> QED
      BY <3>5, <3>6 DEF RInv
  <2> QED
    BY <2>4, <2>5
<1> QED
  BY <1>2, <1>3

LEMMA SelectKeepsRows ==
    ASSUME FramesAlone, RInv, IInv', SelectFrame
    PROVE  RInv'
<1>1. /\ Nemiver(n) /\ may' = may /\ gdb' = gdb /\ n.queue = <<>> /\ "frames" \in may
      /\ gdb.inferior = "stopped"
  BY DEF RInv, IInv, SelectFrame, Clicks, Quiet
<1>2. PICK l \in Levels \ {gdb.frame} : n' = Queue(n, [op |-> "frame", level |-> l])
  BY DEF SelectFrame
<1> DEFINE c == [op |-> "frame", level |-> l]
<1>3. c \in Command /\ c.op = "frame"
  BY CommandOps DEF Levels
<1>4. n' = Queue(n, c)
  BY <1>2
<1> HIDE DEF c
<1>5. n'.queue = Append(<<>>, c) /\ SameView(n, n')
  BY <1>1, <1>4, QueueOnly
<1>6. Ops(n'.queue) = {"frame"} /\ Reading(n'.queue) = {} /\ NamesFirst(n'.queue) /\ SetsRead(n'.queue)
  BY <1>3, <1>5, OnlyOne
<1>7. Banks'
  BY <1>1, <1>5 DEF RInv, Banks, SameView
<1>8. FramesInv'
  BY <1>1, <1>5, <1>6 DEF RInv, FramesInv, SameView, Running, Asks, RegisterOps
<1>9. Followed' => Compared' /\ Read' /\ InOrder' /\ FirstOnly'
  BY <1>1, <1>5, <1>6, NothingWaits
  DEF RInv, Followed, Compared, Read, InOrder, FirstOnly, Asks, Coming, Running, Upset, SameView, RegisterOps
<1> QED
  BY <1>7, <1>8, <1>9 DEF RInv

(* A register the user changed is set, then read again.                    *)
LEMMA EditRegisterKeepsRows ==
    ASSUME FramesAlone, RInv, IInv', EditRegister
    PROVE  RInv'
<1>1. /\ Nemiver(n) /\ may' = may /\ gdb' = gdb /\ n.queue \in Seq(Command)
      /\ "edit" \in may /\ "frames" \notin may /\ Upset
  BY DEF RInv, IInv, Banks, FramesAlone, EditRegister, Clicks, Nemiver, Upset
<1>2. PICK r \in DOMAIN n.rows, v \in Values :
          n' = ListValues(Queue([n EXCEPT !.rows[r] = v], [op |-> "set", reg |-> r, val |-> v]), {r})
  BY DEF EditRegister
<1> DEFINE s == [n EXCEPT !.rows[r] = v]
           c == [op |-> "set", reg |-> r, val |-> v]
           d == [op |-> "values", regs |-> {r}]
           t == Queue(s, c)
<1>3. r \in Registers /\ n.rows # <<>>
  BY <1>1 DEF Nemiver
<1>4. /\ c \in Command /\ c.op = "set" /\ c.reg = r
      /\ d \in Command /\ d.op = "values" /\ d.regs = {r}
  BY <1>3, CommandOps
<1>5. /\ Nemiver(s) /\ s.queue = n.queue /\ s.firstRun = n.firstRun /\ s.upToDate = n.upToDate
      /\ s.visible = n.visible /\ s.rows = [n.rows EXCEPT ![r] = v]
  <2>1. DOMAIN [n.rows EXCEPT ![r] = v] \subseteq Registers
    BY <1>1 DEF Nemiver
  <2>2. s = [n EXCEPT !.rows = [n.rows EXCEPT ![r] = v]]
    BY <1>1 DEF Nemiver
  <2>3. Nemiver(s)
    BY <1>1, <2>1, <2>2, Rows DEF SameMemory
  <2> QED
    BY <1>1, <2>2, <2>3 DEF Nemiver
<1> HIDE DEF s, c, d
<1>6. Nemiver(t) /\ t.queue = Append(n.queue, c) /\ SameView(s, t)
  <2>1. c.op \notin MemoryOps
    BY <1>4 DEF MemoryOps
  <2> QED
    BY <1>4, <1>5, <2>1, QueueOther, QueueOnly DEF SameMemory
<1>7. n' = Queue(t, d)
  BY <1>2 DEF ListValues, s, c, d
<1> HIDE DEF t
<1>8. n'.queue = Append(Append(n.queue, c), d) /\ SameView(t, n')
  BY <1>6, <1>7, QueueOnly
<1>9. /\ Ops(n'.queue) = Ops(n.queue) \union {"set", "values"}
      /\ Reading(n'.queue) = Reading(n.queue) \union {r}
      /\ NamesFirst(n.queue) => NamesFirst(n'.queue)
  <2>1. /\ Append(n.queue, c) \in Seq(Command)
        /\ Ops(Append(n.queue, c)) = Ops(n.queue) \union {"set"}
        /\ Reading(Append(n.queue, c)) = Reading(n.queue)
        /\ NamesFirst(n.queue) => NamesFirst(Append(n.queue, c))
    BY <1>1, <1>4, OneMore
  <2>2. PICK q : q = Append(n.queue, c)
    OBVIOUS
  <2>3. q \in Seq(Command) /\ n'.queue = Append(q, d)
    BY <1>8, <2>1, <2>2
  <2>4. /\ Ops(n'.queue) = Ops(q) \union {d.op} /\ Reading(n'.queue) = Reading(q) \union d.regs
        /\ NamesFirst(q) /\ (d.op = "names" => "changed" \notin Ops(q)) => NamesFirst(n'.queue)
    BY <1>4, <2>3, OneMore
  <2> QED
    BY <1>4, <2>1, <2>2, <2>4
<1>10. SetsRead(n.queue) => SetsRead(n'.queue)
  <2> SUFFICES ASSUME SetsRead(n.queue), NEW i \in DOMAIN n'.queue, n'.queue[i].op = "set"
               PROVE  \E j \in DOMAIN n'.queue :
                          i < j /\ n'.queue[j].op = "values" /\ n'.queue[i].reg \in n'.queue[j].regs
    BY DEF SetsRead
  <2> DEFINE k == Len(n.queue)
             q == n'.queue
  <2>1. /\ k \in Nat /\ DOMAIN n.queue = 1..k /\ DOMAIN q = 1..(k + 2)
        /\ q[k + 1] = c /\ q[k + 2] = d
        /\ \A j \in 1..k : q[j] = n.queue[j]
    BY <1>1, <1>4, <1>8
  <2> HIDE DEF q, k
  <2>2. CASE i \in 1..k
    <3>1. PICK j \in 1..k : i < j /\ n.queue[j].op = "values" /\ n.queue[i].reg \in n.queue[j].regs
      BY <2>1, <2>2 DEF SetsRead, q
    <3> QED
      BY <2>1, <2>2, <3>1 DEF q
  <2>3. CASE i = k + 1
    BY <1>4, <2>1, <2>3 DEF q
  <2>4. CASE i = k + 2
    BY <1>4, <2>1, <2>4 DEF q
  <2> QED
    BY <2>1, <2>2, <2>3, <2>4 DEF q
<1>11. /\ n'.rows = [n.rows EXCEPT ![r] = v] /\ n'.firstRun = n.firstRun
       /\ n'.upToDate = n.upToDate /\ n'.visible = n.visible
  BY <1>5, <1>6, <1>8 DEF SameView
<1>12. Banks' /\ FramesInv'
  BY <1>1, <1>9, <1>11 DEF RInv, Banks, FramesInv, Asks
<1>13. ASSUME Followed'
       PROVE  Compared' /\ Read' /\ InOrder' /\ FirstOnly'
  <2>1. Followed /\ Upset' = Upset
    BY <1>1, <1>13 DEF Followed, Upset
  <2>2. Compared /\ Read /\ InOrder /\ FirstOnly
    BY <2>1 DEF RInv
  <2>3. ~n.firstRun /\ ~Running /\ gdb.seen = <<>> /\ ~Asks("changed")
    BY <1>1, <1>3, <2>2 DEF Compared, FirstOnly
  <2>4. DOMAIN n'.rows = DOMAIN n.rows /\ \A x \in DOMAIN n.rows : x # r => n'.rows[x] = n.rows[x]
    BY <1>11
  <2>5. Compared'
    BY <1>1, <1>9, <1>11, <2>2, <2>3, <2>4 DEF Compared, Asks
  <2>6. Read'
    <3> SUFFICES ASSUME gdb.inferior = "stopped", n.upToDate, NEW x \in Registers
                 PROVE  Coming(x)' \/ n'.rows[x] = gdb.regs[0][x]
      BY <1>1, <1>11, <2>3 DEF Read
    <3>1. Coming(x) \/ n.rows[x] = gdb.regs[0][x]
      BY <2>2, <2>3 DEF Read
    <3>2. Coming(x) => Coming(x)'
      BY <1>9 DEF Coming, Asks
    <3>3. x = r => Coming(x)'
      BY <1>9 DEF Coming
    <3>4. ~Coming(x) => x \in DOMAIN n.rows
      BY <2>2, <2>3 DEF Compared, Coming
    <3> QED
      BY <2>4, <3>1, <3>2, <3>3, <3>4
  <2>7. InOrder'
    BY <1>1, <1>9, <1>10, <2>2, <2>3 DEF InOrder, Asks, Running
  <2>8. FirstOnly'
    BY <1>1, <1>9, <1>11, <2>1, <2>2, <2>3 DEF FirstOnly, Asks, Running
  <2> QED
    BY <2>5, <2>6, <2>7, <2>8
<1> QED
  BY <1>12, <1>13 DEF RInv

(* What the user does to the memory leaves the registers alone.            *)
LEMMA MemoryClicksKeepRows ==
    ASSUME RInv, IInv', Jump \/ TypeAddress \/ EditByte
    PROVE  RInv'
<1>1. Nemiver(n) /\ may' = may /\ gdb' = gdb /\ n.queue = <<>> /\ ~Running
  BY DEF RInv, IInv, Jump, TypeAddress, EditByte, Clicks, Sensitive
<1>2. SameView(n, n') /\ (n'.queue = <<>> \/ \E c \in Command : c.op \in MemoryOps /\ n'.queue = Append(<<>>, c))
  <2>1. CASE Jump
    <3>1. PICK a \in Readable : n' = ReadMemory([n EXCEPT !.entry = a])
      BY <2>1 DEF Jump
    <3> DEFINE s == [n EXCEPT !.entry = a]
    <3>2. Nemiver(s) /\ SameView(n, s) /\ s.queue = <<>>
      BY <1>1 DEF Nemiver, SameView
    <3>3. n' = ReadMemory(s)
      BY <3>1
    <3> HIDE DEF s
    <3>4. /\ SameView(s, n')
          /\ \/ n'.queue = <<>>
             \/ s.entry \in Readable /\ n'.queue = Append(<<>>, [op |-> "read", at |-> s.entry])
      BY <3>2, <3>3, ReadMemoryQueues
    <3>5. s.entry \in Readable => [op |-> "read", at |-> s.entry] \in Command
      BY CommandOps
    <3>6. [op |-> "read", at |-> s.entry].op \in MemoryOps
      BY DEF MemoryOps
    <3> QED
      BY <3>2, <3>4, <3>5, <3>6 DEF SameView
  <2>2. CASE TypeAddress
    <3>1. PICK a : n' = [n EXCEPT !.entry = a]
      BY <2>2 DEF TypeAddress
    <3> QED
      BY <1>1, <3>1 DEF Nemiver, SameView
  <2>3. CASE EditByte
    <3>1. PICK i \in DOMAIN n.bytes :
              n' = WriteByte([n EXCEPT !.bytes[i] = 1 - n.bytes[i]], i, 1 - n.bytes[i])
      BY <2>3 DEF EditByte
    <3> DEFINE b == 1 - n.bytes[i]
               at == n'.queue[1].at
               c == [op |-> "write", at |-> n.entry + i - 1, byte |-> b]
               s == [n EXCEPT !.bytes[i] = b]
    <3>2. SameView(n, s) /\ s.queue = <<>> /\ s.entry = n.entry
      BY <1>1 DEF Nemiver, SameView
    <3>3. n' = [s EXCEPT !.queue = Append(@, c)]
      BY <3>1, <3>2 DEF WriteByte, Queue
    <3>4. s \in [queue : {s.queue}, rows : {s.rows}, firstRun : {s.firstRun}, upToDate : {s.upToDate},
                 visible : {s.visible}, entry : {s.entry}, start : {s.start}, bytes : {s.bytes}]
      BY <1>1 DEF Nemiver
    <3> HIDE DEF s, c
    <3>5. n'.queue = Append(<<>>, c) /\ SameView(s, n')
      BY <3>2, <3>3, <3>4 DEF SameView
    <3>6. c \in Command /\ c.op \in MemoryOps
      <4>1. n'.queue = <<c>> /\ n'.queue \in Seq(Command)
        BY <3>5 DEF IInv, Nemiver
      <4>2. n'.queue[1] \in Command
        BY <4>1
      <4> QED
        BY <4>1, <4>2 DEF MemoryOps, c
    <3> QED
      BY <3>2, <3>5, <3>6 DEF SameView
  <2> QED
    BY <2>1, <2>2, <2>3
<1>3. /\ Ops(n'.queue) \subseteq MemoryOps /\ Reading(n'.queue) = {}
      /\ NamesFirst(n'.queue) /\ SetsRead(n'.queue)
  <2>1. CASE n'.queue = <<>>
    BY <2>1, NothingWaits
  <2>2. CASE \E c \in Command : c.op \in MemoryOps /\ n'.queue = Append(<<>>, c)
    <3>1. PICK c \in Command : c.op \in MemoryOps /\ n'.queue = Append(<<>>, c)
      BY <2>2
    <3>2. c.op \notin {"values", "set", "names"}
      BY <3>1 DEF MemoryOps
    <3> QED
      BY <3>1, <3>2, OnlyOne
  <2> QED
    BY <1>2, <2>1, <2>2
<1>4. ~Asks("frame")' /\ \A op \in RegisterOps : ~Asks(op)'
  BY <1>3 DEF Asks, MemoryOps, RegisterOps
<1>5. Banks' /\ FramesInv'
  BY <1>1, <1>2, <1>4 DEF RInv, Banks, FramesInv, SameView, Running, Asks
<1>6. Followed' => Compared' /\ Read' /\ InOrder' /\ FirstOnly'
  BY <1>1, <1>2, <1>3, <1>4, NothingWaits
  DEF RInv, Followed, Compared, Read, InOrder, FirstOnly, Asks, Coming, Running, Upset, SameView, RegisterOps
<1> QED
  BY <1>5, <1>6 DEF RInv

(* The answers of GDB.                                                     *)

(* What every answer leaves: the commands behind it.                       *)
LEMMA Behind ==
    ASSUME RInv, Reply
    PROVE  LET h == Head(n.queue)
               t == Tail(n.queue)
           IN /\ h \in Command /\ t \in Seq(Command)
              /\ Nemiver(Dequeued) /\ Dequeued.queue = t /\ SameView(n, Dequeued)
              /\ Gdb(gdb) /\ may' = may /\ ~Running
              /\ Ops(n.queue) = Ops(t) \union {h.op}
              /\ h.op # "values" => Reading(n.queue) = Reading(t)
              /\ h.op = "values" => Reading(n.queue) = Reading(t) \union h.regs
              /\ NamesFirst(n.queue) => NamesFirst(t)
              /\ NamesFirst(n.queue) /\ h.op = "changed" => "names" \notin Ops(t)
              /\ SetsRead(n.queue) => SetsRead(t)
              /\ SetsRead(n.queue) /\ h.op = "set" => h.reg \in Reading(t)
<1>1. IInv /\ ~Quiet /\ may' = may /\ ~Running /\ n.queue \in Seq(Command) /\ n.queue # <<>>
      /\ Nemiver(n) /\ Gdb(gdb)
  BY DEF RInv, IInv, Reply, Quiet, Nemiver
<1>2. Nemiver(Dequeued)
  BY <1>1, DequeuedCommand
<1>3. Dequeued.queue = Tail(n.queue) /\ SameView(n, Dequeued)
  BY <1>1, OtherQueue DEF Dequeued, SameView
<1> QED
  BY <1>1, <1>2, <1>3, OneLess

(* The innermost frame is selected when registers are asked for.           *)
LEMMA BehindFrames ==
    ASSUME RInv, Reply, Head(n.queue).op # "frame",
           n'.visible = n.visible, gdb'.frame = gdb.frame, gdb'.inferior = gdb.inferior,
           \/ Ops(n'.queue) = Ops(Tail(n.queue))
           \/ /\ Head(n.queue).op \in {"names", "changed"}
              /\ Ops(n'.queue) = Ops(Tail(n.queue)) \union {"values"}
    PROVE  /\ FramesInv'
           /\ Head(n.queue).op \in RegisterOps => gdb.frame = 0
<1>1. Ops(n.queue) = Ops(Tail(n.queue)) \union {Head(n.queue).op} /\ may' = may /\ ~Running
  BY Behind
<1>2. "frame" \notin Ops(n.queue)
  BY <1>1 DEF RInv, FramesInv, Asks
<1>3. Head(n.queue).op \in RegisterOps => gdb.frame = 0
  BY <1>1 DEF RInv, FramesInv
<1>4. "frame" \notin Ops(n'.queue)
  BY <1>1, <1>2
<1>5. gdb'.frame # 0 /\ "frames" \in may => Ops(n'.queue) \intersect RegisterOps = {}
  BY <1>1, <1>3 DEF RInv, FramesInv, RegisterOps
<1> QED
  BY <1>1, <1>3, <1>4, <1>5 DEF RInv, FramesInv, Asks, Running

LEMMA NamesKeepRows ==
    ASSUME RInv, IInv', Reply, Head(n.queue).op = "names"
    PROVE  RInv'
<1> DEFINE t == Tail(n.queue)
           c == [op |-> "values", regs |-> Registers]
           s == [Dequeued EXCEPT !.rows = [r \in Registers |-> None]]
<1>1. n' = Queue(s, c) /\ gdb' = gdb
  BY DEF Reply, OnNamesListed, ListValues, Dequeued
<1>2. Nemiver(s) /\ s.queue = t /\ DOMAIN s.rows = Registers /\ s.firstRun = n.firstRun
      /\ s.upToDate = n.upToDate /\ s.visible = n.visible
  <2>1. Nemiver(Dequeued) /\ Dequeued.queue = t /\ SameView(n, Dequeued)
    BY Behind
  <2>2. Nemiver(s)
    BY <2>1, Rows DEF SameMemory
  <2> QED
    BY <2>1, <2>2 DEF Nemiver, SameView
<1>3. c \in Command /\ c.op = "values" /\ c.regs = Registers
  BY CommandOps
<1> HIDE DEF s, c, t
<1>4. n'.queue = Append(t, c) /\ DOMAIN n'.rows = Registers /\ n'.firstRun = n.firstRun
      /\ n'.upToDate = n.upToDate /\ n'.visible = n.visible
  BY <1>1, <1>2, QueueOnly DEF SameView
<1>5. /\ t \in Seq(Command) /\ Ops(n.queue) = Ops(t) \union {"names"} /\ may' = may /\ ~Running
      /\ Reading(t) = Reading(n.queue)
      /\ NamesFirst(n.queue) => NamesFirst(t)
      /\ SetsRead(n.queue) => SetsRead(t)
  BY Behind DEF t
<1>6. /\ Ops(n'.queue) = Ops(t) \union {"values"}
      /\ Reading(n'.queue) = Reading(t) \union Registers
      /\ NamesFirst(n.queue) => NamesFirst(n'.queue)
      /\ SetsRead(n.queue) => SetsRead(n'.queue)
  BY <1>3, <1>4, <1>5, OneMore
<1>7. Banks'
  BY <1>1, <1>4, <1>5 DEF RInv, Banks
<1>8. FramesInv'
  BY <1>1, <1>4, <1>6, BehindFrames DEF t
<1>9. ASSUME Followed'
      PROVE  Compared' /\ Read' /\ InOrder' /\ FirstOnly'
  <2>1. Followed /\ Upset' = Upset /\ Compared /\ InOrder /\ FirstOnly
    BY <1>1, <1>5, <1>9 DEF RInv, Followed, Upset
  <2>2. ~n.firstRun /\ gdb.seen = <<>>
    BY <1>5, <2>1 DEF Compared, InOrder, Asks, RegisterOps
  <2>3. \A r \in Registers : Coming(r)'
    BY <1>6 DEF Coming
  <2>4. Compared' /\ Read'
    BY <1>1, <1>4, <2>2, <2>3 DEF Compared, Read
  <2>5. InOrder'
    BY <1>1, <1>5, <1>6, <2>1, <2>2 DEF InOrder, Asks, Running
  <2>6. FirstOnly'
    BY <1>1, <1>4, <1>5, <1>6, <2>1, <2>2 DEF FirstOnly, Asks, Running
  <2> QED
    BY <2>4, <2>5, <2>6
<1> QED
  BY <1>7, <1>8, <1>9 DEF RInv

(* GDB tells of the registers that are not what it had when it was last    *)
(* asked, which is what the rows have.                                     *)
LEMMA ChangedKeepRows ==
    ASSUME RInv, IInv', Reply, Head(n.queue).op = "changed", gdb.inferior = "stopped"
    PROVE  RInv'
<1> DEFINE t == Tail(n.queue)
           c == [op |-> "values", regs |-> Changed]
<1>1. n' = OnChangedListed(Dequeued, Changed) /\ gdb' = [gdb EXCEPT !.seen = Current]
  BY DEF Reply, Dequeued
<1>2. Nemiver(Dequeued) /\ Dequeued.queue = t /\ SameView(n, Dequeued)
  BY Behind
<1>3. Changed \in SUBSET Registers /\ c \in Command /\ c.op = "values" /\ c.regs = Changed
  BY CommandOps DEF Changed
<1>4. /\ SameView(n, n')
      /\ \/ Changed = {} /\ n'.queue = t
         \/ Changed # {} /\ n'.queue = Append(t, c)
  <2>1. CASE Changed = {}
    BY <1>1, <1>2, <2>1 DEF OnChangedListed
  <2>2. CASE Changed # {}
    <3>1. n' = Queue(Dequeued, c)
      BY <1>1, <2>2 DEF OnChangedListed, ListValues
    <3> HIDE DEF c
    <3>2. n'.queue = Append(Dequeued.queue, c) /\ SameView(Dequeued, n')
      BY <1>2, <3>1, QueueOnly
    <3> QED
      BY <1>2, <2>2, <3>2 DEF SameView
  <2> QED
    BY <2>1, <2>2
<1> HIDE DEF t, c
<1>5. /\ t \in Seq(Command) /\ Ops(n.queue) = Ops(t) \union {"changed"} /\ may' = may /\ ~Running
      /\ Gdb(gdb) /\ Reading(t) = Reading(n.queue)
      /\ NamesFirst(n.queue) => NamesFirst(t) /\ "names" \notin Ops(t)
      /\ SetsRead(n.queue) => SetsRead(t)
  BY Behind DEF t
<1>6. /\ gdb'.seen = Current /\ gdb'.inferior = gdb.inferior /\ gdb'.frame = gdb.frame
      /\ gdb'.regs = gdb.regs /\ gdb'.goes = gdb.goes
  BY <1>1, <1>5 DEF Gdb
<1>7. /\ \/ Changed = {} /\ Ops(n'.queue) = Ops(t)
         \/ Ops(n'.queue) = Ops(t) \union {"values"}
      /\ Reading(n'.queue) = Reading(t) \union Changed
      /\ NamesFirst(n.queue) => NamesFirst(n'.queue)
      /\ SetsRead(n.queue) => SetsRead(n'.queue)
  <2>1. CASE Changed = {} /\ n'.queue = t
    BY <1>5, <2>1
  <2>2. CASE n'.queue = Append(t, c)
    BY <1>3, <1>5, <2>2, OneMore
  <2> QED
    BY <1>4, <2>1, <2>2
<1>8. gdb.frame = 0 /\ FramesInv'
  BY <1>4, <1>6, <1>7, BehindFrames DEF t, SameView, RegisterOps
<1>9. Current = gdb.regs[0] /\ Current \in Bank
  BY <1>8 DEF RInv, Banks, Current
<1>10. Banks'
  BY <1>4, <1>5, <1>6, <1>9 DEF RInv, Banks, SameView
<1>11. ASSUME Followed'
       PROVE  Compared' /\ Read' /\ InOrder' /\ FirstOnly'
  <2>1. Followed /\ Upset' = Upset /\ Compared /\ InOrder /\ FirstOnly
    BY <1>5, <1>6, <1>11 DEF RInv, Followed, Upset
  <2>2. ~n.firstRun /\ ~Upset /\ Asks("changed") /\ ~Asks("names")
    BY <1>5, <2>1 DEF Compared, FirstOnly, InOrder, Asks, RegisterOps
  <2>3. DOMAIN n.rows = Registers
    BY <2>1, <2>2 DEF Compared
  <2>4. ASSUME NEW r \in Registers
        PROVE  Coming(r)' \/ n.rows[r] = gdb.regs[0][r]
    <3>1. CASE r \in Reading(n.queue)
      BY <1>5, <1>7, <3>1 DEF Coming
    <3>2. CASE gdb.seen = <<>>
      BY <1>7, <3>2 DEF Coming, Changed
    <3>3. CASE n.rows[r] = gdb.seen[r] /\ gdb.seen # <<>>
      <4>1. r \in Changed \/ gdb.regs[0][r] = gdb.seen[r]
        BY <1>9, <3>3 DEF Changed
      <4> QED
        BY <1>7, <3>3, <4>1 DEF Coming
    <3> QED
      BY <2>1, <2>2, <3>1, <3>2, <3>3 DEF Compared, Coming
  <2>5. Compared'
    BY <1>4, <1>6, <1>9, <2>2, <2>3, <2>4 DEF Compared, SameView
  <2>6. Read'
    BY <1>4, <1>6, <2>2, <2>4 DEF Read, SameView
  <2>7. InOrder'
    BY <1>5, <1>6, <1>7, <1>9, <2>1, <2>2 DEF InOrder, Asks, Running
  <2>8. FirstOnly'
    BY <2>1, <2>2 DEF FirstOnly
  <2> QED
    BY <2>5, <2>6, <2>7, <2>8
<1> QED
  BY <1>8, <1>10, <1>11 DEF RInv

LEMMA ValuesKeepRows ==
    ASSUME RInv, IInv', Reply, Head(n.queue).op = "values", gdb.inferior = "stopped"
    PROVE  RInv'
<1> DEFINE t == Tail(n.queue)
           h == Head(n.queue)
           f == [r \in DOMAIN n.rows |-> IF r \in h.regs THEN Current[r] ELSE n.rows[r]]
<1>1. n' = OnValuesListed(Dequeued, h.regs, Current) /\ gdb' = gdb
  BY DEF Reply, Dequeued
<1>2. Nemiver(Dequeued) /\ Dequeued.queue = t /\ SameView(n, Dequeued)
  BY Behind
<1>3. n'.queue = t /\ n'.rows = f /\ n'.firstRun = n.firstRun
      /\ n'.upToDate = n.upToDate /\ n'.visible = n.visible
  <2>1. n' = [Dequeued EXCEPT !.rows = f]
    BY <1>1, <1>2 DEF OnValuesListed, SameView, Nemiver
  <2> HIDE DEF f
  <2> QED
    BY <1>2, <2>1 DEF Nemiver, SameView
<1>4. /\ DOMAIN n'.rows = DOMAIN n.rows
      /\ \A r \in DOMAIN n.rows : n'.rows[r] = IF r \in h.regs THEN Current[r] ELSE n.rows[r]
  BY <1>3
<1> HIDE DEF f, t, h
<1>5. /\ Ops(n.queue) = Ops(t) \union {"values"} /\ may' = may /\ ~Running
      /\ Reading(n.queue) = Reading(t) \union h.regs
      /\ NamesFirst(n.queue) => NamesFirst(t)
      /\ SetsRead(n.queue) => SetsRead(t)
  BY Behind DEF t, h
<1>6. gdb.frame = 0 /\ FramesInv'
  BY <1>1, <1>3, BehindFrames DEF t, RegisterOps
<1>7. Current = gdb.regs[0]
  BY <1>6 DEF Current
<1>8. Banks'
  BY <1>1, <1>3, <1>5 DEF RInv, Banks
<1>9. ASSUME Followed'
      PROVE  Compared' /\ Read' /\ InOrder' /\ FirstOnly'
  <2>1. Followed /\ Upset' = Upset /\ Compared /\ Read /\ InOrder /\ FirstOnly
    BY <1>1, <1>5, <1>9 DEF RInv, Followed, Upset
  <2>2. ~n.firstRun /\ (gdb.seen = <<>> \/ gdb.seen = gdb.regs[0])
    BY <1>5, <2>1 DEF Compared, InOrder, Asks, RegisterOps
  <2>3. Asks("names")' \/ DOMAIN n.rows = Registers
    BY <1>3, <1>5, <2>1, <2>2 DEF Compared, Asks
  <2>4. \A r \in Registers : Coming(r) => Coming(r)' \/ r \in h.regs
    BY <1>3, <1>5 DEF Coming, Asks
  <2>5. \A r \in Registers : Coming(r)' \/ n'.rows[r] = n.rows[r] \/ n'.rows[r] = gdb.regs[0][r]
    BY <1>4, <1>7, <2>3 DEF Coming
  <2>6. \A r \in Registers : Coming(r) => Coming(r)' \/ n'.rows[r] = gdb.regs[0][r]
    BY <1>4, <1>7, <2>3, <2>4 DEF Coming
  <2>7. Compared'
    BY <1>1, <1>3, <1>4, <2>1, <2>2, <2>3, <2>5, <2>6 DEF Compared
  <2>8. Read'
    BY <1>1, <1>3, <1>5, <2>1, <2>5, <2>6 DEF Read, Asks
  <2>9. InOrder'
    BY <1>1, <1>3, <1>5, <2>1 DEF InOrder, Asks, Running
  <2>10. FirstOnly'
    BY <1>1, <1>3, <1>5, <2>1 DEF FirstOnly, Asks, Running
  <2> QED
    BY <2>7, <2>8, <2>9, <2>10
<1> QED
  BY <1>6, <1>8, <1>9 DEF RInv

(* A command that changes neither the rows nor what the view asks for: of  *)
(* a register that was set, the value is about to be read.                 *)
LEMMA OtherRepliesKeepRows ==
    ASSUME RInv, IInv', Reply, n' = Dequeued,
           Head(n.queue).op \in {"set", "frame", "read", "write"} \/ gdb.inferior # "stopped"
    PROVE  RInv'
<1> DEFINE t == Tail(n.queue)
           h == Head(n.queue)
<1>1. /\ h \in Command /\ Ops(n.queue) = Ops(t) \union {h.op} /\ may' = may /\ ~Running
      /\ Gdb(gdb)
      /\ h.op # "values" => Reading(n.queue) = Reading(t)
      /\ NamesFirst(n.queue) => NamesFirst(t)
      /\ SetsRead(n.queue) => SetsRead(t)
      /\ SetsRead(n.queue) /\ h.op = "set" => h.reg \in Reading(t)
      /\ n'.queue = t /\ SameView(n, n')
  BY Behind
<1>2. \/ /\ gdb'.regs = gdb.regs /\ gdb'.frame = gdb.frame
         /\ gdb'.seen = gdb.seen /\ gdb'.goes = gdb.goes /\ gdb'.inferior = gdb.inferior
      \/ /\ h.op = "set" /\ gdb'.frame = gdb.frame
         /\ gdb'.seen = gdb.seen /\ gdb'.goes = gdb.goes /\ gdb'.inferior = gdb.inferior
         /\ gdb'.regs = [gdb.regs EXCEPT ![gdb.frame][h.reg] = h.val]
      \/ /\ h.op = "frame" /\ gdb'.frame = h.level /\ gdb'.regs = gdb.regs
         /\ gdb'.seen = gdb.seen /\ gdb'.goes = gdb.goes /\ gdb'.inferior = gdb.inferior
  <2>1. \/ gdb' = gdb
        \/ h.op = "set" /\ gdb' = [gdb EXCEPT !.regs[gdb.frame][h.reg] = h.val]
        \/ h.op = "frame" /\ gdb' = [gdb EXCEPT !.frame = h.level]
        \/ h.op = "write" /\ gdb' = [gdb EXCEPT !.mem[h.at] = h.byte]
    BY DEF Reply
  <2> HIDE DEF h, t
  <2> QED
    BY <1>1, <2>1 DEF Gdb
<1>3. h.op = "set" => h.reg \in Registers /\ h.val \in Values
  BY <1>1 DEF Command
<1> HIDE DEF h, t
<1>4. gdb'.regs \in [{0} -> Bank] \union [{0, 1} -> Bank]
  <2>1. CASE gdb'.regs = gdb.regs
    BY <2>1 DEF RInv, Banks
  <2>2. CASE h.op = "set" /\ gdb'.regs = [gdb.regs EXCEPT ![gdb.frame][h.reg] = h.val]
    <3>1. PICK f, b : f = gdb.frame /\ b = [gdb.regs[gdb.frame] EXCEPT ![h.reg] = h.val]
      OBVIOUS
    <3>2. gdb'.regs = [gdb.regs EXCEPT ![f] = b]
      BY <2>2, <3>1
    <3>3. f \in DOMAIN gdb.regs => b \in Bank
      BY <1>3, <2>2, <3>1 DEF RInv, Banks, Bank
    <3>4. CASE gdb.regs \in [{0} -> Bank]
      BY <3>2, <3>3, <3>4
    <3>5. CASE gdb.regs \in [{0, 1} -> Bank]
      BY <3>2, <3>3, <3>5
    <3> QED
      BY <3>4, <3>5 DEF RInv, Banks
  <2> QED
    BY <1>2, <2>1, <2>2
<1>5. Banks'
  BY <1>1, <1>2, <1>4 DEF RInv, Banks, SameView
<1>6. FramesInv'
  <2>1. CASE h.op = "frame"
    <3>1. "frames" \in may /\ Ops(n.queue) = {"frame"} /\ n.visible
      BY <1>1, <2>1 DEF RInv, FramesInv, Asks
    <3>2. Ops(t) \subseteq {"frame"}
      BY <1>1, <3>1
    <3>3. Ops(t) = {} \/ Ops(t) = {"frame"}
      BY <3>2
    <3> QED
      BY <1>1, <1>2, <3>1, <3>3 DEF FramesInv, Asks, SameView, Running, RegisterOps
  <2>2. CASE h.op # "frame"
    BY <1>1, <1>2, <2>2, BehindFrames DEF h, t, SameView
  <2> QED
    BY <2>1, <2>2
<1>7. ASSUME Followed'
      PROVE  Compared' /\ Read' /\ InOrder' /\ FirstOnly'
  <2>1. Followed /\ Upset' = Upset /\ Compared /\ Read /\ InOrder /\ FirstOnly
    BY <1>1, <1>2, <1>7 DEF RInv, Followed, Upset
  <2>2. gdb.inferior = "stopped" /\ gdb'.inferior = "stopped"
    BY <1>1, <1>2, <2>1 DEF Followed, Gdb, Running
  <2>3. h.op \in {"set", "frame", "read", "write"}
    BY <2>2 DEF h
  <2>4. /\ Reading(n'.queue) = Reading(n.queue)
        /\ \A op \in {"names", "changed", "values"} : Asks(op)' = Asks(op)
        /\ Asks("set")' => Asks("set")
    BY <1>1, <2>3 DEF Asks
  <2>5. \A r \in Registers : Coming(r)' = Coming(r)
    BY <2>4 DEF Coming
  <2>6. h.op = "set" => gdb.seen = <<>> /\ h.reg \in Reading(n'.queue) /\ gdb.frame = 0
    <3>1. h.op = "set" => Asks("set")
      BY <1>1 DEF Asks
    <3>2. h.op = "set" => gdb.seen = <<>>
      BY <2>1, <3>1 DEF InOrder, FirstOnly, Upset
    <3>3. h.op = "set" => gdb.frame = 0
      BY <1>1 DEF RInv, FramesInv, RegisterOps
    <3> QED
      BY <1>1, <2>1, <3>2, <3>3 DEF InOrder
  <2>7. gdb'.seen = gdb.seen
    BY <1>2
  <2>8. Compared'
    <3>1. Ops(n'.queue) \subseteq Ops(n.queue)
      BY <1>1
    <3> QED
      BY <1>1, <2>1, <2>4, <2>5, <2>7, <3>1 DEF Compared, SameView
  <2>9. \A r \in Registers : Coming(r)' \/ gdb'.regs[0][r] = gdb.regs[0][r]
    <3>1. CASE gdb'.regs = gdb.regs
      BY <3>1
    <3>2. CASE h.op = "set" /\ gdb'.regs = [gdb.regs EXCEPT ![gdb.frame][h.reg] = h.val]
      <4>1. h.reg \in Reading(n'.queue) /\ gdb.frame = 0
        BY <2>6, <3>2
      <4>2. gdb.regs[0] \in Bank /\ 0 \in DOMAIN gdb.regs
        BY DEF RInv, Banks
      <4>3. gdb'.regs[0] = [gdb.regs[0] EXCEPT ![h.reg] = h.val]
        BY <3>2, <4>1, <4>2
      <4>4. \A r \in Registers : r # h.reg => gdb'.regs[0][r] = gdb.regs[0][r]
        BY <4>2, <4>3 DEF Bank
      <4> QED
        BY <4>1, <4>4 DEF Coming
    <3> QED
      BY <1>2, <3>1, <3>2
  <2>10. Read'
    BY <1>1, <2>1, <2>2, <2>4, <2>5, <2>9 DEF Read, SameView
  <2>11. Asks("values")' => gdb'.seen = <<>> \/ gdb'.seen = gdb'.regs[0]
    BY <1>2, <2>1, <2>4, <2>6, <2>7 DEF InOrder
  <2>12. InOrder'
    BY <1>1, <2>1, <2>2, <2>4, <2>7, <2>11 DEF InOrder, Running
  <2>13. FirstOnly'
    BY <1>1, <2>1, <2>2, <2>4, <2>7 DEF FirstOnly, SameView, Running
  <2> QED
    BY <2>8, <2>10, <2>12, <2>13
<1> QED
  BY <1>5, <1>6, <1>7 DEF RInv

(* The memory read is no register.                                         *)
LEMMA ReadKeepsRows ==
    ASSUME RInv, IInv', Reply, Head(n.queue).op = "read"
    PROVE  RInv'
<1> DEFINE h == Head(n.queue)
           t == Tail(n.queue)
<1>1. CASE n' = Dequeued
  BY <1>1, OtherRepliesKeepRows
<1>2. CASE n' = OnMemoryRead(Dequeued, h.at, Bytes(h.at)) /\ gdb' = gdb
  <2>1. /\ Ops(n.queue) = Ops(t) \union {"read"} /\ may' = may /\ ~Running
        /\ Reading(n.queue) = Reading(t)
        /\ NamesFirst(n.queue) => NamesFirst(t)
        /\ SetsRead(n.queue) => SetsRead(t)
        /\ Nemiver(Dequeued) /\ Dequeued.queue = t /\ SameView(n, Dequeued)
    BY Behind
  <2>2. n'.queue = t /\ SameView(n, n')
    BY <1>2, <2>1 DEF OnMemoryRead, Nemiver, SameView
  <2> HIDE DEF h, t
  <2>3. Banks'
    BY <1>2, <2>1, <2>2 DEF RInv, Banks, SameView
  <2>4. FramesInv'
    BY <1>2, <2>1, <2>2, BehindFrames DEF t, SameView
  <2>5. ASSUME Followed'
        PROVE  Compared' /\ Read' /\ InOrder' /\ FirstOnly'
    <3>1. Followed /\ Upset' = Upset /\ Compared /\ Read /\ InOrder /\ FirstOnly
      BY <1>2, <2>1, <2>5 DEF RInv, Followed, Upset
    <3>2. /\ Reading(n'.queue) = Reading(n.queue) /\ Ops(n'.queue) \subseteq Ops(n.queue)
          /\ \A op \in RegisterOps : Asks(op)' = Asks(op)
      BY <2>1, <2>2 DEF Asks, RegisterOps
    <3>3. \A r \in Registers : Coming(r)' = Coming(r)
      BY <3>2 DEF Coming, RegisterOps
    <3>4. Compared'
      BY <1>2, <2>2, <3>1, <3>2, <3>3 DEF Compared, SameView, RegisterOps
    <3>5. Read' /\ InOrder' /\ FirstOnly'
      BY <1>2, <2>1, <2>2, <3>1, <3>2, <3>3
      DEF Read, InOrder, FirstOnly, SameView, Running, RegisterOps
    <3> QED
      BY <3>4, <3>5
  <2> QED
    BY <2>3, <2>4, <2>5 DEF RInv
<1> QED
  BY <1>1, <1>2 DEF Reply, Dequeued

LEMMA StepRInv ==
    ASSUME DataViewsAssumption, FramesAlone, RInv, [Next]_vars
    PROVE  RInv'
<1>1. IInv'
  BY StepIInv DEF RInv
<1>2. CASE UNCHANGED vars
  BY <1>1, <1>2
  DEF vars, RInv, Banks, FramesInv, Followed, Compared, Read, InOrder, FirstOnly, Asks, Coming, Running, Upset
<1>3. CASE Reply
  <2> DEFINE h == Head(n.queue)
  <2>1. h \in Command /\ ~Running /\ Gdb(gdb)
    BY <1>3, Behind
  <2>2. h.op \in {"names", "changed", "values", "set", "frame", "read", "write"}
    BY <2>1 DEF Command
  <2>3. CASE h.op \in {"changed", "values"} /\ gdb.inferior # "stopped"
    <3>1. n' = Dequeued
      BY <1>3, <2>3 DEF Reply, Dequeued
    <3> QED
      BY <1>1, <1>3, <2>3, <3>1, OtherRepliesKeepRows
  <2>4. CASE h.op \in {"set", "frame", "write"}
    <3>1. n' = Dequeued
      BY <1>3, <2>4 DEF Reply, Dequeued
    <3> QED
      BY <1>1, <1>3, <2>4, <3>1, OtherRepliesKeepRows
  <2> HIDE DEF h
  <2> QED
    BY <1>1, <1>3, <2>2, <2>3, <2>4, NamesKeepRows, ChangedKeepRows, ValuesKeepRows, ReadKeepsRows DEF h
<1> QED
  BY <1>1, <1>2, <1>3, GoesKeepRows, StopsKeepRows, ShowKeepsRows, SelectKeepsRows,
     EditRegisterKeepsRows, MemoryClicksKeepRows
  DEF Next

(* Once all is answered and the view is visible, each row has the value of *)
(* its register in the innermost frame, whether the stops were seen or not *)
(* (on_debugger_stopped, on_draw_signal), until a restart or a change by   *)
(* the user is followed by another stop.                                   *)
THEOREM RegistersAreShown ==
    ASSUME DataViewsAssumption, FramesAlone
    PROVE  Spec => []RegistersShown
<1>1. Init => RInv
  BY InitRInv
<1>2. RInv /\ [Next]_vars => RInv'
  BY StepRInv
<1>3. RInv => RegistersShown
  <2> SUFFICES ASSUME RInv, Settled, n.visible, Upset => gdb.goes = 1
               PROVE  DOMAIN n.rows = Registers /\ \A r \in Registers : n.rows[r] = gdb.regs[0][r]
    BY DEF RegistersShown, Upset
  <2>1. n.queue = <<>> /\ gdb.inferior = "stopped" /\ n.upToDate
    BY DEF Settled, Quiet, RInv, Banks
  <2>2. Compared /\ Read
    BY <2>1 DEF RInv, Followed
  <2>3. \A op : ~Asks(op)
    BY <2>1, NothingWaits DEF Asks
  <2>4. \A r \in Registers : ~Coming(r)
    BY <2>1, <2>3, NothingWaits DEF Coming
  <2> QED
    BY <2>1, <2>2, <2>3, <2>4 DEF Compared, Read
<1> QED
  BY <1>1, <1>2, <1>3, PTL DEF Spec

(* Both views show what the program has once all is answered.              *)
THEOREM DataIsShown ==
    ASSUME DataViewsAssumption, FramesAlone
    PROVE  Spec => []DataShown
<1>1. RegistersShown /\ MemoryShown => DataShown
  BY DEF DataShown
<1> QED
  BY <1>1, RegistersAreShown, MemoryIsShown, PTL

=============================================================================
