----------------------- MODULE GdbCommandQueue_proofs -----------------------
(***************************************************************************)
(* Theorems about the command queue, for every value of its bounds: types, *)
(* at most one command in flight, and replies handed out with the command  *)
(* that caused them; then the order of commands, and that the queue        *)
(* implements CommandService.                                              *)
(***************************************************************************)
EXTENDS GdbCommandQueue, SequenceTheorems, FiniteSetTheorems, TLAPS

(* The line of an engine's state e: OneInFlight on that state alone.       *)
LineOK(e, ex) ==
    /\ Len(e.started) <= 1
    /\ e.started # <<>> => e.line_busy
    /\ e.line_busy /\ ~ex => e.started # <<>>

-----------------------------------------------------------------------------
(* Lemmas about the operators.                                             *)

LEMMA OneElement ==
    ASSUME NEW S, NEW s \in Seq(S), s # <<>>, Len(s) <= 1
    PROVE  Len(s) = 1 /\ Tail(s) = <<>> /\ s = <<Head(s)>>
<1>1. Len(s) = 1
  <2>1. Len(s) \in Nat \ {0}
    BY EmptySeq
  <2> QED
    BY <2>1
<1>2. Head(s) = s[1] /\ Head(s) \in S
  BY <1>1
<1>3. s = <<Head(s)>>
  BY <1>1, <1>2
<1>4. Tail(s) \in Seq(S) /\ Len(Tail(s)) = 0
  BY <1>1
<1>5. Tail(s) = <<>>
  <2>1. Tail(s) # <<>> => Len(Tail(s)) \in Nat \ {0}
    BY <1>4, EmptySeq
  <2> QED
    BY <1>4, <2>1
<1> QED
  BY <1>1, <1>3, <1>5

LEMMA AppendOne ==
    ASSUME NEW S, NEW s \in Seq(S), NEW x
    PROVE  s \o <<x>> = Append(s, x)
<1> DEFINE T == S \union {x}
<1>1. s \in Seq(T) /\ <<x>> \in Seq(T) /\ Len(<<x>>) = 1
  OBVIOUS
<1> QED
  BY <1>1

LEMMA BurstType ==
    ASSUME nextId \in Nat \ {0}, NEW lo \in {0, 1}, NEW cs \in Bursts(lo)
    PROVE  cs \in Seq(Command) /\ Len(cs) \in Nat /\ (lo = 1 => cs # <<>>)
<1>1. PICK n \in lo..MaxBurst : cs \in Burst(n)
  BY QueueAssumption DEF Bursts
<1>2. PICK k \in [1..n -> Kinds] :
        cs = [i \in 1..n |-> [id |-> nextId + i - 1, kind |-> k[i]]]
  BY <1>1 DEF Burst
<1>3. n \in Nat
  BY QueueAssumption
<1>4. \A i \in 1..n : cs[i] \in Command
  BY <1>2, <1>3 DEF Command
<1>5. cs \in Seq(Command) /\ Len(cs) = n
  BY <1>2, <1>3, <1>4
<1> QED
  BY <1>3, <1>5

LEMMA IssueHeadLine ==
    ASSUME NEW e \in Engine, NEW ex \in BOOLEAN, LineOK(e, ex), Idle(e),
           e.queued # <<>>
    PROVE  IssueHead(e) \in Engine /\ LineOK(IssueHead(e), ex)
<1>1. Head(e.queued) \in Command /\ Tail(e.queued) \in Seq(Command)
  BY DEF Engine
<1> DEFINE c == Head(e.queued)
           sent == [e EXCEPT !.started = Append(e.started, c),
                             !.line_busy = TRUE,
                             !.wire = Append(e.wire, c),
                             !.queued = Tail(e.queued)]
<1>2. Append(e.started, c) \in Seq(Command)
      /\ Append(e.wire, c) \in Seq(Command \union {Quit})
  BY <1>1 DEF Engine
<1>3. CASE e.connected
  <2>1. IssueHead(e) = sent
    BY <1>3 DEF IssueHead, Issue, Engine
  <2>2. sent \in Engine
    BY <1>1, <1>2 DEF Engine
  <2>3. LineOK(sent, ex)
    BY <1>1 DEF LineOK, Idle, Engine
  <2> QED
    BY <2>1, <2>2, <2>3
<1>4. CASE ~e.connected
  BY <1>1, <1>4 DEF IssueHead, Issue, LineOK, Engine
<1> QED
  BY <1>3, <1>4

LEMMA QueueAllLine ==
    ASSUME NEW e \in Engine, NEW ex \in BOOLEAN, LineOK(e, ex),
           NEW cs \in Seq(Command)
    PROVE  QueueAll(e, cs) \in Engine /\ LineOK(QueueAll(e, cs), ex)
<1> DEFINE all == e.queued \o cs
           pushed == [e EXCEPT !.queued = all]
<1>1. all \in Seq(Command) /\ pushed \in Engine /\ LineOK(pushed, ex)
  <2>1. all \in Seq(Command)
    BY DEF Engine
  <2>2. pushed \in Engine
    BY <2>1 DEF Engine
  <2>3. pushed.started = e.started /\ pushed.line_busy = e.line_busy
    BY DEF Engine
  <2> QED
    BY <2>1, <2>2, <2>3 DEF LineOK
<1>2. CASE cs = <<>>
  BY <1>2 DEF QueueAll
<1>3. CASE cs # <<>> /\ ~Idle(e)
  <2>1. QueueAll(e, cs) = pushed
    BY <1>3 DEF QueueAll
  <2> QED
    BY <2>1, <1>1
<1>4. CASE cs # <<>> /\ Idle(e) /\ e.connected
  <2>1. QueueAll(e, cs) = IssueHead(pushed)
    BY <1>4 DEF QueueAll
  <2>2. Idle(pushed) /\ pushed.queued # <<>>
    BY <1>4 DEF Idle, Engine
  <2> QED
    BY <2>1, <2>2, <1>1, IssueHeadLine
<1>5. CASE cs # <<>> /\ Idle(e) /\ ~e.connected
  <2>1. QueueAll(e, cs)
          = [e EXCEPT !.queued = SubSeq(all, Len(cs) + 1, Len(all))]
    BY <1>5 DEF QueueAll
  <2>2. SubSeq(all, Len(cs) + 1, Len(all)) \in Seq(Command)
    BY <1>1
  <2> HIDE DEF all
  <2> QED
    BY <2>1, <2>2 DEF Engine, LineOK
<1> QED
  BY <1>2, <1>3, <1>4, <1>5

LEMMA ResetLine ==
    ASSUME NEW e \in Engine, NEW ex \in BOOLEAN
    PROVE  ResetCommandQueue(e) \in Engine /\ LineOK(ResetCommandQueue(e), ex)
<1> SUFFICES ASSUME NEW r, r = ResetCommandQueue(e)
             PROVE  r \in Engine /\ LineOK(r, ex)
  OBVIOUS
<1>1. r = [queued |-> <<>>, started |-> <<>>, line_busy |-> FALSE,
           connected |-> e.connected, wire |-> e.wire]
  BY DEF ResetCommandQueue, Engine
<1>2. <<>> \in Seq(Command)
  OBVIOUS
<1>3. r \in Engine
  BY <1>1, <1>2 DEF Engine
<1> QED
  BY <1>1, <1>3 DEF LineOK

LEMMA NextCommandLine ==
    ASSUME NEW e \in Engine, NEW ex \in BOOLEAN, LineOK(e, ex)
    PROVE  NextCommand(e) \in Engine /\ LineOK(NextCommand(e), ex)
<1> DEFINE freed == IF e.started = <<>> THEN e
                    ELSE [e EXCEPT !.started = Tail(@), !.line_busy = FALSE]
<1>1. freed \in Engine /\ LineOK(freed, ex)
  <2>1. CASE e.started = <<>>
    BY <2>1
  <2>2. CASE e.started # <<>>
    <3>1. Tail(e.started) \in Seq(Command) /\ Tail(e.started) = <<>>
      BY <2>2 DEF Engine, LineOK
    <3>2. freed = [e EXCEPT !.started = Tail(e.started), !.line_busy = FALSE]
      BY <2>2
    <3>3. freed \in Engine
      BY <3>1, <3>2 DEF Engine
    <3>4. freed.started = <<>> /\ freed.line_busy = FALSE
      BY <3>1, <3>2 DEF Engine
    <3> QED
      BY <3>3, <3>4 DEF LineOK
  <2> QED
    BY <2>1, <2>2
<1>2. NextCommand(e) = IF Idle(freed) /\ freed.queued # <<>>
                       THEN IssueHead(freed) ELSE freed
  BY DEF NextCommand
<1> HIDE DEF freed
<1> QED
  BY <1>1, <1>2, IssueHeadLine

LEMMA HandleRecordLine ==
    ASSUME NEW e \in Engine, NEW ex \in BOOLEAN, LineOK(e, ex),
           NEW r, NEW cs \in Seq(Command)
    PROVE  HandleRecord(e, r, cs) \in Engine /\ LineOK(HandleRecord(e, r, cs), ex)
<1> DEFINE kept == IF DetachDone(e, r) THEN ResetCommandQueue(e) ELSE e
           handled == QueueAll(kept, cs)
<1>1. kept \in Engine /\ LineOK(kept, ex)
  BY ResetLine
<1>2. handled \in Engine /\ LineOK(handled, ex)
  BY <1>1, QueueAllLine
<1>3. HandleRecord(e, r, cs) = IF HasResult(r) \/ ~r.parses
                               THEN NextCommand(handled) ELSE handled
  BY DEF HandleRecord
<1> HIDE DEF handled
<1> QED
  BY <1>2, <1>3, NextCommandLine

-----------------------------------------------------------------------------
(* Types, and at most one command in flight: one inductive invariant, for  *)
(* all bounds and all faults.                                              *)

LineInv == TypeOK /\ LineOK(eng, exiting)

LEMMA SpentType ==
    ASSUME NEW s \in [results : Nat, async : Nat, crashes : Nat],
           NEW p \in BOOLEAN, NEW t,
           \/ t = [s EXCEPT !.results = IF p THEN @ ELSE @ + 1]
           \/ t = [s EXCEPT !.async = IF p THEN @ ELSE @ + 1]
           \/ t = [s EXCEPT !.crashes = @ + 1]
    PROVE  t \in [results : Nat, async : Nat, crashes : Nat]
<1>1. CASE p
  BY <1>1
<1>2. CASE ~p
  BY <1>2
<1> QED
  BY <1>1, <1>2

LEMMA CommandIds == \A c \in Command \union {Quit} : c.id \in Nat
BY DEF Command, Quit

LEMMA LaunchLine ==
    ASSUME LineInv, NEW e \in Engine, LineOK(e, exiting), ~exiting,
           NEW cs \in Seq(Command), LaunchGdb(e, cs)
    PROVE  LineInv'
<1>1. PICK fresh : fresh = [e EXCEPT !.connected = TRUE, !.wire = <<>>]
  OBVIOUS
<1>2. eng' \in Engine /\ LineOK(eng', exiting)
  <2>1. fresh = [queued |-> e.queued, started |-> e.started,
                 line_busy |-> e.line_busy, connected |-> TRUE, wire |-> <<>>]
    BY <1>1 DEF Engine
  <2>2. <<>> \in Seq(Command \union {Quit})
    OBVIOUS
  <2>3. fresh \in Engine
    BY <2>1, <2>2 DEF Engine
  <2>4. LineOK(fresh, exiting)
    BY <2>1 DEF LineOK
  <2>5. eng' = QueueAll(fresh, cs)
    BY <1>1 DEF LaunchGdb
  <2>6. exiting \in BOOLEAN
    BY DEF LineInv, TypeOK
  <2> QED
    BY <2>3, <2>4, <2>5, <2>6, QueueAllLine
<1>3. out' \in Seq(Record)
  <2>1. [has |-> "async", of |-> Quit, ok |-> TRUE, parses |-> ~torn] \in Record
    BY DEF Record, LineInv, TypeOK
  <2> QED
    BY <2>1 DEF LaunchGdb
<1>4. nextId' \in Nat \ {0}
  BY DEF LaunchGdb, LineInv, TypeOK
<1> QED
  BY <1>2, <1>3, <1>4 DEF LaunchGdb, LineInv, TypeOK

LEMMA InitLine == Init => LineInv
<1> SUFFICES ASSUME Init PROVE LineInv
  OBVIOUS
<1>1. /\ <<>> \in Seq(Command) /\ <<>> \in Seq(Command \union {Quit})
      /\ <<>> \in Seq(Record) /\ <<>> \in Seq([command : Nat, reply : Nat])
  OBVIOUS
<1>2. eng \in Engine /\ LineOK(eng, exiting)
  BY <1>1 DEF Init, Engine, LineOK
<1>3. spent \in [results : Nat, async : Nat, crashes : Nat]
  BY DEF Init
<1>4. out \in Seq(Record) /\ answered \in Seq([command : Nat, reply : Nat])
  BY <1>1 DEF Init
<1>5. gdb \in {"none", "ready", "inferior", "dead"} /\ nextId \in Nat \ {0}
  BY DEF Init
<1>6. torn \in BOOLEAN /\ exiting \in BOOLEAN
  BY Zenon DEF Init
<1> QED
  BY <1>2, <1>3, <1>4, <1>5, <1>6 DEF LineInv, TypeOK

LEMMA StepLine == LineInv /\ [Next]_vars => LineInv'
<1> SUFFICES ASSUME LineInv, [Next]_vars PROVE LineInv'
  OBVIOUS
<1> USE DEF LineInv
<1>0. nextId \in Nat \ {0} /\ eng \in Engine /\ exiting \in BOOLEAN
  BY DEF TypeOK
<1>1. CASE ClientQueues
  <2>1. PICK cs \in Bursts(1) : eng' = QueueAll(eng, cs) /\ nextId' = nextId + Len(cs)
    BY <1>1 DEF ClientQueues
  <2>2. cs \in Seq(Command) /\ Len(cs) \in Nat
    BY <1>0, BurstType
  <2>3. eng' \in Engine /\ LineOK(eng', exiting)
    BY <1>0, <2>1, <2>2, QueueAllLine
  <2> QED
    BY <1>0, <1>1, <2>1, <2>2, <2>3 DEF ClientQueues, TypeOK
<1>2. ASSUME NEW force \in Forces, LoadProgram(force) PROVE LineInv'
  <2> DEFINE e == IF force THEN ResetCommandQueue(eng) ELSE eng
  <2>1. e \in Engine /\ LineOK(e, exiting)
    BY <1>0, ResetLine
  <2>2. PICK cs \in Bursts(1) : LaunchGdb(e, cs)
    BY <1>2 DEF LoadProgram
  <2>3. cs \in Seq(Command) /\ ~exiting
    BY <1>0, <1>2, BurstType DEF LoadProgram
  <2> HIDE DEF e
  <2> QED
    BY <2>1, <2>2, <2>3, LaunchLine
<1>3. CASE AttachToTarget
  <2>1. PICK cs \in Bursts(1) : LaunchGdb(eng, cs)
    BY <1>3 DEF AttachToTarget
  <2>2. cs \in Seq(Command) /\ ~exiting
    BY <1>0, <1>3, BurstType DEF AttachToTarget
  <2> QED
    BY <1>0, <2>1, <2>2, LaunchLine
<1>4. CASE ExitEngine
  <2> DEFINE e == [eng EXCEPT !.queued = <<>>]
  <2>1. e = [queued |-> <<>>, started |-> eng.started,
             line_busy |-> eng.line_busy, connected |-> eng.connected,
             wire |-> eng.wire]
    BY <1>0 DEF Engine
  <2>2. eng' = [queued |-> <<>>, started |-> eng.started,
                line_busy |-> (eng.line_busy \/ eng.connected),
                connected |-> eng.connected,
                wire |-> IF eng.connected THEN Append(eng.wire, Quit) ELSE eng.wire]
    <3>1. eng' = Issue(e, Quit, FALSE)
      BY <1>4 DEF ExitEngine
    <3> HIDE DEF e
    <3> QED
      BY <1>0, <2>1, <3>1 DEF Issue, Engine
  <2>3. /\ <<>> \in Seq(Command)
        /\ Append(eng.wire, Quit) \in Seq(Command \union {Quit})
    BY <1>0 DEF Engine
  <2>4. eng' \in Engine
    BY <1>0, <2>2, <2>3 DEF Engine
  <2>5. LineOK(eng', TRUE)
    BY <1>0, <2>2 DEF LineOK
  <2> QED
    BY <1>4, <2>4, <2>5 DEF ExitEngine, TypeOK
<1>5. CASE OnOutputRecord
  <2>1. PICK cs \in Bursts(0) :
          eng' = HandleRecord(eng, Head(out), cs) /\ nextId' = nextId + Len(cs)
    BY <1>5 DEF OnOutputRecord
  <2>2. cs \in Seq(Command) /\ Len(cs) \in Nat
    BY <1>0, BurstType
  <2>3. eng' \in Engine /\ LineOK(eng', exiting)
    BY <1>0, <2>1, <2>2, HandleRecordLine
  <2>4. Head(out) \in Record /\ out' \in Seq(Record)
    BY <1>5 DEF OnOutputRecord, TypeOK
  <2>5. Told(eng, Head(out)) \in Seq([command : Nat, reply : Nat])
    <3>1. CASE eng.started = <<>>
      BY <3>1 DEF Told
    <3>2. CASE eng.started # <<>>
      <4>1. Head(eng.started).id \in Nat
        <5>1. eng.started \in Seq(Command)
          BY <1>0 DEF Engine
        <5>2. Head(eng.started) \in Command
          BY <3>2, <5>1
        <5> QED
          BY <5>2, CommandIds
      <4>2. Head(out).of.id \in Nat
        BY <2>4, CommandIds DEF Record
      <4>3. CASE Head(out).parses /\ ~HasResult(Head(out))
        BY <4>3 DEF Told
      <4>4. CASE ~(Head(out).parses /\ ~HasResult(Head(out)))
        <5> DEFINE told == [command |-> Head(eng.started).id,
                            reply |-> IF HasResult(Head(out))
                                      THEN Head(out).of.id ELSE 0]
        <5>1. Told(eng, Head(out)) = <<told>>
          BY <3>2, <4>4 DEF Told
        <5>2. told \in [command : Nat, reply : Nat]
          BY <4>1, <4>2
        <5> HIDE DEF told
        <5>3. <<told>> \in Seq([command : Nat, reply : Nat])
          BY <5>2
        <5> QED
          BY <5>1, <5>3
      <4> QED
        BY <4>3, <4>4
    <3> QED
      BY <3>1, <3>2
  <2>6. answered' \in Seq([command : Nat, reply : Nat])
    BY <1>5, <2>5 DEF OnOutputRecord, TypeOK
  <2> QED
    BY <1>0, <1>5, <2>1, <2>2, <2>3, <2>4, <2>6 DEF OnOutputRecord, TypeOK
<1>6. CASE OnHup
  <2>1. <<>> \in Seq(Command \union {Quit})
    OBVIOUS
  <2>2. eng' = [queued |-> eng.queued, started |-> eng.started,
                line_busy |-> eng.line_busy, connected |-> FALSE, wire |-> <<>>]
    BY <1>0, <1>6 DEF OnHup, Engine
  <2>3. eng' \in Engine /\ LineOK(eng', exiting)
    BY <1>0, <2>1, <2>2 DEF Engine, LineOK
  <2> QED
    BY <1>6, <2>3 DEF OnHup, TypeOK
<1>7. CASE GdbAnswers
  <2>1. PICK ok, parses \in BOOLEAN :
          /\ out' = Append(out, [has |-> "result", of |-> Head(eng.wire),
                                 ok |-> ok, parses |-> parses])
          /\ gdb' \in {"dead", "inferior", "ready"}
          /\ spent' = [spent EXCEPT !.results = IF parses THEN @ ELSE @ + 1]
    BY <1>7 DEF GdbAnswers, Prints
  <2>2. /\ Head(eng.wire) \in Command \union {Quit}
        /\ Tail(eng.wire) \in Seq(Command \union {Quit})
    BY <1>0, <1>7 DEF GdbAnswers, Engine
  <2>3. out' \in Seq(Record)
    <3>1. [has |-> "result", of |-> Head(eng.wire), ok |-> ok, parses |-> parses]
            \in Record
      BY <2>2 DEF Record
    <3> QED
      BY <2>1, <3>1 DEF TypeOK
  <2>4. eng' = [eng EXCEPT !.wire = Tail(eng.wire)]
    BY <1>7 DEF GdbAnswers
  <2>5. eng' \in Engine /\ LineOK(eng', exiting)
    <3>1. eng' \in Engine
      BY <1>0, <2>2, <2>4 DEF Engine
    <3>2. eng'.started = eng.started /\ eng'.line_busy = eng.line_busy
      BY <1>0, <2>4 DEF Engine
    <3> QED
      BY <3>1, <3>2 DEF LineOK
  <2>6. spent' \in [results : Nat, async : Nat, crashes : Nat]
    BY <2>1, SpentType DEF TypeOK
  <2> QED
    BY <1>7, <2>1, <2>3, <2>5, <2>6 DEF GdbAnswers, TypeOK
<1>8. CASE InferiorStops
  <2>1. PICK parses \in BOOLEAN :
          /\ out' = Append(out, [has |-> "async", of |-> Quit, ok |-> TRUE,
                                 parses |-> parses])
          /\ spent' = [spent EXCEPT !.async = IF parses THEN @ ELSE @ + 1]
    BY <1>8 DEF InferiorStops, Prints
  <2>2. out' \in Seq(Record)
    <3>1. [has |-> "async", of |-> Quit, ok |-> TRUE, parses |-> parses] \in Record
      BY DEF Record
    <3> QED
      BY <2>1, <3>1 DEF TypeOK
  <2>3. spent' \in [results : Nat, async : Nat, crashes : Nat]
    BY <2>1, SpentType DEF TypeOK
  <2> QED
    BY <1>8, <2>2, <2>3 DEF InferiorStops, TypeOK
<1>9. CASE GdbDies
  <2>1. torn' \in BOOLEAN
    BY <1>9, QueueAssumption DEF GdbDies
  <2>2. spent' \in [results : Nat, async : Nat, crashes : Nat]
    BY <1>9, SpentType DEF GdbDies, TypeOK
  <2> QED
    BY <1>9, <2>1, <2>2 DEF GdbDies, TypeOK
<1>10. CASE UNCHANGED vars
  BY <1>10 DEF vars, TypeOK
<1> QED
  BY <1>1, <1>2, <1>3, <1>4, <1>5, <1>6, <1>7, <1>8, <1>9, <1>10 DEF Next, Load

LEMMA LineInvariant == Spec => []LineInv
<1> QED
  BY InitLine, StepLine, PTL DEF Spec

(* Every variable keeps its type, whatever GDB prints and however often it *)
(* dies.                                                                   *)
THEOREM TypeCorrect == Spec => []TypeOK
<1>1. LineInv => TypeOK
  BY DEF LineInv
<1> QED
  BY <1>1, LineInvariant, PTL

(* issue_command never finds two commands recorded as sent: the assertion  *)
(* THROW_IF_FAIL (started_commands.size () <= 1) holds with room to spare, *)
(* and the line is busy exactly while a command is in flight.              *)
THEOREM AtMostOneInFlight == Spec => []OneInFlight
<1>1. LineInv => OneInFlight
  BY DEF LineInv, LineOK, OneInFlight
<1> QED
  BY <1>1, LineInvariant, PTL

-----------------------------------------------------------------------------
(* Replies and commands.  What is between the engine and GDB belongs to    *)
(* the command in flight: it is on the wire, or its one answer is among    *)
(* the records, or neither (its GDB died).                                 *)

Outstanding(e, o) ==
    /\ \A i \in 1..Len(o) : o[i].has = "async" => o[i].parses
    /\ \A i \in 1..Len(o) :
          o[i].has = "result" => e.wire = <<>> /\ e.started = <<o[i].of>>
    /\ \A i, j \in 1..Len(o) : o[i].has = "result" /\ o[j].has = "result" => i = j
    /\ e.wire # <<>> => e.wire = e.started

NoResult(o) == \A i \in 1..Len(o) : o[i].has # "result" /\ o[i].parses

PairInv ==
    /\ LineInv
    /\ torn = FALSE
    /\ ~exiting => Outstanding(eng, out)
    /\ RepliesMatch

LEMMA IssueHeadOutstanding ==
    ASSUME NEW e \in Engine, LineOK(e, FALSE), Idle(e), e.queued # <<>>,
           NEW o \in Seq(Record), Outstanding(e, o)
    PROVE  Outstanding(IssueHead(e), o)
<1>1. e.started = <<>> /\ e.wire = <<>>
  BY DEF Idle, Outstanding
<1>2. NoResult(o)
  <2> SUFFICES ASSUME NEW i \in 1..Len(o) PROVE o[i].has # "result" /\ o[i].parses
    BY DEF NoResult
  <2>1. o[i] \in Record
    OBVIOUS
  <2>2. o[i].has # "result"
    BY <1>1 DEF Outstanding
  <2> QED
    BY <2>1, <2>2 DEF Outstanding, Record
<1> DEFINE c == Head(e.queued)
<1>3. PICK f : f = IssueHead(e)
  OBVIOUS
<1>4. CASE e.connected
  <2>1. f.started = Append(e.started, c) /\ f.wire = Append(e.wire, c)
    BY <1>3, <1>4 DEF IssueHead, Issue, Engine
  <2>2. f.started = <<c>> /\ f.wire = <<c>>
    BY <1>1, <2>1
  <2> QED
    BY <1>2, <1>3, <2>2 DEF Outstanding, NoResult
<1>5. CASE ~e.connected
  <2>1. f.started = <<>> /\ f.wire = <<>>
    BY <1>1, <1>3, <1>5 DEF IssueHead, Issue, Engine
  <2> QED
    BY <1>2, <1>3, <2>1 DEF Outstanding, NoResult
<1> QED
  BY <1>4, <1>5

LEMMA SameOutstanding ==
    ASSUME NEW e, NEW f, f.started = e.started, f.wire = e.wire,
           NEW o, Outstanding(e, o)
    PROVE  Outstanding(f, o)
BY DEF Outstanding

LEMMA QueueAllOutstanding ==
    ASSUME NEW e \in Engine, LineOK(e, FALSE), NEW cs \in Seq(Command),
           NEW o \in Seq(Record), Outstanding(e, o)
    PROVE  Outstanding(QueueAll(e, cs), o)
<1> DEFINE all == e.queued \o cs
<1>1. PICK pushed : pushed = [e EXCEPT !.queued = all]
  OBVIOUS
<1>2. all \in Seq(Command)
  BY DEF Engine
<1>3. /\ pushed \in Engine /\ pushed.started = e.started
      /\ pushed.line_busy = e.line_busy /\ pushed.connected = e.connected
      /\ pushed.wire = e.wire /\ pushed.queued = all
  BY <1>1, <1>2 DEF Engine
<1>4. LineOK(pushed, FALSE) /\ Outstanding(pushed, o)
  BY <1>3, SameOutstanding DEF LineOK
<1>5. CASE cs = <<>>
  BY <1>5 DEF QueueAll
<1>6. CASE cs # <<>> /\ ~Idle(e)
  <2>1. QueueAll(e, cs) = pushed
    BY <1>1, <1>6 DEF QueueAll
  <2> QED
    BY <2>1, <1>4
<1>7. CASE cs # <<>> /\ Idle(e) /\ e.connected
  <2>1. QueueAll(e, cs) = IssueHead(pushed)
    BY <1>1, <1>7 DEF QueueAll
  <2>2. Idle(pushed) /\ pushed.queued # <<>>
    BY <1>3, <1>7 DEF Idle, Engine
  <2> HIDE DEF all
  <2> QED
    BY <2>1, <2>2, <1>3, <1>4, IssueHeadOutstanding
<1>8. CASE cs # <<>> /\ Idle(e) /\ ~e.connected
  <2>1. PICK f : f = [e EXCEPT !.queued = SubSeq(all, Len(cs) + 1, Len(all))]
    OBVIOUS
  <2>2. QueueAll(e, cs) = f
    BY <1>8, <2>1 DEF QueueAll
  <2>3. f.started = e.started /\ f.wire = e.wire
    BY <2>1 DEF Engine
  <2> QED
    BY <2>2, <2>3, SameOutstanding
<1> QED
  BY <1>5, <1>6, <1>7, <1>8

(* Once the answer has been taken off the records, the queue may move on.  *)
LEMMA NextCommandOutstanding ==
    ASSUME NEW e \in Engine, LineOK(e, FALSE), e.wire = <<>>,
           NEW o \in Seq(Record), NoResult(o)
    PROVE  Outstanding(NextCommand(e), o)
<1>1. PICK freed : freed = IF e.started = <<>> THEN e
                           ELSE [e EXCEPT !.started = Tail(@), !.line_busy = FALSE]
  OBVIOUS
<1>2. freed \in Engine /\ freed.wire = <<>> /\ freed.started = <<>>
      /\ LineOK(freed, FALSE)
  <2>1. CASE e.started = <<>>
    BY <1>1, <2>1
  <2>2. CASE e.started # <<>>
    <3>1. Tail(e.started) \in Seq(Command) /\ Tail(e.started) = <<>>
      BY <2>2 DEF Engine, LineOK
    <3>2. freed = [e EXCEPT !.started = Tail(e.started), !.line_busy = FALSE]
      BY <1>1, <2>2
    <3>3. freed \in Engine
      BY <3>1, <3>2 DEF Engine
    <3>4. freed.started = <<>> /\ freed.line_busy = FALSE /\ freed.wire = <<>>
      BY <3>1, <3>2 DEF Engine
    <3> QED
      BY <3>3, <3>4 DEF LineOK
  <2> QED
    BY <2>1, <2>2
<1>3. Outstanding(freed, o)
  BY <1>2 DEF Outstanding, NoResult
<1>4. NextCommand(e) = IF Idle(freed) /\ freed.queued # <<>>
                       THEN IssueHead(freed) ELSE freed
  BY <1>1 DEF NextCommand
<1> QED
  BY <1>2, <1>3, <1>4, IssueHeadOutstanding

LEMMA TailRecords ==
    ASSUME NEW o \in Seq(Record), o # <<>>, NEW e, Outstanding(e, o)
    PROVE  /\ Tail(o) \in Seq(Record) /\ Head(o) \in Record
           /\ Outstanding(e, Tail(o))
           /\ Head(o).has = "result" => e.wire = <<>> /\ e.started = <<Head(o).of>>
           /\ Head(o).has = "async" => Head(o).parses
           /\ Head(o).has = "result" => NoResult(Tail(o))
<1>1. Len(o) \in Nat /\ Len(o) >= 1 /\ Head(o) = o[1] /\ 1 \in 1..Len(o)
  OBVIOUS
<1>2. Tail(o) \in Seq(Record) /\ Len(Tail(o)) = Len(o) - 1
  OBVIOUS
<1>3. \A i \in 1..Len(Tail(o)) : Tail(o)[i] = o[i + 1] /\ i + 1 \in 1..Len(o)
  BY <1>1
<1>4. \A i \in 1..Len(o) : o[i] \in Record
  OBVIOUS
<1> DEFINE t == Tail(o)
<1>5. Outstanding(e, t)
  <2> HIDE DEF t
  <2>1. \A i \in 1..Len(t) : t[i] = o[i + 1] /\ i + 1 \in 1..Len(o)
    BY <1>3 DEF t
  <2>2. Len(t) \in Nat
    BY <1>1, <1>2 DEF t
  <2>3. \A i \in 1..Len(t) : t[i].has = "async" => t[i].parses
    BY <2>1 DEF Outstanding
  <2>4. \A i \in 1..Len(t) :
          t[i].has = "result" => e.wire = <<>> /\ e.started = <<t[i].of>>
    BY <2>1 DEF Outstanding
  <2>5. ASSUME NEW i \in 1..Len(t), NEW j \in 1..Len(t),
               t[i].has = "result", t[j].has = "result"
        PROVE  i = j
    <3>1. i + 1 = j + 1
      BY <2>1, <2>5 DEF Outstanding
    <3> QED
      BY <3>1
  <2> QED
    BY <2>3, <2>4, <2>5 DEF Outstanding
<1>6. ASSUME Head(o).has = "result" PROVE NoResult(t)
  <2> SUFFICES ASSUME NEW i \in 1..Len(t) PROVE t[i].has # "result" /\ t[i].parses
    BY DEF NoResult
  <2>1. t[i] = o[i + 1] /\ i + 1 \in 1..Len(o) /\ i + 1 # 1
    BY <1>1, <1>2, <1>3
  <2>2. o[i + 1].has # "result"
    BY <1>1, <1>6, <2>1 DEF Outstanding
  <2>3. o[i + 1].parses
    BY <1>4, <2>1, <2>2 DEF Outstanding, Record
  <2> QED
    BY <2>1, <2>2, <2>3
<1> QED
  BY <1>1, <1>2, <1>4, <1>5, <1>6 DEF Outstanding

LEMMA AppendRecord ==
    ASSUME NEW o \in Seq(Record), NEW e, NEW f, NEW r \in Record,
           Outstanding(e, o),
           \/ /\ r.has = "async" /\ r.parses
              /\ f.wire = e.wire /\ f.started = e.started
           \/ /\ r.has = "result" /\ e.wire # <<>>
              /\ f.wire = <<>> /\ f.started = <<r.of>>
    PROVE  Outstanding(f, Append(o, r))
<1> DEFINE n == Append(o, r)
<1>1. Len(n) = Len(o) + 1 /\ Len(o) \in Nat /\ n[Len(o) + 1] = r
  OBVIOUS
<1>2. \A i \in 1..Len(n) : i # Len(o) + 1 => n[i] = o[i] /\ i \in 1..Len(o)
  BY <1>1
<1> HIDE DEF n
<1>3. CASE r.has = "async"
  BY <1>1, <1>2, <1>3 DEF Outstanding, n
<1>4. CASE r.has = "result"
  <2>1. \A i \in 1..Len(o) : o[i].has # "result"
    BY <1>4 DEF Outstanding
  <2> QED
    BY <1>1, <1>2, <1>4, <2>1 DEF Outstanding, n
<1> QED
  BY <1>3, <1>4 DEF Record

LEMMA HandleRecordOutstanding ==
    ASSUME NEW e \in Engine, LineOK(e, FALSE), NEW cs \in Seq(Command),
           NEW o \in Seq(Record), o # <<>>, Outstanding(e, o),
           DetachDone(e, Head(o)) => cs = <<>>
    PROVE  Outstanding(HandleRecord(e, Head(o), cs), Tail(o))
<1> DEFINE r == Head(o)
<1>1. /\ Tail(o) \in Seq(Record) /\ r \in Record
      /\ Outstanding(e, Tail(o))
      /\ r.has = "result" => e.wire = <<>> /\ e.started = <<r.of>>
      /\ r.has = "async" => r.parses
      /\ r.has = "result" => NoResult(Tail(o))
  BY TailRecords
<1>2. CASE r.has = "async"
  <2>1. ~HasResult(r) /\ r.parses /\ ~DetachDone(e, r)
    BY <1>1, <1>2 DEF HasResult, DetachDone
  <2>2. HandleRecord(e, r, cs) = QueueAll(e, cs)
    BY <2>1 DEF HandleRecord
  <2> HIDE DEF r
  <2> QED
    BY <1>1, <2>2, QueueAllOutstanding DEF r
<1>3. CASE r.has = "result"
  <2> DEFINE handled == QueueAll(IF DetachDone(e, r) THEN ResetCommandQueue(e) ELSE e, cs)
  <2>1. e.wire = <<>> /\ e.started # <<>> /\ ~Idle(e) /\ NoResult(Tail(o))
    <3>1. e.wire = <<>> /\ e.started = <<r.of>> /\ NoResult(Tail(o))
      BY <1>1, <1>3
    <3>2. e.started # <<>>
      BY <3>1
    <3> QED
      BY <3>1, <3>2 DEF Idle
  <2>2. HandleRecord(e, r, cs) = NextCommand(handled)
    BY <1>3 DEF HandleRecord, HasResult
  <2>3. handled \in Engine /\ LineOK(handled, FALSE) /\ handled.wire = <<>>
    <3>1. CASE DetachDone(e, r)
      <4>1. PICK f : f = ResetCommandQueue(e)
        OBVIOUS
      <4>2. handled = f
        BY <3>1, <4>1 DEF QueueAll
      <4>3. f.wire = e.wire
        BY <4>1 DEF ResetCommandQueue, Engine
      <4> HIDE DEF handled
      <4> QED
        BY <2>1, <4>1, <4>2, <4>3, ResetLine
    <3>2. CASE ~DetachDone(e, r)
      <4>1. handled = QueueAll(e, cs)
        BY <3>2
      <4>2. handled.wire = e.wire
        BY <2>1, <4>1 DEF QueueAll, Engine
      <4> HIDE DEF handled
      <4> QED
        BY <2>1, <4>1, <4>2, QueueAllLine
    <3> QED
      BY <3>1, <3>2
  <2> HIDE DEF handled
  <2> QED
    BY <1>1, <2>1, <2>2, <2>3, NextCommandOutstanding
<1> QED
  BY <1>1, <1>2, <1>3 DEF Record

LEMMA LaunchOutstanding ==
    ASSUME NEW e \in Engine, LineOK(e, FALSE), torn = FALSE,
           NEW cs \in Seq(Command), LaunchGdb(e, cs)
    PROVE  Outstanding(eng', out')
<1>1. PICK f : f = [e EXCEPT !.connected = TRUE, !.wire = <<>>]
  OBVIOUS
<1>2. f = [queued |-> e.queued, started |-> e.started,
           line_busy |-> e.line_busy, connected |-> TRUE, wire |-> <<>>]
  BY <1>1 DEF Engine
<1>3. <<>> \in Seq(Command \union {Quit})
  OBVIOUS
<1>4. f \in Engine /\ LineOK(f, FALSE) /\ f.wire = <<>>
  BY <1>2, <1>3 DEF Engine, LineOK
<1>5. PICK r : r = [has |-> "async", of |-> Quit, ok |-> TRUE, parses |-> TRUE]
  OBVIOUS
<1>6. out' = <<r>> /\ eng' = QueueAll(f, cs)
  BY <1>1, <1>5 DEF LaunchGdb
<1>7. r \in Record
  BY <1>5 DEF Record
<1>8. Outstanding(f, <<r>>) /\ <<r>> \in Seq(Record)
  BY <1>4, <1>5, <1>7 DEF Outstanding
<1> QED
  BY <1>4, <1>6, <1>8, QueueAllOutstanding

LEMMA InitPair == Init => PairInv
<1> SUFFICES ASSUME Init PROVE PairInv
  OBVIOUS
<1>1. eng.wire = <<>> /\ out = <<>> /\ answered = <<>>
  BY DEF Init
<1>2. torn = FALSE
  BY Zenon DEF Init
<1>3. Outstanding(eng, out)
  BY <1>1 DEF Outstanding
<1>4. RepliesMatch
  BY <1>1 DEF RepliesMatch
<1> QED
  BY <1>2, <1>3, <1>4, InitLine DEF PairInv

LEMMA StepPair ==
    ASSUME MaxBadAsync = 0, MayTear = FALSE, PairInv, [Next]_vars
    PROVE  PairInv'
<1>1. LineInv /\ LineInv' /\ torn = FALSE
  BY StepLine DEF PairInv
<1>2. eng \in Engine /\ out \in Seq(Record) /\ nextId \in Nat \ {0}
      /\ exiting \in BOOLEAN /\ answered \in Seq([command : Nat, reply : Nat])
  BY <1>1 DEF LineInv, TypeOK
<1>3. torn' = FALSE
  <2>1. torn' = torn \/ torn' = FALSE \/ torn' \in {FALSE, MayTear}
    BY DEF Next, Load, ClientQueues, LoadProgram, AttachToTarget, LaunchGdb,
           ExitEngine, OnOutputRecord, OnHup, GdbAnswers, InferiorStops,
           GdbDies, vars
  <2> QED
    BY <1>1, <2>1
<1>4. exiting => exiting'
  BY DEF Next, Load, ClientQueues, LoadProgram, AttachToTarget, LaunchGdb,
         ExitEngine, OnOutputRecord, OnHup, GdbAnswers, InferiorStops,
         GdbDies, vars
<1>5. CASE exiting'
  BY <1>1, <1>3, <1>5 DEF PairInv, RepliesMatch
<1>6. CASE ~exiting'
  <2>1. ~exiting /\ Outstanding(eng, out) /\ RepliesMatch /\ LineOK(eng, FALSE)
    <3>1. ~exiting
      BY <1>4, <1>6
    <3>2. exiting = FALSE
      BY <1>2, <3>1
    <3>3. LineOK(eng, exiting)
      BY <1>1 DEF LineInv
    <3>4. LineOK(eng, FALSE)
      BY <3>2, <3>3
    <3> QED
      BY <3>1, <3>4 DEF PairInv
  <2> SUFFICES Outstanding(eng', out') /\ RepliesMatch'
    BY <1>1, <1>3 DEF PairInv
  <2>2. answered' = answered => RepliesMatch'
    BY <2>1 DEF RepliesMatch
  <2>3. CASE ClientQueues
    <3>1. PICK cs \in Bursts(1) : eng' = QueueAll(eng, cs)
      BY <2>3 DEF ClientQueues
    <3>2. cs \in Seq(Command)
      BY <1>2, BurstType
    <3>3. out' = out /\ answered' = answered
      BY <2>3 DEF ClientQueues
    <3> QED
      BY <1>2, <2>1, <2>2, <3>1, <3>2, <3>3, QueueAllOutstanding
  <2>4. ASSUME NEW force \in Forces, LoadProgram(force)
        PROVE  Outstanding(eng', out') /\ RepliesMatch'
    <3> DEFINE e == IF force THEN ResetCommandQueue(eng) ELSE eng
    <3>1. e \in Engine /\ LineOK(e, FALSE)
      BY <1>2, <2>1, ResetLine
    <3>2. PICK cs \in Bursts(1) : LaunchGdb(e, cs)
      BY <2>4 DEF LoadProgram
    <3>3. cs \in Seq(Command) /\ answered' = answered
      BY <1>2, <3>2, BurstType DEF LaunchGdb
    <3> HIDE DEF e
    <3> QED
      BY <1>1, <2>2, <3>1, <3>2, <3>3, LaunchOutstanding
  <2>5. CASE AttachToTarget
    <3>1. PICK cs \in Bursts(1) : LaunchGdb(eng, cs)
      BY <2>5 DEF AttachToTarget
    <3>2. cs \in Seq(Command) /\ answered' = answered
      BY <1>2, <3>1, BurstType DEF LaunchGdb
    <3> QED
      BY <1>1, <1>2, <2>1, <2>2, <3>1, <3>2, LaunchOutstanding
  <2>6. CASE ExitEngine
    BY <1>6, <2>6 DEF ExitEngine
  <2>7. CASE OnOutputRecord
    <3>1. PICK cs \in Bursts(0) :
            /\ DetachDone(eng, Head(out)) => cs = <<>>
            /\ eng' = HandleRecord(eng, Head(out), cs)
      BY <2>7 DEF OnOutputRecord
    <3>2. cs \in Seq(Command)
      BY <1>2, BurstType
    <3>3. out # <<>> /\ out' = Tail(out) /\ answered' = answered \o Told(eng, Head(out))
      BY <2>7 DEF OnOutputRecord
    <3>4. Outstanding(eng', out')
      BY <1>2, <2>1, <3>1, <3>2, <3>3, HandleRecordOutstanding
    <3>5. RepliesMatch'
      <4> DEFINE r == Head(out)
                 told == [command |-> Head(eng.started).id,
                          reply |-> IF HasResult(r) THEN r.of.id ELSE 0]
      <4>1. Told(eng, r) = <<>> \/ Told(eng, r) = <<told>>
        BY DEF Told
      <4>2. HasResult(r) => Head(eng.started) = r.of
        BY <1>2, <2>1, <3>3, TailRecords DEF HasResult
      <4>3. told.reply \in {0, told.command}
        BY <4>2
      <4>4. CASE Told(eng, r) = <<>>
        <5>1. answered' = answered
          BY <1>2, <3>3, <4>4
        <5> QED
          BY <2>2, <5>1
      <4>5. CASE Told(eng, r) = <<told>>
        <5> HIDE DEF told
        <5>1. answered' = Append(answered, told)
          BY <1>2, <3>3, <4>5, AppendOne
        <5>2. Len(answered) \in Nat /\ Len(answered') = Len(answered) + 1
              /\ answered'[Len(answered) + 1] = told
          BY <1>2, <5>1
        <5>3. \A i \in 1..Len(answered) : answered'[i] = answered[i]
          BY <1>2, <5>1
        <5>4. \A i \in 1..Len(answered') :
                i \in 1..Len(answered) \/ i = Len(answered) + 1
          BY <5>2
        <5>5. \A i \in 1..Len(answered) :
                answered[i].reply \in {0, answered[i].command}
          BY <2>1 DEF RepliesMatch
        <5>6. \A i \in 1..Len(answered') :
                answered'[i].reply \in {0, answered'[i].command}
          BY <4>3, <5>2, <5>3, <5>4, <5>5
        <5> QED
          BY <5>6 DEF RepliesMatch
      <4> QED
        BY <4>1, <4>4, <4>5
    <3> QED
      BY <3>4, <3>5
  <2>8. CASE OnHup
    <3>1. eng' = [eng EXCEPT !.connected = FALSE, !.wire = <<>>]
          /\ out = <<>> /\ out' = out /\ answered' = answered
      BY <2>8 DEF OnHup
    <3>2. eng'.wire = <<>>
      BY <1>2, <3>1 DEF Engine
    <3> QED
      BY <2>2, <3>1, <3>2 DEF Outstanding
  <2>9. CASE GdbAnswers
    <3>1. PICK ok, parses \in BOOLEAN :
            out' = Append(out, [has |-> "result", of |-> Head(eng.wire),
                                ok |-> ok, parses |-> parses])
      BY <2>9 DEF GdbAnswers, Prints
    <3>2. eng' = [eng EXCEPT !.wire = Tail(eng.wire)] /\ eng.wire # <<>>
          /\ answered' = answered
      BY <2>9 DEF GdbAnswers
    <3>3. eng.wire = eng.started /\ Len(eng.started) = 1
          /\ eng.started \in Seq(Command)
      <4>1. eng.started \in Seq(Command)
        BY <1>2 DEF Engine
      <4>2. eng.wire = eng.started
        BY <2>1, <3>2 DEF Outstanding
      <4>3. eng.started # <<>> /\ Len(eng.started) <= 1
        BY <2>1, <3>2, <4>2 DEF LineOK
      <4> QED
        BY <4>1, <4>2, <4>3, OneElement
    <3>4. eng'.wire = <<>> /\ eng'.started = <<Head(eng.wire)>>
      <4>1. Tail(eng.started) = <<>> /\ eng.started = <<Head(eng.started)>>
        <5>1. eng.started # <<>> /\ Len(eng.started) <= 1
          BY <3>2, <3>3
        <5> QED
          BY <3>3, <5>1, OneElement
      <4> QED
        BY <1>2, <3>2, <3>3, <4>1 DEF Engine
    <3>5. PICK r : r = [has |-> "result", of |-> Head(eng.wire),
                        ok |-> ok, parses |-> parses]
      OBVIOUS
    <3>6. r \in Record /\ r.has = "result" /\ r.of = Head(eng.wire)
      <4>1. Head(eng.wire) \in Command
        BY <3>3
      <4> QED
        BY <3>5, <4>1 DEF Record
    <3>7. out' = Append(out, r)
      BY <3>1, <3>5
    <3>8. Outstanding(eng', out')
      BY <1>2, <2>1, <3>2, <3>4, <3>6, <3>7, AppendRecord
    <3> QED
      BY <2>2, <3>2, <3>8
  <2>10. CASE InferiorStops
    <3>1. PICK parses \in BOOLEAN :
            /\ parses \/ spent.async < MaxBadAsync
            /\ out' = Append(out, [has |-> "async", of |-> Quit, ok |-> TRUE,
                                   parses |-> parses])
      BY <2>10 DEF InferiorStops, Prints
    <3>2. parses
      <4>1. spent.async \in Nat
        BY <1>1 DEF LineInv, TypeOK
      <4> QED
        BY <3>1, <4>1
    <3>3. PICK r : r = [has |-> "async", of |-> Quit, ok |-> TRUE, parses |-> parses]
      OBVIOUS
    <3>4. r \in Record /\ r.has = "async" /\ r.parses
      BY <3>2, <3>3 DEF Record
    <3>5. eng' = eng /\ answered' = answered /\ out' = Append(out, r)
      BY <2>10, <3>1, <3>3 DEF InferiorStops
    <3> QED
      BY <1>2, <2>1, <2>2, <3>4, <3>5, AppendRecord
  <2>11. CASE GdbDies
    BY <2>1, <2>2, <2>11 DEF GdbDies
  <2>12. CASE UNCHANGED vars
    BY <2>1, <2>2, <2>12 DEF vars
  <2> QED
    BY <2>3, <2>4, <2>5, <2>6, <2>7, <2>8, <2>9, <2>10, <2>11, <2>12 DEF Next, Load
<1> QED
  BY <1>5, <1>6

(* Every reply is handed to the handlers with the command that caused it,  *)
(* through crashes, restarts, detaches and replies that do not parse, as   *)
(* long as stops always parse and no GDB dies in the middle of a record.   *)
(* Both hypotheses are needed: with MaxBadAsync = 1, or with MayTear =     *)
(* TRUE, TLC refutes RepliesMatch under queue_safe's other constants.      *)
THEOREM RepliesAlwaysMatch ==
    ASSUME MaxBadAsync = 0, MayTear = FALSE
    PROVE  Spec => []RepliesMatch
<1>1. PairInv /\ [Next]_vars => PairInv'
  BY StepPair
<1>2. PairInv => RepliesMatch
  BY DEF PairInv
<1> QED
  BY <1>1, <1>2, InitPair, PTL DEF Spec

-----------------------------------------------------------------------------
(* The line: with a live GDB, the command in flight always has exactly one *)
(* answer ahead of it, so that the engine never waits for nothing and      *)
(* never takes the answer of one command for another's.                    *)

(* The command in flight of e is still to be read by GDB, or its answer is *)
(* among the records o.                                                    *)
Served(e, o) ==
    e.started # <<>> =>
        e.wire # <<>> \/ \E i \in 1..Len(o) : o[i].has = "result"

ServedInv ==
    /\ PairInv
    /\ ~exiting /\ eng.connected /\ gdb # "dead" => Served(eng, out)

-----------------------------------------------------------------------------
(* A command that is issued is on the wire.                                *)
LEMMA IssueHeadServed ==
    ASSUME NEW e \in Engine, e.connected, e.queued # <<>>, NEW o
    PROVE  Served(IssueHead(e), o)
<1> DEFINE c == Head(e.queued)
<1>1. e.queued \in Seq(Command) /\ c \in Command
  BY DEF Engine
<1>2. IssueHead(e).wire = Append(e.wire, c)
  BY DEF IssueHead, Issue, Engine
<1>3. e.wire \in Seq(Command \union {Quit}) /\ c \in Command \union {Quit}
  BY <1>1 DEF Engine
<1> HIDE DEF c
<1>4. Append(e.wire, c) # <<>>
  BY <1>3
<1> QED
  BY <1>2, <1>4 DEF Served

(* Queueing commands behind one in flight takes nothing from it.           *)
LEMMA QueueAllServed ==
    ASSUME NEW e \in Engine, e.connected, NEW cs \in Seq(Command), NEW o,
           Served(e, o)
    PROVE  Served(QueueAll(e, cs), o)
<1> DEFINE all == e.queued \o cs
<1>1. PICK pushed : pushed = [e EXCEPT !.queued = all]
  OBVIOUS
<1>2. all \in Seq(Command) /\ (cs # <<>> => all # <<>>)
  BY DEF Engine
<1>3. /\ pushed \in Engine /\ pushed.started = e.started /\ pushed.wire = e.wire
      /\ pushed.connected /\ pushed.queued = all
  BY <1>1, <1>2 DEF Engine
<1>4. CASE cs = <<>>
  BY <1>4 DEF QueueAll
<1>5. CASE cs # <<>> /\ ~Idle(e)
  <2>1. QueueAll(e, cs) = pushed
    BY <1>1, <1>5 DEF QueueAll
  <2> QED
    BY <1>3, <2>1 DEF Served
<1>6. CASE cs # <<>> /\ Idle(e)
  <2>1. QueueAll(e, cs) = IssueHead(pushed)
    BY <1>1, <1>6 DEF QueueAll
  <2> HIDE DEF all
  <2> QED
    BY <1>2, <1>3, <1>6, <2>1, IssueHeadServed
<1> QED
  BY <1>4, <1>5, <1>6

(* Once a command is over, the next one is issued or none is in flight.    *)
LEMMA NextCommandServed ==
    ASSUME NEW e \in Engine, e.connected, LineOK(e, FALSE), NEW o
    PROVE  Served(NextCommand(e), o)
<1>1. PICK freed : freed = IF e.started = <<>> THEN e
                           ELSE [e EXCEPT !.started = Tail(@), !.line_busy = FALSE]
  OBVIOUS
<1>2. freed \in Engine /\ freed.started = <<>> /\ freed.connected
  <2>1. CASE e.started = <<>>
    BY <1>1, <2>1
  <2>2. CASE e.started # <<>>
    <3>1. Tail(e.started) \in Seq(Command) /\ Tail(e.started) = <<>>
      BY <2>2 DEF Engine, LineOK
    <3>2. freed = [e EXCEPT !.started = Tail(e.started), !.line_busy = FALSE]
      BY <1>1, <2>2
    <3> QED
      BY <3>1, <3>2 DEF Engine
  <2> QED
    BY <2>1, <2>2
<1>3. NextCommand(e) = IF Idle(freed) /\ freed.queued # <<>>
                       THEN IssueHead(freed) ELSE freed
  BY <1>1 DEF NextCommand
<1>4. Served(freed, o)
  BY <1>2 DEF Served
<1> QED
  BY <1>2, <1>3, <1>4, IssueHeadServed

(* A record that does not end the command in flight is not its answer.     *)
LEMMA HandleRecordServed ==
    ASSUME NEW e \in Engine, e.connected, LineOK(e, FALSE),
           NEW cs \in Seq(Command), NEW o \in Seq(Record), o # <<>>,
           Outstanding(e, o), Served(e, o)
    PROVE  Served(HandleRecord(e, Head(o), cs), Tail(o))
<1>1. PICK r : r = Head(o)
  OBVIOUS
<1>2. PICK kept : kept = IF DetachDone(e, r) THEN ResetCommandQueue(e) ELSE e
  OBVIOUS
<1>3. kept \in Engine /\ kept.connected /\ LineOK(kept, FALSE)
  <2>1. ResetCommandQueue(e).connected = e.connected
    BY DEF ResetCommandQueue, Engine
  <2> QED
    BY <1>2, <2>1, ResetLine
<1>4. PICK handled : handled = QueueAll(kept, cs)
  OBVIOUS
<1>5. HandleRecord(e, r, cs) =
        IF HasResult(r) \/ ~r.parses THEN NextCommand(handled) ELSE handled
  BY <1>2, <1>4 DEF HandleRecord
<1>6. CASE HasResult(r) \/ ~r.parses
  <2>1. handled \in Engine /\ LineOK(handled, FALSE)
    BY <1>3, <1>4, QueueAllLine
  <2>2. handled.connected
    BY <1>3, <1>4 DEF QueueAll, IssueHead, Issue, Engine
  <2> QED
    BY <1>1, <1>5, <1>6, <2>1, <2>2, NextCommandServed
<1>7. CASE ~HasResult(r) /\ r.parses
  <2>1. r.has # "result" /\ kept = e
    BY <1>2, <1>7 DEF HasResult, DetachDone
  <2>2. Served(e, Tail(o))
    <3>1. ASSUME NEW i \in 1..Len(o), o[i].has = "result"
          PROVE  \E j \in 1..Len(Tail(o)) : Tail(o)[j].has = "result"
      <4>1. i # 1
        BY <1>1, <2>1, <3>1
      <4>2. Len(o) \in Nat /\ Len(Tail(o)) = Len(o) - 1
        OBVIOUS
      <4>3. PICK j : j = i - 1 /\ j \in 1..Len(Tail(o)) /\ i = j + 1
        BY <4>1, <4>2
      <4>4. Tail(o)[j] = o[j + 1]
        BY <4>3
      <4> QED
        BY <3>1, <4>3, <4>4
    <3> QED
      BY <3>1 DEF Served
  <2> QED
    BY <1>1, <1>3, <1>4, <1>5, <1>7, <2>1, <2>2, QueueAllServed
<1> QED
  BY <1>6, <1>7

-----------------------------------------------------------------------------
LEMMA InitServed == Init => ServedInv
<1> SUFFICES ASSUME Init PROVE ServedInv
  OBVIOUS
<1>1. eng.started = <<>>
  BY DEF Init
<1> QED
  BY <1>1, InitPair DEF ServedInv, Served

LEMMA StepServed ==
    ASSUME MaxBadAsync = 0, MayTear = FALSE, MayAttach = FALSE,
           FALSE \notin Forces, ServedInv, [Next]_vars
    PROVE  ServedInv'
<1>1. PairInv /\ PairInv'
  BY StepPair DEF ServedInv
<1>2. /\ eng \in Engine /\ out \in Seq(Record) /\ nextId \in Nat \ {0}
      /\ exiting \in BOOLEAN /\ LineOK(eng, exiting)
  BY <1>1 DEF PairInv, LineInv, TypeOK
<1> SUFFICES ASSUME ~exiting', eng'.connected, gdb' # "dead"
             PROVE  Served(eng', out')
  BY <1>1 DEF ServedInv, Served
<1>3. ~exiting
  BY DEF Next, Load, ClientQueues, LoadProgram, AttachToTarget, LaunchGdb,
         ExitEngine, OnOutputRecord, OnHup, GdbAnswers, InferiorStops,
         GdbDies, vars
<1>4. LineOK(eng, FALSE) /\ Outstanding(eng, out)
  <2>1. exiting = FALSE
    BY <1>2, <1>3
  <2> QED
    BY <1>1, <1>2, <2>1 DEF PairInv
<1>5. CASE ClientQueues
  <2>1. PICK cs \in Bursts(1) : eng' = QueueAll(eng, cs)
    BY <1>5 DEF ClientQueues
  <2>2. cs \in Seq(Command) /\ out' = out /\ gdb' = gdb
    BY <1>2, <1>5, BurstType DEF ClientQueues
  <2>3. eng'.connected = eng.connected
    BY <1>2, <2>1 DEF QueueAll, IssueHead, Issue, Engine
  <2>4. Served(eng, out) /\ eng.connected
    BY <1>3, <2>2, <2>3 DEF ServedInv
  <2> QED
    BY <1>2, <2>1, <2>2, <2>4, QueueAllServed
<1>6. ASSUME NEW force \in Forces, LoadProgram(force)
      PROVE  Served(eng', out')
  <2>1. force = TRUE
    BY QueueAssumption
  <2>2. PICK e : e = ResetCommandQueue(eng)
    OBVIOUS
  <2>3. PICK cs \in Bursts(1) : LaunchGdb(e, cs)
    BY <1>6, <2>1, <2>2 DEF LoadProgram
  <2>4. cs \in Seq(Command)
    BY <1>2, BurstType
  <2>5. PICK f : f = [e EXCEPT !.connected = TRUE, !.wire = <<>>]
    OBVIOUS
  <2>6. e \in Engine /\ e.started = <<>>
    BY <1>2, <2>2, ResetLine DEF ResetCommandQueue, Engine
  <2>7. f \in Engine /\ f.connected /\ f.started = <<>>
    <3>1. <<>> \in Seq(Command \union {Quit})
      OBVIOUS
    <3> QED
      BY <2>5, <2>6, <3>1 DEF Engine
  <2>8. eng' = QueueAll(f, cs)
    BY <2>3, <2>5 DEF LaunchGdb
  <2> QED
    BY <2>4, <2>7, <2>8, QueueAllServed DEF Served
<1>7. CASE AttachToTarget
  BY <1>7 DEF AttachToTarget
<1>8. CASE ExitEngine
  BY <1>8 DEF ExitEngine
<1>9. CASE OnOutputRecord
  <2>1. PICK cs \in Bursts(0) : eng' = HandleRecord(eng, Head(out), cs)
    BY <1>9 DEF OnOutputRecord
  <2>2. /\ cs \in Seq(Command) /\ eng.connected /\ out # <<>>
        /\ out' = Tail(out) /\ gdb' = gdb
    BY <1>2, <1>9, BurstType DEF OnOutputRecord
  <2>3. Served(eng, out)
    BY <1>3, <2>2 DEF ServedInv
  <2> QED
    BY <1>2, <1>4, <2>1, <2>2, <2>3, HandleRecordServed
<1>10. CASE OnHup
  <2>1. eng'.connected = FALSE
    BY <1>2, <1>10 DEF OnHup, Engine
  <2> QED
    BY <2>1
<1>11. CASE GdbAnswers
  <2>1. PICK r : out' = Append(out, r) /\ r.has = "result"
    BY <1>11 DEF GdbAnswers, Prints
  <2>2. Len(out) + 1 \in 1..Len(out') /\ out'[Len(out) + 1] = r
    BY <1>2, <2>1
  <2> QED
    BY <2>1, <2>2 DEF Served
<1>12. CASE InferiorStops
  <2>1. PICK r : out' = Append(out, r)
    BY <1>12 DEF InferiorStops, Prints
  <2>2. \A i \in 1..Len(out) : i \in 1..Len(out') /\ out'[i] = out[i]
    BY <1>2, <2>1
  <2>3. eng' = eng /\ gdb # "dead"
    BY <1>12 DEF InferiorStops
  <2>4. Served(eng, out)
    BY <1>3, <2>3 DEF ServedInv
  <2> QED
    BY <2>2, <2>3, <2>4 DEF Served
<1>13. CASE GdbDies
  BY <1>13 DEF GdbDies
<1>14. CASE UNCHANGED vars
  BY <1>3, <1>14 DEF vars, ServedInv
<1> QED
  BY <1>5, <1>6, <1>7, <1>8, <1>9, <1>10, <1>11, <1>12, <1>13, <1>14 DEF Next, Load

(* The engine never waits for a GDB that has nothing left to answer, as    *)
(* long as every GDB launched after the first one is launched by a forced  *)
(* load, which resets the queue.  An attach or an unforced load after a    *)
(* crash finds the line busy with a command the new GDB has never seen:    *)
(* with MayAttach = TRUE or Forces = {FALSE} TLC refutes NeverStuck.  The  *)
(* two other hypotheses are those of the pairing of answers, which the     *)
(* proof goes through.                                                     *)
THEOREM LineNeverStuck ==
    ASSUME MaxBadAsync = 0, MayTear = FALSE, MayAttach = FALSE,
           FALSE \notin Forces
    PROVE  Spec => []NeverStuck
<1>1. ServedInv /\ [Next]_vars => ServedInv'
  BY StepServed
<1>2. ServedInv => NeverStuck
  <2> SUFFICES ASSUME ServedInv, eng.connected, gdb = "ready", eng.wire = <<>>,
                      out = <<>>, ~exiting
               PROVE  Idle(eng)
    BY DEF NeverStuck
  <2>1. eng.started = <<>>
    BY DEF ServedInv, Served
  <2>2. LineOK(eng, exiting)
    BY DEF ServedInv, PairInv, LineInv
  <2> QED
    BY <2>1, <2>2 DEF LineOK, Idle
<1> QED
  BY <1>1, <1>2, InitServed, PTL DEF Spec

(* What is between the engine and a live GDB is the command in flight, on  *)
(* its way or answered, and nothing else: the engine never writes a        *)
(* command before the previous one was answered.  Each of the four         *)
(* hypotheses is needed: TLC refutes WireHoldsInFlight without it.         *)
THEOREM WireServesInFlight ==
    ASSUME MaxBadAsync = 0, MayTear = FALSE, MayAttach = FALSE,
           FALSE \notin Forces
    PROVE  Spec => []WireHoldsInFlight
<1>1. ServedInv /\ [Next]_vars => ServedInv'
  BY StepServed
<1>2. ServedInv => WireHoldsInFlight
  <2> SUFFICES ASSUME ServedInv, gdb # "dead", eng.connected, ~exiting
               PROVE  Len(eng.wire) + Cardinality(Answers) = Len(eng.started)
    BY DEF WireHoldsInFlight
  <2>1. /\ Outstanding(eng, out) /\ Served(eng, out) /\ LineOK(eng, exiting)
        /\ eng \in Engine
    BY DEF ServedInv, PairInv, LineInv, TypeOK
  <2>2. eng.started # <<>> => Len(eng.started) = 1
    BY <2>1, OneElement DEF LineOK, Engine
  <2>3. CASE eng.started = <<>>
    <3>1. eng.wire = <<>>
      BY <2>1, <2>3 DEF Outstanding
    <3>2. Answers = {}
      <4>1. \A i \in 1..Len(out) : out[i].has # "result"
        BY <2>1, <2>3 DEF Outstanding
      <4> QED
        BY <4>1 DEF Answers
    <3> QED
      BY <2>3, <3>1, <3>2, FS_EmptySet
  <2>4. CASE eng.started # <<>> /\ eng.wire # <<>>
    <3>1. Answers = {}
      <4>1. \A i \in 1..Len(out) : out[i].has # "result"
        BY <2>1, <2>4 DEF Outstanding
      <4> QED
        BY <4>1 DEF Answers
    <3>2. eng.wire = eng.started
      BY <2>1, <2>4 DEF Outstanding
    <3> QED
      BY <2>2, <2>4, <3>1, <3>2, FS_EmptySet
  <2>5. CASE eng.started # <<>> /\ eng.wire = <<>>
    <3>1. PICK i \in 1..Len(out) : out[i].has = "result"
      BY <2>1, <2>5 DEF Served
    <3>2. Answers = {i}
      BY <2>1, <3>1 DEF Answers, Outstanding
    <3>3. Cardinality(Answers) = 1
      BY <3>2, FS_Singleton
    <3> QED
      BY <2>2, <2>5, <3>3
  <2> QED
    BY <2>3, <2>4, <2>5
<1> QED
  BY <1>1, <1>2, InitServed, PTL DEF Spec

-----------------------------------------------------------------------------
(***************************************************************************)
(* The order of commands: they are answered in the order they were queued  *)
(* in.                                                                     *)
(***************************************************************************)

(* What an engine e has been asked and has not answered, oldest first.     *)
Pending(e) == e.started \o e.queued

(* t is s without its first k elements, and without some of the last.      *)
PartOf(t, s, k) ==
    /\ k \in Nat /\ Len(t) + k <= Len(s)
    /\ \A i \in 1..Len(t) : t[i] = s[i + k]

(* The commands answered, a, and those that are pending, p, have numbers   *)
(* that rise from the first answered to the last pending and are below n.  *)
Ordered(a, p, n) ==
    /\ \A i, j \in 1..Len(a) : i < j => a[i].command < a[j].command
    /\ \A i, j \in 1..Len(p) : i < j => p[i].id < p[j].id
    /\ \A i \in 1..Len(a), j \in 1..Len(p) : a[i].command < p[j].id
    /\ \A i \in 1..Len(a) : a[i].command < n
    /\ \A i \in 1..Len(p) : p[i].id < n

(* The commands cs are numbered from n on.                                 *)
NumberedFrom(cs, n) == \A i \in 1..Len(cs) : cs[i].id = n + i - 1

Answer == [command : Nat, reply : Nat]

-----------------------------------------------------------------------------
(* Lemmas about order.                                                     *)

LEMMA BurstNumbers ==
    ASSUME nextId \in Nat \ {0}, NEW lo \in {0, 1}, NEW cs \in Bursts(lo)
    PROVE  NumberedFrom(cs, nextId)
<1>1. PICK n \in lo..MaxBurst : cs \in Burst(n)
  BY QueueAssumption DEF Bursts
<1>2. PICK k \in [1..n -> Kinds] :
        cs = [i \in 1..n |-> [id |-> nextId + i - 1, kind |-> k[i]]]
  BY <1>1 DEF Burst
<1>3. n \in Nat /\ DOMAIN cs = 1..n
  BY <1>2, QueueAssumption
<1>4. cs \in Seq(Command) /\ Len(cs) = n
  <2>1. cs \in Seq(Command)
    BY BurstType
  <2> QED
    BY <1>3, <2>1
<1> QED
  BY <1>2, <1>4 DEF NumberedFrom

(* Commands that come in are behind all others.                            *)
LEMMA OrderedQueue ==
    ASSUME NEW a \in Seq(Answer), NEW p \in Seq(Command), NEW n \in Nat,
           NEW cs \in Seq(Command), Ordered(a, p, n), NumberedFrom(cs, n)
    PROVE  Ordered(a, p \o cs, n + Len(cs))
<1> DEFINE q == p \o cs
<1>1. q \in Seq(Command) /\ Len(q) = Len(p) + Len(cs)
      /\ Len(p) \in Nat /\ Len(cs) \in Nat
  OBVIOUS
<1>2. \A i \in 1..Len(q) : q[i] = IF i <= Len(p) THEN p[i] ELSE cs[i - Len(p)]
  OBVIOUS
<1>3. \A i \in 1..Len(p) : p[i].id \in Nat /\ p[i].id < n
  <2>1. \A i \in 1..Len(p) : p[i] \in Command
    OBVIOUS
  <2> QED
    BY <2>1, CommandIds DEF Ordered
<1>4. \A i \in 1..Len(a) : a[i].command \in Nat /\ a[i].command < n
  <2>1. \A i \in 1..Len(a) : a[i] \in Answer
    OBVIOUS
  <2> QED
    BY <2>1 DEF Answer, Ordered
<1>5. \A i \in 1..Len(q) : i > Len(p) => q[i].id = n + (i - Len(p)) - 1
  BY <1>1, <1>2 DEF NumberedFrom
<1>6. \A i \in 1..Len(q) : i <= Len(p) => q[i] = p[i] /\ i \in 1..Len(p)
  BY <1>1, <1>2
<1> HIDE DEF q
<1>7. \A i, j \in 1..Len(q) : i < j => q[i].id < q[j].id
  <2> SUFFICES ASSUME NEW i \in 1..Len(q), NEW j \in 1..Len(q), i < j
               PROVE  q[i].id < q[j].id
    OBVIOUS
  <2>1. CASE j <= Len(p)
    <3>1. i <= Len(p)
      BY <1>1, <2>1
    <3>2. q[i] = p[i] /\ q[j] = p[j] /\ i \in 1..Len(p) /\ j \in 1..Len(p)
      BY <1>6, <2>1, <3>1
    <3> QED
      BY <3>2 DEF Ordered
  <2>2. CASE i <= Len(p) /\ j > Len(p)
    <3>1. q[i].id \in Nat /\ q[i].id < n
      BY <1>3, <1>6, <2>2
    <3>2. q[j].id = n + (j - Len(p)) - 1
      BY <1>5, <2>2
    <3> QED
      BY <1>1, <2>2, <3>1, <3>2
  <2>3. CASE i > Len(p)
    <3>1. j > Len(p)
      BY <1>1, <2>3
    <3>2. q[i].id = n + (i - Len(p)) - 1 /\ q[j].id = n + (j - Len(p)) - 1
      BY <1>5, <2>3, <3>1
    <3> QED
      BY <1>1, <3>2
  <2> QED
    BY <1>1, <2>1, <2>2, <2>3
<1>8. \A i \in 1..Len(a), j \in 1..Len(q) : a[i].command < q[j].id
  <2> SUFFICES ASSUME NEW i \in 1..Len(a), NEW j \in 1..Len(q)
               PROVE  a[i].command < q[j].id
    OBVIOUS
  <2>1. CASE j <= Len(p)
    BY <1>6, <2>1 DEF Ordered
  <2>2. CASE j > Len(p)
    BY <1>1, <1>4, <1>5, <2>2
  <2> QED
    BY <1>1, <2>1, <2>2
<1>9. \A i \in 1..Len(q) : q[i].id < n + Len(cs)
  <2> SUFFICES ASSUME NEW i \in 1..Len(q) PROVE q[i].id < n + Len(cs)
    OBVIOUS
  <2>1. CASE i <= Len(p)
    BY <1>1, <1>3, <1>6, <2>1
  <2>2. CASE i > Len(p)
    BY <1>1, <1>5, <2>2
  <2> QED
    BY <1>1, <2>1, <2>2
<1>10. \A i \in 1..Len(a) : a[i].command < n + Len(cs)
  BY <1>1, <1>4
<1> QED
  BY <1>7, <1>8, <1>9, <1>10 DEF Ordered, q

(* Dropping commands at either end keeps the order.                        *)
LEMMA OrderedDrop ==
    ASSUME NEW a \in Seq(Answer), NEW p \in Seq(Command), NEW n \in Nat,
           NEW q \in Seq(Command), NEW k \in Nat, PartOf(q, p, k), Ordered(a, p, n)
    PROVE  Ordered(a, q, n)
<1>1. \A i \in 1..Len(q) : i + k \in 1..Len(p) /\ q[i] = p[i + k]
  BY DEF PartOf
<1>2. \A i, j \in 1..Len(q) : i < j => q[i].id < q[j].id
  <2> SUFFICES ASSUME NEW i \in 1..Len(q), NEW j \in 1..Len(q), i < j
               PROVE  q[i].id < q[j].id
    OBVIOUS
  <2>1. i + k < j + k
    BY DEF PartOf
  <2>2. /\ i + k \in 1..Len(p) /\ j + k \in 1..Len(p)
        /\ q[i] = p[i + k] /\ q[j] = p[j + k]
    BY <1>1
  <2>3. p[i + k].id < p[j + k].id
    BY <2>1, <2>2 DEF Ordered
  <2> QED
    BY <2>2, <2>3
<1>3. \A i \in 1..Len(a), j \in 1..Len(q) : a[i].command < q[j].id
  BY <1>1 DEF Ordered
<1>4. \A i \in 1..Len(q) : q[i].id < n
  BY <1>1 DEF Ordered
<1> QED
  BY <1>2, <1>3, <1>4 DEF Ordered

(* ... and so does answering the first of them.                            *)
LEMMA OrderedAnswer ==
    ASSUME NEW a \in Seq(Answer), NEW p \in Seq(Command), NEW n \in Nat,
           NEW q \in Seq(Command), NEW k \in Nat, k > 0, PartOf(q, p, k),
           Ordered(a, p, n), NEW r \in Answer, p # <<>>, r.command = p[1].id
    PROVE  Ordered(Append(a, r), q, n)
<1> DEFINE b == Append(a, r)
<1>1. Len(b) = Len(a) + 1 /\ Len(a) \in Nat /\ b[Len(b)] = r
      /\ \A i \in 1..Len(a) : b[i] = a[i]
  OBVIOUS
<1>2. 1 \in 1..Len(p)
  BY EmptySeq
<1>3. \A i \in 1..Len(q) : i + k \in 1..Len(p) /\ 1 < i + k /\ q[i] = p[i + k]
  BY DEF PartOf
<1> HIDE DEF b
<1>4. \A i \in 1..Len(b) : i \in 1..Len(a) \/ i = Len(b)
  BY <1>1
<1>5. \A i, j \in 1..Len(b) : i < j => b[i].command < b[j].command
  <2> SUFFICES ASSUME NEW i \in 1..Len(b), NEW j \in 1..Len(b), i < j
               PROVE  b[i].command < b[j].command
    OBVIOUS
  <2>1. i \in 1..Len(a)
    BY <1>1
  <2>2. CASE j \in 1..Len(a)
    BY <1>1, <2>1, <2>2 DEF Ordered
  <2>3. CASE j = Len(b)
    BY <1>1, <1>2, <2>1, <2>3 DEF Ordered
  <2> QED
    BY <1>4, <2>2, <2>3
<1>6. \A i, j \in 1..Len(q) : i < j => q[i].id < q[j].id
  <2> SUFFICES ASSUME NEW i \in 1..Len(q), NEW j \in 1..Len(q), i < j
               PROVE  q[i].id < q[j].id
    OBVIOUS
  <2>1. i + k < j + k
    BY DEF PartOf
  <2>2. i + k \in 1..Len(p) /\ j + k \in 1..Len(p)
    BY <1>3
  <2>3. p[i + k].id < p[j + k].id
    BY <2>1, <2>2 DEF Ordered
  <2> QED
    BY <1>3, <2>3
<1>7. \A i \in 1..Len(b), j \in 1..Len(q) : b[i].command < q[j].id
  <2> SUFFICES ASSUME NEW i \in 1..Len(b), NEW j \in 1..Len(q)
               PROVE  b[i].command < q[j].id
    OBVIOUS
  <2>1. CASE i \in 1..Len(a)
    BY <1>1, <1>3, <2>1 DEF Ordered
  <2>2. CASE i = Len(b)
    BY <1>1, <1>2, <1>3, <2>2 DEF Ordered
  <2> QED
    BY <1>4, <2>1, <2>2
<1>8. \A i \in 1..Len(b) : b[i].command < n
  <2>1. r.command < n
    BY <1>2 DEF Ordered
  <2>2. \A i \in 1..Len(a) : a[i].command < n
    BY DEF Ordered
  <2> QED
    BY <1>1, <1>4, <2>1, <2>2
<1>9. \A i \in 1..Len(q) : q[i].id < n
  BY <1>3 DEF Ordered
<1> QED
  BY <1>5, <1>6, <1>7, <1>8, <1>9 DEF Ordered, b

-----------------------------------------------------------------------------
(* Lemmas about what an engine's operations make of its pending commands.  *)

LEMMA PendingType ==
    ASSUME NEW e \in Engine
    PROVE  /\ e.started \in Seq(Command) /\ e.queued \in Seq(Command)
           /\ Pending(e) \in Seq(Command)
           /\ Len(Pending(e)) = Len(e.started) + Len(e.queued)
BY DEF Engine, Pending

LEMMA PartOfItself ==
    ASSUME NEW p \in Seq(Command)
    PROVE  PartOf(p, p, 0)
BY DEF PartOf

LEMMA NoPart ==
    ASSUME NEW p \in Seq(Command)
    PROVE  PartOf(<<>>, p, Len(p))
BY DEF PartOf

LEMMA TailIsPart ==
    ASSUME NEW p \in Seq(Command), p # <<>>
    PROVE  Tail(p) \in Seq(Command) /\ PartOf(Tail(p), p, 1)
BY HeadTailProperties, EmptySeq DEF PartOf

(* The head of the queue goes in flight, or is lost without a channel.     *)
LEMMA IssueHeadPending ==
    ASSUME NEW e \in Engine, e.started = <<>>, e.queued # <<>>, e.connected
    PROVE  Pending(IssueHead(e)) = Pending(e) /\ IssueHead(e).started # <<>>
<1> DEFINE c == Head(e.queued)
<1>1. /\ e.queued \in Seq(Command) /\ c \in Command /\ Tail(e.queued) \in Seq(Command)
      /\ e.queued = <<c>> \o Tail(e.queued)
  BY DEF Engine
<1>2. IssueHead(e) = [e EXCEPT !.started = Append(e.started, c), !.line_busy = TRUE,
                               !.wire = Append(e.wire, c), !.queued = Tail(e.queued)]
  BY DEF IssueHead, Issue, Engine
<1>3. IssueHead(e).started = <<c>> /\ IssueHead(e).queued = Tail(e.queued)
  BY <1>2 DEF Engine
<1>4. Pending(e) = e.queued
  BY <1>1 DEF Pending
<1> QED
  BY <1>1, <1>3, <1>4 DEF Pending

LEMMA Joined ==
    \A s, t \in Seq(Command) :
        /\ s \o t \in Seq(Command) /\ Len(s \o t) = Len(s) + Len(t)
        /\ \A i \in 1..Len(s) + Len(t) : (s \o t)[i] = IF i <= Len(s) THEN s[i] ELSE t[i - Len(s)]
<1> TAKE s, t \in Seq(Command)
<1> QED
  BY ConcatProperties

LEMMA JoinedNumbers ==
    \A s, t \in Seq(Nat) :
        /\ s \o t \in Seq(Nat) /\ Len(s \o t) = Len(s) + Len(t)
        /\ \A i \in 1..Len(s) + Len(t) : (s \o t)[i] = IF i <= Len(s) THEN s[i] ELSE t[i - Len(s)]
<1> TAKE s, t \in Seq(Nat)
<1> QED
  BY ConcatProperties

LEMMA PendingAt ==
    ASSUME NEW s \in Seq(Command), NEW t \in Seq(Command), NEW p, p = s \o t
    PROVE  /\ Len(p) = Len(s) + Len(t) /\ Len(s) \in Nat /\ Len(t) \in Nat
           /\ \A i \in 1..Len(p) : p[i] = IF i <= Len(s) THEN s[i] ELSE t[i - Len(s)]
OBVIOUS

LEMMA StartIsPart ==
    \A s, t \in Seq(Command) : PartOf(s, s \o t, 0)
<1> TAKE s, t \in Seq(Command)
<1>1. /\ Len(s \o t) = Len(s) + Len(t) /\ Len(s) \in Nat /\ Len(t) \in Nat
      /\ \A i \in 1..Len(s) : (s \o t)[i] = s[i]
  OBVIOUS
<1> QED
  BY <1>1 DEF PartOf

LEMMA ThreeParts ==
    \A s, t, u \in Seq(Command) : (s \o t) \o u = s \o (t \o u)
<1> TAKE s, t, u \in Seq(Command)
<1> QED
  BY ConcatAssociative

(* What is queued comes last; without a channel an idle engine drops as    *)
(* many commands as it is given.                                           *)
LEMMA QueueAllPending ==
    ASSUME NEW e \in Engine, NEW cs \in Seq(Command),
           NEW f, f = QueueAll(e, cs)
    PROVE  /\ f.connected = e.connected
           /\ e.started # <<>> => f.started = e.started
           /\ cs = <<>> \/ ~Idle(e) \/ e.connected => Pending(f) = Pending(e) \o cs
           /\ \E k \in Nat : PartOf(Pending(f), Pending(e) \o cs, k)
<1> DEFINE all == e.queued \o cs
<1>1. PICK pushed : pushed = [e EXCEPT !.queued = all]
  OBVIOUS
<1>2. all \in Seq(Command)
  BY DEF Engine
<1>3. /\ pushed \in Engine /\ pushed.started = e.started
      /\ pushed.line_busy = e.line_busy /\ pushed.connected = e.connected
      /\ pushed.queued = all
  BY <1>1, <1>2 DEF Engine
<1>4. Pending(pushed) = Pending(e) \o cs
  <2>1. e.started \in Seq(Command) /\ e.queued \in Seq(Command) /\ cs \in Seq(Command)
    BY PendingType
  <2>2. (e.started \o e.queued) \o cs = e.started \o (e.queued \o cs)
    BY <2>1, ThreeParts, Zenon
  <2> QED
    BY <1>3, <2>2 DEF Pending
<1>5. \E k \in Nat : PartOf(Pending(e) \o cs, Pending(e) \o cs, k)
  <2>1. Pending(e) \o cs \in Seq(Command)
    BY PendingType, ConcatProperties, Zenon
  <2>2. PartOf(Pending(e) \o cs, Pending(e) \o cs, 0)
    BY <2>1, PartOfItself
  <2> QED
    BY <2>2
<1>6. CASE cs = <<>>
  <2>1. f = e
    BY <1>6 DEF QueueAll
  <2>2. Pending(e) \o cs = Pending(e)
    BY <1>6, PendingType, ConcatEmptySeq
  <2> QED
    BY <1>5, <2>1, <2>2
<1>7. CASE cs # <<>> /\ ~Idle(e)
  <2>1. f = pushed
    BY <1>1, <1>7 DEF QueueAll
  <2> QED
    BY <1>3, <1>4, <1>5, <2>1
<1>8. CASE cs # <<>> /\ Idle(e) /\ e.connected
  <2>1. f = IssueHead(pushed) /\ e.started = <<>>
    BY <1>1, <1>8 DEF QueueAll, Idle
  <2>2. pushed.queued # <<>>
    BY <1>3, <1>8 DEF Engine
  <2>3. Pending(f) = Pending(pushed)
    BY <1>3, <1>8, <2>1, <2>2, IssueHeadPending
  <2>4. f.connected = e.connected
    BY <1>3, <2>1 DEF IssueHead, Issue, Engine
  <2> QED
    BY <1>4, <1>5, <2>1, <2>3, <2>4
<1>9. CASE cs # <<>> /\ Idle(e) /\ ~e.connected
  <2>1. PICK rest : rest = SubSeq(all, Len(cs) + 1, Len(all))
    OBVIOUS
  <2>2. f = [e EXCEPT !.queued = rest]
    BY <1>9, <2>1 DEF QueueAll
  <2>3. e.started = <<>> /\ f.started = <<>> /\ f.queued = rest /\ f.connected = e.connected
    BY <1>9, <2>2 DEF Idle, Engine
  <2>4. /\ rest \in Seq(Command) /\ Len(rest) + Len(cs) = Len(all)
        /\ \A i \in 1..Len(rest) : rest[i] = all[i + Len(cs)]
    <3>1. Len(all) = Len(e.queued) + Len(cs) /\ Len(cs) \in Nat /\ Len(e.queued) \in Nat
      BY DEF Engine
    <3> HIDE DEF all
    <3> QED
      BY <1>2, <2>1, <3>1
  <2>5. Pending(f) = rest /\ Pending(e) \o cs = all
    BY <2>3, <2>4, PendingType DEF Pending
  <2>6. PartOf(rest, all, Len(cs)) /\ Len(cs) \in Nat
    <3>1. Len(cs) \in Nat /\ Len(all) \in Nat /\ Len(rest) \in Nat
      BY <1>2, <2>4
    <3> HIDE DEF all
    <3> QED
      BY <2>4, <3>1 DEF PartOf
  <2> HIDE DEF all
  <2> QED
    BY <1>9, <2>3, <2>5, <2>6
<1> QED
  BY <1>6, <1>7, <1>8, <1>9

(* The command in flight ends, and the next one takes its place.           *)
LEMMA NextCommandPending ==
    ASSUME NEW e \in Engine, NEW ex \in BOOLEAN, LineOK(e, ex), e.connected
    PROVE  Pending(NextCommand(e)) =
             IF e.started = <<>> THEN Pending(e) ELSE Tail(Pending(e))
<1>1. PICK freed : freed = IF e.started = <<>> THEN e
                           ELSE [e EXCEPT !.started = Tail(@), !.line_busy = FALSE]
  OBVIOUS
<1>2. e.started \in Seq(Command) /\ e.queued \in Seq(Command) /\ Len(e.started) <= 1
  BY PendingType DEF LineOK
<1>3. /\ freed \in Engine /\ freed.started = <<>> /\ freed.connected
      /\ freed.queued = e.queued
  <2>1. CASE e.started = <<>>
    BY <1>1, <2>1
  <2>2. CASE e.started # <<>>
    <3>1. Tail(e.started) = <<>> /\ <<>> \in Seq(Command)
      BY <1>2, <2>2, OneElement
    <3>2. freed = [e EXCEPT !.started = <<>>, !.line_busy = FALSE]
      BY <1>1, <2>2, <3>1
    <3> QED
      BY <3>1, <3>2 DEF Engine
  <2> QED
    BY <2>1, <2>2
<1>4. Pending(freed) = IF e.started = <<>> THEN Pending(e) ELSE Tail(Pending(e))
  <2>1. Pending(freed) = e.queued
    BY <1>2, <1>3, ConcatEmptySeq DEF Pending
  <2>2. CASE e.started = <<>>
    BY <1>2, <2>1, <2>2, ConcatEmptySeq DEF Pending
  <2>3. CASE e.started # <<>>
    <3>1. PICK c : e.started = <<c>> /\ c \in Command
      <4>1. e.started = <<Head(e.started)>> /\ Head(e.started) \in Command
        BY <1>2, <2>3, OneElement, HeadTailProperties
      <4> QED
        BY <4>1
    <3>2. Tail(<<c>> \o e.queued) = e.queued
      BY <1>2, <3>1
    <3> QED
      BY <2>1, <2>3, <3>1, <3>2 DEF Pending
  <2> QED
    BY <2>2, <2>3
<1>5. NextCommand(e) = IF Idle(freed) /\ freed.queued # <<>> THEN IssueHead(freed) ELSE freed
  BY <1>1 DEF NextCommand
<1>6. freed.queued # <<>> => Pending(IssueHead(freed)) = Pending(freed)
  BY <1>3, IssueHeadPending
<1> QED
  BY <1>4, <1>5, <1>6

(* A record with the answer to a command takes it off; a detach drops all. *)
Ends(r) == HasResult(r) \/ ~r.parses

LEMMA HandleRecordPending ==
    ASSUME NEW e \in Engine, NEW ex \in BOOLEAN, LineOK(e, ex), e.connected,
           NEW r, NEW cs \in Seq(Command), DetachDone(e, r) => cs = <<>>,
           NEW f, f = HandleRecord(e, r, cs)
    PROVE  Pending(f) = IF DetachDone(e, r) THEN <<>>
                        ELSE IF Ends(r) /\ QueueAll(e, cs).started # <<>> THEN Tail(Pending(e) \o cs)
                        ELSE Pending(e) \o cs
<1>1. CASE DetachDone(e, r)
  <2>1. PICK kept : kept = ResetCommandQueue(e)
    OBVIOUS
  <2>2. kept \in Engine /\ LineOK(kept, ex) /\ kept.connected
        /\ kept.started = <<>> /\ kept.queued = <<>>
    <3>1. kept \in Engine /\ LineOK(kept, ex)
      BY <2>1, ResetLine
    <3> QED
      BY <2>1, <3>1 DEF ResetCommandQueue, Engine
  <2>3. QueueAll(kept, cs) = kept
    BY <1>1 DEF QueueAll
  <2>4. f = IF HasResult(r) \/ ~r.parses THEN NextCommand(kept) ELSE kept
    BY <1>1, <2>1, <2>3 DEF HandleRecord
  <2>5. Pending(kept) = <<>>
    BY <2>2 DEF Pending
  <2>6. Pending(NextCommand(kept)) = Pending(kept)
    BY <2>2, NextCommandPending
  <2> QED
    BY <1>1, <2>4, <2>5, <2>6
<1>2. CASE ~DetachDone(e, r)
  <2>1. PICK handled : handled = QueueAll(e, cs)
    OBVIOUS
  <2>2. handled \in Engine /\ LineOK(handled, ex)
    BY <2>1, QueueAllLine
  <2>3. handled.connected /\ Pending(handled) = Pending(e) \o cs
    BY <2>1, QueueAllPending
  <2>4. f = IF Ends(r) THEN NextCommand(handled) ELSE handled
    BY <1>2, <2>1 DEF HandleRecord, Ends
  <2>5. Pending(NextCommand(handled)) =
          IF handled.started = <<>> THEN Pending(handled) ELSE Tail(Pending(handled))
    BY <2>2, <2>3, NextCommandPending
  <2> QED
    BY <1>2, <2>1, <2>3, <2>4, <2>5
<1> QED
  BY <1>1, <1>2

-----------------------------------------------------------------------------
(* Order: what is answered, in flight and waiting, from the oldest on.     *)

OrderInv == LineInv /\ Ordered(answered, Pending(eng), nextId)

LEMMA InitOrder == Init => OrderInv
<1> SUFFICES ASSUME Init PROVE OrderInv
  OBVIOUS
<1>1. LineInv
  BY InitLine
<1>2. answered = <<>> /\ eng.started = <<>> /\ eng.queued = <<>>
  BY DEF Init
<1>3. Pending(eng) = <<>>
  BY <1>2 DEF Pending
<1> QED
  BY <1>1, <1>2, <1>3 DEF OrderInv, Ordered

LEMMA OrderedLaunch ==
    ASSUME OrderInv, NEW e \in Engine, NEW k \in Nat, PartOf(Pending(e), Pending(eng), k),
           NEW cs \in Bursts(1), LaunchGdb(e, cs)
    PROVE  Ordered(answered, Pending(eng)', nextId')
<1>1. nextId \in Nat \ {0} /\ answered \in Seq(Answer) /\ eng \in Engine
  BY DEF OrderInv, LineInv, TypeOK, Answer
<1>2. cs \in Seq(Command) /\ NumberedFrom(cs, nextId)
  BY <1>1, BurstType, BurstNumbers
<1>3. PICK fresh : fresh = [e EXCEPT !.connected = TRUE, !.wire = <<>>]
  OBVIOUS
<1>4. fresh \in Engine /\ Pending(fresh) = Pending(e) /\ fresh.connected
  <2>1. <<>> \in Seq(Command \union {Quit})
    OBVIOUS
  <2> QED
    BY <1>3, <2>1 DEF Engine, Pending
<1>5. Pending(eng)' = Pending(e) \o cs /\ nextId' = nextId + Len(cs)
  <2>1. eng' = QueueAll(fresh, cs) /\ nextId' = nextId + Len(cs)
    BY <1>3 DEF LaunchGdb
  <2>2. Pending(eng') = Pending(fresh) \o cs
    BY <1>2, <1>4, <2>1, QueueAllPending
  <2> QED
    BY <1>4, <2>1, <2>2 DEF Pending
<1>6. Pending(e) \in Seq(Command) /\ Pending(eng) \in Seq(Command)
  BY <1>1, PendingType
<1>7. Ordered(answered, Pending(e), nextId)
  BY <1>1, <1>6, OrderedDrop DEF OrderInv
<1> QED
  BY <1>1, <1>2, <1>5, <1>6, <1>7, OrderedQueue

LEMMA StepOrder == OrderInv /\ [Next]_vars => OrderInv'
<1> SUFFICES ASSUME OrderInv, [Next]_vars PROVE Ordered(answered', Pending(eng'), nextId')
  BY StepLine DEF OrderInv, Pending
<1>0. /\ nextId \in Nat \ {0} /\ eng \in Engine /\ exiting \in BOOLEAN
      /\ answered \in Seq(Answer) /\ out \in Seq(Record)
      /\ LineOK(eng, exiting) /\ Ordered(answered, Pending(eng), nextId)
  BY DEF OrderInv, LineInv, TypeOK, Answer
<1>a. Pending(eng) \in Seq(Command)
  BY <1>0, PendingType
<1>1. CASE ClientQueues
  <2>1. PICK cs \in Bursts(1) : eng' = QueueAll(eng, cs) /\ nextId' = nextId + Len(cs)
    BY <1>1 DEF ClientQueues
  <2>2. cs \in Seq(Command) /\ NumberedFrom(cs, nextId) /\ Len(cs) \in Nat
    BY <1>0, BurstType, BurstNumbers
  <2>3. eng' \in Engine
    BY <1>0, <2>1, <2>2, QueueAllLine
  <2>4. PICK k \in Nat : PartOf(Pending(eng'), Pending(eng) \o cs, k)
    BY <1>0, <2>1, <2>2, QueueAllPending
  <2>5. Ordered(answered, Pending(eng) \o cs, nextId + Len(cs))
    BY <1>0, <1>a, <2>2, OrderedQueue
  <2>6. Pending(eng') \in Seq(Command) /\ Pending(eng) \o cs \in Seq(Command)
        /\ nextId + Len(cs) \in Nat
    <3>1. Pending(eng') \in Seq(Command)
      BY <2>3, PendingType
    <3>2. Pending(eng) \o cs \in Seq(Command)
      BY <1>a, <2>2, Joined, Zenon
    <3> QED
      BY <1>0, <2>2, <3>1, <3>2
  <2>7. Ordered(answered, Pending(eng'), nextId + Len(cs))
    BY <1>0, <2>4, <2>5, <2>6, OrderedDrop
  <2> QED
    BY <1>1, <2>1, <2>7 DEF ClientQueues
<1>2. ASSUME NEW force \in Forces, LoadProgram(force)
      PROVE  Ordered(answered', Pending(eng'), nextId')
  <2>1. PICK e : e = IF force THEN ResetCommandQueue(eng) ELSE eng
    OBVIOUS
  <2>2. PICK cs \in Bursts(1) : LaunchGdb(e, cs)
    BY <1>2, <2>1 DEF LoadProgram
  <2>3. e \in Engine
    BY <1>0, <2>1, ResetLine
  <2>4. \E k \in Nat : PartOf(Pending(e), Pending(eng), k)
    <3>1. CASE force
      <4>1. Pending(e) = <<>>
        <5>1. e.started = <<>> /\ e.queued = <<>>
          BY <1>0, <2>1, <3>1 DEF ResetCommandQueue, Engine
        <5> QED
          BY <5>1 DEF Pending
      <4>2. PartOf(Pending(e), Pending(eng), Len(Pending(eng))) /\ Len(Pending(eng)) \in Nat
        BY <1>a, <4>1, NoPart
      <4> QED
        BY <4>2
    <3>2. CASE ~force
      <4>1. PartOf(Pending(e), Pending(eng), 0)
        BY <1>a, <2>1, <3>2, PartOfItself
      <4> QED
        BY <4>1
    <3> QED
      BY <3>1, <3>2
  <2>5. Ordered(answered, Pending(eng)', nextId')
    BY <2>2, <2>3, <2>4, OrderedLaunch
  <2> QED
    BY <2>2, <2>5 DEF LaunchGdb, Pending
<1>3. CASE AttachToTarget
  <2>1. PICK cs \in Bursts(1) : LaunchGdb(eng, cs)
    BY <1>3 DEF AttachToTarget
  <2>2. PartOf(Pending(eng), Pending(eng), 0)
    BY <1>a, PartOfItself
  <2>3. Ordered(answered, Pending(eng)', nextId')
    BY <1>0, <2>1, <2>2, OrderedLaunch
  <2> QED
    BY <2>1, <2>3 DEF LaunchGdb, Pending
<1>4. CASE ExitEngine
  <2>1. eng'.started = eng.started /\ eng'.queued = <<>>
    BY <1>0, <1>4 DEF ExitEngine, Issue, Engine
  <2>2. Pending(eng') = eng.started /\ eng.started \in Seq(Command) /\ eng.queued \in Seq(Command)
    BY <1>0, <2>1, PendingType, ConcatEmptySeq DEF Pending
  <2>3. PartOf(eng.started, Pending(eng), 0)
    BY <2>2, StartIsPart, Zenon DEF Pending
  <2>4. Ordered(answered, eng.started, nextId)
    BY <1>0, <1>a, <2>2, <2>3, OrderedDrop
  <2> QED
    BY <1>4, <2>2, <2>4 DEF ExitEngine
<1>5. CASE OnOutputRecord
  <2>1. PICK cs \in Bursts(0) :
          /\ DetachDone(eng, Head(out)) => cs = <<>>
          /\ eng' = HandleRecord(eng, Head(out), cs) /\ nextId' = nextId + Len(cs)
    BY <1>5 DEF OnOutputRecord
  <2>2. cs \in Seq(Command) /\ NumberedFrom(cs, nextId) /\ Len(cs) \in Nat
    BY <1>0, BurstType, BurstNumbers
  <2>3. PICK r : r = Head(out) /\ r \in Record
    BY <1>0, <1>5 DEF OnOutputRecord
  <2>4. PICK p : p = Pending(eng) \o cs /\ p \in Seq(Command)
    <3>1. Pending(eng) \o cs \in Seq(Command)
      BY <1>a, <2>2, Joined, Zenon
    <3> QED
      BY <3>1
  <2>5. Ordered(answered, p, nextId')
    BY <1>0, <1>a, <2>1, <2>2, <2>4, OrderedQueue
  <2>6. /\ eng.connected
        /\ Pending(eng') = IF DetachDone(eng, r) THEN <<>>
                           ELSE IF Ends(r) /\ QueueAll(eng, cs).started # <<>> THEN Tail(p)
                           ELSE p
    <3>1. eng.connected
      BY <1>5 DEF OnOutputRecord
    <3>2. DetachDone(eng, r) => cs = <<>>
      BY <2>1, <2>3
    <3>3. eng' = HandleRecord(eng, r, cs)
      BY <2>1, <2>3
    <3>4. Pending(eng') = IF DetachDone(eng, r) THEN <<>>
                          ELSE IF Ends(r) /\ QueueAll(eng, cs).started # <<>>
                               THEN Tail(Pending(eng) \o cs)
                          ELSE Pending(eng) \o cs
      BY <1>0, <2>2, <3>1, <3>2, <3>3, HandleRecordPending
    <3> QED
      BY <2>4, <3>1, <3>4
  <2>7. /\ nextId' \in Nat /\ answered' = answered \o Told(eng, r)
        /\ Len(p) \in Nat /\ Len(p) = 0 => p = <<>>
    BY <1>0, <1>5, <2>1, <2>2, <2>3, <2>4, EmptySeq DEF OnOutputRecord
  <2>8. CASE eng.started = <<>> \/ ~Ends(r)
    <3>1. answered' = answered
      <4>1. Told(eng, r) = <<>>
        BY <2>8 DEF Told, Ends
      <4> QED
        BY <1>0, <2>7, <4>1
    <3>2. ~DetachDone(eng, r)
      BY <2>8 DEF DetachDone, Ends
    <3>3. CASE Pending(eng') = p
      BY <2>5, <3>1, <3>3
    <3>4. CASE Pending(eng') # p
      <4>1. Pending(eng') = Tail(p) /\ p # <<>>
        <5>1. Pending(eng') = Tail(p) /\ QueueAll(eng, cs).started # <<>>
          BY <2>6, <3>2, <3>4
        <5>2. Pending(QueueAll(eng, cs)) = p
          BY <1>0, <2>2, <2>4, <2>6, QueueAllPending
        <5>3. QueueAll(eng, cs) \in Engine
          BY <1>0, <2>2, QueueAllLine
        <5>4. p # <<>>
          BY <5>1, <5>2, <5>3 DEF Pending, Engine
        <5> QED
          BY <5>1, <5>4
      <4>2. Tail(p) \in Seq(Command) /\ PartOf(Tail(p), p, 1)
        BY <2>4, <4>1, TailIsPart
      <4>3. Ordered(answered, Tail(p), nextId')
        BY <1>0, <2>4, <2>5, <2>7, <4>2, OrderedDrop
      <4> QED
        BY <3>1, <4>1, <4>3
    <3> QED
      BY <3>3, <3>4
  <2>9. CASE eng.started # <<>> /\ Ends(r)
    <3>1. PICK a : a = [command |-> Head(eng.started).id,
                        reply |-> IF HasResult(r) THEN r.of.id ELSE 0]
      OBVIOUS
    <3>2. eng.started \in Seq(Command) /\ eng.queued \in Seq(Command)
      BY <1>0, PendingType
    <3>3. a \in Answer
      <4>1. Head(eng.started).id \in Nat
        BY <2>9, <3>2, CommandIds
      <4>2. r.of.id \in Nat
        BY <2>3, CommandIds DEF Record
      <4> QED
        BY <3>1, <4>1, <4>2 DEF Answer
    <3>4. answered' = Append(answered, a)
      <4>1. Told(eng, r) = <<a>>
        BY <2>9, <3>1 DEF Told, Ends
      <4> QED
        BY <1>0, <2>7, <3>3, <4>1, AppendOne
    <3>5. p # <<>> /\ a.command = p[1].id
      <4>1. Len(eng.started) \in Nat \ {0}
        BY <2>9, <3>2, EmptySeq
      <4>2. Pending(eng)[1] = eng.started[1] /\ Len(Pending(eng)) \in Nat \ {0}
        <5>1. PICK m, n : m = Len(eng.started) /\ n = Len(eng.queued)
          OBVIOUS
        <5>2. Pending(eng) = eng.started \o eng.queued
          BY DEF Pending
        <5>3. Len(Pending(eng)) = m + n /\ m \in Nat /\ n \in Nat
          BY <3>2, <5>1, <5>2, PendingAt
        <5>4. \A i \in 1..Len(Pending(eng)) : Pending(eng)[i] =
                IF i <= m THEN eng.started[i] ELSE eng.queued[i - m]
          BY <3>2, <5>1, <5>2, PendingAt
        <5>5. m >= 1 /\ 1 \in 1..Len(Pending(eng))
          <6>1. m \in Nat \ {0}
            BY <4>1, <5>1
          <6>2. 1 \in 1..(m + n)
            BY <5>3, <6>1
          <6> QED
            BY <5>3, <6>1, <6>2
        <5>6. Pending(eng)[1] = eng.started[1]
          BY <5>4, <5>5
        <5> QED
          BY <5>3, <5>5, <5>6
      <4>3. p[1] = eng.started[1] /\ Len(p) \in Nat \ {0}
        <5>1. Len(p) = Len(Pending(eng)) + Len(cs)
              /\ \A i \in 1..Len(Pending(eng)) + Len(cs) : p[i] =
                    IF i <= Len(Pending(eng)) THEN Pending(eng)[i] ELSE cs[i - Len(Pending(eng))]
          BY <1>a, <2>2, <2>4, Joined
        <5> QED
          BY <2>2, <4>2, <5>1
      <4>4. p # <<>>
        BY <4>3
      <4> QED
        BY <3>1, <3>2, <4>1, <4>3, <4>4
    <3>6. CASE DetachDone(eng, r)
      <4>1. Pending(eng') = <<>>
        BY <2>6, <3>6
      <4>2. <<>> \in Seq(Command) /\ PartOf(<<>>, p, Len(p))
        <5>1. <<>> \in Seq(Command)
          OBVIOUS
        <5>2. PartOf(<<>>, p, Len(p))
          BY <2>4, NoPart
        <5> QED
          BY <5>1, <5>2
      <4>3. Len(p) \in Nat /\ Len(p) > 0
        BY <2>7, <3>5
      <4>4. Ordered(Append(answered, a), <<>>, nextId')
        BY <1>0, <2>4, <2>5, <2>7, <3>3, <3>5, <4>2, <4>3, OrderedAnswer
      <4> QED
        BY <3>4, <4>1, <4>4
    <3>7. CASE ~DetachDone(eng, r)
      <4>1. Pending(eng') = Tail(p)
        <5>1. QueueAll(eng, cs).started # <<>>
          BY <1>0, <2>2, <2>9, QueueAllPending
        <5> QED
          BY <2>6, <2>9, <3>7, <5>1
      <4>2. Tail(p) \in Seq(Command) /\ PartOf(Tail(p), p, 1)
        BY <2>4, <3>5, TailIsPart
      <4>3. PICK k : k = 1 /\ k \in Nat /\ k > 0
        OBVIOUS
      <4>4. PICK q : q = Tail(p)
        OBVIOUS
      <4>5. Ordered(Append(answered, a), q, nextId')
        BY <1>0, <2>4, <2>5, <2>7, <3>3, <3>5, <4>2, <4>3, <4>4, OrderedAnswer
      <4> QED
        BY <3>4, <4>1, <4>4, <4>5
    <3> QED
      BY <3>6, <3>7
  <2> QED
    BY <2>8, <2>9
<1>6. CASE OnHup \/ GdbAnswers \/ InferiorStops \/ GdbDies \/ UNCHANGED vars
  <2>1. answered' = answered /\ nextId' = nextId
    BY <1>6 DEF OnHup, GdbAnswers, InferiorStops, GdbDies, vars
  <2>2. eng'.started = eng.started /\ eng'.queued = eng.queued
    BY <1>0, <1>6 DEF OnHup, GdbAnswers, InferiorStops, GdbDies, vars, Engine
  <2> QED
    BY <1>0, <2>1, <2>2 DEF Pending
<1> QED
  BY <1>1, <1>2, <1>3, <1>4, <1>5, <1>6 DEF Next, Load

(* Whatever GDB prints, however often it dies, restarts or is told to      *)
(* exit: commands are answered in the order they were queued in, each one  *)
(* once, and the one in flight is older than those that wait.              *)
THEOREM AnsweredInOrder == Spec => []FirstInFirstOut
<1>1. OrderInv => FirstInFirstOut
  <2> SUFFICES ASSUME OrderInv, NEW i \in 1..Len(History), NEW j \in 1..Len(History), i < j
               PROVE  History[i] < History[j]
    BY DEF FirstInFirstOut
  <2>1. /\ eng \in Engine /\ answered \in Seq(Answer)
        /\ Ordered(answered, Pending(eng), nextId)
    BY DEF OrderInv, LineInv, TypeOK, Answer
  <2>2. PICK s, q : s = eng.started /\ q = eng.queued /\ s \in Seq(Command) /\ q \in Seq(Command)
    BY <2>1, PendingType
  <2>3. PICK a : a = [k \in 1..Len(answered) |-> answered[k].command]
    OBVIOUS
  <2>4. /\ a \in Seq(Nat) /\ Len(a) = Len(answered) /\ Len(a) \in Nat
        /\ Ids(s) \in Seq(Nat) /\ Len(Ids(s)) = Len(s) /\ Len(s) \in Nat
        /\ Ids(q) \in Seq(Nat) /\ Len(Ids(q)) = Len(q) /\ Len(q) \in Nat
    <3>1. \A k \in 1..Len(answered) : answered[k].command \in Nat
      <4>1. \A k \in 1..Len(answered) : answered[k] \in Answer
        BY <2>1
      <4> QED
        BY <4>1 DEF Answer
    <3>2. \A k \in 1..Len(s) : s[k].id \in Nat
      BY <2>2, CommandIds
    <3>3. \A k \in 1..Len(q) : q[k].id \in Nat
      BY <2>2, CommandIds
    <3> QED
      BY <2>1, <2>2, <2>3, <3>1, <3>2, <3>3 DEF Ids
  <2>5. History = (a \o Ids(s)) \o Ids(q)
    BY <2>2, <2>3 DEF History
  <2>6. Len(History) = Len(answered) + Len(s) + Len(q)
    <3>1. /\ a \in Seq(Nat) /\ Ids(s) \in Seq(Nat) /\ Ids(q) \in Seq(Nat)
          /\ Len(a) = Len(answered) /\ Len(Ids(s)) = Len(s) /\ Len(Ids(q)) = Len(q)
      BY <2>4
    <3>2. PICK b : b = a \o Ids(s)
      OBVIOUS
    <3>3. b \in Seq(Nat) /\ Len(b) = Len(a) + Len(Ids(s))
      BY <3>1, <3>2, JoinedNumbers, Zenon
    <3>4. Len(b \o Ids(q)) = Len(b) + Len(Ids(q))
      BY <3>1, <3>3, JoinedNumbers, Zenon
    <3> QED
      BY <2>5, <3>1, <3>2, <3>3, <3>4, Zenon
  <2>7. PICK p : p = Pending(eng) /\ Len(p) = Len(s) + Len(q)
                 /\ \A k \in 1..Len(p) : p[k] = IF k <= Len(s) THEN s[k] ELSE q[k - Len(s)]
    <3>1. PICK p : p = Pending(eng) /\ p = s \o q
      BY <2>2 DEF Pending
    <3>2. Len(p) = Len(s) + Len(q)
      BY <2>2, <3>1, PendingAt
    <3>3. \A k \in 1..Len(p) : p[k] = IF k <= Len(s) THEN s[k] ELSE q[k - Len(s)]
      BY <2>2, <3>1, PendingAt
    <3> QED
      BY <3>1, <3>2, <3>3
  <2>8. \A k \in 1..Len(History) :
          History[k] = IF k <= Len(answered) THEN answered[k].command ELSE p[k - Len(answered)].id
    <3> SUFFICES ASSUME NEW k \in 1..Len(History)
                 PROVE  History[k] = IF k <= Len(answered) THEN answered[k].command
                                     ELSE p[k - Len(answered)].id
      OBVIOUS
    <3>1. CASE k <= Len(a)
      BY <2>3, <2>4, <2>5, <2>6, <3>1
    <3>2. CASE k > Len(a) /\ k <= Len(a) + Len(s)
      <4>1. History[k] = Ids(s)[k - Len(a)]
        BY <2>4, <2>5, <2>6, <3>2
      <4>2. k - Len(a) \in 1..Len(s) /\ k - Len(a) \in 1..Len(p)
        BY <2>4, <2>7, <3>2
      <4>3. Ids(s)[k - Len(a)] = s[k - Len(a)].id
        BY <4>2 DEF Ids
      <4>4. p[k - Len(a)] = s[k - Len(a)]
        BY <2>7, <4>2
      <4> QED
        BY <2>4, <3>2, <4>1, <4>3, <4>4
    <3>3. CASE k > Len(a) + Len(s)
      <4>1. History[k] = Ids(q)[k - Len(a) - Len(s)]
        BY <2>4, <2>5, <2>6, <3>3
      <4>2. k - Len(a) - Len(s) \in 1..Len(q) /\ k - Len(a) \in 1..Len(p)
        BY <2>4, <2>6, <2>7, <3>3
      <4>3. Ids(q)[k - Len(a) - Len(s)] = q[k - Len(a) - Len(s)].id
        BY <4>2 DEF Ids
      <4>4. p[k - Len(a)] = q[k - Len(a) - Len(s)]
        <5>1. PICK m : m = k - Len(a) /\ m \in 1..Len(p) /\ ~(m <= Len(s))
          BY <2>4, <3>3, <4>2
        <5>2. p[m] = q[m - Len(s)]
          BY <2>7, <5>1
        <5> QED
          BY <5>1, <5>2
      <4> QED
        BY <2>4, <3>3, <4>1, <4>3, <4>4
    <3> QED
      BY <2>4, <3>1, <3>2, <3>3
  <2>9. Len(answered) \in Nat /\ Len(History) = Len(answered) + Len(p) /\ Len(p) \in Nat
    BY <2>4, <2>6, <2>7
  <2>10. Ordered(answered, p, nextId)
    BY <2>1, <2>7
  <2>11. CASE j <= Len(answered)
    BY <2>8, <2>9, <2>10, <2>11 DEF Ordered
  <2>12. CASE i <= Len(answered) /\ j > Len(answered)
    <3>1. i \in 1..Len(answered) /\ j - Len(answered) \in 1..Len(p)
      BY <2>9, <2>12
    <3> QED
      BY <2>8, <2>9, <2>10, <2>12, <3>1 DEF Ordered
  <2>13. CASE i > Len(answered)
    <3>1. i - Len(answered) \in 1..Len(p) /\ j - Len(answered) \in 1..Len(p)
          /\ i - Len(answered) < j - Len(answered) /\ j > Len(answered)
      BY <2>9, <2>13
    <3>2. p[i - Len(answered)].id < p[j - Len(answered)].id
      BY <2>10, <3>1 DEF Ordered
    <3> QED
      BY <2>8, <2>9, <2>13, <3>1, <3>2
  <2> QED
    BY <2>9, <2>11, <2>12, <2>13
<1> QED
  BY <1>1, InitOrder, StepOrder, PTL DEF Spec
-----------------------------------------------------------------------------
(***************************************************************************)
(* The queue implements CommandService: GDB, its pipes, deaths and         *)
(* restarts do not show.                                                   *)
(***************************************************************************)

(* Nothing waits while nothing is in flight.                               *)
Serves(e) == e.queued # <<>> => e.started # <<>>

(* An engine that is not told to exit.                                     *)
ServiceInv == PairInv /\ OrderInv /\ ~exiting /\ Serves(eng)

-----------------------------------------------------------------------------
(* Lemmas about numbers of commands.                                       *)

LEMMA IdsType ==
    ASSUME NEW s \in Seq(Command)
    PROVE  /\ Ids(s) \in Seq(Nat) /\ Len(Ids(s)) = Len(s)
           /\ \A i \in 1..Len(s) : Ids(s)[i] = s[i].id /\ s[i].id \in Nat
           /\ s = <<>> <=> Ids(s) = <<>>
<1>1. \A i \in 1..Len(s) : s[i].id \in Nat
  <2>1. \A i \in 1..Len(s) : s[i] \in Command
    OBVIOUS
  <2> QED
    BY <2>1, CommandIds
<1>2. Ids(s) \in Seq(Nat) /\ Len(Ids(s)) = Len(s)
  BY <1>1 DEF Ids
<1>3. s = <<>> <=> Len(s) = 0
  BY EmptySeq
<1>4. Ids(s) = <<>> <=> Len(Ids(s)) = 0
  BY <1>2, EmptySeq
<1> QED
  BY <1>1, <1>2, <1>3, <1>4 DEF Ids

LEMMA IdsJoined ==
    ASSUME NEW s \in Seq(Command), NEW t \in Seq(Command)
    PROVE  Ids(s) \o Ids(t) = Ids(s \o t)
<1>1. PICK p : p = s \o t /\ p \in Seq(Command)
  BY Joined, Zenon
<1>2. /\ Len(p) = Len(s) + Len(t) /\ Len(s) \in Nat /\ Len(t) \in Nat
      /\ \A i \in 1..Len(p) : p[i] = IF i <= Len(s) THEN s[i] ELSE t[i - Len(s)]
  BY <1>1, PendingAt
<1>3. PICK a, b, c : /\ a = Ids(s) /\ b = Ids(t) /\ c = Ids(p)
                     /\ a \in Seq(Nat) /\ b \in Seq(Nat) /\ c \in Seq(Nat)
                     /\ Len(a) = Len(s) /\ Len(b) = Len(t) /\ Len(c) = Len(p)
                     /\ \A i \in 1..Len(s) : a[i] = s[i].id
                     /\ \A i \in 1..Len(t) : b[i] = t[i].id
                     /\ \A i \in 1..Len(p) : c[i] = p[i].id
  <2>1. /\ Ids(s) \in Seq(Nat) /\ Len(Ids(s)) = Len(s)
        /\ \A i \in 1..Len(s) : Ids(s)[i] = s[i].id
    BY IdsType
  <2>2. /\ Ids(t) \in Seq(Nat) /\ Len(Ids(t)) = Len(t)
        /\ \A i \in 1..Len(t) : Ids(t)[i] = t[i].id
    BY IdsType
  <2>3. /\ Ids(p) \in Seq(Nat) /\ Len(Ids(p)) = Len(p)
        /\ \A i \in 1..Len(p) : Ids(p)[i] = p[i].id
    BY <1>1, IdsType
  <2> QED
    BY <2>1, <2>2, <2>3
<1>4. PICK d : /\ d = a \o b /\ d \in Seq(Nat) /\ Len(d) = Len(a) + Len(b)
               /\ \A i \in 1..Len(a) + Len(b) : d[i] = IF i <= Len(a) THEN a[i] ELSE b[i - Len(a)]
  <2>1. a \in Seq(Nat) /\ b \in Seq(Nat)
    BY <1>3
  <2>2. /\ a \o b \in Seq(Nat) /\ Len(a \o b) = Len(a) + Len(b)
        /\ \A i \in 1..Len(a) + Len(b) : (a \o b)[i] = IF i <= Len(a) THEN a[i] ELSE b[i - Len(a)]
    BY <2>1, JoinedNumbers, Zenon
  <2> QED
    BY <2>2, Zenon
<1>4a. Len(d) = Len(c) /\ Len(a) = Len(s) /\ Len(d) = Len(s) + Len(t) /\ Len(p) = Len(s) + Len(t)
  BY <1>2, <1>3, <1>4
<1>5. \A i \in 1..Len(d) : d[i] = c[i]
  <2> SUFFICES ASSUME NEW i \in 1..Len(d) PROVE d[i] = c[i]
    OBVIOUS
  <2>1. CASE i <= Len(s)
    <3>1. i \in 1..Len(s) /\ i \in 1..Len(p)
      BY <1>2, <1>3, <1>4, <1>4a, <2>1
    <3>2. i \in 1..Len(s) + Len(t) /\ i <= Len(a)
      BY <1>4, <1>4a, <2>1
    <3>3. d[i] = a[i]
      BY <1>4, <3>2
    <3>4. a[i] = s[i].id
      BY <1>3, <3>1
    <3>5. p[i] = s[i]
      BY <1>2, <2>1, <3>1
    <3>6. c[i] = p[i].id
      BY <1>3, <3>1
    <3> QED
      BY <3>3, <3>4, <3>5, <3>6
  <2>2. CASE ~(i <= Len(s))
    <3>1. i - Len(s) \in 1..Len(t) /\ i \in 1..Len(p)
      BY <1>2, <1>3, <1>4, <1>4a, <2>2
    <3>2. d[i] = b[i - Len(s)] /\ p[i] = t[i - Len(s)]
      BY <1>2, <1>3, <1>4, <1>4a, <2>2, <3>1
    <3> QED
      BY <1>3, <3>1, <3>2
  <2> QED
    BY <2>1, <2>2
<1>6. d = c
  <2>1. d \in Seq(Nat) /\ c \in Seq(Nat) /\ Len(d) = Len(c)
    BY <1>3, <1>4, <1>4a
  <2> QED
    BY <2>1, <1>5, SeqEqual
<1> QED
  BY <1>1, <1>3, <1>4, <1>6

LEMMA IdsPrefix ==
    ASSUME NEW s \in Seq(Command), NEW t \in Seq(Command)
    PROVE  Service!IsPrefix(Ids(s), Ids(s \o t))
<1>1. Ids(s \o t) = Ids(s) \o Ids(t)
  BY IdsJoined
<1>2. PICK a, b : a = Ids(s) /\ b = Ids(t) /\ a \in Seq(Nat) /\ b \in Seq(Nat)
  BY IdsType
<1>3. Len(a) <= Len(a \o b) /\ SubSeq(a, 1, Len(a)) = SubSeq(a \o b, 1, Len(a))
  BY <1>2
<1> QED
  BY <1>1, <1>2, <1>3 DEF Service!IsPrefix

LEMMA EmptyPrefix ==
    ASSUME NEW s \in Seq(Nat)
    PROVE  Service!IsPrefix(<<>>, s)
<1>1. Len(<<>>) <= Len(s) /\ SubSeq(<<>>, 1, Len(<<>>)) = SubSeq(s, 1, Len(<<>>))
  OBVIOUS
<1> QED
  BY <1>1 DEF Service!IsPrefix

LEMMA PendingIds ==
    ASSUME NEW e \in Engine
    PROVE  Ids(e.started) \o Ids(e.queued) = Ids(Pending(e))
BY PendingType, IdsJoined DEF Pending

-----------------------------------------------------------------------------
(* Nothing waits while nothing is in flight.                               *)

LEMMA QueueAllServes ==
    ASSUME NEW e \in Engine, LineOK(e, FALSE), Serves(e), NEW cs \in Seq(Command),
           NEW f, f = QueueAll(e, cs)
    PROVE  /\ Serves(f)
           /\ cs # <<>> /\ e.connected => f.started # <<>>
<1> DEFINE all == e.queued \o cs
<1>1. PICK pushed : pushed = [e EXCEPT !.queued = all]
  OBVIOUS
<1>2. all \in Seq(Command) /\ e.queued \in Seq(Command)
  BY DEF Engine
<1>3. /\ pushed \in Engine /\ pushed.started = e.started
      /\ pushed.connected = e.connected /\ pushed.queued = all
  BY <1>1, <1>2 DEF Engine
<1>4. CASE cs = <<>>
  BY <1>4 DEF QueueAll
<1>5. CASE cs # <<>> /\ ~Idle(e)
  <2>1. e.started # <<>>
    BY <1>5 DEF Idle, LineOK
  <2>2. f = pushed
    BY <1>1, <1>5 DEF QueueAll
  <2> QED
    BY <1>3, <2>1, <2>2 DEF Serves
<1>6. CASE cs # <<>> /\ Idle(e) /\ e.connected
  <2>1. f = IssueHead(pushed) /\ e.started = <<>>
    BY <1>1, <1>6 DEF QueueAll, Idle
  <2>2. pushed.queued # <<>>
    BY <1>2, <1>3, <1>6
  <2>3. f.started # <<>>
    BY <1>3, <1>6, <2>1, <2>2, IssueHeadPending
  <2> QED
    BY <2>3 DEF Serves
<1>7. CASE cs # <<>> /\ Idle(e) /\ ~e.connected
  <2>1. e.queued = <<>> /\ all = cs
    BY <1>2, <1>7, ConcatEmptySeq DEF Idle, Serves
  <2>2. SubSeq(all, Len(cs) + 1, Len(all)) = <<>>
    <3>1. Len(cs) \in Int /\ Len(cs) < Len(cs) + 1
      OBVIOUS
    <3>2. SubSeq(cs, Len(cs) + 1, Len(cs)) = <<>>
      BY <3>1, SubSeqEmpty
    <3> QED
      BY <2>1, <3>2
  <2>3. f = [e EXCEPT !.queued = <<>>]
    BY <1>7, <2>2 DEF QueueAll
  <2>4. f.queued = <<>>
    BY <2>3 DEF Engine
  <2> QED
    BY <1>7, <2>4 DEF Serves
<1> QED
  BY <1>4, <1>5, <1>6, <1>7

LEMMA NextCommandServes ==
    ASSUME NEW e \in Engine, LineOK(e, FALSE), Serves(e), e.connected
    PROVE  Serves(NextCommand(e))
<1>1. CASE e.started = <<>>
  <2>1. NextCommand(e) = e
    BY <1>1 DEF NextCommand, Serves
  <2> QED
    BY <2>1
<1>2. CASE e.started # <<>>
  <2>1. Tail(e.started) = <<>> /\ <<>> \in Seq(Command)
    <3>1. e.started \in Seq(Command) /\ Len(e.started) <= 1
      BY PendingType DEF LineOK
    <3> QED
      BY <1>2, <3>1, OneElement
  <2>2. PICK freed : freed = [e EXCEPT !.started = <<>>, !.line_busy = FALSE]
    OBVIOUS
  <2>3. freed \in Engine /\ freed.started = <<>> /\ freed.connected /\ Idle(freed)
    BY <2>1, <2>2 DEF Engine, Idle
  <2>4. NextCommand(e) = IF freed.queued # <<>> THEN IssueHead(freed) ELSE freed
    BY <1>2, <2>1, <2>2, <2>3 DEF NextCommand
  <2>5. freed.queued # <<>> => IssueHead(freed).started # <<>>
    BY <2>3, IssueHeadPending
  <2> QED
    BY <2>4, <2>5 DEF Serves
<1> QED
  BY <1>1, <1>2

LEMMA HandleRecordServes ==
    ASSUME NEW e \in Engine, LineOK(e, FALSE), Serves(e), e.connected,
           NEW r, NEW cs \in Seq(Command)
    PROVE  Serves(HandleRecord(e, r, cs))
<1>1. PICK kept : kept = IF DetachDone(e, r) THEN ResetCommandQueue(e) ELSE e
  OBVIOUS
<1>2. kept \in Engine /\ LineOK(kept, FALSE) /\ Serves(kept) /\ kept.connected
  <2>1. CASE DetachDone(e, r)
    <3>1. kept \in Engine /\ LineOK(kept, FALSE)
      BY <1>1, <2>1, ResetLine
    <3> QED
      BY <1>1, <2>1, <3>1 DEF ResetCommandQueue, Engine, Serves
  <2>2. CASE ~DetachDone(e, r)
    BY <1>1, <2>2
  <2> QED
    BY <2>1, <2>2
<1>3. PICK handled : handled = QueueAll(kept, cs)
  OBVIOUS
<1>4. handled \in Engine /\ LineOK(handled, FALSE) /\ Serves(handled) /\ handled.connected
  <2>1. handled \in Engine /\ LineOK(handled, FALSE)
    BY <1>2, <1>3, QueueAllLine
  <2>2. Serves(handled)
    BY <1>2, <1>3, QueueAllServes
  <2>3. handled.connected
    BY <1>2, <1>3, QueueAllPending
  <2> QED
    BY <2>1, <2>2, <2>3
<1>5. HandleRecord(e, r, cs) = IF HasResult(r) \/ ~r.parses THEN NextCommand(handled) ELSE handled
  BY <1>1, <1>3 DEF HandleRecord
<1> QED
  BY <1>4, <1>5, NextCommandServes

LEMMA LaunchServes ==
    ASSUME NEW e \in Engine, LineOK(e, FALSE), Serves(e), NEW cs \in Seq(Command), LaunchGdb(e, cs)
    PROVE  /\ Serves(eng')
           /\ cs # <<>> => eng'.started # <<>>
           /\ Pending(eng') = Pending(e) \o cs
<1>1. PICK fresh : fresh = [e EXCEPT !.connected = TRUE, !.wire = <<>>]
  OBVIOUS
<1>2. /\ fresh \in Engine /\ fresh.started = e.started /\ fresh.queued = e.queued
      /\ fresh.line_busy = e.line_busy /\ fresh.connected
  <2>1. <<>> \in Seq(Command \union {Quit})
    OBVIOUS
  <2> QED
    BY <1>1, <2>1 DEF Engine
<1>3. LineOK(fresh, FALSE) /\ Serves(fresh) /\ Pending(fresh) = Pending(e)
  BY <1>2 DEF LineOK, Serves, Pending
<1>4. eng' = QueueAll(fresh, cs)
  BY <1>1 DEF LaunchGdb
<1>5. Serves(eng') /\ (cs # <<>> => eng'.started # <<>>)
  BY <1>2, <1>3, <1>4, QueueAllServes
<1>6. Pending(eng') = Pending(fresh) \o cs
  BY <1>2, <1>4, QueueAllPending
<1> QED
  BY <1>3, <1>5, <1>6

-----------------------------------------------------------------------------
(* Steps of the engine as steps of the service.                            *)

LEMMA SubmitPrefix ==
    ASSUME NEW e \in Engine, NEW f \in Engine, NEW cs \in Seq(Command),
           Pending(f) = Pending(e) \o cs \/ Pending(e) = <<>>
    PROVE  Service!IsPrefix(Ids(e.started) \o Ids(e.queued), Ids(f.started) \o Ids(f.queued))
<1>1. /\ Ids(e.started) \o Ids(e.queued) = Ids(Pending(e))
      /\ Ids(f.started) \o Ids(f.queued) = Ids(Pending(f))
      /\ Pending(e) \in Seq(Command) /\ Pending(f) \in Seq(Command)
  BY PendingIds, PendingType
<1>2. CASE Pending(f) = Pending(e) \o cs
  <2>1. Service!IsPrefix(Ids(Pending(e)), Ids(Pending(e) \o cs))
    BY <1>1, IdsPrefix
  <2> QED
    BY <1>1, <1>2, <2>1
<1>3. CASE Pending(e) = <<>>
  <2>1. Ids(Pending(e)) = <<>> /\ Ids(Pending(f)) \in Seq(Nat)
    BY <1>1, <1>3, IdsType
  <2> QED
    BY <1>1, <2>1, EmptyPrefix
<1> QED
  BY <1>2, <1>3

LEMMA ServingEngine ==
    ASSUME NEW f \in Engine, LineOK(f, FALSE), Serves(f)
    PROVE  /\ Len(Ids(f.started)) <= 1
           /\ Ids(f.queued) # <<>> => Ids(f.started) # <<>>
<1>1. f.started \in Seq(Command) /\ f.queued \in Seq(Command)
  BY PendingType
<1>2. Len(Ids(f.started)) = Len(f.started) /\ (f.started = <<>> <=> Ids(f.started) = <<>>)
      /\ (f.queued = <<>> <=> Ids(f.queued) = <<>>)
  BY <1>1, IdsType
<1> QED
  BY <1>2 DEF LineOK, Serves

LEMMA NothingPending ==
    ASSUME NEW e \in Engine, Serves(e), e.started = <<>>
    PROVE  e.queued = <<>> /\ Pending(e) = <<>>
BY DEF Serves, Pending

LEMMA StepServes ==
    ASSUME MaxBadAsync = 0, MayTear = FALSE, MayExit = FALSE, ServiceInv, [Next]_vars
    PROVE  ServiceInv'
<1>1. PairInv' /\ OrderInv'
  BY StepPair, StepOrder DEF ServiceInv
<1>2. ~exiting'
  BY DEF ServiceInv, Next, Load, ClientQueues, LoadProgram, AttachToTarget, LaunchGdb,
         ExitEngine, OnOutputRecord, OnHup, GdbAnswers, InferiorStops, GdbDies, vars
<1>3. /\ eng \in Engine /\ LineOK(eng, FALSE) /\ Serves(eng) /\ nextId \in Nat \ {0}
  <2>1. eng \in Engine /\ LineOK(eng, exiting) /\ exiting \in BOOLEAN /\ ~exiting
        /\ nextId \in Nat \ {0} /\ Serves(eng)
    BY DEF ServiceInv, PairInv, LineInv, TypeOK
  <2>2. exiting = FALSE
    BY <2>1
  <2> QED
    BY <2>1, <2>2
<1>4. Serves(eng')
  <2>1. CASE ClientQueues
    <3>1. PICK cs \in Bursts(1) : eng' = QueueAll(eng, cs)
      BY <2>1 DEF ClientQueues
    <3>2. cs \in Seq(Command)
      BY <1>3, BurstType
    <3> QED
      BY <1>3, <3>1, <3>2, QueueAllServes
  <2>2. ASSUME NEW force \in Forces, LoadProgram(force) PROVE Serves(eng')
    <3>1. PICK e : e = IF force THEN ResetCommandQueue(eng) ELSE eng
      OBVIOUS
    <3>2. PICK cs \in Bursts(1) : LaunchGdb(e, cs)
      BY <2>2, <3>1 DEF LoadProgram
    <3>3. cs \in Seq(Command)
      BY <1>3, BurstType
    <3>4. e \in Engine /\ LineOK(e, FALSE)
      BY <1>3, <3>1, ResetLine
    <3>5. Serves(e)
      BY <1>3, <3>1 DEF ResetCommandQueue, Engine, Serves
    <3> QED
      BY <3>2, <3>3, <3>4, <3>5, LaunchServes
  <2>3. CASE AttachToTarget
    <3>1. PICK cs \in Bursts(1) : LaunchGdb(eng, cs)
      BY <2>3 DEF AttachToTarget
    <3>2. cs \in Seq(Command)
      BY <1>3, BurstType
    <3> QED
      BY <1>3, <3>1, <3>2, LaunchServes
  <2>4. CASE ExitEngine
    BY <2>4 DEF ExitEngine
  <2>5. CASE OnOutputRecord
    <3>1. PICK cs \in Bursts(0) : eng' = HandleRecord(eng, Head(out), cs)
      BY <2>5 DEF OnOutputRecord
    <3>2. cs \in Seq(Command) /\ eng.connected
      BY <1>3, <2>5, BurstType DEF OnOutputRecord
    <3> QED
      BY <1>3, <3>1, <3>2, HandleRecordServes
  <2>6. CASE OnHup \/ GdbAnswers \/ InferiorStops \/ GdbDies \/ UNCHANGED vars
    <3>1. eng'.started = eng.started /\ eng'.queued = eng.queued
      BY <1>3, <2>6 DEF OnHup, GdbAnswers, InferiorStops, GdbDies, vars, Engine
    <3> QED
      BY <1>3, <3>1 DEF Serves
  <2> QED
    BY <2>1, <2>2, <2>3, <2>4, <2>5, <2>6 DEF Next, Load
<1> QED
  BY <1>1, <1>2, <1>4 DEF ServiceInv, Serves

LEMMA StepImplements ==
    ASSUME MayExit = FALSE, ServiceInv, ServiceInv', [Next]_vars
    PROVE  [Service!Next]_(Service!absVars)
<1>1. /\ eng \in Engine /\ LineOK(eng, FALSE) /\ Serves(eng) /\ nextId \in Nat \ {0}
      /\ Ordered(answered, Pending(eng), nextId) /\ answered \in Seq(Answer) /\ out \in Seq(Record)
  <2>1. exiting = FALSE
    BY DEF ServiceInv, PairInv, LineInv, TypeOK
  <2> QED
    BY <2>1 DEF ServiceInv, PairInv, OrderInv, LineInv, TypeOK, Answer
<1>2. /\ eng' \in Engine /\ LineOK(eng', FALSE) /\ Serves(eng') /\ RepliesMatch' /\ ~exiting'
      /\ answered' \in Seq(Answer)
  <2>1. ~exiting' /\ exiting' \in BOOLEAN /\ eng' \in Engine /\ LineOK(eng', exiting')
        /\ answered' \in Seq(Answer)
    BY DEF ServiceInv, PairInv, OrderInv, LineInv, LineOK, TypeOK, Answer
  <2>2. exiting' = FALSE
    BY <2>1
  <2>3. Serves(eng') /\ RepliesMatch'
    BY DEF ServiceInv, PairInv, Serves
  <2> QED
    BY <2>1, <2>2, <2>3
<1>3. Service!Serving'
  BY <1>2, ServingEngine DEF Service!Serving, Ids
<1>4. ASSUME answered' = answered,
             NEW cs \in Seq(Command), Pending(eng') = Pending(eng) \o cs \/ Pending(eng) = <<>>
      PROVE  Service!Next
  <2>1. Service!IsPrefix(Ids(eng.started) \o Ids(eng.queued), Ids(eng'.started) \o Ids(eng'.queued))
    BY <1>1, <1>2, <1>4, SubmitPrefix
  <2>2. Service!Submit
    BY <1>4, <2>1 DEF Service!Submit, Ids
  <2> QED
    BY <1>3, <2>2 DEF Service!Next
<1>5. CASE ClientQueues
  <2>1. PICK cs \in Bursts(1) : eng' = QueueAll(eng, cs)
    BY <1>5 DEF ClientQueues
  <2>2. cs \in Seq(Command)
    BY <1>1, BurstType
  <2>3. Pending(eng') = Pending(eng) \o cs \/ Idle(eng)
    BY <1>1, <2>1, <2>2, QueueAllPending
  <2>4. Idle(eng) => Pending(eng) = <<>>
    BY <1>1, NothingPending DEF Idle
  <2>5. answered' = answered
    BY <1>5 DEF ClientQueues
  <2> QED
    BY <1>4, <2>2, <2>3, <2>4, <2>5
<1>6. ASSUME NEW force \in Forces, LoadProgram(force) PROVE Service!Next
  <2>1. CASE ~force
    <3>1. PICK cs \in Bursts(1) : LaunchGdb(eng, cs)
      BY <1>6, <2>1 DEF LoadProgram
    <3>2. cs \in Seq(Command)
      BY <1>1, BurstType
    <3>3. Pending(eng') = Pending(eng) \o cs
      BY <1>1, <3>1, <3>2, LaunchServes
    <3>4. answered' = answered
      BY <3>1 DEF LaunchGdb
    <3> QED
      BY <1>4, <3>2, <3>3, <3>4
  <2>2. CASE force
    <3>1. PICK e : e = ResetCommandQueue(eng)
      OBVIOUS
    <3>2. PICK cs \in Bursts(1) : LaunchGdb(e, cs)
      BY <1>6, <2>2, <3>1 DEF LoadProgram
    <3>3. cs \in Seq(Command) /\ cs # <<>> /\ NumberedFrom(cs, nextId)
      BY <1>1, BurstType, BurstNumbers
    <3>4. /\ e \in Engine /\ LineOK(e, FALSE) /\ Serves(e)
      <4>1. e \in Engine /\ LineOK(e, FALSE)
        BY <1>1, <3>1, ResetLine
      <4> QED
        BY <1>1, <3>1, <4>1 DEF ResetCommandQueue, Engine, Serves
    <3>5. Pending(eng') = cs
      <4>1. e.started = <<>>
        BY <1>1, <3>1 DEF ResetCommandQueue, Engine
      <4>2. Pending(e) = <<>>
        BY <3>4, <4>1, NothingPending
      <4>3. Pending(eng') = Pending(e) \o cs
        BY <3>2, <3>3, <3>4, LaunchServes
      <4> QED
        BY <3>3, <4>2, <4>3, ConcatEmptySeq
    <3>6. eng'.started # <<>> /\ answered' = answered
      <4>1. eng'.started # <<>>
        BY <3>2, <3>3, <3>4, LaunchServes
      <4> QED
        BY <3>2, <4>1 DEF LaunchGdb
    <3>7. Ids(eng'.started) # <<>>
      BY <1>2, <3>6, PendingType, IdsType
    <3>8. PICK new, old : /\ new = Ids(eng'.started) \o Ids(eng'.queued)
                          /\ old = Ids(eng.started) \o Ids(eng.queued)
      OBVIOUS
    <3>9. new = Ids(cs) /\ old = Ids(Pending(eng)) /\ Pending(eng) \in Seq(Command)
      BY <1>1, <1>2, <3>5, <3>8, PendingIds, PendingType
    <3>10. \A i \in 1..Len(new) : \A n \in Service!ToSet(old) : new[i] > n
      <4> SUFFICES ASSUME NEW i \in 1..Len(new), NEW n \in Service!ToSet(old) PROVE new[i] > n
        OBVIOUS
      <4>1. i \in 1..Len(cs) /\ new[i] = cs[i].id
        BY <3>3, <3>9, IdsType
      <4>2. new[i] = nextId + i - 1
        BY <3>3, <4>1 DEF NumberedFrom
      <4>3. old \in Seq(Nat) /\ Len(old) = Len(Pending(eng))
        BY <3>9, IdsType
      <4>4. PICK j \in 1..Len(old) : n = old[j]
        BY <4>3 DEF Service!ToSet
      <4>5. j \in 1..Len(Pending(eng))
        BY <4>3
      <4>6. n = Pending(eng)[j].id /\ n \in Nat
        BY <3>9, <4>4, <4>5, IdsType
      <4>7. n < nextId
        BY <1>1, <4>5, <4>6 DEF Ordered
      <4>8. i \in Nat /\ i >= 1
        BY <4>1
      <4> QED
        BY <1>1, <4>2, <4>6, <4>7, <4>8
    <3>11. Service!Restart
      BY <3>6, <3>7, <3>8, <3>10 DEF Service!Restart, Ids
    <3> QED
      BY <1>3, <3>11 DEF Service!Next
  <2> QED
    BY <2>1, <2>2
<1>7. CASE AttachToTarget
  <2>1. PICK cs \in Bursts(1) : LaunchGdb(eng, cs)
    BY <1>7 DEF AttachToTarget
  <2>2. cs \in Seq(Command)
    BY <1>1, BurstType
  <2>3. Pending(eng') = Pending(eng) \o cs
    BY <1>1, <2>1, <2>2, LaunchServes
  <2>4. answered' = answered
    BY <2>1 DEF LaunchGdb
  <2> QED
    BY <1>4, <2>2, <2>3, <2>4
<1>8. CASE OnOutputRecord
  <2>1. PICK cs \in Bursts(0) :
          /\ DetachDone(eng, Head(out)) => cs = <<>>
          /\ eng' = HandleRecord(eng, Head(out), cs)
    BY <1>8 DEF OnOutputRecord
  <2>2. cs \in Seq(Command)
    BY <1>1, BurstType
  <2>3. PICK r : r = Head(out) /\ r \in Record
    BY <1>1, <1>8 DEF OnOutputRecord
  <2>4. eng.connected /\ answered' = answered \o Told(eng, r)
    BY <1>8, <2>3 DEF OnOutputRecord
  <2>5. Pending(eng') = IF DetachDone(eng, r) THEN <<>>
                        ELSE IF Ends(r) /\ QueueAll(eng, cs).started # <<>>
                             THEN Tail(Pending(eng) \o cs)
                        ELSE Pending(eng) \o cs
    <3>1. DetachDone(eng, r) => cs = <<>>
      BY <2>1, <2>3
    <3>2. PICK f : f = eng' /\ f = HandleRecord(eng, r, cs)
      BY <2>1, <2>3
    <3>3. PICK ex \in BOOLEAN : LineOK(eng, ex)
      BY <1>1
    <3>4. Pending(f) = IF DetachDone(eng, r) THEN <<>>
                       ELSE IF Ends(r) /\ QueueAll(eng, cs).started # <<>>
                            THEN Tail(Pending(eng) \o cs)
                       ELSE Pending(eng) \o cs
      BY <1>1, <2>2, <2>4, <3>1, <3>2, <3>3, HandleRecordPending
    <3> QED
      BY <3>2, <3>4
  <2>6. CASE eng.started = <<>> \/ ~Ends(r)
    <3>1. answered' = answered
      <4>1. Told(eng, r) = <<>>
        BY <2>6 DEF Told, Ends
      <4> QED
        BY <1>1, <2>4, <4>1
    <3>2. eng.started = <<>> => Pending(eng) = <<>>
      BY <1>1, NothingPending
    <3>3. ~Ends(r) => Pending(eng') = Pending(eng) \o cs
      BY <2>5 DEF DetachDone, Ends
    <3> QED
      BY <1>4, <2>2, <2>6, <3>1, <3>2, <3>3
  <2>7. CASE eng.started # <<>> /\ Ends(r)
    <3>1. PICK c : c = Head(eng.started) /\ c \in Command /\ eng.started = <<c>>
      <4>1. eng.started \in Seq(Command) /\ Len(eng.started) <= 1
        BY <1>1, PendingType DEF LineOK
      <4>2. eng.started = <<Head(eng.started)>> /\ Head(eng.started) \in Command
        BY <2>7, <4>1, OneElement, HeadTailProperties
      <4> QED
        BY <4>2
    <3>2. Ids(eng.started) = <<c.id>>
      BY <3>1 DEF Ids
    <3>3. PICK a : a = [command |-> c.id, reply |-> IF HasResult(r) THEN r.of.id ELSE 0]
      OBVIOUS
    <3>4. a \in Answer
      <4>1. c.id \in Nat
        BY <3>1, CommandIds
      <4>2. r.of.id \in Nat
        BY <2>3, CommandIds DEF Record
      <4> QED
        BY <3>3, <4>1, <4>2 DEF Answer
    <3>5. answered' = Append(answered, a)
      <4>1. Told(eng, r) = <<a>>
        BY <2>7, <3>1, <3>3 DEF Told, Ends
      <4> QED
        BY <1>1, <2>4, <3>4, <4>1, AppendOne
    <3>6. a = [command |-> c.id, reply |-> a.reply] /\ a.reply \in {0, c.id}
      <4>1. Len(answered') \in Nat /\ Len(answered') >= 1 /\ answered'[Len(answered')] = a
        BY <1>1, <3>4, <3>5
      <4>2. Len(answered') \in 1..Len(answered')
        BY <4>1
      <4>3. a.reply \in {0, a.command}
        BY <1>2, <4>1, <4>2 DEF RepliesMatch
      <4> QED
        BY <3>3, <4>3
    <3>7. Ids(eng.started) # <<>> /\ Head(Ids(eng.started)) = c.id
      BY <3>2
    <3>8. \E reply \in {0, Head(Ids(eng.started))} :
            answered' = Append(answered, [command |-> Head(Ids(eng.started)), reply |-> reply])
      BY <3>5, <3>6, <3>7
    <3>9. CASE DetachDone(eng, r)
      <4>1. Pending(eng') = <<>>
        BY <2>5, <3>9
      <4>2. eng'.started = <<>> /\ eng'.queued = <<>>
        BY <1>2, <4>1, PendingType, ConcatEqualIffEmpty DEF Pending
      <4>3. Ids(eng'.started) = <<>> /\ Ids(eng'.queued) = <<>>
        BY <1>2, <4>2, PendingType, IdsType
      <4>4. Service!Finish
        BY <3>7, <3>8, <4>3 DEF Service!Finish, Ids
      <4> QED
        BY <1>3, <4>4 DEF Service!Next
    <3>10. CASE ~DetachDone(eng, r)
      <4>1. Pending(eng') = Tail(Pending(eng) \o cs)
        <5>1. QueueAll(eng, cs).started # <<>>
          BY <1>1, <2>2, <2>7, QueueAllPending
        <5> QED
          BY <2>5, <2>7, <3>10, <5>1
      <4>2. eng.queued \in Seq(Command) /\ <<c>> \in Seq(Command)
        BY <1>1, <3>1, PendingType
      <4>3. Pending(eng) \o cs = <<c>> \o (eng.queued \o cs)
        <5>1. Pending(eng) = <<c>> \o eng.queued
          BY <3>1 DEF Pending
        <5>2. (<<c>> \o eng.queued) \o cs = <<c>> \o (eng.queued \o cs)
          BY <2>2, <4>2, ThreeParts, Zenon
        <5> QED
          BY <5>1, <5>2
      <4>4. eng.queued \o cs \in Seq(Command)
        BY <2>2, <4>2, Joined, Zenon
      <4>5. Tail(<<c>> \o (eng.queued \o cs)) = eng.queued \o cs
        BY <3>1, <4>4
      <4>6. Service!IsPrefix(Ids(eng.queued), Ids(eng.queued \o cs))
        BY <2>2, <4>2, IdsPrefix
      <4>7. Ids(eng'.started) \o Ids(eng'.queued) = Ids(Pending(eng'))
        BY <1>2, PendingIds
      <4>8. Service!IsPrefix(Ids(eng.queued), Ids(eng'.started) \o Ids(eng'.queued))
        BY <4>1, <4>3, <4>5, <4>6, <4>7
      <4>9. Service!Finish
        BY <3>7, <3>8, <4>8 DEF Service!Finish, Ids
      <4> QED
        BY <1>3, <4>9 DEF Service!Next
    <3> QED
      BY <3>9, <3>10
  <2> QED
    BY <2>6, <2>7
<1>9. CASE OnHup \/ GdbAnswers \/ InferiorStops \/ GdbDies \/ UNCHANGED vars
  <2>1. answered' = answered
    BY <1>9 DEF OnHup, GdbAnswers, InferiorStops, GdbDies, vars
  <2>2. eng'.started = eng.started /\ eng'.queued = eng.queued
    BY <1>1, <1>9 DEF OnHup, GdbAnswers, InferiorStops, GdbDies, vars, Engine
  <2>3. UNCHANGED Service!absVars
    BY <2>1, <2>2 DEF Service!absVars, Ids
  <2> QED
    BY <2>3
<1>10. ~ExitEngine
  BY DEF ExitEngine
<1> QED
  BY <1>5, <1>6, <1>7, <1>8, <1>9, <1>10 DEF Next, Load

(* Unless it is told to exit, the queue is a CommandService: every step of *)
(* it, a GDB that dies or is launched anew included, is one of the service *)
(* or none.  The hypotheses are those of RepliesAlwaysMatch.               *)
THEOREM QueueImplementsService ==
    ASSUME MaxBadAsync = 0, MayTear = FALSE, MayExit = FALSE
    PROVE  Spec => ImplementsService
<1>1. Init => ServiceInv
  <2> SUFFICES ASSUME Init PROVE ServiceInv
    OBVIOUS
  <2>1. PairInv /\ OrderInv
    BY InitPair, InitOrder
  <2> QED
    BY <2>1 DEF Init, ServiceInv, Serves
<1>2. ServiceInv /\ [Next]_vars => ServiceInv'
  BY StepServes
<1>3. Init => Service!Init
  BY DEF Init, Service!Init, Ids
<1>4. ServiceInv /\ ServiceInv' /\ [Next]_vars => [Service!Next]_(Service!absVars)
  BY StepImplements
<1> QED
  BY <1>1, <1>2, <1>3, <1>4, PTL DEF Spec, ImplementsService, Service!Spec
=============================================================================
