----------------------------- MODULE StdoutLoop -----------------------------
(***************************************************************************)
(* The loop of GDBEngine::Priv::on_gdb_stdout_signal over one buffer: it   *)
(* tells the observers of the engine what each record holds, and takes the *)
(* command a record answers off the wire.                                  *)
(***************************************************************************)
EXTENDS GdbWriting

CONSTANT ReadRecord(_, _)   \* ParseOutputRecord, or another reader of records

VARIABLES
    sent,       \* what GDB said
    text,       \* the buffer with it, which ends with the prompt
    from,       \* where the next record begins
    output,     \* the record read last
    told,       \* the records told to the observers
    retired     \* how many commands were taken off the wire
loopVars == <<sent, text, from, output, told, retired>>

LoopInit(message) ==
    /\ sent = message
    /\ text = WriteMessage(message)
    /\ from = 1
    /\ output = NoOutput
    /\ told = <<>>
    /\ retired = 0

(* Wrong variant: a record that is not understood answers no command.      *)
OnGdbStdoutForgiving ==
    /\ from <= Len(text)
    /\ UNCHANGED <<sent, text>>
    /\ \E read \in {ReadRecord(text, from)} :
          IF Succeeds(read)
          THEN /\ output' = read.val
               /\ told' = Append(told, read.val)
               /\ retired' = IF read.val.result # NoResult THEN retired + 1 ELSE retired
               /\ from' = SkipSpace(text, read.at)
          ELSE /\ from' = Len(text) + 1
               /\ UNCHANGED <<output, told, retired>>

(* What is behind a record that is not understood is passed, to the prompt *)
(* or to the end, which is all there is of the buffer in either case.  The *)
(* record before it is told once more.                                     *)
OnGdbStdout ==
    /\ from <= Len(text)
    /\ \E read \in {ReadRecord(text, from)} :
          IF read.is = "thrown"
          THEN /\ from' = Len(text) + 1
               /\ UNCHANGED <<output, told, retired>>
          ELSE LET all == IF Succeeds(read) THEN read.val ELSE output
               IN  /\ output' = all
                   /\ told' = Append(told, all)
                   /\ retired' = IF all.result # NoResult \/ ~Succeeds(read) THEN retired + 1 ELSE retired
                   /\ from' = IF Succeeds(read) THEN SkipSpace(text, read.at) ELSE Len(text) + 1
    /\ UNCHANGED <<sent, text>>

BufferRead == from > Len(text)

(***************************************************************************)
(* What the parser makes of a message is what GDB said: no answer that     *)
(* nothing is known of keeps what is known from being read.  (Unknown      *)
(* notifications and answers, and the depth, are not kept; a stream and    *)
(* the notification behind it are one record; a value with members keeps   *)
(* the backslashes of the strings in it, a string its own.)                *)
(***************************************************************************)
RECURSIVE InPlace(_)
InPlace(m) == [m EXCEPT !.value = FlattenSeq(Map(Escaped, @)), !.members = Map(InPlace, @)]
KeptAnswer(a) ==
    CASE a.kind = "value" /\ a.val.members # <<>> -> [a EXCEPT !.val = InPlace(@)]
      [] a.kind = "path" -> [a EXCEPT !.val = Shown(@)]
      [] OTHER -> a
KeptRecord(r) == IF r.async.is = "unknown" THEN [r EXCEPT !.async = NoAsync] ELSE r
Joined(records) ==
    FoldLeft(LAMBDA all, r : IF all # <<>> /\ Last(all).async.is = "none" /\ r.stream = NoStream
                             THEN Append(Front(all), [Last(all) EXCEPT !.async = r.async])
                             ELSE Append(all, r), <<>>, records)
Kept(m) ==
    [records |-> Map(KeptRecord, Joined(m.records)),
     result |-> [m.result EXCEPT !.got =
                    Map(KeptAnswer, SelectSeq(@, LAMBDA a : a.kind \notin {"unknown", "depth"}))]]

(* An empty call stack and an empty list of files fail the record: what    *)
(* came before it is told twice.                                           *)
Refused(m) == \E a \in Range(m.result.got) : (a.kind = "stack" /\ a.val = <<>>) \/ (a.kind = "files" /\ a.val = {})
Understood == BufferRead /\ ~Refused(sent) => told = <<Kept(sent)>>

(* A buffer takes exactly as many commands off the wire as it holds        *)
(* results, whether the parser understands them or not: the queue of the   *)
(* engine counts on it.                                                    *)
RetiresOne == BufferRead => retired = (IF sent.result = NoResult THEN 0 ELSE 1)
=============================================================================
