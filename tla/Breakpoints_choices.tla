------------------------- MODULE Breakpoints_choices -------------------------
(***************************************************************************)
(* Theorems about what the user chose for the breakpoints: for a user who  *)
(* waits for answers, the lines, what is enabled, the countpoints and the  *)
(* ignore counts are what the program is debugged with, whatever it hits   *)
(* and however often it is run.                                            *)
(***************************************************************************)
EXTENDS Breakpoints_proofs

(* What is proved of what a waiting user does.  A resumed session sets one *)
(* breakpoint; a new GDB enables all, and makes standard breakpoints of    *)
(* countpoints that are set twice; a =breakpoint-modified has neither the  *)
(* type nor the ignore count of the cache.                                 *)
CarefulChoices ==
    \A s \in Scenarios : "haste" \notin s =>
        /\ "resume" \notin s
        /\ "restart" \in s => s \intersect {"delete", "disable", "count"} = {}
        /\ "notify" \in s => s \intersect {"count", "ignore"} = {}

-----------------------------------------------------------------------------
(* The inductive invariant, besides IInv.                                  *)

(* The commands of the queue, and those GDB did not answer.                *)
Asked == {n.queue[i] : i \in 1..Len(n.queue)}
Coming == {n.queue[i] : i \in {j \in 1..Len(n.queue) : ~(j = 1 /\ Answered)}}

(* The turns of the user: a program that was made to run is only asked for *)
(* lists, commands of a countpoint are asked for alone, and insertions     *)
(* with nothing but a run behind them.                                     *)
Ordinary(op) == op \in {"list", "run", "continue"}
Turns(q) ==
    \A i \in 1..Len(q) :
        /\ q[i].op \in {"run", "continue"} => \A j \in (i + 1)..Len(q) : q[j].op = "list"
        /\ q[i].op = "commands" => Len(q) = 1
        /\ q[i].op = "insert" =>
              /\ q[i].count => Len(q) = 1
              /\ \A j \in 1..Len(q) : q[j].op \in {"insert", "run", "list"}
              /\ \A j \in 1..i : q[j].op = "insert"

(* A breakpoint is set as it was chosen, where there is no other one.      *)
AsChosen(c) ==
    /\ c.loc \in DOMAIN wanted /\ wanted[c.loc].enabled
    /\ c.count = wanted[c.loc].count /\ c.n = wanted[c.loc].initial
InsertsChosen ==
    \A i \in 1..Len(n.queue) : n.queue[i].op = "insert" =>
        /\ AsChosen(n.queue[i])
        /\ \A id \in DOMAIN n.cache : n.cache[id].loc = n.queue[i].loc => id = First + i - 1
        /\ \A j \in 1..(i - 1) : n.queue[j].loc # n.queue[i].loc

(* The lines: each has its breakpoint, or will; a breakpoint on a line     *)
(* that was given up is being deleted.                                     *)
LinesChosen ==
    /\ \A loc \in DOMAIN wanted :
          /\ wanted[loc].loc = loc
          /\ \/ \E id \in DOMAIN n.cache : n.cache[id].loc = loc
             \/ \E c \in Asked : c.op = "insert" /\ c.loc = loc
    /\ \A id \in DOMAIN n.cache :
          /\ n.cache[id].loc \in DOMAIN wanted <=> ~Deleting(id)
          /\ \A other \in DOMAIN n.cache : n.cache[other].loc = n.cache[id].loc => other = id

(* Nothing else is chosen than what this behaviour has.                    *)
FeaturesChosen ==
    /\ "disable" \notin may => \A loc \in DOMAIN wanted : wanted[loc].enabled
    /\ "count" \notin may => \A loc \in DOMAIN wanted : ~wanted[loc].count
    /\ "ignore" \notin may =>
          /\ \A loc \in DOMAIN wanted : wanted[loc].initial = 0
          /\ \A c \in Asked : c.op = "after" => c.n = 0
          /\ \A id \in DOMAIN gdb.table : gdb.table[id].ignore = 0

(* The cache has the choices, but for the commands that wait.              *)
Here(b) == b.loc \in DOMAIN wanted
CacheChose(id) ==
    LET b == n.cache[id]
        w == wanted[n.cache[id].loc]
    IN /\ b.enabled = w.enabled \/ Listing(n.queue)
       /\ b.count = w.count \/ Commanding(n.queue, id)
       /\ \A c \in Asked : c.op = "commands" /\ c.id = id => c.yes = w.count /\ c.yes # b.count
       /\ b.initial = w.initial
CacheChosen == \A id \in DOMAIN n.cache : Here(n.cache[id]) => CacheChose(id)

(* So has GDB, but for those it did not answer, which ask for the choices; *)
(* of the ignore counts only when the program is run.                      *)
TableChose(id) ==
    LET b == gdb.table[id]
        w == wanted[gdb.table[id].loc]
    IN /\ \/ b.enabled = w.enabled
          \/ \E c \in Coming : c.op \in {"enable", "disable"} /\ c.id = id
       /\ \A c \in Coming : c.op \in {"enable", "disable"} /\ c.id = id =>
             w.enabled = (c.op = "enable")
       /\ \/ b.script = w.count
          \/ \E c \in Coming : c.op = "commands" /\ c.id = id
          \/ Done("insert") /\ id = gdb.next - 1 /\ n.queue[1].count
       /\ \A c \in Coming : c.op = "after" /\ c.id = id => c.n = w.initial
       /\ \/ \A c \in Coming : c.op # "run"
          \/ b.ignore = w.initial
          \/ \E c \in Coming : c.op = "after" /\ c.id = id
TableChosen == \A id \in DOMAIN gdb.table : Here(gdb.table[id]) => TableChose(id)

(* The records: what a running program prints finds nothing in the queue   *)
(* but what made it run, and lists.                                        *)
OutChosen ==
    /\ gdb.inferior = "running" => \A c \in Coming : c.op = "list"
    /\ \A k \in 1..Len(out) :
          /\ out[k].kind \in {"modified", "stopped"} => \A c \in Asked : Ordinary(c.op)
          /\ out[k].kind = "modified" =>
                /\ "notify" \in may
                /\ "ignore" \notin may => \A id \in DOMAIN out[k].bps : out[k].bps[id].initial = 0
          /\ out[k].kind = "done" /\ n.queue[1].op = "insert" =>
                \A id \in DOMAIN out[k].bps : out[k].bps[id].initial = n.queue[1].n
          /\ out[k].kind = "error" /\ n.queue[1].op = "delete" => Gone

Choices == /\ Turns(n.queue) /\ InsertsChosen /\ LinesChosen /\ FeaturesChosen
           /\ CacheChosen /\ TableChosen /\ OutChosen
CInv == IInv /\ (Waits => Choices)

-----------------------------------------------------------------------------
(* GDB answers the head of the queue.                                      *)

(* What GDB does leaves Nemiver and the user's choices as they are.        *)
LEMMA NemiverKept ==
    ASSUME Choices, n' = n, wanted' = wanted, may' = may, First' = First,
           "ignore" \notin may => \A id \in DOMAIN gdb'.table : gdb'.table[id].ignore = 0
    PROVE  /\ Turns(n.queue)' /\ InsertsChosen' /\ LinesChosen' /\ FeaturesChosen'
           /\ CacheChosen' /\ Asked' = Asked
<1>1. Asked' = Asked
  BY DEF Asked
<1>2. Turns(n.queue)'
  BY DEF Choices
<1>3. InsertsChosen'
  BY DEF Choices, InsertsChosen, AsChosen
<1>4. LinesChosen'
  BY <1>1 DEF Choices, LinesChosen, Deleting
<1>5. FeaturesChosen'
  BY <1>1 DEF Choices, FeaturesChosen
<1>6. \A id : CacheChose(id)' <=> CacheChose(id)
  BY <1>1 DEF CacheChose
<1>7. \A b : Here(b)' <=> Here(b)
  BY DEF Here
<1>8. CacheChosen'
  <2> SUFFICES ASSUME NEW id \in DOMAIN n'.cache, Here(n.cache[id])' PROVE CacheChose(id)'
    BY DEF CacheChosen
  <2>1. id \in DOMAIN n.cache /\ Here(n.cache[id])
    BY <1>7 DEF Here
  <2> QED
    BY <1>6, <2>1 DEF Choices, CacheChosen
<1> QED
  BY <1>1, <1>2, <1>3, <1>4, <1>5, <1>8

(* The answered command is no longer to come.                              *)
LEMMA HeadAnswered ==
    ASSUME IInv, NEW op, Reads(op), NEW kind \in {"done", "error"},
           NEW b \in Tables(Breakpoint), Says(kind, b), gdb' \in Gdb
    PROVE  /\ Coming = Asked /\ n.queue[1] \in Coming /\ Coming' \in SUBSET Coming
           /\ \A c \in Coming : c = n.queue[1] \/ c \in Coming'
           /\ \A c \in Coming' : \E i \in 2..Len(n.queue) : c = n.queue[i]
<1>1. /\ 1 \in 1..Len(n.queue) /\ n' = n /\ n.queue \in Seq(Command)
      /\ \A o : Done(o)' <=> kind = "done" /\ o = op
      /\ \A i \in 1..Len(out') :
            \/ i \in 1..Len(out) /\ out'[i] = out[i] /\ out[i].kind \notin {"done", "error"}
            \/ i = Len(out') /\ out'[i].kind = kind /\ out'[i].bps = b
  BY Replies
<1>2. ~Answered
  BY DEF Reads
<1>3. Answered'
  <2>1. PICK r : r = [kind |-> kind, bps |-> b]
    OBVIOUS
  <2>2. out \in Seq(Record) /\ r \in Record /\ r.kind = kind
    BY <2>1 DEF IInv, Typed, Record
  <2>3. out' = Append(out, r)
    BY <2>1 DEF Says
  <2>4. Len(out) + 1 \in 1..Len(out') /\ out'[Len(out) + 1] = r
    BY <2>2, <2>3
  <2> QED
    BY <2>2, <2>4 DEF Answered
<1>4. Coming = Asked
  BY <1>2 DEF Coming, Asked
<1>5. Coming' = {n.queue[i] : i \in {j \in 1..Len(n.queue) : j # 1}}
  BY <1>1, <1>3 DEF Coming
<1>6. Len(n.queue) \in Nat
  BY <1>1
<1>7. \A j \in 1..Len(n.queue) : j # 1 => j \in 2..Len(n.queue)
  BY <1>6
<1> QED
  BY <1>1, <1>4, <1>5, <1>7 DEF Asked

(* An answer, and what it may not change.                                  *)
LEMMA Answer ==
    ASSUME IInv, Choices, NEW op, Reads(op), NEW kind \in {"done", "error"},
           NEW b \in Tables(Breakpoint), Says(kind, b), gdb' \in Gdb, First' = First,
           "ignore" \notin may => \A id \in DOMAIN gdb'.table : gdb'.table[id].ignore = 0,
           \A id \in DOMAIN gdb'.table : Here(gdb'.table[id]) => TableChose(id)',
           gdb'.inferior = "running" => op \in {"run", "continue"},
           kind = "done" /\ op = "insert" => \A id \in DOMAIN b : b[id].initial = n.queue[1].n,
           kind = "error" /\ op = "delete" => Gone'
    PROVE  Choices'
<1>1. /\ n' = n /\ wanted' = wanted /\ may' = may /\ n.queue[1].op = op
      /\ \A i \in 1..Len(out') :
            \/ i \in 1..Len(out) /\ out'[i] = out[i] /\ out[i].kind \notin {"done", "error"}
            \/ i = Len(out') /\ out'[i].kind = kind /\ out'[i].bps = b
      /\ 1 \in 1..Len(n.queue) /\ n.queue \in Seq(Command)
  BY Replies DEF Reads
<1>2. /\ Coming' \in SUBSET Coming
      /\ \A c \in Coming' : \E i \in 2..Len(n.queue) : c = n.queue[i]
  BY HeadAnswered
<1>3. /\ Turns(n.queue)' /\ InsertsChosen' /\ LinesChosen' /\ FeaturesChosen'
      /\ CacheChosen' /\ Asked' = Asked
  BY <1>1, NemiverKept
<1>4. TableChosen'
  BY <1>1 DEF TableChosen, Here
<1>5. gdb'.inferior = "running" => \A c \in Coming' : c.op = "list"
  <2>1. op \in {"run", "continue"} => \A j \in (1 + 1)..Len(n.queue) : n.queue[j].op = "list"
    BY <1>1 DEF Choices, Turns
  <2>2. 1 + 1 = 2
    OBVIOUS
  <2> QED
    BY <1>2, <2>1, <2>2
<1>6. OutChosen'
  <2>1. OutChosen
    BY DEF Choices
  <2> SUFFICES ASSUME NEW k \in 1..Len(out'), NEW r, r = out'[k]
               PROVE  /\ r.kind \in {"modified", "stopped"} => \A c \in Asked' : Ordinary(c.op)
                      /\ r.kind = "modified" =>
                            /\ "notify" \in may'
                            /\ "ignore" \notin may' =>
                                  \A id \in DOMAIN r.bps : r.bps[id].initial = 0
                      /\ r.kind = "done" /\ n'.queue[1].op = "insert" =>
                            \A id \in DOMAIN r.bps : r.bps[id].initial = n'.queue[1].n
                      /\ r.kind = "error" /\ n'.queue[1].op = "delete" => Gone'
    BY <1>5 DEF OutChosen
  <2>2. CASE k \in 1..Len(out) /\ r = out[k] /\ r.kind \notin {"done", "error"}
    BY <1>1, <1>3, <2>1, <2>2 DEF OutChosen
  <2>3. CASE r.kind = kind /\ r.bps = b
    BY <1>1, <2>3
  <2> QED
    BY <1>1, <2>2, <2>3
<1> QED
  BY <1>3, <1>4, <1>6 DEF Choices

(* What GDB's breakpoint has is as it was, and what was answered is not    *)
(* about it.                                                               *)
LEMMA TableKept ==
    ASSUME NEW id, TableChose(id), n' = n, wanted' = wanted, ~Done("insert"),
           gdb'.table[id].loc = gdb.table[id].loc,
           gdb'.table[id].enabled = gdb.table[id].enabled,
           gdb'.table[id].script = gdb.table[id].script,
           gdb'.table[id].ignore = gdb.table[id].ignore,
           Coming' \in SUBSET Coming,
           \A c \in Coming : \/ c \in Coming'
                             \/ c.op \notin {"enable", "disable", "commands", "after"}
                             \/ c.id # id
    PROVE  TableChose(id)'
BY DEF TableChose

LEMMA AnswerOnly ==
    ASSUME IInv, Choices, NEW op, Reads(op), op # "insert", NEW kind \in {"done", "error"},
           NEW b \in Tables(Breakpoint), Says(kind, b), gdb' \in Gdb,
           \A id \in DOMAIN gdb'.table :
               /\ id \in DOMAIN gdb.table
               /\ gdb'.table[id].loc = gdb.table[id].loc
               /\ gdb'.table[id].enabled = gdb.table[id].enabled
               /\ gdb'.table[id].script = gdb.table[id].script
               /\ gdb'.table[id].ignore = gdb.table[id].ignore
               /\ op \in {"enable", "disable", "commands", "after"} => n.queue[1].id # id,
           gdb'.next = gdb.next,
           gdb'.inferior = "running" => op \in {"run", "continue"},
           kind = "error" /\ op = "delete" => Gone'
    PROVE  Choices'
<1>1. /\ n' = n /\ wanted' = wanted /\ may' = may /\ n.queue[1].op = op
      /\ \A o : ~Done(o)
      /\ \A o : Done(o)' <=> kind = "done" /\ o = op
  BY Replies DEF Reads
<1>2. First' = First
  BY <1>1 DEF First
<1>3. /\ Coming' \in SUBSET Coming
      /\ \A c \in Coming : c = n.queue[1] \/ c \in Coming'
  BY HeadAnswered
<1>4. ASSUME NEW id \in DOMAIN gdb'.table, Here(gdb'.table[id]) PROVE TableChose(id)'
  <2>1. TableChose(id)
    BY <1>4 DEF Choices, TableChosen, Here
  <2> QED
    BY <1>1, <1>3, <2>1, TableKept
<1>5. "ignore" \notin may => \A id \in DOMAIN gdb'.table : gdb'.table[id].ignore = 0
  BY DEF Choices, FeaturesChosen
<1> QED
  BY <1>2, <1>4, <1>5, Answer

LEMMA ListsKeep ==
    ASSUME IInv, Choices, GdbLists
    PROVE  Choices'
<1>0. PICK b : b = ParsedTable(gdb.table)
  OBVIOUS
<1>1. gdb \in Gdb /\ Reads("list") /\ Says("done", b) /\ gdb' = gdb
  BY <1>0 DEF IInv, Typed, GdbLists
<1>2. IsTable(gdb.table, Ids, GdbBreakpoint)
  BY <1>1, GdbFields
<1>3. b \in Tables(Breakpoint)
  <2>1. \A id \in DOMAIN gdb.table : Parsed(gdb.table[id]) \in Breakpoint
    BY <1>2, ParsedType DEF IsTable
  <2>2. b = [id \in DOMAIN gdb.table |-> Parsed(gdb.table[id])]
    BY <1>0 DEF ParsedTable
  <2> QED
    BY <1>2, <2>1, <2>2, TableFacts DEF IsTable
<1>4. gdb.inferior # "running"
  BY <1>1 DEF Reads
<1> QED
  BY <1>1, <1>3, <1>4, AnswerOnly

LEMMA NothingSaid == Nothing \in Tables(Breakpoint)
BY EmptyTable, TableFacts

LEMMA RunsKeep ==
    ASSUME IInv, Choices, GdbRuns
    PROVE  Choices'
<1>0. PICK t : t = [id \in DOMAIN gdb.table |-> [gdb.table[id] EXCEPT !.times = 0]]
  OBVIOUS
<1>1. /\ gdb \in Gdb /\ Reads("run") /\ Says("done", Nothing)
      /\ gdb' = [gdb EXCEPT !.inferior = "running", !.table = t]
  BY <1>0 DEF IInv, Typed, GdbRuns
<1>2. IsTable(gdb.table, Ids, GdbBreakpoint)
  BY <1>1, GdbFields
<1>3. \A b \in GdbBreakpoint : LET c == [b EXCEPT !.times = 0] IN
          /\ c \in GdbBreakpoint /\ c.loc = b.loc /\ c.enabled = b.enabled
          /\ c.script = b.script /\ c.ignore = b.ignore
  BY DEF GdbBreakpoint
<1>4. \A id \in DOMAIN gdb.table :
          gdb.table[id] \in GdbBreakpoint /\ t[id] = [gdb.table[id] EXCEPT !.times = 0]
  BY <1>0, <1>2 DEF IsTable
<1>5. /\ DOMAIN t = DOMAIN gdb.table
      /\ \A id \in DOMAIN gdb.table :
            /\ t[id] \in GdbBreakpoint
            /\ t[id].loc = gdb.table[id].loc /\ t[id].enabled = gdb.table[id].enabled
            /\ t[id].script = gdb.table[id].script /\ t[id].ignore = gdb.table[id].ignore
  BY <1>0, <1>3, <1>4
<1>6. t \in Tables(GdbBreakpoint)
  <2>1. t \in [DOMAIN gdb.table -> GdbBreakpoint]
    BY <1>0, <1>5
  <2> QED
    BY <1>2, <1>5, <2>1, TableFacts DEF IsTable
<1>7. gdb' \in Gdb /\ gdb'.table = t /\ gdb'.next = gdb.next
  <2>1. PICK g : g = [gdb EXCEPT !.inferior = "running"]
    OBVIOUS
  <2>2. g \in Gdb /\ g.next = gdb.next
    BY <1>1, <2>1, GdbFields
  <2>3. gdb' = [g EXCEPT !.table = t]
    BY <1>1, <2>1 DEF Gdb
  <2> QED
    BY <1>6, <2>2, <2>3 DEF Gdb
<1> QED
  BY <1>1, <1>5, <1>7, NothingSaid, AnswerOnly

LEMMA ContinuesKeep ==
    ASSUME IInv, Choices, GdbContinues
    PROVE  Choices'
<1>1. gdb \in Gdb /\ Reads("continue") /\ gdb.inferior # "running"
  BY DEF IInv, Typed, GdbContinues, Reads
<1>2. CASE gdb' = [gdb EXCEPT !.inferior = "running"] /\ Says("done", Nothing)
  <2>1. gdb' \in Gdb /\ gdb'.table = gdb.table /\ gdb'.next = gdb.next
    BY <1>1, <1>2, GdbFields
  <2> QED
    BY <1>1, <1>2, <2>1, NothingSaid, AnswerOnly
<1>3. CASE Says("error", Nothing) /\ gdb' = gdb
  BY <1>1, <1>3, NothingSaid, AnswerOnly
<1> QED
  BY <1>2, <1>3 DEF GdbContinues

(* What an answer changes of a breakpoint.                                 *)
LEMMA ChangedFields ==
    ASSUME NEW t \in Tables(GdbBreakpoint), NEW c \in Command,
           c.op \in {"delete", "enable", "disable", "after", "commands"}, c.id \in DOMAIN t,
           NEW x \in DOMAIN Changed(t, c), NEW u, u = Changed(t, c)[x]
    PROVE  /\ x \in DOMAIN t
           /\ x # c.id => u = t[x]
           /\ x = c.id =>
                 /\ c.op # "delete" /\ u.loc = t[x].loc
                 /\ u.enabled = IF c.op \in {"enable", "disable"} THEN c.op = "enable"
                                ELSE t[x].enabled
                 /\ u.script = IF c.op = "commands" THEN c.yes ELSE t[x].script
                 /\ u.ignore = IF c.op = "after" THEN c.n ELSE t[x].ignore
<1>1. /\ DOMAIN Changed(t, c) = IF c.op = "delete" THEN DOMAIN t \ {c.id} ELSE DOMAIN t
      /\ x \in DOMAIN t
  BY ChangedEffect
<1>2. PICK id : id = c.id
  OBVIOUS
<1>3. t \in [DOMAIN t -> GdbBreakpoint] /\ id \in DOMAIN t /\ t[id] \in GdbBreakpoint
  <2>1. t \in [DOMAIN t -> GdbBreakpoint]
    BY TableFacts DEF IsTable
  <2> QED
    BY <1>2, <2>1
<1>4. CASE c.op = "delete"
  <2>1. Changed(t, c) = [y \in DOMAIN t \intersect (DOMAIN t \ {id}) |-> t[y]]
    BY <1>2, <1>4 DEF Changed, Without, Restrict
  <2>2. u = t[x]
    BY <1>1, <1>2, <1>4, <2>1
  <2> QED
    BY <1>1, <1>2, <1>4, <2>2
<1>5. ASSUME NEW b, Changed(t, c) = [t EXCEPT ![id] = b]
      PROVE  u = IF x = id THEN b ELSE t[x]
  BY <1>1, <1>5
<1>6. CASE c.op \in {"enable", "disable"}
  <2>1. PICK b : b = [t[id] EXCEPT !.enabled = (c.op = "enable")]
    OBVIOUS
  <2>2. b.loc = t[id].loc /\ b.enabled = (c.op = "enable") /\ b.script = t[id].script
        /\ b.ignore = t[id].ignore
    BY <1>3, <2>1 DEF GdbBreakpoint
  <2>3. Changed(t, c) = [t EXCEPT ![id] = b]
    <3>1. CASE c.op = "enable"
      <4>1. b = [t[id] EXCEPT !.enabled = TRUE]
        BY <2>1, <3>1
      <4> QED
        BY <1>2, <3>1, <4>1 DEF Changed
    <3>2. CASE c.op = "disable"
      <4>1. b = [t[id] EXCEPT !.enabled = FALSE]
        BY <2>1, <3>2
      <4> QED
        BY <1>2, <3>2, <4>1 DEF Changed
    <3> QED
      BY <1>6, <3>1, <3>2
  <2> QED
    BY <1>1, <1>2, <1>5, <1>6, <2>2, <2>3
<1>7. CASE c.op = "after"
  <2>1. PICK b : b = [t[id] EXCEPT !.ignore = c.n]
    OBVIOUS
  <2>2. b.loc = t[id].loc /\ b.enabled = t[id].enabled /\ b.script = t[id].script
        /\ b.ignore = c.n
    BY <1>3, <2>1 DEF GdbBreakpoint
  <2>3. Changed(t, c) = [t EXCEPT ![id] = b]
    BY <1>2, <1>7, <2>1 DEF Changed
  <2> QED
    BY <1>1, <1>2, <1>5, <1>7, <2>2, <2>3
<1>8. CASE c.op = "commands"
  <2>1. PICK b : b = [t[id] EXCEPT !.script = c.yes]
    OBVIOUS
  <2>2. b.loc = t[id].loc /\ b.enabled = t[id].enabled /\ b.script = c.yes
        /\ b.ignore = t[id].ignore
    BY <1>3, <2>1 DEF GdbBreakpoint
  <2>3. Changed(t, c) = [t EXCEPT ![id] = b]
    BY <1>2, <1>8, <2>1 DEF Changed
  <2> QED
    BY <1>1, <1>2, <1>5, <1>8, <2>2, <2>3
<1> QED
  BY <1>4, <1>6, <1>7, <1>8

(* The commands of a countpoint ask for what was chosen.                   *)
LEMMA CommandsAsk ==
    ASSUME IInv, CacheChosen, NEW id \in DOMAIN gdb.table, Here(gdb.table[id]),
           ~Done("insert"), NEW c \in Asked, c.op = "commands", c.id = id
    PROVE  c.yes = wanted[gdb.table[id].loc].count
<1>1. id \in DOMAIN n.cache /\ n.cache[id].loc = gdb.table[id].loc
  <2>1. CacheInv
    BY DEF IInv
  <2> QED
    BY <2>1 DEF CacheInv
<1>2. CacheChose(id)
  BY <1>1 DEF CacheChosen, Here
<1> QED
  BY <1>1, <1>2 DEF CacheChose

LEMMA ChangesKeep ==
    ASSUME IInv, Choices, NEW op \in {"delete", "enable", "disable", "after", "commands"},
           GdbChanges(op)
    PROVE  Choices'
<1>0. PICK h, t : h = n.queue[1] /\ t = Changed(gdb.table, h)
  OBVIOUS
<1>1. /\ Reads(op) /\ n.queue \in Seq(Command) /\ n.queue # <<>> /\ gdb \in Gdb
      /\ h \in Command /\ h.op = op /\ Head(n.queue) = h
      /\ n' = n /\ wanted' = wanted /\ may' = may /\ gdb.inferior # "running"
  <2>1. /\ Reads(op) /\ n.queue \in Seq(Command) /\ n.queue # <<>> /\ gdb \in Gdb
        /\ Head(n.queue).op = op
    BY DEF GdbChanges, Reads, IInv, Typed, Nemiver
  <2> QED
    BY <1>0, <2>1, Ends DEF Reads
<1>2. CASE h.id \in DOMAIN gdb.table
  <2>1. gdb' = [gdb EXCEPT !.table = t] /\ Says("done", Nothing)
    BY <1>0, <1>1, <1>2 DEF GdbChanges
  <2>2. /\ gdb.table \in Tables(GdbBreakpoint) /\ t \in Tables(GdbBreakpoint)
        /\ DOMAIN t = IF op = "delete" THEN DOMAIN gdb.table \ {h.id} ELSE DOMAIN gdb.table
    <3>1. gdb.table \in Tables(GdbBreakpoint)
      BY <1>1, GdbFields
    <3> QED
      BY <1>0, <1>1, <1>2, <3>1, ChangedEffect
  <2>3. /\ gdb' \in Gdb /\ gdb'.table = t /\ gdb'.next = gdb.next
        /\ gdb'.inferior = gdb.inferior
    <3>1. PICK u : u = t
      OBVIOUS
    <3>2. gdb' = [gdb EXCEPT !.table = u] /\ u \in Tables(GdbBreakpoint)
      BY <2>1, <2>2, <3>1
    <3> QED
      BY <1>1, <3>1, <3>2 DEF Gdb
  <2>4. \A x \in DOMAIN t :
           /\ x \in DOMAIN gdb.table
           /\ x # h.id => t[x] = gdb.table[x]
           /\ x = h.id =>
                 /\ h.op # "delete" /\ t[x].loc = gdb.table[x].loc
                 /\ t[x].enabled = IF h.op \in {"enable", "disable"} THEN h.op = "enable"
                                   ELSE gdb.table[x].enabled
                 /\ t[x].script = IF h.op = "commands" THEN h.yes ELSE gdb.table[x].script
                 /\ t[x].ignore = IF h.op = "after" THEN h.n ELSE gdb.table[x].ignore
    BY <1>0, <1>1, <1>2, <2>2, ChangedFields
  <2>5. /\ \A o : ~Done(o)
        /\ \A o : Done(o)' <=> o = op
        /\ Coming = Asked /\ h \in Coming /\ Coming' \in SUBSET Coming
        /\ \A c \in Coming : c = h \/ c \in Coming'
    BY <1>0, <1>1, <2>1, <2>3, NothingSaid, Replies, HeadAnswered
  <2>6. First' = First
    BY <2>3, <2>5 DEF First
  <2>7. ASSUME "ignore" \notin may, NEW x \in DOMAIN t PROVE t[x].ignore = 0
    <3>1. /\ \A c \in Asked : c.op = "after" => c.n = 0
          /\ \A id \in DOMAIN gdb.table : gdb.table[id].ignore = 0
      BY <2>7 DEF Choices, FeaturesChosen
    <3>2. x \in DOMAIN gdb.table /\ t[x].ignore \in {gdb.table[x].ignore, h.n}
          /\ (t[x].ignore # gdb.table[x].ignore => h.op = "after")
      BY <2>4
    <3> QED
      BY <2>5, <3>1, <3>2
  <2>8. ASSUME NEW x \in DOMAIN t, Here(t[x]) PROVE TableChose(x)'
    <3>1. x \in DOMAIN gdb.table /\ t[x].loc = gdb.table[x].loc /\ TableChose(x)
          /\ Here(gdb.table[x])
      BY <2>4, <2>8 DEF Choices, TableChosen, Here
    <3>2. CASE x # h.id
      BY <1>1, <2>3, <2>4, <2>5, <3>1, <3>2, TableKept
    <3>3. CASE x = h.id
      <4>1. PICK w, b, u : w = wanted[gdb.table[x].loc] /\ b = gdb.table[x] /\ u = t[x]
        OBVIOUS
      <4>2. h.op = "commands" => h.yes = w.count
        BY <2>5, <3>1, <3>3, <4>1, CommandsAsk DEF Choices
      <4>3. /\ h.op \in {"enable", "disable"} => w.enabled = (h.op = "enable")
            /\ h.op = "after" => h.n = w.initial
        BY <2>5, <3>1, <3>3, <4>1 DEF TableChose
      <4>4. /\ u.enabled = IF h.op \in {"enable", "disable"} THEN h.op = "enable" ELSE b.enabled
            /\ u.script = IF h.op = "commands" THEN h.yes ELSE b.script
            /\ u.ignore = IF h.op = "after" THEN h.n ELSE b.ignore
        BY <2>4, <3>3, <4>1
      <4>5. /\ u.enabled = w.enabled
                 \/ \E c \in Coming' : c.op \in {"enable", "disable"} /\ c.id = x
            /\ \A c \in Coming' : c.op \in {"enable", "disable"} /\ c.id = x =>
                  w.enabled = (c.op = "enable")
        BY <2>5, <3>1, <4>1, <4>3, <4>4 DEF TableChose
      <4>6. u.script = w.count \/ \E c \in Coming' : c.op = "commands" /\ c.id = x
        BY <2>5, <3>1, <4>1, <4>2, <4>4 DEF TableChose
      <4>7. /\ \A c \in Coming' : c.op = "after" /\ c.id = x => c.n = w.initial
            /\ \/ \A c \in Coming' : c.op # "run"
               \/ u.ignore = w.initial
               \/ \E c \in Coming' : c.op = "after" /\ c.id = x
        BY <2>5, <3>1, <4>1, <4>3, <4>4 DEF TableChose
      <4>8. gdb'.table[x] = u /\ wanted'[gdb'.table[x].loc] = w
        BY <1>1, <2>3, <3>1, <4>1
      <4> QED
        BY <4>5, <4>6, <4>7, <4>8 DEF TableChose
    <3> QED
      BY <3>2, <3>3
  <2>9. gdb'.inferior # "running" /\ gdb'.table = t
    BY <1>1, <2>3
  <2> QED
    BY <1>1, <2>1, <2>3, <2>6, <2>7, <2>8, <2>9, NothingSaid, Answer
<1>3. CASE h.id \notin DOMAIN gdb.table
  <2>1. gdb' = gdb /\ Says("error", Nothing)
    BY <1>0, <1>1, <1>3 DEF GdbChanges
  <2>2. Gone'
    BY <1>0, <1>1, <1>3, <2>1 DEF Gone
  <2>3. \A id \in DOMAIN gdb.table : n.queue[1].id # id
    BY <1>0, <1>3
  <2> QED
    BY <1>1, <2>1, <2>2, <2>3, NothingSaid, AnswerOnly
<1> QED
  BY <1>2, <1>3

LEMMA InsertsKeep ==
    ASSUME IInv, IInv', Choices, BreakpointsAssumption, GdbInserts
    PROVE  Choices'
<1>0. PICK c, k, b, bps :
          /\ c = n.queue[1] /\ k = gdb.next
          /\ b = [loc |-> c.loc, enabled |-> TRUE, script |-> FALSE, ignore |-> c.n, times |-> 0]
          /\ bps = One(k, Parsed(b))
  OBVIOUS
<1>1. /\ Reads("insert") /\ n.queue \in Seq(Command) /\ n.queue # <<>> /\ gdb \in Gdb
      /\ c \in Command /\ c.op = "insert" /\ Head(n.queue) = c /\ 1 \in 1..Len(n.queue)
      /\ n' = n /\ wanted' = wanted /\ may' = may /\ gdb.inferior # "running"
      /\ gdb' \in Gdb /\ k \in Int
  <2>1. /\ Reads("insert") /\ n.queue \in Seq(Command) /\ n.queue # <<>> /\ gdb \in Gdb
        /\ Head(n.queue).op = "insert" /\ gdb' \in Gdb
    BY DEF GdbInserts, Reads, IInv, Typed, Nemiver
  <2>2. k \in Int
    BY <1>0, <2>1 DEF Gdb
  <2> QED
    BY <1>0, <2>1, <2>2, Ends DEF Reads
<1>2. /\ b \in GdbBreakpoint /\ b.loc = c.loc /\ b.enabled = TRUE /\ b.script = FALSE
      /\ b.ignore = c.n /\ b.times = 0 /\ c.n \in Nat
  <2>1. c.loc \in Locs /\ c.n \in Nat
    BY <1>1, CommandFacts
  <2> QED
    BY <1>0, <2>1 DEF GdbBreakpoint
<1>3. /\ gdb' = [gdb EXCEPT !.table = Over(gdb.table, One(k, b)), !.next = k + 1]
      /\ Says("done", bps)
  BY <1>0, <1>1 DEF GdbInserts
<1>4. /\ gdb'.table = Over(gdb.table, One(k, b)) /\ gdb'.next = k + 1
      /\ gdb'.inferior = gdb.inferior
  BY <1>1, <1>3 DEF Gdb
<1>5. /\ DOMAIN gdb'.table = DOMAIN gdb.table \union {k} /\ gdb'.table[k] = b
      /\ \A x \in DOMAIN gdb.table \ {k} : gdb'.table[x] = gdb.table[x]
  <2>0. PICK one : one = One(k, b)
    OBVIOUS
  <2>1. DOMAIN one = {k} /\ one[k] = b
    BY <2>0 DEF One
  <2> QED
    BY <1>4, <2>0, <2>1 DEF Over
<1>6. k \in Ids
  <2>1. DOMAIN gdb'.table \subseteq Ids
    BY <1>1, GdbFields DEF IsTable
  <2> QED
    BY <1>5, <2>1
<1>7. /\ bps \in Tables(Breakpoint) /\ \A id \in DOMAIN bps : bps[id].initial = c.n
  <2>1. Parsed(b) \in Breakpoint
    BY <1>2, ParsedType
  <2>2. IsTable(bps, Ids, Breakpoint) /\ DOMAIN bps = {k} /\ bps[k] = Parsed(b)
    BY <1>0, <1>6, <2>1 DEF One, IsTable
  <2>3. Parsed(b).initial = c.n
    BY <1>2 DEF Parsed
  <2> QED
    BY <2>2, <2>3, TableFacts
<1>8. /\ \A o : ~Done(o)
      /\ \A o : Done(o)' <=> o = "insert"
      /\ Coming = Asked /\ Coming' \in SUBSET Coming
      /\ \A x \in Coming : x = c \/ x \in Coming'
  BY <1>0, <1>1, <1>3, <1>7, Replies, HeadAnswered
<1>9. First' = First
  <2>1. First = k /\ First' = gdb'.next - 1
    BY <1>0, <1>8 DEF First
  <2> QED
    BY <1>1, <1>4, <2>1
<1>10. k \notin DOMAIN gdb.table
  <2>1. DOMAIN gdb.table \subseteq 1..(k - 1)
    BY <1>0 DEF IInv, CacheInv
  <2> QED
    BY <1>1, <2>1
<1>11. /\ AsChosen(c)
       /\ \A x \in Coming : x.op \in {"insert", "run", "list"}
  <2>1. AsChosen(n.queue[1])
    BY <1>0, <1>1 DEF Choices, InsertsChosen
  <2>2. \A j \in 1..Len(n.queue) : n.queue[j].op \in {"insert", "run", "list"}
    BY <1>0, <1>1 DEF Choices, Turns
  <2> QED
    BY <1>0, <1>8, <2>1, <2>2 DEF Asked
<1>12. TableChose(k)'
  <2>1. gdb'.table[k] = b /\ wanted'[b.loc] = wanted[c.loc] /\ b.loc = c.loc
    BY <1>1, <1>2, <1>5
  <2>2. gdb'.next - 1 = k /\ Done("insert")' /\ n'.queue[1] = c
    BY <1>0, <1>1, <1>4, <1>8
  <2>3. /\ wanted[c.loc].enabled = TRUE /\ c.count = wanted[c.loc].count
        /\ c.n = wanted[c.loc].initial
    <3>1. may \in Scenarios /\ IsTable(wanted, Locs, Breakpoint)
      BY DEF IInv, Typed
    <3>2. wanted[c.loc] \in Breakpoint
      BY <1>11, <3>1 DEF AsChosen, IsTable
    <3> QED
      BY <1>11, <3>2 DEF AsChosen, Breakpoint
  <2>4. c.count \in BOOLEAN
    BY <1>1, CommandFacts
  <2>5. c.count = FALSE => b.script = wanted[c.loc].count
    BY <1>2, <2>3
  <2>6. b.ignore = wanted[c.loc].initial /\ b.enabled = wanted[c.loc].enabled
    BY <1>2, <2>3
  <2>7. \A x \in Coming' : x.op \notin {"enable", "disable", "after"}
    BY <1>8, <1>11
  <2> QED
    BY <2>1, <2>2, <2>4, <2>5, <2>6, <2>7 DEF TableChose
<1>13. ASSUME NEW x \in DOMAIN gdb'.table, Here(gdb'.table[x]) PROVE TableChose(x)'
  <2>1. CASE x = k
    BY <1>12, <2>1
  <2>2. CASE x # k
    <3>1. x \in DOMAIN gdb.table /\ gdb'.table[x] = gdb.table[x]
      BY <1>5, <2>2
    <3>2. TableChose(x)
      BY <1>13, <3>1 DEF Choices, TableChosen
    <3>3. \A y \in Coming : y \in Coming' \/ y.op \notin {"enable", "disable", "commands", "after"}
      BY <1>8, <1>11
    <3> QED
      BY <1>1, <1>8, <3>1, <3>2, <3>3, TableKept
  <2> QED
    BY <2>1, <2>2
<1>14. ASSUME "ignore" \notin may, NEW x \in DOMAIN gdb'.table PROVE gdb'.table[x].ignore = 0
  <2>1. /\ \A loc \in DOMAIN wanted : wanted[loc].initial = 0
        /\ \A id \in DOMAIN gdb.table : gdb.table[id].ignore = 0
    BY <1>14 DEF Choices, FeaturesChosen
  <2>2. b.ignore = 0
    BY <1>2, <1>11, <2>1 DEF AsChosen
  <2> QED
    BY <1>5, <2>1, <2>2
<1>15. gdb'.inferior # "running" /\ \A id \in DOMAIN bps : bps[id].initial = n.queue[1].n
  BY <1>0, <1>1, <1>4, <1>7
<1>16. \A id \in DOMAIN gdb'.table : Here(gdb'.table[id]) => TableChose(id)'
  BY <1>13
<1>17. "ignore" \notin may => \A id \in DOMAIN gdb'.table : gdb'.table[id].ignore = 0
  BY <1>14
<1>18. Reads("insert") /\ Says("done", bps) /\ bps \in Tables(Breakpoint) /\ gdb' \in Gdb
  BY <1>1, <1>3, <1>7
<1> QED
  BY <1>9, <1>15, <1>16, <1>17, <1>18, Answer

LEMMA AnswersKeep ==
    ASSUME IInv, IInv', Choices, BreakpointsAssumption, GdbAnswers
    PROVE  Choices'
BY InsertsKeep, ListsKeep, RunsKeep, ContinuesKeep, ChangesKeep DEF GdbAnswers

-----------------------------------------------------------------------------
(* The program runs.                                                       *)

LEMMA HaltsKeep ==
    ASSUME IInv, Choices, Halts
    PROVE  Choices'
<1>1. /\ n' = n /\ out' = out /\ wanted' = wanted /\ may' = may /\ gdb \in Gdb
      /\ gdb.inferior = "running"
  BY DEF Halts, IInv, Typed
<1>2. PICK how \in {"stopped", "none"} : gdb' = [gdb EXCEPT !.inferior = how]
  BY DEF Halts
<1>3. gdb'.table = gdb.table /\ gdb'.next = gdb.next /\ gdb'.inferior # "running"
  BY <1>1, <1>2 DEF Gdb
<1>4. /\ \A o : Done(o)' <=> Done(o)
      /\ Coming' = Coming /\ Gone' = Gone
  BY <1>1, <1>3 DEF Done, Coming, Answered, Gone
<1>5. First' = First
  BY <1>3, <1>4 DEF First
<1>6. "ignore" \notin may => \A id \in DOMAIN gdb'.table : gdb'.table[id].ignore = 0
  BY <1>3 DEF Choices, FeaturesChosen
<1>7. /\ Turns(n.queue)' /\ InsertsChosen' /\ LinesChosen' /\ FeaturesChosen'
      /\ CacheChosen' /\ Asked' = Asked
  BY <1>1, <1>5, <1>6, NemiverKept
<1>8. TableChosen'
  <2>1. \A id : TableChose(id)' <=> TableChose(id)
    BY <1>1, <1>3, <1>4 DEF TableChose
  <2> QED
    BY <1>1, <1>3, <2>1 DEF Choices, TableChosen, Here
<1>9. OutChosen'
  BY <1>1, <1>3, <1>4, <1>7 DEF Choices, OutChosen
<1> QED
  BY <1>7, <1>8, <1>9 DEF Choices

LEMMA StuttersKeep ==
    ASSUME Choices, UNCHANGED vars
    PROVE  Choices'
<1>1. n' = n /\ gdb' = gdb /\ out' = out /\ wanted' = wanted /\ may' = may
  BY DEF vars
<1>2. /\ \A o : Done(o)' <=> Done(o)
      /\ Coming' = Coming /\ Gone' = Gone
  BY <1>1 DEF Done, Coming, Answered, Gone
<1>3. First' = First
  BY <1>1, <1>2 DEF First
<1>4. "ignore" \notin may => \A id \in DOMAIN gdb'.table : gdb'.table[id].ignore = 0
  BY <1>1 DEF Choices, FeaturesChosen
<1>5. /\ Turns(n.queue)' /\ InsertsChosen' /\ LinesChosen' /\ FeaturesChosen'
      /\ CacheChosen' /\ Asked' = Asked
  BY <1>1, <1>3, <1>4, NemiverKept
<1>6. TableChosen'
  <2>1. \A id : TableChose(id)' <=> TableChose(id)
    BY <1>1, <1>2 DEF TableChose
  <2> QED
    BY <1>1, <2>1 DEF Choices, TableChosen, Here
<1>7. OutChosen'
  BY <1>1, <1>2, <1>5 DEF Choices, OutChosen
<1> QED
  BY <1>5, <1>6, <1>7 DEF Choices

(* While the program runs, what GDB answered made it run, and the queue    *)
(* has nothing else but lists.                                             *)
LEMMA AskedWhileRunning ==
    ASSUME IInv, Choices, gdb.inferior = "running"
    PROVE  \A c \in Asked : Ordinary(c.op)
<1> SUFFICES ASSUME NEW i \in 1..Len(n.queue) PROVE Ordinary(n.queue[i].op)
  BY DEF Asked
<1>1. CASE i = 1 /\ Answered
  <2>1. n.queue[1].op \in {"run", "continue"}
    BY <1>1, OnlyRunning DEF Answered
  <2> QED
    BY <1>1, <2>1 DEF Ordinary
<1>2. CASE ~(i = 1 /\ Answered)
  <2>1. n.queue[i] \in Coming
    BY <1>2 DEF Coming
  <2> QED
    BY <2>1 DEF Choices, OutChosen, Ordinary
<1> QED
  BY <1>1, <1>2

LEMMA HitsKeep ==
    ASSUME IInv, Choices, BreakpointsAssumption, NEW id \in DOMAIN gdb.table, Hit(id)
    PROVE  Choices'
<1>0. PICK b, k, hit, stop, notify, t, how :
          /\ b = gdb.table[id] /\ k = IF b.ignore > 0 THEN b.ignore - 1 ELSE 0
          /\ hit = [b EXCEPT !.times = @ + 1, !.ignore = k]
          /\ stop = (b.ignore = 0 /\ ~b.script) /\ notify = ("notify" \in may)
          /\ t = [gdb.table EXCEPT ![id] = hit]
          /\ how = (IF stop THEN "stopped" ELSE gdb.inferior)
  OBVIOUS
<1>1. /\ gdb \in Gdb /\ gdb.inferior = "running"
      /\ n' = n /\ wanted' = wanted /\ may' = may /\ out \in Seq(Record)
      /\ stop \in BOOLEAN /\ notify \in BOOLEAN
  BY <1>0 DEF Hit, IInv, Typed
<1>2. /\ gdb.table \in [DOMAIN gdb.table -> GdbBreakpoint] /\ DOMAIN gdb.table \subseteq Ids
      /\ b \in GdbBreakpoint /\ id \in Ids
  <2>1. IsTable(gdb.table, Ids, GdbBreakpoint)
    BY <1>1, GdbFields
  <2> QED
    BY <1>0, <2>1 DEF IsTable
<1>3. /\ hit \in GdbBreakpoint /\ hit.loc = b.loc /\ hit.enabled = b.enabled
      /\ hit.script = b.script /\ hit.ignore = k
  <2>1. b.ignore \in Nat /\ b.times \in Nat
    BY <1>2 DEF GdbBreakpoint
  <2>2. k \in Nat /\ b.times + 1 \in Nat
    BY <1>0, <2>1
  <2>3. PICK c : c = [b EXCEPT !.times = b.times + 1]
    OBVIOUS
  <2>4. c \in GdbBreakpoint /\ c.loc = b.loc /\ c.enabled = b.enabled /\ c.script = b.script
    BY <1>2, <2>2, <2>3 DEF GdbBreakpoint
  <2>5. hit = [c EXCEPT !.ignore = k]
    BY <1>0, <2>3
  <2> QED
    BY <2>2, <2>4, <2>5 DEF GdbBreakpoint
<1>4. /\ DOMAIN t = DOMAIN gdb.table /\ t[id] = hit
      /\ \A x \in DOMAIN t \ {id} : t[x] = gdb.table[x]
  BY <1>0, <1>2
<1>5. gdb'.table = t /\ gdb'.next = gdb.next
  <2>1. gdb' = [gdb EXCEPT !.table = t, !.inferior = how]
    BY <1>0 DEF Hit
  <2> QED
    BY <1>1, <2>1 DEF Gdb
<1>6. ASSUME "ignore" \notin may
      PROVE  Parsed(hit).initial = 0 /\ \A x \in DOMAIN t : t[x].ignore = 0
  <2>1. \A x \in DOMAIN gdb.table : gdb.table[x].ignore = 0
    BY <1>6 DEF Choices, FeaturesChosen
  <2>2. b.ignore = 0
    BY <1>0, <2>1
  <2>3. k = 0
    BY <1>0, <2>2
  <2> QED
    BY <1>3, <1>4, <2>1, <2>3 DEF Parsed
<1>7. /\ \A i \in 1..Len(out) : i \in 1..Len(out') /\ out'[i] = out[i]
      /\ \A i \in 1..Len(out') :
            \/ i \in 1..Len(out) /\ out'[i] = out[i]
            \/ /\ out'[i].kind = "modified" /\ out'[i].bps = One(id, Parsed(hit))
               /\ "notify" \in may
            \/ out'[i].kind = "stopped"
  <2>1. PICK m, s, told, ends, new :
            /\ m = [kind |-> "modified", bps |-> One(id, Parsed(hit))]
            /\ s = [kind |-> "stopped", bps |-> Nothing]
            /\ told = IF notify THEN <<m>> ELSE <<>>
            /\ ends = IF stop THEN <<s>> ELSE <<>>
            /\ new = out'
    OBVIOUS
  <2>2. One(id, Parsed(hit)) \in Tables(Breakpoint)
    <3>1. Parsed(hit) \in Breakpoint
      BY <1>3, ParsedType
    <3>2. IsTable(One(id, Parsed(hit)), Ids, Breakpoint)
      BY <1>2, <3>1, Single
    <3> QED
      BY <3>2, TableFacts
  <2>3. /\ m \in Record /\ m.kind = "modified" /\ m.bps = One(id, Parsed(hit))
        /\ s \in Record /\ s.kind = "stopped"
    BY <2>1, <2>2, NothingSaid DEF Record
  <2>4. new = (out \o told) \o ends
    BY <1>0, <2>1 DEF Hit
  <2>5. (told = <<m>> \/ told = <<>>) /\ (ends = <<s>> \/ ends = <<>>)
    BY <2>1
  <2>6. /\ told \in Seq(Record) /\ ends \in Seq(Record)
        /\ AllAre(told, m) /\ AllAre(ends, s)
    BY <2>3, <2>5, HitPrints
  <2>7. PrintsMore(out, new, m, s)
    BY <1>1, <2>4, <2>6, Printed
  <2>8. ~notify => PrintsMore(out, new, s, s)
    <3> SUFFICES ASSUME ~notify PROVE PrintsMore(out, new, s, s)
      OBVIOUS
    <3>1. told = <<>>
      BY <2>1
    <3>2. told \in Seq(Record) /\ Len(told) = 0
      BY <3>1
    <3>3. AllAre(told, s)
      BY <3>2 DEF AllAre
    <3> QED
      BY <1>1, <2>4, <2>6, <3>3, Printed
  <2>9. new = out' /\ (notify <=> "notify" \in may)
    BY <1>0, <2>1
  <2>10. /\ \A i \in 1..Len(out) : i \in 1..Len(new) /\ new[i] = out[i]
         /\ \A i \in 1..Len(new) :
               (i \in 1..Len(out) /\ new[i] = out[i]) \/ new[i] = m \/ new[i] = s
    BY <2>7 DEF PrintsMore
  <2>11. ~notify => \A i \in 1..Len(new) : (i \in 1..Len(out) /\ new[i] = out[i]) \/ new[i] = s
    BY <2>8 DEF PrintsMore
  <2> QED
    BY <2>3, <2>9, <2>10, <2>11
<1>8. /\ \A o : Done(o)' <=> Done(o)
      /\ Answered' <=> Answered
  BY <1>1, <1>7 DEF Done, Answered
<1>9. Coming' = Coming /\ First' = First
  BY <1>1, <1>5, <1>8 DEF Coming, First
<1>10. /\ Turns(n.queue)' /\ InsertsChosen' /\ LinesChosen' /\ FeaturesChosen'
       /\ CacheChosen' /\ Asked' = Asked
  BY <1>1, <1>5, <1>6, <1>9, NemiverKept
<1>11. \A c \in Coming : c.op = "list"
  BY <1>1 DEF Choices, OutChosen
<1>12. TableChosen'
  <2> SUFFICES ASSUME NEW x \in DOMAIN t, Here(t[x]) PROVE TableChose(x)'
    BY <1>1, <1>5 DEF TableChosen, Here
  <2>1. /\ x \in DOMAIN gdb.table /\ t[x].loc = gdb.table[x].loc
        /\ t[x].enabled = gdb.table[x].enabled /\ t[x].script = gdb.table[x].script
    BY <1>0, <1>3, <1>4
  <2>2. TableChose(x)
    BY <2>1 DEF Choices, TableChosen, Here
  <2>3. ~Done("insert")
    BY <1>1, OnlyRunning
  <2> QED
    BY <1>1, <1>5, <1>9, <1>11, <2>1, <2>2, <2>3 DEF TableChose
<1>13. OutChosen'
  <2>1. OutChosen /\ \A c \in Asked : Ordinary(c.op)
    BY <1>1, AskedWhileRunning DEF Choices
  <2> SUFFICES ASSUME NEW j \in 1..Len(out'), NEW r, r = out'[j]
               PROVE  /\ r.kind = "modified" =>
                            /\ "notify" \in may'
                            /\ "ignore" \notin may' =>
                                  \A x \in DOMAIN r.bps : r.bps[x].initial = 0
                      /\ r.kind = "done" /\ n'.queue[1].op = "insert" =>
                            \A x \in DOMAIN r.bps : r.bps[x].initial = n'.queue[1].n
                      /\ r.kind = "error" /\ n'.queue[1].op = "delete" => Gone'
    BY <1>9, <1>10, <1>11, <2>1 DEF OutChosen
  <2>2. CASE j \in 1..Len(out) /\ r = out[j]
    <3>1. Gone' = Gone
      BY <1>1, <1>4, <1>5 DEF Gone
    <3> QED
      BY <1>1, <2>1, <2>2, <3>1 DEF OutChosen
  <2>3. CASE r.kind = "modified" /\ r.bps = One(id, Parsed(hit)) /\ "notify" \in may
    <3>1. "ignore" \notin may => \A x \in DOMAIN r.bps : r.bps[x].initial = 0
      BY <1>6, <2>3 DEF One
    <3> QED
      BY <1>1, <2>3, <3>1
  <2>4. CASE r.kind = "stopped"
    BY <2>4
  <2> QED
    BY <1>7, <2>2, <2>3, <2>4
<1> QED
  BY <1>10, <1>12, <1>13 DEF Choices

-----------------------------------------------------------------------------
(* The user, who waits until all is answered.                              *)

(* All is answered: Nemiver and GDB have what the user chose.              *)
Settled ==
    /\ DOMAIN n.cache = DOMAIN gdb.table /\ n.shown = n.cache
    /\ \A x \in DOMAIN n.cache :
          /\ x \in Ids /\ n.cache[x] \in Breakpoint
          /\ n.cache[x].loc \in DOMAIN wanted /\ n.cache[x] = wanted[n.cache[x].loc]
          /\ gdb.table[x].loc = n.cache[x].loc /\ gdb.table[x].enabled = n.cache[x].enabled
          /\ gdb.table[x].script = n.cache[x].count
          /\ \A other \in DOMAIN n.cache : n.cache[other].loc = n.cache[x].loc => other = x
    /\ \A loc \in DOMAIN wanted :
          /\ wanted[loc] \in Breakpoint /\ wanted[loc].loc = loc
          /\ \E x \in DOMAIN n.cache : n.cache[x].loc = loc

LEMMA WhenSettled ==
    ASSUME IInv, Choices, Quiet
    PROVE  Settled
<1>1. /\ n.queue = <<>> /\ out = <<>> /\ Len(n.queue) = 0 /\ 1..Len(n.queue) = {}
  <2>1. n.queue = <<>> /\ out = <<>>
    BY DEF Quiet
  <2>2. Len(n.queue) = 0
    BY <2>1
  <2>3. 1..0 = {}
    OBVIOUS
  <2> QED
    BY <2>1, <2>2, <2>3
<1>2. /\ DOMAIN n.cache = DOMAIN gdb.table /\ n.shown = n.cache
      /\ \A x \in DOMAIN n.cache : /\ n.cache[x].loc = gdb.table[x].loc
                                   /\ n.cache[x].enabled = gdb.table[x].enabled
      /\ \A o : ~Done(o)
  BY WhenQuiet DEF CacheIsGdbs, ShownIsCached
<1>3. /\ Asked = {} /\ Coming = {} /\ ~Listing(n.queue) /\ \A x : ~Commanding(n.queue, x) /\ ~Deleting(x)
  BY <1>1 DEF Asked, Coming, Listing, Commanding, Deleting
<1>4. IsTable(wanted, Locs, Breakpoint) /\ IsTable(n.cache, Ids, Breakpoint)
  BY TableFacts DEF IInv, Typed, Nemiver
<1>5. LinesChosen /\ CacheChosen /\ TableChosen
  BY DEF Choices
<1>6. ASSUME NEW loc \in DOMAIN wanted
      PROVE  /\ wanted[loc] \in Breakpoint /\ wanted[loc].loc = loc
             /\ \E x \in DOMAIN n.cache : n.cache[x].loc = loc
  BY <1>3, <1>4, <1>5 DEF LinesChosen, IsTable
<1>7. ASSUME NEW x \in DOMAIN n.cache
      PROVE  /\ x \in Ids /\ n.cache[x] \in Breakpoint
             /\ n.cache[x].loc \in DOMAIN wanted /\ n.cache[x] = wanted[n.cache[x].loc]
             /\ gdb.table[x].script = n.cache[x].count
             /\ \A other \in DOMAIN n.cache : n.cache[other].loc = n.cache[x].loc => other = x
  <2>1. /\ x \in Ids /\ n.cache[x] \in Breakpoint /\ n.cache[x].loc \in DOMAIN wanted
        /\ \A other \in DOMAIN n.cache : n.cache[other].loc = n.cache[x].loc => other = x
    BY <1>3, <1>4, <1>5 DEF LinesChosen, IsTable
  <2>2. PICK w : w = wanted[n.cache[x].loc]
    OBVIOUS
  <2>3. w \in Breakpoint /\ w.loc = n.cache[x].loc
    BY <1>6, <2>1, <2>2
  <2>4. CacheChose(x) /\ TableChose(x)
    BY <1>2, <1>5, <2>1 DEF CacheChosen, TableChosen, Here
  <2>5. n.cache[x].enabled = w.enabled /\ n.cache[x].count = w.count /\ n.cache[x].initial = w.initial
    BY <1>3, <2>2, <2>4 DEF CacheChose
  <2>6. gdb.table[x].script = w.count
    BY <1>2, <1>3, <2>2, <2>4 DEF TableChose
  <2>7. n.cache[x] = w
    BY <2>1, <2>3, <2>5, SameBreakpoint
  <2> QED
    BY <2>1, <2>2, <2>6, <2>7
<1> QED
  BY <1>2, <1>6, <1>7 DEF Settled

(* Breakpoint x, cached as v and in GDB as b, is wanted as w, and queue q  *)
(* asks for what is missing.                                               *)
Asking(q, x, v, b, w) ==
    /\ v.loc = b.loc /\ v.initial = w.initial
    /\ v.enabled = w.enabled \/ Listing(q)
    /\ v.count = w.count \/ Commanding(q, x)
    /\ b.enabled = w.enabled
          \/ \E i \in 1..Len(q) : q[i].op \in {"enable", "disable"} /\ q[i].id = x
    /\ b.script = w.count \/ Commanding(q, x)
    /\ \A i \in 1..Len(q) :
          /\ q[i].op = "commands" /\ q[i].id = x => q[i].yes = w.count /\ q[i].yes # v.count
          /\ q[i].op \in {"enable", "disable"} /\ q[i].id = x =>
                w.enabled = (q[i].op = "enable")
          /\ q[i].op = "after" /\ q[i].id = x => q[i].n = w.initial
    /\ \/ \A i \in 1..Len(q) : q[i].op # "run"
       \/ b.ignore = w.initial
       \/ \E i \in 1..Len(q) : q[i].op = "after" /\ q[i].id = x

(* What the user presses: commands to a GDB that has answered all.         *)
LEMMA Pressed ==
    ASSUME IInv, Quiet, gdb' = gdb, out' = out, gdb.inferior # "running"
    PROVE  /\ \A o : ~Done(o)'
           /\ First' = gdb.next /\ Coming' = Asked' /\ OutChosen'
<1>1. out = <<>> /\ Len(out) = 0 /\ 1..Len(out) = {}
  <2>1. out = <<>> /\ 1..0 = {}
    BY DEF Quiet
  <2>2. Len(out) = 0
    BY <2>1
  <2> QED
    BY <2>1, <2>2
<1>2. ~Answered' /\ \A o : ~Done(o)'
  BY <1>1 DEF Answered, Done
<1>3. First' = gdb.next
  BY <1>2 DEF First
<1>4. Coming' = Asked'
  BY <1>2 DEF Coming, Asked
<1>5. OutChosen'
  BY <1>1 DEF OutChosen
<1> QED
  BY <1>2, <1>3, <1>4, <1>5

LEMMA Asks ==
    ASSUME IInv, Quiet, gdb' = gdb, out' = out, gdb.inferior # "running",
           Turns(n.queue)', InsertsChosen', LinesChosen', FeaturesChosen',
           DOMAIN n'.cache = DOMAIN gdb.table,
           \A x \in DOMAIN gdb.table : gdb.table[x].loc \in DOMAIN wanted' =>
               Asking(n'.queue, x, n'.cache[x], gdb.table[x], wanted'[gdb.table[x].loc]),
           \A x \in DOMAIN gdb.table : n'.cache[x].loc = gdb.table[x].loc
    PROVE  Choices'
<1>1. /\ \A o : ~Done(o)'
      /\ Coming' = Asked' /\ OutChosen'
  BY Pressed
<1>2. Asked' = {n'.queue[i] : i \in 1..Len(n'.queue)}
  BY DEF Asked
<1>3. ASSUME NEW x \in DOMAIN gdb.table, gdb.table[x].loc \in DOMAIN wanted'
      PROVE  CacheChose(x)' /\ TableChose(x)'
  <2>1. PICK q, v, b, w : /\ q = n'.queue /\ v = n'.cache[x] /\ b = gdb.table[x]
                          /\ w = wanted'[gdb.table[x].loc]
    OBVIOUS
  <2>2. Asking(q, x, v, b, w) /\ v.loc = b.loc
    BY <1>3, <2>1
  <2>3. \A c : c \in Asked' <=> \E i \in 1..Len(q) : c = q[i]
    BY <1>2, <2>1
  <2>4. CacheChose(x)'
    <3>1. \A c \in Asked' : c.op = "commands" /\ c.id = x => c.yes = w.count /\ c.yes # v.count
      BY <2>2, <2>3 DEF Asking
    <3>2. /\ v.enabled = w.enabled \/ Listing(q)
          /\ v.count = w.count \/ Commanding(q, x)
          /\ v.initial = w.initial
      BY <2>2 DEF Asking
    <3>3. n'.cache[x] = v /\ wanted'[n'.cache[x].loc] = w /\ n'.queue = q
      BY <2>1, <2>2
    <3> QED
      BY <3>1, <3>2, <3>3 DEF CacheChose
  <2>5. TableChose(x)'
    <3>1. /\ \A c \in Coming' : c.op \in {"enable", "disable"} /\ c.id = x =>
                w.enabled = (c.op = "enable")
          /\ \A c \in Coming' : c.op = "after" /\ c.id = x => c.n = w.initial
      BY <1>1, <2>2, <2>3 DEF Asking
    <3>2. b.enabled = w.enabled
             \/ \E c \in Coming' : c.op \in {"enable", "disable"} /\ c.id = x
      BY <1>1, <2>2, <2>3 DEF Asking
    <3>3. b.script = w.count \/ \E c \in Coming' : c.op = "commands" /\ c.id = x
      BY <1>1, <2>2, <2>3 DEF Asking, Commanding
    <3>4. \/ \A c \in Coming' : c.op # "run"
          \/ b.ignore = w.initial
          \/ \E c \in Coming' : c.op = "after" /\ c.id = x
      BY <1>1, <2>2, <2>3 DEF Asking
    <3>5. gdb'.table[x] = b /\ wanted'[gdb'.table[x].loc] = w
      BY <2>1
    <3> QED
      BY <3>1, <3>2, <3>3, <3>4, <3>5 DEF TableChose
  <2> QED
    BY <2>4, <2>5
<1>4. CacheChosen'
  BY <1>3 DEF CacheChosen, Here
<1>5. TableChosen'
  BY <1>3 DEF TableChosen, Here
<1> QED
  BY <1>1, <1>4, <1>5 DEF Choices

(* No line is given up, or new.                                            *)
LEMMA LinesStay ==
    ASSUME Settled, DOMAIN wanted' = DOMAIN wanted,
           \A loc \in DOMAIN wanted : wanted'[loc].loc = loc,
           DOMAIN n'.cache = DOMAIN n.cache,
           \A x \in DOMAIN n.cache : n'.cache[x].loc = n.cache[x].loc,
           \A i \in 1..Len(n'.queue) : n'.queue[i].op \notin {"insert", "delete"}
    PROVE  LinesChosen' /\ InsertsChosen'
<1>1. \A x : ~Deleting(x)'
  BY DEF Deleting
<1>2. InsertsChosen'
  BY DEF InsertsChosen
<1>3. \A x \in DOMAIN n'.cache :
          /\ n'.cache[x].loc \in DOMAIN wanted'
          /\ \A other \in DOMAIN n'.cache : n'.cache[other].loc = n'.cache[x].loc => other = x
  BY DEF Settled
<1>4. \A loc \in DOMAIN wanted' : \E x \in DOMAIN n'.cache : n'.cache[x].loc = loc
  BY DEF Settled
<1>5. LinesChosen'
  BY <1>1, <1>3, <1>4 DEF LinesChosen
<1> QED
  BY <1>2, <1>5

LEMMA OneCommand ==
    ASSUME NEW c \in Command, NEW q, q = <<c>>
    PROVE  q \in Seq(Command) /\ Len(q) = 1 /\ q[1] = c /\ \A i \in 1..Len(q) : i = 1
OBVIOUS

LEMMA TwoCommands ==
    ASSUME NEW c \in Command, NEW d \in Command, NEW q, q = <<c, d>>
    PROVE  /\ q \in Seq(Command) /\ Len(q) = 2 /\ q[1] = c /\ q[2] = d
           /\ \A i \in 1..Len(q) : i = 1 \/ i = 2
OBVIOUS

(* Nothing is queued but what is asked for.                                *)
LEMMA AskedAlone ==
    ASSUME IInv, Quiet, NEW cs \in Seq(Command)
    PROVE  n.queue \o cs = cs
<1>1. n.queue = <<>>
  BY DEF Quiet
<1> QED
  BY <1>1

LEMMA ContinueKeeps ==
    ASSUME IInv, Choices, Waits, Continue
    PROVE  Choices'
<1>0. PICK c, q : c = [op |-> "continue"] /\ q = <<c>>
  OBVIOUS
<1>1. c \in Command /\ c.op = "continue"
  BY <1>0, Commands
<1>2. /\ q \in Seq(Command) /\ Len(q) = 1 /\ \A i \in 1..Len(q) : i = 1 /\ q[i] = c
  BY <1>0, <1>1, OneCommand
<1>3. /\ Quiet /\ gdb.inferior # "running" /\ gdb' = gdb /\ out' = out /\ wanted' = wanted
      /\ may' = may /\ n' = Queue(n, q) /\ n \in Nemiver
  BY <1>0 DEF Continue, Free, Press, IInv, Typed
<1>4. n'.queue = q /\ n'.cache = n.cache
  <2>1. Queue(n, q).queue = n.queue \o q /\ Queue(n, q).cache = n.cache
    BY <1>2, <1>3, Queued
  <2> QED
    BY <1>2, <1>3, <2>1, AskedAlone
<1>5. Settled
  BY <1>3, WhenSettled
<1>6. Turns(q)
  BY <1>1, <1>2 DEF Turns
<1>7. \A i \in 1..Len(q) : q[i].op = "continue"
  BY <1>1, <1>2
<1>8. InsertsChosen' /\ LinesChosen'
  BY <1>3, <1>4, <1>5, <1>7, LinesStay DEF Settled
<1>9. \A c_1 \in Asked' : c_1.op = "continue"
  BY <1>4, <1>7 DEF Asked
<1>10. FeaturesChosen'
  BY <1>3, <1>9 DEF Choices, FeaturesChosen
<1>11. ASSUME NEW x \in DOMAIN gdb.table
       PROVE  /\ Asking(q, x, n.cache[x], gdb.table[x], wanted[gdb.table[x].loc])
              /\ n.cache[x].loc = gdb.table[x].loc
  BY <1>5, <1>7 DEF Settled, Asking
<1>12. DOMAIN n'.cache = DOMAIN gdb.table
  BY <1>4, <1>5 DEF Settled
<1> QED
  BY <1>3, <1>4, <1>6, <1>8, <1>10, <1>11, <1>12, Asks

LEMMA Changing ==
    ASSUME Settled, NEW id \in DOMAIN n.shown, NEW b, b.loc = n.cache[id].loc,
           NEW w, w = Change(id, b)
    PROVE  /\ id \in DOMAIN n.cache /\ Wanted(id) = n.cache[id] /\ n.shown[id] = n.cache[id]
           /\ n.cache[id] \in Breakpoint /\ DOMAIN w = DOMAIN wanted
           /\ \A loc \in DOMAIN wanted :
                 w[loc].loc = loc /\ (w[loc] = b \/ w[loc] = wanted[loc])
           /\ \A x \in DOMAIN n.cache : w[n.cache[x].loc] = IF x = id THEN b ELSE n.cache[x]
<1>1. PICK line : line = n.cache[id].loc
  OBVIOUS
<1>2. /\ id \in DOMAIN n.cache /\ n.shown[id] = n.cache[id] /\ n.cache[id] \in Breakpoint
      /\ line \in DOMAIN wanted /\ n.cache[id] = wanted[line]
  BY <1>1 DEF Settled
<1>3. Wanted(id) = n.cache[id]
  BY <1>1, <1>2 DEF Wanted
<1>4. /\ w = [y \in DOMAIN wanted \union {line} |-> IF y \in {line} THEN b ELSE wanted[y]]
  <2>1. DOMAIN One(line, b) = {line} /\ One(line, b)[line] = b
    BY DEF One
  <2>2. w = Over(wanted, One(line, b))
    BY <1>1, <1>2 DEF Change
  <2>3. w = [y \in DOMAIN wanted \union {line} |->
                IF y \in {line} THEN One(line, b)[y] ELSE wanted[y]]
    BY <2>1, <2>2 DEF Over
  <2> QED
    BY <2>1, <2>3
<1>5. DOMAIN w = DOMAIN wanted
  BY <1>2, <1>4
<1>6. \A y \in DOMAIN wanted : w[y] = IF y = line THEN b ELSE wanted[y]
  BY <1>4
<1>7. \A x \in DOMAIN n.cache : n.cache[x].loc = line <=> x = id
  BY <1>1, <1>2 DEF Settled
<1>8. \A x \in DOMAIN n.cache : w[n.cache[x].loc] = IF x = id THEN b ELSE n.cache[x]
  <2>1. \A x \in DOMAIN n.cache : n.cache[x].loc \in DOMAIN wanted /\ n.cache[x] = wanted[n.cache[x].loc]
    BY DEF Settled
  <2> QED
    BY <1>6, <1>7, <2>1
<1>9. \A loc \in DOMAIN wanted : w[loc].loc = loc /\ (w[loc] = b \/ w[loc] = wanted[loc])
  BY <1>1, <1>6 DEF Settled
<1> QED
  BY <1>2, <1>3, <1>5, <1>8, <1>9

(* One breakpoint is wanted otherwise, and asked for.                      *)
LEMMA AsksFor ==
    ASSUME IInv, Choices, Quiet, gdb.inferior # "running",
           gdb' = gdb, out' = out, may' = may,
           NEW id \in DOMAIN n.shown, NEW b, b.loc = n.cache[id].loc,
           wanted' = Change(id, b), NEW v, NEW q, n'.queue = q, Turns(q),
           DOMAIN n'.cache = DOMAIN n.cache,
           \A x \in DOMAIN n.cache : n'.cache[x] = IF x = id THEN v ELSE n.cache[x],
           Asking(q, id, v, gdb.table[id], b),
           \A i \in 1..Len(q) : \/ q[i].op = "list"
                                \/ /\ q[i].op \in {"enable", "disable", "after", "commands"}
                                   /\ q[i].id = id,
           "disable" \notin may => b.enabled,
           "count" \notin may => ~b.count,
           "ignore" \notin may =>
               b.initial = 0 /\ \A i \in 1..Len(q) : q[i].op = "after" => q[i].n = 0
    PROVE  Choices'
<1>1. Settled
  BY WhenSettled
<1>2. /\ id \in DOMAIN n.cache /\ DOMAIN wanted' = DOMAIN wanted
      /\ \A loc \in DOMAIN wanted :
            wanted'[loc].loc = loc /\ (wanted'[loc] = b \/ wanted'[loc] = wanted[loc])
      /\ \A x \in DOMAIN n.cache : wanted'[n.cache[x].loc] = IF x = id THEN b ELSE n.cache[x]
  <2>1. PICK w : w = wanted'
    OBVIOUS
  <2>2. w = Change(id, b)
    BY <2>1
  <2>3. /\ id \in DOMAIN n.cache /\ DOMAIN w = DOMAIN wanted
        /\ \A loc \in DOMAIN wanted :
              w[loc].loc = loc /\ (w[loc] = b \/ w[loc] = wanted[loc])
        /\ \A x \in DOMAIN n.cache : w[n.cache[x].loc] = IF x = id THEN b ELSE n.cache[x]
    BY <1>1, <2>2, Changing
  <2> QED
    BY <2>1, <2>3
<1>3. /\ DOMAIN n.cache = DOMAIN gdb.table
      /\ \A x \in DOMAIN n.cache : gdb.table[x].loc = n.cache[x].loc
  BY <1>1 DEF Settled
<1>4. \A x \in DOMAIN n.cache : n'.cache[x].loc = n.cache[x].loc
  <2>1. v.loc = n.cache[id].loc
    BY <1>2, <1>3 DEF Asking
  <2> QED
    BY <2>1
<1>5. InsertsChosen' /\ LinesChosen'
  BY <1>1, <1>2, <1>4, LinesStay
<1>6. FeaturesChosen'
  <2>1. \A c \in Asked' : \E i \in 1..Len(q) : c = q[i]
    BY DEF Asked
  <2> QED
    BY <1>2, <2>1 DEF Choices, FeaturesChosen
<1>7. ASSUME NEW x \in DOMAIN gdb.table
      PROVE  Asking(n'.queue, x, n'.cache[x], gdb.table[x], wanted'[gdb.table[x].loc])
  <2>1. CASE x = id
    BY <1>2, <1>3, <2>1
  <2>2. CASE x # id
    <3>1. wanted'[gdb.table[x].loc] = n.cache[x] /\ n'.cache[x] = n.cache[x] /\ n'.queue = q
      BY <1>2, <1>3, <2>2
    <3>2. \A i \in 1..Len(q) : /\ q[i].op # "run"
                               /\ q[i].op \in {"enable", "disable", "after", "commands"} => q[i].id # x
      BY <2>2
    <3>3. gdb.table[x].enabled = n.cache[x].enabled /\ gdb.table[x].script = n.cache[x].count
      BY <1>1, <1>3 DEF Settled
    <3>4. Asking(q, x, n.cache[x], gdb.table[x], n.cache[x])
      BY <1>3, <3>2, <3>3 DEF Asking
    <3> QED
      BY <3>1, <3>4
  <2> QED
    BY <2>1, <2>2
<1>8. DOMAIN n'.cache = DOMAIN gdb.table
  BY <1>3
<1>9. \A x \in DOMAIN gdb.table : n'.cache[x].loc = gdb.table[x].loc
  BY <1>3, <1>4
<1>10. Turns(n.queue)'
  OBVIOUS
<1> QED
  BY <1>5, <1>6, <1>7, <1>8, <1>9, <1>10, Asks

(* What is not chosen of a breakpoint is not chosen of any.                *)
LEMMA SettledFeatures ==
    ASSUME Settled, Choices, NEW x \in DOMAIN n.cache
    PROVE  /\ "disable" \notin may => n.cache[x].enabled
           /\ "count" \notin may => ~n.cache[x].count
           /\ "ignore" \notin may => n.cache[x].initial = 0
<1>1. n.cache[x].loc \in DOMAIN wanted /\ n.cache[x] = wanted[n.cache[x].loc]
  BY DEF Settled
<1> QED
  BY <1>1 DEF Choices, FeaturesChosen

LEMMA ToggleEnabledKeeps ==
    ASSUME IInv, Choices, Waits, NEW id \in DOMAIN n.shown, ToggleEnabled(id)
    PROVE  Choices'
<1>0. PICK on, c, d, q, v, b :
          /\ on = ~n.shown[id].enabled
          /\ c = [op |-> IF on THEN "enable" ELSE "disable", id |-> id]
          /\ d = [op |-> "list"] /\ q = <<c, d>>
          /\ v = n.cache[id] /\ b = [Wanted(id) EXCEPT !.enabled = on]
  OBVIOUS
<1>1. /\ Quiet /\ gdb.inferior # "running" /\ gdb' = gdb /\ out' = out /\ may' = may
      /\ n' = Queue(n, q) /\ n \in Nemiver /\ wanted' = Change(id, b) /\ "disable" \in may
  BY <1>0 DEF ToggleEnabled, Free, Press, IInv, Typed
<1>2. Settled
  BY <1>1, WhenSettled
<1>3. /\ id \in DOMAIN n.cache /\ Wanted(id) = v /\ n.shown[id] = v /\ v \in Breakpoint /\ id \in Ids
      /\ gdb.table[id].loc = v.loc /\ gdb.table[id].script = v.count
  <2>1. id \in DOMAIN n.cache /\ n.shown[id] = v
    BY <1>0, <1>2 DEF Settled
  <2>2. /\ v.loc \in DOMAIN wanted /\ v = wanted[v.loc] /\ v \in Breakpoint /\ id \in Ids
        /\ gdb.table[id].loc = v.loc /\ gdb.table[id].script = v.count
    BY <1>0, <1>2, <2>1 DEF Settled
  <2>3. Wanted(id) = v
    BY <2>1, <2>2 DEF Wanted
  <2> QED
    BY <2>1, <2>2, <2>3
<1>4. /\ b.loc = v.loc /\ b.enabled = on /\ b.count = v.count /\ b.initial = v.initial
      /\ on \in BOOLEAN
  BY <1>0, <1>3 DEF Breakpoint
<1>5. /\ c \in Command /\ c.op \in {"enable", "disable"} /\ c.id = id /\ (c.op = "enable") = on
      /\ d \in Command /\ d.op = "list"
  <2>1. on \in {TRUE, FALSE}
    BY <1>4
  <2>2. on => c = [op |-> "enable", id |-> id]
    BY <1>0
  <2>3. ~on => c = [op |-> "disable", id |-> id]
    BY <1>0
  <2>4. c \in Command /\ d \in Command
    BY <1>0, <1>3, <2>1, <2>2, <2>3, Commands
  <2> QED
    BY <1>0, <2>1, <2>2, <2>3, <2>4
<1>6. /\ q \in Seq(Command) /\ Len(q) = 2 /\ q[1] = c /\ q[2] = d
      /\ \A i \in 1..Len(q) : i = 1 \/ i = 2
  BY <1>0, <1>5, TwoCommands
<1>7. n'.queue = q /\ n'.cache = n.cache
  <2>1. Queue(n, q).queue = n.queue \o q /\ Queue(n, q).cache = n.cache
    BY <1>1, <1>6, Queued
  <2> QED
    BY <1>1, <1>6, <2>1, AskedAlone
<1>8. \A i \in 1..Len(q) : q[i].op \in {"enable", "disable", "list"}
  BY <1>5, <1>6
<1>9. Turns(q)
  BY <1>8 DEF Turns
<1>10. Asking(q, id, v, gdb.table[id], b)
  <2>1. Listing(q)
    BY <1>5, <1>6 DEF Listing
  <2>2. 1 \in 1..Len(q)
    BY <1>6
  <2> QED
    BY <1>3, <1>4, <1>5, <1>6, <1>8, <2>1, <2>2 DEF Asking
<1>11. /\ "count" \notin may => ~b.count
       /\ "ignore" \notin may => b.initial = 0
  BY <1>0, <1>2, <1>3, <1>4, SettledFeatures
<1>12. \A i \in 1..Len(q) : q[i].op = "list" \/ (q[i].op \in {"enable", "disable"} /\ q[i].id = id)
  BY <1>5, <1>6
<1>13. b.loc = n.cache[id].loc
  BY <1>0, <1>4
<1>14. DOMAIN n'.cache = DOMAIN n.cache
  BY <1>7
<1>15. \A x \in DOMAIN n.cache : n'.cache[x] = IF x = id THEN v ELSE n.cache[x]
  BY <1>0, <1>7
<1>16. \A i \in 1..Len(q) :
          \/ q[i].op = "list"
          \/ q[i].op \in {"enable", "disable", "after", "commands"} /\ q[i].id = id
  BY <1>12
<1>17. \A i \in 1..Len(q) : q[i].op # "after"
  BY <1>8
<1>18. /\ gdb.inferior # "running" /\ gdb' = gdb /\ out' = out /\ may' = may
       /\ wanted' = Change(id, b) /\ Quiet /\ "disable" \in may
  BY <1>1
<1>19. n'.queue = q
  BY <1>7
<1> QED
  BY <1>9, <1>10, <1>11, <1>13, <1>14, <1>15, <1>16, <1>17, <1>18, <1>19, AsksFor

LEMMA ToggleCountpointKeeps ==
    ASSUME IInv, Choices, Waits, NEW id \in DOMAIN n.shown, ToggleCountpoint(id)
    PROVE  Choices'
<1>0. PICK yes, c, q, v, b :
          /\ yes = ~n.shown[id].count /\ c = [op |-> "commands", id |-> id, yes |-> yes]
          /\ q = <<c>> /\ v = n.cache[id] /\ b = [Wanted(id) EXCEPT !.count = yes]
  OBVIOUS
<1>1. /\ Quiet /\ gdb.inferior # "running" /\ gdb' = gdb /\ out' = out /\ may' = may
      /\ n' = EnableCountpoint(n, id, yes) /\ n \in Nemiver /\ wanted' = Change(id, b)
      /\ "count" \in may
  BY <1>0 DEF ToggleCountpoint, Free, Press, IInv, Typed
<1>2. Settled
  BY <1>1, WhenSettled
<1>3. /\ id \in DOMAIN n.cache /\ Wanted(id) = v /\ n.shown[id] = v /\ v \in Breakpoint /\ id \in Ids
      /\ gdb.table[id].loc = v.loc /\ gdb.table[id].enabled = v.enabled
  <2>1. id \in DOMAIN n.cache /\ n.shown[id] = v
    BY <1>0, <1>2 DEF Settled
  <2>2. /\ v.loc \in DOMAIN wanted /\ v = wanted[v.loc] /\ v \in Breakpoint /\ id \in Ids
        /\ gdb.table[id].loc = v.loc /\ gdb.table[id].enabled = v.enabled
    BY <1>0, <1>2, <2>1 DEF Settled
  <2>3. Wanted(id) = v
    BY <2>1, <2>2 DEF Wanted
  <2> QED
    BY <2>1, <2>2, <2>3
<1>4. /\ b.loc = v.loc /\ b.enabled = v.enabled /\ b.count = yes /\ b.initial = v.initial
      /\ yes \in BOOLEAN /\ yes # v.count
  BY <1>0, <1>3 DEF Breakpoint
<1>5. c \in Command /\ c.op = "commands" /\ c.id = id /\ c.yes = yes
  BY <1>0, <1>3, <1>4, Commands
<1>6. q \in Seq(Command) /\ Len(q) = 1 /\ q[1] = c /\ \A i \in 1..Len(q) : i = 1
  BY <1>0, <1>5, OneCommand
<1>7. n'.queue = q /\ n'.cache = n.cache
  <2>1. n' = Queue(n, q)
    BY <1>0, <1>1, <1>3 DEF EnableCountpoint
  <2>2. Queue(n, q).queue = n.queue \o q /\ Queue(n, q).cache = n.cache
    BY <1>1, <1>6, Queued
  <2> QED
    BY <1>1, <1>6, <2>1, <2>2, AskedAlone
<1>8. \A i \in 1..Len(q) : q[i].op = "commands" /\ q[i].id = id /\ q[i].yes = yes
  BY <1>5, <1>6
<1>9. Turns(q)
  BY <1>6, <1>8 DEF Turns
<1>10. Asking(q, id, v, gdb.table[id], b)
  <2>1. Commanding(q, id)
    BY <1>6, <1>8 DEF Commanding
  <2> QED
    BY <1>3, <1>4, <1>8, <2>1 DEF Asking
<1>11. /\ "disable" \notin may => b.enabled
       /\ "ignore" \notin may => b.initial = 0
  BY <1>0, <1>2, <1>3, <1>4, SettledFeatures
<1>13. b.loc = n.cache[id].loc
  BY <1>0, <1>4
<1>14. DOMAIN n'.cache = DOMAIN n.cache
  BY <1>7
<1>15. \A x \in DOMAIN n.cache : n'.cache[x] = IF x = id THEN v ELSE n.cache[x]
  BY <1>0, <1>7
<1>16. \A i \in 1..Len(q) :
          \/ q[i].op = "list"
          \/ q[i].op \in {"enable", "disable", "after", "commands"} /\ q[i].id = id
  BY <1>8
<1>17. \A i \in 1..Len(q) : q[i].op # "after"
  BY <1>8
<1>18. /\ gdb.inferior # "running" /\ gdb' = gdb /\ out' = out /\ may' = may
       /\ wanted' = Change(id, b) /\ Quiet /\ "count" \in may
  BY <1>1
<1>19. n'.queue = q
  BY <1>7
<1> QED
  BY <1>9, <1>10, <1>11, <1>13, <1>14, <1>15, <1>16, <1>17, <1>18, <1>19, AsksFor

LEMMA EditKeeps ==
    ASSUME IInv, Choices, Waits, BreakpointsAssumption, NEW id \in DOMAIN n.shown,
           NEW count \in 0..MaxIgnore, EditIgnoreCount(id, count)
    PROVE  Choices'
<1>0. PICK c, d, q, u, v, b :
          /\ c = [op |-> "after", id |-> id, n |-> count] /\ d = [op |-> "list"] /\ q = <<c, d>>
          /\ u = n.cache[id] /\ v = Counted(u, count)
          /\ b = [Wanted(id) EXCEPT !.initial = count]
  OBVIOUS
<1>1. /\ Quiet /\ gdb.inferior # "running" /\ gdb' = gdb /\ out' = out /\ may' = may
      /\ n' = Ignore(n, id, count) /\ n \in Nemiver /\ wanted' = Change(id, b)
      /\ "ignore" \in may /\ count \in Nat
  BY <1>0 DEF EditIgnoreCount, Free, Press, IInv, Typed, BreakpointsAssumption
<1>2. Settled
  BY <1>1, WhenSettled
<1>3. /\ id \in DOMAIN n.cache /\ Wanted(id) = u /\ n.shown[id] = u /\ u \in Breakpoint /\ id \in Ids
      /\ gdb.table[id].loc = u.loc /\ gdb.table[id].enabled = u.enabled
      /\ gdb.table[id].script = u.count
  <2>1. id \in DOMAIN n.cache /\ n.shown[id] = u
    BY <1>0, <1>2 DEF Settled
  <2>2. /\ u.loc \in DOMAIN wanted /\ u = wanted[u.loc] /\ u \in Breakpoint /\ id \in Ids
        /\ gdb.table[id].loc = u.loc /\ gdb.table[id].enabled = u.enabled
        /\ gdb.table[id].script = u.count
    BY <1>0, <1>2, <2>1 DEF Settled
  <2>3. Wanted(id) = u
    BY <2>1, <2>2 DEF Wanted
  <2> QED
    BY <2>1, <2>2, <2>3
<1>4. /\ b.loc = u.loc /\ b.enabled = u.enabled /\ b.count = u.count /\ b.initial = count
      /\ v.loc = u.loc /\ v.enabled = u.enabled /\ v.count = u.count /\ v.initial = count
  <2>1. /\ b.loc = u.loc /\ b.enabled = u.enabled /\ b.count = u.count /\ b.initial = count
    BY <1>0, <1>3 DEF Breakpoint
  <2>2. v.loc = u.loc /\ v.enabled = u.enabled /\ v.count = u.count /\ v.initial = count
    BY <1>0, <1>3, CountedFacts
  <2> QED
    BY <2>1, <2>2
<1>5. /\ c \in Command /\ c.op = "after" /\ c.id = id /\ c.n = count
      /\ d \in Command /\ d.op = "list"
  BY <1>0, <1>1, <1>3, Commands
<1>6. /\ q \in Seq(Command) /\ Len(q) = 2 /\ q[1] = c /\ q[2] = d
      /\ \A i \in 1..Len(q) : i = 1 \/ i = 2
  BY <1>0, <1>5, TwoCommands
<1>7. /\ n'.queue = q /\ DOMAIN n'.cache = DOMAIN n.cache
      /\ \A x \in DOMAIN n.cache : n'.cache[x] = IF x = id THEN v ELSE n.cache[x]
  <2>1. Ignoring(n, id, count, n')
    BY <1>1, <1>3, Ignored
  <2>2. n'.queue = n.queue \o q
    BY <1>0, <2>1 DEF Ignoring
  <2>3. n'.queue = q
    BY <1>1, <1>6, <2>2, AskedAlone
  <2> QED
    BY <1>0, <2>1, <2>3 DEF Ignoring
<1>8. \A i \in 1..Len(q) : q[i].op = "list" \/ (q[i].op = "after" /\ q[i].id = id /\ q[i].n = count)
  BY <1>5, <1>6
<1>9. Turns(q)
  <2>1. \A i \in 1..Len(q) : q[i].op \notin {"run", "continue", "commands", "insert"}
    BY <1>8
  <2> QED
    BY <2>1 DEF Turns
<1>10. Asking(q, id, v, gdb.table[id], b)
  <2>1. \A i \in 1..Len(q) :
            /\ q[i].op \notin {"enable", "disable", "commands", "run"}
            /\ q[i].op = "after" => q[i].n = count
    BY <1>8
  <2> QED
    BY <1>3, <1>4, <2>1 DEF Asking
<1>11. /\ "disable" \notin may => b.enabled
       /\ "count" \notin may => ~b.count
  BY <1>0, <1>2, <1>3, <1>4, SettledFeatures
<1>13. b.loc = n.cache[id].loc
  BY <1>0, <1>4
<1>14. DOMAIN n'.cache = DOMAIN n.cache
  BY <1>7
<1>15. \A x \in DOMAIN n.cache : n'.cache[x] = IF x = id THEN v ELSE n.cache[x]
  BY <1>7
<1>16. \A i \in 1..Len(q) :
          \/ q[i].op = "list"
          \/ q[i].op \in {"enable", "disable", "after", "commands"} /\ q[i].id = id
  BY <1>8
<1>18. /\ gdb.inferior # "running" /\ gdb' = gdb /\ out' = out /\ may' = may
       /\ wanted' = Change(id, b) /\ Quiet /\ "ignore" \in may
  BY <1>1
<1>19. n'.queue = q
  BY <1>7
<1> QED
  BY <1>9, <1>10, <1>11, <1>13, <1>14, <1>15, <1>16, <1>18, <1>19, AsksFor

(* The breakpoints that were settled are asked nothing about.              *)
LEMMA SettledStay ==
    ASSUME Settled, NEW x \in DOMAIN gdb.table, NEW q,
           \A i \in 1..Len(q) : \/ q[i].op \in {"insert", "list", "delete"}
                                \/ q[i].op = "after" /\ (q[i].id = x => q[i].n = n.cache[x].initial)
                                \/ q[i].op = "run" /\ \E j \in 1..Len(q) : q[j].op = "after" /\ q[j].id = x,
           NEW v, v.loc = n.cache[x].loc, v.enabled = n.cache[x].enabled,
           v.count = n.cache[x].count, v.initial = n.cache[x].initial
    PROVE  Asking(q, x, v, gdb.table[x], n.cache[x])
<1>1. PICK b, u : b = gdb.table[x] /\ u = n.cache[x]
  OBVIOUS
<1>2. b.loc = u.loc /\ b.enabled = u.enabled /\ b.script = u.count
  BY <1>1 DEF Settled
<1>3. \A i \in 1..Len(q) : q[i].op \notin {"enable", "disable", "commands"}
  OBVIOUS
<1>4. \A i \in 1..Len(q) : q[i].op = "after" /\ q[i].id = x => q[i].n = u.initial
  BY <1>1
<1>5. \/ \A i \in 1..Len(q) : q[i].op # "run"
      \/ \E i \in 1..Len(q) : q[i].op = "after" /\ q[i].id = x
  OBVIOUS
<1> QED
  BY <1>1, <1>2, <1>3, <1>4, <1>5 DEF Asking

LEMMA SetBreakpointKeeps ==
    ASSUME IInv, Choices, Waits, NEW loc \in Locs, NEW count \in BOOLEAN, SetBreakpoint(loc, count)
    PROVE  Choices'
<1>0. PICK c, q, b :
          /\ c = [op |-> "insert", loc |-> loc, count |-> count, n |-> 0] /\ q = <<c>>
          /\ b = [loc |-> loc, enabled |-> TRUE, count |-> count, initial |-> 0]
  OBVIOUS
<1>1. /\ Quiet /\ gdb.inferior # "running" /\ gdb' = gdb /\ out' = out /\ may' = may
      /\ n' = Queue(n, q) /\ n \in Nemiver /\ wanted' = Over(wanted, One(loc, b))
      /\ loc \notin DOMAIN wanted /\ (count => "count" \in may)
  BY <1>0 DEF SetBreakpoint, Insert, Free, Press, IInv, Typed
<1>2. Settled
  BY <1>1, WhenSettled
<1>3. /\ c \in Command /\ c.op = "insert" /\ c.loc = loc /\ c.count = count /\ c.n = 0
      /\ b.loc = loc /\ b.enabled /\ b.count = count /\ b.initial = 0
  BY <1>0, Commands
<1>4. /\ q \in Seq(Command) /\ Len(q) = 1 /\ q[1] = c
      /\ \A i \in 1..Len(q) : i = 1
  BY <1>0, <1>3, OneCommand
<1>5. n'.queue = q /\ n'.cache = n.cache
  <2>1. Queue(n, q).queue = n.queue \o q /\ Queue(n, q).cache = n.cache
    BY <1>1, <1>4, Queued
  <2> QED
    BY <1>1, <1>4, <2>1, AskedAlone
<1>6. /\ DOMAIN wanted' = DOMAIN wanted \union {loc} /\ wanted'[loc] = b
      /\ \A l \in DOMAIN wanted : wanted'[l] = wanted[l]
  <2>1. DOMAIN One(loc, b) = {loc} /\ One(loc, b)[loc] = b
    BY DEF One
  <2>2. wanted' = [x \in DOMAIN wanted \union {loc} |->
                      IF x \in {loc} THEN One(loc, b)[x] ELSE wanted[x]]
    BY <1>1, <2>1 DEF Over
  <2> QED
    BY <1>1, <2>1, <2>2
<1>7. \A i \in 1..Len(q) : i = 1 /\ q[i] = c
  BY <1>4
<1>8. Turns(n.queue)'
  <2>1. Turns(q)
    BY <1>3, <1>4, <1>7 DEF Turns
  <2> QED
    BY <1>5, <2>1
<1>9. \A x \in DOMAIN n.cache : /\ n.cache[x].loc \in DOMAIN wanted /\ n.cache[x].loc # loc
                                /\ wanted'[n.cache[x].loc] = n.cache[x]
  BY <1>1, <1>2, <1>6 DEF Settled
<1>10. InsertsChosen'
  <2>1. AsChosen(c)'
    BY <1>3, <1>6 DEF AsChosen
  <2>2. 1..(1 - 1) = {}
    OBVIOUS
  <2> SUFFICES ASSUME NEW i \in 1..Len(q)
               PROVE  /\ AsChosen(q[i])'
                      /\ \A x \in DOMAIN n.cache : n.cache[x].loc = q[i].loc => FALSE
                      /\ \A j \in 1..(i - 1) : FALSE
    BY <1>5 DEF InsertsChosen, AsChosen
  <2>3. i = 1 /\ q[i] = c
    BY <1>7
  <2> QED
    BY <1>3, <1>9, <2>1, <2>2, <2>3
<1>11. Asked' = {c}
  <2>1. Asked' = {q[i] : i \in 1..Len(q)}
    BY <1>5 DEF Asked
  <2>2. 1 \in 1..Len(q)
    BY <1>4
  <2> QED
    BY <1>4, <1>7, <2>1, <2>2
<1>12. LinesChosen'
  <2>1. \A x : ~Deleting(x)'
    BY <1>3, <1>5, <1>7 DEF Deleting
  <2>2. ASSUME NEW l \in DOMAIN wanted'
        PROVE  /\ wanted'[l].loc = l
               /\ \/ \E x \in DOMAIN n.cache : n.cache[x].loc = l
                  \/ \E d \in Asked' : d.op = "insert" /\ d.loc = l
    BY <1>2, <1>3, <1>6, <1>11 DEF Settled
  <2>3. ASSUME NEW x \in DOMAIN n.cache
        PROVE  /\ n.cache[x].loc \in DOMAIN wanted'
               /\ \A other \in DOMAIN n.cache : n.cache[other].loc = n.cache[x].loc => other = x
    BY <1>2, <1>6, <1>9 DEF Settled
  <2> QED
    BY <1>5, <2>1, <2>2, <2>3 DEF LinesChosen
<1>13. FeaturesChosen'
  BY <1>1, <1>3, <1>6, <1>11 DEF Choices, FeaturesChosen
<1>14. DOMAIN n'.cache = DOMAIN gdb.table
  BY <1>2, <1>5 DEF Settled
<1>15. ASSUME NEW x \in DOMAIN gdb.table
       PROVE  /\ Asking(n'.queue, x, n'.cache[x], gdb.table[x], wanted'[gdb.table[x].loc])
              /\ n'.cache[x].loc = gdb.table[x].loc
  <2>1. x \in DOMAIN n.cache /\ gdb.table[x].loc = n.cache[x].loc
    BY <1>2 DEF Settled
  <2>2. wanted'[gdb.table[x].loc] = n.cache[x]
    BY <1>9, <2>1
  <2>3. \A i \in 1..Len(q) : q[i].op = "insert"
    BY <1>3, <1>7
  <2>4. Asking(q, x, n.cache[x], gdb.table[x], n.cache[x])
    BY <1>2, <2>3, SettledStay
  <2> QED
    BY <1>5, <2>1, <2>2, <2>4
<1> QED
  BY <1>1, <1>8, <1>10, <1>12, <1>13, <1>14, <1>15, Asks

LEMMA DeleteKeeps ==
    ASSUME IInv, Choices, Waits, NEW id \in DOMAIN n.shown, DeleteBreakpoint(id)
    PROVE  Choices'
<1>0. PICK c, q, line :
          c = [op |-> "delete", id |-> id] /\ q = <<c>> /\ line = n.shown[id].loc
  OBVIOUS
<1>1. /\ Quiet /\ gdb.inferior # "running" /\ gdb' = gdb /\ out' = out /\ may' = may
      /\ n' = Queue(n, q) /\ n \in Nemiver /\ wanted' = Without(wanted, line)
  BY <1>0 DEF DeleteBreakpoint, Free, Press, IInv, Typed
<1>2. Settled
  BY <1>1, WhenSettled
<1>3. id \in DOMAIN n.cache /\ n.cache[id].loc = line /\ id \in Ids
  BY <1>0, <1>2 DEF Settled
<1>4. c \in Command /\ c.op = "delete" /\ c.id = id
  BY <1>0, <1>3, Commands
<1>5. /\ q \in Seq(Command) /\ Len(q) = 1 /\ q[1] = c
      /\ \A i \in 1..Len(q) : i = 1
  BY <1>0, <1>4, OneCommand
<1>6. n'.queue = q /\ n'.cache = n.cache
  <2>1. Queue(n, q).queue = n.queue \o q /\ Queue(n, q).cache = n.cache
    BY <1>1, <1>5, Queued
  <2> QED
    BY <1>1, <1>5, <2>1, AskedAlone
<1>7. /\ DOMAIN wanted' = DOMAIN wanted \ {line}
      /\ \A l \in DOMAIN wanted' : wanted'[l] = wanted[l]
  BY <1>1 DEF Without, Restrict
<1>8. \A i \in 1..Len(q) : q[i].op = "delete" /\ q[i].id = id
  BY <1>4, <1>5
<1>9. Turns(n.queue)'
  <2>1. Turns(q)
    BY <1>8 DEF Turns
  <2> QED
    BY <1>6, <2>1
<1>10. InsertsChosen'
  BY <1>6, <1>8 DEF InsertsChosen
<1>11. \A d \in Asked' : d.op = "delete"
  BY <1>6, <1>8 DEF Asked
<1>12. LinesChosen'
  <2>1. \A x : Deleting(x)' <=> x = id
    <3>1. 1 \in 1..Len(q)
      BY <1>5
    <3> QED
      BY <1>6, <1>8, <3>1 DEF Deleting
  <2>2. ASSUME NEW l \in DOMAIN wanted'
        PROVE  wanted'[l].loc = l /\ \E x \in DOMAIN n.cache : n.cache[x].loc = l
    BY <1>2, <1>7 DEF Settled
  <2>3. ASSUME NEW x \in DOMAIN n.cache
        PROVE  /\ n.cache[x].loc \in DOMAIN wanted' <=> x # id
               /\ \A other \in DOMAIN n.cache : n.cache[other].loc = n.cache[x].loc => other = x
    BY <1>2, <1>3, <1>7 DEF Settled
  <2> QED
    BY <1>6, <2>1, <2>2, <2>3 DEF LinesChosen
<1>13. FeaturesChosen'
  BY <1>1, <1>7, <1>11 DEF Choices, FeaturesChosen
<1>14. DOMAIN n'.cache = DOMAIN gdb.table
  BY <1>2, <1>6 DEF Settled
<1>15. ASSUME NEW x \in DOMAIN gdb.table
       PROVE  /\ gdb.table[x].loc \in DOMAIN wanted' =>
                    Asking(n'.queue, x, n'.cache[x], gdb.table[x], wanted'[gdb.table[x].loc])
              /\ n'.cache[x].loc = gdb.table[x].loc
  <2>1. x \in DOMAIN n.cache /\ gdb.table[x].loc = n.cache[x].loc /\ n.cache[x] = wanted[n.cache[x].loc]
    BY <1>2 DEF Settled
  <2>2. gdb.table[x].loc \in DOMAIN wanted' => wanted'[gdb.table[x].loc] = n.cache[x]
    BY <1>7, <2>1
  <2>3. Asking(q, x, n.cache[x], gdb.table[x], n.cache[x])
    BY <1>2, <1>8, SettledStay
  <2> QED
    BY <1>6, <2>1, <2>2, <2>3
<1> QED
  BY <1>1, <1>9, <1>10, <1>12, <1>13, <1>14, <1>15, Asks

(* The ignore counts are set again to what is shown.                       *)
LEMMA IgnoresAll ==
    ASSUME NEW s \in Nemiver, BreakpointsAssumption, NEW cs, cs = IgnoreCommands(s)
    PROVE  /\ \A i \in 1..Len(cs) : cs[i].op = "after" =>
                 cs[i].id \in DOMAIN s.shown /\ cs[i].n = s.shown[cs[i].id].initial
           /\ \A id \in DOMAIN s.shown : \E i \in 1..Len(cs) : cs[i].op = "after" /\ cs[i].id = id
<1> DEFINE ids == InOrder(DOMAIN s.shown)
<1>1. DOMAIN s.shown \in SUBSET Ids
  BY TableFacts DEF Nemiver, IsTable
<1>2. /\ ids \in Seq(DOMAIN s.shown) /\ Len(ids) \in Nat
      /\ \A id \in DOMAIN s.shown : \E i \in 1..Len(ids) : ids[i] = id
  <2>1. PICK D : D = DOMAIN s.shown
    OBVIOUS
  <2>2. D \in SUBSET Ids
    BY <1>1, <2>1
  <2>3. /\ InOrder(D) \in Seq(D)
        /\ \A id \in D : \E i \in 1..Len(InOrder(D)) : InOrder(D)[i] = id
    BY <2>2, InOrderType
  <2>4. ids = InOrder(D) /\ Len(InOrder(D)) \in Nat
    BY <2>1, <2>3
  <2> HIDE DEF ids
  <2> QED
    BY <2>1, <2>3, <2>4
<1>3. cs = [i \in 1..(2 * Len(ids)) |->
               IF i % 2 = 1
               THEN [op |-> "after", id |-> ids[(i + 1) \div 2],
                     n |-> s.shown[ids[(i + 1) \div 2]].initial]
               ELSE [op |-> "list"]]
  BY DEF IgnoreCommands
<1> HIDE DEF ids
<1>4. /\ cs \in Seq(Command) /\ Len(cs) = 2 * Len(ids)
  <2>1. 2 * Len(ids) \in Nat
    BY <1>2
  <2>2. cs \in Seq(Command)
    BY IgnoreCommandsType
  <2>3. DOMAIN cs = 1..(2 * Len(ids)) /\ DOMAIN cs = 1..Len(cs) /\ Len(cs) \in Nat
    BY <1>3, <2>2
  <2> QED
    BY <2>1, <2>2, <2>3
<1>5. ASSUME NEW i \in 1..Len(cs), cs[i].op = "after"
      PROVE  cs[i].id \in DOMAIN s.shown /\ cs[i].n = s.shown[cs[i].id].initial
  <2>1. i % 2 = 1
    BY <1>3, <1>4, <1>5
  <2>2. PICK k : k = (i + 1) \div 2 /\ k \in 1..Len(ids)
    <3>1. PICK l : l = Len(ids) /\ l \in Nat
      BY <1>2
    <3>2. i \in 1..(2 * l)
      BY <1>4, <3>1
    <3>3. (i + 1) \div 2 \in 1..l
      BY <2>1, <3>1, <3>2
    <3> QED
      BY <3>1, <3>3
  <2>3. PICK id \in DOMAIN s.shown : id = ids[k]
    BY <1>2, <2>2
  <2>4. cs[i] = [op |-> "after", id |-> id, n |-> s.shown[id].initial]
    BY <1>3, <1>4, <2>1, <2>2, <2>3
  <2> QED
    BY <2>4
<1>6. ASSUME NEW id \in DOMAIN s.shown
      PROVE  \E i \in 1..Len(cs) : cs[i].op = "after" /\ cs[i].id = id
  <2>1. PICK k \in 1..Len(ids) : ids[k] = id
    BY <1>2
  <2>2. PICK i : i = 2 * k - 1
    OBVIOUS
  <2>3. i \in 1..(2 * Len(ids)) /\ i % 2 = 1 /\ (i + 1) \div 2 = k
    BY <1>2, <2>2
  <2>4. cs[i] = [op |-> "after", id |-> id, n |-> s.shown[id].initial]
    BY <1>3, <2>1, <2>3
  <2> QED
    BY <1>4, <2>3, <2>4
<1> QED
  BY <1>5, <1>6

LEMMA RerunKeeps ==
    ASSUME IInv, Choices, Waits, BreakpointsAssumption, Rerun
    PROVE  Choices'
<1>0. PICK cs, r, rs, q :
          cs = IgnoreCommands(n) /\ r = [op |-> "run"] /\ rs = <<r>> /\ q = cs \o rs
  OBVIOUS
<1>1. /\ Quiet /\ gdb.inferior # "running" /\ gdb' = gdb /\ out' = out /\ may' = may
      /\ wanted' = wanted /\ n' = Run(n) /\ n \in Nemiver
  BY DEF Rerun, Free, Press, IInv, Typed
<1>2. Settled
  BY <1>1, WhenSettled
<1>3. /\ cs \in Seq(Command) /\ \A i \in 1..Len(cs) : cs[i].op \in {"after", "list"}
  BY <1>0, <1>1, IgnoreCommandsType
<1>4. r \in Command /\ r.op = "run"
  BY <1>0, Commands
<1>5. /\ rs \in Seq(Command) /\ Len(rs) = 1 /\ rs[1] = r /\ 1 \in 1..Len(rs)
      /\ \A i \in 1..Len(rs) : i = 1
  BY <1>0, <1>4, OneCommand
<1>6. /\ q \in Seq(Command) /\ Len(q) = Len(cs) + 1 /\ Len(cs) \in Nat
      /\ \A i \in 1..Len(cs) : q[i] = cs[i]
      /\ q[Len(cs) + 1] = r
  <2>1. /\ cs \o rs \in Seq(Command) /\ Len(cs \o rs) = Len(cs) + Len(rs)
        /\ \A i \in 1..Len(cs) : (cs \o rs)[i] = cs[i]
        /\ \A i \in 1..Len(rs) : (cs \o rs)[Len(cs) + i] = rs[i]
    BY <1>3, <1>5, JoinedCommands
  <2>2. Len(cs) \in Nat
    BY <1>3
  <2> QED
    BY <1>0, <1>5, <2>1, <2>2
<1>7. n'.queue = q
  <2>1. Run(n).queue = (n.queue \o cs) \o <<[op |-> "run"]>>
    BY <1>0, <1>1, RunAgain
  <2>2. n.queue \o cs = cs
    BY <1>1, <1>3, AskedAlone
  <2>3. rs = <<[op |-> "run"]>>
    BY <1>0
  <2> QED
    BY <1>0, <1>1, <2>1, <2>2, <2>3
<1>8. /\ DOMAIN n'.cache = DOMAIN n.cache
      /\ \A x \in DOMAIN n.cache :
            /\ n'.cache[x].loc = n.cache[x].loc /\ n'.cache[x].enabled = n.cache[x].enabled
            /\ n'.cache[x].count = n.cache[x].count /\ n'.cache[x].initial = n.cache[x].initial
  <2>1. /\ DOMAIN Run(n).cache = DOMAIN n.cache
        /\ \A x \in DOMAIN n.cache : Run(n).cache[x] =
              IF x \in DOMAIN n.shown THEN Counted(n.cache[x], n.shown[x].initial) ELSE n.cache[x]
    BY <1>1, RunAgain
  <2>2. ASSUME NEW x \in DOMAIN n.cache
        PROVE  /\ n'.cache[x].loc = n.cache[x].loc /\ n'.cache[x].enabled = n.cache[x].enabled
               /\ n'.cache[x].count = n.cache[x].count /\ n'.cache[x].initial = n.cache[x].initial
    <3>1. PICK u, k : u = n.cache[x] /\ k = n.cache[x].initial
      OBVIOUS
    <3>2. u \in Breakpoint /\ n.shown = n.cache
      BY <1>2, <3>1 DEF Settled
    <3>3. n'.cache[x] = Counted(u, k)
      BY <1>1, <2>1, <3>1, <3>2
    <3>4. /\ Counted(u, k).loc = u.loc /\ Counted(u, k).enabled = u.enabled
          /\ Counted(u, k).count = u.count /\ Counted(u, k).initial = k
      BY <3>2, CountedFacts
    <3> QED
      BY <3>1, <3>3, <3>4
  <2> QED
    BY <1>1, <2>1, <2>2
<1>9. \A i \in 1..Len(q) : (i \in 1..Len(cs) /\ q[i] = cs[i]) \/ (i = Len(cs) + 1 /\ q[i] = r)
  BY <1>6
<1>10. \A i \in 1..Len(q) : /\ q[i].op \in {"after", "list", "run"}
                            /\ q[i].op = "run" => i = Len(q)
  BY <1>3, <1>4, <1>6, <1>9
<1>11. \A i \in 1..Len(q) : q[i].op = "after" =>
          q[i].id \in DOMAIN n.cache /\ q[i].n = n.cache[q[i].id].initial
  <2>1. \A i \in 1..Len(cs) : cs[i].op = "after" =>
            cs[i].id \in DOMAIN n.shown /\ cs[i].n = n.shown[cs[i].id].initial
    BY <1>0, <1>1, IgnoresAll
  <2>2. n.shown = n.cache
    BY <1>2 DEF Settled
  <2> QED
    BY <1>4, <1>9, <2>1, <2>2
<1>12. \A x \in DOMAIN n.cache : \E i \in 1..Len(q) : q[i].op = "after" /\ q[i].id = x
  <2>1. \A x \in DOMAIN n.shown : \E i \in 1..Len(cs) : cs[i].op = "after" /\ cs[i].id = x
    BY <1>0, <1>1, IgnoresAll
  <2>2. n.shown = n.cache
    BY <1>2 DEF Settled
  <2>3. \A i \in 1..Len(cs) : i \in 1..Len(q) /\ q[i] = cs[i]
    BY <1>6
  <2> QED
    BY <2>1, <2>2, <2>3
<1>13. Turns(n.queue)'
  <2>1. Len(q) \in Nat
    BY <1>6
  <2>2. (Len(q) + 1)..Len(q) = {}
    BY <2>1
  <2>3. Turns(q)
    BY <1>10, <2>2 DEF Turns
  <2> QED
    BY <1>7, <2>3
<1>14. InsertsChosen' /\ LinesChosen'
  <2>1. \A i \in 1..Len(n'.queue) : n'.queue[i].op \notin {"insert", "delete"}
    BY <1>7, <1>10
  <2>2. DOMAIN wanted' = DOMAIN wanted /\ \A l \in DOMAIN wanted : wanted'[l].loc = l
    BY <1>1, <1>2 DEF Settled
  <2> QED
    BY <1>2, <1>8, <2>1, <2>2, LinesStay
<1>15. FeaturesChosen'
  <2>1. \A c \in Asked' : \E i \in 1..Len(q) : c = q[i]
    BY <1>7 DEF Asked
  <2>2. "ignore" \notin may => \A c \in Asked' : c.op = "after" => c.n = 0
    BY <1>2, <1>11, <2>1, SettledFeatures
  <2> QED
    BY <1>1, <2>2 DEF Choices, FeaturesChosen
<1>16. DOMAIN n'.cache = DOMAIN gdb.table
  BY <1>2, <1>8 DEF Settled
<1>17. ASSUME NEW x \in DOMAIN gdb.table
       PROVE  /\ Asking(n'.queue, x, n'.cache[x], gdb.table[x], wanted'[gdb.table[x].loc])
              /\ n'.cache[x].loc = gdb.table[x].loc
  <2>1. x \in DOMAIN n.cache /\ gdb.table[x].loc = n.cache[x].loc /\ n.cache[x] = wanted[n.cache[x].loc]
    BY <1>2 DEF Settled
  <2>2. wanted'[gdb.table[x].loc] = n.cache[x]
    BY <1>1, <2>1
  <2>3. \A i \in 1..Len(q) :
            \/ q[i].op \in {"insert", "list", "delete"}
            \/ q[i].op = "after" /\ (q[i].id = x => q[i].n = n.cache[x].initial)
            \/ q[i].op = "run" /\ \E j \in 1..Len(q) : q[j].op = "after" /\ q[j].id = x
    BY <1>10, <1>11, <1>12, <2>1
  <2>4. PICK v : v = n'.cache[x]
    OBVIOUS
  <2>5. v.loc = n.cache[x].loc /\ v.enabled = n.cache[x].enabled
        /\ v.count = n.cache[x].count /\ v.initial = n.cache[x].initial
    BY <1>8, <2>1, <2>4
  <2>6. Asking(q, x, v, gdb.table[x], n.cache[x])
    BY <1>2, <2>3, <2>5, SettledStay
  <2> QED
    BY <1>7, <2>1, <2>2, <2>4, <2>5, <2>6
<1> QED
  BY <1>1, <1>13, <1>14, <1>15, <1>16, <1>17, Asks

LEMMA RestartKeeps ==
    ASSUME IInv, Choices, Waits, PatientRestarts, CarefulChoices, BreakpointsAssumption, Restart
    PROVE  Choices'
<1> DEFINE k == gdb.next - 1
           ids == InOrder(DOMAIN n.shown)
           q == [i \in 1..Len(ids) |-> SetAgain(n.shown[ids[i]])]
           s == [n EXCEPT !.queue = q, !.shown = Nothing]
           r == [op |-> "run"]
<1>1. /\ Again /\ Quiet
      /\ "delete" \notin may /\ "disable" \notin may /\ "count" \notin may
  <2>1. "restart" \in may /\ may \in Scenarios
    BY DEF Restart, IInv, Typed
  <2>2. may \intersect {"delete", "disable", "count"} = {}
    BY <2>1 DEF CarefulChoices, Waits
  <2> QED
    BY <2>1, <2>2 DEF Restart, Again, Free
<1>2. Settled
  BY <1>1, WhenSettled
<1>3. /\ n.shown = n.cache /\ DOMAIN n.cache = 1..k /\ k \in Nat
  <2>1. n.shown = n.cache /\ DOMAIN n.cache = DOMAIN gdb.table
    BY <1>2 DEF Settled
  <2>2. DOMAIN gdb.table = 1..k /\ k \in Nat
    BY <1>1 DEF IInv, AgainInv, Typed, Gdb, BreakpointsAssumption
  <2> QED
    BY <2>1, <2>2
<1>4. /\ n \in Nemiver
      /\ \A id \in 1..k :
            /\ n.cache[id] \in Breakpoint /\ n.cache[id].enabled /\ n.cache[id].count = FALSE
            /\ n.cache[id].loc \in DOMAIN wanted /\ n.cache[id] = wanted[n.cache[id].loc]
            /\ "ignore" \notin may => n.cache[id].initial = 0
            /\ \A other \in 1..k : n.cache[other].loc = n.cache[id].loc => other = id
  <2>1. n \in Nemiver
    BY DEF IInv, Typed
  <2>2. \A id \in DOMAIN n.cache :
            /\ n.cache[id] \in Breakpoint
            /\ n.cache[id].loc \in DOMAIN wanted /\ n.cache[id] = wanted[n.cache[id].loc]
            /\ \A other \in DOMAIN n.cache : n.cache[other].loc = n.cache[id].loc => other = id
    BY <1>2 DEF Settled
  <2>3. \A id \in DOMAIN n.cache :
            /\ n.cache[id].enabled /\ n.cache[id].count = FALSE
            /\ "ignore" \notin may => n.cache[id].initial = 0
    BY <1>1, <1>2, <2>2, SettledFeatures DEF Breakpoint
  <2> QED
    BY <1>3, <2>1, <2>2, <2>3
<1> HIDE DEF k
<1>5. Len(ids) = k /\ \A i \in 1..k : ids[i] = i
  BY <1>3, InOrderOfAll
<1> HIDE DEF ids
<1>6. /\ q = [i \in 1..k |-> SetAgain(n.cache[ids[i]])]
      /\ \A i \in 1..k : q[i] = SetAgain(n.cache[i])
  BY <1>3, <1>5
<1>7. ASSUME NEW i \in 1..k
      PROVE  /\ q[i] \in Command /\ q[i].op = "insert" /\ q[i].loc = n.cache[i].loc
             /\ q[i].count = FALSE /\ q[i].n = n.cache[i].initial
  <2>1. PICK b : b = n.cache[i]
    OBVIOUS
  <2>2. b \in Breakpoint /\ b.count = FALSE /\ q[i] = SetAgain(b)
    BY <1>4, <1>6, <2>1
  <2>3. SetAgain(b) \in Command /\ SetAgain(b).op = "insert" /\ SetAgain(b).loc = b.loc
        /\ SetAgain(b).count = b.count
    BY <2>2, SetAgainType
  <2>4. SetAgain(b).n = b.initial
    BY <2>2 DEF SetAgain
  <2> HIDE DEF q
  <2> QED
    BY <2>1, <2>2, <2>3, <2>4
<1>8. q \in Seq(Command) /\ Len(q) = k
  <2>1. q \in [1..k -> Command]
    BY <1>6, <1>7
  <2> HIDE DEF q
  <2> QED
    BY <1>3, <2>1
<1>9. n' = Run(s) /\ gdb' = NewGdb /\ out' = <<>> /\ wanted' = wanted /\ may' = may
  BY DEF Restart, ids
<1> HIDE DEF q
<1>10. s \in Nemiver /\ s.queue = q /\ s.cache = n.cache /\ s.shown = Nothing
  <2>1. Nothing \in Tables(Breakpoint)
    BY TableFacts, EmptyTable
  <2>2. PICK t : t = [n EXCEPT !.queue = q]
    OBVIOUS
  <2>3. t \in Nemiver /\ t.queue = q /\ t.cache = n.cache
    BY <1>4, <1>8, <2>2 DEF Nemiver
  <2>4. s = [t EXCEPT !.shown = Nothing]
    BY <1>4, <2>2 DEF Nemiver
  <2> HIDE DEF s
  <2> QED
    BY <2>1, <2>3, <2>4 DEF Nemiver
<1> HIDE DEF s
<1>11. r \in Command /\ r.op = "run"
  BY Commands
<1>12. n'.queue = q \o <<r>> /\ n'.cache = n.cache
  BY <1>9, <1>10, NothingToIgnore
<1> HIDE DEF r
<1>13. PICK p : /\ p = n'.queue /\ Len(p) = k + 1
                /\ \A i \in 1..k : p[i] = q[i]
                /\ p[k + 1] = r
  <2>1. PICK rs : rs = <<r>>
    OBVIOUS
  <2>2. rs \in Seq(Command) /\ Len(rs) = 1 /\ rs[1] = r /\ 1 \in 1..Len(rs)
    BY <1>11, <2>1, OneCommand
  <2>3. /\ Len(q \o rs) = Len(q) + Len(rs)
        /\ \A i \in 1..Len(q) : (q \o rs)[i] = q[i]
        /\ \A i \in 1..Len(rs) : (q \o rs)[Len(q) + i] = rs[i]
    BY <1>8, <2>2, JoinedCommands
  <2>4. n'.queue = q \o rs
    BY <1>12, <2>1
  <2> QED
    BY <1>8, <2>2, <2>3, <2>4
<1>14. \A i \in 1..Len(p) :
          \/ /\ i \in 1..k /\ p[i].op = "insert" /\ p[i].loc = n.cache[i].loc
             /\ p[i].count = FALSE /\ p[i].n = n.cache[i].initial
          \/ i = k + 1 /\ p[i].op = "run"
  <2> SUFFICES ASSUME NEW i \in 1..Len(p)
               PROVE  \/ /\ i \in 1..k /\ p[i].op = "insert" /\ p[i].loc = n.cache[i].loc
                         /\ p[i].count = FALSE /\ p[i].n = n.cache[i].initial
                      \/ i = k + 1 /\ p[i].op = "run"
    OBVIOUS
  <2>1. i \in 1..k \/ i = k + 1
    BY <1>3, <1>13
  <2>2. CASE i \in 1..k
    BY <1>7, <1>13, <2>2
  <2>3. CASE i = k + 1
    BY <1>11, <1>13, <2>3
  <2> QED
    BY <2>1, <2>2, <2>3
<1>15. Turns(n.queue)'
  <2> SUFFICES Turns(p)
    BY <1>13
  <2> SUFFICES ASSUME NEW i \in 1..Len(p)
               PROVE  /\ p[i].op \in {"run", "continue"} => \A j \in (i + 1)..Len(p) : p[j].op = "list"
                      /\ p[i].op = "commands" => Len(p) = 1
                      /\ p[i].op = "insert" =>
                            /\ p[i].count => Len(p) = 1
                            /\ \A j \in 1..Len(p) : p[j].op \in {"insert", "run", "list"}
                            /\ \A j \in 1..i : p[j].op = "insert"
    BY DEF Turns
  <2>1. CASE i \in 1..k
    <3>1. \A j \in 1..i : j \in 1..Len(p) /\ j # k + 1
      BY <1>3, <1>13, <2>1
    <3> QED
      BY <1>3, <1>14, <2>1, <3>1
  <2>2. CASE i = k + 1
    <3>1. (i + 1)..Len(p) = {}
      BY <1>3, <1>13, <2>2
    <3>2. p[i].op = "run"
      BY <1>3, <1>14, <2>2
    <3> QED
      BY <3>1, <3>2
  <2> QED
    BY <1>14, <2>1, <2>2
<1>16. First' = 1 /\ ~Answered'
  BY <1>9 DEF First, Done, NewGdb, Answered
<1>17. InsertsChosen'
  <2> SUFFICES ASSUME NEW i \in 1..Len(p), p[i].op = "insert"
               PROVE  /\ p[i].loc \in DOMAIN wanted /\ wanted[p[i].loc].enabled
                      /\ p[i].count = wanted[p[i].loc].count
                      /\ p[i].n = wanted[p[i].loc].initial
                      /\ \A id \in DOMAIN n.cache : n.cache[id].loc = p[i].loc => id = 1 + i - 1
                      /\ \A j \in 1..(i - 1) : p[j].loc # p[i].loc
    BY <1>9, <1>12, <1>13, <1>16 DEF InsertsChosen, AsChosen
  <2>1. /\ i \in 1..k /\ p[i].loc = n.cache[i].loc
        /\ p[i].count = FALSE /\ p[i].n = n.cache[i].initial
    BY <1>14
  <2>2. /\ p[i].loc \in DOMAIN wanted /\ wanted[p[i].loc].enabled
        /\ p[i].count = wanted[p[i].loc].count /\ p[i].n = wanted[p[i].loc].initial
    <3>1. PICK b : b = n.cache[i]
      OBVIOUS
    <3>2. b.enabled /\ b.count = FALSE /\ b.loc \in DOMAIN wanted /\ b = wanted[b.loc]
      BY <1>4, <2>1, <3>1
    <3>3. p[i].loc = b.loc /\ p[i].count = FALSE /\ p[i].n = b.initial
      BY <2>1, <3>1
    <3> QED
      BY <3>2, <3>3
  <2>3. 1 + i - 1 = i
    OBVIOUS
  <2>4. \A id \in DOMAIN n.cache : n.cache[id].loc = p[i].loc => id = i
    BY <1>3, <1>4, <2>1
  <2>5. \A j \in 1..(i - 1) : p[j].loc # p[i].loc
    <3> SUFFICES ASSUME NEW j \in 1..(i - 1) PROVE p[j].loc # p[i].loc
      OBVIOUS
    <3>1. j \in 1..k /\ j \in 1..Len(p) /\ j # k + 1 /\ j # i
      BY <1>3, <1>13, <2>1
    <3>2. p[j].loc = n.cache[j].loc
      BY <1>14, <3>1
    <3> QED
      BY <1>4, <2>1, <3>1, <3>2
  <2> QED
    BY <2>2, <2>3, <2>4, <2>5
<1>18. Asked' = {p[i] : i \in 1..Len(p)}
  BY <1>13 DEF Asked
<1>19. \A c \in Asked' : c.op \in {"insert", "run"}
  BY <1>14, <1>18
<1>20. LinesChosen'
  <2>1. \A x : ~Deleting(x)'
    BY <1>13, <1>14 DEF Deleting
  <2>2. ASSUME NEW l \in DOMAIN wanted
        PROVE  wanted[l].loc = l /\ \E x \in DOMAIN n.cache : n.cache[x].loc = l
    BY <1>2 DEF Settled
  <2>3. ASSUME NEW x \in DOMAIN n.cache
        PROVE  /\ n.cache[x].loc \in DOMAIN wanted
               /\ \A other \in DOMAIN n.cache : n.cache[other].loc = n.cache[x].loc => other = x
    BY <1>2 DEF Settled
  <2> QED
    BY <1>9, <1>12, <2>1, <2>2, <2>3 DEF LinesChosen
<1>21. gdb'.table = Nothing /\ DOMAIN gdb'.table = {} /\ gdb'.inferior = "none"
  BY <1>9, EmptyTable DEF NewGdb
<1>22. FeaturesChosen'
  BY <1>9, <1>19, <1>21 DEF Choices, FeaturesChosen
<1>23. CacheChosen'
  <2> SUFFICES ASSUME NEW x \in DOMAIN n.cache PROVE CacheChose(x)'
    BY <1>12 DEF CacheChosen
  <2>1. n.cache[x] = wanted[n.cache[x].loc]
    BY <1>2 DEF Settled
  <2> QED
    BY <1>9, <1>12, <1>19, <2>1 DEF CacheChose
<1>24. TableChosen'
  BY <1>21 DEF TableChosen
<1>25. OutChosen'
  <2>1. Len(out') = 0 /\ 1..0 = {}
    BY <1>9
  <2> QED
    BY <1>21, <2>1 DEF OutChosen
<1> QED
  BY <1>15, <1>17, <1>20, <1>22, <1>23, <1>24, <1>25 DEF Choices

-----------------------------------------------------------------------------
(* The engine handles the answer: the command leaves the queue.            *)

LEMMA Popped ==
    ASSUME IInv, NEW cs \in Seq(Command), Retires(cs)
    PROVE  /\ Shifts(n.queue, cs, n'.queue) /\ ~Answered' /\ Coming' = Asked'
           /\ \A c \in Asked' : c \in Coming \/ \E i \in 1..Len(cs) : c = cs[i]
           /\ \A c \in Coming : c \in Asked'
           /\ \A i \in 1..Len(cs) : cs[i] \in Asked'
           /\ \A c \in Asked : c = n.queue[1] \/ c \in Coming
           /\ \A c \in Coming : c \in Asked /\ \E i \in 1..Len(n.queue) : i # 1 /\ c = n.queue[i]
<1>1. n.queue # <<>> /\ n.queue \in Seq(Command) /\ n'.queue = Tail(n.queue \o cs)
  BY Answering DEF Retires
<1>2. Shifts(n.queue, cs, n'.queue)
  BY <1>1, Places
<1>3. PICK q, p : q = n.queue /\ p = n'.queue
  OBVIOUS
<1>4. /\ Len(q) \in Nat \ {0} /\ Len(p) \in Nat
      /\ \A i \in 1..Len(q) : i # 1 => i - 1 \in 1..Len(p) /\ p[i - 1] = q[i]
      /\ \A i \in 1..Len(cs) : \E j \in 1..Len(p) : p[j] = cs[i]
      /\ \A i \in 1..Len(p) : \/ i + 1 \in 1..Len(q) /\ p[i] = q[i + 1]
                              \/ \E j \in 1..Len(cs) : p[i] = cs[j]
  BY <1>2, <1>3 DEF Shifts
<1>5. Answered
  <2>1. out \in Seq(Record) /\ out # <<>> /\ out[1].kind \in {"done", "error"}
    BY DEF IInv, Typed, Retires
  <2>2. 1 \in 1..Len(out)
    BY <2>1
  <2> QED
    BY <2>1, <2>2 DEF Answered
<1>6. ~Answered'
  <2>1. out \in Seq(Record) /\ out # <<>> /\ out' = Tail(out) /\ out[1].kind \in {"done", "error"}
    BY DEF IInv, Typed, Retires
  <2>2. /\ Len(out) \in Nat \ {0} /\ Len(Tail(out)) = Len(out) - 1
        /\ \A i \in 1..(Len(out) - 1) : Tail(out)[i] = out[i + 1]
    BY <2>1, Ends
  <2>3. \A i, j \in 1..Len(out) :
            out[i].kind \in {"done", "error"} /\ out[j].kind \in {"done", "error"} => i = j
    BY DEF IInv, OutInv
  <2> SUFFICES ASSUME NEW i \in 1..Len(out'), out'[i].kind \in {"done", "error"} PROVE FALSE
    BY DEF Answered
  <2>4. i \in 1..(Len(out) - 1) /\ out'[i] = out[i + 1]
    BY <2>1, <2>2
  <2>5. i + 1 \in 1..Len(out) /\ 1 \in 1..Len(out) /\ i + 1 # 1
    BY <2>2, <2>4
  <2> QED
    BY <2>1, <2>3, <2>4, <2>5
<1>7. /\ Asked = {q[i] : i \in 1..Len(q)} /\ Asked' = {p[i] : i \in 1..Len(p)} /\ Coming' = Asked'
      /\ Coming = {q[i] : i \in {j \in 1..Len(q) : j # 1}}
  BY <1>3, <1>5, <1>6 DEF Asked, Coming
<1>8. \A i \in 1..Len(p) : i + 1 # 1
  BY <1>4
<1>9. ASSUME NEW c \in Asked' PROVE c \in Coming \/ \E i \in 1..Len(cs) : c = cs[i]
  <2>1. PICK i \in 1..Len(p) : c = p[i]
    BY <1>7
  <2>2. CASE i + 1 \in 1..Len(q) /\ p[i] = q[i + 1]
    <3>1. i + 1 \in {j \in 1..Len(q) : j # 1}
      BY <1>8, <2>2
    <3> QED
      BY <1>7, <2>1, <2>2, <3>1
  <2> QED
    BY <1>4, <2>1, <2>2
<1>10. \A c \in Coming : c \in Asked'
  BY <1>4, <1>7
<1>11. \A i \in 1..Len(cs) : cs[i] \in Asked'
  BY <1>4, <1>7
<1>12. /\ \A c \in Asked : c = q[1] \/ c \in Coming
       /\ \A c \in Coming : c \in Asked /\ \E i \in 1..Len(q) : i # 1 /\ c = q[i]
  BY <1>7
<1> QED
  BY <1>2, <1>3, <1>6, <1>7, <1>9, <1>10, <1>11, <1>12

(* The commands that come: those of a countpoint that was inserted.        *)
Follows(cs) ==
    \/ Len(cs) = 0 /\ ~(Done("insert") /\ n.queue[1].count)
    \/ /\ Len(cs) = 1 /\ Done("insert") /\ n.queue[1].count
       /\ cs[1].op = "commands" /\ cs[1].id = gdb.next - 1

LEMMA TurnsPop ==
    ASSUME NEW q, NEW cs, NEW p, Turns(q), Shifts(q, cs, p),
           Len(cs) = 0 \/ (Len(q) = 1 /\ Len(cs) = 1 /\ cs[1].op = "commands")
    PROVE  Turns(p)
<1>1. /\ Len(q) \in Nat \ {0} /\ Len(p) = Len(q) + Len(cs) - 1
      /\ \A i \in 1..Len(p) : \/ i + 1 \in 1..Len(q) /\ p[i] = q[i + 1]
                              \/ \E j \in 1..Len(cs) : p[i] = cs[j]
  BY DEF Shifts
<1>2. CASE Len(cs) = 0
  <2>1. \A i \in 1..Len(p) : i + 1 \in 1..Len(q) /\ p[i] = q[i + 1]
    BY <1>1, <1>2
  <2>2. ASSUME NEW i \in 1..Len(p)
        PROVE  /\ p[i].op \in {"run", "continue"} => \A j \in (i + 1)..Len(p) : p[j].op = "list"
               /\ p[i].op = "commands" => Len(p) = 1
               /\ p[i].op = "insert" =>
                     /\ p[i].count => Len(p) = 1
                     /\ \A j \in 1..Len(p) : p[j].op \in {"insert", "run", "list"}
                     /\ \A j \in 1..i : p[j].op = "insert"
    <3>1. i + 1 \in 1..Len(q) /\ p[i] = q[i + 1] /\ Len(q) # 1
      BY <1>1, <2>1
    <3>2. ASSUME p[i].op \in {"run", "continue"}, NEW j \in (i + 1)..Len(p) PROVE p[j].op = "list"
      <4>1. j \in 1..Len(p) /\ j + 1 \in (i + 1 + 1)..Len(q)
        BY <1>1, <1>2, <3>1
      <4>2. q[j + 1].op = "list"
        BY <3>1, <3>2, <4>1 DEF Turns
      <4> QED
        BY <2>1, <4>1, <4>2
    <3>3. p[i].op # "commands"
      BY <3>1 DEF Turns
    <3>4. ASSUME p[i].op = "insert"
          PROVE  /\ p[i].count => Len(p) = 1
                 /\ \A j \in 1..Len(p) : p[j].op \in {"insert", "run", "list"}
                 /\ \A j \in 1..i : p[j].op = "insert"
      <4>1. /\ ~q[i + 1].count /\ \A j \in 1..Len(q) : q[j].op \in {"insert", "run", "list"}
            /\ \A j \in 1..(i + 1) : q[j].op = "insert"
        BY <3>1, <3>4 DEF Turns
      <4>2. \A j \in 1..i : j \in 1..Len(p) /\ j + 1 \in 1..(i + 1)
        BY <1>1, <1>2
      <4> QED
        BY <2>1, <3>1, <4>1, <4>2
    <3> QED
      BY <3>2, <3>3, <3>4
  <2> QED
    BY <2>2 DEF Turns
<1>3. CASE Len(q) = 1 /\ Len(cs) = 1 /\ cs[1].op = "commands"
  <2>1. Len(p) = 1 /\ \A i \in 1..Len(p) : i + 1 \notin 1..Len(q)
    BY <1>1, <1>3
  <2>2. \A i \in 1..Len(p) : p[i].op = "commands"
    BY <1>1, <1>3, <2>1
  <2> QED
    BY <2>1, <2>2 DEF Turns
<1> QED
  BY <1>2, <1>3

(* GDB's table is as it was, and so is what is asked about it.             *)
LEMMA TablePops ==
    ASSUME IInv, Choices, NEW cs \in Seq(Command), Retires(cs), Follows(cs), wanted' = wanted
    PROVE  TableChosen'
<1>1. /\ \A c \in Coming' : c \in Coming \/ \E i \in 1..Len(cs) : c = cs[i]
      /\ \A c \in Coming : c \in Coming'
      /\ \A i \in 1..Len(cs) : cs[i] \in Coming'
  BY Popped
<1>2. gdb' = gdb /\ \A i \in 1..Len(cs) : cs[i].op = "commands"
  BY DEF Retires
<1>3. Done("insert") /\ n.queue[1].count => 1 \in 1..Len(cs) /\ cs[1].op = "commands" /\ cs[1].id = gdb.next - 1
  BY DEF Follows
<1> SUFFICES ASSUME NEW id \in DOMAIN gdb.table, Here(gdb.table[id]) PROVE TableChose(id)'
  BY <1>2 DEF TableChosen, Here
<1>4. PICK b, w : b = gdb.table[id] /\ w = wanted[gdb.table[id].loc]
  OBVIOUS
<1>5. /\ gdb'.table[id] = b /\ wanted'[gdb'.table[id].loc] = w
  BY <1>2, <1>4
<1>6. TableChose(id)
  BY DEF Choices, TableChosen
<1>7. /\ \/ b.enabled = w.enabled
         \/ \E c \in Coming' : c.op \in {"enable", "disable"} /\ c.id = id
      /\ \A c \in Coming' : c.op \in {"enable", "disable"} /\ c.id = id => w.enabled = (c.op = "enable")
  BY <1>1, <1>2, <1>4, <1>6 DEF TableChose
<1>8. b.script = w.count \/ \E c \in Coming' : c.op = "commands" /\ c.id = id
  <2>1. \/ b.script = w.count
        \/ \E c \in Coming : c.op = "commands" /\ c.id = id
        \/ Done("insert") /\ id = gdb.next - 1 /\ n.queue[1].count
    BY <1>4, <1>6 DEF TableChose
  <2>2. ASSUME Done("insert"), id = gdb.next - 1, n.queue[1].count
        PROVE  \E c \in Coming' : c.op = "commands" /\ c.id = id
    BY <1>1, <1>3, <2>2
  <2> QED
    BY <1>1, <2>1, <2>2
<1>9. /\ \A c \in Coming' : c.op = "after" /\ c.id = id => c.n = w.initial
      /\ \/ \A c \in Coming' : c.op # "run"
         \/ b.ignore = w.initial
         \/ \E c \in Coming' : c.op = "after" /\ c.id = id
  <2>1. /\ \A c \in Coming : c.op = "after" /\ c.id = id => c.n = w.initial
        /\ \/ \A c \in Coming : c.op # "run"
           \/ b.ignore = w.initial
           \/ \E c \in Coming : c.op = "after" /\ c.id = id
    BY <1>4, <1>6 DEF TableChose
  <2>2. \A c \in Coming' : c \in Coming \/ c.op = "commands"
    BY <1>1, <1>2
  <2> QED
    BY <1>1, <2>1, <2>2
<1> QED
  BY <1>5, <1>7, <1>8, <1>9 DEF TableChose

LEMMA OutPops ==
    ASSUME IInv, Choices, NEW cs \in Seq(Command), Retires(cs), Follows(cs), may' = may
    PROVE  OutChosen'
<1>1. /\ \A c \in Coming' : c \in Coming \/ \E i \in 1..Len(cs) : c = cs[i]
      /\ \A c \in Asked' : c \in Coming \/ \E i \in 1..Len(cs) : c = cs[i]
      /\ \A c \in Coming : c \in Asked
      /\ ~Answered'
  BY Popped
<1>2. /\ \A i \in 1..Len(out') : \E j \in 1..Len(out) : out'[i] = out[j]
      /\ n.queue[1].op \notin {"run", "continue"} => out' = <<>>
      /\ gdb' = gdb
  BY Answering DEF Retires
<1>3. OutChosen
  BY DEF Choices
<1>4. Len(cs) # 0 => out' = <<>> /\ gdb.inferior # "running"
  <2> SUFFICES ASSUME Len(cs) # 0 PROVE out' = <<>> /\ gdb.inferior # "running"
    OBVIOUS
  <2>1. Done("insert")
    BY DEF Follows
  <2>2. n.queue[1].op = "insert"
    BY <2>1 DEF Done
  <2>3. gdb.inferior # "running"
    BY <2>1, OnlyRunning
  <2> QED
    BY <1>2, <2>2, <2>3
<1>5. CASE Len(cs) = 0
  <2>1. \A c \in Coming' : c \in Coming
    BY <1>1, <1>5
  <2>2. \A c \in Asked' : c \in Asked
    BY <1>1, <1>5
  <2>3. \A k \in 1..Len(out') : out'[k].kind \notin {"done", "error"}
    BY <1>1 DEF Answered
  <2>4. ASSUME NEW k \in 1..Len(out')
        PROVE  /\ out'[k].kind \in {"modified", "stopped"} => \A c \in Asked' : Ordinary(c.op)
               /\ out'[k].kind = "modified" =>
                     /\ "notify" \in may'
                     /\ "ignore" \notin may' => \A id \in DOMAIN out'[k].bps : out'[k].bps[id].initial = 0
    BY <1>2, <1>3, <2>2 DEF OutChosen
  <2> QED
    BY <1>2, <1>3, <2>1, <2>3, <2>4 DEF OutChosen
<1>6. CASE Len(cs) # 0
  <2>1. Len(out') = 0 /\ 1..0 = {} /\ gdb'.inferior # "running"
    BY <1>2, <1>4, <1>6
  <2> QED
    BY <2>1 DEF OutChosen
<1> QED
  BY <1>5, <1>6

LEMMA FeaturesPop ==
    ASSUME IInv, Choices, NEW cs \in Seq(Command), Retires(cs), wanted' = wanted
    PROVE  FeaturesChosen'
<1>1. /\ \A c \in Asked' : c \in Coming \/ \E i \in 1..Len(cs) : c = cs[i]
      /\ \A c \in Coming : c \in Asked
  BY Popped
<1>2. gdb' = gdb /\ may' = may /\ \A i \in 1..Len(cs) : cs[i].op = "commands"
  BY DEF Retires
<1>3. \A c \in Asked' : c \in Asked \/ c.op = "commands"
  BY <1>1, <1>2
<1> QED
  BY <1>2, <1>3 DEF Choices, FeaturesChosen

(* The cache has the lines it had, but for what is inserted or deleted.    *)
CacheLines ==
    /\ \A id \in DOMAIN n'.cache :
          IF id \in DOMAIN n.cache THEN n'.cache[id].loc = n.cache[id].loc
          ELSE Done("insert") /\ id = gdb.next - 1
    /\ \A id \in DOMAIN n.cache :
          id \in DOMAIN n'.cache \/ (n.queue[1].op = "delete" /\ n.queue[1].id = id)
    /\ Done("insert") =>
          gdb.next - 1 \in DOMAIN n'.cache /\ n'.cache[gdb.next - 1].loc = n.queue[1].loc
    /\ n.queue[1].op = "delete" => n.queue[1].id \notin DOMAIN n'.cache

(* An insertion at the head was done: its breakpoint has the first number. *)
LEMMA HeadInserts ==
    ASSUME IInv, Choices, NEW cs \in Seq(Command), Retires(cs)
    PROVE  /\ n.queue[1].op = "insert" <=> Done("insert")
           /\ First' = IF Done("insert") THEN First + 1 ELSE First
           /\ Done("insert") => First = gdb.next - 1
           /\ First \in Int /\ 1 \in 1..Len(n.queue) /\ Len(n.queue) \in Nat \ {0}
<1>1. /\ n.queue # <<>> /\ n.queue \in Seq(Command) /\ 1 \in 1..Len(n.queue)
      /\ \A op : Done(op) <=> out[1].kind = "done" /\ n.queue[1].op = op
      /\ First' = gdb.next /\ gdb.next \in Int /\ First \in Int
      /\ First = IF out[1].kind = "done" /\ n.queue[1].op = "insert"
                 THEN gdb.next - 1 ELSE gdb.next
  BY Answering
<1>2. out[1].kind = "error" => n.queue[1].op # "insert"
  <2>1. out \in Seq(Record) /\ out # <<>>
    BY DEF IInv, Typed, Retires
  <2>2. 1 \in 1..Len(out)
    BY <2>1
  <2> QED
    BY <2>2 DEF IInv, AnswerInv
<1>3. out[1].kind \in {"done", "error"}
  BY DEF Retires
<1>4. n.queue[1].op = "insert" <=> Done("insert")
  BY <1>1, <1>2, <1>3
<1>5. Done("insert") => First = gdb.next - 1 /\ First' = First + 1
  BY <1>1
<1>6. ~Done("insert") => First' = First
  BY <1>1
<1>7. Len(n.queue) \in Nat \ {0}
  BY <1>1
<1> QED
  BY <1>1, <1>4, <1>5, <1>6, <1>7

LEMMA InsertsPop ==
    ASSUME IInv, Choices, NEW cs \in Seq(Command), Retires(cs), wanted' = wanted, CacheLines
    PROVE  InsertsChosen'
<1>1. PICK q, p, k : q = n.queue /\ p = n'.queue /\ k = First
  OBVIOUS
<1>2. /\ Len(q) \in Nat \ {0} /\ Len(p) = Len(q) + Len(cs) - 1 /\ Len(cs) \in Nat
      /\ \A i \in 1..Len(p) : \/ i + 1 \in 1..Len(q) /\ p[i] = q[i + 1]
                              \/ \E j \in 1..Len(cs) : p[i] = cs[j]
      /\ \A i \in 1..Len(q) : i # 1 => i - 1 \in 1..Len(p) /\ p[i - 1] = q[i]
  BY <1>1, Popped DEF Shifts
<1>3. \A i \in 1..Len(cs) : cs[i].op = "commands"
  BY DEF Retires
<1>4. /\ q[1].op = "insert" <=> Done("insert")
      /\ First' = IF Done("insert") THEN k + 1 ELSE k
      /\ Done("insert") => k = gdb.next - 1
      /\ k \in Int
  BY <1>1, HeadInserts
<1> SUFFICES ASSUME NEW i \in 1..Len(p), p[i].op = "insert"
             PROVE  /\ AsChosen(p[i])
                    /\ \A id \in DOMAIN n'.cache : n'.cache[id].loc = p[i].loc => id = First' + i - 1
                    /\ \A j \in 1..(i - 1) : p[j].loc # p[i].loc
  BY <1>1 DEF InsertsChosen, AsChosen
<1>5. PICK l : l = i + 1 /\ l \in 1..Len(q) /\ p[i] = q[l] /\ l # 1 /\ q[l].op = "insert"
  <2>1. i + 1 \in 1..Len(q) /\ p[i] = q[i + 1]
    BY <1>2, <1>3
  <2> QED
    BY <2>1
<1>6. /\ AsChosen(q[l])
      /\ \A id \in DOMAIN n.cache : n.cache[id].loc = q[l].loc => id = k + l - 1
      /\ \A j \in 1..(l - 1) : q[j].loc # q[l].loc
  BY <1>1, <1>5 DEF Choices, InsertsChosen
<1>7. q[1].op = "insert" /\ Done("insert") /\ First' = k + 1 /\ k = gdb.next - 1
  <2>1. \A j \in 1..l : q[j].op = "insert"
    BY <1>1, <1>5 DEF Choices, Turns
  <2>2. 1 \in 1..l
    BY <1>5
  <2> QED
    BY <1>4, <2>1, <2>2
<1>8. q[1].loc # q[l].loc
  <2>1. 1 \in 1..(l - 1)
    BY <1>5
  <2> QED
    BY <1>6, <2>1
<1>9. ASSUME NEW id \in DOMAIN n'.cache, n'.cache[id].loc = p[i].loc PROVE id = First' + i - 1
  <2>1. n'.cache[k].loc = q[1].loc
    BY <1>1, <1>7 DEF CacheLines
  <2>2. id # k
    BY <1>5, <1>8, <1>9, <2>1
  <2>3. id \in DOMAIN n.cache /\ n'.cache[id].loc = n.cache[id].loc
    BY <1>7, <2>2 DEF CacheLines
  <2>4. id = k + l - 1
    BY <1>5, <1>6, <1>9, <2>3
  <2> QED
    BY <1>4, <1>5, <1>7, <2>4
<1>10. \A j \in 1..(i - 1) : p[j].loc # p[i].loc
  <2> SUFFICES ASSUME NEW j \in 1..(i - 1) PROVE p[j].loc # p[i].loc
    OBVIOUS
  <2>1. j + 1 \in 1..(l - 1) /\ j + 1 \in 1..Len(q) /\ j + 1 # 1 /\ (j + 1) - 1 = j
    BY <1>2, <1>5
  <2>2. p[j] = q[j + 1]
    <3>1. p[(j + 1) - 1] = q[j + 1]
      BY <1>2, <2>1
    <3> QED
      BY <2>1, <3>1
  <2> QED
    BY <1>5, <1>6, <2>1, <2>2
<1> QED
  BY <1>5, <1>6, <1>9, <1>10

LEMMA LinesPop ==
    ASSUME IInv, Choices, NEW cs \in Seq(Command), Retires(cs), wanted' = wanted, CacheLines
    PROVE  LinesChosen'
<1>1. PICK q, p, k : q = n.queue /\ p = n'.queue /\ k = First
  OBVIOUS
<1>2. /\ \A c \in Asked' : c \in Coming \/ \E i \in 1..Len(cs) : c = cs[i]
      /\ \A c \in Coming : c \in Asked'
      /\ \A c \in Asked : c = q[1] \/ c \in Coming
      /\ \A c \in Coming : c \in Asked
  BY <1>1, Popped
<1>3. \A i \in 1..Len(cs) : cs[i].op = "commands"
  BY DEF Retires
<1>4. /\ q[1].op = "insert" <=> Done("insert")
      /\ Done("insert") => k = gdb.next - 1
      /\ 1 \in 1..Len(q) /\ q[1] \in Asked
  BY <1>1, HeadInserts DEF Asked
<1>5. LinesChosen
  BY DEF Choices
<1>6. /\ \A x : Deleting(x) <=> \E c \in Asked : c.op = "delete" /\ c.id = x
      /\ \A x : Deleting(x)' <=> \E c \in Asked' : c.op = "delete" /\ c.id = x
  BY DEF Deleting, Asked
<1>7. \A x : Deleting(x)' => Deleting(x)
  BY <1>2, <1>3, <1>6
<1>8. \A x : Deleting(x) => Deleting(x)' \/ (q[1].op = "delete" /\ q[1].id = x)
  BY <1>2, <1>6
<1>9. Done("insert") => /\ AsChosen(q[1])
                        /\ \A id \in DOMAIN n.cache : n.cache[id].loc = q[1].loc => id = k
                        /\ \A x : ~Deleting(x)
  <2> SUFFICES ASSUME Done("insert")
               PROVE  /\ AsChosen(q[1])
                      /\ \A id \in DOMAIN n.cache : n.cache[id].loc = q[1].loc => id = k
                      /\ \A x : ~Deleting(x)
    OBVIOUS
  <2>1. /\ AsChosen(q[1])
        /\ \A id \in DOMAIN n.cache : n.cache[id].loc = q[1].loc => id = k + 1 - 1
    BY <1>1, <1>4 DEF Choices, InsertsChosen
  <2>2. \A j \in 1..Len(q) : q[j].op \in {"insert", "run", "list"}
    BY <1>1, <1>4 DEF Choices, Turns
  <2>3. k + 1 - 1 = k
    BY <1>1, HeadInserts
  <2> QED
    BY <1>1, <2>1, <2>2, <2>3 DEF Deleting
<1>10. ASSUME NEW loc \in DOMAIN wanted
       PROVE  \/ \E id \in DOMAIN n'.cache : n'.cache[id].loc = loc
              \/ \E c \in Asked' : c.op = "insert" /\ c.loc = loc
  <2>1. CASE \E id \in DOMAIN n.cache : n.cache[id].loc = loc
    <3>1. PICK id \in DOMAIN n.cache : n.cache[id].loc = loc
      BY <2>1
    <3>2. ~Deleting(id)
      BY <1>5, <3>1 DEF LinesChosen
    <3>3. id \in DOMAIN n'.cache
      BY <1>1, <1>4, <1>6, <3>2 DEF CacheLines
    <3>4. n'.cache[id].loc = loc
      BY <3>1, <3>3 DEF CacheLines
    <3> QED
      BY <3>3, <3>4
  <2>2. CASE \E c \in Asked : c.op = "insert" /\ c.loc = loc
    <3>1. PICK c \in Asked : c.op = "insert" /\ c.loc = loc
      BY <2>2
    <3>2. CASE c \in Coming
      BY <1>2, <3>1, <3>2
    <3>3. CASE c = q[1]
      <4>1. k \in DOMAIN n'.cache /\ n'.cache[k].loc = loc
        BY <1>1, <1>4, <3>1, <3>3 DEF CacheLines
      <4> QED
        BY <4>1
    <3> QED
      BY <1>2, <3>2, <3>3
  <2> QED
    BY <1>5, <2>1, <2>2 DEF LinesChosen
<1>11. ASSUME NEW id \in DOMAIN n'.cache
       PROVE  n'.cache[id].loc \in DOMAIN wanted <=> ~Deleting(id)'
  <2>1. CASE id \in DOMAIN n.cache
    <3>1. n'.cache[id].loc = n.cache[id].loc
      BY <1>11, <2>1 DEF CacheLines
    <3>2. n.cache[id].loc \in DOMAIN wanted <=> ~Deleting(id)
      BY <1>5, <2>1 DEF LinesChosen
    <3>3. ~(q[1].op = "delete" /\ q[1].id = id)
      BY <1>1, <1>11 DEF CacheLines
    <3> QED
      BY <1>7, <1>8, <3>1, <3>2, <3>3
  <2>2. CASE id \notin DOMAIN n.cache
    <3>1. Done("insert") /\ id = k
      BY <1>4, <1>11, <2>2 DEF CacheLines
    <3>2. n'.cache[id].loc = q[1].loc
      BY <1>1, <1>4, <3>1 DEF CacheLines
    <3>3. q[1].loc \in DOMAIN wanted /\ ~Deleting(id)
      BY <1>9, <3>1 DEF AsChosen
    <3> QED
      BY <1>7, <3>2, <3>3
  <2> QED
    BY <2>1, <2>2
<1>12. ASSUME NEW id \in DOMAIN n'.cache, NEW other \in DOMAIN n'.cache,
              n'.cache[other].loc = n'.cache[id].loc
       PROVE  other = id
  <2>1. CASE id \in DOMAIN n.cache /\ other \in DOMAIN n.cache
    <3>1. n'.cache[id].loc = n.cache[id].loc /\ n'.cache[other].loc = n.cache[other].loc
      BY <1>12, <2>1 DEF CacheLines
    <3> QED
      BY <1>5, <1>12, <2>1, <3>1 DEF LinesChosen
  <2>2. ASSUME NEW x \in DOMAIN n'.cache, NEW y \in DOMAIN n'.cache, x \notin DOMAIN n.cache,
               n'.cache[y].loc = n'.cache[x].loc
        PROVE  x = y
    <3>1. Done("insert") /\ x = k /\ n'.cache[x].loc = q[1].loc
      BY <1>1, <1>4, <2>2 DEF CacheLines
    <3>2. CASE y \in DOMAIN n.cache
      <4>1. n'.cache[y].loc = n.cache[y].loc
        BY <2>2, <3>2 DEF CacheLines
      <4> QED
        BY <1>9, <2>2, <3>1, <3>2, <4>1
    <3>3. CASE y \notin DOMAIN n.cache
      BY <1>4, <2>2, <3>1, <3>3 DEF CacheLines
    <3> QED
      BY <3>2, <3>3
  <2> QED
    BY <1>12, <2>1, <2>2
<1>13. \A loc \in DOMAIN wanted : wanted[loc].loc = loc
  BY <1>5 DEF LinesChosen
<1> QED
  BY <1>10, <1>11, <1>12, <1>13 DEF LinesChosen

LEMMA AnswerPops ==
    ASSUME IInv, Choices, NEW cs \in Seq(Command), Retires(cs), Follows(cs),
           wanted' = wanted, CacheLines, CacheChosen'
    PROVE  Choices'
<1>1. Turns(n'.queue)
  <2>1. Shifts(n.queue, cs, n'.queue)
    BY Popped
  <2>2. Turns(n.queue)
    BY DEF Choices
  <2>3. Done("insert") => n.queue[1].op = "insert" /\ 1 \in 1..Len(n.queue)
    BY HeadInserts
  <2>4. Len(cs) = 0 \/ (Len(n.queue) = 1 /\ Len(cs) = 1 /\ cs[1].op = "commands")
    BY <2>2, <2>3 DEF Follows, Turns
  <2> QED
    BY <2>1, <2>2, <2>4, TurnsPop
<1>2. may' = may
  BY DEF Retires
<1>3. InsertsChosen' /\ LinesChosen'
  BY InsertsPop, LinesPop
<1>4. FeaturesChosen' /\ TableChosen'
  BY FeaturesPop, TablePops
<1>5. OutChosen'
  BY <1>2, OutPops
<1>6. Turns(n.queue)'
  BY <1>1 DEF Turns
<1> QED
  BY <1>3, <1>4, <1>5, <1>6 DEF Choices

(* An answer that no commands follow, and that may change of breakpoint id *)
(* whether it is enabled, to e, and whether it is a countpoint, to c.      *)
LEMMA NoMore ==
    ASSUME IInv, OnOutputRecord, out[1].kind \in {"done", "error"},
           NEW s \in Nemiver, Handled(s), s.queue = n.queue
    PROVE  /\ <<>> \in Seq(Command) /\ Len(<<>>) = 0 /\ Retires(<<>>)
           /\ n'.cache = s.cache /\ wanted' = wanted
<1> DEFINE cs == <<>>
<1>1. n \in Nemiver /\ n.queue \in Seq(Command) /\ wanted' = wanted
  BY Records DEF Nemiver
<1>2. cs \in Seq(Command) /\ Len(cs) = 0 /\ n.queue = n.queue \o cs /\ \A i \in 1..Len(cs) : FALSE
  BY <1>1, ConcatEmptySeq
<1> HIDE DEF cs
<1>3. Retires(cs) /\ n'.cache = s.cache
  BY <1>2, Retiring
<1> QED
  BY <1>1, <1>2, <1>3 DEF cs

Later(op) == \E i \in 1..Len(n.queue) : i # 1 /\ n.queue[i].op = op
Stands(id, e, c) ==
    /\ \/ e = n.cache[id].enabled /\ n.queue[1].op # "list"
       \/ e = wanted[n.cache[id].loc].enabled
       \/ Later("list")
    /\ \/ c = n.cache[id].count /\ ~(n.queue[1].op = "commands" /\ n.queue[1].id = id)
       \/ c = wanted[n.cache[id].loc].count

LEMMA AnswerStands ==
    ASSUME IInv, Choices, OnOutputRecord, out[1].kind \in {"done", "error"},
           NEW s \in Nemiver, Handled(s), s.queue = n.queue, n.queue[1].op # "insert",
           \A id \in DOMAIN s.cache :
               /\ id \in DOMAIN n.cache /\ s.cache[id].loc = n.cache[id].loc
               /\ s.cache[id].initial = n.cache[id].initial
               /\ Here(n.cache[id]) => Stands(id, s.cache[id].enabled, s.cache[id].count),
           \A id \in DOMAIN n.cache :
               id \in DOMAIN s.cache \/ (n.queue[1].op = "delete" /\ n.queue[1].id = id),
           n.queue[1].op = "delete" => n.queue[1].id \notin DOMAIN s.cache
    PROVE  Choices'
<1> DEFINE cs == <<>>
<1>1. cs \in Seq(Command) /\ Len(cs) = 0 /\ Retires(cs) /\ n'.cache = s.cache /\ wanted' = wanted
  BY NoMore
<1> HIDE DEF cs
<1>2. ~Done("insert")
  BY DEF Done
<1>3. Follows(cs)
  BY <1>1, <1>2 DEF Follows
<1>4. CacheLines
  BY <1>1, <1>2 DEF CacheLines
<1>5. /\ \A c \in Asked' : c \in Coming
      /\ \A c \in Coming : \E i \in 1..Len(n.queue) : i # 1 /\ c = n.queue[i]
      /\ Shifts(n.queue, cs, n'.queue)
  <2>1. 1..Len(cs) = {}
    BY <1>1
  <2>2. /\ \A c \in Asked' : c \in Coming \/ \E i \in 1..Len(cs) : c = cs[i]
        /\ \A c \in Coming : c \in Asked /\ \E i \in 1..Len(n.queue) : i # 1 /\ c = n.queue[i]
        /\ Shifts(n.queue, cs, n'.queue)
    BY <1>1, Popped
  <2> QED
    BY <2>1, <2>2
<1>6. \A c \in Asked' : c.op # "commands"
  <2>1. \A i \in 1..Len(n.queue) : n.queue[i].op = "commands" => i = 1
    BY DEF Choices, Turns
  <2> QED
    BY <1>5, <2>1
<1>7. /\ Later("list") => Listing(n'.queue)
      /\ Listing(n.queue) /\ n.queue[1].op # "list" => Listing(n'.queue)
      /\ \A id : Commanding(n.queue, id) =>
            Commanding(n'.queue, id) \/ (n.queue[1].op = "commands" /\ n.queue[1].id = id)
  <2>1. ASSUME Later("list") PROVE Listing(n'.queue)
    <3>1. PICK i \in 1..Len(n.queue) : i # 1 /\ n.queue[i].op = "list"
      BY <2>1 DEF Later
    <3>2. i - 1 \in 1..Len(n'.queue) /\ n'.queue[i - 1] = n.queue[i]
      BY <1>5, <3>1 DEF Shifts
    <3> QED
      BY <3>1, <3>2 DEF Listing
  <2> QED
    BY <1>5, <2>1, Remaining
<1>8. ASSUME NEW id \in DOMAIN n'.cache, n'.cache[id].loc \in DOMAIN wanted PROVE CacheChose(id)'
  <2>1. PICK b, d, w : b = n.cache[id] /\ d = n'.cache[id] /\ w = wanted[n.cache[id].loc]
    OBVIOUS
  <2>2. id \in DOMAIN n.cache /\ d.loc = b.loc /\ d.initial = b.initial
    BY <1>1, <1>8, <2>1
  <2>3. Here(n.cache[id])
    BY <1>1, <1>8, <2>1, <2>2 DEF Here
  <2>4. Stands(id, d.enabled, d.count) /\ CacheChose(id)
    BY <1>1, <1>8, <2>1, <2>2, <2>3 DEF Choices, CacheChosen
  <2>5. d.initial = w.initial
    BY <2>1, <2>2, <2>4 DEF CacheChose
  <2>6. d.enabled = w.enabled \/ Listing(n'.queue)
    BY <1>7, <2>1, <2>4 DEF CacheChose, Stands
  <2>7. d.count = w.count \/ Commanding(n'.queue, id)
    BY <1>7, <2>1, <2>4 DEF CacheChose, Stands
  <2>8. wanted'[n'.cache[id].loc] = w /\ n'.cache[id] = d
    BY <1>1, <2>1, <2>2
  <2>9. Listing(n.queue)' = Listing(n'.queue) /\ Commanding(n.queue, id)' = Commanding(n'.queue, id)
    BY DEF Listing, Commanding
  <2> QED
    BY <1>6, <2>5, <2>6, <2>7, <2>8, <2>9 DEF CacheChose
<1>9. CacheChosen'
  BY <1>1, <1>8 DEF CacheChosen, Here
<1> QED
  BY <1>1, <1>3, <1>4, <1>9, AnswerPops

(* The cache stays.                                                        *)
LEMMA ChosenUntouched ==
    ASSUME IInv, Choices, OnOutputRecord, Handled(n),
           \/ out[1].kind = "error"
           \/ /\ out[1].kind = "done"
              /\ n.queue[1].op \in {"enable", "disable", "after", "run", "continue"}
    PROVE  Choices'
<1>1. /\ n \in Nemiver /\ 1 \in 1..Len(out) /\ n.queue # <<>> /\ 1 \in 1..Len(n.queue)
  <2>1. n \in Nemiver /\ 1 \in 1..Len(out) /\ n.queue \in Seq(Command)
    BY Records DEF Nemiver
  <2>2. n.queue # <<>>
    BY <2>1 DEF IInv, OutInv
  <2> QED
    BY <2>1, <2>2, Ends
<1>2. n.queue[1].op \notin {"insert", "list"}
  BY <1>1 DEF IInv, AnswerInv
<1>3. n.queue[1].op \in {"commands", "delete"} =>
          /\ n.queue[1].id \notin DOMAIN gdb.table
          /\ ~Done("delete") /\ ~Again
  <2> SUFFICES ASSUME n.queue[1].op \in {"commands", "delete"}
               PROVE  n.queue[1].id \notin DOMAIN gdb.table /\ ~Done("delete") /\ ~Again
    OBVIOUS
  <2>1. out[1].kind = "error"
    OBVIOUS
  <2>2. Gone
    BY <1>1, <2>1 DEF IInv, AnswerInv, Choices, OutChosen
  <2>3. \A i \in 1..Len(out) : out[i].kind # "done"
    <3>1. \A i \in 1..Len(out) : out[i].kind \in {"done", "error"} => i = 1
      BY <1>1, <2>1 DEF IInv, OutInv
    <3> QED
      BY <2>1, <3>1
  <2>4. ~Again
    BY <1>1, <2>2 DEF IInv, AgainInv, Gone
  <2> QED
    BY <2>2, <2>3, <2>4 DEF Gone, Done
<1>4. n.queue[1].op \in {"commands", "delete"} => n.queue[1].id \notin DOMAIN n.cache
  BY <1>3 DEF IInv, CacheInv
<1>5. \A id \in DOMAIN n.cache : Stands(id, n.cache[id].enabled, n.cache[id].count)
  BY <1>2, <1>4 DEF Stands
<1>6. out[1].kind \in {"done", "error"}
  OBVIOUS
<1> QED
  BY <1>1, <1>2, <1>4, <1>5, <1>6, AnswerStands

LEMMA ChosenDeletes ==
    ASSUME IInv, Choices, OnOutputRecord,
           out[1].kind = "done", n.queue[1].op = "delete",
           NEW s, s = NotifyDeleted(n, n.queue[1].id),
           Handled(s)
    PROVE  Choices'
<1> DEFINE id == n.queue[1].id
<1>1. /\ n \in Nemiver /\ n.queue \in Seq(Command) /\ 1 \in 1..Len(out) /\ n.queue # <<>>
  <2>1. n \in Nemiver /\ n.queue \in Seq(Command) /\ 1 \in 1..Len(out)
    BY Records DEF Nemiver
  <2> QED
    BY <2>1 DEF IInv, OutInv
<1>2. id \in Ids
  <2>1. n.queue[1] \in Command
    BY <1>1, Ends
  <2> QED
    BY <2>1, CommandFacts
<1>3. /\ s \in Nemiver /\ s.queue = n.queue
      /\ DOMAIN s.cache = DOMAIN n.cache \ {id}
      /\ \A x \in DOMAIN n.cache \ {id} : s.cache[x] = n.cache[x]
  <2>1. CASE id \in DOMAIN n.cache
    <3>1. s \in Nemiver /\ s.queue = n.queue /\ s.cache = Without(n.cache, id)
      BY <1>1, <1>2, <2>1, NotifyDeletedEffect
    <3> QED
      BY <3>1 DEF Without, Restrict
  <2>2. CASE id \notin DOMAIN n.cache
    <3>1. s = n
      BY <2>2 DEF NotifyDeleted
    <3> QED
      BY <1>1, <2>2, <3>1
  <2> QED
    BY <2>1, <2>2
<1> HIDE DEF id
<1>4. n.queue[1].id = id
  BY DEF id
<1>5. \A x \in DOMAIN s.cache : Stands(x, s.cache[x].enabled, s.cache[x].count)
  <2> SUFFICES ASSUME NEW x \in DOMAIN s.cache
               PROVE  Stands(x, s.cache[x].enabled, s.cache[x].count)
    OBVIOUS
  <2>1. s.cache[x] = n.cache[x]
    BY <1>3
  <2> QED
    BY <2>1 DEF Stands
<1>6. out[1].kind \in {"done", "error"} /\ n.queue[1].op # "insert"
  OBVIOUS
<1>7. \A x \in DOMAIN s.cache : x \in DOMAIN n.cache /\ s.cache[x] = n.cache[x]
  BY <1>3
<1>8. \A x \in DOMAIN n.cache : x \in DOMAIN s.cache \/ id = x
  BY <1>3
<1>9. id \notin DOMAIN s.cache
  BY <1>3
<1>10. s \in Nemiver /\ s.queue = n.queue
  BY <1>3
<1> QED
  BY <1>4, <1>5, <1>6, <1>7, <1>8, <1>9, <1>10, AnswerStands

(* The cache is shown, with the commands of a countpoint or a list.        *)
LEMMA ChosenShows ==
    ASSUME IInv, Choices, OnOutputRecord, out[1].kind = "done",
           n.queue[1].op \in {"commands", "list"},
           NEW t \in Nemiver, t.queue = n.queue, t.shown = n.shown, t.rows = n.rows,
           DOMAIN t.cache = DOMAIN n.cache,
           \A x \in DOMAIN n.cache :
               /\ t.cache[x].loc = n.cache[x].loc
               /\ t.cache[x].initial = n.cache[x].initial
               /\ Here(n.cache[x]) => Stands(x, t.cache[x].enabled, t.cache[x].count),
           NEW s, s = BreakpointsList(t),
           Handled(s)
    PROVE  Choices'
<1>1. /\ DOMAIN n.shown \subseteq DOMAIN t.cache
      /\ \A x \in Ids : n.rows[x] = IF x \in DOMAIN n.shown THEN 1 ELSE 0
  BY DEF IInv, ShownInv
<1>2. s \in Nemiver /\ s.queue = n.queue /\ s.cache = t.cache
  BY <1>1, ListEffect
<1>3. n.queue[1].op \notin {"insert", "delete"} /\ out[1].kind \in {"done", "error"}
  OBVIOUS
<1>4. DOMAIN s.cache = DOMAIN n.cache
  BY <1>2
<1>5. \A x \in DOMAIN s.cache :
          /\ s.cache[x].loc = n.cache[x].loc /\ s.cache[x].initial = n.cache[x].initial
          /\ Here(n.cache[x]) => Stands(x, s.cache[x].enabled, s.cache[x].count)
  BY <1>2
<1> QED
  BY <1>2, <1>3, <1>4, <1>5, AnswerStands

LEMMA ChosenCounts ==
    ASSUME IInv, Choices, OnOutputRecord,
           out[1].kind = "done", n.queue[1].op = "commands",
           NEW s, s = BreakpointsList(Flag(n, n.queue[1].id, n.queue[1].yes)),
           Handled(s)
    PROVE  Choices'
<1> DEFINE c == n.queue[1]
<1>1. /\ n \in Nemiver /\ c \in Command /\ c.id \in Ids /\ c.yes \in BOOLEAN /\ c \in Asked
  <2>1. n \in Nemiver /\ n.queue \in Seq(Command) /\ 1 \in 1..Len(out)
    BY Records DEF Nemiver
  <2>2. n.queue # <<>>
    BY <2>1 DEF IInv, OutInv
  <2>3. c \in Command /\ 1 \in 1..Len(n.queue)
    BY <2>1, <2>2, Ends
  <2> QED
    BY <2>1, <2>2, <2>3, CommandFacts DEF Asked
<1>2. PICK t : t = Flag(n, c.id, c.yes)
  OBVIOUS
<1>3. /\ t \in Nemiver /\ t.queue = n.queue /\ t.shown = n.shown /\ t.rows = n.rows
      /\ DOMAIN t.cache = DOMAIN n.cache
      /\ \A x \in DOMAIN n.cache :
            /\ t.cache[x].loc = n.cache[x].loc
            /\ t.cache[x].enabled = n.cache[x].enabled
            /\ t.cache[x].count = IF x = c.id THEN c.yes /\ ~n.cache[x].count ELSE n.cache[x].count
            /\ t.cache[x].initial = n.cache[x].initial
  <2>1. PICK id, yes : id = c.id /\ yes = c.yes
    OBVIOUS
  <2>2. n \in Nemiver /\ id \in Ids /\ yes \in BOOLEAN /\ t = Flag(n, id, yes)
    BY <1>1, <1>2, <2>1
  <2> HIDE DEF c
  <2>3. /\ t \in Nemiver /\ t.queue = n.queue /\ t.shown = n.shown /\ t.rows = n.rows
        /\ DOMAIN t.cache = DOMAIN n.cache
        /\ \A x \in DOMAIN n.cache :
              /\ t.cache[x].loc = n.cache[x].loc
              /\ t.cache[x].enabled = n.cache[x].enabled
              /\ t.cache[x].count = IF x = id THEN yes /\ ~n.cache[x].count ELSE n.cache[x].count
              /\ t.cache[x].initial = n.cache[x].initial
    BY <2>2, FlagEffect
  <2> QED
    BY <2>1, <2>3
<1>4. s = BreakpointsList(t)
  BY <1>2
<1>5. c.op = "commands"
  OBVIOUS
<1> HIDE DEF c
<1>6. ASSUME NEW x \in DOMAIN n.cache, Here(n.cache[x])
      PROVE  Stands(x, t.cache[x].enabled, t.cache[x].count)
  <2>1. t.cache[x].enabled = n.cache[x].enabled /\ n.queue[1].op # "list"
    BY <1>3
  <2>2. CASE x # c.id
    <3>1. t.cache[x].count = n.cache[x].count /\ n.queue[1].id # x
      BY <1>3, <2>2 DEF c
    <3> QED
      BY <2>1, <3>1 DEF Stands
  <2>3. CASE x = c.id
    <3>1. PICK b, w : b = n.cache[x] /\ w = wanted[n.cache[x].loc]
      OBVIOUS
    <3>2. CacheChose(x)
      BY <1>6 DEF Choices, CacheChosen
    <3>3. c.yes = w.count /\ c.yes # b.count
      BY <1>1, <1>5, <2>3, <3>1, <3>2 DEF CacheChose
    <3>4. b.count \in BOOLEAN
      <4>1. n.cache[x] \in Breakpoint
        BY <1>1, TableFacts DEF Nemiver, IsTable
      <4> QED
        BY <3>1, <4>1 DEF Breakpoint
    <3>5. t.cache[x].count = (c.yes /\ ~b.count)
      BY <1>3, <2>3, <3>1
    <3>6. t.cache[x].count = w.count
      BY <1>1, <3>3, <3>4, <3>5
    <3> QED
      BY <2>1, <3>1, <3>6 DEF Stands
  <2> QED
    BY <2>2, <2>3
<1> QED
  BY <1>3, <1>4, <1>6, ChosenShows

LEMMA ChosenLists ==
    ASSUME IInv, BreakpointsAssumption, Choices, OnOutputRecord,
           out[1].kind = "done", n.queue[1].op = "list", out[1].bps # Nothing,
           NEW s, s = BreakpointsList(Cache(n, out[1].bps)),
           Handled(s)
    PROVE  Choices'
<1> DEFINE b == out[1].bps
           cs == <<>>
<1>1. /\ n \in Nemiver /\ n.queue \in Seq(Command) /\ 1 \in 1..Len(out) /\ b \in Tables(Breakpoint)
  BY Records DEF Record, Nemiver
<1>2. /\ DOMAIN b = DOMAIN gdb.table
      /\ \A id \in DOMAIN b : b[id].loc = gdb.table[id].loc /\ b[id].enabled = gdb.table[id].enabled
  BY <1>1 DEF IInv, AnswerInv, ListDone
<1>3. s = BreakpointsList(Cache(n, b))
  OBVIOUS
<1> HIDE DEF b, cs
<1>4. PICK t : t = Cache(n, b)
  OBVIOUS
<1>5. /\ t \in Nemiver /\ t.queue = n.queue /\ t.shown = n.shown /\ t.rows = n.rows
      /\ DOMAIN t.cache = DOMAIN n.cache \union DOMAIN b
      /\ \A x \in DOMAIN b :
            /\ t.cache[x].loc = b[x].loc /\ t.cache[x].enabled = b[x].enabled
            /\ t.cache[x].count = (x \in DOMAIN n.cache /\ n.cache[x].count)
            /\ t.cache[x].initial = IF x \in DOMAIN n.cache
                                    THEN n.cache[x].initial ELSE b[x].initial
  BY <1>1, <1>4, CacheEffect
<1>6. DOMAIN n.cache = DOMAIN gdb.table
  <2>1. s \in Nemiver /\ s.queue = n.queue
    <3>1. /\ DOMAIN n.shown \subseteq DOMAIN t.cache
          /\ \A x \in Ids : n.rows[x] = IF x \in DOMAIN n.shown THEN 1 ELSE 0
      BY <1>5 DEF IInv, ShownInv
    <3>2. s = BreakpointsList(t)
      BY <1>3, <1>4
    <3> QED
      BY <1>5, <3>1, <3>2, ListEffect
  <2>2. cs \in Seq(Command) /\ Retires(cs)
    BY <2>1, NoMore DEF cs
  <2> QED
    BY <2>2, SameNumbers
<1>7. DOMAIN t.cache = DOMAIN n.cache
  BY <1>2, <1>5, <1>6
<1>8. \A x \in DOMAIN n.cache : n.cache[x].loc = gdb.table[x].loc /\ n.cache[x].count \in BOOLEAN
  <2>1. \A x \in DOMAIN n.cache : n.cache[x].loc = gdb.table[x].loc
    BY <1>6 DEF IInv, CacheInv
  <2>2. \A x \in DOMAIN n.cache : n.cache[x] \in Breakpoint
    BY <1>1, TableFacts DEF Nemiver, IsTable
  <2> QED
    BY <2>1, <2>2 DEF Breakpoint
<1>9. ASSUME NEW x \in DOMAIN n.cache
      PROVE  /\ t.cache[x].loc = n.cache[x].loc /\ t.cache[x].initial = n.cache[x].initial
             /\ Here(n.cache[x]) => Stands(x, t.cache[x].enabled, t.cache[x].count)
  <2>1. x \in DOMAIN b
    BY <1>2, <1>6
  <2>2. /\ t.cache[x].loc = b[x].loc /\ t.cache[x].enabled = b[x].enabled
        /\ t.cache[x].count = (x \in DOMAIN n.cache /\ n.cache[x].count)
        /\ t.cache[x].initial = n.cache[x].initial
    BY <1>5, <2>1
  <2>3. t.cache[x].loc = n.cache[x].loc
    BY <1>2, <1>8, <2>1, <2>2
  <2>4. t.cache[x].count = n.cache[x].count
    BY <1>8, <2>2
  <2>5. t.cache[x].enabled = gdb.table[x].enabled
    BY <1>2, <2>1, <2>2
  <2>6. ASSUME Here(n.cache[x])
        PROVE  t.cache[x].enabled = wanted[n.cache[x].loc].enabled \/ Later("list")
    <3>1. x \in DOMAIN gdb.table /\ Here(gdb.table[x]) /\ gdb.table[x].loc = n.cache[x].loc
      BY <1>6, <1>8, <2>6 DEF Here
    <3>2. TableChose(x)
      BY <3>1 DEF Choices, TableChosen
    <3>3. \/ gdb.table[x].enabled = wanted[n.cache[x].loc].enabled
          \/ \E c \in Coming : c.op \in {"enable", "disable"}
      BY <3>1, <3>2 DEF TableChose
    <3>4. ASSUME NEW c \in Coming, c.op \in {"enable", "disable"} PROVE Later("list")
      <4>1. PICK i \in 1..Len(n.queue) : c = n.queue[i]
        BY DEF Coming
      <4>2. PICK j \in (i + 1)..Len(n.queue) : n.queue[j].op = "list"
        BY <3>4, <4>1 DEF IInv, QueueInv
      <4>3. j \in 1..Len(n.queue) /\ j # 1
        BY <1>1, <4>1, <4>2
      <4> QED
        BY <4>2, <4>3 DEF Later
    <3> QED
      BY <2>5, <3>3, <3>4
  <2>7. ~(n.queue[1].op = "commands" /\ n.queue[1].id = x)
    OBVIOUS
  <2> QED
    BY <2>2, <2>3, <2>4, <2>6, <2>7 DEF Stands
<1>10. s = BreakpointsList(t)
  BY <1>3, <1>4
<1> QED
  BY <1>5, <1>7, <1>9, <1>10, ChosenShows

LEMMA ChosenListsNothing ==
    ASSUME IInv, BreakpointsAssumption, Choices, OnOutputRecord,
           out[1].kind = "done", n.queue[1].op = "list", out[1].bps = Nothing,
           Handled(n)
    PROVE  Choices'
<1> DEFINE cs == <<>>
<1>1. n \in Nemiver /\ 1 \in 1..Len(out)
  BY Records
<1>2. cs \in Seq(Command) /\ Retires(cs)
  BY <1>1, NoMore
<1> HIDE DEF cs
<1>3. DOMAIN gdb.table = {}
  <2>1. ListDone(Nothing)
    BY <1>1 DEF IInv, AnswerInv
  <2> QED
    BY <2>1, EmptyTable DEF ListDone
<1>4. DOMAIN n.cache = {}
  BY <1>2, <1>3, SameNumbers
<1>5. n.queue[1].op \notin {"insert", "delete"} /\ out[1].kind \in {"done", "error"}
  OBVIOUS
<1> QED
  BY <1>1, <1>4, <1>5, AnswerStands

LEMMA ChosenInserted ==
    ASSUME IInv, CarefulChoices, Waits, Choices, OnOutputRecord,
           out[1].kind = "done", n.queue[1].op = "insert",
           NEW s, s = OnInserted(n, n.queue[1], out[1].bps),
           Handled(s)
    PROVE  Choices'
<1> DEFINE c == n.queue[1]
           b == out[1].bps
           k == gdb.next - 1
           cs == Counting(c, k)
<1>1. /\ n \in Nemiver /\ n.queue \in Seq(Command) /\ 1 \in 1..Len(out) /\ n.queue # <<>>
      /\ 1 \in 1..Len(n.queue) /\ c \in Command /\ b \in Tables(Breakpoint)
  <2>1. n \in Nemiver /\ n.queue \in Seq(Command) /\ 1 \in 1..Len(out) /\ out[1] \in Record
    BY Records DEF Nemiver
  <2>2. n.queue # <<>>
    BY <2>1 DEF IInv, OutInv
  <2> QED
    BY <2>1, <2>2, Ends DEF Record
<1>2. /\ k \in DOMAIN gdb.table /\ DOMAIN b = {k}
      /\ b[k].loc = c.loc /\ b[k].enabled /\ b[k].enabled \in BOOLEAN /\ ~b[k].count
      /\ k \in Ids /\ k \in DOMAIN b /\ c.count \in BOOLEAN
  <2>1. k \in DOMAIN gdb.table /\ DOMAIN b = {k} /\ b[k].loc = c.loc /\ b[k].enabled /\ ~b[k].count
    BY <1>1 DEF IInv, AnswerInv, InsertDone
  <2>2. IsTable(gdb.table, Ids, GdbBreakpoint) /\ IsTable(b, Ids, Breakpoint)
    BY <1>1, TableFacts DEF IInv, Typed, Gdb
  <2>3. c.count \in BOOLEAN
    BY <1>1, CommandFacts
  <2> QED
    BY <2>1, <2>2, <2>3 DEF IsTable, Breakpoint
<1>3. /\ cs \in Seq(Command)
      /\ \A i \in 1..Len(cs) : cs[i].op = "commands" /\ cs[i].id = k
      /\ c.count => Commanding(cs, k)
  BY <1>2, CountingType
<1>4. /\ c.count => Len(cs) = 1 /\ cs[1].op = "commands" /\ cs[1].id = k /\ cs[1].yes = TRUE
      /\ ~c.count => Len(cs) = 0
  BY DEF Counting
<1>5. \A i \in 1..Len(cs) : c.count /\ i = 1
  <2> HIDE DEF c, b, k, cs
  <2>1. CASE c.count
    <3>1. Len(cs) = 1 /\ \A i \in 1..1 : i = 1
      BY <1>4, <2>1
    <3> QED
      BY <2>1, <3>1
  <2>2. CASE ~c.count
    <3>1. 1..Len(cs) = {}
      BY <1>4, <2>2
    <3> QED
      BY <3>1
  <2> QED
    BY <2>1, <2>2
<1>6. /\ s \in Nemiver /\ s.queue = n.queue \o cs
      /\ DOMAIN s.cache = DOMAIN n.cache \union {k}
      /\ \A x \in DOMAIN n.cache \ {k} : s.cache[x] = n.cache[x]
      /\ s.cache[k].loc = b[k].loc /\ s.cache[k].enabled = b[k].enabled
      /\ s.cache[k].count = (k \in DOMAIN n.cache /\ n.cache[k].count)
      /\ s.cache[k].initial = IF k \in DOMAIN n.cache THEN n.cache[k].initial ELSE b[k].initial
  <2>1. SetAs(n, c, b, k, s)
    <3>1. n \in Nemiver /\ c \in Command /\ b \in Tables(Breakpoint) /\ k \in Ids /\ DOMAIN b = {k}
      BY <1>1, <1>2
    <3>2. s = OnInserted(n, c, b)
      OBVIOUS
    <3> HIDE DEF b, c, k
    <3> QED
      BY <3>1, <3>2, InsertedEffect
  <2> HIDE DEF b, c, k
  <2> QED
    BY <2>1 DEF SetAs, cs
<1>7. c.op = "insert"
  OBVIOUS
<1> HIDE DEF cs
<1>8. /\ Retires(cs) /\ n'.cache = s.cache /\ wanted' = wanted
      /\ may' = may
  <2>1. \A i \in 1..Len(cs) : cs[i].op = "commands" /\ (Again => cs[i].id \in DOMAIN gdb.table)
    BY <1>2, <1>3
  <2>2. Retires(cs) /\ n'.cache = s.cache
    BY <1>3, <1>6, <2>1, Retiring
  <2> QED
    BY <2>2, Records
<1>9. Done("insert") /\ First = k /\ First \in Int
  BY <1>3, <1>7, <1>8, HeadInserts DEF c
<1>10. Follows(cs)
  BY <1>2, <1>4, <1>9 DEF Follows, c, k
<1> HIDE DEF b
<1>11. AsChosen(c)
  BY <1>1, <1>7 DEF Choices, InsertsChosen, c
<1>12. k \in DOMAIN n.cache => /\ n.cache[k].loc = c.loc /\ n.cache[k].count = c.count
                               /\ "restart" \in may
  <2> SUFFICES ASSUME k \in DOMAIN n.cache
               PROVE  n.cache[k].loc = c.loc /\ n.cache[k].count = c.count /\ "restart" \in may
    OBVIOUS
  <2>1. Again
    BY <1>9 DEF IInv, CacheInv
  <2>2. /\ n.queue[1].op = "insert" /\ 1 \in 1..Len(n.queue)
    BY <1>1, <1>7 DEF c
  <2>3. First + 1 - 1 \in DOMAIN n.cache =>
             /\ n.cache[First + 1 - 1].loc = n.queue[1].loc
             /\ n.cache[First + 1 - 1].count = n.queue[1].count
    BY <2>1, <2>2 DEF IInv, AgainInv
  <2>4. First + 1 - 1 = k
    <3> HIDE DEF k
    <3> QED
      BY <1>9
  <2> QED
    BY <2>1, <2>3, <2>4 DEF Again, c
<1>13. CacheLines
  <2>1. n'.cache[k].loc = c.loc /\ DOMAIN n'.cache = DOMAIN n.cache \union {k}
    BY <1>2, <1>6, <1>8
  <2>2. ASSUME NEW id \in DOMAIN n'.cache
        PROVE  IF id \in DOMAIN n.cache THEN n'.cache[id].loc = n.cache[id].loc
               ELSE Done("insert") /\ id = k
    <3>1. CASE id = k
      BY <1>9, <1>12, <2>1, <3>1
    <3>2. CASE id # k
      BY <1>6, <1>8, <2>1, <2>2, <3>2
    <3> QED
      BY <3>1, <3>2
  <2>3. n.queue[1].op # "delete"
    BY <1>7 DEF c
  <2> QED
    BY <2>1, <2>2, <2>3 DEF CacheLines, k, c
<1>14. /\ Listing(n.queue) => Listing(n'.queue)
       /\ \A id : Commanding(n.queue, id) => Commanding(n'.queue, id)
       /\ \A id : Commanding(cs, id) => Commanding(n'.queue, id)
  BY <1>3, <1>7, <1>8, Keeps DEF c
<1>15. \A d \in Asked' : d.op = "commands" => d.id = k /\ d.yes = TRUE /\ c.count
  <2>1. \A i \in 1..Len(n.queue) : n.queue[i].op \in {"insert", "run", "list"}
    BY <1>1, <1>7 DEF Choices, Turns, c
  <2>2. \A d \in Coming : d.op # "commands"
    BY <2>1 DEF Coming
  <2>3. \A d \in Asked' : d \in Coming \/ \E i \in 1..Len(cs) : d = cs[i]
    BY <1>3, <1>8, Popped
  <2> QED
    BY <1>4, <1>5, <2>2, <2>3
<1>16. ASSUME NEW id \in DOMAIN n'.cache, n'.cache[id].loc \in DOMAIN wanted PROVE CacheChose(id)'
  <2>1. Listing(n.queue)' = Listing(n'.queue) /\ Commanding(n.queue, id)' = Commanding(n'.queue, id)
    BY DEF Listing, Commanding
  <2>2. CASE id # k
    <3>1. n'.cache[id] = n.cache[id] /\ id \in DOMAIN n.cache
      BY <1>6, <1>8, <1>16, <2>2
    <3>2. CacheChose(id)
      BY <1>16, <3>1 DEF Choices, CacheChosen, Here
    <3> QED
      BY <1>8, <1>14, <1>15, <2>1, <2>2, <3>1, <3>2 DEF CacheChose
  <2>3. CASE id = k
    <3>1. PICK d, w : d = n'.cache[k] /\ w = wanted[c.loc]
      OBVIOUS
    <3>2. w \in Breakpoint /\ w.enabled /\ c.count = w.count /\ c.n = w.initial
      <4>1. IsTable(wanted, Locs, Breakpoint)
        BY DEF IInv, Typed
      <4> QED
        BY <1>11, <3>1, <4>1 DEF AsChosen, IsTable
    <3>3. d.loc = c.loc /\ d.enabled = w.enabled
      <4>1. d.loc = c.loc /\ d.enabled = b[k].enabled
        BY <1>2, <1>6, <1>8, <3>1
      <4> QED
        BY <1>2, <3>2, <4>1 DEF Breakpoint
    <3>4. d.count = (k \in DOMAIN n.cache /\ n.cache[k].count)
      BY <1>6, <1>8, <3>1
    <3>5. c.count => d.count = FALSE
      <4>1. ASSUME c.count, k \in DOMAIN n.cache PROVE FALSE
        <5>1. "restart" \in may /\ "haste" \notin may /\ may \in Scenarios
          BY <1>12, <4>1 DEF Waits, IInv, Typed
        <5>2. "count" \notin may
          BY <5>1 DEF CarefulChoices
        <5>3. ~wanted[c.loc].count
          BY <1>11, <5>2 DEF Choices, FeaturesChosen, AsChosen
        <5> QED
          BY <3>1, <3>2, <4>1, <5>3
      <4> QED
        BY <3>4, <4>1
    <3>6. ~c.count => d.count = w.count
      <4>1. ~c.count => ~d.count /\ d.count \in BOOLEAN
        BY <1>12, <3>4
      <4> QED
        BY <1>2, <3>2, <4>1
    <3>7. d.initial = w.initial
      <4>1. CASE k \in DOMAIN n.cache
        <5>1. Here(n.cache[k]) /\ n.cache[k].loc = c.loc
          BY <1>11, <1>12, <4>1 DEF Here, AsChosen
        <5>2. CacheChose(k)
          BY <4>1, <5>1 DEF Choices, CacheChosen
        <5>3. n.cache[k].initial = w.initial
          BY <3>1, <5>1, <5>2 DEF CacheChose
        <5> QED
          BY <1>6, <1>8, <3>1, <4>1, <5>3
      <4>2. CASE k \notin DOMAIN n.cache
        <5>1. b[k].initial = c.n
          BY <1>1, <1>2, <1>7 DEF Choices, OutChosen, b, c
        <5> QED
          BY <1>6, <1>8, <3>1, <3>2, <4>2, <5>1
      <4> QED
        BY <4>1, <4>2
    <3>8. d.count = w.count \/ Commanding(n'.queue, k)
      BY <1>3, <1>14, <3>6
    <3>9. \A e \in Asked' : e.op = "commands" /\ e.id = k => e.yes = w.count /\ e.yes # d.count
      <4>1. c.count => w.count = TRUE
        BY <1>2, <3>2
      <4> QED
        BY <1>15, <3>5, <4>1
    <3>10. n'.cache[id] = d /\ wanted'[n'.cache[id].loc] = w
      BY <1>8, <2>3, <3>1, <3>3
    <3> QED
      BY <2>1, <2>3, <3>3, <3>7, <3>8, <3>9, <3>10 DEF CacheChose
  <2> QED
    BY <2>2, <2>3
<1>17. CacheChosen'
  BY <1>8, <1>16 DEF CacheChosen, Here
<1> QED
  BY <1>3, <1>8, <1>10, <1>13, <1>17, AnswerPops

LEMMA ChosenAnswers ==
    ASSUME IInv, BreakpointsAssumption, CarefulChoices, Waits, Choices, OnOutputRecord,
           out[1].kind \in {"done", "error"}
    PROVE  Choices'
<1>1. n \in Nemiver /\ n' = Handle(n, out[1]) /\ 1 \in 1..Len(out)
  BY Records
<1>2. CASE out[1].kind = "error"
  <2>1. Handled(n)
    BY <1>1, <1>2 DEF Handle, Handled
  <2> QED
    BY <1>2, <2>1, ChosenUntouched
<1>3. CASE out[1].kind = "done"
  <2>1. n.queue \in Seq(Command) /\ n.queue # <<>> /\ Head(n.queue) = n.queue[1]
        /\ n.queue[1] \in Command
    <3>1. n.queue \in Seq(Command) /\ n.queue # <<>>
      BY <1>1, <1>3 DEF Nemiver, IInv, OutInv
    <3> QED
      BY <3>1, Ends
  <2>2. PICK s : s = OnDone(n, n.queue[1], out[1].bps)
    OBVIOUS
  <2>3. Handled(s)
    BY <1>1, <1>3, <2>1, <2>2 DEF Handle, Handled
  <2>4. n.queue[1].op \in {"insert", "delete", "enable", "disable", "after", "commands", "list",
                           "run", "continue"}
    BY <2>1, CommandFacts
  <2>5. CASE n.queue[1].op = "insert"
    BY <1>3, <2>2, <2>3, <2>5, ChosenInserted DEF OnDone
  <2>6. CASE n.queue[1].op = "delete"
    BY <1>3, <2>2, <2>3, <2>6, ChosenDeletes DEF OnDone
  <2>7. CASE n.queue[1].op = "commands"
    BY <1>3, <2>2, <2>3, <2>7, ChosenCounts DEF OnDone
  <2>8. CASE n.queue[1].op = "list" /\ out[1].bps # Nothing
    BY <1>3, <2>2, <2>3, <2>8, ChosenLists DEF OnDone
  <2>9. CASE n.queue[1].op = "list" /\ out[1].bps = Nothing
    <3>1. s = n
      BY <2>2, <2>9 DEF OnDone
    <3> QED
      BY <1>3, <2>3, <2>9, <3>1, ChosenListsNothing
  <2>10. CASE n.queue[1].op \in {"enable", "disable", "after", "run", "continue"}
    <3>1. s = n
      BY <2>2, <2>10 DEF OnDone
    <3> QED
      BY <1>3, <2>3, <2>10, <3>1, ChosenUntouched
  <2> QED
    BY <2>4, <2>5, <2>6, <2>7, <2>8, <2>9, <2>10
<1> QED
  BY <1>2, <1>3

-----------------------------------------------------------------------------
(* The engine hears of a breakpoint that was hit.                          *)

(* A record is handled, and at most a list comes.                          *)
Listed == /\ \A c \in Asked' : c \in Asked \/ c.op = "list"
          /\ \A c \in Asked : c \in Asked'
          /\ \A c \in Coming' : c \in Coming \/ c.op = "list"
          /\ \A c \in Coming : c \in Coming'

LEMMA OutKept ==
    ASSUME IInv, Choices, Fewer, gdb' = gdb, may' = may, wanted' = wanted, Listed,
           n.queue # <<>> => n'.queue # <<>> /\ n'.queue[1] = n.queue[1]
    PROVE  OutChosen' /\ FeaturesChosen' /\ TableChosen'
<1>1. \A i \in 1..Len(out') : \E j \in 1..Len(out) : out'[i] = out[j]
  BY FewerRecords
<1>2. \A i \in 1..Len(out) : out[i].kind \in {"done", "error"} =>
          n'.queue[1] = n.queue[1]
  BY DEF IInv, OutInv
<1>3. OutChosen /\ FeaturesChosen /\ TableChosen
  BY DEF Choices
<1>4. Gone => \A c : c = n.queue[1] => c.id \notin DOMAIN gdb.table
  BY DEF Gone
<1>5. OutChosen'
  <2> SUFFICES ASSUME NEW k \in 1..Len(out'), NEW r, r = out'[k]
               PROVE  /\ r.kind \in {"modified", "stopped"} => \A c \in Asked' : Ordinary(c.op)
                      /\ r.kind = "modified" =>
                            /\ "notify" \in may'
                            /\ "ignore" \notin may' =>
                                  \A id \in DOMAIN r.bps : r.bps[id].initial = 0
                      /\ r.kind = "done" /\ n'.queue[1].op = "insert" =>
                            \A id \in DOMAIN r.bps : r.bps[id].initial = n'.queue[1].n
                      /\ r.kind = "error" /\ n'.queue[1].op = "delete" => Gone'
    BY <1>3 DEF OutChosen, Listed
  <2>1. PICK j \in 1..Len(out) : r = out[j]
    BY <1>1
  <2>2. r.kind \in {"modified", "stopped"} => \A c \in Asked' : Ordinary(c.op)
    BY <1>3, <2>1 DEF OutChosen, Listed, Ordinary
  <2>3. r.kind = "modified" =>
            /\ "notify" \in may'
            /\ "ignore" \notin may' => \A id \in DOMAIN r.bps : r.bps[id].initial = 0
    BY <1>3, <2>1 DEF OutChosen
  <2>4. r.kind = "done" /\ n'.queue[1].op = "insert" =>
            \A id \in DOMAIN r.bps : r.bps[id].initial = n'.queue[1].n
    BY <1>2, <1>3, <2>1 DEF OutChosen
  <2>5. r.kind = "error" /\ n'.queue[1].op = "delete" => Gone'
    BY <1>2, <1>3, <2>1 DEF OutChosen, Gone
  <2> QED
    BY <2>2, <2>3, <2>4, <2>5
<1>6. FeaturesChosen'
  BY <1>3 DEF FeaturesChosen, Listed
<1>7. TableChosen'
  <2> SUFFICES ASSUME NEW id \in DOMAIN gdb.table, Here(gdb.table[id]) PROVE TableChose(id)'
    BY DEF TableChosen, Here
  <2>1. TableChose(id)
    BY <1>3 DEF TableChosen
  <2>2. Done("insert") => Done("insert")' /\ n'.queue[1] = n.queue[1]
    <3> SUFFICES ASSUME Done("insert") PROVE Done("insert")' /\ n'.queue[1] = n.queue[1]
      OBVIOUS
    <3>1. Done("insert")' <=> Done("insert")
      BY AnswersKept
    <3> QED
      BY <1>2, <3>1 DEF Done
  <2> QED
    BY <2>1, <2>2 DEF TableChose, Listed
<1> QED
  BY <1>5, <1>6, <1>7

LEMMA StopsKeep ==
    ASSUME IInv, Choices, OnOutputRecord, out[1].kind = "stopped"
    PROVE  Choices'
<1>0. PICK c : c = [op |-> "list"]
  OBVIOUS
<1>1. /\ n \in Nemiver /\ n' = OnStopped(n) /\ n.queue \in Seq(Command)
      /\ gdb' = gdb /\ wanted' = wanted /\ may' = may /\ Fewer /\ 1 \in 1..Len(out)
  BY Records DEF Handle, Fewer, Nemiver
<1>2. c \in Command /\ c.op = "list" /\ <<c>> \in Seq(Command) /\ Len(<<c>>) = 1 /\ <<c>>[1] = c
  BY <1>0, Commands
<1>3. n'.queue = n.queue \o <<c>> /\ n'.cache = n.cache
  <2>1. PICK cs : cs = <<c>>
    OBVIOUS
  <2>2. cs \in Seq(Command) /\ n' = Queue(n, cs)
    BY <1>0, <1>1, <1>2, <2>1 DEF OnStopped
  <2>3. Queue(n, cs).queue = n.queue \o cs /\ Queue(n, cs).cache = n.cache
    BY <1>1, <2>2, Queued
  <2> QED
    BY <2>1, <2>2, <2>3
<1>4. PICK q, p, m : q = n.queue /\ p = n'.queue /\ m = Len(n.queue)
  OBVIOUS
<1>5. /\ m = Len(q) /\ m \in Nat /\ Len(p) = m + 1 /\ p[m + 1] = c
      /\ \A i \in 1..m : p[i] = q[i]
      /\ q # <<>> => m # 0
  <2>1. q \in Seq(Command) /\ p = q \o <<c>>
    BY <1>1, <1>3, <1>4
  <2> QED
    BY <1>2, <1>4, <2>1, JoinedCommands
<1>6. \A i \in 1..Len(p) : (i \in 1..m /\ p[i] = q[i]) \/ (i = m + 1 /\ p[i] = c)
  BY <1>5
<1>7. \A d \in Asked : Ordinary(d.op)
  BY <1>1 DEF Choices, OutChosen
<1>8. \A i \in 1..m : Ordinary(q[i].op)
  BY <1>4, <1>7 DEF Asked
<1>9. q # <<>> => p # <<>> /\ p[1] = q[1]
  BY <1>5
<1>10. /\ \A i \in 1..Len(out') : \E j \in 1..Len(out) : out'[i] = out[j]
       /\ \A j \in 1..Len(out) : out[j].kind \in {"done", "error"} =>
             \E i \in 1..Len(out') : out'[i] = out[j]
  BY <1>1, FewerRecords
<1>11. Answered' <=> Answered
  BY <1>10 DEF Answered
<1>12. Answered => q # <<>>
  BY <1>4 DEF Answered, IInv, OutInv
<1>13. Asked = {q[i] : i \in 1..m} /\ Asked' = {p[i] : i \in 1..Len(p)}
  BY <1>4 DEF Asked
<1>14. /\ Coming = {q[i] : i \in {j \in 1..m : ~(j = 1 /\ Answered)}}
       /\ Coming' = {p[i] : i \in {j \in 1..Len(p) : ~(j = 1 /\ Answered)}}
  BY <1>4, <1>11 DEF Coming
<1>15. Listed
  <2>1. \A d \in Asked' : d \in Asked \/ d.op = "list"
    BY <1>2, <1>6, <1>13
  <2>2. \A d \in Asked : d \in Asked'
    <3>1. \A i \in 1..m : i \in 1..Len(p)
      BY <1>5
    <3> QED
      BY <1>5, <1>13, <3>1
  <2>3. ASSUME NEW d \in Coming' PROVE d \in Coming \/ d.op = "list"
    <3>1. PICK i \in 1..Len(p) : ~(i = 1 /\ Answered) /\ d = p[i]
      BY <1>14
    <3> QED
      BY <1>2, <1>6, <1>14, <3>1
  <2>4. ASSUME NEW d \in Coming PROVE d \in Coming'
    <3>1. PICK i \in 1..m : ~(i = 1 /\ Answered) /\ d = q[i]
      BY <1>14
    <3>2. i \in 1..Len(p) /\ d = p[i]
      BY <1>5, <3>1
    <3> QED
      BY <1>14, <3>1, <3>2
  <2> QED
    BY <2>1, <2>2, <2>3, <2>4 DEF Listed
<1>16. OutChosen' /\ FeaturesChosen' /\ TableChosen'
  BY <1>1, <1>4, <1>9, <1>15, OutKept
<1>17. \A d \in Asked' : Ordinary(d.op)
  BY <1>7, <1>15 DEF Listed, Ordinary
<1>18. \A i \in 1..Len(p) : p[i].op \notin {"insert", "commands", "delete"}
  BY <1>13, <1>17 DEF Ordinary
<1>19. Turns(n.queue)'
  <2>1. ASSUME NEW i \in 1..Len(p), p[i].op \in {"run", "continue"}, NEW j \in (i + 1)..Len(p)
        PROVE  p[j].op = "list"
    <3>1. i \in 1..m /\ p[i] = q[i]
      BY <1>2, <1>6, <2>1
    <3>2. CASE j \in (i + 1)..m
      <4>1. q[j].op = "list"
        BY <1>4, <2>1, <3>1, <3>2 DEF Choices, Turns
      <4>2. j \in 1..m
        BY <1>5, <3>1, <3>2
      <4> QED
        BY <1>5, <4>1, <4>2
    <3>3. CASE j = m + 1
      BY <1>2, <1>5, <3>3
    <3>4. j \in (i + 1)..m \/ j = m + 1
      BY <1>5, <2>1, <3>1
    <3> QED
      BY <3>2, <3>3, <3>4
  <2>2. Turns(p)
    BY <1>18, <2>1 DEF Turns
  <2> QED
    BY <1>4, <2>2 DEF Turns
<1>20. InsertsChosen'
  BY <1>4, <1>18 DEF InsertsChosen
<1>21. LinesChosen'
  <2>1. \A x : ~Deleting(x)'
    BY <1>4, <1>18 DEF Deleting
  <2>2. \A x : ~Deleting(x)
    BY <1>4, <1>8 DEF Deleting, Ordinary
  <2>3. \A d \in Asked : d.op # "insert"
    BY <1>7 DEF Ordinary
  <2> QED
    BY <1>1, <1>3, <2>1, <2>2, <2>3 DEF Choices, LinesChosen
<1>22. CacheChosen'
  <2> SUFFICES ASSUME NEW id \in DOMAIN n.cache, Here(n.cache[id]) PROVE CacheChose(id)'
    BY <1>1, <1>3 DEF CacheChosen, Here
  <2>1. CacheChose(id)
    BY DEF Choices, CacheChosen
  <2>2. Listing(n.queue)'
    <3>1. m + 1 \in 1..Len(p) /\ p[m + 1].op = "list"
      BY <1>2, <1>5
    <3> QED
      BY <1>4, <3>1 DEF Listing
  <2>3. ~Commanding(n.queue, id)
    BY <1>4, <1>8 DEF Commanding, Ordinary
  <2>4. \A d \in Asked' : d.op # "commands"
    BY <1>17 DEF Ordinary
  <2> QED
    BY <1>1, <1>3, <2>1, <2>2, <2>3, <2>4 DEF CacheChose
<1> QED
  BY <1>16, <1>19, <1>20, <1>21, <1>22 DEF Choices

LEMMA ModifiedKeeps ==
    ASSUME IInv, CarefulChoices, Waits, Choices, OnOutputRecord, out[1].kind = "modified"
    PROVE  Choices'
<1> DEFINE b == out[1].bps
<1>1. /\ n \in Nemiver /\ n' = OnModified(n, CHOOSE i \in DOMAIN b : TRUE, b)
      /\ gdb' = gdb /\ wanted' = wanted /\ may' = may /\ Fewer /\ b \in Tables(Breakpoint)
      /\ 1 \in 1..Len(out)
  BY Records DEF Handle, Fewer, Record
<1>2. PICK id \in Ids : ModifiedAs(b, id)
  BY Records DEF IInv, ModifiedInv
<1>3. /\ \A c \in Asked : Ordinary(c.op)
      /\ "notify" \in may
      /\ "ignore" \notin may => \A x \in DOMAIN b : b[x].initial = 0
  BY <1>1 DEF Choices, OutChosen
<1> HIDE DEF b
<1>4. \A op : Done(op) => Ordinary(op)
  <2> SUFFICES ASSUME NEW op, Done(op) PROVE Ordinary(op)
    OBVIOUS
  <2>1. n.queue # <<>> /\ n.queue \in Seq(Command) /\ n.queue[1].op = op
    BY <1>1 DEF Done, IInv, OutInv, Nemiver
  <2>2. 1 \in 1..Len(n.queue)
    BY <2>1, Ends
  <2> QED
    BY <1>3, <2>1, <2>2 DEF Asked
<1>5. ~Done("delete") /\ ~Done("enable") /\ ~Done("disable")
  BY <1>4 DEF Ordinary
<1>6. /\ DOMAIN b = {id} /\ id \in DOMAIN n.cache /\ id \in DOMAIN gdb.table
      /\ b[id].loc = n.cache[id].loc /\ ~b[id].count
      /\ b[id].enabled = gdb.table[id].enabled
  BY <1>2, <1>5 DEF ModifiedAs
<1>7. n' = OnModified(n, id, b)
  BY <1>1, <1>6
<1>8. /\ n'.queue = n.queue /\ DOMAIN n'.cache = DOMAIN n.cache
      /\ \A x \in DOMAIN n.cache \ {id} : n'.cache[x] = n.cache[x]
      /\ n'.cache[id].loc = b[id].loc /\ n'.cache[id].enabled = b[id].enabled
      /\ n'.cache[id].count = FALSE /\ n'.cache[id].initial = b[id].initial
  <2>1. PICK t : t = OnModified(n, id, b)
    OBVIOUS
  <2>2. ModifiedTo(n, id, b, t)
    BY <1>1, <1>6, <2>1, ModifiedEffect
  <2>3. n' = t
    BY <1>7, <2>1
  <2> QED
    BY <2>2, <2>3 DEF ModifiedTo
<1>9. \A x \in DOMAIN n.cache : n'.cache[x].loc = n.cache[x].loc
  BY <1>6, <1>8
<1>10. /\ \A i \in 1..Len(out') : \E j \in 1..Len(out) : out'[i] = out[j]
       /\ \A j \in 1..Len(out) : out[j].kind \in {"done", "error"} =>
             \E i \in 1..Len(out') : out'[i] = out[j]
  BY <1>1, FewerRecords
<1>11. Answered' <=> Answered
  BY <1>10 DEF Answered
<1>12. Asked' = Asked /\ Coming' = Coming
  BY <1>8, <1>11 DEF Asked, Coming
<1>13. Listed
  BY <1>12 DEF Listed
<1>14. OutChosen' /\ FeaturesChosen' /\ TableChosen'
  <2>1. n.queue # <<>> => n'.queue # <<>> /\ n'.queue[1] = n.queue[1]
    BY <1>8
  <2> QED
    BY <1>1, <1>13, <2>1, OutKept
<1>15. Turns(n.queue)'
  <2>1. Turns(n'.queue)
    BY <1>8 DEF Choices
  <2> QED
    BY <2>1 DEF Turns
<1>16. \A i \in 1..Len(n.queue) : n.queue[i].op \notin {"insert", "commands", "delete"}
  BY <1>3 DEF Asked, Ordinary
<1>17. InsertsChosen'
  BY <1>8, <1>16 DEF InsertsChosen
<1>18. LinesChosen'
  <2>1. \A x : ~Deleting(x)' /\ ~Deleting(x)
    BY <1>8, <1>16 DEF Deleting
  <2>2. /\ \A loc \in DOMAIN wanted :
              /\ wanted[loc].loc = loc
              /\ \/ \E x \in DOMAIN n.cache : n.cache[x].loc = loc
                 \/ \E c \in Asked : c.op = "insert" /\ c.loc = loc
        /\ \A x \in DOMAIN n.cache :
              /\ n.cache[x].loc \in DOMAIN wanted
              /\ \A other \in DOMAIN n.cache : n.cache[other].loc = n.cache[x].loc => other = x
    BY <2>1 DEF Choices, LinesChosen
  <2>3. \A loc \in DOMAIN wanted :
            \/ \E x \in DOMAIN n'.cache : n'.cache[x].loc = loc
            \/ \E c \in Asked' : c.op = "insert" /\ c.loc = loc
    BY <1>8, <1>9, <1>12, <2>2
  <2>4. \A x \in DOMAIN n'.cache :
            /\ n'.cache[x].loc \in DOMAIN wanted
            /\ \A other \in DOMAIN n'.cache : n'.cache[other].loc = n'.cache[x].loc => other = x
    BY <1>8, <1>9, <2>2
  <2> QED
    BY <1>1, <2>1, <2>2, <2>3, <2>4 DEF LinesChosen
<1>19. CacheChosen'
  <2> SUFFICES ASSUME NEW x \in DOMAIN n.cache, Here(n.cache[x]) PROVE CacheChose(x)'
    BY <1>1, <1>8, <1>9 DEF CacheChosen, Here
  <2>1. CASE x # id
    <3>1. CacheChose(x) /\ n'.cache[x] = n.cache[x]
      BY <1>8, <2>1 DEF Choices, CacheChosen
    <3>2. /\ Listing(n.queue) => Listing(n'.queue)
          /\ Commanding(n.queue, x) => Commanding(n'.queue, x)
      BY <1>8 DEF Listing, Commanding
    <3> QED
      BY <1>1, <1>12, <3>1, <3>2 DEF CacheChose
  <2>2. CASE x = id
    <3>1. PICK d, w : d = n'.cache[x] /\ w = wanted[n.cache[x].loc]
      OBVIOUS
    <3>2. w \in Breakpoint /\ n.cache[x].loc \in DOMAIN wanted
      BY <3>1 DEF Here, IInv, Typed, IsTable
    <3>3. "count" \notin may /\ "ignore" \notin may
      <4>1. may \in Scenarios /\ "haste" \notin may
        BY DEF IInv, Typed, Waits
      <4> QED
        BY <1>3, <4>1 DEF CarefulChoices
    <3>4. d.count = w.count
      <4>1. ~w.count
        BY <3>1, <3>2, <3>3 DEF Choices, FeaturesChosen
      <4> QED
        BY <1>8, <2>2, <3>1, <3>2, <4>1 DEF Breakpoint
    <3>5. d.initial = w.initial
      <4>1. w.initial = 0
        BY <3>1, <3>2, <3>3 DEF Choices, FeaturesChosen
      <4> QED
        BY <1>3, <1>6, <1>8, <2>2, <3>1, <3>3, <4>1
    <3>6. d.enabled = w.enabled
      <4>1. gdb.table[id].loc = n.cache[id].loc
        BY <1>6 DEF IInv, CacheInv
      <4>2. TableChose(id)
        BY <1>6, <2>2, <4>1 DEF Choices, TableChosen, Here
      <4>3. \A c \in Coming : c.op \notin {"enable", "disable"}
        BY <1>3 DEF Coming, Asked, Ordinary
      <4>4. gdb.table[id].enabled = w.enabled
        BY <2>2, <3>1, <4>1, <4>2, <4>3 DEF TableChose
      <4> QED
        BY <1>6, <1>8, <2>2, <3>1, <4>4
    <3>7. n'.cache[x] = d /\ wanted'[n'.cache[x].loc] = w
      BY <1>1, <1>9, <3>1
    <3>8. \A c \in Asked' : c.op # "commands"
      BY <1>3, <1>12 DEF Ordinary
    <3> QED
      BY <3>4, <3>5, <3>6, <3>7, <3>8 DEF CacheChose
  <2> QED
    BY <2>1, <2>2
<1> QED
  BY <1>14, <1>15, <1>17, <1>18, <1>19 DEF Choices

-----------------------------------------------------------------------------
(* The invariant, and what follows.                                        *)

LEMMA SameFeatures == [Next]_vars => may' = may
<1> SUFFICES ASSUME [Next]_vars PROVE may' = may
  OBVIOUS
<1>1. ASSUME NEW id, NEW loc, NEW count,
             \/ SetBreakpoint(loc, count) \/ DeleteBreakpoint(id) \/ ToggleEnabled(id)
             \/ ToggleCountpoint(id) \/ EditIgnoreCount(id, count) \/ Continue \/ Rerun
      PROVE  may' = may
  BY <1>1 DEF SetBreakpoint, DeleteBreakpoint, ToggleEnabled, ToggleCountpoint,
              EditIgnoreCount, Continue, Rerun, Press
<1>2. CASE Restart \/ Resume
  BY <1>2 DEF Restart, Resume
<1>3. CASE User
  BY <1>1, <1>2, <1>3 DEF User
<1>4. CASE OnOutputRecord \/ Halts
  BY <1>4 DEF OnOutputRecord, Halts
<1>5. CASE GdbAnswers
  BY <1>5 DEF GdbAnswers, GdbInserts, GdbLists, GdbRuns, GdbContinues, GdbChanges, Reads
<1>6. CASE \E id \in DOMAIN gdb.table : Hit(id)
  BY <1>6 DEF Hit
<1>7. CASE UNCHANGED vars
  BY <1>7 DEF vars
<1> QED
  BY <1>3, <1>4, <1>5, <1>6, <1>7 DEF Next

LEMMA StepsKeep ==
    ASSUME IInv, IInv', Choices, Waits, BreakpointsAssumption, PatientRestarts, CarefulChoices,
           [Next]_vars
    PROVE  Choices'
<1>1. CASE User
  <2>1. CASE \E loc \in Locs, count \in BOOLEAN : SetBreakpoint(loc, count)
    BY <2>1, SetBreakpointKeeps
  <2>2. CASE \E id \in DOMAIN n.shown :
                DeleteBreakpoint(id) \/ ToggleEnabled(id) \/ ToggleCountpoint(id)
    BY <2>2, DeleteKeeps, ToggleEnabledKeeps, ToggleCountpointKeeps
  <2>3. CASE \E id \in DOMAIN n.shown : \E count \in 0..MaxIgnore : EditIgnoreCount(id, count)
    BY <2>3, EditKeeps
  <2>4. CASE Continue
    BY <2>4, ContinueKeeps
  <2>5. CASE Rerun
    BY <2>5, RerunKeeps
  <2>6. CASE Restart
    BY <2>6, RestartKeeps
  <2>7. CASE Resume
    <3>1. may \in Scenarios /\ "haste" \notin may /\ "resume" \in may
      BY <2>7 DEF IInv, Typed, Waits, Resume
    <3> QED
      BY <3>1 DEF CarefulChoices
  <2> QED
    BY <1>1, <2>1, <2>2, <2>3, <2>4, <2>5, <2>6, <2>7 DEF User
<1>2. CASE OnOutputRecord
  <2>1. out[1].kind \in {"modified", "stopped", "error", "done"}
    BY <1>2, Records DEF Record
  <2>2. CASE out[1].kind = "modified"
    BY <1>2, <2>2, ModifiedKeeps
  <2>3. CASE out[1].kind = "stopped"
    BY <1>2, <2>3, StopsKeep
  <2>4. CASE out[1].kind \in {"done", "error"}
    BY <1>2, <2>4, ChosenAnswers
  <2> QED
    BY <2>1, <2>2, <2>3, <2>4
<1>3. CASE GdbAnswers
  BY <1>3, AnswersKeep
<1>4. CASE Halts
  BY <1>4, HaltsKeep
<1>5. CASE \E id \in DOMAIN gdb.table : Hit(id)
  BY <1>5, HitsKeep
<1>6. CASE UNCHANGED vars
  BY <1>6, StuttersKeep
<1> QED
  BY <1>1, <1>2, <1>3, <1>4, <1>5, <1>6 DEF Next

LEMMA NothingChosen ==
    ASSUME Init
    PROVE  Choices
<1>1. PICK z, none : z = Nothing /\ none = <<>>
  OBVIOUS
<1>2. DOMAIN z = {} /\ Len(none) = 0 /\ 1..0 = {}
  BY <1>1, EmptyTable
<1>3. /\ n.queue = none /\ n.cache = z /\ out = none /\ wanted = z
      /\ gdb.table = z /\ gdb.inferior = "none"
  BY <1>1 DEF Init, NewGdb
<1>4. \A i \in 1..Len(n.queue) : FALSE
  BY <1>2, <1>3
<1>5. Asked = {} /\ Coming = {}
  BY <1>2, <1>3 DEF Asked, Coming
<1>6. Turns(n.queue) /\ InsertsChosen
  BY <1>4 DEF Turns, InsertsChosen
<1>7. LinesChosen /\ FeaturesChosen /\ CacheChosen /\ TableChosen
  BY <1>2, <1>3, <1>5 DEF LinesChosen, FeaturesChosen, CacheChosen, TableChosen
<1>8. OutChosen
  BY <1>2, <1>3 DEF OutChosen
<1> QED
  BY <1>6, <1>7, <1>8 DEF Choices

LEMMA ChoicesInductive == PatientRestarts /\ CarefulChoices => (Spec => []CInv)
<1> SUFFICES ASSUME PatientRestarts, CarefulChoices PROVE Spec => []CInv
  OBVIOUS
<1>1. Init => CInv
  BY Begins, NothingChosen, BreakpointsAssumption DEF CInv
<1>2. CInv /\ [Next]_vars => CInv'
  <2> SUFFICES ASSUME CInv, [Next]_vars PROVE CInv'
    OBVIOUS
  <2>1. IInv /\ IInv'
    BY Steps, BreakpointsAssumption DEF CInv
  <2>2. Waits' => Waits
    BY SameFeatures DEF Waits
  <2>3. ASSUME Waits PROVE Choices'
    BY <2>1, <2>3, StepsKeep, BreakpointsAssumption DEF CInv
  <2> QED
    BY <2>1, <2>2, <2>3 DEF CInv
<1> QED
  BY <1>1, <1>2, PTL DEF Spec

(* Once everything is answered, each line the user chose has its           *)
(* breakpoint in the cache of GDBEngine, enabled or not, standard or a     *)
(* countpoint, and with the ignore count, as chosen, and no other line has *)
(* one, however often the program was run, hit them or was loaded again.   *)
THEOREM ChoicesAreKept == PatientRestarts /\ CarefulChoices => (Spec => []ChoicesKept)
<1>1. CInv => ChoicesKept
  <2> SUFFICES ASSUME CInv, Quiet, Waits
               PROVE  /\ \A loc \in DOMAIN wanted : \E id \in DOMAIN n.cache :
                            n.cache[id].loc = loc /\ n.cache[id] = wanted[loc]
                      /\ \A id \in DOMAIN n.cache : n.cache[id].loc \in DOMAIN wanted
    BY DEF ChoicesKept, Kept
  <2>1. Settled
    BY WhenSettled DEF CInv
  <2> QED
    BY <2>1 DEF Settled
<1> QED
  BY <1>1, ChoicesInductive, PTL

(* While the program runs, GDB has the commands of each countpoint: it     *)
(* does not stop there (enable_countpoint, flag_breakpoint_as_countpoint). *)
THEOREM CountpointsGoOn == PatientRestarts /\ CarefulChoices => (Spec => []CountpointsContinue)
<1>1. CInv => CountpointsContinue
  <2> SUFFICES ASSUME CInv, gdb.inferior = "running", Waits, NEW id \in DOMAIN gdb.table,
                      NEW w, w = wanted[gdb.table[id].loc],
                      gdb.table[id].loc \in DOMAIN wanted, w.count
               PROVE  gdb.table[id].script
    BY DEF CountpointsContinue
  <2>1. IInv /\ Choices
    BY DEF CInv
  <2>2. TableChose(id)
    BY <2>1 DEF Choices, TableChosen, Here
  <2>3. ~Done("insert")
    BY <2>1, OnlyRunning
  <2>4. \A c \in Coming : c.op = "list"
    BY <2>1 DEF Choices, OutChosen
  <2>5. gdb.table[id].script = w.count
    BY <2>2, <2>3, <2>4 DEF TableChose
  <2> QED
    BY <2>5
<1> QED
  BY <1>1, ChoicesInductive, PTL

(* Each run of the program begins with GDB ignoring as many hits of each   *)
(* breakpoint as the user chose: re_initialize_set_breakpoints sent the    *)
(* counts again, and GDB did what it was sent before it ran the program.   *)
THEOREM RunsIgnoreAgain == PatientRestarts /\ CarefulChoices => (Spec => RunsIgnore)
<1> DEFINE AsAsked == \A id \in DOMAIN gdb.table :
                          LET loc == gdb.table[id].loc IN
                          loc \in DOMAIN wanted => gdb.table[id].ignore = wanted[loc].initial
<1>1. CInv /\ GdbRuns /\ Waits => AsAsked
  <2> SUFFICES ASSUME CInv, GdbRuns, Waits, NEW id \in DOMAIN gdb.table,
                      NEW w, w = wanted[gdb.table[id].loc],
                      gdb.table[id].loc \in DOMAIN wanted
               PROVE  gdb.table[id].ignore = w.initial
    OBVIOUS
  <2>1. IInv /\ Choices
    BY DEF CInv
  <2>2. TableChose(id)
    BY <2>1 DEF Choices, TableChosen, Here
  <2>3. /\ n.queue # <<>> /\ ~Answered /\ Head(n.queue).op = "run" /\ n.queue \in Seq(Command)
    BY <2>1 DEF GdbRuns, Reads, IInv, Typed, Nemiver
  <2>4. PICK q : q = n.queue
    OBVIOUS
  <2>5. Len(q) \in Nat \ {0} /\ q[1].op = "run" /\ 1 \in 1..Len(q)
    BY <2>3, <2>4, Ends
  <2>6. \A j \in 2..Len(q) : q[j].op = "list"
    <3>1. \A j \in (1 + 1)..Len(q) : q[j].op = "list"
      BY <2>1, <2>4, <2>5 DEF Choices, Turns
    <3> QED
      BY <3>1
  <2>7. \A j \in 1..Len(q) : j = 1 \/ j \in 2..Len(q)
    BY <2>5
  <2>8. Coming = {q[j] : j \in 1..Len(q)}
    BY <2>3, <2>4 DEF Coming
  <2>9. \A c \in Coming : c.op # "after"
    BY <2>5, <2>6, <2>7, <2>8
  <2>10. \E c \in Coming : c.op = "run"
    BY <2>5, <2>8
  <2> QED
    BY <2>2, <2>9, <2>10 DEF TableChose
<1>2. CInv /\ [Next]_vars => [GdbRuns /\ Waits => AsAsked]_vars
  BY <1>1
<1> QED
  BY <1>2, ChoicesInductive, PTL DEF Spec, RunsIgnore
=============================================================================
