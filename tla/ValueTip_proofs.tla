--------------------------- MODULE ValueTip_proofs ---------------------------
(***************************************************************************)
(* Theorems about the value tip, for any bounds and scenarios: it shows    *)
(* the variable of the word it stands at, it is under the pointer of a     *)
(* user who waits, and GDB keeps no object for a tip that has gone.        *)
(***************************************************************************)
EXTENDS ValueTip, FiniteSetTheorems, WellFoundedInduction, TLAPS

Positive == Nat \ {0}
Names == {"x", "s", "y"}
WordPlaces == 2..5

Command ==
    [op : {"create"}, name : Names]
      \union [op : {"delete"}, obj : Positive]
      \union [op : {"unfold"}, var : Positive, serial : Positive]
      \union [op : {"revisualize"}, left : 0..2, var : Positive, serial : Positive]
Row == [var : Positive, under : BOOLEAN, folded : BOOLEAN]

(* The Variables: what GDB keeps an object for.                            *)
Heap(h) ==
    /\ IsFiniteSet(DOMAIN h) /\ DOMAIN h \subseteq Positive
    /\ \A v \in DOMAIN h : h[v] \in [name : Names, obj : Positive, value : Nat, folded : BOOLEAN]

Tips == [serial : Nat, at : 0..5, var : Nat, rows : Seq(Row)]
Requests == [open : BOOLEAN, name : Names \union {""}, at : 0..5]

Shape(s) ==
    DOMAIN s = {"queue", "heap", "timer", "started", "attached", "pointer", "last", "asked", "tip", "serial"}
Nemiver(s) ==
    /\ Shape(s) /\ s.queue \in Seq(Command) /\ Heap(s.heap) /\ s.tip \in Tips /\ s.asked \in Requests
    /\ {s.timer, s.started, s.attached} \subseteq BOOLEAN
    /\ s.pointer \in 0..5 /\ s.last \in 0..5 /\ s.serial \in Positive

Gdb(g) ==
    g \in [inferior : {"none", "running", "stopped"}, in : {"main", "f"}, stop : Nat, objs : SUBSET Positive,
           next : Positive, goes : Nat]

(* The Variables that are in use are there.                                *)
UsedAreThere(s) ==
    /\ IF Up(s) THEN s.tip.at \in WordPlaces /\ s.tip.var \in DOMAIN s.heap
                     /\ \A i \in DOMAIN s.tip.rows : s.tip.rows[i].var \in DOMAIN s.heap
       ELSE s.tip = Down
    /\ \A i \in DOMAIN s.queue : s.queue[i].op \in {"unfold", "revisualize"} => s.queue[i].var \in DOMAIN s.heap

(* A request is for the word at its place; the timer is set where the      *)
(* pointer is.                                                             *)
AsksForWord(s) ==
    /\ s.asked.open => s.asked.at \in WordPlaces /\ s.asked.name = Word[s.asked.at]
    /\ s.timer => s.pointer = s.last

(* A tip has one row, of its variable, which is unfolded or about to be;   *)
(* or it has none, and its variable is about to be revisualized.           *)
Unfolding(s) == \E i \in DOMAIN s.queue : s.queue[i].op = "unfold" /\ s.queue[i].serial = s.tip.serial
Revisualizing(s) == \E i \in DOMAIN s.queue : s.queue[i].op = "revisualize"
RowShown(s) ==
    \/ /\ Len(s.tip.rows) = 1 /\ s.tip.rows[1].var = s.tip.var
       /\ s.tip.rows[1].folded => Unfolding(s)
    \/ s.tip.rows = <<>> /\ Revisualizing(s)
ShowsWord(s) ==
    ~({"revisualize", "haste"} \subseteq may) =>
        /\ Up(s) => s.heap[s.tip.var].name = Word[s.tip.at] /\ RowShown(s)
        /\ Revisualizing(s) => "revisualize" \in may

(* Of a user who waits one command at a time waits, but for deletions, and *)
(* about what is under the pointer.                                        *)
Asking(q) == {i \in DOMAIN q : q[i].op # "delete"}
OneAsks(s) ==
    Waits =>
        /\ \A i, j \in Asking(s.queue) : i = j
        /\ \A i \in DOMAIN s.queue : s.queue[i].op = "create" => s.asked.at = s.pointer
        /\ \A i \in DOMAIN s.queue : s.queue[i].op = "revisualize" =>
              Up(s) /\ s.tip.rows = <<>> /\ s.queue[i].var = s.tip.var /\ s.queue[i].serial = s.tip.serial
        /\ Up(s) => s.pointer = s.tip.at

(* Each object is that of one Variable, or about to be deleted, once.      *)
Deleting(q) == {i \in DOMAIN q : q[i].op = "delete"}
Owned(h, q, objs, next) ==
    /\ \A v \in DOMAIN h : h[v].obj \in objs
    /\ \A i \in Deleting(q) : q[i].obj \in objs
    /\ \A o \in objs : o < next /\ ((\E v \in DOMAIN h : h[v].obj = o) \/ \E i \in Deleting(q) : q[i].obj = o)
    /\ \A v, w \in DOMAIN h : h[v].obj = h[w].obj => v = w
    /\ \A i, j \in Deleting(q) : q[i].obj = q[j].obj => i = j
    /\ \A v \in DOMAIN h, i \in Deleting(q) : h[v].obj # q[i].obj
ObjectsFollow(s, objs, next) ==
    "exits" \notin may => Owned(s.heap, s.queue, objs, next) /\ (DOMAIN s.heap # {} => s.attached)

Sound(s, objs, next) ==
    /\ Nemiver(s) /\ UsedAreThere(s) /\ AsksForWord(s) /\ ShowsWord(s) /\ OneAsks(s)
    /\ ObjectsFollow(s, objs, next)

IInv ==
    /\ Gdb(gdb) /\ Sound(n, gdb.objs, gdb.next)
    /\ "exits" \notin may /\ gdb.inferior # "none" => n.attached

-----------------------------------------------------------------------------
(* Lemmas about sets and numbers.                                          *)

(* SetToSeq lists each element of a finite set, once.                      *)
LEMMA Listed ==
    ASSUME NEW S, IsFiniteSet(S)
    PROVE  /\ SetToSeq(S) \in Seq(S) /\ ToSet(SetToSeq(S)) = S
           /\ \A i, j \in DOMAIN SetToSeq(S) : SetToSeq(S)[i] = SetToSeq(S)[j] => i = j
<1> DEFINE k == Cardinality(S)
           f == SetToSeq(S)
<1>1. k \in Nat /\ ExistsBijection(1..k, S)
  BY FS_CardinalityType
<1>2. PICK g \in [1..k -> S] : IsInjective(g)
  BY <1>1 DEF ExistsBijection, Bijection, Injection
<1>3. f \in [1..k -> S] /\ IsInjective(f)
  BY <1>2 DEF SetToSeq
<1>4. Cardinality(1..k) = k /\ IsFiniteSet(1..k)
  BY <1>1, FS_Interval
<1> HIDE DEF k, f
<1>5. f \in Injection(1..k, S)
  BY <1>3 DEF Injection
<1>6. Cardinality(1..k) = Cardinality(S) <=> f \in Surjection(1..k, S)
  BY <1>5, FS_Injection
<1>7. f \in Surjection(1..k, S)
  BY <1>4, <1>6 DEF k
<1>8. \A x \in S : \E i \in 1..k : f[i] = x
  BY <1>7 DEF Surjection
<1>9. f \in Seq(S) /\ DOMAIN f = 1..k
  BY <1>1, <1>3
<1> QED
  BY <1>3, <1>8, <1>9 DEF ToSet, IsInjective, f

(* A set of numbers that is not empty has a smallest one.                  *)
LEMMA SmallestNumber ==
    ASSUME NEW S \in SUBSET Nat, S # {}
    PROVE  Min(S) \in S
<1> DEFINE R == OpToRel(<, Nat)
<1>1. IsWellFoundedOn(R, Nat)
  BY NatLessThanWellFounded
<1>2. \A x, y \in Nat : y < x => <<y, x>> \in R
  BY DEF OpToRel
<1> HIDE DEF R
<1>3. PICK m \in S : \A k \in S : ~ (<<k, m>> \in R)
  BY <1>1, WFMin
<1>4. ASSUME NEW k \in S PROVE m =< k
  <2>1. k \in Nat /\ m \in Nat
    OBVIOUS
  <2>2. ~(k < m)
    BY <1>2, <1>3, <2>1, Zenon
  <2> QED
    BY <2>1, <2>2
<1> QED
  BY <1>4 DEF Min

(* A new Variable has a number no other has.                               *)
LEMMA FreshNumber ==
    ASSUME NEW s, Heap(s.heap)
    PROVE  Fresh(s) \in Positive /\ Fresh(s) \notin DOMAIN s.heap
<1> DEFINE D == DOMAIN s.heap
           k == Cardinality(D)
           S == 1..(k + 1) \ D
<1>1. IsFiniteSet(D) /\ k \in Nat
  BY FS_CardinalityType DEF Heap
<1>2. Cardinality(1..(k + 1)) = k + 1
  BY <1>1, FS_Interval
<1>3. ~(1..(k + 1) \subseteq D)
  <2> SUFFICES ASSUME 1..(k + 1) \subseteq D PROVE FALSE
    OBVIOUS
  <2>1. Cardinality(1..(k + 1)) <= k
    BY <1>1, FS_Subset
  <2> QED
    BY <1>1, <1>2, <2>1
<1>4. S # {} /\ S \in SUBSET Nat /\ S \subseteq Positive
  BY <1>1, <1>3 DEF Positive
<1>5. Min(S) \in S
  BY <1>4, SmallestNumber
<1> QED
  BY <1>4, <1>5 DEF Fresh

-----------------------------------------------------------------------------
(* Lemmas about the queue.                                                 *)

LEMMA Appended ==
    ASSUME NEW q \in Seq(Command), NEW c \in Command
    PROVE  /\ Append(q, c) \in Seq(Command) /\ Len(q) \in Nat
           /\ DOMAIN q = 1..Len(q) /\ DOMAIN Append(q, c) = 1..(Len(q) + 1)
           /\ \A i \in 1..Len(q) : Append(q, c)[i] = q[i]
           /\ Append(q, c)[Len(q) + 1] = c
OBVIOUS

LEMMA Dequeued ==
    ASSUME NEW q \in Seq(Command), q # <<>>
    PROVE  /\ Head(q) \in Command /\ Head(q) = q[1] /\ Tail(q) \in Seq(Command)
           /\ Len(q) \in Positive /\ DOMAIN q = 1..Len(q) /\ DOMAIN Tail(q) = 1..(Len(q) - 1)
           /\ \A i \in 1..(Len(q) - 1) : Tail(q)[i] = q[i + 1]
           /\ \A i \in DOMAIN q : i = 1 \/ (i - 1 \in DOMAIN Tail(q) /\ q[i] = Tail(q)[i - 1])
<1>1. /\ Head(q) \in Command /\ Head(q) = q[1] /\ Tail(q) \in Seq(Command)
      /\ Len(q) \in Positive /\ DOMAIN q = 1..Len(q) /\ DOMAIN Tail(q) = 1..(Len(q) - 1)
      /\ \A i \in 1..(Len(q) - 1) : Tail(q)[i] = q[i + 1]
  BY DEF Positive
<1>2. ASSUME NEW i \in DOMAIN q, i # 1
      PROVE  i - 1 \in DOMAIN Tail(q) /\ q[i] = Tail(q)[i - 1]
  <2>1. i - 1 \in 1..(Len(q) - 1) /\ (i - 1) + 1 = i
    BY <1>1, <1>2 DEF Positive
  <2> QED
    BY <1>1, <2>1
<1> QED
  BY <1>1, <1>2

LEMMA CommandOps ==
    ASSUME NEW c \in Command
    PROVE  /\ c.op \in {"create", "delete", "unfold", "revisualize"}
           /\ c.op = "create" => c.name \in Names
           /\ c.op = "delete" => c.obj \in Positive
           /\ c.op = "unfold" => c.var \in Positive /\ c.serial \in Positive
           /\ c.op = "revisualize" => c \in [op : {"revisualize"}, left : 0..2, var : Positive, serial : Positive]
BY DEF Command

-----------------------------------------------------------------------------
(* What nobody uses goes: Release keeps all that is said of a Nemiver.     *)

(* What a Variable gone leaves in the queue.                               *)
Gone(s) == SetToSeq(DOMAIN s.heap \ Holders(s))
Deletions(s) ==
    IF s.attached THEN [i \in 1..Len(Gone(s)) |-> [op |-> "delete", obj |-> s.heap[Gone(s)[i]].obj]] ELSE <<>>

LEMMA ReleasedFields ==
    ASSUME NEW s, Nemiver(s)
    PROVE  LET t == Release(s)
           IN  /\ Nemiver(t)
               /\ t.heap = [v \in DOMAIN s.heap \intersect Holders(s) |-> s.heap[v]]
               /\ t.queue = s.queue \o Deletions(s)
               /\ t.timer = s.timer /\ t.started = s.started /\ t.attached = s.attached
               /\ t.pointer = s.pointer /\ t.last = s.last /\ t.asked = s.asked
               /\ t.tip = s.tip /\ t.serial = s.serial
<1> DEFINE S == DOMAIN s.heap \ Holders(s)
           g == Gone(s)
           h == [v \in DOMAIN s.heap \intersect Holders(s) |-> s.heap[v]]
           d == Deletions(s)
           q == IF s.attached
                THEN s.queue \o [i \in 1..Len(g) |-> [op |-> "delete", obj |-> s.heap[g[i]].obj]]
                ELSE s.queue
<1>1. Shape(s) /\ s.queue \in Seq(Command) /\ Heap(s.heap)
  BY DEF Nemiver
<1>2. IsFiniteSet(S)
  BY <1>1, FS_Difference DEF Heap
<1>3. g \in Seq(S) /\ ToSet(g) = S
  BY <1>2, Listed DEF Gone
<1>4. [v \in DOMAIN s.heap \ ToSet(g) |-> s.heap[v]] = h
  BY <1>3
<1>5. Len(g) \in Nat /\ \A i \in 1..Len(g) : g[i] \in S
  BY <1>3
<1>6. \A i \in 1..Len(g) : s.heap[g[i]].obj \in Positive
  BY <1>1, <1>5 DEF Heap
<1>7. d \in Seq(Command)
  <2>1. \A i \in 1..Len(g) : [op |-> "delete", obj |-> s.heap[g[i]].obj] \in Command
    BY <1>6 DEF Command
  <2> QED
    BY <1>5, <2>1 DEF Deletions
<1>8. q = s.queue \o d
  <2>1. s.queue \in Seq(Command)
    BY <1>1
  <2>2. s.queue \o <<>> = s.queue
    BY <2>1
  <2> QED
    BY <2>2 DEF Deletions
<1>9. q \in Seq(Command)
  <2>1. s.queue \in Seq(Command)
    BY <1>1
  <2> HIDE DEF q, d
  <2> QED
    BY <1>7, <1>8, <2>1
<1>10. Release(s) = [s EXCEPT !.heap = h, !.queue = q]
  <2> HIDE DEF h
  <2> QED
    BY <1>1, <1>4 DEF Release, Gone
<1>11. Heap(h)
  <2>1. DOMAIN h \subseteq DOMAIN s.heap
    OBVIOUS
  <2>2. IsFiniteSet(DOMAIN h)
    BY <1>1, <2>1, FS_Subset DEF Heap
  <2> QED
    BY <1>1, <2>1, <2>2 DEF Heap
<1> HIDE DEF h, q, g, d, S
<1> DEFINE t == Release(s)
<1>13. /\ Shape(t) /\ t.heap = h /\ t.queue = q
       /\ t.timer = s.timer /\ t.started = s.started /\ t.attached = s.attached
       /\ t.pointer = s.pointer /\ t.last = s.last /\ t.asked = s.asked
       /\ t.tip = s.tip /\ t.serial = s.serial
  BY <1>1, <1>10, SMT DEF Shape
<1>14. Nemiver(t)
  BY <1>9, <1>11, <1>13 DEF Nemiver
<1> QED
  BY <1>8, <1>13, <1>14 DEF h, d

(* The deletions are of the objects of those gone, each once.              *)
LEMMA DeletionsOnce ==
    ASSUME NEW s, Nemiver(s)
    PROVE  /\ Deletions(s) \in Seq(Command) /\ \A i \in DOMAIN Deletions(s) : Deletions(s)[i].op = "delete"
           /\ s.attached =>
                /\ \A i \in DOMAIN Deletions(s) :
                     Gone(s)[i] \in DOMAIN s.heap \ Holders(s) /\ Deletions(s)[i].obj = s.heap[Gone(s)[i]].obj
                /\ \A i, j \in DOMAIN Deletions(s) : Gone(s)[i] = Gone(s)[j] => i = j
                /\ \A v \in DOMAIN s.heap \ Holders(s) : \E i \in DOMAIN Deletions(s) : Gone(s)[i] = v
<1> DEFINE S == DOMAIN s.heap \ Holders(s)
           g == Gone(s)
           d == Deletions(s)
<1>1. IsFiniteSet(S)
  BY FS_Difference DEF Nemiver, Heap
<1>2. g \in Seq(S) /\ ToSet(g) = S /\ \A i, j \in DOMAIN g : g[i] = g[j] => i = j
  BY <1>1, Listed DEF Gone
<1>3. Len(g) \in Nat /\ DOMAIN g = 1..Len(g) /\ \A i \in 1..Len(g) : g[i] \in S
  BY <1>2
<1>4. \A i \in 1..Len(g) : [op |-> "delete", obj |-> s.heap[g[i]].obj] \in Command
  BY <1>3 DEF Command, Nemiver, Heap
<1>5. \A v \in S : \E i \in DOMAIN g : g[i] = v
  BY <1>2 DEF ToSet
<1>6. CASE s.attached
  <2>1. d = [i \in 1..Len(g) |-> [op |-> "delete", obj |-> s.heap[g[i]].obj]]
    BY <1>6 DEF Deletions
  <2> HIDE DEF d, g
  <2>2. d \in Seq(Command) /\ DOMAIN d = 1..Len(g)
    BY <1>3, <1>4, <2>1
  <2> QED
    BY <1>2, <1>3, <1>5, <2>1, <2>2 DEF d, g
<1>7. CASE ~s.attached
  BY <1>7 DEF Deletions
<1> QED
  BY <1>6, <1>7
LEMMA Joined ==
    ASSUME NEW q \in Seq(Command), NEW d \in Seq(Command)
    PROVE  /\ \A i \in DOMAIN q : i \in DOMAIN (q \o d) /\ (q \o d)[i] = q[i]
           /\ \A i \in DOMAIN d : i + Len(q) \in DOMAIN (q \o d) /\ (q \o d)[i + Len(q)] = d[i]
           /\ \A i \in DOMAIN (q \o d) :
                \/ i \in DOMAIN q
                \/ i \notin DOMAIN q /\ i - Len(q) \in DOMAIN d /\ (q \o d)[i] = d[i - Len(q)]
                   /\ i \in Int /\ Len(q) \in Int
<1>1. /\ DOMAIN (q \o d) = 1..(Len(q) + Len(d)) /\ Len(q) \in Nat /\ Len(d) \in Nat
      /\ DOMAIN q = 1..Len(q) /\ DOMAIN d = 1..Len(d)
  OBVIOUS
<1>2. \A i \in DOMAIN (q \o d) : (q \o d)[i] = IF i <= Len(q) THEN q[i] ELSE d[i - Len(q)]
  BY <1>1
<1> DEFINE r == q \o d
<1> HIDE DEF r
<1>3. DOMAIN r = 1..(Len(q) + Len(d)) /\ \A i \in DOMAIN r : r[i] = IF i <= Len(q) THEN q[i] ELSE d[i - Len(q)]
  BY <1>1, <1>2 DEF r
<1>4. \A i \in DOMAIN q : i \in DOMAIN r /\ r[i] = q[i]
  BY <1>1, <1>3
<1>5. ASSUME NEW i \in DOMAIN d PROVE i + Len(q) \in DOMAIN r /\ r[i + Len(q)] = d[i]
  <2>1. i + Len(q) \in DOMAIN r /\ ~(i + Len(q) <= Len(q)) /\ (i + Len(q)) - Len(q) = i
    BY <1>1, <1>3
  <2> QED
    BY <1>3, <2>1
<1>6. ASSUME NEW i \in DOMAIN r, i \notin DOMAIN q
      PROVE  i - Len(q) \in DOMAIN d /\ r[i] = d[i - Len(q)] /\ i \in Int /\ Len(q) \in Int
  <2>1. i \in 1..(Len(q) + Len(d)) /\ ~(i <= Len(q))
    BY <1>1, <1>3, <1>6
  <2> QED
    BY <1>1, <1>3, <2>1
<1> QED
  BY <1>4, <1>5, <1>6 DEF r

LEMMA Held ==
    ASSUME NEW s
    PROVE  /\ s.tip.var \in Holders(s)
           /\ \A i \in DOMAIN s.tip.rows : s.tip.rows[i].var \in Holders(s)
           /\ \A i \in DOMAIN s.queue :
                s.queue[i].op \in {"unfold", "revisualize"} => s.queue[i].var \in Holders(s)
BY DEF Holders, ToSet

(* What is said of the queue does not change with deletions behind it.     *)
LEMMA DeletionsBehind ==
    ASSUME NEW s, NEW t, Nemiver(s), Nemiver(t), NEW d \in Seq(Command),
           \A i \in DOMAIN d : d[i].op = "delete",
           t.queue = s.queue \o d, t.tip = s.tip, t.asked = s.asked, t.pointer = s.pointer,
           t.last = s.last, t.timer = s.timer,
           UsedAreThere(s), AsksForWord(s), ShowsWord(s), OneAsks(s),
           \A v \in DOMAIN s.heap \intersect Holders(s) : v \in DOMAIN t.heap /\ t.heap[v] = s.heap[v]
    PROVE  UsedAreThere(t) /\ AsksForWord(t) /\ ShowsWord(t) /\ OneAsks(t)
<1> DEFINE q == s.queue
           r == t.queue
<1>1. /\ \A i \in DOMAIN q : i \in DOMAIN r /\ r[i] = q[i]
      /\ \A i \in DOMAIN r : i \in DOMAIN q \/ r[i].op = "delete"
  BY Joined DEF Nemiver
<1> HIDE DEF q, r
<1>2. Up(t) = Up(s)
  BY DEF Up
<1>3. UsedAreThere(t)
  BY <1>1, <1>2, Held DEF UsedAreThere, q, r, Down
<1>4. AsksForWord(t)
  BY DEF AsksForWord
<1>5. Revisualizing(t) <=> Revisualizing(s)
  BY <1>1 DEF Revisualizing, q, r
<1>6. Unfolding(s) => Unfolding(t)
  BY <1>1 DEF Unfolding, q, r
<1>7. RowShown(s) => RowShown(t)
  BY <1>5, <1>6 DEF RowShown
<1>8. Up(s) => t.heap[t.tip.var] = s.heap[s.tip.var]
  BY Held DEF UsedAreThere
<1>9. ShowsWord(t)
  BY <1>2, <1>5, <1>7, <1>8 DEF ShowsWord
<1>10. Asking(r) = Asking(q)
  BY <1>1 DEF Asking
<1>11. \A i \in DOMAIN r : r[i].op # "delete" => i \in DOMAIN q /\ r[i] = q[i]
  BY <1>1
<1>12. OneAsks(t)
  BY <1>2, <1>10, <1>11 DEF OneAsks, q, r
<1> QED
  BY <1>3, <1>4, <1>9, <1>12
LEMMA ReleaseOwns ==
    ASSUME NEW s, Nemiver(s), NEW objs, NEW next, s.attached, Owned(s.heap, s.queue, objs, next)
    PROVE  Owned(Release(s).heap, Release(s).queue, objs, next)
<1> DEFINE g == Gone(s)
           d == Deletions(s)
           q == s.queue
           r == Release(s).queue
           h == s.heap
           k == Release(s).heap
<1>1. /\ DOMAIN k = DOMAIN h \intersect Holders(s) /\ \A v \in DOMAIN k : k[v] = h[v]
      /\ r = q \o d
  <2>1. k = [v \in DOMAIN h \intersect Holders(s) |-> h[v]] /\ r = q \o d
    BY ReleasedFields, Zenon
  <2> HIDE DEF k, h
  <2> QED
    BY <2>1
<1>2. /\ d \in Seq(Command) /\ \A i \in DOMAIN d : d[i].op = "delete"
      /\ \A i \in DOMAIN d : g[i] \in DOMAIN h \ Holders(s) /\ d[i].obj = h[g[i]].obj
      /\ \A i, j \in DOMAIN d : g[i] = g[j] => i = j
      /\ \A v \in DOMAIN h \ Holders(s) : \E i \in DOMAIN d : g[i] = v
  BY DeletionsOnce
<1>3. q \in Seq(Command)
  BY DEF Nemiver
<1>4. /\ \A i \in DOMAIN q : i \in DOMAIN r /\ r[i] = q[i]
      /\ \A i \in DOMAIN d : i + Len(q) \in DOMAIN r /\ r[i + Len(q)] = d[i]
      /\ \A i \in DOMAIN r :
           \/ i \in DOMAIN q
           \/ i \notin DOMAIN q /\ i - Len(q) \in DOMAIN d /\ r[i] = d[i - Len(q)] /\ i \in Int /\ Len(q) \in Int
  BY <1>1, <1>2, <1>3, Joined, SMTT(60)
<1>5. Owned(h, q, objs, next)
  OBVIOUS
<1> HIDE DEF g, d, q, r, h, k
<1>6. \A i \in Deleting(q) : i \in Deleting(r) /\ r[i] = q[i]
  BY <1>4 DEF Deleting
<1>7. \A i \in DOMAIN d : i + Len(q) \in Deleting(r) /\ r[i + Len(q)] = d[i]
  BY <1>2, <1>4 DEF Deleting
<1>8. \A i \in Deleting(r) :
        \/ i \in Deleting(q) /\ r[i] = q[i]
        \/ i \notin DOMAIN q /\ i - Len(q) \in DOMAIN d /\ r[i] = d[i - Len(q)] /\ i \in Int /\ Len(q) \in Int
  BY <1>4 DEF Deleting
<1>9. \A v \in DOMAIN k : k[v].obj \in objs
  BY <1>1, <1>5 DEF Owned
<1>10. \A i \in Deleting(r) : r[i].obj \in objs
  BY <1>2, <1>5, <1>8 DEF Owned
<1>11. ASSUME NEW o \in objs
       PROVE  o < next /\ ((\E v \in DOMAIN k : k[v].obj = o) \/ \E i \in Deleting(r) : r[i].obj = o)
  <2>1. o < next
    BY <1>5 DEF Owned
  <2>2. CASE \E v \in DOMAIN h : h[v].obj = o
    <3>1. PICK v \in DOMAIN h : h[v].obj = o
      BY <2>2
    <3>2. CASE v \in Holders(s)
      BY <1>1, <2>1, <3>1, <3>2
    <3>3. CASE v \notin Holders(s)
      <4>1. PICK i \in DOMAIN d : g[i] = v
        BY <1>2, <3>1, <3>3
      <4>2. r[i + Len(q)].obj = o /\ i + Len(q) \in Deleting(r)
        BY <1>2, <1>7, <3>1, <4>1
      <4> QED
        BY <2>1, <4>2
    <3> QED
      BY <3>2, <3>3
  <2>3. CASE \E i \in Deleting(q) : q[i].obj = o
    BY <1>6, <2>1, <2>3
  <2> QED
    BY <1>5, <2>2, <2>3 DEF Owned
<1>12. \A v, w \in DOMAIN k : k[v].obj = k[w].obj => v = w
  BY <1>1, <1>5 DEF Owned
<1>13. ASSUME NEW i \in Deleting(r), NEW j \in Deleting(r), r[i].obj = r[j].obj
       PROVE  i = j
  <2> DEFINE a == i - Len(q)
             b == j - Len(q)
  <2>1. CASE i \in Deleting(q) /\ r[i] = q[i] /\ j \in Deleting(q) /\ r[j] = q[j]
    BY <1>5, <1>13, <2>1 DEF Owned
  <2>2. CASE /\ a \in DOMAIN d /\ r[i] = d[a] /\ b \in DOMAIN d /\ r[j] = d[b]
             /\ i \in Int /\ j \in Int /\ Len(q) \in Int
    <3>1. g[a] = g[b]
      BY <1>2, <1>5, <1>13, <2>2 DEF Owned
    <3>2. a = b
      BY <1>2, <2>2, <3>1
    <3> QED
      BY <2>2, <3>2
  <2>3. CASE i \in Deleting(q) /\ r[i] = q[i] /\ b \in DOMAIN d /\ r[j] = d[b]
    BY <1>2, <1>5, <1>13, <2>3 DEF Owned
  <2>4. CASE j \in Deleting(q) /\ r[j] = q[j] /\ a \in DOMAIN d /\ r[i] = d[a]
    BY <1>2, <1>5, <1>13, <2>4 DEF Owned
  <2> QED
    BY <1>8, <2>1, <2>2, <2>3, <2>4
<1>14. ASSUME NEW v \in DOMAIN k, NEW i \in Deleting(r)
       PROVE  k[v].obj # r[i].obj
  <2>1. v \in DOMAIN h /\ v \in Holders(s) /\ k[v] = h[v]
    BY <1>1
  <2>2. CASE i \in Deleting(q) /\ r[i] = q[i]
    BY <1>5, <2>1, <2>2 DEF Owned
  <2>3. CASE i - Len(q) \in DOMAIN d /\ r[i] = d[i - Len(q)]
    <3>1. g[i - Len(q)] \in DOMAIN h \ Holders(s) /\ r[i].obj = h[g[i - Len(q)]].obj
      BY <1>2, <2>3
    <3> QED
      BY <1>5, <2>1, <3>1 DEF Owned
  <2> QED
    BY <1>8, <2>2, <2>3
<1>15. Owned(k, r, objs, next)
  BY <1>9, <1>10, <1>11, <1>12, <1>13, <1>14 DEF Owned
<1> QED
  BY <1>15 DEF k, r

LEMMA ReleaseSound ==
    ASSUME NEW s, NEW objs, NEW next, Sound(s, objs, next)
    PROVE  Sound(Release(s), objs, next) /\ Release(s).attached = s.attached
<1> DEFINE t == Release(s)
<1>1. /\ Nemiver(s) /\ UsedAreThere(s) /\ AsksForWord(s) /\ ShowsWord(s) /\ OneAsks(s)
      /\ ObjectsFollow(s, objs, next)
  BY DEF Sound
<1>2. /\ Nemiver(t) /\ t.heap = [v \in DOMAIN s.heap \intersect Holders(s) |-> s.heap[v]]
      /\ t.queue = s.queue \o Deletions(s)
      /\ t.timer = s.timer /\ t.attached = s.attached /\ t.pointer = s.pointer /\ t.last = s.last
      /\ t.asked = s.asked /\ t.tip = s.tip
  BY <1>1, ReleasedFields
<1>3. Deletions(s) \in Seq(Command) /\ \A i \in DOMAIN Deletions(s) : Deletions(s)[i].op = "delete"
  BY <1>1, DeletionsOnce
<1>4. s.attached => (Owned(s.heap, s.queue, objs, next) => Owned(t.heap, t.queue, objs, next))
  BY <1>1, ReleaseOwns
<1> HIDE DEF t
<1>5. UsedAreThere(t) /\ AsksForWord(t) /\ ShowsWord(t) /\ OneAsks(t)
  <2>1. \A v \in DOMAIN s.heap \intersect Holders(s) : v \in DOMAIN t.heap /\ t.heap[v] = s.heap[v]
    BY <1>2
  <2> QED
    BY <1>1, <1>2, <1>3, <2>1, DeletionsBehind
<1>6. ObjectsFollow(t, objs, next)
  <2>1. CASE s.attached
    BY <1>1, <1>2, <1>4, <2>1 DEF ObjectsFollow
  <2>2. CASE ~s.attached /\ "exits" \notin may
    <3>1. DOMAIN s.heap = {} /\ Owned(s.heap, s.queue, objs, next)
      BY <1>1, <2>2 DEF ObjectsFollow
    <3>2. t.queue = s.queue
      BY <1>1, <1>2, <2>2 DEF Deletions, Nemiver
    <3>3. DOMAIN t.heap = {}
      BY <1>2, <3>1
    <3>4. Owned(t.heap, t.queue, objs, next)
      BY <3>1, <3>2, <3>3 DEF Owned
    <3> QED
      BY <3>3, <3>4 DEF ObjectsFollow
  <2> QED
    BY <2>1, <2>2 DEF ObjectsFollow
<1> QED
  BY <1>2, <1>5, <1>6 DEF Sound, t
-----------------------------------------------------------------------------
(* The steps of the program.                                               *)

LEMMA Closed ==
    ASSUME NEW p \in 0..5, NEW r, r = [open |-> FALSE, name |-> "", at |-> p]
    PROVE  r \in Requests /\ ~r.open
BY DEF Requests

LEMMA NoTip ==
    ASSUME NEW s, s.tip = Down
    PROVE  ~Up(s) /\ s.tip \in Tips
<1>1. <<>> \in Seq(Row)
  OBVIOUS
<1>2. Down.serial = None /\ Down \in Tips
  BY <1>1 DEF Down, Tips, None
<1> QED
  BY <1>2 DEF Up

LEMMA InitFields ==
    ASSUME NEW s, NEW a, NEW d,
           s = [queue |-> <<>>, heap |-> <<>>, timer |-> FALSE, started |-> FALSE, attached |-> FALSE,
                pointer |-> None, last |-> None, asked |-> a, tip |-> d, serial |-> 1]
    PROVE  /\ Shape(s) /\ s.queue = <<>> /\ s.heap = <<>> /\ s.tip = d /\ s.pointer = None /\ s.last = None
           /\ s.asked = a /\ s.serial = 1 /\ ~s.timer /\ {s.timer, s.started, s.attached} \subseteq BOOLEAN
BY DEF Shape

LEMMA InitIInv ==
    ASSUME Init
    PROVE  IInv
<1> DEFINE a == [open |-> FALSE, name |-> "", at |-> None]
<1>1. /\ n = [queue |-> <<>>, heap |-> <<>>, timer |-> FALSE, started |-> FALSE, attached |-> FALSE,
              pointer |-> None, last |-> None, asked |-> a, tip |-> Down, serial |-> 1]
      /\ gdb = [inferior |-> "none", in |-> "main", stop |-> 0, objs |-> {}, next |-> 1, goes |-> 0]
  BY Zenon DEF Init
<1>2. None \in 0..5
  BY DEF None
<1>3. a \in Requests /\ ~a.open
  BY <1>2, Closed, Zenon
<1> HIDE DEF a
<1>4. /\ Shape(n) /\ n.queue = <<>> /\ n.heap = <<>> /\ n.tip = Down /\ n.pointer = None /\ n.last = None
      /\ n.asked = a /\ n.serial = 1 /\ ~n.timer /\ {n.timer, n.started, n.attached} \subseteq BOOLEAN
  BY <1>1, InitFields, Zenon
<1>5. gdb.inferior = "none" /\ gdb.objs = {} /\ gdb.next = 1 /\ Gdb(gdb)
  BY <1>1 DEF Gdb, Positive
<1>6. DOMAIN n.heap = {} /\ DOMAIN n.queue = {} /\ n.queue \in Seq(Command)
  BY <1>4
<1>7. Heap(n.heap)
  BY <1>6, FS_EmptySet DEF Heap
<1>8. Nemiver(n) /\ ~Up(n)
  BY <1>2, <1>3, <1>4, <1>6, <1>7, NoTip DEF Nemiver, Positive
<1>9. UsedAreThere(n) /\ AsksForWord(n)
  BY <1>3, <1>4, <1>6, <1>8 DEF UsedAreThere, AsksForWord
<1>10. ShowsWord(n)
  BY <1>6, <1>8 DEF ShowsWord, Revisualizing
<1>11. OneAsks(n)
  BY <1>6, <1>8 DEF OneAsks, Asking
<1>12. ObjectsFollow(n, gdb.objs, gdb.next)
  BY <1>5, <1>6 DEF ObjectsFollow, Owned, Deleting
<1> QED
  BY <1>5, <1>8, <1>9, <1>10, <1>11, <1>12 DEF IInv, Sound

(* Nothing that is said of a Nemiver is about whether the program runs.    *)
LEMMA AttachedSound ==
    ASSUME NEW s, NEW t, NEW objs, NEW next, Sound(s, objs, next), Shape(t),
           t.queue = s.queue, t.heap = s.heap, t.timer = s.timer, t.pointer = s.pointer, t.last = s.last,
           t.asked = s.asked, t.tip = s.tip, t.serial = s.serial,
           {t.started, t.attached} \subseteq BOOLEAN, "exits" \in may \/ t.attached
    PROVE  Sound(t, objs, next)
<1>1. Nemiver(s) /\ UsedAreThere(s) /\ AsksForWord(s) /\ ShowsWord(s) /\ OneAsks(s) /\ ObjectsFollow(s, objs, next)
  BY DEF Sound
<1>2. Nemiver(t)
  BY <1>1 DEF Nemiver
<1>3. UsedAreThere(t)
  BY <1>1 DEF UsedAreThere, Up
<1>4. AsksForWord(t)
  BY <1>1 DEF AsksForWord
<1>5. ShowsWord(t)
  BY <1>1 DEF ShowsWord, Up, RowShown, Unfolding, Revisualizing
<1>6. OneAsks(t)
  BY <1>1 DEF OneAsks, Up
<1>7. ObjectsFollow(t, objs, next)
  BY <1>1 DEF ObjectsFollow
<1> QED
  BY <1>2, <1>3, <1>4, <1>5, <1>6, <1>7 DEF Sound

LEMMA ProgramKeeps ==
    ASSUME IInv, Go \/ InferiorStops \/ InferiorExits
    PROVE  IInv'
<1>1. /\ Gdb(gdb) /\ Sound(n, gdb.objs, gdb.next) /\ Shape(n) /\ n.started \in BOOLEAN /\ n.timer \in BOOLEAN
      /\ "exits" \notin may /\ gdb.inferior # "none" => n.attached
  BY DEF IInv, Sound, Nemiver
<1>2. may' = may
  BY DEF Go, InferiorStops, InferiorExits
<1>3. /\ Gdb(gdb') /\ gdb'.objs = gdb.objs /\ gdb'.next = gdb.next
  <2>1. CASE Go
    <3>1. gdb' = [gdb EXCEPT !.inferior = "running", !.goes = @ + 1]
      BY <2>1, Zenon DEF Go
    <3>2. gdb.goes + 1 \in Nat
      BY <1>1 DEF Gdb
    <3> QED
      BY <1>1, <3>1, <3>2 DEF Gdb
  <2>2. CASE InferiorStops
    <3>1. PICK f \in {"main", "f"} : gdb' = [gdb EXCEPT !.inferior = "stopped", !.stop = @ + 1, !.in = f]
      BY <2>2, Zenon DEF InferiorStops
    <3>2. gdb.stop + 1 \in Nat
      BY <1>1 DEF Gdb
    <3> QED
      BY <1>1, <3>1, <3>2 DEF Gdb
  <2>3. CASE InferiorExits
    <3>1. gdb' = [gdb EXCEPT !.inferior = "none"]
      BY <2>3, Zenon DEF InferiorExits
    <3> QED
      BY <1>1, <3>1 DEF Gdb
  <2> QED
    BY <2>1, <2>2, <2>3
<1>4. CASE Go
  <2>1. n' = [n EXCEPT !.started = TRUE, !.attached = TRUE]
    BY <1>4 DEF Go
  <2>2. /\ Shape(n') /\ n'.queue = n.queue /\ n'.heap = n.heap /\ n'.timer = n.timer /\ n'.pointer = n.pointer
        /\ n'.last = n.last /\ n'.asked = n.asked /\ n'.tip = n.tip /\ n'.serial = n.serial
        /\ n'.started = TRUE /\ n'.attached = TRUE
    BY <1>1, <2>1, SMT DEF Shape
  <2>3. Sound(n', gdb.objs, gdb.next) /\ n'.attached
    BY <1>1, <2>2, AttachedSound
  <2> QED
    BY <1>2, <1>3, <2>3 DEF IInv, Sound, ShowsWord, OneAsks, Waits, ObjectsFollow
<1>5. CASE InferiorStops
  <2>1. n' = n /\ gdb.inferior = "running"
    BY <1>5 DEF InferiorStops
  <2> QED
    BY <1>1, <1>2, <1>3, <2>1 DEF IInv, Sound, ShowsWord, OneAsks, Waits, ObjectsFollow
<1>6. CASE InferiorExits
  <2>1. n' = [n EXCEPT !.attached = FALSE] /\ "exits" \in may
    BY <1>6 DEF InferiorExits
  <2>2. /\ Shape(n') /\ n'.queue = n.queue /\ n'.heap = n.heap /\ n'.timer = n.timer /\ n'.pointer = n.pointer
        /\ n'.last = n.last /\ n'.asked = n.asked /\ n'.tip = n.tip /\ n'.serial = n.serial
        /\ n'.started = n.started /\ n'.attached = FALSE
    BY <1>1, <2>1, SMT DEF Shape
  <2>3. Sound(n', gdb.objs, gdb.next)
    BY <1>1, <2>1, <2>2, AttachedSound
  <2> QED
    BY <1>2, <1>3, <2>1, <2>3 DEF IInv, Sound, ShowsWord, OneAsks, Waits, ObjectsFollow
<1> QED
  BY <1>4, <1>5, <1>6

-----------------------------------------------------------------------------
(* The steps of the pointer and of the user, who may wait for the answers. *)

(* The pointer goes, and the tip with it.                                  *)
LEMMA HiddenSound ==
    ASSUME NEW s, NEW t, NEW objs, NEW next, Sound(s, objs, next), Shape(t),
           t.queue = s.queue, t.heap = s.heap, t.asked = s.asked, t.serial = s.serial,
           t.started = s.started, t.attached = s.attached, t.tip = Down,
           t.pointer \in 0..5, t.last \in 0..5, t.timer \in BOOLEAN, t.timer => t.pointer = t.last,
           Waits => s.queue = <<>>
    PROVE  Sound(t, objs, next)
<1>1. Nemiver(s) /\ UsedAreThere(s) /\ AsksForWord(s) /\ ShowsWord(s) /\ OneAsks(s) /\ ObjectsFollow(s, objs, next)
  BY DEF Sound
<1>2. ~Up(t) /\ t.tip \in Tips
  BY NoTip
<1>3. Nemiver(t)
  BY <1>1, <1>2 DEF Nemiver
<1>4. UsedAreThere(t)
  BY <1>1, <1>2 DEF UsedAreThere
<1>5. AsksForWord(t)
  BY <1>1 DEF AsksForWord
<1>6. ShowsWord(t)
  BY <1>1, <1>2 DEF ShowsWord, Revisualizing
<1>7. OneAsks(t)
  BY <1>1, <1>2 DEF OneAsks, Asking
<1>8. ObjectsFollow(t, objs, next)
  BY <1>1 DEF ObjectsFollow
<1> QED
  BY <1>3, <1>4, <1>5, <1>6, <1>7, <1>8 DEF Sound

(* The pointer goes, and the tip stays.                                    *)
LEMMA KeptSound ==
    ASSUME NEW s, NEW t, NEW objs, NEW next, Sound(s, objs, next), Shape(t),
           t.queue = s.queue, t.heap = s.heap, t.asked = s.asked, t.serial = s.serial,
           t.started = s.started, t.attached = s.attached, t.tip = s.tip,
           t.pointer \in 0..5, t.last \in 0..5, t.timer \in BOOLEAN, t.timer => t.pointer = t.last,
           Waits => s.queue = <<>> /\ (Up(s) => t.pointer = s.tip.at)
    PROVE  Sound(t, objs, next)
<1>1. Nemiver(s) /\ UsedAreThere(s) /\ AsksForWord(s) /\ ShowsWord(s) /\ OneAsks(s) /\ ObjectsFollow(s, objs, next)
  BY DEF Sound
<1>2. Up(t) = Up(s)
  BY DEF Up
<1>3. Nemiver(t)
  BY <1>1 DEF Nemiver
<1>4. UsedAreThere(t)
  BY <1>1, <1>2 DEF UsedAreThere
<1>5. AsksForWord(t)
  BY <1>1 DEF AsksForWord
<1>6. ShowsWord(t)
  BY <1>1, <1>2 DEF ShowsWord, RowShown, Unfolding, Revisualizing
<1>7. OneAsks(t)
  BY <1>1, <1>2 DEF OneAsks, Asking
<1>8. ObjectsFollow(t, objs, next)
  BY <1>1 DEF ObjectsFollow
<1> QED
  BY <1>3, <1>4, <1>5, <1>6, <1>7, <1>8 DEF Sound

LEMMA HideFields ==
    ASSUME NEW s, Shape(s)
    PROVE  LET t == [s EXCEPT !.tip = Down]
           IN  /\ Shape(t) /\ t.queue = s.queue /\ t.heap = s.heap /\ t.asked = s.asked /\ t.serial = s.serial
               /\ t.started = s.started /\ t.attached = s.attached /\ t.tip = Down
               /\ t.pointer = s.pointer /\ t.last = s.last /\ t.timer = s.timer
<1> HIDE DEF Down
<1> QED
  BY SMT DEF Shape

(* The pointer goes to p; it has been to l; the tip stays or goes.         *)
LEMMA PointerGoes ==
    ASSUME IInv, NEW t, Shape(t),
           t.queue = n.queue, t.heap = n.heap, t.asked = n.asked, t.serial = n.serial,
           t.started = n.started, t.attached = n.attached, t.tip = n.tip,
           t.pointer \in 0..5, t.last \in 0..5, t.timer \in BOOLEAN, t.timer => t.pointer = t.last,
           Waits => n.queue = <<>>,
           may' = may, gdb' = gdb,
           n' = Hide(t) \/ (n' = t /\ (Waits /\ Up(n) => t.pointer = n.tip.at))
    PROVE  IInv'
<1>1. /\ Gdb(gdb) /\ Sound(n, gdb.objs, gdb.next)
      /\ "exits" \notin may /\ gdb.inferior # "none" => n.attached
  BY DEF IInv
<1>2. CASE n' = Hide(t)
  <2> DEFINE u == [t EXCEPT !.tip = Down]
  <2>1. /\ Shape(u) /\ u.queue = t.queue /\ u.heap = t.heap /\ u.asked = t.asked /\ u.serial = t.serial
        /\ u.started = t.started /\ u.attached = t.attached /\ u.tip = Down
        /\ u.pointer = t.pointer /\ u.last = t.last /\ u.timer = t.timer
    BY HideFields, Zenon
  <2>2. n' = Release(u)
    BY <1>2, Zenon DEF Hide
  <2> HIDE DEF u
  <2>3. Sound(u, gdb.objs, gdb.next)
    BY <1>1, <2>1, HiddenSound
  <2>4. Sound(n', gdb.objs, gdb.next) /\ n'.attached = n.attached
    BY <2>1, <2>2, <2>3, ReleaseSound
  <2> QED
    BY <1>1, <2>4 DEF IInv, Sound, ShowsWord, OneAsks, Waits, ObjectsFollow
<1>3. CASE n' = t /\ (Waits /\ Up(n) => t.pointer = n.tip.at)
  <2>1. Sound(n', gdb.objs, gdb.next) /\ n'.attached = n.attached
    BY <1>1, <1>3, KeptSound
  <2> QED
    BY <1>1, <2>1 DEF IInv, Sound, ShowsWord, OneAsks, Waits, ObjectsFollow
<1> QED
  BY <1>2, <1>3

LEMMA PlacesInText == Places \subseteq 1..5
<1>1. {p \in 3..5 : <<"", "", "struct", "local", "twice">>[p] \in may} \subseteq 3..5
  BY Zenon
<1>2. 3..5 \subseteq 1..5 /\ {Blank, 2} \subseteq 1..5
  BY DEF Blank
<1> QED
  BY <1>1, <1>2, Zenon DEF Places

LEMMA MoveKeeps ==
    ASSUME IInv, Move
    PROVE  IInv'
<1>1. PICK p \in Places \ {n.pointer} : n' = HideIfOutside(RestartTimer([n EXCEPT !.pointer = p, !.last = p]), p)
  BY Zenon DEF Move
<1>2. may' = may /\ gdb' = gdb /\ (Waits => n.queue = <<>>)
  BY DEF Move, Clicks, Quiet
<1>3. p \in 0..5
  <2>1. p \in 1..5
    BY PlacesInText, Zenon
  <2> QED
    BY <2>1
<1>4. Shape(n) /\ n.started \in BOOLEAN
  BY DEF IInv, Sound, Nemiver
<1> DEFINE m == [n EXCEPT !.pointer = p, !.last = p]
           t == RestartTimer(m)
<1>5. m.started = n.started /\ t = [n EXCEPT !.pointer = p, !.last = p, !.timer = n.started]
  BY <1>4, SMT DEF Shape, RestartTimer
<1>6. /\ Shape(t) /\ t.queue = n.queue /\ t.heap = n.heap /\ t.asked = n.asked /\ t.serial = n.serial
      /\ t.started = n.started /\ t.attached = n.attached /\ t.tip = n.tip
      /\ t.pointer = p /\ t.last = p /\ t.timer = n.started
  <2> HIDE DEF t
  <2> QED
    BY <1>4, <1>5, SMT DEF Shape
<1>7. n' = HideIfOutside(t, p)
  BY <1>1
<1> HIDE DEF t, m
<1>8. n' = Hide(t) \/ (n' = t /\ (Waits /\ Up(n) => t.pointer = n.tip.at))
  BY <1>6, <1>7 DEF HideIfOutside, Up
<1> QED
  BY <1>2, <1>3, <1>4, <1>6, <1>8, PointerGoes

LEMMA LeaveKeeps ==
    ASSUME IInv, Leave
    PROVE  IInv'
<1>1. n.pointer # None /\ n' = OnLeaveTip([n EXCEPT !.pointer = None, !.timer = FALSE], n.pointer)
  BY Zenon DEF Leave
<1>2. may' = may /\ gdb' = gdb /\ (Waits => n.queue = <<>>)
  BY DEF Leave, Clicks, Quiet
<1>3. Shape(n) /\ n.last \in 0..5 /\ None \in 0..5 /\ (Waits /\ Up(n) => n.pointer = n.tip.at)
  BY DEF IInv, Sound, Nemiver, None, OneAsks
<1> DEFINE t == [n EXCEPT !.pointer = None, !.timer = FALSE]
<1>4. /\ Shape(t) /\ t.queue = n.queue /\ t.heap = n.heap /\ t.asked = n.asked /\ t.serial = n.serial
      /\ t.started = n.started /\ t.attached = n.attached /\ t.tip = n.tip
      /\ t.pointer = None /\ t.last = n.last /\ t.timer = FALSE
  BY <1>3, SMT DEF Shape
<1>5. n' = OnLeaveTip(t, n.pointer)
  BY <1>1
<1> HIDE DEF t
<1>6. n' = Hide(t) \/ (n' = t /\ (Waits /\ Up(n) => t.pointer = n.tip.at))
  BY <1>3, <1>4, <1>5 DEF OnLeaveTip, Up
<1> QED
  BY <1>2, <1>3, <1>4, <1>6, PointerGoes

LEMMA FocusOutKeeps ==
    ASSUME IInv, FocusOut
    PROVE  IInv'
<1>1. n' = Hide(n) /\ may' = may /\ gdb' = gdb /\ (Waits => n.queue = <<>>)
  BY DEF FocusOut, Clicks, Quiet
<1>2. /\ Shape(n) /\ n.pointer \in 0..5 /\ n.last \in 0..5 /\ n.timer \in BOOLEAN
      /\ n.timer => n.pointer = n.last
  BY DEF IInv, Sound, Nemiver, AsksForWord
<1> QED
  BY <1>1, <1>2, PointerGoes

-----------------------------------------------------------------------------
(* A command behind the others, which is no deletion, and the request of   *)
(* the value of the word the pointer rests on.                             *)

LEMMA QueueFields ==
    ASSUME NEW s, NEW c, Shape(s)
    PROVE  /\ Shape(Queue(s, c)) /\ Queue(s, c).queue = Append(s.queue, c)
           /\ Queue(s, c).heap = s.heap /\ Queue(s, c).timer = s.timer /\ Queue(s, c).started = s.started
           /\ Queue(s, c).attached = s.attached /\ Queue(s, c).pointer = s.pointer /\ Queue(s, c).last = s.last
           /\ Queue(s, c).asked = s.asked /\ Queue(s, c).tip = s.tip /\ Queue(s, c).serial = s.serial
BY SMT DEF Shape, Queue

LEMMA OwnedBehind ==
    ASSUME NEW h, NEW q \in Seq(Command), NEW c \in Command, c.op # "delete", NEW objs, NEW next,
           Owned(h, q, objs, next)
    PROVE  Owned(h, Append(q, c), objs, next)
<1> DEFINE r == Append(q, c)
<1>1. /\ DOMAIN q = 1..Len(q) /\ DOMAIN r = 1..(Len(q) + 1) /\ Len(q) \in Nat
      /\ \A i \in 1..Len(q) : r[i] = q[i]
      /\ r[Len(q) + 1] = c
  BY Appended
<1> HIDE DEF r
<1>2. Deleting(r) = Deleting(q) /\ \A i \in Deleting(q) : r[i] = q[i]
  BY <1>1 DEF Deleting
<1>3. Owned(h, r, objs, next)
  BY <1>2 DEF Owned
<1> QED
  BY <1>3 DEF r

(* Where things are in a queue that has grown by a command.                *)
LEMMA Behind ==
    ASSUME NEW q \in Seq(Command), NEW c \in Command
    PROVE  /\ \A i \in DOMAIN q : i \in DOMAIN Append(q, c) /\ Append(q, c)[i] = q[i]
           /\ \A i \in DOMAIN Append(q, c) :
                (i \in DOMAIN q /\ Append(q, c)[i] = q[i]) \/ (i = Len(q) + 1 /\ Append(q, c)[i] = c)
           /\ Len(q) + 1 \in DOMAIN Append(q, c) /\ Append(q, c)[Len(q) + 1] = c
<1> DEFINE r == Append(q, c)
<1>1. /\ DOMAIN q = 1..Len(q) /\ DOMAIN r = 1..(Len(q) + 1) /\ Len(q) \in Nat
      /\ \A i \in 1..Len(q) : r[i] = q[i]
      /\ r[Len(q) + 1] = c
  BY Appended
<1> HIDE DEF r
<1>2. /\ \A i \in DOMAIN q : i \in DOMAIN r /\ r[i] = q[i]
      /\ \A i \in DOMAIN r : (i \in DOMAIN q /\ r[i] = q[i]) \/ (i = Len(q) + 1 /\ r[i] = c)
      /\ Len(q) + 1 \in DOMAIN r /\ r[Len(q) + 1] = c
  BY <1>1
<1> QED
  BY <1>2 DEF r

LEMMA Words == \A p \in WordPlaces : Word[p] \in Names /\ p \in 0..5
<1>1. ASSUME NEW p \in 2..5 PROVE Word[p] \in Names /\ p \in 0..5
  <2>1. p = 2 \/ p = 3 \/ p = 4 \/ p = 5
    OBVIOUS
  <2>2. Word[2] = "x" /\ Word[3] = "s" /\ Word[4] = "y" /\ Word[5] = "x"
    BY DEF Word
  <2>3. Word[p] \in Names
    BY <2>1, <2>2, Zenon DEF Names
  <2> QED
    BY <2>1, <2>3
<1> QED
  BY <1>1, Zenon DEF WordPlaces

LEMMA Opened ==
    ASSUME NEW p \in WordPlaces, NEW r, r = [open |-> TRUE, name |-> Word[p], at |-> p]
    PROVE  r \in Requests /\ r.at = p /\ r.name = Word[p]
<1>1. Word[p] \in Names /\ p \in 0..5
  BY Words
<1> QED
  BY <1>1 DEF Requests

LEMMA AskSound ==
    ASSUME NEW s, NEW t, NEW objs, NEW next, Sound(s, objs, next), Shape(t), NEW c,
           s.last \in WordPlaces, s.pointer = s.last, Waits => s.queue = <<>>,
           c \in Command, c.op = "create",
           t.asked \in Requests, t.asked.at = s.last, t.asked.name = Word[s.last],
           t.queue = Append(s.queue, c), t.heap = s.heap, t.timer = FALSE, t.started = s.started,
           t.attached = s.attached, t.pointer = s.pointer, t.last = s.last, t.tip = s.tip, t.serial = s.serial
    PROVE  Sound(t, objs, next)
<1>1. Nemiver(s) /\ UsedAreThere(s) /\ AsksForWord(s) /\ ShowsWord(s) /\ OneAsks(s) /\ ObjectsFollow(s, objs, next)
  BY DEF Sound
<1>4. Nemiver(t)
  <2>1. s.queue \in Seq(Command)
    BY <1>1 DEF Nemiver
  <2>2. t.queue \in Seq(Command)
    BY <2>1, Appended
  <2> QED
    BY <1>1, <2>2 DEF Nemiver
<1> DEFINE q == s.queue
           r == t.queue
<1>5. /\ \A i \in DOMAIN q : i \in DOMAIN r /\ r[i] = q[i]
      /\ \A i \in DOMAIN r : (i \in DOMAIN q /\ r[i] = q[i]) \/ (i = Len(q) + 1 /\ r[i] = c)
  BY <1>1, Behind DEF Nemiver
<1> HIDE DEF q, r
<1>6. Up(t) = Up(s)
  BY DEF Up
<1>7. UsedAreThere(t)
  BY <1>1, <1>5, <1>6 DEF UsedAreThere, q, r
<1>8. AsksForWord(t)
  BY DEF AsksForWord
<1>9. ShowsWord(t)
  <2>1. Revisualizing(t) <=> Revisualizing(s)
    BY <1>5 DEF Revisualizing, q, r
  <2>2. Unfolding(s) => Unfolding(t)
    BY <1>5 DEF Unfolding, q, r
  <2> QED
    BY <1>1, <1>6, <2>1, <2>2 DEF ShowsWord, RowShown
<1>10. OneAsks(t)
  <2> SUFFICES ASSUME Waits PROVE OneAsks(t)
    BY DEF OneAsks
  <2>1. DOMAIN q = {}
    BY DEF q
  <2>2. \A i \in DOMAIN r : i = Len(q) + 1 /\ r[i] = c
    BY <1>5, <2>1
  <2> QED
    BY <1>1, <1>6, <2>2 DEF OneAsks, Asking, r
<1>11. ObjectsFollow(t, objs, next)
  <2>1. s.queue \in Seq(Command)
    BY <1>1 DEF Nemiver
  <2> QED
    BY <1>1, <2>1, OwnedBehind DEF ObjectsFollow
<1> QED
  BY <1>4, <1>7, <1>8, <1>9, <1>10, <1>11 DEF Sound

LEMMA TimerKeeps ==
    ASSUME IInv, TimerFires
    PROVE  IInv'
<1>1. /\ Gdb(gdb) /\ Sound(n, gdb.objs, gdb.next) /\ Shape(n)
      /\ "exits" \notin may /\ gdb.inferior # "none" => n.attached
      /\ n.pointer \in 0..5 /\ n.last \in 0..5 /\ (n.timer => n.pointer = n.last)
      /\ (Waits /\ Up(n) => n.pointer = n.tip.at)
  BY DEF IInv, Sound, Nemiver, AsksForWord, OneAsks
<1>2. /\ may' = may /\ gdb' = gdb /\ (Waits => n.queue = <<>>) /\ n.timer
      /\ n' = [IF n.attached THEN Ask(n) ELSE n EXCEPT !.timer = FALSE]
  BY Zenon DEF TimerFires, Quiet
<1>3. CASE n.attached /\ n.last \notin {None, Blank}
  <2> DEFINE a == [open |-> TRUE, name |-> Word[n.last], at |-> n.last]
             c == [op |-> "create", name |-> Word[n.last]]
  <2>1. n.last \in WordPlaces
    BY <1>1, <1>3 DEF None, Blank, WordPlaces
  <2>2. n' = [Queue([n EXCEPT !.asked = a], c) EXCEPT !.timer = FALSE]
    BY <1>2, <1>3, Zenon DEF Ask
  <2>3. a \in Requests /\ a.at = n.last /\ a.name = Word[n.last]
    BY <2>1, Opened, Zenon
  <2>4. c \in Command /\ c.op = "create"
    BY <2>1, Words DEF Command
  <2> HIDE DEF a, c
  <2> DEFINE u == [n EXCEPT !.asked = a]
             w == Queue(u, c)
  <2>5. /\ Shape(w) /\ w.queue = Append(n.queue, c) /\ w.heap = n.heap
        /\ w.started = n.started /\ w.attached = n.attached /\ w.pointer = n.pointer /\ w.last = n.last
        /\ w.asked = a /\ w.tip = n.tip /\ w.serial = n.serial
    <3>1. /\ Shape(u) /\ u.queue = n.queue /\ u.heap = n.heap /\ u.timer = n.timer /\ u.started = n.started
          /\ u.attached = n.attached /\ u.pointer = n.pointer /\ u.last = n.last
          /\ u.asked = a /\ u.tip = n.tip /\ u.serial = n.serial
      BY <1>1, SMT DEF Shape
    <3> HIDE DEF u
    <3> QED
      BY <3>1, QueueFields
  <2>6. n' = [w EXCEPT !.timer = FALSE]
    BY <2>2
  <2> HIDE DEF w
  <2>7. /\ Shape(n') /\ n'.queue = Append(n.queue, c) /\ n'.heap = n.heap /\ n'.timer = FALSE
        /\ n'.started = n.started /\ n'.attached = n.attached /\ n'.pointer = n.pointer /\ n'.last = n.last
        /\ n'.asked = a /\ n'.tip = n.tip /\ n'.serial = n.serial
    BY <2>5, <2>6, SMT DEF Shape
  <2>8. Sound(n', gdb.objs, gdb.next)
    BY <1>1, <1>2, <2>1, <2>3, <2>4, <2>7, AskSound, ZenonT(60)
  <2> QED
    BY <1>1, <1>2, <2>7, <2>8 DEF IInv, Sound, ShowsWord, OneAsks, Waits, ObjectsFollow
<1>4. CASE ~(n.attached /\ n.last \notin {None, Blank})
  <2>1. n' = [n EXCEPT !.timer = FALSE]
    BY <1>2, <1>4, Zenon DEF Ask
  <2>2. /\ Shape(n') /\ n'.queue = n.queue /\ n'.heap = n.heap /\ n'.asked = n.asked /\ n'.serial = n.serial
        /\ n'.started = n.started /\ n'.attached = n.attached /\ n'.tip = n.tip
        /\ n'.pointer = n.pointer /\ n'.last = n.last /\ n'.timer = FALSE
    BY <1>1, <2>1, SMT DEF Shape
  <2> QED
    BY <1>1, <1>2, <2>2, PointerGoes
<1> QED
  BY <1>3, <1>4

-----------------------------------------------------------------------------
(* A command is answered: what is said of the rest of the queue.           *)

(* Where things are in a queue whose first command is gone.                *)
LEMMA Ahead ==
    ASSUME NEW q \in Seq(Command), q # <<>>
    PROVE  /\ Head(q) \in Command /\ Tail(q) \in Seq(Command) /\ 1 \in DOMAIN q /\ q[1] = Head(q)
           /\ \A i \in DOMAIN Tail(q) : i + 1 \in DOMAIN q /\ i + 1 # 1 /\ Tail(q)[i] = q[i + 1]
           /\ \A i \in DOMAIN q : i = 1 \/ (i - 1 \in DOMAIN Tail(q) /\ q[i] = Tail(q)[i - 1])
           /\ DOMAIN q \subseteq Int /\ DOMAIN Tail(q) \subseteq Int
<1> DEFINE r == Tail(q)
<1>1. /\ Head(q) \in Command /\ Head(q) = q[1] /\ r \in Seq(Command)
      /\ Len(q) \in Positive /\ DOMAIN q = 1..Len(q) /\ DOMAIN r = 1..(Len(q) - 1)
      /\ \A i \in 1..(Len(q) - 1) : r[i] = q[i + 1]
      /\ \A i \in DOMAIN q : i = 1 \/ (i - 1 \in DOMAIN r /\ q[i] = r[i - 1])
  BY Dequeued
<1> HIDE DEF r
<1>2. /\ 1 \in DOMAIN q
      /\ \A i \in DOMAIN r : i + 1 \in DOMAIN q /\ i + 1 # 1 /\ r[i] = q[i + 1]
      /\ DOMAIN q \subseteq Int /\ DOMAIN r \subseteq Int
  BY <1>1 DEF Positive
<1>3. Head(q) \in Command /\ r \in Seq(Command) /\ q[1] = Head(q)
  BY <1>1
<1>4. \A i \in DOMAIN q : i = 1 \/ (i - 1 \in DOMAIN r /\ q[i] = r[i - 1])
  BY <1>1
<1> QED
  BY <1>2, <1>3, <1>4, Zenon DEF r

LEMMA OwnedAhead ==
    ASSUME NEW h, NEW q \in Seq(Command), q # <<>>, NEW objs, NEW next, Owned(h, q, objs, next)
    PROVE  /\ Head(q).op # "delete" => Owned(h, Tail(q), objs, next)
           /\ Head(q).op = "delete" => Owned(h, Tail(q), objs \ {Head(q).obj}, next)
<1> DEFINE r == Tail(q)
           c == Head(q)
<1>1. /\ 1 \in DOMAIN q /\ q[1] = c
      /\ \A i \in DOMAIN r : i + 1 \in DOMAIN q /\ i + 1 # 1 /\ r[i] = q[i + 1]
      /\ \A i \in DOMAIN q : i = 1 \/ (i - 1 \in DOMAIN r /\ q[i] = r[i - 1])
      /\ DOMAIN q \subseteq Int /\ DOMAIN r \subseteq Int
  BY Ahead
<1> HIDE DEF r, c
<1>2. \A i \in Deleting(r) : i + 1 \in Deleting(q) /\ i + 1 # 1 /\ r[i] = q[i + 1] /\ i \in Int
  BY <1>1 DEF Deleting
<1>3. \A i \in Deleting(q) : i = 1 \/ (i - 1 \in Deleting(r) /\ q[i] = r[i - 1])
  BY <1>1 DEF Deleting
<1>4. \A v \in DOMAIN h, i \in Deleting(r) : h[v].obj # r[i].obj
  BY <1>2 DEF Owned
<1>5. ASSUME NEW i \in Deleting(r), NEW j \in Deleting(r), r[i].obj = r[j].obj PROVE i = j
  <2>1. i + 1 = j + 1
    BY <1>2, <1>5 DEF Owned
  <2> QED
    BY <1>2, <2>1
<1>6. CASE c.op # "delete"
  <2>1. 1 \notin Deleting(q)
    BY <1>1, <1>6 DEF Deleting
  <2>2. \A i \in Deleting(q) : i - 1 \in Deleting(r) /\ q[i] = r[i - 1]
    BY <1>3, <2>1
  <2>3. \A o \in objs : o < next /\ ((\E v \in DOMAIN h : h[v].obj = o) \/ \E i \in Deleting(r) : r[i].obj = o)
    BY <2>2 DEF Owned
  <2>4. Owned(h, r, objs, next)
    BY <1>2, <1>4, <1>5, <2>3 DEF Owned
  <2> QED
    BY <1>6, <2>4 DEF r, c
<1>7. CASE c.op = "delete"
  <2> DEFINE os == objs \ {c.obj}
  <2>1. 1 \in Deleting(q) /\ q[1].obj = c.obj
    BY <1>1, <1>7 DEF Deleting
  <2>2. \A v \in DOMAIN h : h[v].obj \in os
    BY <2>1 DEF Owned
  <2>3. \A i \in Deleting(r) : r[i].obj \in os
    BY <1>2, <2>1 DEF Owned
  <2>4. ASSUME NEW o \in os
        PROVE  o < next /\ ((\E v \in DOMAIN h : h[v].obj = o) \/ \E i \in Deleting(r) : r[i].obj = o)
    BY <1>3, <2>1, <2>4 DEF Owned
  <2>5. Owned(h, r, os, next)
    <3> HIDE DEF os
    <3> QED
      BY <1>4, <1>5, <2>2, <2>3, <2>4 DEF Owned
  <2> QED
    BY <1>7, <2>5 DEF r, c
<1> QED
  BY <1>6, <1>7

(* What is said of t, in which the first command c of s has been taken.    *)
Answered(s, t, c, objs, next) ==
    /\ c \in Command
    /\ Nemiver(t) /\ UsedAreThere(t) /\ AsksForWord(t) /\ OneAsks(t)
    /\ c.op \in {"unfold", "revisualize"} => c.var \in DOMAIN t.heap
    /\ c.op = "revisualize" =>
         (~({"revisualize", "haste"} \subseteq may) => "revisualize" \in may)
    /\ Waits /\ c.op # "delete" => \A i \in DOMAIN t.queue : t.queue[i].op = "delete"
    /\ Waits /\ c.op = "create" => t.asked.at = t.pointer
    /\ Waits /\ c.op = "revisualize" =>
         Up(t) /\ t.tip.rows = <<>> /\ c.var = t.tip.var /\ c.serial = t.tip.serial
    /\ Revisualizing(t) => Revisualizing(s)
    /\ c.op # "revisualize" => (Revisualizing(s) => Revisualizing(t))
    /\ (c.op = "unfold" => c.serial # t.tip.serial) => (Unfolding(s) => Unfolding(t))
    /\ c.op \in {"create", "delete"} => ShowsWord(t)
    /\ c.op # "delete" => ObjectsFollow(t, objs, next)
    /\ c.op = "delete" => ObjectsFollow(t, objs \ {c.obj}, next)

(* A command that deletes or creates says nothing of the tip there is.     *)
LEMMA AnsweredSound ==
    ASSUME NEW s, NEW t, NEW objs, NEW next, Sound(s, objs, next), s.queue # <<>>, Shape(t),
           t.queue = Tail(s.queue), t.heap = s.heap, t.timer = s.timer, t.started = s.started,
           t.attached = s.attached, t.pointer = s.pointer, t.last = s.last, t.asked = s.asked,
           t.tip = s.tip, t.serial = s.serial, NEW c, c = Head(s.queue)
    PROVE  Answered(s, t, c, objs, next)
<1>1. Nemiver(s) /\ UsedAreThere(s) /\ AsksForWord(s) /\ ShowsWord(s) /\ OneAsks(s) /\ ObjectsFollow(s, objs, next)
  BY DEF Sound
<1>2. s.queue \in Seq(Command)
  BY <1>1 DEF Nemiver
<1> DEFINE q == s.queue
           r == t.queue
<1>3. /\ c \in Command /\ r \in Seq(Command) /\ 1 \in DOMAIN q /\ q[1] = c
      /\ \A i \in DOMAIN r : i + 1 \in DOMAIN q /\ i + 1 # 1 /\ r[i] = q[i + 1]
      /\ \A i \in DOMAIN q : i = 1 \/ (i - 1 \in DOMAIN r /\ q[i] = r[i - 1])
      /\ DOMAIN q \subseteq Int /\ DOMAIN r \subseteq Int
  BY <1>2, Ahead
<1>4. /\ c.op # "delete" => (Owned(s.heap, q, objs, next) => Owned(t.heap, r, objs, next))
      /\ c.op = "delete" => (Owned(s.heap, q, objs, next) => Owned(t.heap, r, objs \ {c.obj}, next))
  BY <1>2, OwnedAhead
<1> HIDE DEF q, r
<1>5. Up(t) = Up(s)
  BY DEF Up
<1>6. Nemiver(t)
  BY <1>1, <1>3 DEF Nemiver, r
<1>7. UsedAreThere(t)
  BY <1>1, <1>3, <1>5 DEF UsedAreThere, q, r
<1>8. AsksForWord(t)
  BY <1>1 DEF AsksForWord
<1>9. c.op \in {"unfold", "revisualize"} => c.var \in DOMAIN t.heap
  BY <1>1, <1>3 DEF UsedAreThere, q
<1>10. Revisualizing(t) => Revisualizing(s)
  BY <1>3 DEF Revisualizing, q, r
<1>11. c.op # "revisualize" => (Revisualizing(s) => Revisualizing(t))
  <2> SUFFICES ASSUME c.op # "revisualize", Revisualizing(s) PROVE Revisualizing(t)
    OBVIOUS
  <2>1. PICK i \in DOMAIN q : q[i].op = "revisualize"
    BY DEF Revisualizing, q
  <2>2. i - 1 \in DOMAIN r /\ r[i - 1].op = "revisualize"
    BY <1>3, <2>1
  <2> QED
    BY <2>2 DEF Revisualizing, r
<1>12. ASSUME c.op = "unfold" => c.serial # t.tip.serial, Unfolding(s)
       PROVE  Unfolding(t)
  <2>1. PICK i \in DOMAIN q : q[i].op = "unfold" /\ q[i].serial = s.tip.serial
    BY <1>12 DEF Unfolding, q
  <2>2. i # 1
    BY <1>3, <1>12, <2>1
  <2>3. i - 1 \in DOMAIN r /\ r[i - 1] = q[i]
    BY <1>3, <2>2
  <2> QED
    BY <2>1, <2>3 DEF Unfolding, r
<1>13. c.op \in {"create", "delete"} => ShowsWord(t)
  BY <1>1, <1>5, <1>10, <1>11, <1>12 DEF ShowsWord, RowShown
<1>14. c.op = "revisualize" => (~({"revisualize", "haste"} \subseteq may) => "revisualize" \in may)
  BY <1>1, <1>3 DEF ShowsWord, Revisualizing, q
<1>15. ASSUME Waits
       PROVE  /\ OneAsks(t)
              /\ c.op # "delete" => \A i \in DOMAIN r : r[i].op = "delete"
              /\ c.op = "create" => t.asked.at = t.pointer
              /\ c.op = "revisualize" =>
                   Up(t) /\ t.tip.rows = <<>> /\ c.var = t.tip.var /\ c.serial = t.tip.serial
  <2>1. /\ \A i, j \in Asking(q) : i = j
        /\ \A i \in DOMAIN q : q[i].op = "create" => s.asked.at = s.pointer
        /\ \A i \in DOMAIN q : q[i].op = "revisualize" =>
              Up(s) /\ s.tip.rows = <<>> /\ q[i].var = s.tip.var /\ q[i].serial = s.tip.serial
        /\ Up(s) => s.pointer = s.tip.at
    BY <1>1, <1>15 DEF OneAsks, q
  <2>2. \A i \in Asking(r) : i + 1 \in Asking(q) /\ i + 1 # 1 /\ i \in Int
    BY <1>3 DEF Asking
  <2>3. ASSUME NEW i \in Asking(r), NEW j \in Asking(r) PROVE i = j
    <3>1. i + 1 = j + 1 /\ i \in Int /\ j \in Int
      BY <2>1, <2>2
    <3> QED
      BY <3>1
  <2>4. \A i \in DOMAIN r : r[i].op = "create" => t.asked.at = t.pointer
    BY <1>3, <2>1
  <2>5. \A i \in DOMAIN r : r[i].op = "revisualize" =>
          Up(t) /\ t.tip.rows = <<>> /\ r[i].var = t.tip.var /\ r[i].serial = t.tip.serial
    BY <1>3, <1>5, <2>1
  <2>6. OneAsks(t)
    BY <1>5, <2>1, <2>3, <2>4, <2>5 DEF OneAsks, r
  <2>7. c.op # "delete" => 1 \in Asking(q)
    BY <1>3 DEF Asking
  <2>8. c.op # "delete" => \A i \in DOMAIN r : r[i].op = "delete"
    BY <2>1, <2>2, <2>7 DEF Asking
  <2> QED
    BY <1>3, <1>5, <2>1, <2>6, <2>8
<1>16. OneAsks(t)
  BY <1>15 DEF OneAsks
<1>17. /\ c.op # "delete" => ObjectsFollow(t, objs, next)
       /\ c.op = "delete" => ObjectsFollow(t, objs \ {c.obj}, next)
  BY <1>1, <1>4 DEF ObjectsFollow, q, r
<1> QED
  BY <1>3, <1>6, <1>7, <1>8, <1>9, <1>10, <1>11, <1>12, <1>13, <1>14, <1>15, <1>16, <1>17 DEF Answered, r

-----------------------------------------------------------------------------
(* GDB has created an object for a Variable, and the tip pops up with it.  *)

NewVariable(x) == x \in [name : Names, obj : Positive, value : Nat, folded : BOOLEAN]

LEMMA CreatedSound ==
    ASSUME NEW s, NEW t, NEW objs \in SUBSET Positive, NEW next \in Positive, Sound(s, objs, next), Shape(t),
           NEW v \in Positive, v \notin DOMAIN s.heap, NEW x, NewVariable(x), x.obj = next,
           t.heap = [w \in DOMAIN s.heap \union {v} |-> IF w = v THEN x ELSE s.heap[w]],
           t.queue = s.queue, t.timer = s.timer, t.started = s.started, t.attached = s.attached,
           t.pointer = s.pointer, t.last = s.last, t.asked = s.asked, t.tip = s.tip, t.serial = s.serial,
           "exits" \notin may => s.attached
    PROVE  Sound(t, objs \union {next}, next + 1)
<1>1. Nemiver(s) /\ UsedAreThere(s) /\ AsksForWord(s) /\ ShowsWord(s) /\ OneAsks(s) /\ ObjectsFollow(s, objs, next)
  BY DEF Sound
<1> DEFINE h == s.heap
           k == t.heap
           q == s.queue
<1>2. /\ DOMAIN k = DOMAIN h \union {v} /\ k[v] = x
      /\ \A w \in DOMAIN h : k[w] = h[w]
  OBVIOUS
<1> HIDE DEF h, k, q
<1>3. Heap(t.heap)
  <2>1. IsFiniteSet(DOMAIN k)
    BY <1>1, <1>2, FS_AddElement DEF Nemiver, Heap, h
  <2>2. \A w \in DOMAIN k : k[w] \in [name : Names, obj : Positive, value : Nat, folded : BOOLEAN]
    BY <1>1, <1>2 DEF Nemiver, Heap, NewVariable, h
  <2> QED
    BY <1>1, <1>2, <2>1, <2>2 DEF Nemiver, Heap, h, k
<1>4. Nemiver(t)
  BY <1>1, <1>3 DEF Nemiver
<1>5. Up(t) = Up(s)
  BY DEF Up
<1>6. UsedAreThere(t)
  BY <1>1, <1>2, <1>5 DEF UsedAreThere, h, k
<1>7. AsksForWord(t)
  BY <1>1 DEF AsksForWord
<1>8. ShowsWord(t)
  <2>1. Up(s) => t.heap[t.tip.var] = s.heap[s.tip.var]
    BY <1>1, <1>2 DEF UsedAreThere, h, k
  <2> QED
    BY <1>1, <1>5, <2>1 DEF ShowsWord, RowShown, Unfolding, Revisualizing
<1>9. OneAsks(t)
  BY <1>1, <1>5 DEF OneAsks, Asking
<1>10. ASSUME Owned(h, q, objs, next) PROVE Owned(k, q, objs \union {next}, next + 1)
  <2>1. next \notin objs /\ \A o \in objs : o \in Nat /\ o < next + 1
    <3>1. \A o \in objs : o < next
      BY <1>10, Zenon DEF Owned
    <3>2. \A o \in objs : o \in Nat
      BY DEF Positive
    <3>3. next \in Nat
      BY DEF Positive
    <3> QED
      BY <3>1, <3>2, <3>3
  <2>2. next < next + 1
    BY DEF Positive
  <2>3. \A w \in DOMAIN k : k[w].obj \in objs \union {next}
    BY <1>2, <1>10 DEF Owned
  <2>4. \A i \in Deleting(q) : q[i].obj \in objs
    BY <1>10 DEF Owned
  <2>5. ASSUME NEW o \in objs \union {next}
        PROVE  o < next + 1 /\ ((\E w \in DOMAIN k : k[w].obj = o) \/ \E i \in Deleting(q) : q[i].obj = o)
    <3>1. CASE o = next
      BY <1>2, <2>2, <3>1
    <3>2. CASE o \in objs
      <4>1. (\E w \in DOMAIN h : h[w].obj = o) \/ \E i \in Deleting(q) : q[i].obj = o
        BY <1>10, <3>2 DEF Owned
      <4> QED
        BY <1>2, <2>1, <3>2, <4>1
    <3> QED
      BY <3>1, <3>2
  <2>6. ASSUME NEW w \in DOMAIN k, NEW u \in DOMAIN k, k[w].obj = k[u].obj PROVE w = u
    <3>1. \A z \in DOMAIN h : h[z].obj \in objs
      BY <1>10 DEF Owned
    <3> QED
      BY <1>2, <1>10, <2>1, <2>6, <3>1 DEF Owned
  <2>7. \A w \in DOMAIN k, i \in Deleting(q) : k[w].obj # q[i].obj
    BY <1>2, <1>10, <2>1, <2>4 DEF Owned
  <2> QED
    BY <1>10, <2>3, <2>4, <2>5, <2>6, <2>7 DEF Owned
<1>11. ObjectsFollow(t, objs \union {next}, next + 1)
  BY <1>1, <1>10 DEF ObjectsFollow, h, k, q
<1> QED
  BY <1>4, <1>6, <1>7, <1>8, <1>9, <1>11 DEF Sound

LEMMA PoppedSound ==
    ASSUME NEW s, NEW t, NEW objs, NEW next, Sound(s, objs, next), Shape(t), NEW v \in DOMAIN s.heap,
           s.asked.open, s.heap[v].name = s.asked.name,
           Waits => s.asked.at = s.pointer /\ \A i \in DOMAIN s.queue : s.queue[i].op = "delete",
           t.heap = s.heap, t.timer = s.timer, t.started = s.started, t.attached = s.attached,
           t.pointer = s.pointer, t.last = s.last, t.serial \in Positive,
           t.asked \in Requests, ~t.asked.open, t.asked.at = s.asked.at,
           t.tip \in Tips, Up(t), t.tip.at = s.asked.at, t.tip.var = v,
           NEW c \in Command,
           \/ /\ "revisualize" \in may /\ t.tip.rows = <<>> /\ t.queue = Append(s.queue, c)
              /\ c.op = "revisualize" /\ c.var = v /\ c.serial = t.tip.serial
           \/ /\ "revisualize" \notin may /\ Len(t.tip.rows) = 1 /\ t.tip.rows[1].var = v
              /\ \/ t.queue = Append(s.queue, c) /\ c.op = "unfold" /\ c.var = v /\ c.serial = t.tip.serial
                 \/ t.queue = s.queue /\ ~t.tip.rows[1].folded
    PROVE  Sound(t, objs, next)
<1>1. Nemiver(s) /\ UsedAreThere(s) /\ AsksForWord(s) /\ ShowsWord(s) /\ OneAsks(s) /\ ObjectsFollow(s, objs, next)
  BY DEF Sound
<1> DEFINE q == s.queue
           r == t.queue
           Grown == r = Append(q, c)
<1>2. q \in Seq(Command) /\ (r = q \/ Grown)
  BY <1>1 DEF Nemiver
<1>3. r = q => ~Grown
  <2>1. Len(Append(q, c)) = Len(q) + 1 /\ Len(q) \in Nat
    BY <1>2
  <2> HIDE DEF q, r
  <2> QED
    BY <2>1
<1>4. /\ \A i \in DOMAIN q : i \in DOMAIN r /\ r[i] = q[i]
      /\ \A i \in DOMAIN r : (i \in DOMAIN q /\ r[i] = q[i]) \/ (Grown /\ i = Len(q) + 1 /\ r[i] = c)
      /\ Grown => Len(q) + 1 \in DOMAIN r /\ r[Len(q) + 1] = c
  <2>1. CASE r = q
    <3> HIDE DEF q, r, Grown
    <3> QED
      BY <1>3, <2>1
  <2>2. CASE Grown
    BY <1>2, <2>2, Behind
  <2> QED
    BY <1>2, <2>1, <2>2
<1>5. r \in Seq(Command)
  <2>1. CASE r = q
    BY <1>2, <2>1
  <2>2. CASE Grown
    <3>1. Append(q, c) \in Seq(Command)
      BY <1>2
    <3> QED
      BY <2>2, <3>1
  <2> QED
    BY <1>2, <2>1, <2>2
<1>6. t.tip.rows \in Seq(Row) /\ DOMAIN t.tip.rows = 1..Len(t.tip.rows) /\ (Len(t.tip.rows) = 1 => \A i \in DOMAIN t.tip.rows : i = 1)
  <2>1. t.tip.rows \in Seq(Row)
    BY DEF Tips
  <2> QED
    BY <2>1
<1>7. Grown => c.op \in {"unfold", "revisualize"} /\ c.var = v
  BY <1>3
<1>8. s.asked.at \in WordPlaces /\ s.heap[v].name = Word[s.asked.at]
  BY <1>1 DEF AsksForWord
<1> HIDE DEF q, r, Grown
<1>9. Nemiver(t)
  BY <1>1, <1>5 DEF Nemiver, r
<1>10. UsedAreThere(t)
  <2>1. t.tip.at \in WordPlaces /\ t.tip.var \in DOMAIN t.heap
    BY <1>8
  <2>2. \A i \in DOMAIN t.tip.rows : t.tip.rows[i].var \in DOMAIN t.heap
    BY <1>6
  <2>3. \A i \in DOMAIN r : r[i].op \in {"unfold", "revisualize"} => r[i].var \in DOMAIN t.heap
    BY <1>1, <1>4, <1>7 DEF UsedAreThere, q
  <2> QED
    BY <2>1, <2>2, <2>3 DEF UsedAreThere, r
<1>11. AsksForWord(t)
  BY <1>1 DEF AsksForWord
<1>12. ShowsWord(t)
  <2>1. RowShown(t)
    <3>1. CASE t.queue = Append(s.queue, c) /\ c.op = "revisualize" /\ t.tip.rows = <<>>
      BY <1>4, <3>1 DEF RowShown, Revisualizing, Grown, q, r
    <3>2. CASE /\ Len(t.tip.rows) = 1 /\ t.tip.rows[1].var = v
               /\ t.queue = Append(s.queue, c) /\ c.op = "unfold" /\ c.serial = t.tip.serial
      BY <1>4, <3>2 DEF RowShown, Unfolding, Grown, q, r
    <3>3. CASE Len(t.tip.rows) = 1 /\ t.tip.rows[1].var = v /\ ~t.tip.rows[1].folded
      BY <3>3 DEF RowShown
    <3> QED
      BY <3>1, <3>2, <3>3
  <2>2. Revisualizing(t) => Revisualizing(s) \/ "revisualize" \in may
    <3>1. "revisualize" \notin may /\ Grown => c.op = "unfold"
      BY <1>3 DEF q, r, Grown
    <3> QED
      BY <1>4, <3>1 DEF Revisualizing, q, r
  <2> QED
    BY <1>1, <1>8, <2>1, <2>2 DEF ShowsWord
<1>13. OneAsks(t)
  <2> SUFFICES ASSUME Waits PROVE OneAsks(t)
    BY DEF OneAsks
  <2>1. \A i \in DOMAIN r : r[i].op # "delete" => Grown /\ i = Len(q) + 1 /\ r[i] = c
    BY <1>4 DEF q
  <2>2. \A i, j \in Asking(r) : i = j
    BY <2>1 DEF Asking
  <2>3. \A i \in DOMAIN r : r[i].op # "create"
    BY <1>7, <2>1
  <2>4. \A i \in DOMAIN r : r[i].op = "revisualize" =>
          Up(t) /\ t.tip.rows = <<>> /\ r[i].var = t.tip.var /\ r[i].serial = t.tip.serial
    <3>1. Grown /\ c.op = "revisualize" => t.tip.rows = <<>> /\ c.var = v /\ c.serial = t.tip.serial
      BY <1>3 DEF q, r, Grown
    <3> QED
      BY <2>1, <3>1
  <2> QED
    BY <2>2, <2>3, <2>4 DEF OneAsks, r
<1>14. ObjectsFollow(t, objs, next)
  <2>1. Owned(s.heap, q, objs, next) => Owned(t.heap, r, objs, next)
    BY <1>2, <1>7, OwnedBehind DEF Grown
  <2> QED
    BY <1>1, <2>1 DEF ObjectsFollow, q, r
<1> QED
  BY <1>9, <1>10, <1>11, <1>12, <1>13, <1>14 DEF Sound

(* What differs in t is the tip, and what else is said of t.               *)
Others(s, t) ==
    /\ Shape(t) /\ t.heap = s.heap /\ t.timer = s.timer /\ t.started = s.started
    /\ t.attached = s.attached /\ t.pointer = s.pointer /\ t.last = s.last

LEMMA GotTip ==
    ASSUME NEW s, Nemiver(s)
    PROVE  LET t == GetTip(s)
           IN  /\ Others(s, t) /\ t.queue = s.queue /\ t.asked = s.asked
               /\ t.serial \in Positive /\ t.tip \in Tips /\ t.tip.serial \in Positive
<1>1. Shape(s) /\ s.tip \in Tips /\ s.serial \in Positive
  BY DEF Nemiver
<1>2. CASE Up(s)
  <2>1. GetTip(s) = s
    BY <1>2 DEF GetTip
  <2>2. s.tip.serial \in Positive
    BY <1>1, <1>2 DEF Tips, Up, Positive, None
  <2> QED
    BY <1>1, <2>1, <2>2 DEF Others
<1>3. CASE ~Up(s)
  <2> DEFINE d == [Down EXCEPT !.serial = s.serial]
             t == GetTip(s)
  <2>1. d \in Tips /\ d.serial = s.serial
    <3>1. <<>> \in Seq(Row)
      OBVIOUS
    <3>2. Down \in Tips
      BY <3>1 DEF Down, Tips, None
    <3>3. s.serial \in Nat
      BY <1>1 DEF Positive
    <3> QED
      BY <3>2, <3>3 DEF Tips
  <2>2. s.serial + 1 \in Positive
    BY <1>1 DEF Positive
  <2>3. t = [s EXCEPT !.tip = d, !.serial = s.serial + 1]
    BY <1>3, Zenon DEF GetTip
  <2> HIDE DEF d, t
  <2>4. /\ Shape(t) /\ t.heap = s.heap /\ t.timer = s.timer /\ t.started = s.started
        /\ t.attached = s.attached /\ t.pointer = s.pointer /\ t.last = s.last
        /\ t.queue = s.queue /\ t.asked = s.asked /\ t.serial = s.serial + 1 /\ t.tip = d
    BY <1>1, <2>3, SMT DEF Shape
  <2> QED
    BY <1>1, <2>1, <2>2, <2>4 DEF Others, t
<1> QED
  BY <1>2, <1>3

(* A row for v, which is unfolded if it is folded.                         *)
LEMMA VariableShown ==
    ASSUME NEW s, Nemiver(s), NEW v \in DOMAIN s.heap, s.tip.serial \in Positive,
           NEW t, t = ShowVariable(s, v), NEW c, c = [op |-> "unfold", var |-> v, serial |-> s.tip.serial]
    PROVE  /\ Others(s, t) /\ t.asked = s.asked /\ t.serial = s.serial
           /\ t.tip \in Tips /\ t.tip.serial = s.tip.serial /\ t.tip.at = s.tip.at /\ t.tip.var = v
           /\ \E row \in Row :
                /\ t.tip.rows = Append(s.tip.rows, row) /\ row.var = v /\ row.folded = s.heap[v].folded
                /\ row.folded => t.queue = Append(s.queue, c)
                /\ ~row.folded => t.queue = s.queue
<1> DEFINE row == [var |-> v, under |-> Len(s.tip.rows) > 0, folded |-> s.heap[v].folded]
           rows == Append(s.tip.rows, row)
           p == [s.tip EXCEPT !.rows = rows]
           r == [p EXCEPT !.var = v]
           u == [s EXCEPT !.tip.rows = rows, !.tip.var = v]
<1>1. /\ Shape(s) /\ s.tip \in Tips /\ v \in Positive /\ s.heap[v].folded \in BOOLEAN
      /\ s.tip.rows \in Seq(Row)
  BY DEF Nemiver, Heap, Tips
<1>2. row \in Row /\ row.var = v /\ row.folded = s.heap[v].folded
  BY <1>1 DEF Row
<1> HIDE DEF row
<1>3. rows \in Seq(Row) /\ v \in Nat
  BY <1>1, <1>2 DEF Positive
<1> HIDE DEF rows
<1>4. p \in Tips /\ p.serial = s.tip.serial /\ p.at = s.tip.at /\ p.rows = rows
  BY <1>1, <1>3 DEF Tips
<1> HIDE DEF p
<1>5. r \in Tips /\ r.serial = s.tip.serial /\ r.at = s.tip.at /\ r.rows = rows /\ r.var = v
  BY <1>3, <1>4 DEF Tips
<1> HIDE DEF r
<1>6. /\ Shape(u) /\ u.heap = s.heap /\ u.timer = s.timer /\ u.started = s.started
      /\ u.attached = s.attached /\ u.pointer = s.pointer /\ u.last = s.last
      /\ u.queue = s.queue /\ u.asked = s.asked /\ u.serial = s.serial /\ u.tip = r
  BY <1>1, SMT DEF Shape, p, r
<1>7. t = IF row.folded THEN Queue(u, [op |-> "unfold", var |-> v, serial |-> s.tip.serial]) ELSE u
  BY Zenon DEF ShowVariable, row, rows
<1> HIDE DEF u
<1>8. CASE row.folded
  <2>1. t = Queue(u, c)
    BY <1>7, <1>8
  <2>2. /\ Others(s, t) /\ t.asked = s.asked /\ t.serial = s.serial /\ t.tip = r
        /\ t.queue = Append(s.queue, c)
    BY <1>6, <2>1, QueueFields DEF Others
  <2> QED
    BY <1>2, <1>5, <1>8, <2>2, Zenon DEF rows
<1>9. CASE ~row.folded
  <2>1. /\ Others(s, t) /\ t.asked = s.asked /\ t.serial = s.serial /\ t.tip = r
        /\ t.queue = s.queue
    BY <1>6, <1>7, <1>9 DEF Others
  <2> QED
    BY <1>2, <1>5, <1>9, <2>1, Zenon DEF rows
<1> QED
  BY <1>8, <1>9

LEMMA OnCreatedSound ==
    ASSUME NEW s, NEW objs, NEW next, Sound(s, objs, next), NEW v \in DOMAIN s.heap,
           Waits => s.asked.at = s.pointer /\ \A i \in DOMAIN s.queue : s.queue[i].op = "delete"
    PROVE  Sound(OnCreated(s, v), objs, next) /\ OnCreated(s, v).attached = s.attached
<1>1. Nemiver(s) /\ AsksForWord(s)
  BY DEF Sound
<1>2. Shape(s) /\ s.queue \in Seq(Command) /\ v \in Positive /\ s.asked \in Requests
  BY <1>1 DEF Nemiver, Heap
<1>3. CASE ~(s.asked.open /\ s.asked.name = s.heap[v].name)
  <2>1. OnCreated(s, v) = s
    BY <1>3, Zenon DEF OnCreated
  <2> QED
    BY <2>1
<1>4. CASE s.asked.open /\ s.asked.name = s.heap[v].name
  <2> DEFINE x == s.asked.at
             a == [open |-> FALSE, name |-> "", at |-> x]
             g == GetTip(s)
             m == [g EXCEPT !.tip.at = x]
             e == [m EXCEPT !.tip.rows = <<>>, !.tip.var = v]
             w == PopUp(s, v)
             u == OnCreated(s, v)
  <2>1. x \in 0..5
    BY <1>2 DEF Requests
  <2>2. a \in Requests /\ ~a.open /\ a.at = x
    <3>1. \A p \in 0..5 : [open |-> FALSE, name |-> "", at |-> p].at = p
      BY Zenon
    <3> QED
      BY <2>1, <3>1, Closed, Zenon
  <2>3. /\ Others(s, g) /\ g.queue = s.queue /\ g.asked = s.asked
        /\ g.serial \in Positive /\ g.tip \in Tips /\ g.tip.serial \in Positive
    BY <1>1, GotTip
  <2> HIDE DEF x, g
  <2>4. Shape(g)
    BY <2>3 DEF Others
  <2>5. /\ Others(g, e) /\ e.queue = g.queue /\ e.asked = g.asked /\ e.serial = g.serial
        /\ m.tip.serial = g.tip.serial
        /\ e.tip \in Tips /\ e.tip.serial = g.tip.serial /\ e.tip.at = x /\ e.tip.var = v
        /\ e.tip.rows = <<>>
    <3> DEFINE p == [g.tip EXCEPT !.at = x]
               q == [p EXCEPT !.rows = <<>>]
               r == [q EXCEPT !.var = v]
    <3>1. <<>> \in Seq(Row) /\ v \in Nat
      BY <1>2 DEF Positive
    <3>2. p \in Tips /\ p.serial = g.tip.serial /\ p.at = x
      BY <2>1, <2>3 DEF Tips
    <3> HIDE DEF p
    <3>3. q \in Tips /\ q.serial = g.tip.serial /\ q.at = x /\ q.rows = <<>>
      BY <3>1, <3>2 DEF Tips
    <3> HIDE DEF q
    <3>4. r \in Tips /\ r.serial = g.tip.serial /\ r.at = x /\ r.rows = <<>> /\ r.var = v
      BY <3>1, <3>3 DEF Tips
    <3> HIDE DEF r
    <3>5. /\ Shape(m) /\ m.heap = g.heap /\ m.timer = g.timer /\ m.started = g.started
          /\ m.attached = g.attached /\ m.pointer = g.pointer /\ m.last = g.last
          /\ m.queue = g.queue /\ m.asked = g.asked /\ m.serial = g.serial /\ m.tip = p
      BY <2>4, SMT DEF Shape, p
    <3> HIDE DEF m
    <3>6. /\ Shape(e) /\ e.heap = m.heap /\ e.timer = m.timer /\ e.started = m.started
          /\ e.attached = m.attached /\ e.pointer = m.pointer /\ e.last = m.last
          /\ e.queue = m.queue /\ e.asked = m.asked /\ e.serial = m.serial /\ e.tip = r
      BY <3>5, SMT DEF Shape, q, r
    <3> HIDE DEF e
    <3> QED
      BY <3>2, <3>4, <3>5, <3>6, Zenon DEF Others
  <2>6. w = IF "revisualize" \in may
            THEN Queue(e, [op |-> "revisualize", left |-> 2, var |-> v, serial |-> e.tip.serial])
            ELSE ShowVariable(e, v)
    <3>1. w = SetExpression(m, v)
      BY Zenon DEF PopUp, g, x
    <3>2. e.tip.serial = m.tip.serial
      BY <2>5
    <3> HIDE DEF w, m
    <3>3. w = IF "revisualize" \in may
              THEN Queue(e, [op |-> "revisualize", left |-> 2, var |-> v, serial |-> m.tip.serial])
              ELSE ShowVariable(e, v)
      BY <3>1, Zenon DEF SetExpression
    <3> HIDE DEF e
    <3> QED
      BY <3>2, <3>3, Zenon
  <2>7. u = [w EXCEPT !.asked = [open |-> FALSE, name |-> "", at |-> w.asked.at]]
    BY <1>4, Zenon DEF OnCreated
  <2> HIDE DEF a, e, w, u
  <2>8. /\ Shape(e) /\ e.heap = s.heap /\ e.timer = s.timer /\ e.started = s.started
        /\ e.attached = s.attached /\ e.pointer = s.pointer /\ e.last = s.last
        /\ e.queue = s.queue /\ e.asked = s.asked /\ e.serial \in Positive
        /\ e.tip \in Tips /\ e.tip.serial \in Positive /\ e.tip.at = x /\ e.tip.var = v
        /\ e.tip.rows = <<>>
    BY <2>3, <2>5 DEF Others
  <2>9. PICK c \in Command :
           /\ Others(s, w) /\ w.asked = s.asked /\ w.serial \in Positive
           /\ w.tip \in Tips /\ w.tip.serial \in Positive /\ w.tip.at = x /\ w.tip.var = v
           /\ \/ /\ "revisualize" \in may /\ w.tip.rows = <<>> /\ w.queue = Append(s.queue, c)
                 /\ c.op = "revisualize" /\ c.var = v /\ c.serial = w.tip.serial
              \/ /\ "revisualize" \notin may /\ Len(w.tip.rows) = 1 /\ w.tip.rows[1].var = v
                 /\ \/ w.queue = Append(s.queue, c) /\ c.op = "unfold" /\ c.var = v /\ c.serial = w.tip.serial
                    \/ w.queue = s.queue /\ ~w.tip.rows[1].folded
    <3>1. CASE "revisualize" \in may
      <4> DEFINE c == [op |-> "revisualize", left |-> 2, var |-> v, serial |-> e.tip.serial]
      <4>1. c \in Command /\ c.op = "revisualize" /\ c.var = v /\ c.serial = e.tip.serial
        BY <1>2, <2>8 DEF Command
      <4>2. w = Queue(e, c)
        BY <2>6, <3>1, Zenon
      <4> HIDE DEF c
      <4>3. Others(s, w) /\ w.asked = s.asked /\ w.serial = e.serial /\ w.tip = e.tip /\ w.queue = Append(s.queue, c)
        BY <2>8, <4>2, QueueFields DEF Others
      <4> QED
        BY <2>8, <3>1, <4>1, <4>3
    <3>2. CASE "revisualize" \notin may
      <4> DEFINE c == [op |-> "unfold", var |-> v, serial |-> e.tip.serial]
      <4>1. c \in Command /\ c.op = "unfold" /\ c.var = v /\ c.serial = e.tip.serial
        BY <1>2, <2>8 DEF Command
      <4>2. w = ShowVariable(e, v)
        BY <2>6, <3>2, Zenon
      <4>3. Nemiver(e) /\ v \in DOMAIN e.heap
        BY <1>1, <2>8 DEF Nemiver
      <4>4. /\ Others(e, w) /\ w.asked = e.asked /\ w.serial = e.serial
            /\ w.tip \in Tips /\ w.tip.serial = e.tip.serial /\ w.tip.at = e.tip.at /\ w.tip.var = v
            /\ \E row \in Row :
                 /\ w.tip.rows = Append(e.tip.rows, row) /\ row.var = v /\ row.folded = e.heap[v].folded
                 /\ row.folded => w.queue = Append(e.queue, c)
                 /\ ~row.folded => w.queue = e.queue
        <5>1. c = [op |-> "unfold", var |-> v, serial |-> e.tip.serial] /\ e.tip.serial \in Positive
          BY <2>8
        <5> HIDE DEF c
        <5> QED
          BY <4>2, <4>3, <5>1, VariableShown
      <4> HIDE DEF c
      <4>5. PICK row \in Row :
                 /\ w.tip.rows = Append(e.tip.rows, row) /\ row.var = v
                 /\ row.folded => w.queue = Append(e.queue, c)
                 /\ ~row.folded => w.queue = e.queue
        BY <4>4
      <4>6. w.tip.rows = <<row>>
        BY <2>8, <4>5
      <4>7. Len(w.tip.rows) = 1 /\ w.tip.rows[1] = row
        BY <4>6
      <4>8. Others(s, w)
        BY <2>8, <4>4 DEF Others
      <4> QED
        BY <2>8, <3>2, <4>1, <4>4, <4>5, <4>7, <4>8
    <3> QED
      BY <3>1, <3>2
  <2>10. u = [w EXCEPT !.asked = a]
    BY <2>7, <2>9, Zenon DEF a, x
  <2>11. /\ Shape(u) /\ u.heap = s.heap /\ u.timer = s.timer /\ u.started = s.started
         /\ u.attached = s.attached /\ u.pointer = s.pointer /\ u.last = s.last
         /\ u.queue = w.queue /\ u.asked = a /\ u.serial = w.serial /\ u.tip = w.tip
    <3>1. Shape(w)
      BY <2>9 DEF Others
    <3>2. /\ Shape(u) /\ u.heap = w.heap /\ u.timer = w.timer /\ u.started = w.started
          /\ u.attached = w.attached /\ u.pointer = w.pointer /\ u.last = w.last
          /\ u.queue = w.queue /\ u.asked = a /\ u.serial = w.serial /\ u.tip = w.tip
      BY <2>10, <3>1, SMT DEF Shape
    <3> QED
      BY <2>9, <3>2 DEF Others
  <2>12. Up(u)
    BY <2>9, <2>11 DEF Up, Positive, None
  <2>13. Sound(u, objs, next)
    BY <1>4, <2>2, <2>9, <2>11, <2>12, PoppedSound DEF x
  <2> QED
    BY <2>11, <2>13 DEF u
<1> QED
  BY <1>3, <1>4

-----------------------------------------------------------------------------
(* A variable is unfolded, or revisualized.                                *)

(* A Variable changes, but for its name and its object.                    *)
LEMMA HeapUnfolded ==
    ASSUME NEW h, Heap(h), NEW v \in DOMAIN h
    PROVE  LET k == [h EXCEPT ![v].folded = FALSE]
           IN  /\ Heap(k) /\ DOMAIN k = DOMAIN h /\ ~k[v].folded
               /\ \A w \in DOMAIN h : k[w].obj = h[w].obj /\ k[w].name = h[w].name
<1> DEFINE k == [h EXCEPT ![v].folded = FALSE]
           V == [name : Names, obj : Positive, value : Nat, folded : BOOLEAN]
<1>1. \A w \in DOMAIN h : h[w] \in V
  BY DEF Heap
<1>2. DOMAIN k = DOMAIN h
  OBVIOUS
<1>3. \A w \in DOMAIN h : k[w] \in V /\ k[w].obj = h[w].obj /\ k[w].name = h[w].name
  BY <1>1
<1>4. ~k[v].folded
  BY <1>1
<1> HIDE DEF k, V
<1>5. Heap(k)
  BY <1>2, <1>3 DEF Heap, V
<1>6. /\ Heap(k) /\ DOMAIN k = DOMAIN h /\ ~k[v].folded
      /\ \A w \in DOMAIN h : k[w].obj = h[w].obj /\ k[w].name = h[w].name
  BY <1>2, <1>3, <1>4, <1>5
<1> QED
  BY <1>6, Zenon DEF k

LEMMA HeapRead ==
    ASSUME NEW h, Heap(h), NEW v \in DOMAIN h, NEW x \in Nat
    PROVE  LET k == [h EXCEPT ![v].value = x]
           IN  /\ Heap(k) /\ DOMAIN k = DOMAIN h
               /\ \A w \in DOMAIN h : k[w].obj = h[w].obj /\ k[w].name = h[w].name
<1> DEFINE k == [h EXCEPT ![v].value = x]
           V == [name : Names, obj : Positive, value : Nat, folded : BOOLEAN]
<1>1. \A w \in DOMAIN h : h[w] \in V
  BY DEF Heap
<1>2. DOMAIN k = DOMAIN h
  OBVIOUS
<1>3. \A w \in DOMAIN h : k[w] \in V /\ k[w].obj = h[w].obj /\ k[w].name = h[w].name
  BY <1>1
<1> HIDE DEF k, V
<1>4. Heap(k)
  BY <1>2, <1>3 DEF Heap, V
<1>5. /\ Heap(k) /\ DOMAIN k = DOMAIN h
      /\ \A w \in DOMAIN h : k[w].obj = h[w].obj /\ k[w].name = h[w].name
  BY <1>2, <1>3, <1>4
<1> QED
  BY <1>5, Zenon DEF k

LEMMA SameObjects ==
    ASSUME NEW h, NEW k, NEW q, NEW objs, NEW next, Owned(h, q, objs, next),
           DOMAIN k = DOMAIN h, \A w \in DOMAIN h : k[w].obj = h[w].obj
    PROVE  Owned(k, q, objs, next)
BY DEF Owned

LEMMA RowsUnfolded ==
    ASSUME NEW rows \in Seq(Row)
    PROVE  LET r == [rows EXCEPT ![1].folded = FALSE]
           IN  /\ r \in Seq(Row) /\ Len(r) = Len(rows) /\ DOMAIN r = DOMAIN rows
               /\ \A i \in DOMAIN rows : r[i].var = rows[i].var
               /\ Len(rows) = 1 => ~r[1].folded
               /\ rows = <<>> => r = <<>>
<1> DEFINE r == [rows EXCEPT ![1].folded = FALSE]
<1>1. DOMAIN r = DOMAIN rows /\ DOMAIN rows = 1..Len(rows) /\ Len(rows) \in Nat
  OBVIOUS
<1>2. \A i \in DOMAIN rows : rows[i] \in Row
  OBVIOUS
<1>3. \A i \in DOMAIN rows : r[i] \in Row /\ r[i].var = rows[i].var
  BY <1>2 DEF Row
<1>4. Len(rows) = 1 => ~r[1].folded
  BY <1>1, <1>2 DEF Row
<1>5. r = [i \in 1..Len(rows) |-> r[i]]
  BY <1>1
<1> HIDE DEF r
<1>6. r \in Seq(Row) /\ Len(r) = Len(rows)
  BY <1>1, <1>3, <1>5
<1>7. rows = <<>> => r = <<>>
  BY <1>6
<1>8. /\ r \in Seq(Row) /\ Len(r) = Len(rows) /\ DOMAIN r = DOMAIN rows
      /\ \A i \in DOMAIN rows : r[i].var = rows[i].var
      /\ Len(rows) = 1 => ~r[1].folded
      /\ rows = <<>> => r = <<>>
  BY <1>1, <1>3, <1>4, <1>6, <1>7
<1> QED
  BY <1>8, Zenon DEF r

LEMMA OnUnfoldedSound ==
    ASSUME NEW s, NEW c, NEW objs, NEW next,
           Nemiver(s), UsedAreThere(s), AsksForWord(s), OneAsks(s), ObjectsFollow(s, objs, next),
           c.var \in DOMAIN s.heap,
           ~({"revisualize", "haste"} \subseteq may) =>
             /\ Up(s) => /\ s.heap[s.tip.var].name = Word[s.tip.at]
                         /\ \/ /\ Len(s.tip.rows) = 1 /\ s.tip.rows[1].var = s.tip.var
                               /\ s.tip.rows[1].folded => Unfolding(s) \/ c.serial = s.tip.serial
                            \/ s.tip.rows = <<>> /\ Revisualizing(s)
             /\ Revisualizing(s) => "revisualize" \in may
    PROVE  Sound(OnUnfolded(s, c), objs, next) /\ OnUnfolded(s, c).attached = s.attached
<1> DEFINE v == c.var
           k == [s.heap EXCEPT ![v].folded = FALSE]
           t == [s EXCEPT !.heap[c.var].folded = FALSE]
           r == [s.tip.rows EXCEPT ![1].folded = FALSE]
           p == [s.tip EXCEPT !.rows = r]
           u == OnUnfolded(s, c)
<1>1. Shape(s) /\ Heap(s.heap) /\ s.tip \in Tips /\ s.tip.rows \in Seq(Row)
  BY DEF Nemiver, Tips
<1>2. /\ Heap(k) /\ DOMAIN k = DOMAIN s.heap
      /\ \A w \in DOMAIN s.heap : k[w].obj = s.heap[w].obj /\ k[w].name = s.heap[w].name
  <2> HIDE DEF v
  <2>1. v \in DOMAIN s.heap
    BY DEF v
  <2> QED
    BY <1>1, <2>1, HeapUnfolded
<1>3. /\ r \in Seq(Row) /\ Len(r) = Len(s.tip.rows) /\ DOMAIN r = DOMAIN s.tip.rows
      /\ \A i \in DOMAIN s.tip.rows : r[i].var = s.tip.rows[i].var
      /\ Len(s.tip.rows) = 1 => ~r[1].folded
      /\ s.tip.rows = <<>> => r = <<>>
  BY <1>1, RowsUnfolded
<1> HIDE DEF r
<1>4. p \in Tips /\ p.serial = s.tip.serial /\ p.at = s.tip.at /\ p.var = s.tip.var /\ p.rows = r
  BY <1>1, <1>3 DEF Tips
<1>5. /\ Shape(t) /\ t.queue = s.queue /\ t.heap = k /\ t.timer = s.timer /\ t.started = s.started
      /\ t.attached = s.attached /\ t.pointer = s.pointer /\ t.last = s.last /\ t.asked = s.asked
      /\ t.tip = s.tip /\ t.serial = s.serial
  <2> HIDE DEF v
  <2>1. t = [s EXCEPT !.heap[v].folded = FALSE]
    BY DEF v
  <2> HIDE DEF t
  <2> QED
    BY <1>1, <2>1, SMT DEF Shape
<1> HIDE DEF p, k
<1>6. u = IF Mine(t, c) THEN [t EXCEPT !.tip.rows[1].folded = FALSE] ELSE t
  BY Zenon DEF OnUnfolded
<1> HIDE DEF t, u
<1>7. /\ Shape(u) /\ u.queue = s.queue /\ u.heap = k /\ u.timer = s.timer /\ u.started = s.started
      /\ u.attached = s.attached /\ u.pointer = s.pointer /\ u.last = s.last /\ u.asked = s.asked
      /\ u.tip = (IF Mine(t, c) THEN p ELSE s.tip) /\ u.serial = s.serial
  <2>1. CASE Mine(t, c)
    <3>1. u = [t EXCEPT !.tip.rows[1].folded = FALSE]
      BY <1>6, <2>1
    <3>2. /\ Shape(u) /\ u.queue = t.queue /\ u.heap = t.heap /\ u.timer = t.timer /\ u.started = t.started
          /\ u.attached = t.attached /\ u.pointer = t.pointer /\ u.last = t.last /\ u.asked = t.asked
          /\ u.tip = [t.tip EXCEPT !.rows[1].folded = FALSE] /\ u.serial = t.serial
      BY <1>5, <3>1, SMT DEF Shape
    <3>3. [t.tip EXCEPT !.rows[1].folded = FALSE] = p
      BY <1>5 DEF p, r
    <3> QED
      BY <1>5, <2>1, <3>2, <3>3
  <2>2. CASE ~Mine(t, c)
    BY <1>5, <1>6, <2>2
  <2> QED
    BY <2>1, <2>2
<1>8. Mine(t, c) <=> Up(s) /\ c.serial = s.tip.serial
  BY <1>5 DEF Mine, Up
<1>9. /\ u.tip \in Tips /\ u.tip.serial = s.tip.serial /\ u.tip.at = s.tip.at /\ u.tip.var = s.tip.var
      /\ DOMAIN u.tip.rows = DOMAIN s.tip.rows /\ Len(u.tip.rows) = Len(s.tip.rows)
      /\ \A i \in DOMAIN s.tip.rows : u.tip.rows[i].var = s.tip.rows[i].var
      /\ s.tip.rows = <<>> => u.tip.rows = <<>>
      /\ Up(s) /\ c.serial = s.tip.serial /\ Len(s.tip.rows) = 1 => ~u.tip.rows[1].folded
      /\ ~(Up(s) /\ c.serial = s.tip.serial) => u.tip = s.tip
  BY <1>1, <1>3, <1>4, <1>7, <1>8
<1>10. Up(u) = Up(s)
  BY <1>9 DEF Up
<1>11. Nemiver(u)
  BY <1>2, <1>7, <1>9 DEF Nemiver
<1>12. UsedAreThere(u)
  BY <1>2, <1>7, <1>9, <1>10 DEF UsedAreThere
<1>13. AsksForWord(u)
  BY <1>7 DEF AsksForWord
<1>14. ShowsWord(u)
  <2>1. Unfolding(u) <=> Unfolding(s)
    BY <1>7, <1>9 DEF Unfolding
  <2>2. Revisualizing(u) <=> Revisualizing(s)
    BY <1>7 DEF Revisualizing
  <2>3. Up(s) => u.heap[u.tip.var].name = s.heap[s.tip.var].name
    BY <1>2, <1>7, <1>9 DEF UsedAreThere
  <2>4. Len(s.tip.rows) = 1 => 1 \in DOMAIN s.tip.rows
    BY <1>1
  <2> SUFFICES ASSUME ~({"revisualize", "haste"} \subseteq may)
               PROVE  (Up(u) => u.heap[u.tip.var].name = Word[u.tip.at] /\ RowShown(u))
                      /\ (Revisualizing(u) => "revisualize" \in may)
    BY DEF ShowsWord
  <2>5. ASSUME Up(s) PROVE RowShown(u)
    <3>1. CASE /\ Len(s.tip.rows) = 1 /\ s.tip.rows[1].var = s.tip.var
               /\ s.tip.rows[1].folded => Unfolding(s) \/ c.serial = s.tip.serial
      BY <1>9, <2>1, <2>4, <2>5, <3>1 DEF RowShown
    <3>2. CASE s.tip.rows = <<>> /\ Revisualizing(s)
      BY <1>9, <2>2, <3>2 DEF RowShown
    <3> QED
      BY <2>5, <3>1, <3>2
  <2> QED
    BY <1>9, <1>10, <2>2, <2>3, <2>5
<1>15. OneAsks(u)
  BY <1>7, <1>9, <1>10 DEF OneAsks
<1>16. ObjectsFollow(u, objs, next)
  BY <1>2, <1>7, SameObjects DEF ObjectsFollow
<1> QED
  BY <1>7, <1>11, <1>12, <1>13, <1>14, <1>15, <1>16 DEF Sound, u

(* Nothing that is said of a Nemiver is about the values and the folds.    *)
LEMMA HeapOnly ==
    ASSUME NEW s, NEW t, NEW objs, NEW next, Shape(t), Heap(t.heap), DOMAIN t.heap = DOMAIN s.heap,
           \A w \in DOMAIN s.heap : t.heap[w].obj = s.heap[w].obj /\ t.heap[w].name = s.heap[w].name,
           t.queue = s.queue, t.timer = s.timer, t.started = s.started, t.attached = s.attached,
           t.pointer = s.pointer, t.last = s.last, t.asked = s.asked, t.tip = s.tip, t.serial = s.serial,
           Nemiver(s), UsedAreThere(s), AsksForWord(s), OneAsks(s), ObjectsFollow(s, objs, next)
    PROVE  /\ Nemiver(t) /\ UsedAreThere(t) /\ AsksForWord(t) /\ OneAsks(t) /\ ObjectsFollow(t, objs, next)
           /\ Up(t) = Up(s) /\ (Up(s) => t.heap[t.tip.var].name = s.heap[s.tip.var].name)
           /\ Revisualizing(t) <=> Revisualizing(s)
<1>1. Up(t) = Up(s)
  BY DEF Up
<1>2. Nemiver(t)
  BY DEF Nemiver
<1>3. UsedAreThere(t) /\ (Up(s) => t.heap[t.tip.var].name = s.heap[s.tip.var].name)
  BY <1>1 DEF UsedAreThere
<1>4. AsksForWord(t)
  BY DEF AsksForWord
<1>5. OneAsks(t)
  BY <1>1 DEF OneAsks
<1>6. ObjectsFollow(t, objs, next)
  BY SameObjects DEF ObjectsFollow
<1>7. Revisualizing(t) <=> Revisualizing(s)
  BY DEF Revisualizing
<1> QED
  BY <1>1, <1>2, <1>3, <1>4, <1>5, <1>6, <1>7

(* What is left of a Nemiver whose first command c has been taken.         *)
Revisualized(s, c, objs, next) ==
    /\ Nemiver(s) /\ UsedAreThere(s) /\ AsksForWord(s) /\ OneAsks(s) /\ ObjectsFollow(s, objs, next)
    /\ c.var \in DOMAIN s.heap
    /\ Waits => /\ Up(s) /\ s.tip.rows = <<>> /\ c.var = s.tip.var /\ c.serial = s.tip.serial
                /\ \A i \in DOMAIN s.queue : s.queue[i].op = "delete"
    /\ ~({"revisualize", "haste"} \subseteq may) =>
         "revisualize" \in may /\ (Up(s) => s.heap[s.tip.var].name = Word[s.tip.at])

LEMMA ReadKeeps ==
    ASSUME NEW s, NEW c, NEW objs, NEW next, Revisualized(s, c, objs, next), NEW x \in Nat
    PROVE  LET t == [s EXCEPT !.heap[c.var].value = x]
           IN  Revisualized(t, c, objs, next) /\ t.attached = s.attached
<1> DEFINE v == c.var
           k == [s.heap EXCEPT ![v].value = x]
           t == [s EXCEPT !.heap[c.var].value = x]
<1>1. /\ Nemiver(s) /\ UsedAreThere(s) /\ AsksForWord(s) /\ OneAsks(s) /\ ObjectsFollow(s, objs, next)
      /\ Shape(s) /\ Heap(s.heap) /\ v \in DOMAIN s.heap
  BY DEF Revisualized, Nemiver
<1>2. /\ Heap(k) /\ DOMAIN k = DOMAIN s.heap
      /\ \A w \in DOMAIN s.heap : k[w].obj = s.heap[w].obj /\ k[w].name = s.heap[w].name
  <2> HIDE DEF v
  <2> QED
    BY <1>1, HeapRead
<1>3. /\ Shape(t) /\ t.queue = s.queue /\ t.heap = k /\ t.timer = s.timer /\ t.started = s.started
      /\ t.attached = s.attached /\ t.pointer = s.pointer /\ t.last = s.last /\ t.asked = s.asked
      /\ t.tip = s.tip /\ t.serial = s.serial
  <2>1. t = [s EXCEPT !.heap[v].value = x]
    OBVIOUS
  <2> HIDE DEF v, t
  <2> QED
    BY <1>1, <2>1, SMT DEF Shape
<1> HIDE DEF k, t
<1>4. /\ Nemiver(t) /\ UsedAreThere(t) /\ AsksForWord(t) /\ OneAsks(t) /\ ObjectsFollow(t, objs, next)
      /\ Up(t) = Up(s) /\ (Up(s) => t.heap[t.tip.var].name = s.heap[s.tip.var].name)
  BY <1>1, <1>2, <1>3, HeapOnly
<1>5. Revisualized(t, c, objs, next)
  BY <1>2, <1>3, <1>4 DEF Revisualized
<1> QED
  BY <1>3, <1>5 DEF t

LEMMA RequeuedSound ==
    ASSUME NEW s, NEW c, NEW objs, NEW next, Revisualized(s, c, objs, next),
           NEW d \in Command, d.op = "revisualize", d.var = c.var, d.serial = c.serial
    PROVE  Sound(Queue(s, d), objs, next) /\ Queue(s, d).attached = s.attached
<1> DEFINE t == Queue(s, d)
           q == s.queue
           r == t.queue
<1>1. /\ Nemiver(s) /\ UsedAreThere(s) /\ AsksForWord(s) /\ OneAsks(s) /\ ObjectsFollow(s, objs, next)
      /\ Shape(s) /\ q \in Seq(Command)
  BY DEF Revisualized, Nemiver
<1>2. /\ Shape(t) /\ r = Append(q, d) /\ t.heap = s.heap /\ t.timer = s.timer /\ t.started = s.started
      /\ t.attached = s.attached /\ t.pointer = s.pointer /\ t.last = s.last
      /\ t.asked = s.asked /\ t.tip = s.tip /\ t.serial = s.serial
  BY <1>1, QueueFields
<1> HIDE DEF q, r, t
<1>3. r \in Seq(Command)
  BY <1>1, <1>2, Appended
<1>4. /\ \A i \in DOMAIN q : i \in DOMAIN r /\ r[i] = q[i]
      /\ \A i \in DOMAIN r : (i \in DOMAIN q /\ r[i] = q[i]) \/ (i = Len(q) + 1 /\ r[i] = d)
      /\ Len(q) + 1 \in DOMAIN r /\ r[Len(q) + 1] = d
  BY <1>1, <1>2, Behind
<1>5. Up(t) = Up(s)
  BY <1>2 DEF Up
<1>6. Nemiver(t)
  BY <1>1, <1>2, <1>3 DEF Nemiver, r
<1>7. UsedAreThere(t)
  BY <1>1, <1>2, <1>4, <1>5 DEF UsedAreThere, Revisualized, q, r
<1>8. AsksForWord(t)
  BY <1>1, <1>2 DEF AsksForWord
<1>9. ShowsWord(t)
  <2> SUFFICES ASSUME ~({"revisualize", "haste"} \subseteq may) PROVE ShowsWord(t)
    BY DEF ShowsWord
  <2>1. "revisualize" \in may /\ Waits /\ (Up(s) => s.heap[s.tip.var].name = Word[s.tip.at])
    BY DEF Revisualized, Waits
  <2>2. s.tip.rows = <<>>
    BY <2>1 DEF Revisualized
  <2>3. Revisualizing(t)
    BY <1>4 DEF Revisualizing, r
  <2> QED
    BY <1>2, <1>5, <2>1, <2>2, <2>3 DEF ShowsWord, RowShown
<1>10. OneAsks(t)
  <2> SUFFICES ASSUME Waits PROVE OneAsks(t)
    BY DEF OneAsks
  <2>1. \A i \in DOMAIN r : r[i].op # "delete" => i = Len(q) + 1 /\ r[i] = d
    BY <1>4 DEF Revisualized, q
  <2>2. \A i, j \in Asking(r) : i = j
    BY <2>1 DEF Asking
  <2>3. Up(t) => t.pointer = t.tip.at
    BY <1>1, <1>2, <1>5 DEF OneAsks
  <2> QED
    BY <1>2, <1>5, <2>1, <2>2, <2>3 DEF OneAsks, Revisualized, r
<1>11. ObjectsFollow(t, objs, next)
  BY <1>1, <1>2, OwnedBehind DEF ObjectsFollow, q, r
<1> QED
  BY <1>2, <1>6, <1>7, <1>8, <1>9, <1>10, <1>11 DEF Sound, t

LEMMA OnRevisualizedSound ==
    ASSUME NEW s, NEW c, NEW objs, NEW next, Revisualized(s, c, objs, next)
    PROVE  Sound(OnRevisualized(s, c), objs, next) /\ OnRevisualized(s, c).attached = s.attached
<1> DEFINE v == c.var
           k == [s.heap EXCEPT ![v].folded = FALSE]
           t == [s EXCEPT !.heap[c.var].folded = FALSE]
           u == OnRevisualized(s, c)
<1>1. /\ Nemiver(s) /\ UsedAreThere(s) /\ AsksForWord(s) /\ OneAsks(s) /\ ObjectsFollow(s, objs, next)
      /\ Shape(s) /\ Heap(s.heap) /\ v \in DOMAIN s.heap
  BY DEF Revisualized, Nemiver
<1>2. /\ Heap(k) /\ DOMAIN k = DOMAIN s.heap /\ ~k[v].folded
      /\ \A w \in DOMAIN s.heap : k[w].obj = s.heap[w].obj /\ k[w].name = s.heap[w].name
  <2> HIDE DEF v
  <2> QED
    BY <1>1, HeapUnfolded
<1>3. /\ Shape(t) /\ t.queue = s.queue /\ t.heap = k /\ t.timer = s.timer /\ t.started = s.started
      /\ t.attached = s.attached /\ t.pointer = s.pointer /\ t.last = s.last /\ t.asked = s.asked
      /\ t.tip = s.tip /\ t.serial = s.serial
  <2>1. t = [s EXCEPT !.heap[v].folded = FALSE]
    OBVIOUS
  <2> HIDE DEF v, t
  <2> QED
    BY <1>1, <2>1, SMT DEF Shape
<1>4. u = IF Mine(t, c) THEN ShowVariable(t, v) ELSE t
  BY Zenon DEF OnRevisualized
<1> HIDE DEF k, t, u
<1>5. /\ Nemiver(t) /\ UsedAreThere(t) /\ AsksForWord(t) /\ OneAsks(t) /\ ObjectsFollow(t, objs, next)
      /\ Up(t) = Up(s) /\ (Up(s) => t.heap[t.tip.var].name = s.heap[s.tip.var].name)
  BY <1>1, <1>2, <1>3, HeapOnly
<1>6. ~({"revisualize", "haste"} \subseteq may) =>
        /\ "revisualize" \in may /\ Mine(t, c) /\ s.tip.rows = <<>> /\ v = s.tip.var
        /\ s.heap[s.tip.var].name = Word[s.tip.at]
  BY <1>3, <1>5 DEF Revisualized, Waits, Mine
<1>7. Waits => /\ Mine(t, c) /\ s.pointer = s.tip.at
               /\ \A i \in DOMAIN s.queue : s.queue[i].op = "delete"
  BY <1>1, <1>3, <1>5 DEF Revisualized, OneAsks, Mine
<1>8. CASE ~Mine(t, c)
  <2>1. ShowsWord(t)
    BY <1>6, <1>8 DEF ShowsWord
  <2> QED
    BY <1>3, <1>4, <1>5, <1>8, <2>1 DEF Sound, u
<1>9. CASE Mine(t, c)
  <2> DEFINE d == [op |-> "unfold", var |-> v, serial |-> t.tip.serial]
  <2>1. u = ShowVariable(t, v) /\ v \in DOMAIN t.heap /\ d = [op |-> "unfold", var |-> v, serial |-> t.tip.serial]
    BY <1>1, <1>2, <1>3, <1>4, <1>9
  <2>2. t.tip.serial \in Positive /\ Up(t)
    BY <1>5, <1>9 DEF Mine, Up, Nemiver, Tips, Positive, None
  <2> HIDE DEF d, v
  <2>3. /\ Others(t, u) /\ u.asked = t.asked /\ u.serial = t.serial
        /\ u.tip \in Tips /\ u.tip.serial = t.tip.serial /\ u.tip.at = t.tip.at /\ u.tip.var = v
        /\ \E row \in Row :
             /\ u.tip.rows = Append(t.tip.rows, row) /\ row.var = v /\ row.folded = t.heap[v].folded
             /\ row.folded => u.queue = Append(t.queue, d)
             /\ ~row.folded => u.queue = t.queue
    BY <1>5, <2>1, <2>2, VariableShown
  <2>4. PICK row \in Row :
             /\ u.tip.rows = Append(t.tip.rows, row) /\ row.var = v /\ ~row.folded
             /\ u.queue = t.queue
    BY <1>2, <1>3, <2>3
  <2>5. /\ Shape(u) /\ u.queue = t.queue /\ u.heap = t.heap /\ u.timer = t.timer /\ u.started = t.started
        /\ u.attached = t.attached /\ u.pointer = t.pointer /\ u.last = t.last /\ u.asked = t.asked
        /\ u.serial = t.serial
    BY <2>3, <2>4 DEF Others
  <2>6. Up(u)
    BY <2>2, <2>3 DEF Up
  <2>7. Nemiver(u)
    BY <1>5, <2>3, <2>5 DEF Nemiver
  <2>8. UsedAreThere(u)
    <3>1. t.tip.rows \in Seq(Row)
      BY <1>5 DEF Nemiver, Tips
    <3> DEFINE a == t.tip.rows
               b == u.tip.rows
    <3>2. b = Append(a, row) /\ a \in Seq(Row)
      BY <2>4, <3>1
    <3> HIDE DEF a, b
    <3>3. \A i \in DOMAIN b : (i \in DOMAIN a /\ b[i] = a[i]) \/ b[i] = row
      BY <3>2
    <3>4. \A i \in DOMAIN b : b[i].var \in DOMAIN u.heap
      BY <1>5, <2>1, <2>2, <2>4, <2>5, <3>3 DEF UsedAreThere, a
    <3> QED
      BY <1>5, <2>1, <2>2, <2>3, <2>5, <2>6, <3>4 DEF UsedAreThere, b
  <2>9. AsksForWord(u)
    BY <1>5, <2>5 DEF AsksForWord
  <2>10. ShowsWord(u)
    <3> SUFFICES ASSUME ~({"revisualize", "haste"} \subseteq may) PROVE ShowsWord(u)
      BY DEF ShowsWord
    <3>1. "revisualize" \in may /\ t.tip.rows = <<>> /\ v = t.tip.var /\ t.heap[v].name = Word[t.tip.at]
      BY <1>3, <1>5, <1>6, <2>2 DEF v
    <3>2. u.tip.rows = <<row>>
      BY <2>4, <3>1
    <3>3. Len(u.tip.rows) = 1 /\ u.tip.rows[1] = row
      BY <3>2
    <3> QED
      BY <2>3, <2>4, <2>5, <3>1, <3>3 DEF ShowsWord, RowShown
  <2>11. OneAsks(u)
    <3> SUFFICES ASSUME Waits PROVE OneAsks(u)
      BY DEF OneAsks
    <3>1. s.pointer = s.tip.at /\ \A i \in DOMAIN u.queue : u.queue[i].op = "delete"
      BY <1>3, <1>7, <2>5
    <3> QED
      BY <1>3, <2>3, <2>5, <3>1 DEF OneAsks, Asking
  <2>12. ObjectsFollow(u, objs, next)
    BY <1>5, <2>5 DEF ObjectsFollow
  <2> QED
    BY <1>3, <2>5, <2>7, <2>8, <2>9, <2>10, <2>11, <2>12 DEF Sound, u
<1> QED
  BY <1>8, <1>9

LEMMA ReplyKeeps ==
    ASSUME IInv, Reply
    PROVE  IInv'
<1> DEFINE c == Head(n.queue)
           s == [n EXCEPT !.queue = Tail(n.queue)]
           objs == gdb.objs
           next == gdb.next
<1>1. /\ Gdb(gdb) /\ Sound(n, objs, next) /\ Shape(n) /\ n.queue # <<>>
      /\ "exits" \notin may /\ gdb.inferior # "none" => n.attached
      /\ gdb.stop \in Nat /\ objs \in SUBSET Positive /\ next \in Positive
  BY DEF IInv, Sound, Nemiver, Reply, Quiet, Gdb
<1>2. may' = may
  BY DEF Reply
<1>3. \/ /\ c.op = "create" /\ Found(gdb, c.name) /\ gdb.inferior = "stopped"
         /\ n' = Release(OnCreated([s EXCEPT !.heap = [w \in DOMAIN s.heap \union {Fresh(s)} |->
                                      IF w = Fresh(s) THEN Variable(c.name, gdb.next, gdb.stop) ELSE s.heap[w]]],
                                   Fresh(s)))
         /\ gdb' = [gdb EXCEPT !.objs = gdb.objs \union {gdb.next}, !.next = gdb.next + 1]
      \/ c.op = "create" /\ n' = s /\ gdb' = gdb
      \/ c.op = "delete" /\ n' = s /\ gdb' = [gdb EXCEPT !.objs = gdb.objs \ {c.obj}]
      \/ c.op = "unfold" /\ n' = Release(OnUnfolded(s, c)) /\ gdb' = gdb
      \/ /\ c.op = "revisualize" /\ gdb' = gdb
         /\ n' = Release(IF c.left > 0
                         THEN Queue([s EXCEPT !.heap[c.var].value = gdb.stop], [c EXCEPT !.left = c.left - 1])
                         ELSE OnRevisualized([s EXCEPT !.heap[c.var].value = gdb.stop], c))
  BY Zenon DEF Reply
<1>4. /\ Shape(s) /\ s.queue = Tail(n.queue) /\ s.heap = n.heap /\ s.timer = n.timer /\ s.started = n.started
      /\ s.attached = n.attached /\ s.pointer = n.pointer /\ s.last = n.last /\ s.asked = n.asked
      /\ s.tip = n.tip /\ s.serial = n.serial
  <2> DEFINE x == Tail(n.queue)
  <2> HIDE DEF x
  <2>1. s = [n EXCEPT !.queue = x]
    BY DEF x
  <2> HIDE DEF s
  <2>2. /\ Shape(s) /\ s.queue = x /\ s.heap = n.heap /\ s.timer = n.timer /\ s.started = n.started
        /\ s.attached = n.attached /\ s.pointer = n.pointer /\ s.last = n.last /\ s.asked = n.asked
        /\ s.tip = n.tip /\ s.serial = n.serial
    BY <1>1, <2>1, SMT DEF Shape
  <2> QED
    BY <2>2 DEF x
<1> HIDE DEF c, s, objs, next
<1>5. /\ c \in Command
      /\ Nemiver(s) /\ UsedAreThere(s) /\ AsksForWord(s) /\ OneAsks(s)
      /\ c.op \in {"unfold", "revisualize"} => c.var \in DOMAIN s.heap
      /\ c.op = "revisualize" =>
           (~({"revisualize", "haste"} \subseteq may) => "revisualize" \in may)
      /\ Waits /\ c.op # "delete" => \A i \in DOMAIN s.queue : s.queue[i].op = "delete"
      /\ Waits /\ c.op = "create" => s.asked.at = s.pointer
      /\ Waits /\ c.op = "revisualize" =>
           Up(s) /\ s.tip.rows = <<>> /\ c.var = s.tip.var /\ c.serial = s.tip.serial
      /\ Revisualizing(s) => Revisualizing(n)
      /\ c.op # "revisualize" => (Revisualizing(n) => Revisualizing(s))
      /\ (c.op = "unfold" => c.serial # s.tip.serial) => (Unfolding(n) => Unfolding(s))
      /\ c.op \in {"create", "delete"} => ShowsWord(s)
      /\ c.op # "delete" => ObjectsFollow(s, objs, next)
      /\ c.op = "delete" => ObjectsFollow(s, objs \ {c.obj}, next)
  <2>1. c = Head(n.queue)
    BY DEF c
  <2>2. Answered(n, s, c, objs, next)
    BY <1>1, <1>4, <2>1, AnsweredSound
  <2> QED
    BY <2>2 DEF Answered
<1>6. ShowsWord(n) /\ Up(s) = Up(n)
  BY <1>1, <1>4 DEF Sound, Up
(* What each answer leaves, of Nemiver and of GDB.                         *)
<1>7. ASSUME Sound(n', gdb'.objs, gdb'.next), n'.attached = n.attached, Gdb(gdb'), gdb'.inferior = gdb.inferior
      PROVE  IInv'
  BY <1>1, <1>2, <1>7 DEF IInv, Sound, ShowsWord, OneAsks, Waits, ObjectsFollow
<1>8. CASE c.op = "create" /\ n' = s /\ gdb' = gdb
  <2>1. Sound(s, objs, next)
    BY <1>5, <1>8 DEF Sound
  <2> QED
    BY <1>1, <1>4, <1>7, <1>8, <2>1 DEF objs, next
<1>9. CASE c.op = "delete" /\ n' = s /\ gdb' = [gdb EXCEPT !.objs = gdb.objs \ {c.obj}]
  <2>1. Sound(s, objs \ {c.obj}, next)
    BY <1>5, <1>9 DEF Sound
  <2>2. Gdb(gdb') /\ gdb'.objs = objs \ {c.obj} /\ gdb'.next = next /\ gdb'.inferior = gdb.inferior
    BY <1>1, <1>9 DEF Gdb, objs, next
  <2> QED
    BY <1>4, <1>7, <1>9, <2>1, <2>2
<1>10. CASE c.op = "unfold" /\ n' = Release(OnUnfolded(s, c)) /\ gdb' = gdb
  <2>1. ASSUME ~({"revisualize", "haste"} \subseteq may)
        PROVE  /\ Up(s) => /\ s.heap[s.tip.var].name = Word[s.tip.at]
                           /\ \/ /\ Len(s.tip.rows) = 1 /\ s.tip.rows[1].var = s.tip.var
                                 /\ s.tip.rows[1].folded => Unfolding(s) \/ c.serial = s.tip.serial
                              \/ s.tip.rows = <<>> /\ Revisualizing(s)
               /\ Revisualizing(s) => "revisualize" \in may
    <3>1. /\ Up(n) => n.heap[n.tip.var].name = Word[n.tip.at] /\ RowShown(n)
          /\ Revisualizing(n) => "revisualize" \in may
      BY <1>6, <2>1 DEF ShowsWord
    <3>2. c.serial # s.tip.serial => (Unfolding(n) => Unfolding(s))
      BY <1>5
    <3>3. Revisualizing(n) <=> Revisualizing(s)
      BY <1>5, <1>10
    <3> QED
      BY <1>4, <1>6, <3>1, <3>2, <3>3 DEF RowShown
  <2>2. Sound(OnUnfolded(s, c), objs, next) /\ OnUnfolded(s, c).attached = s.attached
    BY <1>5, <1>10, <2>1, OnUnfoldedSound
  <2>3. Sound(n', objs, next) /\ n'.attached = n.attached
    BY <1>4, <1>10, <2>2, ReleaseSound
  <2> QED
    BY <1>1, <1>7, <1>10, <2>3 DEF objs, next
<1>11. CASE /\ c.op = "revisualize" /\ gdb' = gdb
            /\ n' = Release(IF c.left > 0
                            THEN Queue([s EXCEPT !.heap[c.var].value = gdb.stop], [c EXCEPT !.left = c.left - 1])
                            ELSE OnRevisualized([s EXCEPT !.heap[c.var].value = gdb.stop], c))
  <2> DEFINE t == [s EXCEPT !.heap[c.var].value = gdb.stop]
             d == [c EXCEPT !.left = c.left - 1]
             u == IF c.left > 0 THEN Queue(t, d) ELSE OnRevisualized(t, c)
  <2>1. Revisualized(s, c, objs, next)
    BY <1>4, <1>5, <1>6, <1>11 DEF Revisualized, ShowsWord
  <2>2. Revisualized(t, c, objs, next) /\ t.attached = s.attached
    BY <1>1, <2>1, ReadKeeps
  <2>3. c.left > 0 => d \in Command /\ d.op = "revisualize" /\ d.var = c.var /\ d.serial = c.serial
    <3>1. c \in [op : {"revisualize"}, left : 0..2, var : Positive, serial : Positive]
      BY <1>5, <1>11, CommandOps
    <3>2. c.left > 0 => c.left - 1 \in 0..2
      BY <3>1
    <3>3. c.left > 0 => d \in [op : {"revisualize"}, left : 0..2, var : Positive, serial : Positive]
                        /\ d.op = "revisualize" /\ d.var = c.var /\ d.serial = c.serial
      BY <3>1, <3>2
    <3> QED
      BY <3>3 DEF Command
  <2>4. n' = Release(u)
    BY <1>11, Zenon
  <2> HIDE DEF t, d
  <2>5. Sound(u, objs, next) /\ u.attached = s.attached
    BY <2>2, <2>3, RequeuedSound, OnRevisualizedSound
  <2> HIDE DEF u
  <2>6. Sound(n', objs, next) /\ n'.attached = n.attached
    BY <1>4, <2>4, <2>5, ReleaseSound
  <2> QED
    BY <1>1, <1>7, <1>11, <2>6 DEF objs, next
<1>12. CASE /\ c.op = "create" /\ Found(gdb, c.name) /\ gdb.inferior = "stopped"
            /\ n' = Release(OnCreated([s EXCEPT !.heap = [w \in DOMAIN s.heap \union {Fresh(s)} |->
                                         IF w = Fresh(s) THEN Variable(c.name, gdb.next, gdb.stop) ELSE s.heap[w]]],
                                      Fresh(s)))
            /\ gdb' = [gdb EXCEPT !.objs = gdb.objs \union {gdb.next}, !.next = gdb.next + 1]
  <2> DEFINE v == Fresh(s)
             x == Variable(c.name, gdb.next, gdb.stop)
             k == [w \in DOMAIN s.heap \union {v} |-> IF w = v THEN x ELSE s.heap[w]]
             t == [s EXCEPT !.heap = k]
  <2>1. v \in Positive /\ v \notin DOMAIN s.heap
    BY <1>5, FreshNumber DEF Nemiver
  <2>2. NewVariable(x) /\ x.obj = next
    <3>1. c.name \in Names
      BY <1>5, <1>12, CommandOps
    <3> QED
      BY <1>1, <3>1 DEF NewVariable, Variable, next
  <2>3. n' = Release(OnCreated(t, v))
    BY <1>12, Zenon
  <2>4. v \in DOMAIN k /\ k = [w \in DOMAIN s.heap \union {v} |-> IF w = v THEN x ELSE s.heap[w]]
    OBVIOUS
  <2> HIDE DEF k, x, v
  <2>5. /\ Shape(t) /\ t.queue = s.queue /\ t.heap = k /\ t.timer = s.timer /\ t.started = s.started
        /\ t.attached = s.attached /\ t.pointer = s.pointer /\ t.last = s.last /\ t.asked = s.asked
        /\ t.tip = s.tip /\ t.serial = s.serial
    BY <1>4, SMT DEF Shape
  <2> HIDE DEF t
  <2>6. Sound(s, objs, next) /\ ("exits" \notin may => s.attached)
    BY <1>1, <1>4, <1>5, <1>12 DEF Sound
  <2>7. Sound(t, objs \union {next}, next + 1)
    <3>1. t.heap = [w \in DOMAIN s.heap \union {v} |-> IF w = v THEN x ELSE s.heap[w]]
      BY <2>4, <2>5
    <3> QED
      BY <1>1, <2>1, <2>2, <2>5, <2>6, <3>1, CreatedSound, Zenon
  <2>8. Sound(OnCreated(t, v), objs \union {next}, next + 1) /\ OnCreated(t, v).attached = t.attached
    <3>1. Waits => t.asked.at = t.pointer /\ \A i \in DOMAIN t.queue : t.queue[i].op = "delete"
      BY <1>5, <1>12, <2>5
    <3> QED
      BY <2>4, <2>5, <2>7, <3>1, OnCreatedSound
  <2>9. Sound(n', objs \union {next}, next + 1) /\ n'.attached = n.attached
    BY <1>4, <2>3, <2>5, <2>8, ReleaseSound
  <2>10. Gdb(gdb') /\ gdb'.objs = objs \union {next} /\ gdb'.next = next + 1 /\ gdb'.inferior = gdb.inferior
    <3>1. objs \union {next} \in SUBSET Positive /\ next + 1 \in Positive
      BY <1>1 DEF Positive
    <3>2. gdb' = [gdb EXCEPT !.objs = objs \union {next}, !.next = next + 1]
      BY <1>12 DEF objs, next
    <3> QED
      BY <1>1, <3>1, <3>2 DEF Gdb
  <2> QED
    BY <1>7, <2>9, <2>10
<1> QED
  BY <1>3, <1>8, <1>9, <1>10, <1>11, <1>12, Zenon

-----------------------------------------------------------------------------
(* What holds of every behaviour.                                          *)

LEMMA StepKeeps == IInv /\ [Next]_vars => IInv'
<1> SUFFICES ASSUME IInv, [Next]_vars PROVE IInv'
  OBVIOUS
<1>1. CASE Go \/ InferiorStops \/ InferiorExits
  BY <1>1, ProgramKeeps
<1>2. CASE Reply
  BY <1>2, ReplyKeeps
<1>3. CASE TimerFires
  BY <1>3, TimerKeeps
<1>4. CASE Move
  BY <1>4, MoveKeeps
<1>5. CASE Leave
  BY <1>5, LeaveKeeps
<1>6. CASE FocusOut
  BY <1>6, FocusOutKeeps
<1>7. CASE UNCHANGED vars
  <2>1. may' = may /\ gdb' = gdb /\ n' = n
    BY <1>7 DEF vars
  <2>2. /\ Gdb(gdb) /\ Sound(n, gdb.objs, gdb.next)
        /\ "exits" \notin may /\ gdb.inferior # "none" => n.attached
    BY DEF IInv
  <2> QED
    BY <2>1, <2>2 DEF IInv, Sound, ShowsWord, OneAsks, Waits, ObjectsFollow
<1> QED
  BY <1>1, <1>2, <1>3, <1>4, <1>5, <1>6, <1>7, Zenon DEF Next

LEMMA TipFollows == IInv => TipShown /\ TipUnderPointer /\ ObjectsOwned
<1> SUFFICES ASSUME IInv PROVE TipShown /\ TipUnderPointer /\ ObjectsOwned
  OBVIOUS
<1>1. Nemiver(n) /\ ShowsWord(n) /\ OneAsks(n) /\ ObjectsFollow(n, gdb.objs, gdb.next)
  BY DEF IInv, Sound
<1>2. Quiet => DOMAIN n.queue = {}
  BY DEF Quiet
<1>3. TipShown
  <2> SUFFICES ASSUME Up(n), ~({"revisualize", "haste"} \subseteq may)
               PROVE  /\ \A i \in DOMAIN n.tip.rows :
                           /\ i = 1 /\ n.heap[n.tip.rows[i].var].name = Word[n.tip.at]
                           /\ Quiet => ~n.tip.rows[i].folded
                      /\ Quiet => Len(n.tip.rows) = 1
    BY DEF TipShown
  <2>1. n.heap[n.tip.var].name = Word[n.tip.at] /\ RowShown(n)
    BY <1>1 DEF ShowsWord
  <2>2. n.tip.rows \in Seq(Row)
    BY <1>1 DEF Nemiver, Tips
  <2>3. CASE /\ Len(n.tip.rows) = 1 /\ n.tip.rows[1].var = n.tip.var
             /\ n.tip.rows[1].folded => Unfolding(n)
    <3>1. \A i \in DOMAIN n.tip.rows : i = 1
      BY <2>2, <2>3
    <3>2. Quiet => ~Unfolding(n)
      BY <1>2 DEF Unfolding
    <3> QED
      BY <2>1, <2>3, <3>1, <3>2
  <2>4. CASE n.tip.rows = <<>> /\ Revisualizing(n)
    <3>1. DOMAIN n.tip.rows = {} /\ ~Quiet
      BY <1>2, <2>4 DEF Revisualizing
    <3> QED
      BY <3>1
  <2> QED
    BY <2>1, <2>3, <2>4 DEF RowShown
<1>4. TipUnderPointer
  BY <1>1 DEF OneAsks, TipUnderPointer
<1>5. ObjectsOwned
  <2> SUFFICES ASSUME Quiet, "exits" \notin may
               PROVE  gdb.objs = {n.heap[v].obj : v \in DOMAIN n.heap}
    BY DEF ObjectsOwned
  <2>1. Owned(n.heap, n.queue, gdb.objs, gdb.next) /\ Deleting(n.queue) = {}
    BY <1>1, <1>2 DEF ObjectsFollow, Deleting
  <2>2. \A o \in gdb.objs : \E v \in DOMAIN n.heap : n.heap[v].obj = o
    BY <2>1 DEF Owned
  <2>3. \A v \in DOMAIN n.heap : n.heap[v].obj \in gdb.objs
    BY <2>1 DEF Owned
  <2> QED
    BY <2>2, <2>3
<1> QED
  BY <1>3, <1>4, <1>5

LEMMA AlwaysIInv == Spec => []IInv
<1>1. Init => IInv
  BY InitIInv
<1> QED
  BY <1>1, StepKeeps, PTL DEF Spec

(* The tip shows the variable of the word it stands at, in one row, with   *)
(* its members when no answer is waited for, whatever the order in which   *)
(* the timer, the pointer, the program and the answers of GDB come: the    *)
(* request open when a variable is created is the one for the word at the  *)
(* place the tip pops up at (on_variable_created_for_tooltip_signal), and  *)
(* what is unfolded is the inspector's own row.                            *)
THEOREM TipIsShown == Spec => []TipShown
BY AlwaysIInv, TipFollows, PTL

(* For a user who waits for the answers, a tip that is up stands under the *)
(* pointer (on_motion_notify_event_signal, on_leave_notify_event_signal).  *)
THEOREM TipStaysUnderPointer == Spec => []TipUnderPointer
BY AlwaysIInv, TipFollows, PTL

(* When no answer is waited for, GDB's objects are those of the Variables  *)
(* that Nemiver holds, one each: every other was deleted, once (~Variable),*)
(* as long as the program does not end.                                    *)
THEOREM TipOwnsObjects == Spec => []ObjectsOwned
BY AlwaysIInv, TipFollows, PTL
=============================================================================
