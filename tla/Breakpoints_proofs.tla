------------------------- MODULE Breakpoints_proofs -------------------------
(***************************************************************************)
(* Theorems about the breakpoints, for any number of lines, breakpoints,   *)
(* hits and commands waiting, and whatever the user may do: once all is    *)
(* answered, the cache of the engine has GDB's breakpoints, and the map of *)
(* the perspective and the rows of the view show the cache.                *)
(***************************************************************************)
EXTENDS Breakpoints, FiniteSetTheorems, SequenceTheorems, TLAPS

(* What is proved of a program that is loaded again: the user waits for    *)
(* answers and deletes nothing.  Otherwise the numbers the cache keeps are *)
(* not those a new GDB gives, and TLC finds CacheIsGdbs violated.          *)
PatientRestarts ==
    \A s \in Scenarios : "restart" \in s => "haste" \notin s /\ "delete" \notin s

Tables(S) == UNION {[D -> S] : D \in SUBSET Ids}
Record == [kind : {"modified", "stopped", "error", "done"}, bps : Tables(Breakpoint)]
Nemiver == [queue : Seq(Command), cache : Tables(Breakpoint),
            shown : Tables(Breakpoint), rows : [Ids -> Nat]]
Gdb == [table : Tables(GdbBreakpoint), next : 1..(MaxBps + 1),
        inferior : {"none", "stopped", "running"}]

Typed == /\ n \in Nemiver /\ gdb \in Gdb /\ out \in Seq(Record)
         /\ IsTable(wanted, Locs, Breakpoint) /\ may \in Scenarios

-----------------------------------------------------------------------------
(* The inductive invariant.                                                *)

Again == "restart" \in may

(* GDB has done what the head of the queue asks for; the engine did not    *)
(* handle the record.                                                      *)
Done(op) == \E i \in 1..Len(out) : out[i].kind = "done" /\ n.queue[1].op = op

(* The number of the first insertion that the engine did not hear of.      *)
First == IF Done("insert") THEN gdb.next - 1 ELSE gdb.next

Listing(q) == \E i \in 1..Len(q) : q[i].op = "list"
Commanding(q, id) == \E i \in 1..Len(q) : q[i].op = "commands" /\ q[i].id = id
Unread(q, done) == {i \in 1..Len(q) : q[i].op = "insert" /\ ~(i = 1 /\ done)}

(* One answer at a time, after which nothing is printed but by a program   *)
(* that was made to run.                                                   *)
OutInv ==
    /\ \A i, j \in 1..Len(out) :
          out[i].kind \in {"done", "error"} /\ out[j].kind \in {"done", "error"} => i = j
    /\ \A i \in 1..Len(out) : out[i].kind \in {"done", "error"} =>
          /\ n.queue # <<>>
          /\ n.queue[1].op \notin {"run", "continue"} =>
                i = Len(out) /\ gdb.inferior # "running"

(* What an answer says is what GDB has.                                    *)
InsertDone(b) ==
    n.queue[1].op = "insert" =>
        LET k == gdb.next - 1 IN
        /\ k \in DOMAIN gdb.table /\ DOMAIN b = {k}
        /\ b[k].loc = n.queue[1].loc /\ b[k].enabled /\ ~b[k].count
        /\ gdb.table[k].loc = n.queue[1].loc /\ gdb.table[k].enabled
ListDone(b) ==
    n.queue[1].op = "list" =>
        /\ DOMAIN b = DOMAIN gdb.table
        /\ \A id \in DOMAIN b : /\ b[id].loc = gdb.table[id].loc
                                /\ b[id].enabled = gdb.table[id].enabled
                                /\ ~b[id].count
Gone == n.queue[1].id \notin DOMAIN gdb.table
AnswerInv ==
    \A i \in 1..Len(out) :
        /\ out[i].kind = "done" =>
              /\ InsertDone(out[i].bps) /\ ListDone(out[i].bps)
              /\ n.queue[1].op = "delete" => Gone
        /\ out[i].kind = "error" =>
              /\ n.queue[1].op \notin {"insert", "list"}
              /\ n.queue[1].op = "commands" => Gone

(* A modified breakpoint is in the cache, and is as GDB has it but for the *)
(* command that was done since.                                            *)
ModifiedAs(b, id) ==
    /\ DOMAIN b = {id} /\ id \in DOMAIN n.cache /\ id < First
    /\ b[id].loc = n.cache[id].loc /\ ~b[id].count
    /\ id \in DOMAIN gdb.table =>
          \/ b[id].enabled = gdb.table[id].enabled
          \/ Done("enable") \/ Done("disable")
    /\ id \in DOMAIN gdb.table \/ (Done("delete") /\ n.queue[1].id = id)
ModifiedInv ==
    \A i \in 1..Len(out) : out[i].kind = "modified" =>
        \E id \in Ids : ModifiedAs(out[i].bps, id)

(* Whatever enables or disables is followed by a list; GDB has numbers for *)
(* the breakpoints to insert.                                              *)
QueueInv ==
    /\ \A i \in 1..Len(n.queue) : n.queue[i].op \in {"enable", "disable"} =>
          \E j \in (i + 1)..Len(n.queue) : n.queue[j].op = "list"
    /\ gdb.next + Cardinality(Unread(n.queue, Done("insert"))) <= MaxBps + 1

(* Where programs are loaded again, breakpoints have the numbers they had: *)
(* the insertions come first, in the order of the cache.                   *)
AgainInv ==
    Again =>
        /\ DOMAIN gdb.table = 1..(gdb.next - 1)
        /\ \A i \in 1..Len(n.queue) :
              /\ n.queue[i].op # "delete"
              /\ n.queue[i].op = "commands" => n.queue[i].id \in DOMAIN gdb.table
              /\ n.queue[i].op = "insert" =>
                    /\ \A j \in 1..i : n.queue[j].op = "insert"
                    /\ First + i - 1 \in DOMAIN n.cache =>
                          /\ n.cache[First + i - 1].loc = n.queue[i].loc
                          /\ n.cache[First + i - 1].count = n.queue[i].count
        /\ \A id \in DOMAIN n.cache : id >= First =>
              /\ id - First + 1 \in 1..Len(n.queue)
              /\ n.queue[id - First + 1].op = "insert"

(* The cache has what GDB has, but for the answer that waits; a line never *)
(* differs, and a list will tell what is enabled.                          *)
CacheInv ==
    /\ DOMAIN gdb.table \subseteq 1..(gdb.next - 1)
    /\ \A id \in DOMAIN gdb.table :
          id \in DOMAIN n.cache \/ (Done("insert") /\ id = gdb.next - 1)
    /\ ~Again => \A id \in DOMAIN n.cache :
          id < First /\ (id \in DOMAIN gdb.table \/ (Done("delete") /\ n.queue[1].id = id))
    /\ \A id \in DOMAIN gdb.table \intersect DOMAIN n.cache :
          /\ n.cache[id].loc = gdb.table[id].loc
          /\ \/ n.cache[id].enabled = gdb.table[id].enabled
             \/ Listing(n.queue) \/ id >= First

(* What is not shown as it is in the cache will be, by a list, or by what  *)
(* sets the breakpoint again.                                              *)
ShownInv ==
    /\ DOMAIN n.shown \subseteq DOMAIN n.cache
    /\ \A id \in DOMAIN n.shown : id < First
    /\ \A id \in DOMAIN n.cache :
          \/ id \in DOMAIN n.shown /\ n.shown[id] = n.cache[id]
          \/ Listing(n.queue)
          \/ Again /\ (Commanding(n.queue, id) \/ id >= First)
    /\ \A id \in Ids : n.rows[id] = IF id \in DOMAIN n.shown THEN 1 ELSE 0

IInv == /\ Typed /\ OutInv /\ AnswerInv /\ ModifiedInv /\ QueueInv
        /\ AgainInv /\ CacheInv /\ ShownInv

-----------------------------------------------------------------------------
(* Sequences, tables and numbers.                                          *)

LEMMA Ends ==
    ASSUME NEW S, NEW s \in Seq(S), s # <<>>
    PROVE  /\ Head(s) = s[1] /\ Head(s) \in S /\ Tail(s) \in Seq(S)
           /\ Len(s) \in Nat \ {0} /\ Len(Tail(s)) = Len(s) - 1
           /\ \A i \in 1..(Len(s) - 1) : Tail(s)[i] = s[i + 1]
OBVIOUS

LEMMA Joined ==
    ASSUME NEW S, NEW s \in Seq(S), NEW t \in Seq(S)
    PROVE  /\ s \o t \in Seq(S) /\ Len(s \o t) = Len(s) + Len(t)
           /\ Len(s) \in Nat /\ Len(t) \in Nat
           /\ \A i \in 1..Len(s) : (s \o t)[i] = s[i]
           /\ \A i \in 1..Len(t) : (s \o t)[Len(s) + i] = t[i]
OBVIOUS

LEMMA JoinedCommands ==
    \A s, t \in Seq(Command) :
        /\ s \o t \in Seq(Command) /\ Len(s \o t) = Len(s) + Len(t)
        /\ \A i \in 1..Len(s) : (s \o t)[i] = s[i]
        /\ \A i \in 1..Len(t) : (s \o t)[Len(s) + i] = t[i]
BY Joined

LEMMA Associative ==
    \A s, t, u \in Seq(Command) : (s \o t) \o u = s \o (t \o u)
BY ConcatAssociative

LEMMA TableFacts ==
    ASSUME NEW S, NEW f
    PROVE  f \in Tables(S) <=> IsTable(f, Ids, S)
BY DEF Tables, IsTable

LEMMA EmptyTable ==
    ASSUME NEW K, NEW S
    PROVE  /\ IsTable(Nothing, K, S) /\ DOMAIN Nothing = {}
           /\ \A f : IsTable(f, K, S) /\ DOMAIN f = {} => f = Nothing
<1>1. Nothing \in Seq(S) /\ Len(Nothing) = 0
  BY EmptySeq DEF Nothing
<1>2. 1..0 = {}
  OBVIOUS
<1>3. Nothing \in [{} -> S]
  BY <1>1, <1>2, LenProperties
<1>4. ASSUME NEW f, f \in [{} -> S] PROVE f = Nothing
  BY <1>3, <1>4
<1> QED
  BY <1>3, <1>4 DEF IsTable

LEMMA CommandFacts ==
    ASSUME NEW c \in Command
    PROVE  /\ c.op \in {"insert", "delete", "enable", "disable", "after", "commands", "list",
                        "run", "continue"}
           /\ c.op = "insert" => c.loc \in Locs /\ c.count \in BOOLEAN /\ c.n \in Nat
           /\ c.op \in {"delete", "enable", "disable", "after", "commands"} => c.id \in Ids
           /\ c.op = "commands" => c.yes \in BOOLEAN
           /\ c.op = "after" => c.n \in Nat
BY DEF Command

LEMMA Commands ==
    /\ \A loc \in Locs, count \in BOOLEAN, k \in Nat :
          [op |-> "insert", loc |-> loc, count |-> count, n |-> k] \in Command
    /\ \A op \in {"delete", "enable", "disable"}, id \in Ids : [op |-> op, id |-> id] \in Command
    /\ \A id \in Ids, k \in Nat : [op |-> "after", id |-> id, n |-> k] \in Command
    /\ \A id \in Ids, yes \in BOOLEAN : [op |-> "commands", id |-> id, yes |-> yes] \in Command
    /\ \A op \in {"list", "run", "continue"} : [op |-> op] \in Command
BY DEF Command

(* A set of numbers has a least one.                                        *)
LEMMA Least ==
    ASSUME NEW S \in SUBSET Nat, S # {}
    PROVE  \E m \in S : \A x \in S : m <= x
<1> DEFINE R == OpToRel(<, Nat)
<1>1. IsWellFoundedOn(R, Nat)
  BY NatLessThanWellFounded
<1>2. \A x, y \in Nat : <<x, y>> \in R <=> x < y
  BY DEF OpToRel
<1> HIDE DEF R
<1>3. \E m \in S : \A x \in S : ~(<<x, m>> \in R)
  BY <1>1, WFMin
<1>4. PICK m \in S : \A x \in S : ~(<<x, m>> \in R)
  BY <1>3
<1>5. ASSUME NEW x \in S PROVE m <= x
  <2>1. x \in Nat /\ m \in Nat /\ ~(<<x, m>> \in R)
    BY <1>4
  <2>2. ~(x < m)
    BY <1>2, <2>1, Zenon
  <2> QED
    BY <2>1, <2>2
<1> QED
  BY <1>5

(* The i-th of a finite set of numbers: every number is in its place.      *)
LEMMA InOrderType ==
    ASSUME NEW ids \in SUBSET Ids, BreakpointsAssumption
    PROVE  /\ IsFiniteSet(ids) /\ Cardinality(ids) \in 0..MaxBps
           /\ InOrder(ids) \in Seq(ids) /\ Len(InOrder(ids)) = Cardinality(ids)
           /\ ids # {} => Len(InOrder(ids)) # 0
           /\ \A id \in ids : \E i \in 1..Len(InOrder(ids)) : InOrder(ids)[i] = id
<1> DEFINE Below(id) == {other \in ids : other <= id}
           rank == [id \in ids |-> Cardinality(Below(id))]
           k == Cardinality(ids)
<1>1. IsFiniteSet(ids) /\ k \in Nat /\ k <= MaxBps /\ MaxBps \in Nat /\ \A id \in ids : id \in Int
  <2>1. MaxBps \in Nat /\ IsFiniteSet(Ids) /\ Cardinality(Ids) = MaxBps
    BY FS_Interval DEF BreakpointsAssumption, Ids
  <2>2. IsFiniteSet(ids) /\ k <= MaxBps
    BY <2>1, FS_Subset, Zenon
  <2>3. k \in Nat
    BY <2>2, FS_CardinalityType
  <2> QED
    BY <2>1, <2>2, <2>3 DEF Ids
<1>2. \A id \in ids : IsFiniteSet(Below(id)) /\ rank[id] \in 1..k
  <2> SUFFICES ASSUME NEW id \in ids PROVE IsFiniteSet(Below(id)) /\ rank[id] \in 1..k
    OBVIOUS
  <2>1. Below(id) \in SUBSET ids /\ id \in Below(id)
    BY <1>1
  <2>2. IsFiniteSet(Below(id)) /\ Cardinality(Below(id)) <= k
    BY <1>1, <2>1, FS_Subset, Zenon
  <2>3. Cardinality(Below(id)) \in Nat /\ Cardinality(Below(id)) # 0
    BY <2>1, <2>2, FS_CardinalityType, FS_EmptySet
  <2> QED
    BY <1>1, <2>2, <2>3
<1>2a. rank \in [ids -> 1..k]
  BY <1>2
<1>3. \A a, b \in ids : a < b => rank[a] < rank[b]
  <2> SUFFICES ASSUME NEW a \in ids, NEW b \in ids, a < b PROVE rank[a] < rank[b]
    OBVIOUS
  <2>1. Below(a) \in SUBSET Below(b) /\ b \in Below(b) /\ b \notin Below(a)
    BY <1>1
  <2>2. Cardinality(Below(a)) <= Cardinality(Below(b)) /\ Cardinality(Below(a)) # Cardinality(Below(b))
    BY <1>2, <2>1, FS_Subset
  <2>3. rank[a] <= rank[b] /\ rank[a] # rank[b]
    BY <2>2
  <2> HIDE DEF rank, k
  <2>4. rank[a] \in 1..k /\ rank[b] \in 1..k /\ k \in Nat
    BY <1>1, <1>2a
  <2> QED
    BY <2>3, <2>4
<1>4. rank \in Injection(ids, 1..k)
  <2>1. rank \in [ids -> 1..k]
    BY <1>2a
  <2>2. \A a, b \in ids : rank[a] = rank[b] => a = b
    <3> HIDE DEF rank, k
    <3>1. ASSUME NEW a \in ids, NEW b \in ids, rank[a] = rank[b] PROVE a = b
      <4>1. a \in Int /\ b \in Int /\ rank[a] \in Int /\ rank[b] \in Int
        BY <1>1, <1>2a
      <4>2. ~(a < b) /\ ~(b < a)
        BY <1>3, <3>1, <4>1
      <4> QED
        BY <4>1, <4>2
    <3> QED
      BY <3>1
  <2> HIDE DEF rank
  <2> QED
    BY <2>1, <2>2 DEF Injection, IsInjective
<1>5. rank \in Surjection(ids, 1..k)
  <2>1. IsFiniteSet(1..k) /\ Cardinality(1..k) = k
    BY <1>1, FS_Interval
  <2> HIDE DEF rank
  <2> QED
    BY <1>1, <1>4, <2>1, FS_Injection
<1>6. \A i \in 1..k : \E id \in ids : rank[id] = i
  BY <1>5 DEF Surjection
<1>7. InOrder(ids) = [i \in 1..k |-> CHOOSE id \in ids : Cardinality(Below(id)) = i]
  BY DEF InOrder
<1>8. \A i \in 1..k : InOrder(ids)[i] \in ids /\ rank[InOrder(ids)[i]] = i
  <2> SUFFICES ASSUME NEW i \in 1..k
               PROVE  InOrder(ids)[i] \in ids /\ rank[InOrder(ids)[i]] = i
    OBVIOUS
  <2>1. \E id \in ids : Cardinality(Below(id)) = i
    BY <1>6
  <2>2. InOrder(ids)[i] = CHOOSE id \in ids : Cardinality(Below(id)) = i
    BY <1>7
  <2>3. InOrder(ids)[i] \in ids /\ Cardinality(Below(InOrder(ids)[i])) = i
    BY <2>1, <2>2
  <2> QED
    BY <2>3
<1> HIDE DEF rank
<1>9. InOrder(ids) \in Seq(ids) /\ Len(InOrder(ids)) = k
  <2>1. InOrder(ids) \in [1..k -> ids]
    BY <1>7, <1>8
  <2> HIDE DEF k
  <2> QED
    BY <1>1, <2>1
<1>10. ASSUME NEW id \in ids PROVE \E i \in 1..k : InOrder(ids)[i] = id
  <2>1. rank[id] \in 1..k /\ InOrder(ids)[rank[id]] \in ids
        /\ rank[InOrder(ids)[rank[id]]] = rank[id]
    BY <1>2, <1>8
  <2>2. ~(InOrder(ids)[rank[id]] < id) /\ ~(id < InOrder(ids)[rank[id]])
    BY <1>1, <1>2, <1>3, <2>1
  <2> QED
    BY <1>1, <2>1, <2>2
<1>11. ids # {} => k # 0
  BY <1>1, FS_EmptySet
<1> QED
  BY <1>1, <1>9, <1>10, <1>11

LEMMA InOrderOfAll ==
    ASSUME NEW k \in Nat
    PROVE  /\ Len(InOrder(1..k)) = k /\ Cardinality(1..k) = k
           /\ \A i \in 1..k : InOrder(1..k)[i] = i
<1>1. Cardinality(1..k) = k /\ IsFiniteSet(1..k)
  BY FS_Interval
<1>2. \A id \in 1..k : Cardinality({other \in 1..k : other <= id}) = id
  <2> SUFFICES ASSUME NEW id \in 1..k
               PROVE  Cardinality({other \in 1..k : other <= id}) = id
    OBVIOUS
  <2>1. {other \in 1..k : other <= id} = 1..id
    OBVIOUS
  <2>2. Cardinality(1..id) = id
    BY FS_Interval
  <2> QED
    BY <2>1, <2>2
<1>3. InOrder(1..k) = [i \in 1..k |-> CHOOSE id \in 1..k :
                          Cardinality({other \in 1..k : other <= id}) = i]
  BY <1>1 DEF InOrder
<1>4. ASSUME NEW i \in 1..k PROVE InOrder(1..k)[i] = i
  <2> DEFINE j == CHOOSE id \in 1..k : Cardinality({other \in 1..k : other <= id}) = i
  <2>1. j \in 1..k /\ Cardinality({other \in 1..k : other <= j}) = i
    BY <1>2, <1>4
  <2>2. InOrder(1..k)[i] = j
    BY <1>3, <1>4
  <2> HIDE DEF j
  <2> QED
    BY <1>2, <2>1, <2>2
<1>5. Len(InOrder(1..k)) = k
  BY <1>3
<1> QED
  BY <1>1, <1>4, <1>5

-----------------------------------------------------------------------------
(* The insertions that GDB has still to read.                              *)

LEMMA UnreadType ==
    ASSUME NEW q \in Seq(Command), NEW d \in BOOLEAN
    PROVE  /\ IsFiniteSet(Unread(q, d)) /\ Cardinality(Unread(q, d)) \in Nat
           /\ IsFiniteSet(Unread(q, TRUE)) /\ Cardinality(Unread(q, TRUE)) \in Nat
           /\ Cardinality(Unread(q, TRUE)) <= Cardinality(Unread(q, d))
<1>1. IsFiniteSet(1..Len(q))
  BY FS_Interval
<1>2. Unread(q, d) \in SUBSET (1..Len(q)) /\ Unread(q, TRUE) \in SUBSET Unread(q, d)
  BY DEF Unread
<1>3. IsFiniteSet(Unread(q, d))
  BY <1>1, <1>2, FS_Subset, Zenon
<1>4. IsFiniteSet(Unread(q, TRUE)) /\ Cardinality(Unread(q, TRUE)) <= Cardinality(Unread(q, d))
  BY <1>2, <1>3, FS_Subset, Zenon
<1> QED
  BY <1>3, <1>4, FS_CardinalityType

(* When the head is removed; when what is appended inserts nothing.        *)
LEMMA UnreadTail ==
    ASSUME NEW q \in Seq(Command), q # <<>>
    PROVE  Cardinality(Unread(Tail(q), FALSE)) <= Cardinality(Unread(q, TRUE))
<1> DEFINE next == [i \in Unread(Tail(q), FALSE) |-> i + 1]
<1>1. /\ Tail(q) \in Seq(Command) /\ Len(q) \in Nat /\ Len(Tail(q)) = Len(q) - 1
      /\ \A i \in 1..(Len(q) - 1) : Tail(q)[i] = q[i + 1]
  BY Ends
<1>2. \A i \in Unread(Tail(q), FALSE) : i \in Nat /\ i + 1 \in Unread(q, TRUE)
  BY <1>1 DEF Unread
<1>3. next \in [Unread(Tail(q), FALSE) -> Unread(q, TRUE)]
  BY <1>2
<1>4. \A i, j \in Unread(Tail(q), FALSE) : next[i] = next[j] => i = j
  <2> SUFFICES ASSUME NEW i \in Unread(Tail(q), FALSE), NEW j \in Unread(Tail(q), FALSE),
                      next[i] = next[j]
               PROVE  i = j
    OBVIOUS
  <2>1. i \in Nat /\ j \in Nat
    BY <1>2
  <2>2. i + 1 = j + 1
    OBVIOUS
  <2> QED
    BY <2>1, <2>2
<1>5. next \in Injection(Unread(Tail(q), FALSE), Unread(q, TRUE))
  <2> HIDE DEF next
  <2> QED
    BY <1>3, <1>4 DEF Injection, IsInjective
<1>6. IsFiniteSet(Unread(q, TRUE))
  BY UnreadType
<1> QED
  BY <1>5, <1>6, FS_Injection

LEMMA UnreadJoined ==
    ASSUME NEW q \in Seq(Command), NEW cs \in Seq(Command), NEW d \in BOOLEAN,
           \A i \in 1..Len(cs) : cs[i].op # "insert"
    PROVE  Unread(q \o cs, d) = Unread(q, d)
<1>1. /\ Len(q \o cs) = Len(q) + Len(cs) /\ Len(q) \in Nat /\ Len(cs) \in Nat
      /\ \A i \in 1..Len(q) : (q \o cs)[i] = q[i]
      /\ \A i \in 1..Len(cs) : (q \o cs)[Len(q) + i] = cs[i]
  BY Joined
<1>2. ASSUME NEW i \in 1..Len(q \o cs), (q \o cs)[i].op = "insert" PROVE i \in 1..Len(q)
  <2>1. i - Len(q) \in 1..Len(cs) \/ i \in 1..Len(q)
    BY <1>1
  <2>2. i - Len(q) \in 1..Len(cs) => (q \o cs)[i] = cs[i - Len(q)]
    BY <1>1
  <2> QED
    BY <1>2, <2>1, <2>2
<1>3. 1..Len(q) \subseteq 1..Len(q \o cs)
  BY <1>1
<1> QED
  BY <1>1, <1>2, <1>3 DEF Unread

LEMMA UnreadInsert ==
    ASSUME NEW q \in Seq(Command), NEW c \in Command, NEW d \in BOOLEAN
    PROVE  Cardinality(Unread(q \o <<c>>, d)) <=
               Cardinality({i \in 1..Len(q) : q[i].op = "insert"}) + 1
<1> DEFINE all == {i \in 1..Len(q) : q[i].op = "insert"}
<1>1. /\ Len(q \o <<c>>) = Len(q) + 1 /\ Len(q) \in Nat
      /\ \A i \in 1..Len(q) : (q \o <<c>>)[i] = q[i]
  <2>1. <<c>> \in Seq(Command) /\ Len(<<c>>) = 1
    OBVIOUS
  <2> QED
    BY <2>1, Joined
<1>2. Unread(q \o <<c>>, d) \in SUBSET (all \union {Len(q) + 1})
  BY <1>1 DEF Unread
<1>3. IsFiniteSet(all)
  <2>1. IsFiniteSet(1..Len(q)) /\ all \in SUBSET (1..Len(q))
    BY <1>1, FS_Interval
  <2> QED
    BY <2>1, FS_Subset, Zenon
<1>4. Cardinality(all) \in Nat
  BY <1>3, FS_CardinalityType
<1> HIDE DEF all
<1>5. IsFiniteSet(all \union {Len(q) + 1}) /\ Cardinality(all \union {Len(q) + 1}) <= Cardinality(all) + 1
      /\ Cardinality(all \union {Len(q) + 1}) \in Nat
  <2>1. /\ IsFiniteSet(all \union {Len(q) + 1})
        /\ Cardinality(all \union {Len(q) + 1}) =
              IF Len(q) + 1 \in all THEN Cardinality(all) ELSE Cardinality(all) + 1
    BY <1>3, FS_AddElement, Zenon
  <2> QED
    BY <1>4, <2>1
<1>6. Cardinality(Unread(q \o <<c>>, d)) <= Cardinality(all \union {Len(q) + 1})
  BY <1>2, <1>5, FS_Subset, Zenon
<1>7. Cardinality(Unread(q \o <<c>>, d)) \in Nat
  <2>1. IsFiniteSet(Unread(q \o <<c>>, d))
    BY <1>2, <1>5, FS_Subset, Zenon
  <2> QED
    BY <2>1, FS_CardinalityType
<1> QED
  BY <1>4, <1>5, <1>6, <1>7 DEF all

(* When GDB reads the insertion at the head.                               *)
LEMMA UnreadRead ==
    ASSUME NEW q \in Seq(Command), q # <<>>, q[1].op = "insert"
    PROVE  Cardinality(Unread(q, TRUE)) = Cardinality(Unread(q, FALSE)) - 1
<1>1. 1 \in Unread(q, FALSE) /\ Unread(q, TRUE) = Unread(q, FALSE) \ {1}
  BY Ends DEF Unread
<1>2. IsFiniteSet(Unread(q, FALSE))
  BY UnreadType
<1> QED
  BY <1>1, <1>2, FS_RemoveElement

-----------------------------------------------------------------------------
(* Records that go away, unless they are answers, and commands that come.  *)

Fewer ==
    \/ out' = out
    \/ out # <<>> /\ Head(out).kind \in {"modified", "stopped"} /\ out' = Tail(out)

LEMMA FewerRecords ==
    ASSUME IInv, Fewer
    PROVE  /\ out' \in Seq(Record)
           /\ \A i \in 1..Len(out') : \E j \in 1..Len(out) :
                 out'[i] = out[j] /\ (j = Len(out) => i = Len(out'))
           /\ \A i, j \in 1..Len(out') :
                 out'[i].kind \in {"done", "error"} /\ out'[j].kind \in {"done", "error"} => i = j
           /\ \A j \in 1..Len(out) : out[j].kind \in {"done", "error"} =>
                 \E i \in 1..Len(out') : out'[i] = out[j]
<1>1. out \in Seq(Record) /\ \A i, j \in 1..Len(out) :
          out[i].kind \in {"done", "error"} /\ out[j].kind \in {"done", "error"} => i = j
  BY DEF IInv, Typed, OutInv
<1>2. CASE out' = out
  BY <1>1, <1>2
<1>3. CASE out # <<>> /\ Head(out).kind \in {"modified", "stopped"} /\ out' = Tail(out)
  <2>1. PICK new : new = out'
    OBVIOUS
  <2>2. /\ out[1].kind \notin {"done", "error"} /\ new \in Seq(Record)
        /\ Len(out) \in Nat \ {0} /\ Len(new) = Len(out) - 1
        /\ \A i \in 1..(Len(out) - 1) : new[i] = out[i + 1]
    BY <1>1, <1>3, <2>1, Ends
  <2>3. \A i \in 1..Len(new) : i + 1 \in 1..Len(out) /\ new[i] = out[i + 1]
                               /\ (i + 1 = Len(out) => i = Len(new))
    BY <2>2
  <2>4. \A j \in 1..Len(out) : j # 1 => j - 1 \in 1..Len(new) /\ new[j - 1] = out[j]
    <3> SUFFICES ASSUME NEW j \in 1..Len(out), j # 1
                 PROVE  j - 1 \in 1..Len(new) /\ new[j - 1] = out[j]
      OBVIOUS
    <3>1. j - 1 \in 1..Len(new) /\ (j - 1) + 1 = j
      BY <2>2
    <3> QED
      BY <2>3, <3>1
  <2>5. \A i, j \in 1..Len(new) :
            new[i].kind \in {"done", "error"} /\ new[j].kind \in {"done", "error"} => i = j
    <3> SUFFICES ASSUME NEW i \in 1..Len(new), NEW j \in 1..Len(new),
                        new[i].kind \in {"done", "error"}, new[j].kind \in {"done", "error"}
                 PROVE  i = j
      OBVIOUS
    <3>1. i + 1 = j + 1
      BY <1>1, <2>3
    <3> QED
      BY <2>2, <3>1
  <2> QED
    BY <2>1, <2>2, <2>3, <2>4, <2>5
<1> QED
  BY <1>2, <1>3 DEF Fewer

LEMMA AnswersKept ==
    ASSUME IInv, Fewer, gdb' = gdb,
           n.queue # <<>> => n'.queue # <<>> /\ n'.queue[1] = n.queue[1]
    PROVE  /\ \A op : Done(op)' <=> Done(op)
           /\ First' = First /\ OutInv' /\ AnswerInv'
<1>1. /\ \A i \in 1..Len(out') : \E j \in 1..Len(out) :
            out'[i] = out[j] /\ (j = Len(out) => i = Len(out'))
      /\ \A i, j \in 1..Len(out') :
            out'[i].kind \in {"done", "error"} /\ out'[j].kind \in {"done", "error"} => i = j
      /\ \A j \in 1..Len(out) : out[j].kind \in {"done", "error"} =>
            \E i \in 1..Len(out') : out'[i] = out[j]
  BY FewerRecords
<1>2. \A i \in 1..Len(out) : out[i].kind \in {"done", "error"} =>
          /\ n.queue # <<>> /\ n'.queue # <<>> /\ n'.queue[1] = n.queue[1]
          /\ n.queue[1].op \notin {"run", "continue"} => i = Len(out) /\ gdb.inferior # "running"
  BY DEF IInv, OutInv
<1>3. ASSUME NEW op PROVE Done(op)' <=> Done(op)
  BY <1>1, <1>2 DEF Done
<1>4. First' = First
  BY <1>3 DEF First
<1>5. OutInv'
  BY <1>1, <1>2 DEF OutInv
<1>6. AnswerInv'
  <2> SUFFICES ASSUME NEW i \in 1..Len(out'), NEW b, b = out'[i].bps
               PROVE  /\ out'[i].kind = "done" =>
                            /\ InsertDone(b)' /\ ListDone(b)'
                            /\ n'.queue[1].op = "delete" => Gone'
                      /\ out'[i].kind = "error" =>
                            /\ n'.queue[1].op \notin {"insert", "list"}
                            /\ n'.queue[1].op = "commands" => Gone'
    BY DEF AnswerInv, InsertDone, ListDone
  <2>1. PICK j \in 1..Len(out) : out'[i] = out[j]
    BY <1>1
  <2>2. /\ out[j].kind = "done" =>
              /\ InsertDone(out[j].bps) /\ ListDone(out[j].bps)
              /\ n.queue[1].op = "delete" => Gone
        /\ out[j].kind = "error" =>
              /\ n.queue[1].op \notin {"insert", "list"}
              /\ n.queue[1].op = "commands" => Gone
    BY DEF IInv, AnswerInv
  <2>3. out[j].kind \in {"done", "error"} => n'.queue[1] = n.queue[1]
    BY <1>2
  <2>4. out[j].kind = "done" => /\ InsertDone(b)' /\ ListDone(b)'
                                /\ n'.queue[1].op = "delete" => Gone'
    BY <2>1, <2>2, <2>3 DEF InsertDone, ListDone, Gone
  <2>5. out[j].kind = "error" =>
            /\ n'.queue[1].op \notin {"insert", "list"}
            /\ n'.queue[1].op = "commands" => Gone'
    BY <2>2, <2>3 DEF Gone
  <2> QED
    BY <2>1, <2>4, <2>5
<1> QED
  BY <1>3, <1>4, <1>5, <1>6

LEMMA ListingJoined ==
    ASSUME NEW q \in Seq(Command), NEW cs \in Seq(Command)
    PROVE  /\ Listing(q) \/ Listing(cs) => Listing(q \o cs)
           /\ \A id : Commanding(q, id) \/ Commanding(cs, id) => Commanding(q \o cs, id)
<1>1. /\ Len(q \o cs) = Len(q) + Len(cs) /\ Len(q) \in Nat /\ Len(cs) \in Nat
      /\ \A i \in 1..Len(q) : (q \o cs)[i] = q[i]
      /\ \A i \in 1..Len(cs) : (q \o cs)[Len(q) + i] = cs[i]
  BY Joined
<1>2. /\ \A i \in 1..Len(q) : i \in 1..Len(q \o cs)
      /\ \A i \in 1..Len(cs) : Len(q) + i \in 1..Len(q \o cs)
  BY <1>1
<1> QED
  BY <1>1, <1>2 DEF Listing, Commanding

Growing(cs) ==
    /\ n'.queue = n.queue \o cs
    /\ DOMAIN n'.cache = DOMAIN n.cache
    /\ \A id \in DOMAIN n.cache : /\ n'.cache[id].loc = n.cache[id].loc
                                  /\ n'.cache[id].enabled = n.cache[id].enabled
                                  /\ n'.cache[id].count = n.cache[id].count
    /\ n'.cache = n.cache \/ Listing(cs)
    /\ \/ n'.shown = n.shown /\ n'.rows = n.rows
       \/ n'.shown = Nothing /\ n'.rows = NoRows /\ (n.shown = Nothing \/ Listing(cs))
    /\ \A i \in 1..Len(cs) : cs[i].op \in {"enable", "disable"} =>
          \E j \in (i + 1)..Len(cs) : cs[j].op = "list"
    /\ \/ \A i \in 1..Len(cs) : cs[i].op # "insert"
       \/ /\ gdb.next + Inserts <= MaxBps /\ \E c \in Command : cs = <<c>>
          /\ Again => n.queue = <<>>
    /\ Again => \A i \in 1..Len(cs) :
          cs[i].op # "delete" /\ (cs[i].op = "commands" => cs[i].id \in DOMAIN gdb.table)

LEMMA Grows ==
    ASSUME IInv, Typed', Fewer, gdb' = gdb, may' = may, BreakpointsAssumption,
           NEW cs \in Seq(Command), Growing(cs)
    PROVE  IInv'
<1> DEFINE q == n.queue \o cs
<1>1. /\ q = n'.queue /\ q \in Seq(Command) /\ n.queue \in Seq(Command)
      /\ Len(q) = Len(n.queue) + Len(cs) /\ Len(n.queue) \in Nat /\ Len(cs) \in Nat
      /\ \A i \in 1..Len(n.queue) : q[i] = n.queue[i]
      /\ \A i \in 1..Len(cs) : q[Len(n.queue) + i] = cs[i]
  BY Joined DEF Growing, IInv, Typed, Nemiver
<1>2. /\ Listing(n.queue) \/ Listing(cs) => Listing(q)
      /\ \A id : Commanding(n.queue, id) => Commanding(q, id)
  BY <1>1, ListingJoined
<1>3. ASSUME NEW i \in 1..Len(q), i \notin 1..Len(n.queue)
      PROVE  i - Len(n.queue) \in 1..Len(cs) /\ q[i] = cs[i - Len(n.queue)]
  <2>1. i - Len(n.queue) \in 1..Len(cs) /\ Len(n.queue) + (i - Len(n.queue)) = i
    BY <1>1, <1>3
  <2> QED
    BY <1>1, <2>1
<1>3a. Len(q) = Len(n.queue) + Len(cs) /\ Len(n.queue) \in Nat /\ Len(cs) \in Nat
  BY <1>1
<1>3b. ASSUME NEW i \in 1..Len(n.queue) PROVE q[i] = n.queue[i]
  BY <1>1
<1>3c. ASSUME NEW i \in 1..Len(cs) PROVE q[Len(n.queue) + i] = cs[i]
  BY <1>1
<1> HIDE DEF q
<1>4. n.queue # <<>> => n'.queue # <<>> /\ n'.queue[1] = n.queue[1]
  BY <1>1
<1>5. /\ \A op : Done(op)' <=> Done(op)
      /\ First' = First /\ OutInv' /\ AnswerInv'
  BY <1>4, AnswersKept
<1>6. /\ \A i \in 1..Len(out') : \E j \in 1..Len(out) : out'[i] = out[j]
      /\ \A i \in 1..Len(out) : out[i].kind \in {"done", "error"} => n.queue # <<>>
  BY FewerRecords DEF IInv, OutInv
<1>7. Done("delete") => n'.queue[1] = n.queue[1]
  BY <1>4, <1>6 DEF Done
<1>8. ModifiedInv'
  <2> SUFFICES ASSUME NEW i \in 1..Len(out'), out'[i].kind = "modified", NEW b, b = out'[i].bps
               PROVE  \E id \in Ids : ModifiedAs(b, id)'
    BY DEF ModifiedInv, ModifiedAs
  <2>1. PICK id \in Ids : ModifiedAs(b, id)
    BY <1>6 DEF IInv, ModifiedInv
  <2>2. ModifiedAs(b, id)'
    BY <1>5, <1>7, <2>1 DEF ModifiedAs, Growing
  <2> QED
    BY <2>2
<1>9. QueueInv'
  <2>1. ASSUME NEW i \in 1..Len(q), q[i].op \in {"enable", "disable"}
        PROVE  \E j \in (i + 1)..Len(q) : q[j].op = "list"
    <3>1. CASE i \in 1..Len(n.queue)
      <4>1. PICK j \in (i + 1)..Len(n.queue) : n.queue[j].op = "list"
        BY <1>1, <2>1, <3>1 DEF IInv, QueueInv
      <4>2. j \in (i + 1)..Len(q) /\ q[j] = n.queue[j]
        BY <1>1, <3>1
      <4> QED
        BY <4>1, <4>2
    <3>2. CASE i \notin 1..Len(n.queue)
      <4>1. i - Len(n.queue) \in 1..Len(cs) /\ q[i] = cs[i - Len(n.queue)]
        BY <1>3, <3>2
      <4>2. PICK j \in ((i - Len(n.queue)) + 1)..Len(cs) : cs[j].op = "list"
        BY <2>1, <4>1 DEF Growing
      <4>3. Len(n.queue) + j \in (i + 1)..Len(q) /\ q[Len(n.queue) + j] = cs[j]
        <5>1. i \in Int /\ j \in Int /\ j >= i - Len(n.queue) + 1 /\ j <= Len(cs) /\ j \in 1..Len(cs)
          BY <1>1, <4>1
        <5>2. Len(n.queue) + j \in (i + 1)..Len(q)
          BY <1>3a, <5>1
        <5> QED
          BY <1>3c, <5>1, <5>2
      <4> QED
        BY <4>2, <4>3
    <3> QED
      BY <3>1, <3>2
  <2>2. gdb.next + Cardinality(Unread(q, Done("insert"))) <= MaxBps + 1
    <3> DEFINE d == Done("insert")
    <3>0. d \in BOOLEAN
      BY DEF Done
    <3> HIDE DEF d
    <3>1. CASE \A i \in 1..Len(cs) : cs[i].op # "insert"
      <4>1. Unread(q, d) = Unread(n.queue, d)
        BY <1>1, <3>0, <3>1, UnreadJoined DEF q
      <4> QED
        BY <4>1 DEF IInv, QueueInv, d
    <3>2. CASE gdb.next + Inserts <= MaxBps /\ \E c \in Command : cs = <<c>>
      <4>1. PICK c \in Command : cs = <<c>>
        BY <3>2
      <4>2. Cardinality(Unread(q, d)) <= Inserts + 1
        BY <1>1, <3>0, <4>1, UnreadInsert DEF q, Inserts
      <4>3. Cardinality(Unread(q, d)) \in Nat
        BY <1>1, <3>0, UnreadType
      <4>4. Inserts \in Nat
        <5>1. IsFiniteSet(1..Len(n.queue))
          <6>1. Len(n.queue) \in Int /\ 1 \in Int
            BY <1>1
          <6> QED
            BY <6>1, FS_Interval, Zenon
        <5>2. IsFiniteSet({i \in 1..Len(n.queue) : n.queue[i].op = "insert"})
          BY <5>1, FS_Subset
        <5> QED
          BY <5>2, FS_CardinalityType DEF Inserts
      <4>5. gdb.next \in Int /\ MaxBps \in Int
        BY DEF BreakpointsAssumption, IInv, Typed, Gdb
      <4> QED
        BY <3>2, <4>2, <4>3, <4>4, <4>5 DEF d
    <3> QED
      BY <3>1, <3>2 DEF Growing
  <2>3. Done("insert")' = Done("insert")
    BY <1>5 DEF Done
  <2> QED
    BY <1>1, <2>1, <2>2, <2>3 DEF QueueInv
<1>10. AgainInv'
  <2> SUFFICES ASSUME Again PROVE AgainInv'
    BY DEF AgainInv, Again
  <2>1. ASSUME NEW i \in 1..Len(q)
        PROVE  /\ q[i].op # "delete"
               /\ q[i].op = "commands" => q[i].id \in DOMAIN gdb.table
               /\ q[i].op = "insert" =>
                    /\ \A j \in 1..i : q[j].op = "insert"
                    /\ First + i - 1 \in DOMAIN n.cache =>
                          /\ n.cache[First + i - 1].loc = q[i].loc
                          /\ n.cache[First + i - 1].count = q[i].count
    <3>1. CASE i \in 1..Len(n.queue)
      <4>1. q[i] = n.queue[i] /\ \A j \in 1..i : q[j] = n.queue[j]
        <5>1. \A j \in 1..i : j \in 1..Len(n.queue)
          BY <1>3a, <3>1
        <5> QED
          BY <1>3b, <3>1, <5>1
      <4> QED
        BY <3>1, <4>1 DEF IInv, AgainInv
    <3>2. CASE i \notin 1..Len(n.queue)
      <4>1. i - Len(n.queue) \in 1..Len(cs) /\ q[i] = cs[i - Len(n.queue)]
        BY <1>3, <3>2
      <4>2. q[i].op # "delete" /\ (q[i].op = "commands" => q[i].id \in DOMAIN gdb.table)
        BY <4>1 DEF Growing
      <4>3. ASSUME q[i].op = "insert"
            PROVE  i = 1 /\ Len(q) = 1 /\ n.queue = <<>>
        <5>1. n.queue = <<>> /\ Len(cs) = 1
          BY <4>1, <4>3 DEF Growing
        <5> QED
          BY <1>1, <5>1
      <4>4. ASSUME n.queue = <<>>, First \in DOMAIN n.cache PROVE FALSE
        <5>1. First \in Int
          BY DEF IInv, Typed, Gdb, First
        <5>2. First - First + 1 \in 1..Len(n.queue)
          BY <4>4, <5>1 DEF IInv, AgainInv
        <5> QED
          BY <4>4, <5>2
      <4>5. First \in Int
        BY DEF IInv, Typed, Gdb, First
      <4> QED
        BY <4>2, <4>3, <4>4, <4>5
    <3> QED
      BY <3>1, <3>2
  <2>2. ASSUME NEW id \in DOMAIN n.cache, id >= First
        PROVE  id - First + 1 \in 1..Len(q) /\ q[id - First + 1].op = "insert"
    <3>1. id - First + 1 \in 1..Len(n.queue) /\ n.queue[id - First + 1].op = "insert"
      BY <2>2 DEF IInv, AgainInv
    <3> QED
      BY <1>1, <3>1
  <2>3. DOMAIN gdb.table = 1..(gdb.next - 1)
    BY DEF IInv, AgainInv
  <2>4. /\ DOMAIN n'.cache = DOMAIN n.cache
        /\ \A id \in DOMAIN n.cache : n'.cache[id].loc = n.cache[id].loc
                                      /\ n'.cache[id].count = n.cache[id].count
    BY DEF Growing
  <2> QED
    BY <1>1, <1>5, <2>1, <2>2, <2>3, <2>4 DEF AgainInv
<1>11. CacheInv'
  <2>1. DOMAIN n'.cache = DOMAIN n.cache
    BY DEF Growing
  <2>2. /\ DOMAIN gdb'.table \subseteq 1..(gdb'.next - 1)
        /\ \A id \in DOMAIN gdb'.table :
              id \in DOMAIN n'.cache \/ (Done("insert")' /\ id = gdb'.next - 1)
    BY <1>5, <2>1 DEF IInv, CacheInv
  <2>3. ~Again' => \A id \in DOMAIN n'.cache :
           id < First' /\ (id \in DOMAIN gdb'.table \/ (Done("delete")' /\ n'.queue[1].id = id))
    BY <1>5, <1>7, <2>1 DEF IInv, CacheInv, Again
  <2>4. \A id \in DOMAIN gdb'.table \intersect DOMAIN n'.cache :
          /\ n'.cache[id].loc = gdb'.table[id].loc
          /\ \/ n'.cache[id].enabled = gdb'.table[id].enabled
             \/ Listing(n'.queue) \/ id >= First'
    BY <1>1, <1>2, <1>5, <2>1 DEF IInv, CacheInv, Growing
  <2> QED
    BY <2>2, <2>3, <2>4 DEF CacheInv
<1>12. ShownInv'
  <2>1. /\ DOMAIN n.shown \subseteq DOMAIN n.cache
        /\ \A id \in DOMAIN n.shown : id < First
        /\ \A id \in DOMAIN n.cache :
              \/ id \in DOMAIN n.shown /\ n.shown[id] = n.cache[id]
              \/ Listing(n.queue)
              \/ Again /\ (Commanding(n.queue, id) \/ id >= First)
        /\ \A id \in Ids : n.rows[id] = IF id \in DOMAIN n.shown THEN 1 ELSE 0
    BY DEF IInv, ShownInv
  <2>2. DOMAIN Nothing = {} /\ \A id \in Ids : NoRows[id] = 0
    BY DEF Nothing, NoRows
  <2>3. DOMAIN n'.shown \subseteq DOMAIN n'.cache /\ \A id \in DOMAIN n'.shown : id < First'
    BY <1>5, <2>1, <2>2 DEF Growing
  <2>4. \A id \in Ids : n'.rows[id] = IF id \in DOMAIN n'.shown THEN 1 ELSE 0
    BY <2>1, <2>2 DEF Growing
  <2>5. ASSUME NEW id \in DOMAIN n'.cache, ~Listing(q)
        PROVE  \/ id \in DOMAIN n'.shown /\ n'.shown[id] = n'.cache[id]
               \/ Again /\ (Commanding(q, id) \/ id >= First)
    <3>1. n'.cache = n.cache /\ ~Listing(cs) /\ ~Listing(n.queue) /\ id \in DOMAIN n.cache
      BY <1>2, <2>5 DEF Growing
    <3>2. n'.shown = n.shown
      BY <3>1 DEF Growing
    <3> QED
      BY <1>2, <2>1, <3>1, <3>2
  <2> QED
    BY <1>1, <1>5, <2>3, <2>4, <2>5 DEF ShownInv, Again
<1> QED
  BY <1>5, <1>8, <1>9, <1>10, <1>11, <1>12 DEF IInv

-----------------------------------------------------------------------------
(* What the invariant says once all is answered.                           *)

LEMMA WhenQuiet ==
    ASSUME IInv, Quiet
    PROVE  /\ DOMAIN n.cache = DOMAIN gdb.table /\ First = gdb.next
           /\ \A op : ~Done(op)
           /\ CacheIsGdbs /\ ShownIsCached
<1>1. n.queue = <<>> /\ out = <<>>
  BY DEF Quiet
<1>2. First = gdb.next /\ gdb.next \in Int /\ \A op : ~Done(op)
  BY <1>1 DEF Done, First, IInv, Typed, Gdb
<1>3. ~Listing(n.queue) /\ \A id : ~Commanding(n.queue, id)
  BY <1>1 DEF Listing, Commanding
<1>4. /\ n.cache \in Tables(Breakpoint) /\ n.shown \in Tables(Breakpoint)
      /\ gdb.table \in Tables(GdbBreakpoint)
      /\ \A id \in DOMAIN n.cache : id \in Ids /\ id \in Int /\ id >= 1
      /\ \A id \in DOMAIN gdb.table : id \in Int
  BY TableFacts DEF IInv, Typed, Nemiver, Gdb, IsTable, Ids
<1>5. \A id \in DOMAIN n.cache : id < gdb.next
  <2> SUFFICES ASSUME NEW id \in DOMAIN n.cache PROVE id < gdb.next
    OBVIOUS
  <2>1. CASE Again
    <3>1. id >= First => id - First + 1 \in 1..Len(n.queue)
      BY <2>1 DEF IInv, AgainInv
    <3> QED
      BY <1>1, <1>2, <1>4, <3>1
  <2>2. CASE ~Again
    BY <1>2, <2>2 DEF IInv, CacheInv
  <2> QED
    BY <2>1, <2>2
<1>6. DOMAIN n.cache = DOMAIN gdb.table
  <2>1. DOMAIN gdb.table \subseteq DOMAIN n.cache
    BY <1>2 DEF IInv, CacheInv
  <2>2. CASE Again
    <3>1. DOMAIN gdb.table = 1..(gdb.next - 1)
      BY <2>2 DEF IInv, AgainInv
    <3>2. \A id \in DOMAIN n.cache : id \in 1..(gdb.next - 1)
      BY <1>2, <1>4, <1>5
    <3> QED
      BY <2>1, <3>1, <3>2
  <2>3. CASE ~Again
    BY <1>2, <2>1, <2>3 DEF IInv, CacheInv
  <2> QED
    BY <2>2, <2>3
<1>7. CacheIsGdbs
  <2>1. \A id \in DOMAIN n.cache : ~(id >= First)
    BY <1>2, <1>4, <1>5
  <2> QED
    BY <1>3, <1>6, <2>1 DEF CacheIsGdbs, IInv, CacheInv
<1>8. \A id \in DOMAIN n.cache : id \in DOMAIN n.shown /\ n.shown[id] = n.cache[id]
  <2>1. \A id \in DOMAIN n.cache : ~(id >= First)
    BY <1>2, <1>4, <1>5
  <2> QED
    BY <1>3, <2>1 DEF IInv, ShownInv
<1>9. DOMAIN n.shown = DOMAIN n.cache
  BY <1>8 DEF IInv, ShownInv
<1>10. n.shown = n.cache
  <2>1. n.shown \in [DOMAIN n.cache -> Breakpoint] /\ n.cache \in [DOMAIN n.cache -> Breakpoint]
    BY <1>4, <1>9, TableFacts DEF IsTable
  <2> QED
    BY <1>8, <2>1
<1>11. ShownIsCached
  BY <1>9, <1>10 DEF ShownIsCached, IInv, ShownInv
<1> QED
  BY <1>2, <1>6, <1>7, <1>11

-----------------------------------------------------------------------------
(* The user.                                                               *)

LEMMA Queued ==
    ASSUME NEW s \in Nemiver, NEW cs \in Seq(Command)
    PROVE  /\ Queue(s, cs) \in Nemiver
           /\ Queue(s, cs).queue = s.queue \o cs /\ Queue(s, cs).cache = s.cache
           /\ Queue(s, cs).shown = s.shown /\ Queue(s, cs).rows = s.rows
<1>1. s.queue \o cs \in Seq(Command)
  BY Joined DEF Nemiver
<1> QED
  BY <1>1 DEF Queue, Nemiver

LEMMA Overlaid ==
    ASSUME NEW K, NEW S, NEW f, NEW g, IsTable(f, K, S), IsTable(g, K, S)
    PROVE  /\ IsTable(Over(f, g), K, S) /\ DOMAIN Over(f, g) = DOMAIN f \union DOMAIN g
           /\ \A x \in DOMAIN f \union DOMAIN g :
                 Over(f, g)[x] = IF x \in DOMAIN g THEN g[x] ELSE f[x]
BY DEF Over, IsTable

LEMMA Single ==
    ASSUME NEW K, NEW S, NEW x \in K, NEW v \in S
    PROVE  IsTable(One(x, v), K, S) /\ DOMAIN One(x, v) = {x} /\ One(x, v)[x] = v
BY DEF One, IsTable

LEMMA Removed ==
    ASSUME NEW K, NEW S, NEW f, NEW x, IsTable(f, K, S)
    PROVE  /\ IsTable(Without(f, x), K, S) /\ DOMAIN Without(f, x) = DOMAIN f \ {x}
           /\ \A y \in DOMAIN f \ {x} : Without(f, x)[y] = f[y]
BY DEF Without, Restrict, IsTable

LEMMA Chosen ==
    ASSUME IInv, NEW id \in DOMAIN n.shown
    PROVE  /\ id \in Ids /\ id \in DOMAIN n.cache /\ n.shown[id] \in Breakpoint
           /\ Wanted(id) \in Breakpoint
           /\ \A b \in Breakpoint : IsTable(Change(id, b), Locs, Breakpoint)
<1>1. id \in Ids /\ n.shown[id] \in Breakpoint /\ IsTable(wanted, Locs, Breakpoint)
  BY TableFacts DEF IInv, Typed, Nemiver, IsTable
<1>2. n.shown[id].loc \in Locs
  BY <1>1 DEF Breakpoint
<1>3. Wanted(id) \in Breakpoint
  BY <1>1, <1>2 DEF Wanted, IsTable
<1>4. ASSUME NEW b \in Breakpoint PROVE IsTable(Change(id, b), Locs, Breakpoint)
  <2> DEFINE g == One(n.shown[id].loc, b)
  <2>1. IsTable(g, Locs, Breakpoint)
    BY <1>2, Single
  <2> HIDE DEF g
  <2>2. IsTable(Over(wanted, g), Locs, Breakpoint)
    BY <1>1, <2>1, Overlaid, Zenon
  <2> QED
    BY <1>1, <2>2 DEF Change, g
<1> QED
  BY <1>1, <1>3, <1>4 DEF IInv, ShownInv

(* An action that only adds commands.                                      *)
LEMMA Presses ==
    ASSUME IInv, BreakpointsAssumption, NEW cs \in Seq(Command), NEW w,
           Press(Queue(n, cs), w), IsTable(w, Locs, Breakpoint),
           \A i \in 1..Len(cs) : cs[i].op \in {"enable", "disable"} =>
               \E j \in (i + 1)..Len(cs) : cs[j].op = "list",
           \/ \A i \in 1..Len(cs) : cs[i].op # "insert"
           \/ /\ gdb.next + Inserts <= MaxBps /\ \E c \in Command : cs = <<c>>
              /\ Again => n.queue = <<>>,
           Again => \A i \in 1..Len(cs) :
               cs[i].op # "delete" /\ (cs[i].op = "commands" => cs[i].id \in DOMAIN gdb.table)
    PROVE  IInv'
<1>1. n \in Nemiver
  BY DEF IInv, Typed
<1>2. /\ n' \in Nemiver /\ n'.queue = n.queue \o cs /\ n'.cache = n.cache
      /\ n'.shown = n.shown /\ n'.rows = n.rows
      /\ gdb' = gdb /\ may' = may /\ Fewer
  BY <1>1, Queued DEF Press, Fewer
<1>3. Typed'
  BY <1>2 DEF IInv, Typed, Press
<1>4. Growing(cs)
  BY <1>2 DEF Growing
<1> QED
  BY <1>2, <1>3, <1>4, Grows

LEMMA Patience ==
    ASSUME PatientRestarts, may \in Scenarios, Again
    PROVE  Waits /\ "delete" \notin may
BY DEF PatientRestarts, Again, Waits

LEMMA UserQueues ==
    ASSUME IInv, PatientRestarts, BreakpointsAssumption,
           \/ \E loc \in Locs, count \in BOOLEAN : SetBreakpoint(loc, count)
           \/ \E id \in DOMAIN n.shown :
                 DeleteBreakpoint(id) \/ ToggleEnabled(id) \/ ToggleCountpoint(id)
           \/ Continue
    PROVE  IInv'
<1>1. may \in Scenarios /\ IsTable(wanted, Locs, Breakpoint) /\ n \in Nemiver
  BY DEF IInv, Typed
<1>2. CASE \E loc \in Locs, count \in BOOLEAN : SetBreakpoint(loc, count)
  <2>1. PICK loc \in Locs, count \in BOOLEAN : SetBreakpoint(loc, count)
    BY <1>2
  <2> DEFINE c == [op |-> "insert", loc |-> loc, count |-> count, n |-> 0]
             b == [loc |-> loc, enabled |-> TRUE, count |-> count, initial |-> 0]
             w == Over(wanted, One(loc, b))
  <2>2. c \in Command /\ c.op = "insert" /\ b \in Breakpoint
    BY Commands DEF Breakpoint
  <2>3. Press(Queue(n, <<c>>), w) /\ gdb.next + Inserts <= MaxBps /\ Free
    BY <2>1 DEF SetBreakpoint, Insert
  <2> HIDE DEF c, b
  <2>4. IsTable(w, Locs, Breakpoint)
    BY <1>1, <2>2, Single, Overlaid
  <2>5. Again => n.queue = <<>>
    BY <1>1, <2>3, Patience DEF Free, Quiet
  <2>6. /\ <<c>> \in Seq(Command) /\ Len(<<c>>) = 1
        /\ \A i \in 1..Len(<<c>>) : <<c>>[i].op = "insert"
    BY <2>2
  <2> HIDE DEF w
  <2> QED
    BY <2>2, <2>3, <2>4, <2>5, <2>6, Presses
<1>3. ASSUME NEW id \in DOMAIN n.shown, DeleteBreakpoint(id) PROVE IInv'
  <2> DEFINE c == [op |-> "delete", id |-> id]
             w == Without(wanted, n.shown[id].loc)
  <2>1. c \in Command /\ c.op = "delete"
    BY Chosen, Commands
  <2>2. Press(Queue(n, <<c>>), w) /\ ~Again
    BY <1>1, <1>3, Patience DEF DeleteBreakpoint
  <2>3. IsTable(w, Locs, Breakpoint)
    BY <1>1, Removed
  <2> HIDE DEF c, w
  <2>4. <<c>> \in Seq(Command) /\ \A i \in 1..Len(<<c>>) : <<c>>[i].op = "delete"
    BY <2>1
  <2> QED
    BY <2>2, <2>3, <2>4, Presses
<1>4. ASSUME NEW id \in DOMAIN n.shown, ToggleEnabled(id) PROVE IInv'
  <2> DEFINE on == ~n.shown[id].enabled
             c == [op |-> IF on THEN "enable" ELSE "disable", id |-> id]
             d == [op |-> "list"]
             w == Change(id, [Wanted(id) EXCEPT !.enabled = on])
  <2>1. c \in Command /\ c.op \in {"enable", "disable"} /\ d \in Command /\ d.op = "list"
    BY Chosen, Commands
  <2>2. Press(Queue(n, <<c, d>>), w)
    BY <1>4 DEF ToggleEnabled
  <2>3. IsTable(w, Locs, Breakpoint)
    <3>1. Wanted(id) \in Breakpoint
      BY Chosen
    <3>2. [Wanted(id) EXCEPT !.enabled = on] \in Breakpoint
      BY <3>1 DEF Breakpoint
    <3> QED
      BY <3>2, Chosen
  <2> HIDE DEF c, d, w
  <2>4. /\ <<c, d>> \in Seq(Command) /\ Len(<<c, d>>) = 2
        /\ <<c, d>>[1] = c /\ <<c, d>>[2] = d
    BY <2>1
  <2>5. \A i \in 1..Len(<<c, d>>) : <<c, d>>[i].op \notin {"insert", "delete", "commands"}
    BY <2>1, <2>4
  <2>6. \A i \in 1..Len(<<c, d>>) : <<c, d>>[i].op \in {"enable", "disable"} =>
            \E j \in (i + 1)..Len(<<c, d>>) : <<c, d>>[j].op = "list"
    BY <2>1, <2>4
  <2> QED
    BY <2>2, <2>3, <2>4, <2>5, <2>6, Presses
<1>5. ASSUME NEW id \in DOMAIN n.shown, ToggleCountpoint(id) PROVE IInv'
  <2> DEFINE yes == ~n.shown[id].count
             c == [op |-> "commands", id |-> id, yes |-> yes]
             w == Change(id, [Wanted(id) EXCEPT !.count = yes])
  <2>1. c \in Command /\ c.op = "commands" /\ c.id = id /\ id \in DOMAIN n.cache
    BY Chosen, Commands
  <2>2. Press(Queue(n, <<c>>), w) /\ Free
    BY <1>5, <2>1 DEF ToggleCountpoint, EnableCountpoint
  <2>3. IsTable(w, Locs, Breakpoint)
    <3>1. Wanted(id) \in Breakpoint
      BY Chosen
    <3>2. [Wanted(id) EXCEPT !.count = yes] \in Breakpoint
      BY <3>1 DEF Breakpoint
    <3> QED
      BY <3>2, Chosen
  <2>4. Again => id \in DOMAIN gdb.table
    BY <1>1, <2>1, <2>2, Patience, WhenQuiet DEF Free
  <2> HIDE DEF c, w
  <2>5. <<c>> \in Seq(Command) /\ \A i \in 1..Len(<<c>>) : <<c>>[i] = c
    BY <2>1
  <2> QED
    BY <2>1, <2>2, <2>3, <2>4, <2>5, Presses
<1>6. CASE Continue
  <2> DEFINE c == [op |-> "continue"]
  <2>1. c \in Command /\ c.op = "continue" /\ Press(Queue(n, <<c>>), wanted)
    BY <1>6, Commands DEF Continue
  <2> HIDE DEF c
  <2>2. <<c>> \in Seq(Command) /\ \A i \in 1..Len(<<c>>) : <<c>>[i].op = "continue"
    BY <2>1
  <2> QED
    BY <1>1, <2>1, <2>2, Presses
<1> QED
  BY <1>2, <1>3, <1>4, <1>5, <1>6

Counted(b, k) == [b EXCEPT !.initial = k]

LEMMA CountedFacts ==
    ASSUME NEW b \in Breakpoint, NEW k
    PROVE  /\ k \in Nat => Counted(b, k) \in Breakpoint
           /\ Counted(b, k).loc = b.loc /\ Counted(b, k).enabled = b.enabled
           /\ Counted(b, k).count = b.count /\ Counted(b, k).initial = k
BY DEF Counted, Breakpoint

(* t is s with the ignore count of id cached and queued for GDB.           *)
Ignoring(s, id, count, t) ==
    /\ t \in Nemiver
    /\ t.queue = s.queue \o <<[op |-> "after", id |-> id, n |-> count], [op |-> "list"]>>
    /\ DOMAIN t.cache = DOMAIN s.cache
    /\ \A x \in DOMAIN s.cache :
          t.cache[x] = IF x = id THEN Counted(s.cache[x], count) ELSE s.cache[x]
    /\ t.shown = s.shown /\ t.rows = s.rows

LEMMA Ignored ==
    ASSUME NEW s \in Nemiver, NEW id \in Ids, NEW count \in Nat
    PROVE  Ignoring(s, id, count, Ignore(s, id, count))
<1> DEFINE cs == <<[op |-> "after", id |-> id, n |-> count], [op |-> "list"]>>
           t == Queue(s, cs)
           c == [s.cache EXCEPT ![id] = Counted(@, count)]
<1>1. cs \in Seq(Command)
  BY Commands
<1> HIDE DEF cs
<1>2. t \in Nemiver /\ t.queue = s.queue \o cs /\ t.cache = s.cache /\ t.shown = s.shown
      /\ t.rows = s.rows
  BY <1>1, Queued
<1>3. CASE id \notin DOMAIN s.cache
  BY <1>2, <1>3 DEF Ignore, cs, Ignoring
<1>4. CASE id \in DOMAIN s.cache
  <2>1. IsTable(s.cache, Ids, Breakpoint)
    BY TableFacts DEF Nemiver
  <2>2. IsTable(c, Ids, Breakpoint) /\ DOMAIN c = DOMAIN s.cache
        /\ \A x \in DOMAIN s.cache : c[x] =
              IF x = id THEN Counted(s.cache[x], count) ELSE s.cache[x]
    <3>1. s.cache[id] \in Breakpoint
      BY <1>4, <2>1 DEF IsTable
    <3>2. Counted(s.cache[id], count) \in Breakpoint
      BY <3>1, CountedFacts
    <3> QED
      BY <1>4, <2>1, <3>2 DEF IsTable
  <2>3. Ignore(s, id, count) = [t EXCEPT !.cache = c]
    BY <1>2, <1>4 DEF Ignore, Nemiver, Counted, cs
  <2>4. c \in Tables(Breakpoint)
    BY <2>2, TableFacts
  <2> HIDE DEF c, t
  <2>5. /\ [t EXCEPT !.cache = c] \in Nemiver
        /\ [t EXCEPT !.cache = c].queue = t.queue /\ [t EXCEPT !.cache = c].cache = c
        /\ [t EXCEPT !.cache = c].shown = t.shown /\ [t EXCEPT !.cache = c].rows = t.rows
    BY <1>2, <2>4 DEF Nemiver
  <2> QED
    BY <1>2, <2>2, <2>3, <2>5 DEF cs, Ignoring
<1> QED
  BY <1>3, <1>4

LEMMA EditQueues ==
    ASSUME IInv, BreakpointsAssumption, NEW id \in DOMAIN n.shown, NEW count \in 0..MaxIgnore,
           EditIgnoreCount(id, count)
    PROVE  IInv'
<1> DEFINE c == [op |-> "after", id |-> id, n |-> count]
           d == [op |-> "list"]
           w == Change(id, [Wanted(id) EXCEPT !.initial = count])
<1>0. count \in Nat /\ id \in Ids /\ n \in Nemiver
  BY Chosen DEF BreakpointsAssumption, IInv, Typed
<1>1. c \in Command /\ c.op = "after" /\ d \in Command /\ d.op = "list"
  BY <1>0, Commands
<1>2. /\ n' \in Nemiver /\ n'.queue = n.queue \o <<c, d>>
      /\ DOMAIN n'.cache = DOMAIN n.cache
      /\ \A x \in DOMAIN n.cache : n'.cache[x] =
            IF x = id THEN Counted(n.cache[x], count) ELSE n.cache[x]
      /\ n'.shown = n.shown /\ n'.rows = n.rows
      /\ gdb' = gdb /\ out' = out /\ may' = may /\ wanted' = w
  <2>1. /\ n' = Ignore(n, id, count)
        /\ gdb' = gdb /\ out' = out /\ may' = may /\ wanted' = w
    BY DEF EditIgnoreCount, Press
  <2> HIDE DEF w
  <2>2. Ignoring(n, id, count, n')
    BY <1>0, <2>1, Ignored
  <2> QED
    BY <2>1, <2>2 DEF Ignoring
<1>3. IsTable(w, Locs, Breakpoint)
  <2>1. Wanted(id) \in Breakpoint
    BY Chosen
  <2>2. [Wanted(id) EXCEPT !.initial = count] \in Breakpoint
    BY <1>0, <2>1 DEF Breakpoint
  <2> QED
    BY <2>2, Chosen
<1>4. \A x \in DOMAIN n.cache : /\ n'.cache[x].loc = n.cache[x].loc
                                /\ n'.cache[x].enabled = n.cache[x].enabled
                                /\ n'.cache[x].count = n.cache[x].count
  <2> SUFFICES ASSUME NEW x \in DOMAIN n.cache
               PROVE  /\ n'.cache[x].loc = n.cache[x].loc
                      /\ n'.cache[x].enabled = n.cache[x].enabled
                      /\ n'.cache[x].count = n.cache[x].count
    OBVIOUS
  <2>1. n.cache[x] \in Breakpoint
    BY <1>0, TableFacts DEF Nemiver, IsTable
  <2>2. n'.cache[x] = IF x = id THEN Counted(n.cache[x], count) ELSE n.cache[x]
    BY <1>2
  <2>3. /\ Counted(n.cache[x], count).loc = n.cache[x].loc
        /\ Counted(n.cache[x], count).enabled = n.cache[x].enabled
        /\ Counted(n.cache[x], count).count = n.cache[x].count
    BY <2>1, CountedFacts, Zenon
  <2> QED
    BY <2>1, <2>2, <2>3
<1> HIDE DEF c, d, w
<1>5. /\ <<c, d>> \in Seq(Command) /\ Len(<<c, d>>) = 2
      /\ <<c, d>>[1] = c /\ <<c, d>>[2] = d
  BY <1>1
<1>6. /\ Listing(<<c, d>>)
      /\ \A i \in 1..Len(<<c, d>>) : <<c, d>>[i].op \in {"after", "list"}
  BY <1>1, <1>5 DEF Listing
<1>7. Growing(<<c, d>>)
  BY <1>2, <1>4, <1>6 DEF Growing
<1>8. Typed'
  BY <1>2, <1>3 DEF IInv, Typed
<1> QED
  BY <1>2, <1>5, <1>7, <1>8, Grows DEF Fewer

(* The commands that set the ignore counts again.                          *)
LEMMA IgnoreCommandsType ==
    ASSUME NEW s \in Nemiver, BreakpointsAssumption
    PROVE  /\ IgnoreCommands(s) \in Seq(Command)
           /\ \A i \in 1..Len(IgnoreCommands(s)) : IgnoreCommands(s)[i].op \in {"after", "list"}
           /\ s.shown = Nothing => IgnoreCommands(s) = <<>>
           /\ s.shown # Nothing => Listing(IgnoreCommands(s))
<1> DEFINE ids == InOrder(DOMAIN s.shown)
           f == [i \in 1..(2 * Len(ids)) |->
                    IF i % 2 = 1
                    THEN [op |-> "after", id |-> ids[(i + 1) \div 2],
                          n |-> s.shown[ids[(i + 1) \div 2]].initial]
                    ELSE [op |-> "list"]]
<1>1. IsTable(s.shown, Ids, Breakpoint)
  BY TableFacts DEF Nemiver
<1>2. /\ ids \in Seq(DOMAIN s.shown) /\ Len(ids) \in Nat
      /\ DOMAIN s.shown # {} => Len(ids) # 0
      /\ DOMAIN s.shown = {} => Len(ids) = 0
  <2>1. DOMAIN s.shown \in SUBSET Ids
    BY <1>1 DEF IsTable
  <2> QED
    BY <2>1, InOrderType, FS_EmptySet
<1>3. IgnoreCommands(s) = f
  BY DEF IgnoreCommands
<1> HIDE DEF ids
<1>4. ASSUME NEW i \in 1..(2 * Len(ids)) PROVE f[i] \in Command /\ f[i].op \in {"after", "list"}
  <2>1. CASE i % 2 = 1
    <3>1. (i + 1) \div 2 \in 1..Len(ids)
      BY <1>2, <2>1
    <3>2. PICK id \in DOMAIN s.shown : id = ids[(i + 1) \div 2]
      BY <1>2, <3>1
    <3>3. id \in Ids /\ s.shown[id].initial \in Nat
      BY <1>1 DEF IsTable, Breakpoint
    <3>4. f[i] = [op |-> "after", id |-> id, n |-> s.shown[id].initial]
      BY <2>1, <3>2
    <3> QED
      BY <3>3, <3>4, Commands
  <2>2. CASE i % 2 # 1
    <3>1. f[i] = [op |-> "list"]
      BY <2>2
    <3> QED
      BY <3>1, Commands
  <2> QED
    BY <2>1, <2>2
<1>5. f \in Seq(Command) /\ Len(f) = 2 * Len(ids)
  <2>1. f \in [1..(2 * Len(ids)) -> Command]
    BY <1>4
  <2>2. 2 * Len(ids) \in Nat
    BY <1>2
  <2> HIDE DEF f
  <2> QED
    BY <2>1, <2>2
<1>6. s.shown # Nothing => DOMAIN s.shown # {}
  BY <1>1, EmptyTable
<1>7. DOMAIN s.shown # {} => 2 \in 1..Len(f) /\ f[2] = [op |-> "list"]
  <2>1. DOMAIN s.shown # {} => 2 \in 1..(2 * Len(ids))
    BY <1>2
  <2> QED
    BY <1>5, <2>1
<1>8. s.shown = Nothing => f = <<>>
  <2>1. s.shown = Nothing => Len(f) = 0
    BY <1>2, <1>5 DEF Nothing
  <2> HIDE DEF f
  <2> QED
    BY <1>5, <2>1
<1>9. \A i \in 1..Len(f) : f[i].op \in {"after", "list"}
  BY <1>4, <1>5
<1>10. s.shown # Nothing => Listing(f)
  <2> HIDE DEF f
  <2> QED
    BY <1>6, <1>7 DEF Listing
<1> QED
  BY <1>3, <1>5, <1>8, <1>9, <1>10

LEMMA RunAgain ==
    ASSUME NEW s \in Nemiver, BreakpointsAssumption
    PROVE  /\ Run(s) \in Nemiver
           /\ Run(s).queue = (s.queue \o IgnoreCommands(s)) \o <<[op |-> "run"]>>
           /\ DOMAIN Run(s).cache = DOMAIN s.cache
           /\ \A id \in DOMAIN s.cache : Run(s).cache[id] =
                 IF id \in DOMAIN s.shown
                 THEN Counted(s.cache[id], s.shown[id].initial) ELSE s.cache[id]
           /\ Run(s).shown = Nothing /\ Run(s).rows = NoRows
<1> DEFINE cs == IgnoreCommands(s)
           t == Queue(s, cs)
           c == [id \in DOMAIN s.cache |->
                    IF id \in DOMAIN s.shown
                    THEN Counted(s.cache[id], s.shown[id].initial) ELSE s.cache[id]]
<1>1. cs \in Seq(Command)
  BY IgnoreCommandsType
<1> HIDE DEF cs
<1>2. t \in Nemiver /\ t.queue = s.queue \o cs /\ t.cache = s.cache /\ t.shown = s.shown
      /\ t.rows = s.rows
  BY <1>1, Queued
<1>3. c \in Tables(Breakpoint)
  <2>1. IsTable(s.cache, Ids, Breakpoint) /\ IsTable(s.shown, Ids, Breakpoint)
    BY TableFacts DEF Nemiver
  <2>2. ASSUME NEW id \in DOMAIN s.cache PROVE c[id] \in Breakpoint
    <3>1. s.cache[id] \in Breakpoint /\ (id \in DOMAIN s.shown => s.shown[id] \in Breakpoint)
      BY <2>1 DEF IsTable
    <3>2. id \in DOMAIN s.shown => s.shown[id].initial \in Nat
      BY <3>1 DEF Breakpoint
    <3> QED
      BY <3>1, <3>2, CountedFacts
  <2> QED
    BY <2>1, <2>2, TableFacts DEF IsTable
<1>4. IgnoreAgain(s) = [t EXCEPT !.cache = c]
  BY <1>2 DEF IgnoreAgain, Counted, cs
<1>5. Nothing \in Tables(Breakpoint) /\ NoRows \in [Ids -> Nat]
  BY TableFacts, EmptyTable DEF NoRows
<1> HIDE DEF c, t
<1>6. PICK u : /\ u = [t EXCEPT !.cache = c] /\ u \in Nemiver /\ u.cache = c
               /\ u.queue = t.queue /\ u.shown = t.shown /\ u.rows = t.rows
  <2>1. /\ [t EXCEPT !.cache = c] \in Nemiver /\ [t EXCEPT !.cache = c].cache = c
        /\ [t EXCEPT !.cache = c].queue = t.queue /\ [t EXCEPT !.cache = c].shown = t.shown
        /\ [t EXCEPT !.cache = c].rows = t.rows
    BY <1>2, <1>3 DEF Nemiver
  <2> QED
    BY <2>1
<1>7. PICK v : /\ v = [u EXCEPT !.rows = NoRows] /\ v \in Nemiver /\ v.cache = c
               /\ v.queue = t.queue /\ v.rows = NoRows
  <2>1. /\ [u EXCEPT !.rows = NoRows] \in Nemiver /\ [u EXCEPT !.rows = NoRows].cache = c
        /\ [u EXCEPT !.rows = NoRows].queue = t.queue /\ [u EXCEPT !.rows = NoRows].rows = NoRows
    BY <1>5, <1>6 DEF Nemiver
  <2> QED
    BY <2>1
<1>8. PICK x : /\ x = [v EXCEPT !.shown = Nothing] /\ x \in Nemiver /\ x.cache = c
               /\ x.queue = t.queue /\ x.rows = NoRows /\ x.shown = Nothing
  <2>1. /\ [v EXCEPT !.shown = Nothing] \in Nemiver /\ [v EXCEPT !.shown = Nothing].cache = c
        /\ [v EXCEPT !.shown = Nothing].queue = t.queue
        /\ [v EXCEPT !.shown = Nothing].rows = NoRows
        /\ [v EXCEPT !.shown = Nothing].shown = Nothing
    BY <1>5, <1>7 DEF Nemiver
  <2> QED
    BY <2>1
<1>9. GoingToRun(s) = x
  BY <1>4, <1>6, <1>7, <1>8 DEF GoingToRun
<1>10. <<[op |-> "run"]>> \in Seq(Command)
  BY Commands
<1>11. Run(s) = Queue(x, <<[op |-> "run"]>>)
  BY <1>9 DEF Run
<1>12. /\ Run(s) \in Nemiver /\ Run(s).queue = (s.queue \o cs) \o <<[op |-> "run"]>>
       /\ Run(s).cache = c /\ Run(s).shown = Nothing /\ Run(s).rows = NoRows
  <2> DEFINE rs == <<[op |-> "run"]>>
  <2> HIDE DEF rs
  <2>1. rs \in Seq(Command) /\ Run(s) = Queue(x, rs)
    BY <1>10, <1>11 DEF rs
  <2>2. /\ Queue(x, rs) \in Nemiver /\ Queue(x, rs).queue = x.queue \o rs
        /\ Queue(x, rs).cache = x.cache /\ Queue(x, rs).shown = x.shown
        /\ Queue(x, rs).rows = x.rows
    BY <1>8, <2>1, Queued, Zenon
  <2> QED
    BY <1>2, <1>8, <2>1, <2>2 DEF rs
<1> QED
  BY <1>12 DEF cs, c

LEMMA RerunQueues ==
    ASSUME IInv, BreakpointsAssumption, Rerun
    PROVE  IInv'
<1> DEFINE cs == IgnoreCommands(n)
           r == [op |-> "run"]
<1>1. /\ n \in Nemiver /\ IsTable(wanted, Locs, Breakpoint) /\ may \in Scenarios
      /\ n.queue \in Seq(Command)
  BY DEF IInv, Typed, Nemiver
<1>2. r \in Command /\ r.op = "run"
  BY Commands
<1>3. /\ cs \in Seq(Command) /\ \A i \in 1..Len(cs) : cs[i].op \in {"after", "list"}
      /\ n.shown = Nothing \/ Listing(cs)
  BY <1>1, IgnoreCommandsType
<1>4. /\ n' \in Nemiver /\ n'.queue = (n.queue \o cs) \o <<r>>
      /\ DOMAIN n'.cache = DOMAIN n.cache
      /\ \A id \in DOMAIN n.cache : n'.cache[id] =
            IF id \in DOMAIN n.shown
            THEN Counted(n.cache[id], n.shown[id].initial) ELSE n.cache[id]
      /\ n'.shown = Nothing /\ n'.rows = NoRows
      /\ gdb' = gdb /\ out' = out /\ may' = may /\ wanted' = wanted
  BY <1>1, RunAgain DEF Rerun, Press
<1> HIDE DEF cs, r
<1>5. /\ <<r>> \in Seq(Command) /\ Len(<<r>>) = 1 /\ <<r>>[1] = r
      /\ cs \o <<r>> \in Seq(Command)
      /\ n'.queue = n.queue \o (cs \o <<r>>)
  <2>1. <<r>> \in Seq(Command) /\ Len(<<r>>) = 1 /\ <<r>>[1] = r
    BY <1>2
  <2>2. cs \o <<r>> \in Seq(Command)
    BY <1>3, <2>1, Joined, Zenon
  <2>3. n.queue \o (cs \o <<r>>) = (n.queue \o cs) \o <<r>>
    <3> DEFINE rs == <<r>>
    <3>1. rs \in Seq(Command)
      BY <2>1
    <3> HIDE DEF rs
    <3>2. (n.queue \o cs) \o rs = n.queue \o (cs \o rs)
      <4>1. n.queue \in Seq(Command) /\ cs \in Seq(Command)
        BY <1>1, <1>3
      <4> QED
        BY <3>1, <4>1, Associative
    <3> QED
      BY <3>2 DEF rs
  <2> QED
    BY <1>4, <2>1, <2>2, <2>3
<1>6. \A i \in 1..Len(cs \o <<r>>) : (cs \o <<r>>)[i].op \in {"after", "list", "run"}
  BY <1>2, <1>3, <1>5, Joined
<1>7. n.shown = Nothing \/ Listing(cs \o <<r>>)
  BY <1>3, <1>5, ListingJoined
<1>8. \A id \in DOMAIN n.cache : /\ n'.cache[id].loc = n.cache[id].loc
                                 /\ n'.cache[id].enabled = n.cache[id].enabled
                                 /\ n'.cache[id].count = n.cache[id].count
  <2> SUFFICES ASSUME NEW id \in DOMAIN n.cache
               PROVE  /\ n'.cache[id].loc = n.cache[id].loc
                      /\ n'.cache[id].enabled = n.cache[id].enabled
                      /\ n'.cache[id].count = n.cache[id].count
    OBVIOUS
  <2>1. n.cache[id] \in Breakpoint
    BY <1>1, TableFacts DEF Nemiver, IsTable
  <2>2. PICK k : k = n.shown[id].initial
    OBVIOUS
  <2>3. n'.cache[id] = IF id \in DOMAIN n.shown THEN Counted(n.cache[id], k)
                       ELSE n.cache[id]
    BY <1>4, <2>2
  <2>4. /\ Counted(n.cache[id], k).loc = n.cache[id].loc
        /\ Counted(n.cache[id], k).enabled = n.cache[id].enabled
        /\ Counted(n.cache[id], k).count = n.cache[id].count
    BY <2>1, CountedFacts, Zenon
  <2> QED
    BY <2>1, <2>3, <2>4
<1>9. n.shown = Nothing => n'.cache = n.cache
  <2>1. n.cache \in [DOMAIN n.cache -> Breakpoint] /\ n'.cache \in [DOMAIN n'.cache -> Breakpoint]
    BY <1>1, <1>4, TableFacts DEF Nemiver, IsTable
  <2>2. n.shown = Nothing => \A id \in DOMAIN n.cache : n'.cache[id] = n.cache[id]
    BY <1>4 DEF Nothing
  <2> QED
    BY <1>4, <2>1, <2>2
<1>10. Growing(cs \o <<r>>)
  BY <1>4, <1>5, <1>6, <1>7, <1>8, <1>9 DEF Growing
<1>11. Typed'
  BY <1>4 DEF IInv, Typed
<1> QED
  BY <1>4, <1>5, <1>10, <1>11, Grows DEF Fewer

(* A new GDB is asked for k breakpoints and to run: it has nothing yet, and *)
(* nothing is shown.                                                        *)
LEMMA NewGdbs ==
    ASSUME BreakpointsAssumption, Typed', NEW k \in 0..MaxBps, gdb' = NewGdb, out' = <<>>,
           n'.shown = Nothing, n'.rows = NoRows,
           NEW q \in Seq(Command), n'.queue = q \o <<[op |-> "run"]>>, Len(q) = k,
           \A i \in 1..k : q[i].op = "insert",
           \/ n'.cache = Nothing
           \/ /\ Again' /\ DOMAIN n'.cache = 1..k
              /\ \A i \in 1..k : n'.cache[i].loc = q[i].loc /\ n'.cache[i].count = q[i].count
    PROVE  IInv'
<1> DEFINE p == q \o <<[op |-> "run"]>>
<1>1. /\ p \in Seq(Command) /\ Len(p) = k + 1
      /\ k \in Nat /\ MaxBps \in Nat /\ k <= MaxBps
      /\ \A i \in 1..k : p[i] = q[i]
      /\ p[k + 1] = [op |-> "run"]
  <2> DEFINE r == [op |-> "run"]
  <2>1. r \in Command
    BY Commands
  <2> HIDE DEF r
  <2>2. <<r>> \in Seq(Command) /\ Len(<<r>>) = 1 /\ <<r>>[1] = r
    BY <2>1
  <2>3. p = q \o <<r>> /\ r = [op |-> "run"]
    BY DEF r
  <2>4. k \in Nat /\ MaxBps \in Nat /\ k <= MaxBps
    BY DEF BreakpointsAssumption
  <2> DEFINE rs == <<r>>
  <2>5. rs \in Seq(Command) /\ Len(rs) = 1 /\ rs[1] = r /\ 1 \in 1..Len(rs)
    BY <2>2
  <2> HIDE DEF rs
  <2>6. /\ q \o rs \in Seq(Command) /\ Len(q \o rs) = Len(q) + Len(rs)
        /\ \A i \in 1..Len(q) : (q \o rs)[i] = q[i]
        /\ \A i \in 1..Len(rs) : (q \o rs)[Len(q) + i] = rs[i]
    BY <2>5, JoinedCommands
  <2>7. p = q \o rs
    BY <2>3 DEF rs
  <2> HIDE DEF p
  <2> QED
    BY <2>3, <2>4, <2>5, <2>6, <2>7
<1> HIDE DEF p
<1>2. \A op : ~Done(op)'
  BY DEF Done
<1>3. /\ gdb'.table = Nothing /\ gdb'.next = 1 /\ DOMAIN gdb'.table = {} /\ n'.queue = p
      /\ First' = 1 /\ DOMAIN n'.shown = {}
  BY <1>2, EmptyTable DEF NewGdb, First, p
<1>4. /\ \A i \in 1..Len(p) : p[i].op \in {"insert", "run"}
      /\ \A i \in 1..Len(p) : p[i].op = "insert" => i \in 1..k
  <2> SUFFICES ASSUME NEW i \in 1..Len(p)
               PROVE  p[i].op \in {"insert", "run"} /\ (p[i].op = "insert" => i \in 1..k)
    OBVIOUS
  <2>1. CASE i \in 1..k
    BY <1>1, <2>1
  <2>2. CASE i \notin 1..k
    <3>1. i = k + 1
      BY <1>1, <2>2
    <3>2. p[i] = [op |-> "run"]
      BY <1>1, <3>1
    <3> QED
      BY <3>2
  <2> QED
    BY <2>1, <2>2
<1>5. OutInv' /\ AnswerInv' /\ ModifiedInv'
  BY DEF OutInv, AnswerInv, ModifiedInv
<1>6. QueueInv'
  <2>1. Unread(p, FALSE) \in SUBSET (1..k)
    BY <1>1, <1>4 DEF Unread
  <2>2. IsFiniteSet(1..k) /\ Cardinality(1..k) = k
    BY <1>1, FS_Interval
  <2>3. Cardinality(Unread(p, FALSE)) <= k
    <3>1. Cardinality(Unread(p, FALSE)) <= Cardinality(1..k)
      BY <2>1, <2>2, FS_Subset, Zenon
    <3> QED
      BY <2>2, <3>1
  <2>4. Cardinality(Unread(p, FALSE)) \in Nat
    BY <1>1, UnreadType
  <2>5. 1 + Cardinality(Unread(p, FALSE)) <= MaxBps + 1
    <3>1. PICK u : u = Cardinality(Unread(p, FALSE))
      OBVIOUS
    <3>2. u \in Nat /\ u <= k
      BY <2>3, <2>4, <3>1
    <3>3. 1 + u <= MaxBps + 1
      BY <1>1, <3>2
    <3> QED
      BY <3>1, <3>3
  <2>6. Done("insert")' = FALSE
    BY <1>2 DEF Done
  <2> QED
    BY <1>3, <1>4, <2>5, <2>6 DEF QueueInv
<1>7. AgainInv'
  <2>1. 1..(1 - 1) = {}
    OBVIOUS
  <2>2. ASSUME NEW i \in 1..Len(p)
        PROVE  /\ p[i].op # "delete" /\ p[i].op # "commands"
               /\ p[i].op = "insert" =>
                     /\ \A j \in 1..i : p[j].op = "insert"
                     /\ 1 + i - 1 \in DOMAIN n'.cache =>
                           /\ n'.cache[1 + i - 1].loc = p[i].loc
                           /\ n'.cache[1 + i - 1].count = p[i].count
    <3>1. 1 + i - 1 = i
      OBVIOUS
    <3>2. p[i].op = "insert" => /\ p[i] = q[i] /\ i \in 1..k
                                /\ \A j \in 1..i : j \in 1..k /\ p[j] = q[j]
      BY <1>1, <1>4
    <3>3. p[i].op \in {"insert", "run"}
      BY <1>4
    <3>4. p[i].op = "insert" => \A j \in 1..i : p[j].op = "insert"
      BY <3>2
    <3>5. p[i].op = "insert" /\ i \in DOMAIN n'.cache =>
             n'.cache[i].loc = p[i].loc /\ n'.cache[i].count = p[i].count
      BY <3>2, EmptyTable
    <3> QED
      BY <3>1, <3>3, <3>4, <3>5
  <2>3. ASSUME NEW id \in DOMAIN n'.cache
        PROVE  id - 1 + 1 \in 1..Len(p) /\ p[id - 1 + 1].op = "insert"
    <3>1. id \in 1..k
      BY <2>3, EmptyTable
    <3>2. id - 1 + 1 = id
      BY <3>1
    <3> QED
      BY <1>1, <3>1, <3>2
  <2> QED
    BY <1>3, <2>1, <2>2, <2>3 DEF AgainInv
<1>8. CacheInv'
  BY <1>1, <1>3, EmptyTable DEF CacheInv
<1>9. ShownInv'
  <2>1. \A id \in Ids : n'.rows[id] = 0
    BY DEF NoRows
  <2>2. \A id \in DOMAIN n'.cache : Again' /\ id >= 1
    BY EmptyTable
  <2> QED
    BY <1>3, <2>1, <2>2 DEF ShownInv
<1> QED
  BY <1>5, <1>6, <1>7, <1>8, <1>9 DEF IInv

LEMMA SetAgainType ==
    ASSUME NEW b \in Breakpoint
    PROVE  /\ SetAgain(b) \in Command /\ SetAgain(b).op = "insert"
           /\ SetAgain(b).loc = b.loc /\ SetAgain(b).count = b.count
<1>1. b.loc \in Locs /\ b.count \in BOOLEAN /\ b.initial \in Nat
  BY DEF Breakpoint
<1> QED
  BY <1>1, Commands DEF SetAgain

LEMMA NothingToIgnore ==
    ASSUME NEW s \in Nemiver, BreakpointsAssumption, s.shown = Nothing
    PROVE  /\ Run(s) \in Nemiver /\ Run(s).queue = s.queue \o <<[op |-> "run"]>>
           /\ Run(s).cache = s.cache /\ Run(s).shown = Nothing /\ Run(s).rows = NoRows
<1>1. IgnoreCommands(s) = <<>> /\ s.queue \in Seq(Command) /\ DOMAIN s.shown = {}
  BY IgnoreCommandsType, EmptyTable DEF Nemiver
<1>2. s.queue \o IgnoreCommands(s) = s.queue
  BY <1>1, ConcatEmptySeq
<1>3. /\ Run(s) \in Nemiver
      /\ Run(s).queue = (s.queue \o IgnoreCommands(s)) \o <<[op |-> "run"]>>
      /\ DOMAIN Run(s).cache = DOMAIN s.cache
      /\ \A id \in DOMAIN s.cache : Run(s).cache[id] = s.cache[id]
      /\ Run(s).shown = Nothing /\ Run(s).rows = NoRows
  BY <1>1, RunAgain
<1>4. Run(s).cache = s.cache
  <2>1. s.cache \in [DOMAIN s.cache -> Breakpoint]
        /\ Run(s).cache \in [DOMAIN Run(s).cache -> Breakpoint]
    BY <1>3, TableFacts DEF Nemiver, IsTable
  <2> QED
    BY <1>3, <2>1
<1> QED
  BY <1>2, <1>3, <1>4

LEMMA RestartsNumberAgain ==
    ASSUME IInv, PatientRestarts, BreakpointsAssumption, Restart
    PROVE  IInv'
<1> DEFINE k == gdb.next - 1
           ids == InOrder(DOMAIN n.shown)
           q == [i \in 1..Len(ids) |-> SetAgain(n.shown[ids[i]])]
           s == [n EXCEPT !.queue = q, !.shown = Nothing]
<1>1. Again /\ Quiet
  BY Patience DEF Restart, Again, Free, IInv, Typed
<1>2. /\ n.shown = n.cache /\ DOMAIN n.cache = 1..k /\ k \in 0..MaxBps /\ k \in Nat
  <2>1. n.shown = n.cache /\ DOMAIN n.cache = DOMAIN gdb.table
    BY <1>1, WhenQuiet DEF ShownIsCached
  <2>2. DOMAIN gdb.table = 1..k /\ k \in 0..MaxBps
    BY <1>1 DEF IInv, AgainInv, Typed, Gdb, BreakpointsAssumption
  <2> QED
    BY <2>1, <2>2
<1>3. /\ n \in Nemiver /\ IsTable(n.cache, Ids, Breakpoint)
      /\ \A id \in 1..k : n.cache[id] \in Breakpoint
  BY <1>2, TableFacts DEF IInv, Typed, Nemiver, IsTable
<1> HIDE DEF k
<1>4. Len(ids) = k /\ \A i \in 1..k : ids[i] = i
  BY <1>2, InOrderOfAll
<1> HIDE DEF ids
<1>5. /\ q = [i \in 1..k |-> SetAgain(n.cache[ids[i]])]
      /\ \A i \in 1..k : q[i] = SetAgain(n.cache[i])
  BY <1>2, <1>4
<1>6. \A i \in 1..k : /\ q[i] \in Command /\ q[i].op = "insert"
                      /\ q[i].loc = n.cache[i].loc /\ q[i].count = n.cache[i].count
  <2> SUFFICES ASSUME NEW i \in 1..k
               PROVE  /\ q[i] \in Command /\ q[i].op = "insert"
                      /\ q[i].loc = n.cache[i].loc /\ q[i].count = n.cache[i].count
    OBVIOUS
  <2>1. q[i] = SetAgain(n.cache[i]) /\ n.cache[i] \in Breakpoint
    BY <1>3, <1>5
  <2> HIDE DEF q
  <2> QED
    BY <2>1, SetAgainType
<1>7. q \in Seq(Command) /\ Len(q) = k
  <2>1. q \in [1..k -> Command]
    BY <1>5, <1>6
  <2> HIDE DEF q
  <2> QED
    BY <1>2, <2>1
<1>8. n' = Run(s) /\ gdb' = NewGdb /\ out' = <<>> /\ UNCHANGED <<wanted, may>>
  BY DEF Restart, ids
<1> HIDE DEF q
<1>9. s \in Nemiver /\ s.queue = q /\ s.cache = n.cache /\ s.shown = Nothing
  <2>1. Nothing \in Tables(Breakpoint)
    BY TableFacts, EmptyTable
  <2>2. PICK t : t = [n EXCEPT !.queue = q]
    OBVIOUS
  <2>3. t \in Nemiver /\ t.queue = q /\ t.cache = n.cache
    BY <1>3, <1>7, <2>2 DEF Nemiver
  <2>4. s = [t EXCEPT !.shown = Nothing]
    BY <1>3, <2>2 DEF Nemiver
  <2> HIDE DEF s
  <2> QED
    BY <2>1, <2>3, <2>4 DEF Nemiver
<1> HIDE DEF s
<1>10. /\ n' \in Nemiver /\ n'.queue = q \o <<[op |-> "run"]>> /\ n'.cache = n.cache
       /\ n'.shown = Nothing /\ n'.rows = NoRows
  BY <1>8, <1>9, NothingToIgnore
<1>11. NewGdb \in Gdb
  BY TableFacts, EmptyTable DEF NewGdb, Gdb, BreakpointsAssumption
<1>12. Typed'
  BY <1>8, <1>10, <1>11 DEF IInv, Typed
<1>13. Again'
  BY <1>1, <1>8 DEF Again
<1> QED
  BY <1>2, <1>6, <1>7, <1>8, <1>10, <1>12, <1>13, NewGdbs

LEMMA ResumeStartsAnew ==
    ASSUME IInv, BreakpointsAssumption, Resume
    PROVE  IInv'
<1> DEFINE first == CHOOSE id \in DOMAIN n.shown : \A other \in DOMAIN n.shown : id <= other
           c == SetAgain(n.shown[first])
           s == [queue |-> <<c>>, cache |-> Nothing, shown |-> Nothing, rows |-> NoRows]
<1>1. IsTable(n.shown, Ids, Breakpoint) /\ n.shown # Nothing
  BY TableFacts DEF IInv, Typed, Nemiver, Resume
<1>2. DOMAIN n.shown \in SUBSET Ids /\ DOMAIN n.shown # {}
  BY <1>1, EmptyTable DEF IsTable
<1>3. 1 \in 0..MaxBps
  BY <1>2 DEF Ids, BreakpointsAssumption
<1>4. first \in DOMAIN n.shown
  <2>1. DOMAIN n.shown \in SUBSET Nat
    BY <1>2 DEF Ids
  <2>2. \E id \in DOMAIN n.shown : \A other \in DOMAIN n.shown : id <= other
    BY <1>2, <2>1, Least
  <2> QED
    BY <2>2
<1> HIDE DEF first
<1>5. c \in Command /\ c.op = "insert"
  BY <1>1, <1>4, SetAgainType DEF IsTable
<1>6. n' = Run(s) /\ gdb' = NewGdb /\ out' = <<>> /\ UNCHANGED <<wanted, may>>
  BY DEF Resume, first
<1> HIDE DEF c
<1>7. <<c>> \in Seq(Command) /\ Len(<<c>>) = 1 /\ \A i \in 1..1 : <<c>>[i].op = "insert"
  BY <1>5
<1>8. s \in Nemiver /\ s.queue = <<c>> /\ s.cache = Nothing /\ s.shown = Nothing
  BY <1>7, TableFacts, EmptyTable DEF Nemiver, NoRows
<1> HIDE DEF s
<1>9. /\ n' \in Nemiver /\ n'.queue = <<c>> \o <<[op |-> "run"]>> /\ n'.cache = Nothing
      /\ n'.shown = Nothing /\ n'.rows = NoRows
  BY <1>6, <1>8, NothingToIgnore
<1>10. NewGdb \in Gdb
  BY TableFacts, EmptyTable DEF NewGdb, Gdb, BreakpointsAssumption
<1>11. Typed'
  BY <1>6, <1>9, <1>10 DEF IInv, Typed
<1> QED
  BY <1>3, <1>6, <1>7, <1>9, <1>11, NewGdbs

-----------------------------------------------------------------------------
(* What the engine and the views do with a breakpoint they are told of.    *)

LEMMA SameBreakpoint ==
    ASSUME NEW a \in Breakpoint, NEW b \in Breakpoint,
           a.loc = b.loc, a.enabled = b.enabled, a.count = b.count, a.initial = b.initial
    PROVE  a = b
BY DEF Breakpoint

LEMMA OverlaidTables ==
    \A f, g : IsTable(f, Ids, Breakpoint) /\ IsTable(g, Ids, Breakpoint) =>
        /\ IsTable(Over(f, g), Ids, Breakpoint) /\ DOMAIN Over(f, g) = DOMAIN f \union DOMAIN g
        /\ \A x \in DOMAIN f \union DOMAIN g :
              Over(f, g)[x] = IF x \in DOMAIN g THEN g[x] ELSE f[x]
<1> SUFFICES ASSUME NEW f, NEW g, IsTable(f, Ids, Breakpoint), IsTable(g, Ids, Breakpoint)
             PROVE  /\ IsTable(Over(f, g), Ids, Breakpoint)
                    /\ DOMAIN Over(f, g) = DOMAIN f \union DOMAIN g
                    /\ \A x \in DOMAIN f \union DOMAIN g :
                          Over(f, g)[x] = IF x \in DOMAIN g THEN g[x] ELSE f[x]
  OBVIOUS
<1> QED
  BY DEF Over, IsTable

LEMMA RemovedTables ==
    \A f, x : IsTable(f, Ids, Breakpoint) =>
        /\ IsTable(Without(f, x), Ids, Breakpoint) /\ DOMAIN Without(f, x) = DOMAIN f \ {x}
        /\ \A y \in DOMAIN f \ {x} : Without(f, x)[y] = f[y]
BY DEF Without, Restrict, IsTable

LEMMA SameTable ==
    ASSUME NEW S, NEW f \in Tables(S), NEW g \in Tables(S), DOMAIN f = DOMAIN g,
           \A x \in DOMAIN f : f[x] = g[x]
    PROVE  f = g
<1>1. f \in [DOMAIN f -> S] /\ g \in [DOMAIN f -> S]
  BY TableFacts DEF IsTable
<1> QED
  BY <1>1

(* Changing a field of Nemiver's state at a time.                          *)
LEMMA Fields ==
    ASSUME NEW s \in Nemiver
    PROVE  /\ \A q \in Seq(Command) : LET t == [s EXCEPT !.queue = q] IN
                 /\ t \in Nemiver /\ t.queue = q /\ t.cache = s.cache
                 /\ t.shown = s.shown /\ t.rows = s.rows
           /\ \A c \in Tables(Breakpoint) : LET t == [s EXCEPT !.cache = c] IN
                 /\ t \in Nemiver /\ t.queue = s.queue /\ t.cache = c
                 /\ t.shown = s.shown /\ t.rows = s.rows
           /\ \A c \in Tables(Breakpoint) : LET t == [s EXCEPT !.shown = c] IN
                 /\ t \in Nemiver /\ t.queue = s.queue /\ t.cache = s.cache
                 /\ t.shown = c /\ t.rows = s.rows
           /\ \A r \in [Ids -> Nat] : LET t == [s EXCEPT !.rows = r] IN
                 /\ t \in Nemiver /\ t.queue = s.queue /\ t.cache = s.cache
                 /\ t.shown = s.shown /\ t.rows = r
BY DEF Nemiver

LEMMA NotifyDeletedEffect ==
    ASSUME NEW s \in Nemiver, NEW id \in Ids, id \in DOMAIN s.cache
    PROVE  /\ NotifyDeleted(s, id) \in Nemiver /\ NotifyDeleted(s, id).queue = s.queue
           /\ NotifyDeleted(s, id).cache = Without(s.cache, id)
           /\ NotifyDeleted(s, id).shown = Without(s.shown, id)
           /\ NotifyDeleted(s, id).rows = [s.rows EXCEPT ![id] = 0]
<1>1. /\ Without(s.shown, id) \in Tables(Breakpoint) /\ Without(s.cache, id) \in Tables(Breakpoint)
      /\ [s.rows EXCEPT ![id] = 0] \in [Ids -> Nat]
  BY TableFacts, Removed DEF Nemiver
<1>2. PICK t : t = [s EXCEPT !.shown = Without(s.shown, id)]
  OBVIOUS
<1>3. /\ t \in Nemiver /\ t.queue = s.queue /\ t.cache = s.cache
      /\ t.shown = Without(s.shown, id) /\ t.rows = s.rows
  BY <1>1, <1>2, Fields
<1>4. PICK u : u = [t EXCEPT !.rows = [s.rows EXCEPT ![id] = 0]]
  OBVIOUS
<1>5. /\ u \in Nemiver /\ u.queue = s.queue /\ u.cache = s.cache
      /\ u.shown = Without(s.shown, id) /\ u.rows = [s.rows EXCEPT ![id] = 0]
  BY <1>1, <1>3, <1>4, Fields
<1>6. BreakpointDeleted(s, id) = u
  BY <1>2, <1>3, <1>4 DEF BreakpointDeleted
<1>7. NotifyDeleted(s, id) = [u EXCEPT !.cache = Without(s.cache, id)]
  BY <1>5, <1>6 DEF NotifyDeleted
<1> QED
  BY <1>1, <1>5, <1>7, Fields

LEMMA ToldEffect ==
    ASSUME NEW s \in Nemiver, NEW bps \in Tables(Breakpoint)
    PROVE  /\ Told(s, bps) \in Tables(Breakpoint) /\ DOMAIN Told(s, bps) = DOMAIN bps
           /\ \A id \in DOMAIN bps :
                 /\ bps[id] \in Breakpoint /\ Told(s, bps)[id] \in Breakpoint
                 /\ Told(s, bps)[id].loc = bps[id].loc
                 /\ Told(s, bps)[id].enabled = bps[id].enabled
                 /\ Told(s, bps)[id].count = bps[id].count
                 /\ Told(s, bps)[id].initial = IF id \in DOMAIN s.cache
                                               THEN s.cache[id].initial ELSE bps[id].initial
<1>1. IsTable(bps, Ids, Breakpoint) /\ IsTable(s.cache, Ids, Breakpoint)
  BY TableFacts DEF Nemiver
<1>2. ASSUME NEW id \in DOMAIN bps
      PROVE  /\ bps[id] \in Breakpoint /\ Told(s, bps)[id] \in Breakpoint
             /\ Told(s, bps)[id].loc = bps[id].loc
             /\ Told(s, bps)[id].enabled = bps[id].enabled
             /\ Told(s, bps)[id].count = bps[id].count
             /\ Told(s, bps)[id].initial = IF id \in DOMAIN s.cache
                                           THEN s.cache[id].initial ELSE bps[id].initial
  <2>1. bps[id] \in Breakpoint /\ (id \in DOMAIN s.cache => s.cache[id] \in Breakpoint)
    BY <1>1 DEF IsTable
  <2>2. id \in DOMAIN s.cache => s.cache[id].initial \in Nat
    BY <2>1 DEF Breakpoint
  <2>3. PICK k : k = s.cache[id].initial
    OBVIOUS
  <2>4. Told(s, bps)[id] = IF id \in DOMAIN s.cache THEN Counted(bps[id], k) ELSE bps[id]
    BY <2>3 DEF Told, Counted
  <2>5. /\ k \in Nat => Counted(bps[id], k) \in Breakpoint
        /\ Counted(bps[id], k).loc = bps[id].loc /\ Counted(bps[id], k).enabled = bps[id].enabled
        /\ Counted(bps[id], k).count = bps[id].count /\ Counted(bps[id], k).initial = k
    BY <2>1, CountedFacts, Zenon
  <2> QED
    BY <2>1, <2>2, <2>3, <2>4, <2>5
<1>3. DOMAIN Told(s, bps) = DOMAIN bps
  BY DEF Told
<1>4. Told(s, bps) \in [DOMAIN bps -> Breakpoint]
  <2>1. \A id \in DOMAIN bps : Told(s, bps)[id] \in Breakpoint
    BY <1>2
  <2> QED
    BY <2>1 DEF Told
<1>5. Told(s, bps) \in Tables(Breakpoint)
  BY <1>1, <1>3, <1>4, TableFacts DEF IsTable
<1> QED
  BY <1>2, <1>3, <1>5

LEMMA CacheEffect ==
    ASSUME NEW s \in Nemiver, NEW bps \in Tables(Breakpoint)
    PROVE  /\ Cache(s, bps) \in Nemiver /\ Cache(s, bps).queue = s.queue
           /\ Cache(s, bps).shown = s.shown /\ Cache(s, bps).rows = s.rows
           /\ DOMAIN Cache(s, bps).cache = DOMAIN s.cache \union DOMAIN bps
           /\ \A id \in DOMAIN s.cache \ DOMAIN bps : Cache(s, bps).cache[id] = s.cache[id]
           /\ \A id \in DOMAIN bps :
                 /\ Cache(s, bps).cache[id] \in Breakpoint
                 /\ Cache(s, bps).cache[id].loc = bps[id].loc
                 /\ Cache(s, bps).cache[id].enabled = bps[id].enabled
                 /\ Cache(s, bps).cache[id].count = (id \in DOMAIN s.cache /\ s.cache[id].count)
                 /\ Cache(s, bps).cache[id].initial = IF id \in DOMAIN s.cache
                                                      THEN s.cache[id].initial ELSE bps[id].initial
<1> DEFINE g == [id \in DOMAIN bps |-> [Told(s, bps)[id] EXCEPT
                    !.count = id \in DOMAIN s.cache /\ s.cache[id].count]]
           c == Over(s.cache, g)
<1>1. IsTable(s.cache, Ids, Breakpoint) /\ IsTable(bps, Ids, Breakpoint)
  BY TableFacts DEF Nemiver
<1>2. ASSUME NEW id \in DOMAIN bps
      PROVE  /\ g[id] \in Breakpoint /\ g[id].loc = bps[id].loc
             /\ g[id].enabled = bps[id].enabled
             /\ g[id].count = (id \in DOMAIN s.cache /\ s.cache[id].count)
             /\ g[id].initial = IF id \in DOMAIN s.cache
                                THEN s.cache[id].initial ELSE bps[id].initial
  <2>1. PICK b : b = Told(s, bps)[id]
    OBVIOUS
  <2>2. /\ b \in Breakpoint /\ b.loc = bps[id].loc /\ b.enabled = bps[id].enabled
        /\ b.initial = IF id \in DOMAIN s.cache THEN s.cache[id].initial ELSE bps[id].initial
    BY <2>1, ToldEffect
  <2>3. PICK k \in BOOLEAN : k = (id \in DOMAIN s.cache /\ s.cache[id].count)
    OBVIOUS
  <2>4. g[id] = [b EXCEPT !.count = k]
    BY <2>1, <2>3
  <2> HIDE DEF g
  <2> QED
    BY <2>2, <2>3, <2>4 DEF Breakpoint
<1>3. IsTable(g, Ids, Breakpoint) /\ DOMAIN g = DOMAIN bps
  <2>1. DOMAIN g = DOMAIN bps
    OBVIOUS
  <2>2. g \in [DOMAIN bps -> Breakpoint]
    BY <1>2
  <2> HIDE DEF g
  <2> QED
    BY <1>1, <2>1, <2>2 DEF IsTable
<1> HIDE DEF g
<1>4. /\ IsTable(c, Ids, Breakpoint) /\ DOMAIN c = DOMAIN s.cache \union DOMAIN bps
      /\ \A x \in DOMAIN s.cache \union DOMAIN bps :
            c[x] = IF x \in DOMAIN bps THEN g[x] ELSE s.cache[x]
  BY <1>1, <1>3, OverlaidTables
<1>5. Cache(s, bps) = [s EXCEPT !.cache = c]
  BY DEF Cache, g
<1> HIDE DEF c
<1>6. c \in Tables(Breakpoint)
  BY <1>4, TableFacts
<1>7. /\ Cache(s, bps) \in Nemiver /\ Cache(s, bps).queue = s.queue
      /\ Cache(s, bps).shown = s.shown /\ Cache(s, bps).rows = s.rows
      /\ Cache(s, bps).cache = c
  BY <1>5, <1>6, Fields
<1> QED
  BY <1>2, <1>4, <1>7

LEMMA SetEffect ==
    ASSUME NEW s \in Nemiver, NEW bps \in Tables(Breakpoint)
    PROVE  /\ BreakpointsSet(s, bps) \in Nemiver /\ BreakpointsSet(s, bps).queue = s.queue
           /\ BreakpointsSet(s, bps).cache = s.cache
           /\ DOMAIN BreakpointsSet(s, bps).shown = DOMAIN s.shown \union DOMAIN bps
           /\ \A id \in DOMAIN s.shown \union DOMAIN bps : BreakpointsSet(s, bps).shown[id] =
                 IF id \in DOMAIN bps THEN bps[id] ELSE s.shown[id]
           /\ \A id \in Ids : BreakpointsSet(s, bps).rows[id] =
                 IF id \in DOMAIN bps THEN s.rows[id] + 1 ELSE s.rows[id]
<1> DEFINE r == [id \in Ids |-> IF id \in DOMAIN bps THEN s.rows[id] + 1 ELSE s.rows[id]]
           c == Over(s.shown, bps)
<1>1. /\ IsTable(s.shown, Ids, Breakpoint) /\ IsTable(bps, Ids, Breakpoint)
      /\ s.rows \in [Ids -> Nat]
  BY TableFacts DEF Nemiver
<1>2. /\ IsTable(c, Ids, Breakpoint) /\ DOMAIN c = DOMAIN s.shown \union DOMAIN bps
      /\ \A x \in DOMAIN s.shown \union DOMAIN bps :
            c[x] = IF x \in DOMAIN bps THEN bps[x] ELSE s.shown[x]
  BY <1>1, OverlaidTables
<1>3. r \in [Ids -> Nat]
  BY <1>1
<1>4. PICK t : t = [s EXCEPT !.rows = r]
  OBVIOUS
<1>5. AddRows(s, DOMAIN bps) = t
  BY <1>4 DEF AddRows
<1> HIDE DEF r, c
<1>6. t \in Nemiver /\ t.queue = s.queue /\ t.cache = s.cache /\ t.shown = s.shown /\ t.rows = r
  BY <1>3, <1>4, Fields
<1>7. BreakpointsSet(s, bps) = [t EXCEPT !.shown = c]
  BY <1>5, <1>6 DEF BreakpointsSet, c
<1>8. c \in Tables(Breakpoint)
  BY <1>2, TableFacts
<1>9. /\ BreakpointsSet(s, bps) \in Nemiver /\ BreakpointsSet(s, bps).queue = s.queue
      /\ BreakpointsSet(s, bps).cache = s.cache /\ BreakpointsSet(s, bps).shown = c
      /\ BreakpointsSet(s, bps).rows = r
  BY <1>6, <1>7, <1>8, Fields
<1> QED
  BY <1>2, <1>9 DEF r

LEMMA ListEffect ==
    ASSUME NEW s \in Nemiver, DOMAIN s.shown \subseteq DOMAIN s.cache,
           \A id \in Ids : s.rows[id] = IF id \in DOMAIN s.shown THEN 1 ELSE 0
    PROVE  /\ BreakpointsList(s) \in Nemiver /\ BreakpointsList(s).queue = s.queue
           /\ BreakpointsList(s).cache = s.cache /\ BreakpointsList(s).shown = s.cache
           /\ \A id \in Ids : BreakpointsList(s).rows[id] =
                 IF id \in DOMAIN s.cache THEN 1 ELSE 0
<1> DEFINE ids == {id \in DOMAIN s.cache : ~HasRow(s, id)}
           r == [id \in Ids |-> IF id \in ids THEN s.rows[id] + 1 ELSE s.rows[id]]
<1>1. /\ IsTable(s.shown, Ids, Breakpoint) /\ IsTable(s.cache, Ids, Breakpoint)
      /\ s.rows \in [Ids -> Nat]
  BY TableFacts DEF Nemiver
<1>2. Over(s.shown, s.cache) = s.cache
  <2>1. /\ IsTable(Over(s.shown, s.cache), Ids, Breakpoint)
        /\ DOMAIN Over(s.shown, s.cache) = DOMAIN s.cache
        /\ \A x \in DOMAIN s.cache : Over(s.shown, s.cache)[x] = s.cache[x]
    <3>1. DOMAIN s.shown \union DOMAIN s.cache = DOMAIN s.cache
      OBVIOUS
    <3> QED
      BY <1>1, <3>1, OverlaidTables
  <2>2. Over(s.shown, s.cache) \in Tables(Breakpoint) /\ s.cache \in Tables(Breakpoint)
    BY <1>1, <2>1, TableFacts
  <2> QED
    BY <2>1, <2>2, SameTable
<1>3. r \in [Ids -> Nat] /\ \A id \in Ids : r[id] = IF id \in DOMAIN s.cache THEN 1 ELSE 0
  BY <1>1 DEF HasRow
<1>4. PICK t : t = [s EXCEPT !.rows = r]
  OBVIOUS
<1>5. AddRows(s, ids) = t
  BY <1>4 DEF AddRows
<1> HIDE DEF r
<1>6. t \in Nemiver /\ t.queue = s.queue /\ t.cache = s.cache /\ t.shown = s.shown /\ t.rows = r
  BY <1>3, <1>4, Fields
<1>7. BreakpointsList(s) = [t EXCEPT !.shown = s.cache]
  BY <1>2, <1>5, <1>6 DEF BreakpointsList
<1> HIDE DEF ids
<1>8. s.cache \in Tables(Breakpoint)
  BY DEF Nemiver
<1>9. /\ BreakpointsList(s) \in Nemiver /\ BreakpointsList(s).queue = s.queue
      /\ BreakpointsList(s).cache = s.cache /\ BreakpointsList(s).shown = s.cache
      /\ BreakpointsList(s).rows = r
  BY <1>6, <1>7, <1>8, Fields
<1> QED
  BY <1>3, <1>9

(* A breakpoint that GDB says it modified: t is s after the notification   *)
(* bps, of breakpoint id.                                                  *)
ModifiedTo(s, id, bps, t) ==
    /\ t \in Nemiver /\ t.queue = s.queue
    /\ DOMAIN t.cache = DOMAIN s.cache
    /\ \A x \in DOMAIN s.cache \ {id} : t.cache[x] = s.cache[x]
    /\ t.cache[id].loc = bps[id].loc /\ t.cache[id].enabled = bps[id].enabled
    /\ t.cache[id].count = FALSE /\ t.cache[id].initial = bps[id].initial
    /\ DOMAIN t.shown = DOMAIN s.shown \union {id}
    /\ \A x \in DOMAIN s.shown \ {id} : t.shown[x] = s.shown[x]
    /\ t.shown[id] = t.cache[id]
    /\ \A x \in Ids : t.rows[x] = IF x = id THEN 1 ELSE s.rows[x]

LEMMA ModifiedEffect ==
    ASSUME NEW s \in Nemiver, NEW id \in DOMAIN s.cache, NEW bps \in Tables(Breakpoint),
           DOMAIN bps = {id}, ~bps[id].count
    PROVE  ModifiedTo(s, id, bps, OnModified(s, id, bps))
<1>1. /\ id \in Ids /\ IsTable(s.cache, Ids, Breakpoint) /\ IsTable(s.shown, Ids, Breakpoint)
      /\ s.rows \in [Ids -> Nat]
  BY TableFacts DEF Nemiver, IsTable
<1>2. PICK t : t = NotifyDeleted(s, id)
  OBVIOUS
<1>3. /\ t \in Nemiver /\ t.queue = s.queue
      /\ t.cache = Without(s.cache, id) /\ t.shown = Without(s.shown, id)
      /\ t.rows = [s.rows EXCEPT ![id] = 0]
  BY <1>1, <1>2, NotifyDeletedEffect
<1>4. /\ DOMAIN t.cache = DOMAIN s.cache \ {id} /\ DOMAIN t.shown = DOMAIN s.shown \ {id}
      /\ \A x \in DOMAIN s.cache \ {id} : t.cache[x] = s.cache[x]
      /\ \A x \in DOMAIN s.shown \ {id} : t.shown[x] = s.shown[x]
      /\ \A x \in Ids : t.rows[x] = IF x = id THEN 0 ELSE s.rows[x]
  <2>1. /\ DOMAIN t.cache = DOMAIN s.cache \ {id}
        /\ \A x \in DOMAIN s.cache \ {id} : t.cache[x] = s.cache[x]
    <3>1. IsTable(s.cache, Ids, Breakpoint) /\ t.cache = Without(s.cache, id)
      BY <1>1, <1>3
    <3> QED
      BY <3>1 DEF Without, Restrict
  <2>2. /\ DOMAIN t.shown = DOMAIN s.shown \ {id}
        /\ \A x \in DOMAIN s.shown \ {id} : t.shown[x] = s.shown[x]
    <3>1. IsTable(s.shown, Ids, Breakpoint) /\ t.shown = Without(s.shown, id)
      BY <1>1, <1>3
    <3> QED
      BY <3>1 DEF Without, Restrict
  <2>3. \A x \in Ids : t.rows[x] = IF x = id THEN 0 ELSE s.rows[x]
    BY <1>1, <1>3
  <2> QED
    BY <2>1, <2>2, <2>3
<1>5. PICK told : told = Told(t, bps)
  OBVIOUS
<1>6. /\ told \in Tables(Breakpoint) /\ DOMAIN told = {id} /\ told[id] \in Breakpoint
      /\ told[id].loc = bps[id].loc /\ told[id].enabled = bps[id].enabled
      /\ told[id].count = bps[id].count /\ told[id].initial = bps[id].initial
      /\ bps[id] \in Breakpoint
  BY <1>3, <1>4, <1>5, ToldEffect
<1>7. PICK u : u = Cache(t, bps)
  OBVIOUS
<1>8. /\ u \in Nemiver /\ u.queue = s.queue /\ u.shown = t.shown /\ u.rows = t.rows
      /\ DOMAIN u.cache = DOMAIN t.cache \union {id}
      /\ \A x \in DOMAIN t.cache \ {id} : u.cache[x] = t.cache[x]
      /\ u.cache[id] \in Breakpoint
      /\ u.cache[id].loc = bps[id].loc /\ u.cache[id].enabled = bps[id].enabled
      /\ u.cache[id].count = FALSE /\ u.cache[id].initial = bps[id].initial
  <2>1. /\ u \in Nemiver /\ u.queue = t.queue /\ u.shown = t.shown /\ u.rows = t.rows
        /\ DOMAIN u.cache = DOMAIN t.cache \union DOMAIN bps
        /\ \A x \in DOMAIN t.cache \ DOMAIN bps : u.cache[x] = t.cache[x]
        /\ \A x \in DOMAIN bps :
              /\ u.cache[x] \in Breakpoint
              /\ u.cache[x].loc = bps[x].loc /\ u.cache[x].enabled = bps[x].enabled
              /\ u.cache[x].count = (x \in DOMAIN t.cache /\ t.cache[x].count)
              /\ u.cache[x].initial = IF x \in DOMAIN t.cache
                                      THEN t.cache[x].initial ELSE bps[x].initial
    BY <1>3, <1>7, CacheEffect
  <2>2. id \notin DOMAIN t.cache /\ id \in DOMAIN bps
    BY <1>4
  <2> QED
    BY <1>3, <2>1, <2>2
<1>9. told[id] = u.cache[id]
  <2>1. bps[id].count = FALSE
    BY <1>6 DEF Breakpoint
  <2> QED
    BY <1>6, <1>8, <2>1, SameBreakpoint
<1>10. OnModified(s, id, bps) = BreakpointsSet(u, told)
  BY <1>2, <1>5, <1>7 DEF OnModified
<1>11. PICK v : v = BreakpointsSet(u, told)
  OBVIOUS
<1>12. /\ v \in Nemiver /\ v.queue = s.queue /\ v.cache = u.cache
       /\ DOMAIN v.shown = DOMAIN u.shown \union {id}
       /\ \A x \in DOMAIN u.shown \union {id} :
             v.shown[x] = IF x \in {id} THEN told[x] ELSE u.shown[x]
       /\ \A x \in Ids : v.rows[x] = IF x \in {id} THEN u.rows[x] + 1 ELSE u.rows[x]
  BY <1>6, <1>8, <1>11, SetEffect
<1>13. /\ DOMAIN v.cache = DOMAIN s.cache /\ DOMAIN v.shown = DOMAIN s.shown \union {id}
       /\ \A x \in DOMAIN s.cache \ {id} : v.cache[x] = s.cache[x]
  <2>1. DOMAIN v.cache = DOMAIN s.cache
    BY <1>4, <1>8, <1>12
  <2>2. DOMAIN v.shown = DOMAIN s.shown \union {id}
    BY <1>4, <1>8, <1>12
  <2>3. \A x \in DOMAIN s.cache \ {id} : v.cache[x] = s.cache[x]
    BY <1>4, <1>8, <1>12
  <2> QED
    BY <2>1, <2>2, <2>3
<1>14. /\ \A x \in DOMAIN s.shown \ {id} : v.shown[x] = s.shown[x]
       /\ v.shown[id] = v.cache[id]
  BY <1>4, <1>8, <1>9, <1>12
<1>15. \A x \in Ids : v.rows[x] = IF x = id THEN 1 ELSE s.rows[x]
  BY <1>1, <1>4, <1>8, <1>12
<1> QED
  <2>1. /\ v.queue = s.queue /\ v \in Nemiver /\ v.cache[id] = u.cache[id]
    BY <1>12
  <2>2. /\ v.cache[id].loc = bps[id].loc /\ v.cache[id].enabled = bps[id].enabled
        /\ v.cache[id].count = FALSE /\ v.cache[id].initial = bps[id].initial
    BY <1>8, <2>1
  <2>3. OnModified(s, id, bps) = v
    BY <1>10, <1>11
  <2>4. ModifiedTo(s, id, bps, v)
    BY <1>13, <1>14, <1>15, <2>1, <2>2 DEF ModifiedTo
  <2> QED
    BY <2>3, <2>4

-----------------------------------------------------------------------------
(* The engine handles a record.                                            *)

LEMMA Records ==
    ASSUME IInv, OnOutputRecord
    PROVE  /\ out[1] \in Record /\ 1 \in 1..Len(out) /\ Head(out) = out[1]
           /\ n \in Nemiver /\ n' = Handle(n, out[1])
           /\ out' = Tail(out) /\ out' \in Seq(Record) /\ out # <<>>
           /\ gdb' = gdb /\ wanted' = wanted /\ may' = may
<1>1. out \in Seq(Record) /\ out # <<>> /\ n \in Nemiver
  BY DEF IInv, Typed, OnOutputRecord
<1>2. Head(out) = out[1] /\ Head(out) \in Record /\ Tail(out) \in Seq(Record) /\ Len(out) \in Nat \ {0}
  BY <1>1, Ends
<1> QED
  BY <1>1, <1>2 DEF OnOutputRecord

LEMMA Stops ==
    ASSUME IInv, BreakpointsAssumption, OnOutputRecord, out[1].kind = "stopped"
    PROVE  IInv'
<1> DEFINE c == [op |-> "list"]
<1>1. /\ n \in Nemiver /\ n' = OnStopped(n) /\ out' = Tail(out) /\ out' \in Seq(Record)
      /\ gdb' = gdb /\ wanted' = wanted /\ may' = may /\ Fewer
  BY Records DEF Handle, Fewer
<1>2. c \in Command /\ c.op = "list"
  BY Commands
<1>3. n' = Queue(n, <<c>>)
  BY <1>1 DEF OnStopped
<1> HIDE DEF c
<1>4. <<c>> \in Seq(Command) /\ Len(<<c>>) = 1 /\ \A i \in 1..Len(<<c>>) : <<c>>[i].op = "list"
  BY <1>2
<1>5. /\ n' \in Nemiver /\ n'.queue = n.queue \o <<c>> /\ n'.cache = n.cache
      /\ n'.shown = n.shown /\ n'.rows = n.rows
  <2>1. PICK cs : cs = <<c>>
    OBVIOUS
  <2>2. cs \in Seq(Command) /\ n \in Nemiver /\ n' = Queue(n, cs)
    BY <1>1, <1>3, <1>4, <2>1
  <2>3. /\ n' \in Nemiver /\ n'.queue = n.queue \o cs /\ n'.cache = n.cache
        /\ n'.shown = n.shown /\ n'.rows = n.rows
    BY <2>2, Queued
  <2> QED
    BY <2>1, <2>3
<1>6. Growing(<<c>>)
  BY <1>4, <1>5 DEF Growing
<1>7. Typed'
  BY <1>1, <1>5 DEF IInv, Typed
<1> QED
  BY <1>1, <1>4, <1>6, <1>7, Grows

LEMMA Modifies ==
    ASSUME IInv, OnOutputRecord, out[1].kind = "modified"
    PROVE  IInv'
<1> DEFINE b == out[1].bps
<1>1. /\ n \in Nemiver /\ n' = OnModified(n, CHOOSE i \in DOMAIN b : TRUE, b)
      /\ out' = Tail(out) /\ out' \in Seq(Record)
      /\ gdb' = gdb /\ wanted' = wanted /\ may' = may /\ Fewer /\ b \in Tables(Breakpoint)
  BY Records DEF Handle, Fewer, Record
<1>2. PICK id \in Ids : ModifiedAs(b, id)
  BY Records DEF IInv, ModifiedInv
<1> HIDE DEF b
<1>3. /\ DOMAIN b = {id} /\ id \in DOMAIN n.cache /\ id < First
      /\ b[id].loc = n.cache[id].loc /\ ~b[id].count
      /\ id \in DOMAIN gdb.table =>
            \/ b[id].enabled = gdb.table[id].enabled
            \/ Done("enable") \/ Done("disable")
  BY <1>2 DEF ModifiedAs
<1>4. n' = OnModified(n, id, b)
  BY <1>1, <1>3
<1>5. /\ n' \in Nemiver /\ n'.queue = n.queue
      /\ DOMAIN n'.cache = DOMAIN n.cache
      /\ \A x \in DOMAIN n.cache \ {id} : n'.cache[x] = n.cache[x]
      /\ n'.cache[id].loc = b[id].loc /\ n'.cache[id].enabled = b[id].enabled
      /\ DOMAIN n'.shown = DOMAIN n.shown \union {id}
      /\ \A x \in DOMAIN n.shown \ {id} : n'.shown[x] = n.shown[x]
      /\ n'.shown[id] = n'.cache[id]
      /\ \A x \in Ids : n'.rows[x] = IF x = id THEN 1 ELSE n.rows[x]
  <2>1. ~b[id].count /\ DOMAIN b = {id} /\ id \in DOMAIN n.cache
    BY <1>3
  <2>2. n \in Nemiver /\ b \in Tables(Breakpoint)
    BY <1>1
  <2>3. PICK t : t = OnModified(n, id, b)
    OBVIOUS
  <2>4. ModifiedTo(n, id, b, t)
    BY <2>1, <2>2, <2>3, ModifiedEffect
  <2>5. n' = t
    BY <1>4, <2>3
  <2> QED
    BY <2>4, <2>5 DEF ModifiedTo
<1>6. /\ \A op : Done(op)' <=> Done(op)
      /\ First' = First /\ OutInv' /\ AnswerInv'
  BY <1>1, <1>5, AnswersKept
<1>7. Typed'
  BY <1>1, <1>5 DEF IInv, Typed
<1>8. \A x \in DOMAIN n.cache : n'.cache[x].loc = n.cache[x].loc
  BY <1>3, <1>5
<1>9. ModifiedInv'
  <2> SUFFICES ASSUME NEW i \in 1..Len(out'), out'[i].kind = "modified", NEW c, c = out'[i].bps
               PROVE  \E x \in Ids : ModifiedAs(c, x)'
    BY DEF ModifiedInv, ModifiedAs
  <2>1. \E j \in 1..Len(out) : out'[i] = out[j]
    BY <1>1, FewerRecords
  <2>2. PICK x \in Ids : ModifiedAs(c, x)
    BY <2>1 DEF IInv, ModifiedInv
  <2>3. ModifiedAs(c, x)'
    BY <1>1, <1>5, <1>6, <1>8, <2>2 DEF ModifiedAs
  <2> QED
    BY <2>3
<1>10. QueueInv'
  <2>1. Done("insert")' = Done("insert")
    BY <1>6 DEF Done
  <2> QED
    <3>1. QueueInv /\ gdb' = gdb /\ n'.queue = n.queue
      BY <1>1, <1>5 DEF IInv
    <3> QED
      BY <2>1, <3>1 DEF QueueInv
<1>11. First \in Int /\ id \in Int
  BY DEF IInv, Typed, Gdb, First, Ids
<1>12. AgainInv'
  <2>1. \A x \in DOMAIN n.cache : x >= First => n'.cache[x] = n.cache[x]
    BY <1>3, <1>5, <1>11
  <2>2. Again' <=> Again
    BY <1>1 DEF Again
  <2>3. AgainInv
    BY DEF IInv
  <2>4. \A i \in 1..Len(n.queue) : First + i - 1 >= First
    <3>1. Len(n.queue) \in Nat
      BY <1>1 DEF Nemiver
    <3> QED
      BY <1>11, <3>1
  <2>5. /\ gdb' = gdb /\ n'.queue = n.queue /\ First' = First
        /\ DOMAIN n'.cache = DOMAIN n.cache
    BY <1>1, <1>5, <1>6
  <2> QED
    BY <2>1, <2>2, <2>3, <2>4, <2>5 DEF AgainInv
<1>13. CacheInv'
  <2>1. Done("enable") \/ Done("disable") => Listing(n.queue)
    <3> SUFFICES ASSUME Done("enable") \/ Done("disable") PROVE Listing(n.queue)
      OBVIOUS
    <3>1. n.queue # <<>> /\ n.queue[1].op \in {"enable", "disable"}
      BY DEF Done, IInv, OutInv
    <3>2. n.queue \in Seq(Command)
      BY <1>1 DEF Nemiver
    <3>3. Len(n.queue) \in Nat \ {0}
      BY <3>1, <3>2, Ends
    <3>4. PICK j \in (1 + 1)..Len(n.queue) : n.queue[j].op = "list"
      BY <3>1, <3>3 DEF IInv, QueueInv
    <3> QED
      BY <3>3, <3>4 DEF Listing
  <2>2. \A x \in DOMAIN gdb.table \intersect DOMAIN n.cache :
            /\ n'.cache[x].loc = gdb.table[x].loc
            /\ \/ n'.cache[x].enabled = gdb.table[x].enabled
               \/ Listing(n.queue) \/ x >= First
    BY <1>3, <1>5, <1>8, <2>1 DEF IInv, CacheInv
  <2>3. /\ DOMAIN gdb.table \subseteq 1..(gdb.next - 1)
        /\ \A x \in DOMAIN gdb.table :
              x \in DOMAIN n'.cache \/ (Done("insert")' /\ x = gdb.next - 1)
    BY <1>5, <1>6 DEF IInv, CacheInv
  <2>4. ~Again' => \A x \in DOMAIN n'.cache :
            x < First' /\ (x \in DOMAIN gdb.table \/ (Done("delete")' /\ n'.queue[1].id = x))
    BY <1>1, <1>5, <1>6 DEF IInv, CacheInv, Again
  <2> QED
    <3>1. gdb' = gdb /\ n'.queue = n.queue /\ DOMAIN n'.cache = DOMAIN n.cache /\ First' = First
      BY <1>1, <1>5, <1>6
    <3> QED
      BY <2>2, <2>3, <2>4, <3>1 DEF CacheInv
<1>14. ShownInv'
  <2>1. ShownInv
    BY DEF IInv
  <2>2. DOMAIN n'.shown \subseteq DOMAIN n'.cache /\ \A x \in DOMAIN n'.shown : x < First'
    BY <1>3, <1>5, <1>6, <2>1 DEF ShownInv
  <2>3. \A x \in Ids : n'.rows[x] = IF x \in DOMAIN n'.shown THEN 1 ELSE 0
    BY <1>5, <2>1 DEF ShownInv
  <2>4. \A x \in DOMAIN n'.cache :
            \/ x \in DOMAIN n'.shown /\ n'.shown[x] = n'.cache[x]
            \/ Listing(n'.queue)
            \/ Again' /\ (Commanding(n'.queue, x) \/ x >= First')
    BY <1>1, <1>5, <1>6, <2>1 DEF ShownInv, Again
  <2> QED
    BY <2>2, <2>3, <2>4 DEF ShownInv
<1> QED
  BY <1>6, <1>7, <1>9, <1>10, <1>12, <1>13, <1>14 DEF IInv

(* The command in flight is answered: it leaves the queue, and commands cs *)
(* may come.                                                               *)
Retires(cs) ==
    /\ out # <<>> /\ out[1].kind \in {"done", "error"} /\ out' = Tail(out)
    /\ n'.queue = Tail(n.queue \o cs)
    /\ gdb' = gdb /\ may' = may
    /\ \A i \in 1..Len(cs) :
          cs[i].op = "commands" /\ (Again => cs[i].id \in DOMAIN gdb.table)

LEMMA Answering ==
    ASSUME IInv, NEW cs \in Seq(Command), Retires(cs)
    PROVE  /\ n.queue # <<>> /\ n.queue \in Seq(Command) /\ 1 \in 1..Len(n.queue)
           /\ \A op : Done(op) <=> out[1].kind = "done" /\ n.queue[1].op = op
           /\ \A op : ~Done(op)'
           /\ First' = gdb.next /\ gdb.next \in Int /\ First \in Int
           /\ First = IF out[1].kind = "done" /\ n.queue[1].op = "insert"
                      THEN gdb.next - 1 ELSE gdb.next
           /\ OutInv' /\ AnswerInv'
           /\ n.queue[1].op \notin {"run", "continue"} => out' = <<>>
           /\ \A i \in 1..Len(out') : \E j \in 1..Len(out) : out'[i] = out[j]
           /\ out' \in Seq(Record)
<1>1. /\ out \in Seq(Record) /\ out # <<>> /\ n.queue \in Seq(Command)
      /\ gdb.next \in Int
  BY DEF IInv, Typed, Retires, Nemiver, Gdb
<1>2. PICK new : new = out'
  OBVIOUS
<1>3. /\ new \in Seq(Record) /\ Len(out) \in Nat \ {0} /\ Len(new) = Len(out) - 1
      /\ \A i \in 1..(Len(out) - 1) : new[i] = out[i + 1]
  BY <1>1, <1>2, Ends DEF Retires
<1>4. /\ 1 \in 1..Len(out)
      /\ \A i \in 1..Len(new) : i + 1 \in 1..Len(out) /\ i + 1 # 1 /\ new[i] = out[i + 1]
  BY <1>3
<1>5. /\ \A i \in 1..Len(out) : out[i].kind \in {"done", "error"} => i = 1
      /\ n.queue # <<>>
      /\ n.queue[1].op \notin {"run", "continue"} => Len(out) = 1
  <2>1. out[1].kind \in {"done", "error"}
    BY DEF Retires
  <2> QED
    BY <1>4, <2>1 DEF IInv, OutInv
<1>6. \A i \in 1..Len(new) : new[i].kind \notin {"done", "error"}
  BY <1>4, <1>5
<1>7. \A op : ~Done(op)'
  BY <1>2, <1>6 DEF Done
<1>8. \A op : Done(op) <=> out[1].kind = "done" /\ n.queue[1].op = op
  BY <1>4, <1>5 DEF Done
<1>9. First' = gdb.next
  BY <1>7 DEF First, Retires
<1>10. First = IF out[1].kind = "done" /\ n.queue[1].op = "insert"
               THEN gdb.next - 1 ELSE gdb.next
  BY <1>8 DEF First
<1>11. OutInv' /\ AnswerInv'
  BY <1>2, <1>6 DEF OutInv, AnswerInv
<1>12. n.queue[1].op \notin {"run", "continue"} => new = <<>>
  <2>1. Len(new) = 0 => new = <<>>
    BY <1>3
  <2> QED
    BY <1>3, <1>5, <2>1
<1>13. 1 \in 1..Len(n.queue)
  BY <1>1, <1>5, Ends
<1>14. \A i \in 1..Len(new) : \E j \in 1..Len(out) : new[i] = out[j]
  BY <1>4
<1> QED
  BY <1>1, <1>2, <1>3, <1>5, <1>7, <1>8, <1>9, <1>10, <1>11, <1>12, <1>13, <1>14

(* The places of the commands when the head q[1] of q is removed and cs    *)
(* come, which makes it p.                                                 *)
Shifts(q, cs, p) ==
    /\ p \in Seq(Command) /\ Len(q) \in Nat \ {0} /\ Len(cs) \in Nat
    /\ Len(p) = Len(q) + Len(cs) - 1
    /\ \A i \in 1..Len(q) : i # 1 => i - 1 \in 1..Len(p) /\ p[i - 1] = q[i]
    /\ \A i \in 1..Len(cs) : \E j \in 1..Len(p) : p[j] = cs[i]
    /\ \A i \in 1..Len(p) : \/ i + 1 \in 1..Len(q) /\ p[i] = q[i + 1]
                            \/ \E j \in 1..Len(cs) : p[i] = cs[j]

LEMMA Places ==
    \A q, cs \in Seq(Command) : q # <<>> => Shifts(q, cs, Tail(q \o cs))
<1> SUFFICES ASSUME NEW q \in Seq(Command), NEW cs \in Seq(Command), q # <<>>
             PROVE  Shifts(q, cs, Tail(q \o cs))
  OBVIOUS
<1> DEFINE a == q \o cs
<1>1. /\ a \in Seq(Command) /\ Len(a) = Len(q) + Len(cs)
      /\ \A i \in 1..Len(q) : a[i] = q[i]
      /\ \A i \in 1..Len(cs) : a[Len(q) + i] = cs[i]
  BY JoinedCommands
<1>2. Len(q) \in Nat \ {0} /\ Len(cs) \in Nat
  BY Ends
<1> HIDE DEF a
<1>3. a # <<>>
  <2>1. Len(a) # 0
    BY <1>1, <1>2
  <2> QED
    BY <2>1
<1>4. PICK p : p = Tail(a)
  OBVIOUS
<1>5. /\ p \in Seq(Command) /\ Len(p) = Len(a) - 1
      /\ \A i \in 1..(Len(a) - 1) : p[i] = a[i + 1]
  BY <1>1, <1>3, <1>4, Ends
<1>6. Len(p) = Len(q) + Len(cs) - 1 /\ \A i \in 1..Len(p) : p[i] = a[i + 1]
  BY <1>1, <1>5
<1>7. ASSUME NEW i \in 1..Len(q), i # 1 PROVE i - 1 \in 1..Len(p) /\ p[i - 1] = q[i]
  <2>1. i - 1 \in 1..Len(p) /\ (i - 1) + 1 = i
    BY <1>2, <1>6, <1>7
  <2>2. p[i - 1] = a[i]
    BY <1>6, <2>1
  <2> QED
    BY <1>1, <2>1, <2>2
<1>8. ASSUME NEW i \in 1..Len(cs) PROVE \E j \in 1..Len(p) : p[j] = cs[i]
  <2>1. PICK j : j = Len(q) + i - 1
    OBVIOUS
  <2>2. j \in 1..Len(p) /\ j + 1 = Len(q) + i
    BY <1>2, <1>6, <2>1
  <2>3. p[j] = a[Len(q) + i]
    BY <1>6, <2>2
  <2> QED
    BY <1>1, <2>2, <2>3
<1>9. ASSUME NEW i \in 1..Len(p)
      PROVE  \/ i + 1 \in 1..Len(q) /\ p[i] = q[i + 1]
             \/ \E j \in 1..Len(cs) : p[i] = cs[j]
  <2>1. CASE i + 1 \in 1..Len(q)
    BY <1>1, <1>6, <2>1
  <2>2. CASE i + 1 \notin 1..Len(q)
    <3>1. PICK j : j = i + 1 - Len(q)
      OBVIOUS
    <3>2. j \in 1..Len(cs) /\ Len(q) + j = i + 1
      BY <1>2, <1>6, <2>2, <3>1
    <3> QED
      BY <1>1, <1>6, <3>2
  <2> QED
    BY <2>1, <2>2
<1> QED
  BY <1>2, <1>4, <1>5, <1>6, <1>7, <1>8, <1>9 DEF a, Shifts

LEMMA Remaining ==
    ASSUME NEW q, NEW cs, NEW p, Shifts(q, cs, p)
    PROVE  /\ Listing(q) /\ q[1].op # "list" => Listing(p)
           /\ \A id : Commanding(q, id) =>
                 Commanding(p, id) \/ (q[1].op = "commands" /\ q[1].id = id)
           /\ \A id : Commanding(cs, id) => Commanding(p, id)
<1>1. /\ \A i \in 1..Len(q) : i # 1 => i - 1 \in 1..Len(p) /\ p[i - 1] = q[i]
      /\ \A i \in 1..Len(cs) : \E j \in 1..Len(p) : p[j] = cs[i]
  BY DEF Shifts
<1> QED
  BY <1>1 DEF Listing, Commanding

LEMMA QueueRetires ==
    ASSUME IInv, BreakpointsAssumption, NEW cs \in Seq(Command), Retires(cs)
    PROVE  QueueInv'
<1>1. /\ n.queue # <<>> /\ n.queue \in Seq(Command) /\ gdb.next \in Int
      /\ \A op : ~Done(op)'
  BY Answering
<1>2. PICK q : q = n.queue
  OBVIOUS
<1>3. PICK p : p = Tail(q \o cs)
  OBVIOUS
<1>4. n'.queue = p /\ gdb' = gdb /\ \A i \in 1..Len(cs) : cs[i].op = "commands"
  BY <1>2, <1>3 DEF Retires
<1>5. /\ p \in Seq(Command)
      /\ \A i \in 1..Len(q) : i # 1 => i - 1 \in 1..Len(p) /\ p[i - 1] = q[i]
      /\ \A i \in 1..Len(p) : \/ i + 1 \in 1..Len(q) /\ p[i] = q[i + 1]
                              \/ \E j \in 1..Len(cs) : p[i] = cs[j]
      /\ Len(q) \in Nat
  <2>1. q \in Seq(Command) /\ q # <<>>
    BY <1>1, <1>2
  <2>2. Shifts(q, cs, p)
    BY <1>3, <2>1, Places
  <2> QED
    BY <2>2 DEF Shifts
<1>6. ASSUME NEW i \in 1..Len(p), p[i].op \in {"enable", "disable"}
      PROVE  \E j \in (i + 1)..Len(p) : p[j].op = "list"
  <2>1. i + 1 \in 1..Len(q) /\ p[i] = q[i + 1]
    BY <1>4, <1>5, <1>6
  <2>2. PICK j \in ((i + 1) + 1)..Len(q) : q[j].op = "list"
    BY <1>2, <1>6, <2>1 DEF IInv, QueueInv
  <2>3. j \in 1..Len(q) /\ j # 1 /\ j - 1 >= i + 1
    BY <1>5, <2>1
  <2>4. j - 1 \in 1..Len(p) /\ p[j - 1] = q[j]
    BY <1>5, <2>3
  <2>5. j - 1 \in (i + 1)..Len(p)
    BY <1>5, <2>3, <2>4
  <2> QED
    BY <2>2, <2>4, <2>5
<1>7. gdb.next + Cardinality(Unread(p, FALSE)) <= MaxBps + 1
  <2>1. q \o cs \in Seq(Command) /\ q \o cs # <<>>
    <3>1. q \o cs \in Seq(Command) /\ Len(q \o cs) = Len(q) + Len(cs)
      BY <1>1, <1>2, JoinedCommands
    <3>2. Len(q) \in Nat \ {0} /\ Len(cs) \in Nat
      BY <1>1, <1>2, Places DEF Shifts
    <3>3. Len(q \o cs) # 0
      BY <3>1, <3>2
    <3> QED
      BY <3>1, <3>3
  <2>2. PICK d \in BOOLEAN : d = Done("insert")
    BY DEF Done
  <2>3. PICK a, b, c : /\ a = Cardinality(Unread(p, FALSE))
                       /\ b = Cardinality(Unread(q, TRUE))
                       /\ c = Cardinality(Unread(q, d))
    OBVIOUS
  <2>4. a <= b
    <3>1. Cardinality(Unread(Tail(q \o cs), FALSE)) <= Cardinality(Unread(q \o cs, TRUE))
      BY <2>1, UnreadTail, Zenon
    <3>2. Unread(q \o cs, TRUE) = Unread(q, TRUE)
      <4>1. \A i \in 1..Len(cs) : cs[i].op # "insert"
        BY <1>4
      <4>2. q \in Seq(Command) /\ TRUE \in BOOLEAN
        BY <1>1, <1>2
      <4> QED
        BY <4>1, <4>2, UnreadJoined
    <3> QED
      BY <1>3, <2>3, <3>1, <3>2
  <2>5. b <= c /\ b \in Nat /\ c \in Nat
    <3>1. q \in Seq(Command)
      BY <1>1, <1>2
    <3> QED
      BY <2>3, <3>1, UnreadType
  <2>6. a \in Nat
    BY <1>5, <2>3, UnreadType
  <2>7. gdb.next + c <= MaxBps + 1
    BY <1>2, <2>2, <2>3 DEF IInv, QueueInv
  <2>8. MaxBps \in Nat
    BY DEF BreakpointsAssumption
  <2>9. gdb.next + a <= MaxBps + 1
    BY <1>1, <2>4, <2>5, <2>6, <2>7, <2>8
  <2> QED
    BY <2>3, <2>9
<1>8. Done("insert")' = FALSE
  BY <1>1 DEF Done
<1> QED
  BY <1>4, <1>6, <1>7, <1>8 DEF QueueInv

(* Whatever was still to be inserted is: the place of each insertion and    *)
(* the first number of all move by one, or there is nothing to insert.      *)
LEMMA AgainRetires ==
    ASSUME IInv, BreakpointsAssumption, NEW cs \in Seq(Command), Retires(cs),
           \A id \in DOMAIN n'.cache :
               \/ id \in DOMAIN gdb.table
               \/ /\ id \in DOMAIN n.cache /\ n'.cache[id].loc = n.cache[id].loc
                  /\ n'.cache[id].count = n.cache[id].count
    PROVE  AgainInv' /\ (First = gdb.next => \A id \in DOMAIN n.cache : id \in Int /\ id < First)
<1>1. /\ n.queue # <<>> /\ n.queue \in Seq(Command) /\ gdb.next \in Int /\ First' = gdb.next
      /\ First = IF out[1].kind = "done" /\ n.queue[1].op = "insert"
                 THEN gdb.next - 1 ELSE gdb.next
  BY Answering
<1>2. PICK q : q = n.queue
  OBVIOUS
<1>3. PICK p : p = Tail(q \o cs)
  OBVIOUS
<1>4. /\ n'.queue = p /\ gdb' = gdb
      /\ \A i \in 1..Len(cs) : cs[i].op = "commands" /\ (Again => cs[i].id \in DOMAIN gdb.table)
      /\ Again' = Again
  BY <1>2, <1>3 DEF Retires, Again
<1>5. /\ p \in Seq(Command)
      /\ \A i \in 1..Len(q) : i # 1 => i - 1 \in 1..Len(p) /\ p[i - 1] = q[i]
      /\ \A i \in 1..Len(p) : \/ i + 1 \in 1..Len(q) /\ p[i] = q[i + 1]
                              \/ \E j \in 1..Len(cs) : p[i] = cs[j]
      /\ Len(q) \in Nat \ {0} /\ Len(p) \in Nat
  <2>1. q \in Seq(Command) /\ q # <<>>
    BY <1>1, <1>2
  <2>2. Shifts(q, cs, p)
    BY <1>3, <2>1, Places
  <2> QED
    BY <2>2 DEF Shifts
<1>6. /\ \A id \in DOMAIN n.cache : id \in Int
      /\ \A id \in DOMAIN gdb.table : id \in Int /\ id < gdb.next
      /\ 1 \in 1..Len(out)
  <2>1. IsTable(n.cache, Ids, Breakpoint)
    BY TableFacts DEF IInv, Typed, Nemiver
  <2>2. DOMAIN gdb.table \subseteq 1..(gdb.next - 1)
    BY DEF IInv, CacheInv
  <2>3. out \in Seq(Record) /\ out # <<>>
    BY DEF IInv, Typed, Retires
  <2> QED
    BY <1>1, <2>1, <2>2, <2>3, Ends DEF IsTable, Ids
<1>7. First = gdb.next /\ Again => q[1].op # "insert" /\ \A i \in 1..Len(q) : q[i].op # "insert"
  <2> SUFFICES ASSUME First = gdb.next, Again
               PROVE  q[1].op # "insert" /\ \A i \in 1..Len(q) : q[i].op # "insert"
    OBVIOUS
  <2>1. q[1].op # "insert"
    <3>1. out[1].kind = "done" => q[1].op # "insert"
      BY <1>1, <1>2
    <3>2. out[1].kind = "error" => q[1].op # "insert"
      BY <1>2, <1>6 DEF IInv, AnswerInv
    <3> QED
      BY <3>1, <3>2 DEF Retires
  <2>2. \A i \in 1..Len(q) : q[i].op = "insert" => \A j \in 1..i : q[j].op = "insert"
    BY <1>2 DEF IInv, AgainInv
  <2>3. \A i \in 1..Len(q) : 1 \in 1..i
    BY <1>5
  <2> QED
    BY <2>1, <2>2, <2>3
<1>8. First = gdb.next => \A id \in DOMAIN n.cache : id < First
  <2> SUFFICES ASSUME First = gdb.next, NEW id \in DOMAIN n.cache PROVE id < First
    OBVIOUS
  <2>1. CASE Again
    <3>1. id >= First => id - First + 1 \in 1..Len(q) /\ q[id - First + 1].op = "insert"
      BY <1>2, <2>1 DEF IInv, AgainInv
    <3>2. ~(id >= First)
      BY <1>7, <2>1, <3>1
    <3>3. id \in Int /\ First \in Int
      BY <1>1, <1>6
    <3> QED
      BY <3>2, <3>3
  <2>2. CASE ~Again
    BY <2>2 DEF IInv, CacheInv
  <2> QED
    BY <2>1, <2>2
<1>9. ASSUME Again PROVE AgainInv'
  <2>1. /\ DOMAIN gdb.table = 1..(gdb.next - 1)
        /\ \A i \in 1..Len(q) :
              /\ q[i].op # "delete"
              /\ q[i].op = "commands" => q[i].id \in DOMAIN gdb.table
              /\ q[i].op = "insert" =>
                    /\ \A j \in 1..i : q[j].op = "insert"
                    /\ First + i - 1 \in DOMAIN n.cache =>
                          /\ n.cache[First + i - 1].loc = q[i].loc
                          /\ n.cache[First + i - 1].count = q[i].count
        /\ \A id \in DOMAIN n.cache : id >= First =>
              id - First + 1 \in 1..Len(q) /\ q[id - First + 1].op = "insert"
    BY <1>2, <1>9 DEF IInv, AgainInv
  <2>2. ASSUME NEW i \in 1..Len(p)
        PROVE  /\ p[i].op # "delete"
               /\ p[i].op = "commands" => p[i].id \in DOMAIN gdb.table
    <3>1. CASE i + 1 \in 1..Len(q) /\ p[i] = q[i + 1]
      BY <2>1, <3>1
    <3>2. CASE \E j \in 1..Len(cs) : p[i] = cs[j]
      BY <1>4, <1>9, <3>2
    <3> QED
      BY <1>5, <3>1, <3>2
  <2>3. ASSUME NEW i \in 1..Len(p), p[i].op = "insert"
        PROVE  /\ \A j \in 1..i : p[j].op = "insert"
               /\ gdb.next + i - 1 \in DOMAIN n'.cache =>
                     /\ n'.cache[gdb.next + i - 1].loc = p[i].loc
                     /\ n'.cache[gdb.next + i - 1].count = p[i].count
    <3>1. i + 1 \in 1..Len(q) /\ p[i] = q[i + 1] /\ q[i + 1].op = "insert"
      BY <1>4, <1>5, <2>3
    <3>2. First = gdb.next - 1
      BY <1>1, <1>7, <1>9, <3>1
    <3>3. ASSUME NEW j \in 1..i PROVE p[j].op = "insert"
      <4>1. j + 1 \in 1..(i + 1) /\ j + 1 \in 1..Len(q) /\ j + 1 # 1 /\ (j + 1) - 1 = j
        BY <1>5, <3>1
      <4>2. q[j + 1].op = "insert"
        BY <2>1, <3>1, <4>1
      <4>3. p[(j + 1) - 1] = q[j + 1]
        BY <1>5, <4>1
      <4> QED
        BY <4>1, <4>2, <4>3
    <3>4. ASSUME gdb.next + i - 1 \in DOMAIN n'.cache
          PROVE  /\ n'.cache[gdb.next + i - 1].loc = p[i].loc
                 /\ n'.cache[gdb.next + i - 1].count = p[i].count
      <4>1. PICK id : id = gdb.next + i - 1
        OBVIOUS
      <4>2. id = First + (i + 1) - 1 /\ ~(id < gdb.next) /\ id \in DOMAIN n'.cache
        BY <1>1, <3>2, <3>4, <4>1
      <4>3. id \notin DOMAIN gdb.table
        BY <1>6, <4>2
      <4>4. /\ id \in DOMAIN n.cache /\ n'.cache[id].loc = n.cache[id].loc
            /\ n'.cache[id].count = n.cache[id].count
        BY <4>2, <4>3
      <4>5. n.cache[id].loc = q[i + 1].loc /\ n.cache[id].count = q[i + 1].count
        BY <2>1, <3>1, <4>2, <4>4
      <4> QED
        BY <3>1, <4>1, <4>4, <4>5
    <3> QED
      BY <3>3, <3>4
  <2>4. ASSUME NEW id \in DOMAIN n'.cache, id >= gdb.next
        PROVE  id - gdb.next + 1 \in 1..Len(p) /\ p[id - gdb.next + 1].op = "insert"
    <3>0. gdb.next \in Int /\ \A x \in DOMAIN gdb.table : x \in Int /\ x < gdb.next
      BY <1>1, <1>6
    <3>1. id \in Int /\ id \in DOMAIN n.cache
      <4>1. id \in DOMAIN gdb.table => id \in Int /\ id < gdb.next
        BY <1>6
      <4>2. id \notin DOMAIN gdb.table
        BY <2>4, <3>0, <4>1
      <4> QED
        BY <1>6, <4>2
    <3>2. First = gdb.next - 1
      BY <1>1, <1>8, <2>4, <3>1
    <3>3. PICK i : i = id - First + 1
      OBVIOUS
    <3>4. i \in 1..Len(q) /\ q[i].op = "insert" /\ i # 1 /\ i - 1 = id - gdb.next + 1
      <4>1. id >= First /\ i # 1 /\ i - 1 = id - gdb.next + 1
        BY <1>1, <2>4, <3>1, <3>2, <3>3
      <4> QED
        BY <2>1, <3>1, <3>3, <4>1
    <3>5. i - 1 \in 1..Len(p) /\ p[i - 1] = q[i]
      BY <1>5, <3>4
    <3> QED
      BY <3>4, <3>5
  <2> QED
    BY <1>1, <1>4, <2>1, <2>2, <2>3, <2>4 DEF AgainInv
<1>10. ~Again => AgainInv'
  BY <1>4 DEF AgainInv
<1> QED
  BY <1>6, <1>8, <1>9, <1>10

Handled(s) == n' = [s EXCEPT !.queue = Tail(s.queue)]

LEMMA Retiring ==
    ASSUME IInv, OnOutputRecord, out[1].kind \in {"done", "error"},
           NEW s \in Nemiver, NEW cs \in Seq(Command),
           Handled(s), s.queue = n.queue \o cs,
           \A i \in 1..Len(cs) :
               cs[i].op = "commands" /\ (Again => cs[i].id \in DOMAIN gdb.table)
    PROVE  /\ Retires(cs) /\ Typed'
           /\ n'.cache = s.cache /\ n'.shown = s.shown /\ n'.rows = s.rows
<1>1. /\ out' = Tail(out) /\ out' \in Seq(Record) /\ out # <<>>
      /\ gdb' = gdb /\ wanted' = wanted /\ may' = may /\ n \in Nemiver
      /\ 1 \in 1..Len(out)
  BY Records
<1>2. n.queue # <<>> /\ n.queue \in Seq(Command)
  BY <1>1 DEF IInv, OutInv, Nemiver
<1>3. PICK p : p = Tail(s.queue)
  OBVIOUS
<1>4. p \in Seq(Command)
  <2>1. Shifts(n.queue, cs, p)
    BY <1>2, <1>3, Places
  <2> QED
    BY <2>1 DEF Shifts
<1>5. /\ n' \in Nemiver /\ n'.queue = p /\ n'.cache = s.cache
      /\ n'.shown = s.shown /\ n'.rows = s.rows
  <2>1. n' = [s EXCEPT !.queue = p]
    BY <1>3 DEF Handled
  <2> QED
    BY <1>4, <2>1, Fields
<1>6. Retires(cs)
  BY <1>1, <1>3, <1>5 DEF Retires
<1>7. Typed'
  BY <1>1, <1>5 DEF IInv, Typed
<1> QED
  BY <1>5, <1>6, <1>7

LEMMA Settles ==
    ASSUME IInv, BreakpointsAssumption, NEW cs \in Seq(Command), Retires(cs), Typed',
           \A id \in DOMAIN n'.cache :
               \/ id \in DOMAIN gdb.table
               \/ /\ id \in DOMAIN n.cache /\ n'.cache[id].loc = n.cache[id].loc
                  /\ n'.cache[id].count = n.cache[id].count,
           n.queue[1].op \notin {"run", "continue"} \/ n'.cache = n.cache,
           CacheInv', ShownInv'
    PROVE  IInv'
<1>1. OutInv' /\ AnswerInv' /\ QueueInv' /\ AgainInv'
  BY Answering, QueueRetires, AgainRetires
<1>2. ModifiedInv'
  <2>1. CASE n.queue[1].op \notin {"run", "continue"}
    <3>1. out' = <<>>
      BY <2>1, Answering
    <3> QED
      BY <3>1 DEF ModifiedInv
  <2>2. CASE n.queue[1].op \in {"run", "continue"} /\ n'.cache = n.cache
    <3>1. /\ \A op : Done(op) => n.queue[1].op = op
          /\ First' = First /\ gdb' = gdb
      <4>1. /\ \A op : Done(op) <=> out[1].kind = "done" /\ n.queue[1].op = op
            /\ First' = gdb.next
            /\ First = IF out[1].kind = "done" /\ n.queue[1].op = "insert"
                       THEN gdb.next - 1 ELSE gdb.next
        BY Answering
      <4> QED
        BY <2>2, <4>1 DEF Retires
    <3>2. ASSUME NEW i \in 1..Len(out'), out'[i].kind = "modified", NEW b, b = out'[i].bps
          PROVE  \E id \in Ids : ModifiedAs(b, id)'
      <4>1. \E j \in 1..Len(out) : out'[i] = out[j]
        BY Answering
      <4>2. PICK id \in Ids : ModifiedAs(b, id)
        BY <3>2, <4>1 DEF IInv, ModifiedInv
      <4>3. ~Done("enable") /\ ~Done("disable") /\ ~Done("delete")
        BY <2>2, <3>1
      <4>4. ModifiedAs(b, id)'
        BY <2>2, <3>1, <4>2, <4>3 DEF ModifiedAs
      <4> QED
        BY <4>4
    <3> QED
      BY <3>2 DEF ModifiedInv, ModifiedAs
  <2> QED
    BY <2>1, <2>2
<1> QED
  BY <1>1, <1>2 DEF IInv

(* An answer that changes neither the cache nor what is shown.             *)
LEMMA Untouched ==
    ASSUME IInv, BreakpointsAssumption, OnOutputRecord,
           Handled(n),
           \/ out[1].kind = "error"
           \/ /\ out[1].kind = "done"
              /\ n.queue[1].op \in {"enable", "disable", "after", "run", "continue"}
    PROVE  IInv'
<1> DEFINE cs == <<>>
<1>1. n \in Nemiver /\ n.queue \in Seq(Command) /\ 1 \in 1..Len(out)
  BY Records DEF Nemiver
<1>2. cs \in Seq(Command) /\ n.queue = n.queue \o cs /\ \A i \in 1..Len(cs) : FALSE
  BY <1>1, ConcatEmptySeq
<1> HIDE DEF cs
<1>3. Retires(cs) /\ Typed' /\ n'.cache = n.cache /\ n'.shown = n.shown /\ n'.rows = n.rows
  BY <1>1, <1>2, Retiring
<1>4. n.queue[1].op \notin {"insert", "list"} /\ n.queue # <<>>
  BY <1>1, <1>2, <1>3, Answering DEF IInv, AnswerInv
<1>5. ~Done("insert") /\ ~Done("delete") /\ First' = gdb.next /\ First = gdb.next
      /\ ~Done("insert")' /\ ~Done("delete")'
  <2>1. /\ \A op : Done(op) <=> out[1].kind = "done" /\ n.queue[1].op = op
        /\ \A op : ~Done(op)'
        /\ First' = gdb.next
        /\ First = IF out[1].kind = "done" /\ n.queue[1].op = "insert"
                   THEN gdb.next - 1 ELSE gdb.next
    BY <1>2, <1>3, Answering
  <2>2. ~Done("delete")
    BY <1>4, <2>1
  <2> QED
    BY <1>4, <2>1, <2>2
<1>6. /\ Listing(n.queue) => Listing(n'.queue)
      /\ \A id : Commanding(n.queue, id) =>
            Commanding(n'.queue, id) \/ (n.queue[1].op = "commands" /\ n.queue[1].id = id)
  <2>1. n.queue # <<>> /\ n'.queue = Tail(n.queue \o cs)
    BY <1>3, <1>4 DEF Retires
  <2>2. Shifts(n.queue, cs, n'.queue)
    BY <1>1, <1>2, <2>1, Places
  <2> QED
    BY <1>4, <2>2, Remaining
<1>7. gdb' = gdb /\ Again' = Again
  BY <1>3 DEF Retires, Again
<1>8. CacheInv'
  BY <1>3, <1>5, <1>6, <1>7 DEF IInv, CacheInv
<1>9. Again /\ n.queue[1].op = "commands" => FALSE
  <2> SUFFICES ASSUME Again, n.queue[1].op = "commands" PROVE FALSE
    OBVIOUS
  <2>1. 1 \in 1..Len(n.queue)
    BY <1>2, <1>3, Answering
  <2>2. n.queue[1].id \in DOMAIN gdb.table
    BY <2>1 DEF IInv, AgainInv
  <2>3. Gone
    BY <1>1 DEF IInv, AnswerInv
  <2> QED
    BY <2>2, <2>3 DEF Gone
<1>10. ShownInv'
  BY <1>3, <1>5, <1>6, <1>7, <1>9 DEF IInv, ShownInv
<1> QED
  BY <1>2, <1>3, <1>8, <1>10, Settles

LEMMA Deletes ==
    ASSUME IInv, BreakpointsAssumption, OnOutputRecord,
           out[1].kind = "done", n.queue[1].op = "delete",
           NEW s, s = NotifyDeleted(n, n.queue[1].id),
           Handled(s)
    PROVE  IInv'
<1> DEFINE cs == <<>>
           id == n.queue[1].id
<1>1. /\ n \in Nemiver /\ n.queue \in Seq(Command) /\ 1 \in 1..Len(out) /\ n.queue # <<>>
      /\ 1 \in 1..Len(n.queue)
  <2>1. n \in Nemiver /\ n.queue \in Seq(Command) /\ 1 \in 1..Len(out)
    BY Records DEF Nemiver
  <2>2. n.queue # <<>>
    BY <2>1 DEF IInv, OutInv
  <2> QED
    BY <2>1, <2>2, Ends
<1>2. cs \in Seq(Command) /\ n.queue = n.queue \o cs /\ \A i \in 1..Len(cs) : FALSE
  BY <1>1, ConcatEmptySeq
<1>3. id \in Ids
  <2>1. n.queue[1] \in Command
    BY <1>1
  <2> QED
    BY <2>1, CommandFacts
<1> HIDE DEF cs
<1>4. /\ s \in Nemiver /\ s.queue = n.queue
      /\ DOMAIN s.cache = DOMAIN n.cache \ {id} /\ DOMAIN s.shown = DOMAIN n.shown \ {id}
      /\ \A x \in DOMAIN n.cache \ {id} : s.cache[x] = n.cache[x]
      /\ \A x \in DOMAIN n.shown \ {id} : s.shown[x] = n.shown[x]
      /\ \A x \in Ids : s.rows[x] = IF x = id THEN 0 ELSE n.rows[x]
  <2>1. CASE id \in DOMAIN n.cache
    <3>1. /\ s \in Nemiver /\ s.queue = n.queue
          /\ s.cache = Without(n.cache, id) /\ s.shown = Without(n.shown, id)
          /\ s.rows = [n.rows EXCEPT ![id] = 0]
      BY <1>1, <1>3, <2>1, NotifyDeletedEffect
    <3>2. \A x \in Ids : s.rows[x] = IF x = id THEN 0 ELSE n.rows[x]
      BY <1>1, <1>3, <3>1 DEF Nemiver
    <3>3. /\ DOMAIN s.cache = DOMAIN n.cache \ {id} /\ DOMAIN s.shown = DOMAIN n.shown \ {id}
          /\ \A x \in DOMAIN n.cache \ {id} : s.cache[x] = n.cache[x]
          /\ \A x \in DOMAIN n.shown \ {id} : s.shown[x] = n.shown[x]
      BY <3>1 DEF Without, Restrict
    <3> QED
      BY <3>1, <3>2, <3>3
  <2>2. CASE id \notin DOMAIN n.cache
    <3>1. s = n
      BY <2>2 DEF NotifyDeleted
    <3>2. id \notin DOMAIN n.shown /\ n.rows[id] = 0
      BY <1>3, <2>2 DEF IInv, ShownInv
    <3> QED
      BY <1>1, <2>2, <3>1, <3>2
  <2> QED
    BY <2>1, <2>2
<1>5. Retires(cs) /\ Typed' /\ n'.cache = s.cache /\ n'.shown = s.shown /\ n'.rows = s.rows
  BY <1>2, <1>4, Retiring
<1>6. ~Done("insert") /\ First' = gdb.next /\ First = gdb.next
  BY <1>2, <1>5, Answering
<1>7. Listing(n.queue) => Listing(n'.queue)
  <2>1. n.queue # <<>> /\ n'.queue = Tail(n.queue \o cs)
    BY <1>1, <1>5 DEF Retires
  <2>2. Shifts(n.queue, cs, n'.queue)
    BY <1>1, <1>2, <2>1, Places
  <2> QED
    BY <2>2, Remaining
<1>8. gdb' = gdb /\ ~Again' /\ ~Again
  BY <1>1, <1>5 DEF Retires, IInv, AgainInv, Again
<1>9. id \notin DOMAIN gdb.table
  BY <1>1 DEF IInv, AnswerInv, Gone
<1> HIDE DEF id
<1>9a. /\ DOMAIN n'.cache = DOMAIN n.cache \ {id}
       /\ \A x \in DOMAIN n.cache \ {id} : n'.cache[x] = n.cache[x]
  BY <1>4, <1>5
<1>9b. /\ DOMAIN n'.shown = DOMAIN n.shown \ {id}
       /\ \A x \in DOMAIN n.shown \ {id} : n'.shown[x] = n.shown[x]
  BY <1>4, <1>5
<1>9c. \A x \in Ids : n'.rows[x] = IF x = id THEN 0 ELSE n.rows[x]
  BY <1>4, <1>5
<1>10. CacheInv'
  <2>1. CacheInv
    BY DEF IInv
  <2>2. Done("delete") => n.queue[1].id = id
    BY DEF id
  <2>3. \A x \in DOMAIN gdb.table : x \in DOMAIN n'.cache
    BY <1>6, <1>9, <1>9a, <2>1 DEF CacheInv
  <2>4. \A x \in DOMAIN n'.cache : x < gdb.next /\ x \in DOMAIN gdb.table
    BY <1>6, <1>8, <1>9a, <2>1, <2>2 DEF CacheInv
  <2>5. \A x \in DOMAIN gdb.table :
            /\ n'.cache[x].loc = gdb.table[x].loc
            /\ \/ n'.cache[x].enabled = gdb.table[x].enabled
               \/ Listing(n'.queue) \/ x >= gdb.next
    <3>1. \A x \in DOMAIN gdb.table : x \in DOMAIN n.cache /\ n'.cache[x] = n.cache[x]
      BY <1>9, <1>9a, <2>3
    <3> QED
      BY <1>6, <1>7, <2>1, <3>1 DEF CacheInv
  <2>6. DOMAIN gdb.table \subseteq 1..(gdb.next - 1)
    BY <2>1 DEF CacheInv
  <2> QED
    BY <1>6, <1>8, <2>3, <2>4, <2>5, <2>6 DEF CacheInv
<1>11. ShownInv'
  <2>1. ShownInv
    BY DEF IInv
  <2>2. DOMAIN n'.shown \subseteq DOMAIN n'.cache /\ \A x \in DOMAIN n'.shown : x < gdb.next
    BY <1>6, <1>9a, <1>9b, <2>1 DEF ShownInv
  <2>3. \A x \in DOMAIN n'.cache :
            \/ x \in DOMAIN n'.shown /\ n'.shown[x] = n'.cache[x]
            \/ Listing(n'.queue)
    BY <1>7, <1>8, <1>9a, <1>9b, <2>1 DEF ShownInv
  <2>4. \A x \in Ids : n'.rows[x] = IF x \in DOMAIN n'.shown THEN 1 ELSE 0
    BY <1>9b, <1>9c, <2>1 DEF ShownInv
  <2> QED
    BY <1>6, <2>2, <2>3, <2>4 DEF ShownInv
<1>12. \A x \in DOMAIN n'.cache : x \in DOMAIN n.cache /\ n'.cache[x] = n.cache[x]
  BY <1>4, <1>5
<1> QED
  BY <1>2, <1>5, <1>10, <1>11, <1>12, Settles

(* The facts about an answered command that the cases below need.          *)
LEMMA Keeps ==
    ASSUME IInv, NEW cs \in Seq(Command), Retires(cs), out[1].kind = "done",
           n.queue[1].op # "list"
    PROVE  /\ Listing(n.queue) => Listing(n'.queue)
           /\ \A id : Commanding(n.queue, id) =>
                 Commanding(n'.queue, id) \/ (n.queue[1].op = "commands" /\ n.queue[1].id = id)
           /\ \A id : Commanding(cs, id) => Commanding(n'.queue, id)
           /\ gdb' = gdb /\ Again' = Again
<1>1. n.queue # <<>> /\ n.queue \in Seq(Command) /\ n'.queue = Tail(n.queue \o cs)
  BY Answering DEF Retires
<1>2. Shifts(n.queue, cs, n'.queue)
  BY <1>1, Places
<1>3. /\ Listing(n.queue) => Listing(n'.queue)
      /\ \A id : Commanding(n.queue, id) =>
            Commanding(n'.queue, id) \/ (n.queue[1].op = "commands" /\ n.queue[1].id = id)
      /\ \A id : Commanding(cs, id) => Commanding(n'.queue, id)
  BY <1>2, Remaining
<1> QED
  BY <1>3 DEF Retires, Again

(* The commands that follow an insertion.                                  *)
Counting(c, k) ==
    IF c.count THEN <<[op |-> "commands", id |-> k, yes |-> TRUE]>> ELSE <<>>

LEMMA CountingType ==
    ASSUME NEW c, NEW k \in Ids
    PROVE  /\ Counting(c, k) \in Seq(Command)
           /\ \A i \in 1..Len(Counting(c, k)) :
                 Counting(c, k)[i].op = "commands" /\ Counting(c, k)[i].id = k
           /\ c.count => Commanding(Counting(c, k), k)
<1> DEFINE d == [op |-> "commands", id |-> k, yes |-> TRUE]
<1>1. d \in Command /\ d.op = "commands" /\ d.id = k
  BY Commands
<1> HIDE DEF d
<1>2. /\ <<d>> \in Seq(Command) /\ Len(<<d>>) = 1 /\ <<d>>[1] = d
      /\ <<>> \in Seq(Command) /\ \A i \in 1..Len(<<>>) : FALSE
  BY <1>1
<1>3. Commanding(<<d>>, k)
  BY <1>1, <1>2 DEF Commanding
<1>4. Counting(c, k) = IF c.count THEN <<d>> ELSE <<>>
  BY DEF Counting, d
<1>5. CASE c.count
  BY <1>1, <1>2, <1>3, <1>4, <1>5
<1>6. CASE ~c.count
  BY <1>2, <1>4, <1>6
<1> QED
  BY <1>5, <1>6

(* The breakpoint that GDB inserted: bps tells of it, and of it only.      *)
(* t is s after the answer bps to the insertion c, of breakpoint k.        *)
SetAs(s, c, bps, k, t) ==
    /\ t \in Nemiver
    /\ t.queue = s.queue \o Counting(c, k)
    /\ DOMAIN t.cache = DOMAIN s.cache \union {k}
    /\ \A x \in DOMAIN s.cache \ {k} : t.cache[x] = s.cache[x]
    /\ t.cache[k].loc = bps[k].loc
    /\ t.cache[k].enabled = bps[k].enabled
    /\ t.cache[k].count = (k \in DOMAIN s.cache /\ s.cache[k].count)
    /\ t.cache[k].initial = IF k \in DOMAIN s.cache THEN s.cache[k].initial ELSE bps[k].initial
    /\ DOMAIN t.shown = DOMAIN s.shown \union {k}
    /\ \A x \in DOMAIN s.shown \ {k} : t.shown[x] = s.shown[x]
    /\ ~bps[k].count => \/ k \in DOMAIN s.cache /\ s.cache[k].count
                        \/ t.shown[k] = t.cache[k]
    /\ \A x \in Ids : t.rows[x] =
          IF x = k THEN s.rows[x] + 1 ELSE s.rows[x]

LEMMA InsertedEffect ==
    ASSUME NEW s \in Nemiver, NEW c \in Command, NEW bps \in Tables(Breakpoint),
           NEW k \in Ids, DOMAIN bps = {k}
    PROVE  SetAs(s, c, bps, k, OnInserted(s, c, bps))
<1> DEFINE cs == Counting(c, k)
<1>1. PICK told : told = Told(s, bps)
  OBVIOUS
<1>2. /\ told \in Tables(Breakpoint) /\ DOMAIN told = {k} /\ told[k] \in Breakpoint
      /\ bps[k] \in Breakpoint
      /\ told[k].loc = bps[k].loc /\ told[k].enabled = bps[k].enabled
      /\ told[k].count = bps[k].count
      /\ told[k].initial = IF k \in DOMAIN s.cache THEN s.cache[k].initial ELSE bps[k].initial
  BY <1>1, ToldEffect
<1>3. PICK u : u = Cache(s, bps)
  OBVIOUS
<1>4. /\ u \in Nemiver /\ u.queue = s.queue /\ u.shown = s.shown /\ u.rows = s.rows
      /\ DOMAIN u.cache = DOMAIN s.cache \union {k}
      /\ \A x \in DOMAIN s.cache \ {k} : u.cache[x] = s.cache[x]
      /\ u.cache[k] \in Breakpoint
      /\ u.cache[k].loc = bps[k].loc /\ u.cache[k].enabled = bps[k].enabled
      /\ u.cache[k].count = (k \in DOMAIN s.cache /\ s.cache[k].count)
      /\ u.cache[k].initial = IF k \in DOMAIN s.cache
                              THEN s.cache[k].initial ELSE bps[k].initial
  <2>1. /\ u \in Nemiver /\ u.queue = s.queue /\ u.shown = s.shown /\ u.rows = s.rows
        /\ DOMAIN u.cache = DOMAIN s.cache \union DOMAIN bps
        /\ \A x \in DOMAIN s.cache \ DOMAIN bps : u.cache[x] = s.cache[x]
        /\ \A x \in DOMAIN bps :
              /\ u.cache[x] \in Breakpoint
              /\ u.cache[x].loc = bps[x].loc /\ u.cache[x].enabled = bps[x].enabled
              /\ u.cache[x].count = (x \in DOMAIN s.cache /\ s.cache[x].count)
              /\ u.cache[x].initial = IF x \in DOMAIN s.cache
                                      THEN s.cache[x].initial ELSE bps[x].initial
    BY <1>3, CacheEffect
  <2> QED
    BY <2>1
<1>5. ~bps[k].count /\ ~(k \in DOMAIN s.cache /\ s.cache[k].count) => told[k] = u.cache[k]
  <2> SUFFICES ASSUME ~bps[k].count, ~(k \in DOMAIN s.cache /\ s.cache[k].count)
               PROVE  told[k] = u.cache[k]
    OBVIOUS
  <2>1. told[k].count = FALSE /\ u.cache[k].count = FALSE
    BY <1>2, <1>4 DEF Breakpoint
  <2>2. told[k].loc = u.cache[k].loc /\ told[k].enabled = u.cache[k].enabled
    BY <1>2, <1>4
  <2>3. told[k].initial = u.cache[k].initial
    BY <1>2, <1>4
  <2>4. told[k] \in Breakpoint /\ u.cache[k] \in Breakpoint
    BY <1>2, <1>4
  <2> QED
    BY <2>1, <2>2, <2>3, <2>4, SameBreakpoint
<1>6. cs \in Seq(Command)
  BY CountingType
<1> HIDE DEF cs
<1>7. PICK v : v = Queue(u, cs)
  OBVIOUS
<1>8. /\ v \in Nemiver /\ v.queue = s.queue \o cs /\ v.cache = u.cache
      /\ v.shown = s.shown /\ v.rows = s.rows
  <2>1. /\ v \in Nemiver /\ v.queue = u.queue \o cs /\ v.cache = u.cache
        /\ v.shown = u.shown /\ v.rows = u.rows
    <3>1. u \in Nemiver
      BY <1>4
    <3> QED
      BY <1>6, <1>7, <3>1, Queued
  <2> QED
    BY <1>4, <2>1
<1>9. OnInserted(s, c, bps) = BreakpointsSet(v, told)
  <2>1. (CHOOSE i \in DOMAIN bps : TRUE) = k /\ k \in DOMAIN u.cache
    BY <1>4
  <2>2. CASE c.count
    <3>1. v = EnableCountpoint(u, k, TRUE)
      BY <1>7, <2>1, <2>2 DEF EnableCountpoint, cs, Counting
    <3> QED
      BY <1>1, <1>3, <2>1, <2>2, <3>1 DEF OnInserted
  <2>3. CASE ~c.count
    <3>1. cs = <<>> /\ s.queue \in Seq(Command)
      BY <2>3 DEF cs, Counting, Nemiver
    <3>2. u.queue \o cs = u.queue
      BY <1>4, <3>1, ConcatEmptySeq
    <3>3. v = u
      BY <1>4, <1>7, <3>2 DEF Queue, Nemiver
    <3> QED
      BY <1>1, <1>3, <2>3, <3>3 DEF OnInserted
  <2> QED
    BY <2>2, <2>3
<1>10. PICK w : w = BreakpointsSet(v, told)
  OBVIOUS
<1>11. /\ w \in Nemiver /\ w.queue = v.queue /\ w.cache = v.cache
       /\ DOMAIN w.shown = DOMAIN v.shown \union {k}
       /\ \A x \in DOMAIN v.shown \union {k} :
             w.shown[x] = IF x \in {k} THEN told[x] ELSE v.shown[x]
       /\ \A x \in Ids : w.rows[x] = IF x \in {k} THEN v.rows[x] + 1 ELSE v.rows[x]
  BY <1>2, <1>8, <1>10, SetEffect
<1>12. /\ DOMAIN w.cache = DOMAIN s.cache \union {k}
       /\ \A x \in DOMAIN s.cache \ {k} : w.cache[x] = s.cache[x]
       /\ w.cache[k].loc = bps[k].loc /\ w.cache[k].enabled = bps[k].enabled
       /\ w.cache[k].count = (k \in DOMAIN s.cache /\ s.cache[k].count)
       /\ w.cache[k].initial = IF k \in DOMAIN s.cache
                               THEN s.cache[k].initial ELSE bps[k].initial
  <2>1. w.cache = u.cache
    BY <1>8, <1>11
  <2> QED
    BY <1>4, <2>1
<1>13. /\ DOMAIN w.shown = DOMAIN s.shown \union {k}
       /\ \A x \in DOMAIN s.shown \ {k} : w.shown[x] = s.shown[x]
       /\ w.shown[k] = told[k] /\ w.cache[k] = u.cache[k]
       /\ \A x \in Ids : w.rows[x] = IF x = k THEN s.rows[x] + 1 ELSE s.rows[x]
  BY <1>8, <1>11
<1>14. w \in Nemiver /\ w.queue = s.queue \o cs
  BY <1>8, <1>11
<1> QED
  BY <1>5, <1>9, <1>10, <1>12, <1>13, <1>14 DEF cs, SetAs

LEMMA Inserted ==
    ASSUME IInv, BreakpointsAssumption, OnOutputRecord,
           out[1].kind = "done", n.queue[1].op = "insert",
           NEW s, s = OnInserted(n, n.queue[1], out[1].bps),
           Handled(s)
    PROVE  IInv'
<1> DEFINE c == n.queue[1]
           b == out[1].bps
           k == gdb.next - 1
           cs == Counting(c, k)
<1>1. /\ n \in Nemiver /\ n.queue \in Seq(Command) /\ 1 \in 1..Len(out) /\ n.queue # <<>>
      /\ 1 \in 1..Len(n.queue) /\ c \in Command /\ b \in Tables(Breakpoint)
  <2>1. n \in Nemiver /\ n.queue \in Seq(Command) /\ 1 \in 1..Len(out) /\ out[1] \in Record
    BY Records DEF Nemiver
  <2>2. n.queue # <<>>
    BY <2>1 DEF IInv, OutInv
  <2> QED
    BY <2>1, <2>2, Ends DEF Record
<1>2. /\ k \in DOMAIN gdb.table /\ DOMAIN b = {k}
      /\ b[k].loc = c.loc /\ b[k].enabled /\ ~b[k].count
      /\ gdb.table[k].loc = c.loc /\ gdb.table[k].enabled
  BY <1>1 DEF IInv, AnswerInv, InsertDone
<1>3. /\ k \in Ids /\ \A x \in DOMAIN gdb.table : x \in Ids
      /\ gdb.table[k].enabled \in BOOLEAN /\ b[k].enabled \in BOOLEAN
      /\ \A x \in DOMAIN n.cache : x \in Int
  <2>1. /\ IsTable(gdb.table, Ids, GdbBreakpoint) /\ IsTable(b, Ids, Breakpoint)
        /\ IsTable(n.cache, Ids, Breakpoint)
    BY <1>1, TableFacts DEF IInv, Typed, Gdb, Nemiver
  <2> QED
    BY <1>2, <2>1 DEF IsTable, Breakpoint, GdbBreakpoint, Ids
<1>4. /\ cs \in Seq(Command)
      /\ \A i \in 1..Len(cs) : cs[i].op = "commands" /\ cs[i].id = k
      /\ c.count => Commanding(cs, k)
  BY <1>3, CountingType
<1> HIDE DEF b
<1>5. /\ s \in Nemiver /\ s.queue = n.queue \o cs
      /\ DOMAIN s.cache = DOMAIN n.cache \union {k}
      /\ \A x \in DOMAIN n.cache \ {k} : s.cache[x] = n.cache[x]
      /\ s.cache[k].loc = b[k].loc /\ s.cache[k].enabled = b[k].enabled
      /\ DOMAIN s.shown = DOMAIN n.shown \union {k}
      /\ \A x \in DOMAIN n.shown \ {k} : s.shown[x] = n.shown[x]
      /\ (k \in DOMAIN n.cache /\ n.cache[k].count) \/ s.shown[k] = s.cache[k]
      /\ \A x \in Ids : s.rows[x] = IF x = k THEN n.rows[x] + 1 ELSE n.rows[x]
  <2> HIDE DEF c, k
  <2>1. s = OnInserted(n, c, b)
    BY DEF c, b
  <2> QED
    <3>1. n \in Nemiver /\ c \in Command /\ b \in Tables(Breakpoint)
      BY <1>1
    <3>2. k \in Ids /\ DOMAIN b = {k} /\ ~b[k].count
      BY <1>2, <1>3
    <3>3. SetAs(n, c, b, k, s)
      BY <2>1, <3>1, <3>2, InsertedEffect
    <3> QED
      BY <3>2, <3>3 DEF SetAs, cs
<1> HIDE DEF cs
<1>6. Retires(cs) /\ Typed' /\ n'.cache = s.cache /\ n'.shown = s.shown /\ n'.rows = s.rows
  <2>1. \A i \in 1..Len(cs) : cs[i].op = "commands" /\ (Again => cs[i].id \in DOMAIN gdb.table)
    BY <1>2, <1>4
  <2>2. s \in Nemiver /\ s.queue = n.queue \o cs
    BY <1>5
  <2>3. cs \in Seq(Command)
    BY <1>4
  <2> QED
    BY <2>1, <2>2, <2>3, Retiring
<1>6a. /\ DOMAIN n'.cache = DOMAIN n.cache \union {k}
       /\ \A x \in DOMAIN n.cache \ {k} : n'.cache[x] = n.cache[x]
       /\ n'.cache[k].loc = b[k].loc /\ n'.cache[k].enabled = b[k].enabled
  BY <1>5, <1>6
<1>6b. /\ DOMAIN n'.shown = DOMAIN n.shown \union {k}
       /\ \A x \in DOMAIN n.shown \ {k} : n'.shown[x] = n.shown[x]
       /\ (k \in DOMAIN n.cache /\ n.cache[k].count) \/ n'.shown[k] = n'.cache[k]
  BY <1>5, <1>6
<1>6c. \A x \in Ids : n'.rows[x] = IF x = k THEN n.rows[x] + 1 ELSE n.rows[x]
  BY <1>5, <1>6
<1>7. /\ Done("insert") /\ ~Done("delete") /\ First' = gdb.next /\ First = k
      /\ gdb.next \in Int /\ ~Done("insert")' /\ ~Done("delete")'
  <2>1. /\ \A op : Done(op) <=> out[1].kind = "done" /\ n.queue[1].op = op
        /\ \A op : ~Done(op)'
        /\ First' = gdb.next /\ gdb.next \in Int
        /\ First = IF out[1].kind = "done" /\ n.queue[1].op = "insert"
                   THEN gdb.next - 1 ELSE gdb.next
    BY <1>4, <1>6, Answering
  <2>2. ~Done("delete")
    BY <2>1
  <2> QED
    BY <2>1, <2>2
<1>8. /\ Listing(n.queue) => Listing(n'.queue)
      /\ \A id : Commanding(n.queue, id) => Commanding(n'.queue, id)
      /\ \A id : Commanding(cs, id) => Commanding(n'.queue, id)
      /\ gdb' = gdb /\ Again' = Again
  BY <1>4, <1>6, Keeps
<1>9. Again /\ k \in DOMAIN n.cache => n.cache[k].count = c.count
  <2> SUFFICES ASSUME Again, k \in DOMAIN n.cache PROVE n.cache[k].count = c.count
    OBVIOUS
  <2>1. First + 1 - 1 = k
    BY <1>7
  <2>2. First + 1 - 1 \in DOMAIN n.cache => n.cache[First + 1 - 1].count = n.queue[1].count
    BY <1>1 DEF IInv, AgainInv
  <2> QED
    BY <2>1, <2>2
<1>10. ~Again => k \notin DOMAIN n.cache
  BY <1>7 DEF IInv, CacheInv
<1>11. k \notin DOMAIN n.shown /\ n.rows[k] = 0
  BY <1>3, <1>7 DEF IInv, ShownInv
<1> HIDE DEF c
<1>12. CacheInv'
  <2>1. CacheInv
    BY DEF IInv
  <2>2. /\ DOMAIN gdb.table \subseteq 1..(gdb.next - 1)
        /\ \A x \in DOMAIN gdb.table : x \in DOMAIN n'.cache
    BY <1>6a, <2>1 DEF CacheInv
  <2>3. ~Again => \A x \in DOMAIN n'.cache : x < gdb.next /\ x \in DOMAIN gdb.table
    <3>1. ~Again => \A x \in DOMAIN n.cache : x < k /\ x \in DOMAIN gdb.table
      BY <1>7, <2>1 DEF CacheInv
    <3>2. \A x \in DOMAIN n.cache : x \in Int
      BY <1>3
    <3>3. k \in DOMAIN gdb.table /\ k < gdb.next
      BY <1>2, <1>7
    <3>4. \A x \in DOMAIN n.cache : x < k => x < gdb.next
      BY <1>7, <3>2
    <3> QED
      BY <1>6a, <3>1, <3>3, <3>4
  <2>4. ASSUME NEW x \in DOMAIN gdb.table, x \in DOMAIN n'.cache
        PROVE  /\ n'.cache[x].loc = gdb.table[x].loc
               /\ \/ n'.cache[x].enabled = gdb.table[x].enabled
                  \/ Listing(n'.queue) \/ x >= gdb.next
    <3>1. CASE x = k
      BY <1>2, <1>3, <1>6a, <3>1
    <3>2. CASE x # k
      <4>1. x \in DOMAIN n.cache /\ n'.cache[x] = n.cache[x] /\ x \in Int
        BY <1>3, <1>6a, <2>4, <3>2
      <4>2. /\ n.cache[x].loc = gdb.table[x].loc
            /\ n.cache[x].enabled = gdb.table[x].enabled \/ Listing(n.queue) \/ x >= k
        BY <1>7, <2>1, <4>1 DEF CacheInv
      <4>3. x >= k => x >= gdb.next
        BY <1>7, <3>2, <4>1
      <4> QED
        BY <1>8, <4>1, <4>2, <4>3
    <3> QED
      BY <3>1, <3>2
  <2> QED
    BY <1>7, <1>8, <2>2, <2>3, <2>4 DEF CacheInv
<1>13. ShownInv'
  <2>1. ShownInv
    BY DEF IInv
  <2>2. DOMAIN n'.shown \subseteq DOMAIN n'.cache
    BY <1>6a, <1>6b, <2>1 DEF ShownInv
  <2>3. \A x \in DOMAIN n'.shown : x < gdb.next
    <3>1. \A x \in DOMAIN n.shown : x \in Int /\ x < k
      BY <1>3, <1>7, <2>1 DEF ShownInv
    <3> QED
      BY <1>6b, <1>7, <3>1
  <2>4. \A x \in Ids : n'.rows[x] = IF x \in DOMAIN n'.shown THEN 1 ELSE 0
    BY <1>6b, <1>6c, <1>11, <2>1 DEF ShownInv
  <2>5. ASSUME NEW x \in DOMAIN n'.cache
        PROVE  \/ x \in DOMAIN n'.shown /\ n'.shown[x] = n'.cache[x]
               \/ Listing(n'.queue)
               \/ Again /\ (Commanding(n'.queue, x) \/ x >= gdb.next)
    <3>1. CASE x = k
      BY <1>4, <1>6b, <1>8, <1>9, <1>10, <3>1
    <3>2. CASE x # k
      <4>1. x \in DOMAIN n.cache /\ n'.cache[x] = n.cache[x] /\ x \in Int
        BY <1>3, <1>6a, <2>5, <3>2
      <4>2. \/ x \in DOMAIN n.shown /\ n.shown[x] = n.cache[x]
            \/ Listing(n.queue)
            \/ Again /\ (Commanding(n.queue, x) \/ x >= k)
        BY <1>7, <2>1, <4>1 DEF ShownInv
      <4>3. x >= k => x >= gdb.next
        BY <1>7, <3>2, <4>1
      <4>4. x \in DOMAIN n.shown => x \in DOMAIN n'.shown /\ n'.shown[x] = n.shown[x]
        BY <1>6b, <3>2
      <4> QED
        BY <1>8, <4>1, <4>2, <4>3, <4>4
    <3> QED
      BY <3>1, <3>2
  <2> QED
    BY <1>7, <1>8, <2>2, <2>3, <2>4, <2>5 DEF ShownInv
<1>14. \A x \in DOMAIN n'.cache :
           \/ x \in DOMAIN gdb.table
           \/ x \in DOMAIN n.cache /\ n'.cache[x] = n.cache[x]
  BY <1>2, <1>6a
<1>15. n.queue[1].op \notin {"run", "continue"}
  OBVIOUS
<1> QED
  BY <1>4, <1>6, <1>12, <1>13, <1>14, <1>15, Settles

(* Between insertions and deletions, the cache has GDB's breakpoints.      *)
LEMMA SameNumbers ==
    ASSUME IInv, BreakpointsAssumption, NEW cs \in Seq(Command), Retires(cs),
           out[1].kind = "done", n.queue[1].op \notin {"insert", "delete"}
    PROVE  /\ DOMAIN n.cache = DOMAIN gdb.table /\ First' = gdb.next
           /\ \A id \in DOMAIN gdb.table : id \in Ids /\ id < gdb.next
<1>1. /\ \A op : Done(op) <=> out[1].kind = "done" /\ n.queue[1].op = op
      /\ First' = gdb.next /\ gdb.next \in Int
      /\ First = IF out[1].kind = "done" /\ n.queue[1].op = "insert"
                 THEN gdb.next - 1 ELSE gdb.next
  BY Answering
<1>2. ~Done("insert") /\ ~Done("delete") /\ First = gdb.next
  BY <1>1
<1>3. /\ DOMAIN gdb.table \subseteq 1..(gdb.next - 1)
      /\ IsTable(gdb.table, Ids, GdbBreakpoint) /\ IsTable(n.cache, Ids, Breakpoint)
  BY TableFacts DEF IInv, CacheInv, Typed, Gdb, Nemiver
<1>4. \A id \in DOMAIN gdb.table : id \in Ids /\ id < gdb.next
  BY <1>1, <1>3 DEF IsTable
<1>5. DOMAIN gdb.table \subseteq DOMAIN n.cache
  BY <1>2 DEF IInv, CacheInv
<1>6. DOMAIN n.cache \subseteq DOMAIN gdb.table
  <2>1. CASE Again
    <3>1. DOMAIN gdb.table = 1..(gdb.next - 1)
      BY <2>1 DEF IInv, AgainInv
    <3>2. \A id \in DOMAIN n.cache : id \in Ids
      BY <1>3 DEF IsTable
    <3>3. ASSUME NEW id \in DOMAIN n.cache PROVE id < First
      <4>1. PICK q : q = n.queue
        OBVIOUS
      <4>2. id >= First => id - First + 1 \in 1..Len(q) /\ q[id - First + 1].op = "insert"
        BY <2>1, <4>1 DEF IInv, AgainInv
      <4>3. \A i \in 1..Len(q) : q[i].op = "insert" => 1 \in 1..i /\ q[1].op = "insert"
        <5>1. \A i \in 1..Len(q) : q[i].op = "insert" => \A j \in 1..i : q[j].op = "insert"
          BY <2>1, <4>1 DEF IInv, AgainInv
        <5>2. \A i \in 1..Len(q) : 1 \in 1..i
          OBVIOUS
        <5> QED
          BY <5>1, <5>2
      <4>4. ~(id >= First)
        BY <4>1, <4>2, <4>3
      <4> QED
        BY <1>1, <1>2, <3>2, <4>4 DEF Ids
    <3> QED
      BY <1>1, <1>2, <3>1, <3>2, <3>3 DEF Ids
  <2>2. CASE ~Again
    BY <1>2, <2>2 DEF IInv, CacheInv
  <2> QED
    BY <2>1, <2>2
<1> QED
  BY <1>1, <1>4, <1>5, <1>6

LEMMA FlagEffect ==
    ASSUME NEW s \in Nemiver, NEW id \in Ids, NEW yes \in BOOLEAN
    PROVE  /\ Flag(s, id, yes) \in Nemiver /\ Flag(s, id, yes).queue = s.queue
           /\ Flag(s, id, yes).shown = s.shown /\ Flag(s, id, yes).rows = s.rows
           /\ DOMAIN Flag(s, id, yes).cache = DOMAIN s.cache
           /\ \A x \in DOMAIN s.cache :
                 /\ Flag(s, id, yes).cache[x].loc = s.cache[x].loc
                 /\ Flag(s, id, yes).cache[x].enabled = s.cache[x].enabled
                 /\ Flag(s, id, yes).cache[x].count =
                       IF x = id THEN yes /\ ~s.cache[x].count ELSE s.cache[x].count
                 /\ Flag(s, id, yes).cache[x].initial = s.cache[x].initial
<1>1. CASE id \notin DOMAIN s.cache
  BY <1>1 DEF Flag
<1>2. CASE id \in DOMAIN s.cache
  <2>1. s.cache \in [DOMAIN s.cache -> Breakpoint] /\ DOMAIN s.cache \subseteq Ids
    BY TableFacts DEF Nemiver, IsTable
  <2>2. PICK b : b = [s.cache[id] EXCEPT !.count = yes /\ ~@]
    OBVIOUS
  <2>3. /\ b \in Breakpoint /\ b.loc = s.cache[id].loc /\ b.enabled = s.cache[id].enabled
        /\ b.count = (yes /\ ~s.cache[id].count) /\ b.initial = s.cache[id].initial
    <3>1. s.cache[id] \in Breakpoint
      BY <1>2, <2>1
    <3> QED
      BY <2>2, <3>1 DEF Breakpoint
  <2>4. PICK c : c = [s.cache EXCEPT ![id] = b]
    OBVIOUS
  <2>5. /\ DOMAIN c = DOMAIN s.cache /\ c \in [DOMAIN s.cache -> Breakpoint]
        /\ \A x \in DOMAIN s.cache : c[x] = IF x = id THEN b ELSE s.cache[x]
    BY <1>2, <2>1, <2>3, <2>4
  <2>6. c \in Tables(Breakpoint)
    BY <2>1, <2>5, TableFacts DEF IsTable
  <2>7. Flag(s, id, yes) = [s EXCEPT !.cache = c]
    BY <1>2, <2>2, <2>4 DEF Flag, Nemiver
  <2>8. /\ Flag(s, id, yes) \in Nemiver /\ Flag(s, id, yes).queue = s.queue
        /\ Flag(s, id, yes).shown = s.shown /\ Flag(s, id, yes).rows = s.rows
        /\ Flag(s, id, yes).cache = c
    BY <2>6, <2>7, Fields
  <2> QED
    BY <2>3, <2>5, <2>8
<1> QED
  BY <1>1, <1>2

(* An answer after which the cache is shown: it has GDB's numbers, and the *)
(* lines.                                                                  *)
LEMMA ShowsCache ==
    ASSUME IInv, BreakpointsAssumption, OnOutputRecord, out[1].kind = "done",
           n.queue[1].op \in {"commands", "list"},
           NEW t \in Nemiver, t.queue = n.queue, t.shown = n.shown, t.rows = n.rows,
           DOMAIN t.cache = DOMAIN n.cache \union DOMAIN gdb.table,
           \A x \in DOMAIN gdb.table : t.cache[x].loc = gdb.table[x].loc,
           \/ n.queue[1].op # "list" /\ \A x \in DOMAIN n.cache : t.cache[x].enabled = n.cache[x].enabled
           \/ \A x \in DOMAIN gdb.table : t.cache[x].enabled = gdb.table[x].enabled,
           NEW s, s = BreakpointsList(t),
           Handled(s)
    PROVE  IInv'
<1> DEFINE cs == <<>>
<1>1. n \in Nemiver /\ n.queue \in Seq(Command) /\ 1 \in 1..Len(out)
  BY Records DEF Nemiver
<1>2. cs \in Seq(Command) /\ n.queue = n.queue \o cs /\ \A i \in 1..Len(cs) : FALSE
  BY <1>1, ConcatEmptySeq
<1> HIDE DEF cs
<1>3. /\ DOMAIN n.shown \subseteq DOMAIN t.cache
      /\ \A x \in Ids : n.rows[x] = IF x \in DOMAIN n.shown THEN 1 ELSE 0
  BY DEF IInv, ShownInv
<1>4. /\ s \in Nemiver /\ s.queue = n.queue /\ s.cache = t.cache /\ s.shown = t.cache
      /\ \A x \in Ids : s.rows[x] = IF x \in DOMAIN t.cache THEN 1 ELSE 0
  BY <1>3, ListEffect
<1>5. Retires(cs) /\ Typed' /\ n'.cache = s.cache /\ n'.shown = s.shown /\ n'.rows = s.rows
  BY <1>2, <1>4, Retiring
<1>6. /\ DOMAIN n.cache = DOMAIN gdb.table /\ First' = gdb.next
      /\ \A x \in DOMAIN gdb.table : x \in Ids /\ x < gdb.next
  BY <1>2, <1>5, SameNumbers
<1>7. DOMAIN n'.cache = DOMAIN gdb.table /\ gdb' = gdb
  <2>1. n'.cache = t.cache /\ DOMAIN n.cache = DOMAIN gdb.table
    BY <1>4, <1>5, <1>6
  <2>2. DOMAIN n'.cache = DOMAIN n.cache \union DOMAIN gdb.table
    BY <2>1
  <2>3. gdb' = gdb
    BY <1>5 DEF Retires
  <2> QED
    BY <2>1, <2>2, <2>3
<1>8. ShownInv'
  BY <1>4, <1>5, <1>6, <1>7 DEF ShownInv
<1>9. CacheInv'
  <2>1. CacheInv
    BY DEF IInv
  <2>2. \A x \in DOMAIN gdb.table : /\ n'.cache[x].loc = gdb.table[x].loc
                                    /\ \/ n'.cache[x].enabled = gdb.table[x].enabled
                                       \/ Listing(n'.queue) \/ x >= gdb.next
    <3>1. CASE \A x \in DOMAIN gdb.table : t.cache[x].enabled = gdb.table[x].enabled
      BY <1>4, <1>5, <3>1
    <3>2. CASE /\ n.queue[1].op # "list"
               /\ \A x \in DOMAIN n.cache : t.cache[x].enabled = n.cache[x].enabled
      <4>1. Listing(n.queue) => Listing(n'.queue)
        BY <1>2, <1>5, <3>2, Keeps
      <4>2. First = gdb.next
        BY <1>2, <1>5, Answering
      <4>3. \A x \in DOMAIN gdb.table : \/ n.cache[x].enabled = gdb.table[x].enabled
                                        \/ Listing(n.queue) \/ x >= gdb.next
        BY <1>6, <2>1, <4>2 DEF CacheInv
      <4> QED
        BY <1>4, <1>5, <1>6, <3>2, <4>1, <4>3
    <3> QED
      BY <3>1, <3>2
  <2> QED
    BY <1>6, <1>7, <2>1, <2>2 DEF CacheInv
<1>10. \A x \in DOMAIN n'.cache : x \in DOMAIN gdb.table
  BY <1>7
<1> QED
  BY <1>2, <1>5, <1>8, <1>9, <1>10, Settles

LEMMA Counts ==
    ASSUME IInv, BreakpointsAssumption, OnOutputRecord,
           out[1].kind = "done", n.queue[1].op = "commands",
           NEW s, s = BreakpointsList(Flag(n, n.queue[1].id, n.queue[1].yes)),
           Handled(s)
    PROVE  IInv'
<1> DEFINE c == n.queue[1]
<1>1. /\ n \in Nemiver /\ n.queue \in Seq(Command) /\ 1 \in 1..Len(out) /\ n.queue # <<>>
      /\ c \in Command /\ c.id \in Ids /\ c.yes \in BOOLEAN
  <2>1. n \in Nemiver /\ n.queue \in Seq(Command) /\ 1 \in 1..Len(out)
    BY Records DEF Nemiver
  <2>2. n.queue # <<>>
    BY <2>1 DEF IInv, OutInv
  <2>3. c \in Command
    BY <2>1, <2>2, Ends
  <2> QED
    BY <2>1, <2>2, <2>3, CommandFacts
<1>2. PICK t : t = Flag(n, c.id, c.yes)
  OBVIOUS
<1>3. /\ t \in Nemiver /\ t.queue = n.queue /\ t.shown = n.shown /\ t.rows = n.rows
      /\ DOMAIN t.cache = DOMAIN n.cache
      /\ \A x \in DOMAIN n.cache : /\ t.cache[x].loc = n.cache[x].loc
                                   /\ t.cache[x].enabled = n.cache[x].enabled
  BY <1>1, <1>2, FlagEffect
<1>4. DOMAIN gdb.table \subseteq DOMAIN n.cache
  <2>1. ~Done("insert")
    BY DEF Done
  <2> QED
    BY <2>1 DEF IInv, CacheInv
<1>5. \A x \in DOMAIN gdb.table : t.cache[x].loc = gdb.table[x].loc
  BY <1>3, <1>4 DEF IInv, CacheInv
<1>6. DOMAIN t.cache = DOMAIN n.cache \union DOMAIN gdb.table
  BY <1>3, <1>4
<1> QED
  BY <1>2, <1>3, <1>5, <1>6, ShowsCache

LEMMA Lists ==
    ASSUME IInv, BreakpointsAssumption, OnOutputRecord,
           out[1].kind = "done", n.queue[1].op = "list", out[1].bps # Nothing,
           NEW s, s = BreakpointsList(Cache(n, out[1].bps)),
           Handled(s)
    PROVE  IInv'
<1> DEFINE b == out[1].bps
<1>1. n \in Nemiver /\ 1 \in 1..Len(out) /\ b \in Tables(Breakpoint)
  BY Records DEF Record
<1>2. /\ DOMAIN b = DOMAIN gdb.table
      /\ \A id \in DOMAIN b : /\ b[id].loc = gdb.table[id].loc
                              /\ b[id].enabled = gdb.table[id].enabled
  BY <1>1 DEF IInv, AnswerInv, ListDone
<1> HIDE DEF b
<1>3. PICK t : t = Cache(n, b)
  OBVIOUS
<1>4. /\ t \in Nemiver /\ t.queue = n.queue /\ t.shown = n.shown /\ t.rows = n.rows
      /\ DOMAIN t.cache = DOMAIN n.cache \union DOMAIN b
      /\ \A x \in DOMAIN b : /\ t.cache[x].loc = b[x].loc
                             /\ t.cache[x].enabled = b[x].enabled
  BY <1>1, <1>3, CacheEffect
<1>5. /\ DOMAIN t.cache = DOMAIN n.cache \union DOMAIN gdb.table
      /\ \A x \in DOMAIN gdb.table : t.cache[x].loc = gdb.table[x].loc
      /\ \A x \in DOMAIN gdb.table : t.cache[x].enabled = gdb.table[x].enabled
  BY <1>2, <1>4
<1>6. s = BreakpointsList(t)
  BY <1>3 DEF b
<1> QED
  BY <1>4, <1>5, <1>6, ShowsCache

LEMMA ListsNothing ==
    ASSUME IInv, BreakpointsAssumption, OnOutputRecord,
           out[1].kind = "done", n.queue[1].op = "list", out[1].bps = Nothing,
           Handled(n)
    PROVE  IInv'
<1> DEFINE cs == <<>>
<1>1. n \in Nemiver /\ n.queue \in Seq(Command) /\ 1 \in 1..Len(out)
  BY Records DEF Nemiver
<1>2. cs \in Seq(Command) /\ n.queue = n.queue \o cs /\ \A i \in 1..Len(cs) : FALSE
  BY <1>1, ConcatEmptySeq
<1> HIDE DEF cs
<1>3. Retires(cs) /\ Typed' /\ n'.cache = n.cache /\ n'.shown = n.shown /\ n'.rows = n.rows
  BY <1>1, <1>2, Retiring
<1>4. ListDone(Nothing)
  BY <1>1 DEF IInv, AnswerInv
<1>5. DOMAIN gdb.table = {} /\ DOMAIN n.cache = {}
  <2>1. DOMAIN gdb.table = {}
    BY <1>4, EmptyTable DEF ListDone
  <2> QED
    BY <1>2, <1>3, <2>1, SameNumbers
<1>6. gdb' = gdb
  BY <1>3 DEF Retires
<1>7. CacheInv'
  BY <1>3, <1>5, <1>6 DEF CacheInv
<1>8. ShownInv'
  <2>1. DOMAIN n.shown = {} /\ \A id \in Ids : n.rows[id] = IF id \in DOMAIN n.shown THEN 1 ELSE 0
    BY <1>5 DEF IInv, ShownInv
  <2> QED
    BY <1>3, <1>5, <2>1 DEF ShownInv
<1> QED
  BY <1>2, <1>3, <1>7, <1>8, Settles

LEMMA Handles ==
    ASSUME IInv, BreakpointsAssumption, OnOutputRecord
    PROVE  IInv'
<1>1. /\ out[1] \in Record /\ n \in Nemiver /\ n' = Handle(n, out[1])
      /\ 1 \in 1..Len(out)
  BY Records
<1>2. out[1].kind \in {"modified", "stopped", "error", "done"}
  BY <1>1 DEF Record
<1>3. CASE out[1].kind = "modified"
  BY <1>3, Modifies
<1>4. CASE out[1].kind = "stopped"
  BY <1>4, Stops
<1>5. CASE out[1].kind = "error"
  <2>1. Handled(n)
    BY <1>1, <1>5 DEF Handle, Handled
  <2> QED
    BY <1>5, <2>1, Untouched
<1>6. CASE out[1].kind = "done"
  <2>1. n.queue \in Seq(Command) /\ n.queue # <<>> /\ Head(n.queue) = n.queue[1]
        /\ n.queue[1] \in Command
    <3>1. n.queue \in Seq(Command) /\ n.queue # <<>>
      BY <1>1, <1>6 DEF Nemiver, IInv, OutInv
    <3> QED
      BY <3>1, Ends
  <2>2. PICK s : s = OnDone(n, n.queue[1], out[1].bps)
    OBVIOUS
  <2>3. Handled(s)
    BY <1>1, <1>6, <2>1, <2>2 DEF Handle, Handled
  <2>4. n.queue[1].op \in {"insert", "delete", "enable", "disable", "after", "commands", "list",
                           "run", "continue"}
    BY <2>1, CommandFacts
  <2>5. CASE n.queue[1].op = "insert"
    BY <1>6, <2>2, <2>3, <2>5, Inserted DEF OnDone
  <2>6. CASE n.queue[1].op = "delete"
    BY <1>6, <2>2, <2>3, <2>6, Deletes DEF OnDone
  <2>7. CASE n.queue[1].op = "commands"
    BY <1>6, <2>2, <2>3, <2>7, Counts DEF OnDone
  <2>8. CASE n.queue[1].op = "list" /\ out[1].bps # Nothing
    BY <1>6, <2>2, <2>3, <2>8, Lists DEF OnDone
  <2>9. CASE n.queue[1].op = "list" /\ out[1].bps = Nothing
    <3>1. s = n
      BY <2>2, <2>9 DEF OnDone
    <3> QED
      BY <1>6, <2>3, <2>9, <3>1, ListsNothing
  <2>10. CASE n.queue[1].op \in {"enable", "disable", "after", "run", "continue"}
    <3>1. s = n
      BY <2>2, <2>10 DEF OnDone
    <3> QED
      BY <1>6, <2>3, <2>10, <3>1, Untouched
  <2> QED
    BY <2>4, <2>5, <2>6, <2>7, <2>8, <2>9, <2>10
<1> QED
  BY <1>2, <1>3, <1>4, <1>5, <1>6

-----------------------------------------------------------------------------
(* GDB.                                                                    *)

LEMMA ParsedType ==
    ASSUME NEW b \in GdbBreakpoint
    PROVE  /\ Parsed(b) \in Breakpoint /\ Parsed(b).loc = b.loc
           /\ Parsed(b).enabled = b.enabled /\ Parsed(b).count = FALSE
<1>1. /\ b.loc \in Locs /\ b.enabled \in BOOLEAN /\ b.ignore \in Nat /\ b.times \in Nat
  BY DEF GdbBreakpoint
<1>2. PICK k \in Nat : k = IF b.ignore > 0 THEN b.ignore + b.times ELSE 0
  BY <1>1
<1>3. Parsed(b) = [loc |-> b.loc, enabled |-> b.enabled, count |-> FALSE, initial |-> k]
  BY <1>2 DEF Parsed
<1> QED
  BY <1>1, <1>3 DEF Breakpoint

(* A step of GDB that neither adds nor removes nor enables nor disables a  *)
(* breakpoint.                                                             *)
LEMMA SameAsKnown ==
    ASSUME IInv, n' = n, may' = may, gdb'.next = gdb.next,
           DOMAIN gdb'.table = DOMAIN gdb.table,
           \A id \in DOMAIN gdb.table : /\ gdb'.table[id].loc = gdb.table[id].loc
                                        /\ gdb'.table[id].enabled = gdb.table[id].enabled,
           Done("insert")' <=> Done("insert"), Done("delete")' <=> Done("delete"),
           \A op : Done(op) => Done(op)'
    PROVE  /\ First' = First /\ QueueInv' /\ AgainInv' /\ CacheInv' /\ ShownInv'
           /\ \A b, id : ModifiedAs(b, id) => ModifiedAs(b, id)'
<1>1. First' = First
  BY DEF First
<1>2. QueueInv'
  <2>1. Done("insert")' = Done("insert")
    BY DEF Done
  <2> QED
    BY <2>1 DEF IInv, QueueInv
<1>3. AgainInv'
  <2>1. Again' = Again
    BY DEF Again
  <2> QED
    BY <1>1, <2>1 DEF IInv, AgainInv
<1>4. CacheInv'
  <2>1. CacheInv /\ Again' = Again
    BY DEF IInv, Again
  <2>2. /\ DOMAIN gdb'.table \subseteq 1..(gdb'.next - 1)
        /\ \A id \in DOMAIN gdb'.table :
              id \in DOMAIN n'.cache \/ (Done("insert")' /\ id = gdb'.next - 1)
    BY <2>1 DEF CacheInv
  <2>3. ~Again' => \A id \in DOMAIN n'.cache :
            id < First' /\ (id \in DOMAIN gdb'.table \/ (Done("delete")' /\ n'.queue[1].id = id))
    BY <1>1, <2>1 DEF CacheInv
  <2>4. \A id \in DOMAIN gdb'.table \intersect DOMAIN n'.cache :
            /\ n'.cache[id].loc = gdb'.table[id].loc
            /\ \/ n'.cache[id].enabled = gdb'.table[id].enabled
               \/ Listing(n'.queue) \/ id >= First'
    BY <1>1, <2>1 DEF CacheInv
  <2> QED
    BY <2>2, <2>3, <2>4 DEF CacheInv
<1>5. ShownInv'
  BY <1>1 DEF IInv, ShownInv, Again
<1>6. ASSUME NEW b, NEW id, ModifiedAs(b, id) PROVE ModifiedAs(b, id)'
  BY <1>1, <1>6 DEF ModifiedAs
<1> QED
  BY <1>1, <1>2, <1>3, <1>4, <1>5, <1>6

LEMMA Replies ==
    ASSUME IInv, NEW op, Reads(op), NEW kind \in {"done", "error"},
           NEW b \in Tables(Breakpoint), Says(kind, b), gdb' \in Gdb
    PROVE  /\ Typed' /\ n.queue \in Seq(Command) /\ n.queue # <<>>
           /\ 1 \in 1..Len(n.queue) /\ n.queue[1] \in Command /\ n.queue[1].op = op
           /\ Head(n.queue) = n.queue[1]
           /\ n' = n /\ may' = may /\ gdb.inferior # "running"
           /\ \A o : ~Done(o)
           /\ \A o : Done(o)' <=> kind = "done" /\ o = op
           /\ First = gdb.next /\ gdb.next \in Int
           /\ \A i \in 1..Len(out') :
                 \/ i \in 1..Len(out) /\ out'[i] = out[i] /\ out[i].kind \notin {"done", "error"}
                 \/ i = Len(out') /\ out'[i].kind = kind /\ out'[i].bps = b
           /\ (op \in {"run", "continue"} \/ gdb'.inferior # "running") => OutInv'
<1>1. /\ out \in Seq(Record) /\ n.queue \in Seq(Command) /\ n.queue # <<>>
      /\ n' = n /\ wanted' = wanted /\ may' = may /\ gdb.next \in Int
      /\ Head(n.queue).op = op /\ gdb.inferior # "running"
  BY DEF IInv, Typed, Nemiver, Gdb, Reads
<1>2. /\ 1 \in 1..Len(n.queue) /\ n.queue[1] \in Command /\ Head(n.queue) = n.queue[1]
  BY <1>1, Ends
<1>3. PICK r : r = [kind |-> kind, bps |-> b]
  OBVIOUS
<1>4. r \in Record /\ r.kind = kind /\ r.bps = b
  BY <1>3 DEF Record
<1>5. PICK new : new = out'
  OBVIOUS
<1>6. /\ new \in Seq(Record) /\ Len(new) = Len(out) + 1 /\ Len(out) \in Nat
      /\ \A i \in 1..Len(out) : new[i] = out[i]
      /\ new[Len(out) + 1] = r
  BY <1>1, <1>3, <1>4, <1>5 DEF Says
<1>7. \A i \in 1..Len(out) : out[i].kind \notin {"done", "error"}
  BY DEF Reads, Answered
<1>8. /\ \A i \in 1..Len(new) : i \in 1..Len(out) \/ i = Len(new)
      /\ Len(new) \in 1..Len(new) /\ new[Len(new)] = r
  BY <1>6
<1>9. \A i \in 1..Len(new) :
          \/ i \in 1..Len(out) /\ new[i] = out[i] /\ out[i].kind \notin {"done", "error"}
          \/ i = Len(new) /\ new[i].kind = kind /\ new[i].bps = b
  BY <1>4, <1>6, <1>7, <1>8
<1>10. \A o : ~Done(o)
  BY <1>7 DEF Done
<1>11. \A o : Done(o)' <=> kind = "done" /\ o = op
  <2>1. \A i \in 1..Len(new) : new[i].kind = "done" => kind = "done"
    BY <1>9
  <2>2. kind = "done" => new[Len(new)].kind = "done"
    BY <1>4, <1>8
  <2>3. n'.queue[1].op = op
    BY <1>1, <1>2
  <2> QED
    BY <1>5, <1>8, <2>1, <2>2, <2>3 DEF Done
<1>12. First = gdb.next
  BY <1>10 DEF First
<1>13. op \in {"run", "continue"} \/ gdb'.inferior # "running" => OutInv'
  <2>1. \A i \in 1..Len(new) : new[i].kind \in {"done", "error"} => i = Len(new)
    BY <1>9
  <2> QED
    BY <1>1, <1>2, <1>5, <2>1 DEF OutInv
<1>14. Typed'
  BY <1>1, <1>5, <1>6 DEF IInv, Typed
<1> QED
  BY <1>1, <1>2, <1>5, <1>9, <1>10, <1>11, <1>12, <1>13, <1>14

(* The invariant of the records, when the new one is as it should be.      *)
LEMMA AllModified ==
    ASSUME \A i \in 1..Len(out') : out'[i].kind = "modified" =>
               \A b : b = out'[i].bps => \E id \in Ids : ModifiedAs(b, id)'
    PROVE  ModifiedInv'
<1> SUFFICES ASSUME NEW i \in 1..Len(out'), out'[i].kind = "modified", NEW b, b = out'[i].bps
             PROVE  \E id \in Ids : ModifiedAs(b, id)'
  BY DEF ModifiedInv, ModifiedAs
<1> QED
  OBVIOUS

LEMMA Reported ==
    ASSUME IInv, NEW op, Reads(op), NEW kind \in {"done", "error"},
           NEW b \in Tables(Breakpoint), Says(kind, b), gdb' \in Gdb,
           kind = "done" => /\ InsertDone(b)' /\ ListDone(b)'
                            /\ op = "delete" => Gone',
           kind = "error" => /\ op \notin {"insert", "list"}
                             /\ op = "commands" => Gone',
           \A d, id : ModifiedAs(d, id) => ModifiedAs(d, id)'
    PROVE  AnswerInv' /\ ModifiedInv'
<1>1. /\ \A i \in 1..Len(out') :
            \/ i \in 1..Len(out) /\ out'[i] = out[i] /\ out[i].kind \notin {"done", "error"}
            \/ i = Len(out') /\ out'[i].kind = kind /\ out'[i].bps = b
      /\ n' = n /\ n.queue[1].op = op
  BY Replies
<1>2. AnswerInv'
  <2> SUFFICES ASSUME NEW i \in 1..Len(out'), NEW d, d = out'[i].bps
               PROVE  /\ out'[i].kind = "done" =>
                            /\ InsertDone(d)' /\ ListDone(d)'
                            /\ n'.queue[1].op = "delete" => Gone'
                      /\ out'[i].kind = "error" =>
                            /\ n'.queue[1].op \notin {"insert", "list"}
                            /\ n'.queue[1].op = "commands" => Gone'
    BY DEF AnswerInv, InsertDone, ListDone
  <2>1. out'[i].kind \in {"done", "error"} => out'[i].kind = kind /\ d = b
    BY <1>1
  <2> QED
    BY <1>1, <2>1
<1>3. ModifiedInv'
  <2> SUFFICES ASSUME NEW i \in 1..Len(out'), out'[i].kind = "modified", NEW d, d = out'[i].bps
               PROVE  \E id \in Ids : ModifiedAs(d, id)'
    BY AllModified
  <2>1. i \in 1..Len(out) /\ out'[i] = out[i]
    BY <1>1
  <2>2. PICK id \in Ids : ModifiedAs(d, id)
    BY <2>1 DEF IInv, ModifiedInv
  <2> QED
    BY <2>2
<1> QED
  BY <1>2, <1>3

LEMMA GdbFields ==
    ASSUME NEW g \in Gdb
    PROVE  /\ g.table \in Tables(GdbBreakpoint) /\ IsTable(g.table, Ids, GdbBreakpoint)
           /\ g.next \in 1..(MaxBps + 1) /\ g.next \in Int
           /\ \A t \in Tables(GdbBreakpoint) : LET h == [g EXCEPT !.table = t] IN
                 h \in Gdb /\ h.table = t /\ h.next = g.next /\ h.inferior = g.inferior
           /\ \A k \in 1..(MaxBps + 1) : LET h == [g EXCEPT !.next = k] IN
                 h \in Gdb /\ h.table = g.table /\ h.next = k /\ h.inferior = g.inferior
           /\ \A how \in {"none", "stopped", "running"} : LET h == [g EXCEPT !.inferior = how] IN
                 h \in Gdb /\ h.table = g.table /\ h.next = g.next /\ h.inferior = how
<1>1. g.table \in Tables(GdbBreakpoint) /\ g.next \in 1..(MaxBps + 1)
  BY DEF Gdb
<1>2. IsTable(g.table, Ids, GdbBreakpoint)
  BY <1>1, TableFacts
<1> QED
  BY <1>1, <1>2 DEF Gdb

LEMMA GdbInsertsNext ==
    ASSUME IInv, BreakpointsAssumption, GdbInserts
    PROVE  IInv'
<1>0. PICK c, k, b, t, bps :
          /\ c = n.queue[1] /\ k = gdb.next
          /\ b = [loc |-> c.loc, enabled |-> TRUE, script |-> FALSE, ignore |-> c.n, times |-> 0]
          /\ t = Over(gdb.table, One(k, b)) /\ bps = One(k, Parsed(b))
  OBVIOUS
<1>1. /\ Reads("insert") /\ n.queue \in Seq(Command) /\ n.queue # <<>> /\ gdb \in Gdb
      /\ c \in Command /\ c.op = "insert" /\ Head(n.queue) = c /\ 1 \in 1..Len(n.queue)
  <2>1. /\ Reads("insert") /\ n.queue \in Seq(Command) /\ n.queue # <<>> /\ gdb \in Gdb
        /\ Head(n.queue).op = "insert"
    BY DEF GdbInserts, Reads, IInv, Typed, Nemiver
  <2> QED
    BY <1>0, <2>1, Ends
<1>2. /\ b \in GdbBreakpoint /\ b.loc = c.loc /\ b.enabled = TRUE
  <2>1. c.loc \in Locs /\ c.n \in Nat
    BY <1>1, CommandFacts
  <2> QED
    BY <1>0, <2>1 DEF GdbBreakpoint
<1>3. gdb' = [gdb EXCEPT !.table = t, !.next = k + 1] /\ Says("done", bps)
  BY <1>0, <1>1 DEF GdbInserts
<1>4. ~Done("insert") /\ First = k /\ k \in Int
  <2>1. First = gdb.next /\ k \in Int
    BY <1>0, <1>1 DEF First, Done, Reads, Answered, Gdb
  <2>2. ~Done("insert")
    BY <1>1 DEF Done, Reads, Answered
  <2> QED
    BY <1>0, <2>1, <2>2
<1>5. /\ k \in 1..MaxBps /\ k + 1 \in 1..(MaxBps + 1)
      /\ k + 1 + Cardinality(Unread(n.queue, TRUE)) <= MaxBps + 1
  <2>1. PICK x, y : x = Cardinality(Unread(n.queue, FALSE)) /\ y = Cardinality(Unread(n.queue, TRUE))
    OBVIOUS
  <2>2. y = x - 1
    BY <1>0, <1>1, <2>1, UnreadRead
  <2>3. x \in Nat /\ y \in Nat
    BY <1>1, <2>1, UnreadType
  <2>4. k + x <= MaxBps + 1
    <3>1. Done("insert") = FALSE
      BY <1>4 DEF Done
    <3> QED
      BY <1>0, <2>1, <3>1 DEF IInv, QueueInv
  <2>5. MaxBps \in Nat /\ k \in 1..(MaxBps + 1)
    BY <1>0, <1>1 DEF BreakpointsAssumption, Gdb
  <2>6. k + 1 + y <= MaxBps + 1 /\ k <= MaxBps /\ k >= 1
    BY <2>2, <2>3, <2>4, <2>5
  <2>7. k \in 1..MaxBps /\ k + 1 \in 1..(MaxBps + 1)
    BY <2>5, <2>6
  <2> QED
    BY <2>1, <2>6, <2>7
<1>6. k \in Ids
  BY <1>5 DEF Ids
<1>7. /\ t \in Tables(GdbBreakpoint) /\ DOMAIN t = DOMAIN gdb.table \union {k}
      /\ t[k] = b /\ \A x \in DOMAIN gdb.table \ {k} : t[x] = gdb.table[x]
  <2>0. PICK one : one = One(k, b)
    OBVIOUS
  <2>1. IsTable(gdb.table, Ids, GdbBreakpoint)
    BY <1>1, GdbFields
  <2>2. IsTable(one, Ids, GdbBreakpoint) /\ DOMAIN one = {k} /\ one[k] = b
    BY <1>2, <1>6, <2>0 DEF One, IsTable
  <2>3. /\ DOMAIN Over(gdb.table, one) = DOMAIN gdb.table \union {k}
        /\ \A x \in DOMAIN gdb.table \union {k} :
              Over(gdb.table, one)[x] = IF x = k THEN b ELSE gdb.table[x]
    BY <2>2 DEF Over
  <2>4. IsTable(Over(gdb.table, one), Ids, GdbBreakpoint)
    BY <2>1, <2>2 DEF Over, IsTable
  <2> QED
    BY <1>0, <2>0, <2>3, <2>4, TableFacts
<1>8. /\ bps \in Tables(Breakpoint) /\ DOMAIN bps = {k}
      /\ bps[k].loc = c.loc /\ bps[k].enabled /\ ~bps[k].count
  <2>1. Parsed(b) \in Breakpoint /\ Parsed(b).loc = c.loc /\ Parsed(b).enabled /\ ~Parsed(b).count
    BY <1>2, ParsedType
  <2>2. IsTable(bps, Ids, Breakpoint) /\ DOMAIN bps = {k} /\ bps[k] = Parsed(b)
    BY <1>0, <1>6, <2>1 DEF One, IsTable
  <2> QED
    BY <2>1, <2>2, TableFacts
<1>9. /\ gdb' \in Gdb /\ gdb'.table = t /\ gdb'.next = k + 1 /\ gdb'.inferior = gdb.inferior
  <2>1. PICK g : g = [gdb EXCEPT !.table = t]
    OBVIOUS
  <2>2. g \in Gdb /\ g.table = t /\ g.next = k /\ g.inferior = gdb.inferior
    BY <1>0, <1>1, <1>7, <2>1 DEF Gdb
  <2>3. gdb' = [g EXCEPT !.next = k + 1]
    BY <1>1, <1>3, <2>1 DEF Gdb
  <2> QED
    BY <1>5, <2>2, <2>3 DEF Gdb
<1>9a. gdb'.next - 1 = k
  BY <1>4, <1>9
<1>10. /\ Typed' /\ n' = n /\ may' = may /\ gdb.inferior # "running"
       /\ \A o : ~Done(o)
       /\ \A o : Done(o)' <=> o = "insert"
       /\ gdb'.inferior # "running" => OutInv'
  BY <1>1, <1>3, <1>8, <1>9, Replies
<1>11. First' = k
  BY <1>0, <1>4, <1>9, <1>10 DEF First
<1>12. /\ DOMAIN gdb.table \subseteq 1..(k - 1) /\ k \notin DOMAIN gdb.table
       /\ \A x \in DOMAIN gdb.table : t[x] = gdb.table[x]
  <2>1. DOMAIN gdb.table \subseteq 1..(k - 1)
    BY <1>0 DEF IInv, CacheInv
  <2>2. k \notin DOMAIN gdb.table
    BY <1>4, <2>1
  <2> QED
    BY <1>7, <2>1, <2>2
<1>13. \A d, id : ModifiedAs(d, id) => ModifiedAs(d, id)'
  <2> SUFFICES ASSUME NEW d, NEW id, ModifiedAs(d, id) PROVE ModifiedAs(d, id)'
    OBVIOUS
  <2>1. id # k
    BY <1>4 DEF ModifiedAs
  <2>2. (id \in DOMAIN t <=> id \in DOMAIN gdb.table) /\ (id \in DOMAIN t => t[id] = gdb.table[id])
    BY <1>7, <1>12, <2>1
  <2>3. ~Done("enable") /\ ~Done("disable") /\ ~Done("delete")
    BY <1>10
  <2> QED
    BY <1>4, <1>9, <1>10, <1>11, <2>2, <2>3 DEF ModifiedAs
<1>14. AnswerInv' /\ ModifiedInv'
  <2>1. InsertDone(bps)'
    <3>1. /\ gdb'.table = t /\ gdb'.next - 1 = k /\ n' = n /\ n.queue[1] = c
          /\ k \in DOMAIN t /\ t[k].loc = c.loc /\ t[k].enabled
      BY <1>0, <1>2, <1>7, <1>9, <1>9a, <1>10
    <3> QED
      BY <1>8, <3>1 DEF InsertDone
  <2>2. ListDone(bps)'
    BY <1>0, <1>1, <1>10 DEF ListDone
  <2> QED
    BY <1>1, <1>3, <1>8, <1>9, <1>13, <2>1, <2>2, Reported
<1>15. QueueInv'
  <2>1. Done("insert")' = TRUE
    BY <1>10 DEF Done
  <2>2. QueueInv
    BY DEF IInv
  <2> QED
    BY <1>5, <1>9, <1>10, <2>1, <2>2 DEF QueueInv
<1>16. AgainInv'
  <2> SUFFICES ASSUME Again PROVE AgainInv'
    BY <1>10 DEF AgainInv, Again
  <2>1. AgainInv
    BY DEF IInv
  <2>2. DOMAIN t = 1..(k + 1 - 1)
    <3>1. DOMAIN gdb.table = 1..(k - 1)
      BY <1>0, <2>1 DEF AgainInv
    <3> QED
      BY <1>5, <1>7, <3>1
  <2>3. \A x \in DOMAIN gdb.table : x \in DOMAIN t
    BY <1>7
  <2>4. First' = First /\ n' = n /\ gdb'.table = t /\ DOMAIN t = 1..(gdb'.next - 1)
    BY <1>4, <1>9, <1>10, <1>11, <2>2
  <2> QED
    BY <2>1, <2>3, <2>4 DEF AgainInv
<1>17. CacheInv'
  <2>1. CacheInv /\ AgainInv
    BY DEF IInv
  <2>2. DOMAIN t \subseteq 1..(k + 1 - 1)
    BY <1>5, <1>7, <1>12
  <2>3. \A x \in DOMAIN t : x \in DOMAIN n.cache \/ x = k + 1 - 1
    BY <1>0, <1>4, <1>7, <1>10, <2>1 DEF CacheInv
  <2>4. ~Again => \A x \in DOMAIN n.cache : x < k /\ x \in DOMAIN t
    BY <1>0, <1>4, <1>7, <1>10, <2>1 DEF CacheInv
  <2>5. ASSUME NEW x \in DOMAIN t, x \in DOMAIN n.cache
        PROVE  /\ n.cache[x].loc = t[x].loc
               /\ n.cache[x].enabled = t[x].enabled \/ Listing(n.queue) \/ x >= k
    <3>1. CASE x \in DOMAIN gdb.table
      BY <1>4, <1>12, <2>1, <2>5, <3>1 DEF CacheInv
    <3>2. CASE x = k
      <4>1. Again
        BY <1>4, <2>4, <2>5, <3>2
      <4>2. First + 1 - 1 = k
        BY <1>4
      <4>3. n.cache[k].loc = n.queue[1].loc
        BY <1>0, <1>1, <2>1, <2>5, <3>2, <4>1, <4>2 DEF AgainInv
      <4> QED
        BY <1>0, <1>2, <1>4, <1>7, <3>2, <4>3
    <3> QED
      BY <1>7, <3>1, <3>2
  <2>6. Again' = Again
    BY <1>10 DEF Again
  <2>7. /\ gdb'.table = t /\ gdb'.next - 1 = k /\ n' = n /\ First' = k
        /\ k + 1 - 1 = k /\ Done("insert")'
    BY <1>4, <1>9, <1>9a, <1>10, <1>11
  <2> QED
    BY <2>2, <2>3, <2>4, <2>5, <2>6, <2>7 DEF CacheInv
<1>18. ShownInv'
  <2>1. First' = First
    BY <1>4, <1>11
  <2> QED
    BY <1>10, <2>1 DEF IInv, ShownInv, Again
<1> QED
  BY <1>9, <1>10, <1>14, <1>15, <1>16, <1>17, <1>18 DEF IInv

(* A reply that leaves the table as it was, but for counts and scripts.    *)
LEMMA RepliesOnly ==
    ASSUME IInv, NEW op, Reads(op), op # "insert", NEW kind \in {"done", "error"},
           op = "delete" => kind = "error",
           NEW b \in Tables(Breakpoint), Says(kind, b), gdb' \in Gdb,
           op \in {"run", "continue"} \/ gdb'.inferior = gdb.inferior,
           gdb'.next = gdb.next, DOMAIN gdb'.table = DOMAIN gdb.table,
           \A id \in DOMAIN gdb.table : /\ gdb'.table[id].loc = gdb.table[id].loc
                                        /\ gdb'.table[id].enabled = gdb.table[id].enabled,
           kind = "done" => ListDone(b)',
           kind = "error" => op # "list" /\ (op = "commands" => Gone')
    PROVE  IInv'
<1>1. /\ Typed' /\ n' = n /\ may' = may /\ gdb.inferior # "running"
      /\ \A o : ~Done(o)
      /\ \A o : Done(o)' <=> kind = "done" /\ o = op
      /\ op \in {"run", "continue"} \/ gdb'.inferior # "running" => OutInv'
      /\ n.queue[1].op = op
  BY Replies
<1>2. OutInv'
  BY <1>1
<1>3. /\ ~Done("insert")' /\ ~Done("insert") /\ ~Done("delete") /\ ~Done("delete")'
  BY <1>1
<1>4. /\ First' = First /\ QueueInv' /\ AgainInv' /\ CacheInv' /\ ShownInv'
      /\ \A d, id : ModifiedAs(d, id) => ModifiedAs(d, id)'
  BY <1>1, <1>3, SameAsKnown
<1>5. kind = "done" => InsertDone(b)' /\ op # "delete"
  BY <1>1 DEF InsertDone
<1>6. AnswerInv' /\ ModifiedInv'
  BY <1>4, <1>5, Reported
<1> QED
  BY <1>1, <1>2, <1>4, <1>6 DEF IInv

LEMMA GdbListsAll ==
    ASSUME IInv, GdbLists
    PROVE  IInv'
<1>0. PICK b : b = ParsedTable(gdb.table)
  OBVIOUS
<1>1. gdb \in Gdb /\ Reads("list") /\ Says("done", b) /\ gdb' = gdb
  BY <1>0 DEF IInv, Typed, GdbLists
<1>2. IsTable(gdb.table, Ids, GdbBreakpoint)
  BY <1>1, GdbFields
<1>3. /\ b \in Tables(Breakpoint) /\ DOMAIN b = DOMAIN gdb.table
      /\ \A id \in DOMAIN b : /\ b[id].loc = gdb.table[id].loc
                              /\ b[id].enabled = gdb.table[id].enabled
                              /\ ~b[id].count
  <2>1. DOMAIN b = DOMAIN gdb.table
    BY <1>0 DEF ParsedTable
  <2>2. ASSUME NEW id \in DOMAIN gdb.table
        PROVE  /\ b[id] \in Breakpoint /\ b[id].loc = gdb.table[id].loc
               /\ b[id].enabled = gdb.table[id].enabled /\ ~b[id].count
    <3>1. gdb.table[id] \in GdbBreakpoint /\ b[id] = Parsed(gdb.table[id])
      BY <1>0, <1>2 DEF IsTable, ParsedTable
    <3> QED
      BY <3>1, ParsedType
  <2>3. b \in [DOMAIN b -> Breakpoint]
    <3>1. b = [id \in DOMAIN gdb.table |-> Parsed(gdb.table[id])]
      BY <1>0 DEF ParsedTable
    <3> QED
      BY <2>1, <2>2, <3>1
  <2>4. IsTable(b, Ids, Breakpoint)
    BY <1>2, <2>1, <2>3 DEF IsTable
  <2> QED
    BY <2>1, <2>2, <2>4, TableFacts
<1>4. ListDone(b)'
  BY <1>1, <1>3 DEF ListDone
<1> QED
  BY <1>1, <1>3, <1>4, RepliesOnly

LEMMA NothingListed ==
    ASSUME IInv, NEW op, Reads(op), op # "list"
    PROVE  Nothing \in Tables(Breakpoint) /\ ListDone(Nothing)'
<1>1. n' = n /\ Head(n.queue).op = op /\ n.queue \in Seq(Command) /\ n.queue # <<>>
  BY DEF Reads, IInv, Typed, Nemiver
<1>2. n.queue[1].op = op
  BY <1>1, Ends
<1>3. Nothing \in Tables(Breakpoint)
  BY TableFacts, EmptyTable
<1> QED
  BY <1>1, <1>2, <1>3 DEF ListDone

LEMMA GdbRunsAgain ==
    ASSUME IInv, GdbRuns
    PROVE  IInv'
<1>0. PICK t : t = [id \in DOMAIN gdb.table |-> [gdb.table[id] EXCEPT !.times = 0]]
  OBVIOUS
<1>1. /\ gdb \in Gdb /\ Reads("run") /\ Says("done", Nothing)
      /\ gdb' = [gdb EXCEPT !.inferior = "running", !.table = t]
  BY <1>0 DEF IInv, Typed, GdbRuns
<1>2. IsTable(gdb.table, Ids, GdbBreakpoint)
  BY <1>1, GdbFields
<1>3. /\ t \in Tables(GdbBreakpoint) /\ DOMAIN t = DOMAIN gdb.table
      /\ \A id \in DOMAIN gdb.table : /\ t[id].loc = gdb.table[id].loc
                                      /\ t[id].enabled = gdb.table[id].enabled
  <2>1. \A b \in GdbBreakpoint : /\ [b EXCEPT !.times = 0] \in GdbBreakpoint
                                 /\ [b EXCEPT !.times = 0].loc = b.loc
                                 /\ [b EXCEPT !.times = 0].enabled = b.enabled
    BY DEF GdbBreakpoint
  <2>2. \A id \in DOMAIN gdb.table :
            gdb.table[id] \in GdbBreakpoint /\ t[id] = [gdb.table[id] EXCEPT !.times = 0]
    BY <1>0, <1>2 DEF IsTable
  <2>3. \A id \in DOMAIN gdb.table : /\ t[id] \in GdbBreakpoint
                                     /\ t[id].loc = gdb.table[id].loc
                                     /\ t[id].enabled = gdb.table[id].enabled
    BY <2>1, <2>2
  <2>4. t \in [DOMAIN gdb.table -> GdbBreakpoint] /\ DOMAIN t = DOMAIN gdb.table
    BY <1>0, <2>3
  <2> QED
    BY <1>2, <2>3, <2>4, TableFacts DEF IsTable
<1>4. gdb' \in Gdb /\ gdb'.table = t /\ gdb'.next = gdb.next
  <2>1. PICK g : g = [gdb EXCEPT !.inferior = "running"]
    OBVIOUS
  <2>2. g \in Gdb /\ g.next = gdb.next
    BY <1>1, <2>1, GdbFields
  <2>3. gdb' = [g EXCEPT !.table = t]
    BY <1>1, <2>1 DEF Gdb
  <2>4. t \in Tables(GdbBreakpoint)
    BY <1>3
  <2> QED
    BY <2>2, <2>3, <2>4 DEF Gdb
<1>5. Nothing \in Tables(Breakpoint) /\ ListDone(Nothing)'
  BY <1>1, NothingListed
<1> QED
  BY <1>1, <1>3, <1>4, <1>5, RepliesOnly

LEMMA GdbContinuesOn ==
    ASSUME IInv, GdbContinues
    PROVE  IInv'
<1>1. gdb \in Gdb /\ Reads("continue")
  BY DEF IInv, Typed, GdbContinues
<1>2. Nothing \in Tables(Breakpoint) /\ ListDone(Nothing)'
  BY <1>1, NothingListed
<1>3. CASE gdb' = [gdb EXCEPT !.inferior = "running"] /\ Says("done", Nothing)
  <2>1. gdb' \in Gdb /\ gdb'.table = gdb.table /\ gdb'.next = gdb.next
    BY <1>1, <1>3, GdbFields
  <2> QED
    BY <1>1, <1>2, <1>3, <2>1, RepliesOnly
<1>4. CASE Says("error", Nothing) /\ gdb' = gdb
  BY <1>1, <1>2, <1>4, RepliesOnly
<1> QED
  BY <1>3, <1>4 DEF GdbContinues

LEMMA ChangedEffect ==
    ASSUME NEW t \in Tables(GdbBreakpoint), NEW c \in Command,
           c.op \in {"delete", "enable", "disable", "after", "commands"}, c.id \in DOMAIN t
    PROVE  /\ Changed(t, c) \in Tables(GdbBreakpoint)
           /\ DOMAIN Changed(t, c) = IF c.op = "delete" THEN DOMAIN t \ {c.id} ELSE DOMAIN t
           /\ \A x \in DOMAIN Changed(t, c) : /\ Changed(t, c)[x].loc = t[x].loc
                                              /\ \/ Changed(t, c)[x].enabled = t[x].enabled
                                                 \/ x = c.id /\ c.op \in {"enable", "disable"}
<1>1. t \in [DOMAIN t -> GdbBreakpoint] /\ DOMAIN t \subseteq Ids /\ IsTable(t, Ids, GdbBreakpoint)
  BY TableFacts DEF IsTable
<1>2. PICK id : id = c.id
  OBVIOUS
<1>3. id \in DOMAIN t /\ t[id] \in GdbBreakpoint
  BY <1>1, <1>2
<1>4. CASE c.op = "delete"
  <2>1. Changed(t, c) = Without(t, id)
    BY <1>2, <1>4 DEF Changed
  <2>2. /\ IsTable(Without(t, id), Ids, GdbBreakpoint) /\ DOMAIN Without(t, id) = DOMAIN t \ {id}
        /\ \A x \in DOMAIN t \ {id} : Without(t, id)[x] = t[x]
    BY <1>1 DEF Without, Restrict, IsTable
  <2> QED
    BY <1>2, <1>4, <2>1, <2>2, TableFacts
<1>5. ASSUME NEW b \in GdbBreakpoint, b.loc = t[id].loc,
             b.enabled = t[id].enabled \/ c.op \in {"enable", "disable"},
             c.op # "delete", Changed(t, c) = [t EXCEPT ![id] = b]
      PROVE  /\ Changed(t, c) \in Tables(GdbBreakpoint) /\ DOMAIN Changed(t, c) = DOMAIN t
             /\ \A x \in DOMAIN t : /\ Changed(t, c)[x].loc = t[x].loc
                                    /\ \/ Changed(t, c)[x].enabled = t[x].enabled
                                       \/ x = c.id /\ c.op \in {"enable", "disable"}
  <2>1. PICK u : u = [t EXCEPT ![id] = b]
    OBVIOUS
  <2>2. /\ u \in [DOMAIN t -> GdbBreakpoint] /\ DOMAIN u = DOMAIN t
        /\ \A x \in DOMAIN t : u[x] = IF x = id THEN b ELSE t[x]
    BY <1>1, <1>3, <2>1
  <2>3. u \in Tables(GdbBreakpoint)
    BY <1>1, <2>2, TableFacts DEF IsTable
  <2> QED
    BY <1>2, <1>5, <2>1, <2>2, <2>3
<1>6. CASE c.op = "enable"
  <2>1. PICK b : b = [t[id] EXCEPT !.enabled = TRUE]
    OBVIOUS
  <2>2. b \in GdbBreakpoint /\ b.loc = t[id].loc
    BY <1>3, <2>1 DEF GdbBreakpoint
  <2>3. Changed(t, c) = [t EXCEPT ![id] = b]
    BY <1>2, <1>6, <2>1 DEF Changed
  <2> QED
    BY <1>5, <1>6, <2>2, <2>3
<1>7. CASE c.op = "disable"
  <2>1. PICK b : b = [t[id] EXCEPT !.enabled = FALSE]
    OBVIOUS
  <2>2. b \in GdbBreakpoint /\ b.loc = t[id].loc
    BY <1>3, <2>1 DEF GdbBreakpoint
  <2>3. Changed(t, c) = [t EXCEPT ![id] = b]
    BY <1>2, <1>7, <2>1 DEF Changed
  <2> QED
    BY <1>5, <1>7, <2>2, <2>3
<1>8. CASE c.op = "after"
  <2>1. PICK b : b = [t[id] EXCEPT !.ignore = c.n]
    OBVIOUS
  <2>2. c.n \in Nat
    BY <1>8, CommandFacts
  <2>3. b \in GdbBreakpoint /\ b.loc = t[id].loc /\ b.enabled = t[id].enabled
    BY <1>3, <2>1, <2>2 DEF GdbBreakpoint
  <2>4. Changed(t, c) = [t EXCEPT ![id] = b]
    BY <1>2, <1>8, <2>1 DEF Changed
  <2> QED
    BY <1>5, <1>8, <2>3, <2>4
<1>9. CASE c.op = "commands"
  <2>1. PICK b : b = [t[id] EXCEPT !.script = c.yes]
    OBVIOUS
  <2>2. c.yes \in BOOLEAN
    BY <1>9, CommandFacts
  <2>3. b \in GdbBreakpoint /\ b.loc = t[id].loc /\ b.enabled = t[id].enabled
    BY <1>3, <2>1, <2>2 DEF GdbBreakpoint
  <2>4. Changed(t, c) = [t EXCEPT ![id] = b]
    BY <1>2, <1>9, <2>1 DEF Changed
  <2> QED
    BY <1>5, <1>9, <2>3, <2>4
<1> QED
  BY <1>4, <1>6, <1>7, <1>8, <1>9

LEMMA GdbChangesIt ==
    ASSUME IInv, NEW op \in {"delete", "enable", "disable", "after", "commands"}, GdbChanges(op)
    PROVE  IInv'
<1>0. PICK c, id, t : c = n.queue[1] /\ id = c.id /\ t = Changed(gdb.table, c)
  OBVIOUS
<1>1. /\ Reads(op) /\ n.queue \in Seq(Command) /\ n.queue # <<>> /\ gdb \in Gdb
      /\ c \in Command /\ c.op = op /\ Head(n.queue) = c
      /\ 1 \in 1..Len(n.queue) /\ Len(n.queue) \in Nat
  <2>1. /\ Reads(op) /\ n.queue \in Seq(Command) /\ n.queue # <<>> /\ gdb \in Gdb
        /\ Head(n.queue).op = op
    BY DEF GdbChanges, Reads, IInv, Typed, Nemiver
  <2> QED
    BY <1>0, <2>1, Ends
<1>2. Nothing \in Tables(Breakpoint) /\ ListDone(Nothing)'
  BY <1>1, NothingListed
<1>3. CASE id \notin DOMAIN gdb.table
  <2>1. Says("error", Nothing) /\ gdb' = gdb /\ n' = n
    BY <1>0, <1>1, <1>3 DEF GdbChanges, Reads
  <2>2. Gone'
    BY <1>0, <1>3, <2>1 DEF Gone
  <2> QED
    BY <1>1, <1>2, <2>1, <2>2, RepliesOnly
<1>4. CASE id \in DOMAIN gdb.table
  <2>1. gdb' = [gdb EXCEPT !.table = t] /\ Says("done", Nothing)
    BY <1>0, <1>1, <1>4 DEF GdbChanges
  <2>2. /\ t \in Tables(GdbBreakpoint)
        /\ DOMAIN t = IF op = "delete" THEN DOMAIN gdb.table \ {id} ELSE DOMAIN gdb.table
        /\ \A x \in DOMAIN t : /\ t[x].loc = gdb.table[x].loc
                               /\ \/ t[x].enabled = gdb.table[x].enabled
                                  \/ x = id /\ op \in {"enable", "disable"}
    <3>1. gdb.table \in Tables(GdbBreakpoint)
      BY <1>1 DEF Gdb
    <3> QED
      BY <1>0, <1>1, <1>4, <3>1, ChangedEffect
  <2>3. gdb' \in Gdb /\ gdb'.table = t /\ gdb'.next = gdb.next /\ gdb'.inferior = gdb.inferior
    BY <1>1, <2>1, <2>2 DEF Gdb
  <2>4. /\ Typed' /\ n' = n /\ may' = may /\ gdb.inferior # "running"
        /\ \A o : ~Done(o)
        /\ \A o : Done(o)' <=> o = op
        /\ gdb'.inferior # "running" => OutInv'
        /\ First = gdb.next
    BY <1>1, <1>2, <2>1, <2>3, Replies
  <2>5. First' = First
    <3>1. ~Done("insert")'
      BY <2>4
    <3> QED
      BY <2>3, <2>4, <3>1 DEF First
  <2>6. OutInv'
    BY <2>3, <2>4
  <2>7. \A d, x : ModifiedAs(d, x) => ModifiedAs(d, x)'
    <3> SUFFICES ASSUME NEW d, NEW x, ModifiedAs(d, x) PROVE ModifiedAs(d, x)'
      OBVIOUS
    <3>1. /\ DOMAIN d = {x} /\ x \in DOMAIN n.cache /\ x < First
          /\ d[x].loc = n.cache[x].loc /\ ~d[x].count
          /\ x \in DOMAIN gdb.table /\ d[x].enabled = gdb.table[x].enabled
      BY <2>4 DEF ModifiedAs
    <3>2. x \in DOMAIN t => \/ d[x].enabled = t[x].enabled
                            \/ Done("enable")' \/ Done("disable")'
      BY <2>2, <2>4, <3>1
    <3>3. x \in DOMAIN t \/ (Done("delete")' /\ n.queue[1].id = x)
      BY <1>0, <2>2, <2>4, <3>1
    <3> QED
      BY <2>3, <2>4, <2>5, <3>1, <3>2, <3>3 DEF ModifiedAs
  <2>8. AnswerInv' /\ ModifiedInv'
    <3>1. InsertDone(Nothing)'
      BY <1>0, <1>1, <2>4 DEF InsertDone
    <3>2. op = "delete" => Gone'
      BY <1>0, <2>2, <2>3, <2>4 DEF Gone
    <3> QED
      BY <1>1, <1>2, <2>1, <2>3, <2>7, <3>1, <3>2, Reported
  <2>9. QueueInv'
    <3>1. Done("insert")' = Done("insert")
      BY <2>4 DEF Done
    <3>2. QueueInv /\ n' = n /\ gdb'.next = gdb.next
      BY <2>3, <2>4 DEF IInv
    <3> QED
      BY <3>1, <3>2 DEF QueueInv
  <2>10. AgainInv'
    <3>1. CASE Again
      <4>1. op # "delete" /\ AgainInv
        BY <1>0, <1>1, <3>1 DEF IInv, AgainInv
      <4>2. DOMAIN gdb'.table = DOMAIN gdb.table /\ gdb'.next = gdb.next /\ n' = n /\ First' = First
        BY <2>2, <2>3, <2>4, <2>5, <4>1
      <4> QED
        BY <3>1, <4>1, <4>2 DEF AgainInv
    <3>2. CASE ~Again
      BY <2>4, <3>2 DEF AgainInv, Again
    <3> QED
      BY <3>1, <3>2
  <2>11. CacheInv'
    <3>1. CacheInv
      BY DEF IInv
    <3>2. /\ DOMAIN t \subseteq 1..(gdb.next - 1)
          /\ \A x \in DOMAIN t : x \in DOMAIN gdb.table /\ x \in DOMAIN n.cache
      BY <2>2, <2>4, <3>1 DEF CacheInv
    <3>3. ~Again => \A x \in DOMAIN n.cache :
             x < First /\ (x \in DOMAIN t \/ (Done("delete")' /\ n.queue[1].id = x))
      BY <1>0, <2>2, <2>4, <3>1 DEF CacheInv
    <3>4. op \in {"enable", "disable"} => Listing(n.queue)
      <4> SUFFICES ASSUME op \in {"enable", "disable"} PROVE Listing(n.queue)
        OBVIOUS
      <4>1. PICK j \in (1 + 1)..Len(n.queue) : n.queue[j].op = "list"
        BY <1>0, <1>1 DEF IInv, QueueInv
      <4> QED
        BY <1>1, <4>1 DEF Listing
    <3>5. \A x \in DOMAIN t :
              /\ n.cache[x].loc = t[x].loc
              /\ n.cache[x].enabled = t[x].enabled \/ Listing(n.queue) \/ x >= First
      BY <2>2, <3>1, <3>2, <3>4 DEF CacheInv
    <3>6. /\ gdb'.table = t /\ gdb'.next = gdb.next /\ n' = n /\ First' = First
          /\ Again' = Again
      BY <2>3, <2>4, <2>5 DEF Again
    <3> QED
      BY <3>2, <3>3, <3>5, <3>6 DEF CacheInv
  <2>12. ShownInv'
    BY <2>4, <2>5 DEF IInv, ShownInv, Again
  <2> QED
    BY <2>4, <2>6, <2>8, <2>9, <2>10, <2>11, <2>12 DEF IInv
<1> QED
  BY <1>3, <1>4

LEMMA GdbReplies ==
    ASSUME IInv, BreakpointsAssumption, GdbAnswers
    PROVE  IInv'
BY GdbInsertsNext, GdbListsAll, GdbRunsAgain, GdbContinuesOn, GdbChangesIt DEF GdbAnswers

-----------------------------------------------------------------------------
(* The inferior.                                                           *)

LEMMA OnlyRunning ==
    ASSUME IInv, gdb.inferior = "running"
    PROVE  /\ \A i \in 1..Len(out) : out[i].kind \in {"done", "error"} =>
                 n.queue[1].op \in {"run", "continue"}
           /\ \A op : Done(op) => op \in {"run", "continue"}
           /\ First = gdb.next
<1>1. \A i \in 1..Len(out) : out[i].kind \in {"done", "error"} =>
          n.queue[1].op \in {"run", "continue"}
  BY DEF IInv, OutInv
<1>2. \A op : Done(op) => op \in {"run", "continue"}
  BY <1>1 DEF Done
<1>3. ~Done("insert")
  BY <1>2
<1> QED
  BY <1>1, <1>2, <1>3 DEF First

LEMMA ItHalts ==
    ASSUME IInv, Halts
    PROVE  IInv'
<1>1. PICK how \in {"stopped", "none"} : gdb' = [gdb EXCEPT !.inferior = how]
  BY DEF Halts
<1>2. /\ n' = n /\ out' = out /\ wanted' = wanted /\ may' = may
      /\ gdb.inferior = "running" /\ gdb \in Gdb
  BY DEF Halts, IInv, Typed
<1>3. gdb' \in Gdb /\ gdb'.table = gdb.table /\ gdb'.next = gdb.next /\ gdb'.inferior = how
  BY <1>1, <1>2 DEF Gdb
<1>4. \A op : Done(op)' <=> Done(op)
  BY <1>2 DEF Done
<1>5. /\ First' = First /\ QueueInv' /\ AgainInv' /\ CacheInv' /\ ShownInv'
      /\ \A d, id : ModifiedAs(d, id) => ModifiedAs(d, id)'
  BY <1>2, <1>3, <1>4, SameAsKnown
<1>6. Typed'
  BY <1>2, <1>3 DEF IInv, Typed
<1>7. OutInv'
  BY <1>2, OnlyRunning DEF IInv, OutInv
<1>8. AnswerInv'
  BY <1>2, <1>3 DEF IInv, AnswerInv, InsertDone, ListDone, Gone
<1>9. ModifiedInv'
  <2> SUFFICES ASSUME NEW i \in 1..Len(out'), out'[i].kind = "modified", NEW d, d = out'[i].bps
               PROVE  \E id \in Ids : ModifiedAs(d, id)'
    BY DEF ModifiedInv, ModifiedAs
  <2> QED
    BY <1>2, <1>5 DEF IInv, ModifiedInv
<1> QED
  BY <1>5, <1>6, <1>7, <1>8, <1>9 DEF IInv

LEMMA JoinedRecords ==
    \A s, t \in Seq(Record) :
        /\ s \o t \in Seq(Record) /\ Len(s \o t) = Len(s) + Len(t)
        /\ Len(s) \in Nat /\ Len(t) \in Nat
        /\ \A i \in 1..Len(s) : (s \o t)[i] = s[i]
        /\ \A i \in 1..Len(t) : (s \o t)[Len(s) + i] = t[i]
BY Joined

(* Records of two kinds are printed after the others.                      *)
LEMMA PrintedThen ==
    ASSUME NEW o \in Seq(Record), NEW told \in Seq(Record), NEW ends \in Seq(Record),
           NEW m, NEW s, \A i \in 1..Len(told) : told[i] = m,
           \A i \in 1..Len(ends) : ends[i] = s,
           NEW new, new = (o \o told) \o ends
    PROVE  /\ new \in Seq(Record) /\ Len(o) \in Nat /\ Len(new) \in Nat /\ Len(o) <= Len(new)
           /\ \A i \in 1..Len(o) : i \in 1..Len(new) /\ new[i] = o[i]
           /\ \A i \in 1..Len(new) :
                 (i \in 1..Len(o) /\ new[i] = o[i]) \/ new[i] = m \/ new[i] = s
<1>1. PICK p, lo, lt, lp, le, ln :
          /\ p = o \o told /\ lo = Len(o) /\ lt = Len(told) /\ lp = Len(p)
          /\ le = Len(ends) /\ ln = Len(new)
  OBVIOUS
<1>2. /\ p \in Seq(Record) /\ lp = lo + lt /\ lo \in Nat /\ lt \in Nat
      /\ \A i \in 1..lo : p[i] = o[i]
      /\ \A i \in 1..lt : p[lo + i] = m
  BY <1>1, JoinedRecords
<1>3. /\ new \in Seq(Record) /\ ln = lp + le /\ lp \in Nat /\ le \in Nat
      /\ \A i \in 1..lp : new[i] = p[i]
      /\ \A i \in 1..le : new[lp + i] = s
  <2>1. new = p \o ends
    BY <1>1
  <2> QED
    BY <1>1, <1>2, <2>1, JoinedRecords
<1>4. lp = lo + lt /\ ln = lp + le /\ lo \in Nat /\ lt \in Nat /\ lp \in Nat /\ le \in Nat
  BY <1>2, <1>3
<1>5. ASSUME NEW i \in 1..lo PROVE i \in 1..ln /\ new[i] = o[i]
  <2>1. i \in 1..lp /\ i \in 1..ln
    BY <1>4
  <2> QED
    BY <1>2, <1>3, <2>1
<1>6. ASSUME NEW i \in 1..ln
      PROVE  (i \in 1..lo /\ new[i] = o[i]) \/ new[i] = m \/ new[i] = s
  <2>1. CASE i \in 1..lo
    BY <1>5, <2>1
  <2>2. CASE i - lo \in 1..lt
    <3>1. lo + (i - lo) = i /\ i \in 1..lp
      BY <1>4, <2>2
    <3>2. new[i] = p[i] /\ p[lo + (i - lo)] = m
      BY <1>2, <1>3, <2>2, <3>1
    <3> QED
      BY <3>1, <3>2
  <2>3. CASE i - lp \in 1..le
    <3>1. lp + (i - lp) = i
      BY <1>4
    <3>2. new[lp + (i - lp)] = s
      BY <1>3, <2>3
    <3> QED
      BY <3>1, <3>2
  <2>4. i \in 1..lo \/ i - lo \in 1..lt \/ i - lp \in 1..le
    BY <1>4
  <2> QED
    BY <2>1, <2>2, <2>3, <2>4
<1>7. lo <= ln /\ ln \in Nat
  BY <1>4
<1> QED
  BY <1>1, <1>3, <1>4, <1>5, <1>6, <1>7

(* new is what o was, and then records m and s.                            *)
AllAre(q, m) == \A i \in 1..Len(q) : q[i] = m
PrintsMore(o, new, m, s) ==
    /\ new \in Seq(Record) /\ Len(o) \in Nat /\ Len(new) \in Nat /\ Len(o) <= Len(new)
    /\ \A i \in 1..Len(o) : i \in 1..Len(new) /\ new[i] = o[i]
    /\ \A i \in 1..Len(new) : (i \in 1..Len(o) /\ new[i] = o[i]) \/ new[i] = m \/ new[i] = s

LEMMA Printed ==
    ASSUME NEW o \in Seq(Record), NEW told \in Seq(Record), NEW ends \in Seq(Record),
           NEW m, NEW s, NEW new, AllAre(told, m), AllAre(ends, s), new = (o \o told) \o ends
    PROVE  PrintsMore(o, new, m, s)
<1>1. (\A i \in 1..Len(told) : told[i] = m) /\ (\A i \in 1..Len(ends) : ends[i] = s)
  BY DEF AllAre
<1> QED
  BY <1>1, PrintedThen DEF PrintsMore

(* A hit prints records that answer nothing.                               *)
LEMMA HitPrints ==
    ASSUME NEW m \in Record, NEW s \in Record, NEW told, NEW ends,
           told = <<m>> \/ told = <<>>, ends = <<s>> \/ ends = <<>>
    PROVE  /\ told \in Seq(Record) /\ ends \in Seq(Record)
           /\ AllAre(told, m) /\ AllAre(ends, s)
<1>1. /\ <<m>> \in Seq(Record) /\ Len(<<m>>) = 1 /\ <<m>>[1] = m
      /\ <<s>> \in Seq(Record) /\ Len(<<s>>) = 1 /\ <<s>>[1] = s
  OBVIOUS
<1>2. PICK none : none = <<>>
  OBVIOUS
<1>3. none \in Seq(Record) /\ Len(none) = 0
  BY <1>2
<1>4. \A i \in 1..0 : FALSE
  OBVIOUS
<1>5. \A i \in 1..1 : i = 1
  OBVIOUS
<1>6. told = <<m>> \/ told = none
  BY <1>2
<1>7. ends = <<s>> \/ ends = none
  BY <1>2
<1>8. told \in Seq(Record) /\ \A i \in 1..Len(told) : told[i] = m
  BY <1>1, <1>3, <1>4, <1>5, <1>6
<1>9. ends \in Seq(Record) /\ \A i \in 1..Len(ends) : ends[i] = s
  BY <1>1, <1>3, <1>4, <1>5, <1>7
<1> QED
  BY <1>8, <1>9 DEF AllAre

LEMMA ItIsHit ==
    ASSUME IInv, BreakpointsAssumption, NEW id \in DOMAIN gdb.table, Hit(id)
    PROVE  IInv'
<1>0. PICK b, k, hit, stop, notify, t, how, next :
          /\ b = gdb.table[id] /\ k = IF b.ignore > 0 THEN b.ignore - 1 ELSE 0
          /\ hit = [b EXCEPT !.times = @ + 1, !.ignore = k]
          /\ stop = (b.ignore = 0 /\ ~b.script) /\ notify = ("notify" \in may)
          /\ t = [gdb.table EXCEPT ![id] = hit]
          /\ how = (IF stop THEN "stopped" ELSE gdb.inferior) /\ next = gdb.next
  OBVIOUS
<1>1. /\ gdb \in Gdb /\ gdb.table \in Tables(GdbBreakpoint) /\ gdb.inferior = "running"
      /\ n' = n /\ wanted' = wanted /\ may' = may /\ out \in Seq(Record)
      /\ stop \in BOOLEAN /\ notify \in BOOLEAN
  BY <1>0 DEF Hit, IInv, Typed, Gdb
<1>2. /\ gdb.table \in [DOMAIN gdb.table -> GdbBreakpoint] /\ DOMAIN gdb.table \subseteq Ids
      /\ b \in GdbBreakpoint /\ id \in Ids
  BY <1>0, <1>1, TableFacts DEF IsTable
<1>3. hit \in GdbBreakpoint /\ hit.loc = b.loc /\ hit.enabled = b.enabled
  <2>1. b.ignore \in Nat /\ b.times \in Nat
    BY <1>2 DEF GdbBreakpoint
  <2>2. k \in Nat /\ b.times + 1 \in Nat
    BY <1>0, <2>1
  <2>3. PICK c : c = [b EXCEPT !.times = b.times + 1]
    OBVIOUS
  <2>4. c \in GdbBreakpoint /\ c.loc = b.loc /\ c.enabled = b.enabled
    BY <1>2, <2>2, <2>3 DEF GdbBreakpoint
  <2>5. hit = [c EXCEPT !.ignore = k]
    BY <1>0, <2>3
  <2> QED
    BY <2>2, <2>4, <2>5 DEF GdbBreakpoint
<1>4. /\ t \in Tables(GdbBreakpoint) /\ DOMAIN t = DOMAIN gdb.table /\ t[id] = hit
      /\ \A x \in DOMAIN t : t[x].loc = gdb.table[x].loc /\ t[x].enabled = gdb.table[x].enabled
  <2>1. /\ t \in [DOMAIN gdb.table -> GdbBreakpoint] /\ DOMAIN t = DOMAIN gdb.table
        /\ t[id] = hit
        /\ \A x \in DOMAIN t : t[x] = IF x = id THEN hit ELSE gdb.table[x]
    BY <1>0, <1>2, <1>3
  <2>2. t \in Tables(GdbBreakpoint)
    BY <1>2, <2>1, TableFacts DEF IsTable
  <2> QED
    BY <1>0, <1>3, <2>1, <2>2
<1>5. gdb' \in Gdb /\ gdb'.table = t /\ gdb'.next = gdb.next
  <2>1. gdb' = [gdb EXCEPT !.table = t, !.inferior = how]
    BY <1>0 DEF Hit
  <2>2. how \in {"none", "stopped", "running"}
    BY <1>0, <1>1
  <2> QED
    BY <1>1, <1>4, <2>1, <2>2 DEF Gdb
<1>6. Parsed(hit) \in Breakpoint /\ Parsed(hit).loc = b.loc
      /\ Parsed(hit).enabled = b.enabled /\ Parsed(hit).count = FALSE
  BY <1>3, ParsedType
<1>7. /\ out' \in Seq(Record) /\ Len(out) \in Nat /\ Len(out') \in Nat /\ Len(out) <= Len(out')
      /\ \A i \in 1..Len(out) : i \in 1..Len(out') /\ out'[i] = out[i]
      /\ \A i \in 1..Len(out') :
            \/ i \in 1..Len(out) /\ out'[i] = out[i]
            \/ out'[i].kind = "modified" /\ out'[i].bps = One(id, Parsed(hit))
            \/ out'[i].kind = "stopped"
  <2>1. PICK m, s, told, ends, new :
            /\ m = [kind |-> "modified", bps |-> One(id, Parsed(hit))]
            /\ s = [kind |-> "stopped", bps |-> Nothing]
            /\ told = IF notify THEN <<m>> ELSE <<>>
            /\ ends = IF stop THEN <<s>> ELSE <<>>
            /\ new = out'
    OBVIOUS
  <2>2. One(id, Parsed(hit)) \in Tables(Breakpoint) /\ Nothing \in Tables(Breakpoint)
    <3>1. /\ IsTable(One(id, Parsed(hit)), Ids, Breakpoint)
          /\ IsTable(Nothing, Ids, Breakpoint)
      BY <1>2, <1>6, EmptyTable, Single
    <3> QED
      BY <3>1, TableFacts
  <2>3. /\ m \in Record /\ m.kind = "modified" /\ m.bps = One(id, Parsed(hit))
        /\ s \in Record /\ s.kind = "stopped"
    BY <2>1, <2>2 DEF Record
  <2>4. new = (out \o told) \o ends
    BY <1>0, <2>1 DEF Hit
  <2>5. (told = <<m>> \/ told = <<>>) /\ (ends = <<s>> \/ ends = <<>>)
    BY <2>1
  <2>6. /\ told \in Seq(Record) /\ ends \in Seq(Record)
        /\ AllAre(told, m) /\ AllAre(ends, s)
    BY <2>3, <2>5, HitPrints
  <2>7. PrintsMore(out, new, m, s)
    BY <1>1, <2>4, <2>6, Printed
  <2>8. new = out'
    BY <2>1
  <2> QED
    BY <2>3, <2>7, <2>8 DEF PrintsMore
<1>8. /\ \A i \in 1..Len(out) : out[i].kind \in {"done", "error"} =>
             n.queue[1].op \in {"run", "continue"}
      /\ \A op : Done(op) => op \in {"run", "continue"}
      /\ First = gdb.next
  BY <1>1, OnlyRunning
<1>9. \A op : Done(op)' <=> Done(op)
  BY <1>1, <1>7 DEF Done
<1>10. /\ First' = First /\ QueueInv' /\ AgainInv' /\ CacheInv' /\ ShownInv'
       /\ \A d, x : ModifiedAs(d, x) => ModifiedAs(d, x)'
  BY <1>1, <1>4, <1>5, <1>9, SameAsKnown
<1>11. Typed'
  BY <1>1, <1>5, <1>7 DEF IInv, Typed
<1>12. OutInv'
  <2>1. OutInv /\ n' = n
    BY <1>1 DEF IInv
  <2>2. \A i \in 1..Len(out') : out'[i].kind \in {"done", "error"} =>
            i \in 1..Len(out) /\ out'[i] = out[i]
    BY <1>7
  <2> QED
    BY <1>8, <2>1, <2>2 DEF OutInv
<1>13. AnswerInv'
  <2>1. AnswerInv /\ n' = n
    BY <1>1 DEF IInv
  <2>2. \A i \in 1..Len(out') : out'[i].kind \in {"done", "error"} =>
            /\ i \in 1..Len(out) /\ out'[i] = out[i]
            /\ n.queue[1].op \in {"run", "continue"}
    BY <1>7, <1>8
  <2> QED
    BY <2>1, <2>2 DEF AnswerInv, InsertDone, ListDone, Gone
<1>14. ModifiedAs(One(id, Parsed(hit)), id)'
  <2>1. PICK d : d = One(id, Parsed(hit))
    OBVIOUS
  <2>2. DOMAIN d = {id} /\ d[id] = Parsed(hit)
    BY <2>1 DEF One
  <2>3. /\ id \in DOMAIN n.cache /\ n.cache[id].loc = gdb.table[id].loc
        /\ id \in 1..(gdb.next - 1) /\ gdb.next \in Int
    <3>1. CacheInv /\ ~Done("insert") /\ gdb.next \in Int
      BY <1>1, <1>8 DEF IInv, Gdb
    <3> QED
      BY <3>1 DEF CacheInv
  <2>4. id < First
    BY <1>8, <2>3
  <2>5. ModifiedAs(d, id)
    BY <1>0, <1>6, <2>2, <2>3, <2>4 DEF ModifiedAs
  <2>6. ModifiedAs(d, id)'
    BY <1>10, <2>5
  <2> QED
    BY <2>1, <2>6
<1>15. ModifiedInv'
  <2> SUFFICES ASSUME NEW i \in 1..Len(out'), out'[i].kind = "modified", NEW d, d = out'[i].bps
               PROVE  \E x \in Ids : ModifiedAs(d, x)'
    BY DEF ModifiedInv, ModifiedAs
  <2>1. CASE i \in 1..Len(out) /\ out'[i] = out[i]
    BY <1>10, <2>1 DEF IInv, ModifiedInv
  <2>2. CASE d = One(id, Parsed(hit))
    BY <1>2, <1>14, <2>2
  <2> QED
    BY <1>7, <2>1, <2>2
<1> QED
  BY <1>10, <1>11, <1>12, <1>13, <1>15 DEF IInv

-----------------------------------------------------------------------------
(* The theorems.                                                           *)

LEMMA Begins ==
    ASSUME BreakpointsAssumption, Init
    PROVE  IInv
<1>1. PICK z : z = Nothing
  OBVIOUS
<1>2. /\ DOMAIN z = {} /\ z \in Tables(Breakpoint) /\ z \in Tables(GdbBreakpoint)
      /\ IsTable(z, Locs, Breakpoint)
  BY <1>1, EmptyTable, TableFacts
<1>3. PICK none : none = <<>>
  OBVIOUS
<1>4. none \in Seq(Command) /\ none \in Seq(Record) /\ Len(none) = 0 /\ 1..Len(none) = {}
  BY <1>3
<1>5. NoRows \in [Ids -> Nat] /\ \A id \in Ids : NoRows[id] = 0
  BY DEF NoRows
<1>6. /\ n.queue = none /\ n.cache = z /\ n.shown = z /\ n.rows = NoRows
      /\ gdb.table = z /\ gdb.next = 1 /\ gdb.inferior = "none"
      /\ out = none /\ wanted = z /\ may \in Scenarios
  BY <1>1, <1>3 DEF Init, NewGdb
<1>7. n \in Nemiver
  BY <1>1, <1>2, <1>3, <1>4, <1>5 DEF Init, Nemiver
<1>8. MaxBps \in Nat /\ 1 \in 1..(MaxBps + 1)
  BY DEF BreakpointsAssumption
<1>9. gdb \in Gdb
  BY <1>1, <1>2, <1>8 DEF Init, NewGdb, Gdb
<1>10. Typed
  BY <1>2, <1>4, <1>6, <1>7, <1>9 DEF Typed
<1>11. OutInv /\ AnswerInv /\ ModifiedInv
  BY <1>4, <1>6 DEF OutInv, AnswerInv, ModifiedInv
<1>12. \A op : ~Done(op)
  BY <1>4, <1>6 DEF Done
<1>13. First = 1
  BY <1>6, <1>12 DEF First
<1>14. QueueInv
  <2>1. Unread(n.queue, Done("insert")) = {}
    BY <1>4, <1>6 DEF Unread
  <2>2. Cardinality(Unread(n.queue, Done("insert"))) = 0
    BY <2>1, FS_EmptySet
  <2> QED
    BY <1>4, <1>6, <1>8, <2>2 DEF QueueInv
<1>15. AgainInv
  <2>1. 1..0 = {} /\ 1 - 1 = 0
    OBVIOUS
  <2> QED
    BY <1>2, <1>4, <1>6, <2>1 DEF AgainInv
<1>16. CacheInv
  BY <1>2, <1>6 DEF CacheInv
<1>17. ShownInv
  BY <1>2, <1>5, <1>6 DEF ShownInv
<1> QED
  BY <1>10, <1>11, <1>14, <1>15, <1>16, <1>17 DEF IInv

LEMMA Stutters ==
    ASSUME IInv, UNCHANGED vars
    PROVE  IInv'
<1>1. n' = n /\ gdb' = gdb /\ out' = out /\ wanted' = wanted /\ may' = may
  BY DEF vars
<1>2. \A op : Done(op)' <=> Done(op)
  BY <1>1 DEF Done
<1>3. /\ First' = First /\ QueueInv' /\ AgainInv' /\ CacheInv' /\ ShownInv'
      /\ \A d, x : ModifiedAs(d, x) => ModifiedAs(d, x)'
  BY <1>1, <1>2, SameAsKnown
<1>4. Typed'
  BY <1>1 DEF IInv, Typed
<1>5. OutInv'
  BY <1>1 DEF IInv, OutInv
<1>6. AnswerInv'
  BY <1>1 DEF IInv, AnswerInv, InsertDone, ListDone, Gone
<1>7. ModifiedInv'
  <2> SUFFICES ASSUME NEW i \in 1..Len(out'), out'[i].kind = "modified", NEW d, d = out'[i].bps
               PROVE  \E x \in Ids : ModifiedAs(d, x)'
    BY DEF ModifiedInv, ModifiedAs
  <2> QED
    BY <1>1, <1>3 DEF IInv, ModifiedInv
<1> QED
  BY <1>3, <1>4, <1>5, <1>6, <1>7 DEF IInv

LEMMA Steps ==
    ASSUME IInv, PatientRestarts, BreakpointsAssumption, [Next]_vars
    PROVE  IInv'
<1>1. CASE User
  <2>1. CASE \/ \E loc \in Locs, count \in BOOLEAN : SetBreakpoint(loc, count)
             \/ \E id \in DOMAIN n.shown :
                   DeleteBreakpoint(id) \/ ToggleEnabled(id) \/ ToggleCountpoint(id)
             \/ Continue
    BY <2>1, UserQueues
  <2>2. CASE \E id \in DOMAIN n.shown : \E count \in 0..MaxIgnore : EditIgnoreCount(id, count)
    BY <2>2, EditQueues
  <2>3. CASE Rerun
    BY <2>3, RerunQueues
  <2>4. CASE Restart
    BY <2>4, RestartsNumberAgain
  <2>5. CASE Resume
    BY <2>5, ResumeStartsAnew
  <2> QED
    BY <1>1, <2>1, <2>2, <2>3, <2>4, <2>5 DEF User
<1>2. CASE OnOutputRecord
  BY <1>2, Handles
<1>3. CASE GdbAnswers
  BY <1>3, GdbReplies
<1>4. CASE Halts
  BY <1>4, ItHalts
<1>5. CASE \E id \in DOMAIN gdb.table : Hit(id)
  BY <1>5, ItIsHit
<1>6. CASE UNCHANGED vars
  BY <1>6, Stutters
<1> QED
  BY <1>1, <1>2, <1>3, <1>4, <1>5, <1>6 DEF Next

LEMMA TypedIsTypeOK ==
    ASSUME IInv
    PROVE  TypeOK
<1>1. n \in Nemiver /\ gdb \in Gdb /\ out \in Seq(Record)
  BY DEF IInv, Typed
<1>2. \A i \in 1..Len(out) : IsTable(out[i].bps, Ids, Breakpoint)
  <2> SUFFICES ASSUME NEW i \in 1..Len(out) PROVE IsTable(out[i].bps, Ids, Breakpoint)
    OBVIOUS
  <2>1. out[i] \in Record
    BY <1>1
  <2> QED
    BY <2>1, TableFacts DEF Record
<1>3. /\ IsTable(n.cache, Ids, Breakpoint) /\ IsTable(n.shown, Ids, Breakpoint)
      /\ IsTable(gdb.table, Ids, GdbBreakpoint)
  BY <1>1, TableFacts DEF Nemiver, Gdb
<1> QED
  BY <1>1, <1>2, <1>3 DEF IInv, Typed, TypeOK, Nemiver, Gdb

LEMMA Inductive == PatientRestarts => (Spec => []IInv)
<1> SUFFICES ASSUME PatientRestarts PROVE Spec => []IInv
  OBVIOUS
<1>1. Init => IInv
  BY Begins, BreakpointsAssumption
<1>2. IInv /\ [Next]_vars => IInv'
  BY Steps, BreakpointsAssumption
<1> QED
  BY <1>1, <1>2, PTL DEF Spec

(* The queue, the cache, the map, the rows and GDB's table are what their  *)
(* declarations in nmv-gdb-engine.cc and nmv-dbg-perspective.cc say.       *)
THEOREM BreakpointsTyped == PatientRestarts => (Spec => []TypeOK)
<1>1. IInv => TypeOK
  BY TypedIsTypeOK
<1> QED
  BY <1>1, Inductive, PTL

(* Once everything is answered the cache of GDBEngine has the breakpoints  *)
(* GDB has, where it has them and enabled as it has them, whatever order   *)
(* answers, =breakpoint-modified, stops and the user's commands came in.   *)
THEOREM CacheAgrees == PatientRestarts => (Spec => []CacheIsGdbs)
<1>1. IInv => CacheIsGdbs
  BY WhenQuiet DEF CacheIsGdbs
<1> QED
  BY <1>1, Inductive, PTL

(* Once everything is answered the map of DBGPerspective is the cache, and *)
(* BreakpointsView has one row for each breakpoint and no other.           *)
THEOREM ViewsAgree == PatientRestarts => (Spec => []ShownIsCached)
<1>1. IInv => ShownIsCached
  BY WhenQuiet DEF ShownIsCached
<1> QED
  BY <1>1, Inductive, PTL
=============================================================================
