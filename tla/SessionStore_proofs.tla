------------------------- MODULE SessionStore_proofs -------------------------
(***************************************************************************)
(* Theorems about the saved sessions, for any number of Nemivers, tables   *)
(* and saves: types, no session made of parts of two saves, no transaction *)
(* left open; and the store, with its statements, its nested transactions, *)
(* its errors and its crashes, implements the table of SessionTable, whose *)
(* operations are atomic.                                                  *)
(***************************************************************************)
EXTENDS SessionStore, FiniteSetTheorems, WellFoundedInduction, TLAPS

(* Sessions and operations whose contents come from one save.              *)
WholeSession   == {s \in Session : OfOneSave(s.content)}
WholeOperation == {o \in Operation : o.op = "store" => OfOneSave(o.content)}

WholeNemiver == [up : BOOLEAN, prog : BOOLEAN, session : Ids \union {0},
                 list : Seq(WholeSession), plan : Seq(WholeOperation),
                 depth : 0..2, left : SUBSET (Tables \union {"sessions"})]

(* A Nemiver by itself: it has a transaction open only while it is at work *)
(* on the store, and numbers a session before it writes its rows.          *)
Closed(s) == s.depth = 0 /\ s.left = {}
Opened(s) ==
    /\ s.depth # 0 /\ s.plan # <<>>
    /\ Head(s.plan).op \in {"clear", "delete", "store"}
    /\ Head(s.plan).op = "store" /\ "sessions" \in s.left => Tables \subseteq s.left

Sound(s) == (s.up \/ s.plan = <<>>) /\ (Closed(s) \/ Opened(s))
Resting(s) == (s.up \/ s.plan = <<>>) /\ Closed(s)

(* Nothing of the operation at hand has been written.                      *)
Fresh(s) == s.left = Writes(Head(s.plan)) /\ s.depth = Nesting(Head(s.plan))

(* The lock is held from the first write of an operation to its end.       *)
Locked(p) ==
    /\ p \in lock => nem[p].depth > 0 /\ \A q \in lock : q = p
    /\ nem[p].depth > 0 => p \in lock \/ Fresh(nem[p])

(* The rows of session id in the draft of Nemiver s: those that are not    *)
(* left to write come from the session it stores.                          *)
Drafted(s, id) ==
    LET o == Head(s.plan) IN
    IF o.op = "store" /\ o.id = id /\ "sessions" \notin s.left
    THEN \A t \in Tables \ s.left : draft.rows[t][id] = o.content[t]
    ELSE OfOneSave([t \in Tables |-> draft.rows[t][id]])

Typed ==
    /\ db \in Database /\ draft \in Database
    /\ lock \subseteq Nemivers
    /\ nem \in [Nemivers -> WholeNemiver]
    /\ saved \in 0..MaxSaves

IInv ==
    /\ Typed
    /\ \A p \in Nemivers : Sound(nem[p])
    /\ \A p \in Nemivers : Locked(p)
    /\ lock = {} => draft = db
    /\ NeverTorn
    /\ \A p \in lock, id \in Ids : Drafted(nem[p], id)

-----------------------------------------------------------------------------
(* Lemmas about data.                                                      *)

(* A sequence over a set is one over a larger set.                         *)
LEMMA SeqMonotonic ==
    ASSUME NEW A, NEW B, A \subseteq B
    PROVE  Seq(A) \subseteq Seq(B)
  OBVIOUS

(* WholeNemiver only narrows the type of the invariant TypeOK.             *)
LEMMA WholeIsNemiver == WholeNemiver \subseteq Nemiver
<1>1. WholeSession \subseteq Session /\ WholeOperation \subseteq Operation
  BY DEF WholeSession, WholeOperation
<1>2. Seq(WholeSession) \subseteq Seq(Session)
  BY <1>1, SeqMonotonic
<1>3. Seq(WholeOperation) \subseteq Seq(Operation)
  BY <1>1, SeqMonotonic
<1> QED
  BY <1>2, <1>3 DEF WholeNemiver, Nemiver

(* Operations other than a store are whole.                                *)
LEMMA PlainOperations ==
    /\ \A id \in Ids : Clear(id) \in WholeOperation /\ Delete(id) \in WholeOperation
    /\ [op |-> "load"] \in WholeOperation /\ [op |-> "quit"] \in WholeOperation
    /\ \A s \in Session : [op |-> "resume", session |-> s] \in WholeOperation
  BY DEF Clear, Delete, WholeOperation, Operation

(* Storing one save under a number, or 0 for a new one, is whole.          *)
LEMMA StoreOperation ==
    ASSUME NEW id \in Ids \union {0}, NEW c \in Contents, OfOneSave(c)
    PROVE  Store(id, c) \in WholeOperation
  BY DEF Store, WholeOperation, Operation

(* A plan of one operation.                                                *)
LEMMA OneOperation ==
    ASSUME NEW o \in WholeOperation
    PROVE  <<o>> \in Seq(WholeOperation)
  OBVIOUS

(* What is loaded is whole, for what is on disk is.                        *)
LEMMA LoadsWhole ==
    ASSUME Typed, NeverTorn
    PROVE  Loads \subseteq Seq(WholeSession)
<1> DEFINE n == Cardinality(db.sessions)
<1>1. n \in Nat
  <2>1. IsFiniteSet(1..MaxSaves) /\ db.sessions \subseteq 1..MaxSaves
    BY FS_Interval, StoreAssumption DEF Typed, Database, Ids
  <2>2. IsFiniteSet(db.sessions)
    BY <2>1, FS_Subset
  <2> QED
    BY <2>2, FS_CardinalityType
<1>2. \A id \in db.sessions : LoadSession(id) \in WholeSession
  <2> SUFFICES ASSUME NEW id \in db.sessions PROVE LoadSession(id) \in WholeSession
    OBVIOUS
  <2>1. id \in Ids
    BY DEF Typed, Database
  <2> DEFINE c == [t \in Tables |-> db.rows[t][id]]
  <2>2. c \in Contents
    BY <2>1 DEF Typed, Database, Contents
  <2>3. OfOneSave(c)
    BY <2>1 DEF NeverTorn
  <2> QED
    BY <2>1, <2>2, <2>3 DEF LoadSession, WholeSession, Session
<1>3. LoadSessions \subseteq [1..n -> WholeSession]
  BY <1>2 DEF LoadSessions
<1>4. [1..n -> WholeSession] \subseteq Seq(WholeSession)
  BY <1>1
<1>5. <<>> \in Seq(WholeSession)
  OBVIOUS
<1> QED
  BY <1>3, <1>4, <1>5 DEF Loads

(* The plan of a purge: a delete for each session of the list.             *)
LEMMA DeletesWhole ==
    ASSUME NEW list \in Seq(WholeSession), NEW n \in 0..Len(list)
    PROVE  [i \in 1..n |-> Delete(list[i].id)] \in Seq(WholeOperation)
<1>1. \A i \in 1..n : list[i] \in WholeSession
  OBVIOUS
<1>2. \A i \in 1..n : Delete(list[i].id) \in WholeOperation
  BY <1>1, PlainOperations DEF WholeSession, Session
<1> QED
  BY <1>2

(* record_and_save_session stores the contents of one save, whatever follows.  *)
LEMMA RecordAndSaveWhole ==
    ASSUME NEW s \in WholeNemiver, saved \in 0..MaxSaves, s.prog => saved < MaxSaves,
           NEW then \in Seq(WholeOperation)
    PROVE  RecordAndSave(s) \o then \in Seq(WholeOperation)
<1> DEFINE n == IF Len(s.list) > KeptSessions THEN Len(s.list) - KeptSessions ELSE 0
           first == IF s.session # 0 THEN <<Clear(s.session)>> ELSE <<>>
           c == [t \in Tables |-> {saved + 1}]
<1>1. CASE s.prog
  <2>1. first \in Seq(WholeOperation)
    BY PlainOperations, OneOperation DEF WholeNemiver
  <2>2. InExcess(s.list) \in Seq(WholeOperation)
    <3>1. s.list \in Seq(WholeSession) /\ n \in 0..Len(s.list)
      BY StoreAssumption DEF WholeNemiver
    <3> HIDE DEF n
    <3>2. [i \in 1..n |-> Delete(s.list[i].id)] \in Seq(WholeOperation)
      BY <3>1, DeletesWhole
    <3> QED
      BY <3>2 DEF InExcess, n
  <2>3. c \in Contents /\ OfOneSave(c)
    BY <1>1, StoreAssumption DEF Contents, OfOneSave
  <2>4. <<Store(s.session, c)>> \in Seq(WholeOperation)
    <3> HIDE DEF c
    <3> QED
      BY <2>3, StoreOperation, OneOperation DEF WholeNemiver
  <2>5. RecordAndSave(s) = (first \o InExcess(s.list)) \o <<Store(s.session, c)>>
    BY <1>1 DEF RecordAndSave
  <2> HIDE DEF first, c
  <2>6. first \o InExcess(s.list) \in Seq(WholeOperation)
    BY <2>1, <2>2
  <2> QED
    BY <2>4, <2>5, <2>6
<1>2. CASE ~s.prog
  <2>1. RecordAndSave(s) = <<>> /\ <<>> \in Seq(WholeOperation)
    BY <1>2 DEF RecordAndSave
  <2> QED
    BY <2>1
<1> QED
  BY <1>1, <1>2 DEF WholeNemiver

-----------------------------------------------------------------------------
(* Steps of a Nemiver that is not at work on the store.                    *)

(* A Nemiver that does not run.                                            *)
LEMMA DownWhole == Down \in WholeNemiver /\ Resting(Down)
<1>1. <<>> \in Seq(WholeSession) /\ <<>> \in Seq(WholeOperation)
  OBVIOUS
<1> QED
  BY <1>1 DEF Down, WholeNemiver, Resting, Closed

Depths == 0..2
Lefts  == SUBSET (Tables \union {"sessions"})

Transact(s, depth, left) == [s EXCEPT !.depth = depth, !.left = left]

(* Transaction::begin and commit touch the stack and what is left to write.  *)
LEMMA Transacted ==
    ASSUME NEW s \in WholeNemiver, NEW depth \in Depths, NEW left \in Lefts
    PROVE  LET r == Transact(s, depth, left) IN
           /\ r \in WholeNemiver /\ r.depth = depth /\ r.left = left
           /\ r.plan = s.plan /\ r.up = s.up
  BY DEF WholeNemiver, Depths, Lefts, Transact

(* A new plan leaves the rest of a Nemiver alone.                          *)
LEMMA Replanned ==
    ASSUME NEW s \in WholeNemiver, NEW plan \in Seq(WholeOperation)
    PROVE  LET r == [s EXCEPT !.plan = plan] IN
           /\ r \in WholeNemiver /\ r.depth = s.depth /\ r.left = s.left
           /\ r.plan = plan /\ r.up = s.up
  BY DEF WholeNemiver

(* The empty database, and no Nemiver.                                     *)
LEMMA InitIInv == Init => IInv
<1> SUFFICES ASSUME Init PROVE IInv
  OBVIOUS
<1> DEFINE empty == [sessions |-> {}, rows |-> [t \in Tables |-> [id \in Ids |-> {}]]]
<1>1. empty \in Database
  BY DEF Database
<1>2. Down \in WholeNemiver /\ Resting(Down)
  BY DownWhole
<1>3. Typed
  BY <1>1, <1>2, StoreAssumption DEF Init, Typed
<1>4. \A p \in Nemivers : Sound(nem[p]) /\ Locked(p)
  BY <1>2 DEF Init, Sound, Locked, Resting, Closed
<1>5. NeverTorn
  BY DEF Init, NeverTorn, OfOneSave
<1>6. lock = {} /\ draft = db
  BY DEF Init
<1> QED
  BY <1>3, <1>4, <1>5, <1>6 DEF IInv

(* What changes is a Nemiver that has no transaction before or after.      *)
LEMMA AtRest ==
    ASSUME IInv, NEW p \in Nemivers, NEW s \in WholeNemiver,
           Resting(nem[p]), Resting(s),
           nem' = [nem EXCEPT ![p] = s],
           UNCHANGED <<db, draft, lock>>, saved' \in 0..MaxSaves
    PROVE  IInv'
<1>1. nem'[p] = s /\ \A q \in Nemivers : q # p => nem'[q] = nem[q]
  BY DEF IInv, Typed
<1>2. Typed'
  BY DEF IInv, Typed
<1>3. p \notin lock
  BY DEF IInv, Locked, Resting, Closed
<1>4. \A q \in Nemivers : Sound(nem[q])'
  <2> SUFFICES ASSUME NEW q \in Nemivers PROVE Sound(nem'[q])
    BY DEF Sound
  <2>1. CASE q = p
    BY <2>1, <1>1 DEF Sound, Resting
  <2>2. CASE q # p
    BY <2>2, <1>1 DEF IInv
  <2> QED
    BY <2>1, <2>2
<1>5. \A q \in Nemivers : Locked(q)'
  <2> SUFFICES ASSUME NEW q \in Nemivers PROVE Locked(q)'
    OBVIOUS
  <2>1. CASE q = p
    BY <2>1, <1>1, <1>3 DEF Locked, Resting, Closed
  <2>2. CASE q # p
    BY <2>2, <1>1 DEF IInv, Locked, Fresh
  <2> QED
    BY <2>1, <2>2
<1>6. (lock = {} => draft = db)' /\ NeverTorn'
  BY DEF IInv, NeverTorn
<1>7. ASSUME NEW q \in lock', NEW id \in Ids PROVE Drafted(nem[q], id)'
  <2>1. q \in lock /\ q \in Nemivers /\ q # p
    BY <1>3, <1>7 DEF IInv, Typed
  <2>2. Drafted(nem[q], id) /\ nem'[q] = nem[q]
    BY <2>1, <1>1 DEF IInv
  <2> QED
    BY <2>2 DEF Drafted
<1> QED
  BY <1>2, <1>4, <1>5, <1>6, <1>7 DEF IInv

(* A Nemiver just started, with any list and plan.                         *)
LEMMA StartedWhole ==
    ASSUME NEW list \in Seq(WholeSession), NEW plan \in Seq(WholeOperation)
    PROVE  LET s == [Down EXCEPT !.up = TRUE, !.list = list, !.plan = plan] IN
           s \in WholeNemiver /\ Resting(s)
<1>1. PICK d \in WholeNemiver : d = Down /\ Resting(d)
  BY DownWhole
<1> DEFINE s == [d EXCEPT !.up = TRUE, !.list = list, !.plan = plan]
<1>2. s \in WholeNemiver /\ Resting(s)
  BY <1>1 DEF WholeNemiver, Resting, Closed
<1>3. s = [Down EXCEPT !.up = TRUE, !.list = list, !.plan = plan]
  BY <1>1
<1> HIDE DEF s
<1> QED
  BY <1>2, <1>3, Zenon

(* do_init loads whole sessions; a purge plans to delete them.             *)
LEMMA StartInv ==
    ASSUME IInv, NEW p \in Nemivers, Start(p)
    PROVE  IInv'
<1>1. PICK purge \in {FALSE, MayPurge}, list \in Loads :
        nem' = [nem EXCEPT ![p] = [Down EXCEPT !.up = TRUE, !.list = list,
            !.plan = IF purge
                     THEN [i \in 1..Len(list) |-> Delete(list[i].id)] \o <<[op |-> "quit"]>>
                     ELSE <<>>]]
  BY DEF Start
<1> DEFINE deletes == [i \in 1..Len(list) |-> Delete(list[i].id)]
           plan == IF purge THEN deletes \o <<[op |-> "quit"]>> ELSE <<>>
           s == [Down EXCEPT !.up = TRUE, !.list = list, !.plan = plan]
<1>2. list \in Seq(WholeSession)
  BY LoadsWhole DEF IInv
<1>3. deletes \in Seq(WholeOperation)
  <2>1. Len(list) \in 0..Len(list)
    BY <1>2
  <2> QED
    BY <1>2, <2>1, DeletesWhole
<1>4. plan \in Seq(WholeOperation)
  <2>1. <<[op |-> "quit"]>> \in Seq(WholeOperation) /\ <<>> \in Seq(WholeOperation)
    BY PlainOperations, OneOperation
  <2> HIDE DEF deletes
  <2> QED
    BY <1>3, <2>1
<1>5. s \in WholeNemiver /\ Resting(s)
  <2> HIDE DEF plan
  <2> QED
    BY <1>2, <1>4, StartedWhole
<1>6. Resting(nem[p])
  BY DEF Start, IInv, Sound, Resting, Closed, Opened
<1>7. nem' = [nem EXCEPT ![p] = s]
  BY <1>1
<1>8. UNCHANGED <<db, draft, lock>> /\ saved' \in 0..MaxSaves
  BY DEF Start, IInv, Typed
<1> HIDE DEF s
<1> QED
  BY <1>5, <1>6, <1>7, <1>8, AtRest

(* A Nemiver that is not at work on the store has no transaction.          *)
LEMMA NotAtWork ==
    ASSUME IInv, NEW p \in Nemivers,
           nem[p].plan = <<>> \/ Head(nem[p].plan).op \notin {"clear", "delete", "store"}
    PROVE  Resting(nem[p]) /\ nem[p] \in WholeNemiver
  BY DEF IInv, Sound, Typed, Resting, Closed, Opened

(* execute_program forgets the session resumed.                            *)
LEMMA ExecuteProgramInv ==
    ASSUME IInv, NEW p \in Nemivers, ExecuteProgram(p)
    PROVE  IInv'
<1> DEFINE s == [nem[p] EXCEPT !.prog = TRUE, !.session = 0]
<1>1. Resting(nem[p]) /\ nem[p] \in WholeNemiver
  BY NotAtWork DEF ExecuteProgram, Ready
<1>2. s \in WholeNemiver /\ Resting(s)
  BY <1>1 DEF WholeNemiver, Resting, Closed, ExecuteProgram, Ready
<1>3. nem' = [nem EXCEPT ![p] = s]
  BY DEF ExecuteProgram
<1>4. UNCHANGED <<db, draft, lock>> /\ saved' \in 0..MaxSaves
  BY DEF ExecuteProgram, IInv, Typed
<1> HIDE DEF s
<1> QED
  BY <1>1, <1>2, <1>3, <1>4, AtRest

(* Saving plans operations, and writes nothing yet.                        *)
LEMMA SaveAndInv ==
    ASSUME IInv, NEW p \in Nemivers, NEW then \in Seq(WholeOperation), SaveAnd(p, then)
    PROVE  IInv'
<1> DEFINE plan == RecordAndSave(nem[p]) \o then
           s == [nem[p] EXCEPT !.plan = plan]
<1>1. Resting(nem[p]) /\ nem[p] \in WholeNemiver
  BY NotAtWork DEF SaveAnd, Ready
<1>2. plan \in Seq(WholeOperation)
  BY <1>1, RecordAndSaveWhole DEF SaveAnd, IInv, Typed
<1>3. nem' = [nem EXCEPT ![p] = s]
  BY DEF SaveAnd
<1>4. s \in WholeNemiver /\ Resting(s)
  <2> HIDE DEF plan
  <2> QED
    BY <1>1, <1>2 DEF WholeNemiver, Resting, Closed, SaveAnd, Ready
<1>5. UNCHANGED <<db, draft, lock>> /\ saved' \in 0..MaxSaves
  BY StoreAssumption DEF SaveAnd, IInv, Typed
<1> HIDE DEF s
<1> QED
  BY <1>1, <1>3, <1>4, <1>5, AtRest

(* The three ways to save: on demand, before resuming, on shutdown.        *)
LEMMA SavesInv ==
    ASSUME IInv, NEW p \in Nemivers,
           SaveCurrentSession(p) \/ OnShutdown(p) \/ ExecuteSession(p)
    PROVE  IInv'
<1>1. CASE SaveCurrentSession(p)
  <2>1. <<>> \in Seq(WholeOperation)
    OBVIOUS
  <2> QED
    BY <1>1, <2>1, SaveAndInv DEF SaveCurrentSession
<1>2. CASE OnShutdown(p)
  <2>1. <<[op |-> "quit"]>> \in Seq(WholeOperation)
    BY PlainOperations, OneOperation
  <2> QED
    BY <1>2, <2>1, SaveAndInv DEF OnShutdown
<1>3. CASE ExecuteSession(p)
  <2>1. PICK i \in 1..Len(nem[p].list) :
          SaveAnd(p, <<[op |-> "resume", session |-> nem[p].list[i]]>>)
    BY <1>3 DEF ExecuteSession
  <2>2. nem[p].list[i] \in Session
    <3>1. nem[p].list \in Seq(WholeSession)
      BY DEF IInv, Typed, WholeNemiver
    <3> QED
      BY <3>1 DEF WholeSession
  <2>3. <<[op |-> "resume", session |-> nem[p].list[i]]>> \in Seq(WholeOperation)
    BY <2>2, PlainOperations, OneOperation
  <2> QED
    BY <2>1, <2>3, SaveAndInv
<1> QED
  BY <1>1, <1>2, <1>3

(* on_session_name_edited plans to store a session as it was loaded.       *)
LEMMA RenameInv ==
    ASSUME IInv, NEW p \in Nemivers, Rename(p)
    PROVE  IInv'
<1>1. PICK i \in 1..Len(nem[p].list) : nem' = [nem EXCEPT ![p].plan =
            <<Store(nem[p].list[i].id, nem[p].list[i].content), [op |-> "load"]>>]
  BY DEF Rename
<1> DEFINE store == Store(nem[p].list[i].id, nem[p].list[i].content)
           plan == <<store, [op |-> "load"]>>
           s == [nem[p] EXCEPT !.plan = plan]
<1>2. Resting(nem[p]) /\ nem[p] \in WholeNemiver
  BY NotAtWork DEF Rename, Ready
<1>3. store \in WholeOperation
  <2>1. nem[p].list[i] \in WholeSession
    BY <1>2 DEF WholeNemiver
  <2> QED
    BY <2>1, StoreOperation DEF WholeSession, Session
<1>4. plan \in Seq(WholeOperation)
  <2> HIDE DEF store
  <2> QED
    BY <1>3, PlainOperations
<1>5. nem' = [nem EXCEPT ![p] = s]
  BY <1>1
<1>6. s \in WholeNemiver /\ Resting(s)
  <2> HIDE DEF plan
  <2> QED
    BY <1>2, <1>4 DEF WholeNemiver, Resting, Closed, Rename, Ready
<1>7. UNCHANGED <<db, draft, lock>> /\ saved' \in 0..MaxSaves
  BY DEF Rename, IInv, Typed
<1> HIDE DEF s
<1> QED
  BY <1>2, <1>5, <1>6, <1>7, AtRest

(* The steps of the perspective between two operations.                    *)
LEMMA FollowUpsInv ==
    ASSUME IInv, NEW p \in Nemivers, Load(p) \/ Resume(p) \/ Quit(p)
    PROVE  IInv'
<1>1. Resting(nem[p]) /\ nem[p] \in WholeNemiver
  BY NotAtWork DEF Load, Resume, Quit, Doing
<1>2. nem[p].plan \in Seq(WholeOperation) /\ nem[p].plan # <<>> /\ nem[p].up
  BY <1>1 DEF Load, Resume, Quit, Doing, WholeNemiver, Resting
<1>3. Tail(nem[p].plan) \in Seq(WholeOperation) /\ Head(nem[p].plan) \in WholeOperation
  BY <1>2
<1>4. UNCHANGED <<db, draft, lock>> /\ saved' \in 0..MaxSaves
  BY DEF Load, Resume, Quit, Done, IInv, Typed
<1>5. \E s \in WholeNemiver : /\ Resting(s)
                             /\ nem' = [nem EXCEPT ![p] = s]
  <2>1. CASE Load(p)
    <3>1. PICK list \in Loads :
            nem' = [nem EXCEPT ![p] = [nem[p] EXCEPT !.plan = Tail(@), !.list = list]]
      BY <2>1 DEF Load, Done
    <3>2. list \in Seq(WholeSession)
      BY LoadsWhole DEF IInv
    <3> DEFINE s == [nem[p] EXCEPT !.plan = Tail(@), !.list = list]
    <3>3. s \in WholeNemiver /\ Resting(s)
      BY <1>1, <1>2, <1>3, <3>2 DEF WholeNemiver, Resting, Closed
    <3> QED
      BY <3>1, <3>3
  <2>2. CASE Resume(p)
    <3> DEFINE r == Head(nem[p].plan).session
               s == [nem[p] EXCEPT !.plan = Tail(@), !.session = r.id,
                                   !.prog = @ \/ r.content["attributes"] # {}]
    <3>1. r.id \in Ids
      BY <2>2, <1>3 DEF Resume, Doing, WholeOperation, Operation, Session
    <3>2. (nem[p].prog \/ r.content["attributes"] # {}) \in BOOLEAN
      OBVIOUS
    <3>3. s \in WholeNemiver /\ Resting(s)
      BY <1>1, <1>2, <1>3, <3>1, <3>2 DEF WholeNemiver, Resting, Closed
    <3>4. nem' = [nem EXCEPT ![p] = s]
      BY <2>2 DEF Resume, Done
    <3> QED
      BY <3>3, <3>4
  <2>3. CASE Quit(p)
    BY <2>3, DownWhole DEF Quit, Done
  <2> QED
    BY <2>1, <2>2, <2>3
<1> QED
  BY <1>1, <1>4, <1>5, AtRest

-----------------------------------------------------------------------------
(* Operations given up.                                                    *)

(* Transaction::rollback: the draft is what is on disk again.              *)
LEMMA GivenUp ==
    ASSUME IInv, NEW p \in Nemivers, NEW s \in WholeNemiver, Resting(s),
           nem' = [nem EXCEPT ![p] = s], Rollback(p), UNCHANGED <<db, saved>>
    PROVE  IInv'
<1>1. nem'[p] = s /\ \A q \in Nemivers : q # p => nem'[q] = nem[q]
  BY DEF IInv, Typed
<1>2. /\ lock' \subseteq lock /\ p \notin lock' /\ draft' \in {db, draft}
      /\ lock' # {} => lock' = lock /\ draft' = draft
      /\ lock' = {} => draft' = db
      /\ \A q \in Nemivers : q # p /\ q \in lock => q \in lock'
  BY DEF Rollback, IInv, Locked, Typed
<1>3. Typed'
  BY <1>2 DEF IInv, Typed
<1>4. \A q \in Nemivers : Sound(nem[q])'
  <2> SUFFICES ASSUME NEW q \in Nemivers PROVE Sound(nem'[q])
    BY DEF Sound
  <2>1. CASE q = p
    BY <2>1, <1>1 DEF Sound, Resting
  <2>2. CASE q # p
    BY <2>2, <1>1 DEF IInv
  <2> QED
    BY <2>1, <2>2
<1>5. \A q \in Nemivers : Locked(q)'
  <2> SUFFICES ASSUME NEW q \in Nemivers PROVE Locked(q)'
    OBVIOUS
  <2>1. CASE q = p
    BY <2>1, <1>1, <1>2 DEF Locked, Resting, Closed
  <2>2. CASE q # p
    BY <2>2, <1>1, <1>2 DEF IInv, Locked, Fresh
  <2> QED
    BY <2>1, <2>2
<1>6. NeverTorn'
  BY DEF IInv, NeverTorn
<1>7. ASSUME NEW q \in lock', NEW id \in Ids PROVE Drafted(nem[q], id)'
  <2>1. q \in lock /\ q \in Nemivers /\ q # p /\ draft' = draft
    BY <1>2, <1>7 DEF IInv, Typed
  <2>2. Drafted(nem[q], id) /\ nem'[q] = nem[q]
    BY <2>1, <1>1 DEF IInv
  <2> QED
    BY <2>1, <2>2 DEF Drafted
<1> QED
  BY <1>2, <1>3, <1>4, <1>5, <1>6, <1>7 DEF IInv

(* An exception: TransactionAutoHelper rolls back and empties the stack.   *)
LEMMA FailInv ==
    ASSUME IInv, NEW p \in Nemivers, Fail(p)
    PROVE  IInv'
<1> DEFINE n == nem[p]
           r == [n EXCEPT !.plan = <<>>]
           s == [r EXCEPT !.depth = 0, !.left = {}]
<1>1. n \in WholeNemiver
  BY DEF IInv, Typed
<1>2. <<>> \in Seq(WholeOperation)
  OBVIOUS
<1> HIDE DEF n
<1>3. r \in WholeNemiver /\ r.plan = <<>>
  BY <1>1, <1>2, Replanned
<1> HIDE DEF r
<1>4. 0 \in Depths /\ {} \in Lefts
  BY DEF Depths, Lefts
<1>5. s = Transact(r, 0, {})
  BY DEF Transact
<1> HIDE DEF s
<1>6. s \in WholeNemiver /\ s.depth = 0 /\ s.left = {} /\ s.plan = r.plan
  BY <1>3, <1>4, <1>5, Transacted
<1>7. Resting(s)
  BY <1>3, <1>6 DEF Resting, Closed
<1>8. Throw(nem[p]) = s
  BY <1>1 DEF Throw, s, r, n, WholeNemiver
<1>9. \/ nem' = [nem EXCEPT ![p] = Down]
      \/ nem' = [nem EXCEPT ![p] = s]
  BY <1>8 DEF Fail
<1>10. Rollback(p) /\ UNCHANGED <<db, saved>>
  BY DEF Fail
<1> QED
  BY <1>6, <1>7, <1>9, <1>10, DownWhole, GivenUp

(* A Nemiver dies at any step.                                             *)
LEMMA CrashInv ==
    ASSUME IInv, NEW p \in Nemivers, Crash(p)
    PROVE  IInv'
  BY DownWhole, GivenUp DEF Crash

-----------------------------------------------------------------------------
(* Operations that go on.                                                  *)

(* The lock stays as it is, and so does what the Nemiver that goes on has  *)
(* drafted.                                                                *)
LEMMA GoesOn ==
    ASSUME IInv, NEW p \in Nemivers, NEW s \in WholeNemiver, Sound(s),
           s.depth > 0, p \in lock \/ Fresh(s),
           s.plan = nem[p].plan, p \in lock => s.left = nem[p].left,
           p \in lock => nem[p].depth > 0,
           nem' = [nem EXCEPT ![p] = s], UNCHANGED <<db, draft, lock, saved>>
    PROVE  IInv'
<1>1. nem'[p] = s /\ \A q \in Nemivers : q # p => nem'[q] = nem[q]
  BY DEF IInv, Typed
<1>2. Typed'
  BY DEF IInv, Typed
<1>3. \A q \in Nemivers : Sound(nem[q])'
  <2> SUFFICES ASSUME NEW q \in Nemivers PROVE Sound(nem'[q])
    BY DEF Sound, Closed, Opened
  <2> QED
    BY <1>1 DEF IInv
<1>4. \A q \in Nemivers : Locked(q)'
  <2> SUFFICES ASSUME NEW q \in Nemivers PROVE Locked(q)'
    OBVIOUS
  <2>1. CASE q = p
    BY <2>1, <1>1 DEF IInv, Locked, Fresh
  <2>2. CASE q # p
    BY <2>2, <1>1 DEF IInv, Locked, Fresh
  <2> QED
    BY <2>1, <2>2
<1>5. (lock = {} => draft = db)' /\ NeverTorn'
  BY DEF IInv, NeverTorn
<1>6. ASSUME NEW q \in lock', NEW id \in Ids PROVE Drafted(nem[q], id)'
  <2>1. q \in lock /\ q \in Nemivers /\ Drafted(nem[q], id)
    BY <1>6 DEF IInv, Typed
  <2>2. nem'[q].plan = nem[q].plan /\ nem'[q].left = nem[q].left
    BY <2>1, <1>1
  <2> QED
    BY <2>1, <2>2 DEF Drafted
<1> QED
  BY <1>2, <1>3, <1>4, <1>5, <1>6 DEF IInv

(* Transaction::begin                                                      *)
LEMMA BeginInv ==
    ASSUME IInv, NEW p \in Nemivers, Begin(p)
    PROVE  IInv'
<1> DEFINE o == Head(nem[p].plan)
           s == [nem[p] EXCEPT !.depth = Nesting(o), !.left = Writes(o)]
<1>1. nem[p] \in WholeNemiver /\ nem[p].plan # <<>> /\ nem[p].depth = 0 /\ nem[p].left = {}
      /\ o.op \in {"clear", "delete", "store"}
  BY DEF Begin, Doing, IInv, Typed
<1>2. nem' = [nem EXCEPT ![p] = s] /\ UNCHANGED <<db, draft, lock, saved>>
  BY DEF Begin
<1>3. Nesting(o) \in {1, 2}
  BY DEF Nesting
<1>4. Writes(o) \subseteq Tables \union {"sessions"}
  BY <1>1, StoreAssumption DEF Writes
<1>5. o.op = "store" /\ "sessions" \in Writes(o) => Tables \subseteq Writes(o)
  BY StoreAssumption DEF Writes
<1>6. Nesting(o) \in Depths /\ Writes(o) \in Lefts
  BY <1>3, <1>4 DEF Depths, Lefts
<1>7. s = Transact(nem[p], Nesting(o), Writes(o))
  BY DEF Transact
<1> HIDE DEF s
<1>8. /\ s \in WholeNemiver /\ s.depth = Nesting(o) /\ s.left = Writes(o)
      /\ s.plan = nem[p].plan /\ s.up = nem[p].up
  BY <1>1, <1>6, <1>7, Transacted
<1>9. nem[p].up /\ p \notin lock
  BY <1>1 DEF IInv, Sound, Locked
<1> HIDE DEF s
<1>10. Sound(s) /\ Fresh(s) /\ s.depth > 0
  BY <1>1, <1>3, <1>5, <1>8, <1>9 DEF Sound, Opened, Fresh
<1> QED
  BY <1>2, <1>8, <1>9, <1>10, GoesOn

(* A transaction that has less than all of its writes to do has the lock.  *)
LEMMA WriterLocks ==
    ASSUME IInv, NEW p \in Nemivers, nem[p].depth > 0,
           nem[p].left \subseteq {"sessions"}
    PROVE  p \in lock /\ Opened(nem[p])
<1>1. Opened(nem[p])
  BY DEF IInv, Sound, Closed
<1>2. "attributes" \in Writes(Head(nem[p].plan)) /\ "attributes" # "sessions"
  BY <1>1, StoreAssumption DEF Writes, Opened
<1> QED
  BY <1>1, <1>2 DEF IInv, Locked, Fresh

(* Transaction::commit of the inner transaction of delete_session.         *)
LEMMA CommitInnerInv ==
    ASSUME IInv, NEW p \in Nemivers, CommitInner(p)
    PROVE  IInv'
<1> DEFINE s == [nem[p] EXCEPT !.depth = 1]
<1>1. nem[p] \in WholeNemiver
  BY DEF IInv, Typed
<1>2. nem[p].depth > 0 /\ nem[p].left = {"sessions"}
  BY DEF CommitInner
<1>3. p \in lock /\ Opened(nem[p])
  BY <1>2, WriterLocks
<1>4. nem' = [nem EXCEPT ![p] = s] /\ UNCHANGED <<db, draft, lock, saved>>
  BY DEF CommitInner
<1>5. s \in WholeNemiver
  BY <1>1 DEF WholeNemiver
<1>6. /\ s.depth = 1 /\ s.left = nem[p].left
      /\ s.plan = nem[p].plan /\ s.up = nem[p].up
  BY <1>1 DEF WholeNemiver
<1> HIDE DEF s
<1>7. Sound(s) /\ s.depth > 0
  BY <1>3, <1>6 DEF IInv, Sound, Opened
<1> QED
  BY <1>2, <1>3, <1>4, <1>5, <1>6, <1>7, GoesOn

(* Transaction::commit: what was drafted, now complete, is on disk.        *)
LEMMA CommitInv ==
    ASSUME IInv, NEW p \in Nemivers, Commit(p)
    PROVE  IInv'
<1> DEFINE o == Head(nem[p].plan)
           r == [nem[p] EXCEPT !.plan = Tail(nem[p].plan)]
           s == [r EXCEPT !.depth = 0, !.left = nem[p].left]
<1>1. nem[p] \in WholeNemiver
  BY DEF IInv, Typed
<1>2. nem[p].depth > 0 /\ nem[p].left = {}
  BY DEF Commit
<1>3. p \in lock /\ Opened(nem[p])
  BY <1>2, WriterLocks
<1>4. nem[p].plan \in Seq(WholeOperation) /\ nem[p].plan # <<>> /\ nem[p].up
  BY <1>1, <1>3 DEF WholeNemiver, Opened, IInv, Sound
<1>5. o \in WholeOperation /\ Tail(nem[p].plan) \in Seq(WholeOperation)
  BY <1>4
<1>6. /\ r \in WholeNemiver /\ r.up = nem[p].up
  BY <1>1, <1>5, Replanned, Zenon
<1> HIDE DEF r
<1>7. s \in WholeNemiver /\ Resting(s)
  <2>1. 0 \in Depths /\ nem[p].left \in Lefts
    BY <1>1 DEF WholeNemiver, Depths, Lefts
  <2>2. s = Transact(r, 0, nem[p].left)
    BY DEF Transact
  <2> HIDE DEF s
  <2>3. s \in WholeNemiver /\ s.depth = 0 /\ s.left = nem[p].left /\ s.up = r.up
    BY <1>6, <2>1, <2>2, Transacted
  <2> QED
    BY <2>3, <1>2, <1>4, <1>6 DEF Resting, Closed
<1> HIDE DEF s
<1>8. nem' = [nem EXCEPT ![p] = s] /\ db' = draft /\ lock' = {} /\ UNCHANGED <<draft, saved>>
  <2>1. s = [nem[p] EXCEPT !.depth = 0, !.plan = Tail(@)]
    BY <1>1 DEF s, r, WholeNemiver
  <2> QED
    BY <2>1 DEF Commit
<1>9. nem'[p] = s /\ \A q \in Nemivers : q # p => nem'[q] = nem[q]
  BY <1>8 DEF IInv, Typed
<1>10. Typed'
  BY <1>7, <1>8 DEF IInv, Typed
<1>11. \A q \in Nemivers : Sound(nem[q])'
  <2> SUFFICES ASSUME NEW q \in Nemivers PROVE Sound(nem'[q])
    BY DEF Sound, Closed, Opened
  <2> QED
    BY <1>7, <1>9 DEF IInv, Sound, Resting
<1>12. \A q \in Nemivers : Locked(q)'
  <2> SUFFICES ASSUME NEW q \in Nemivers PROVE Locked(q)'
    OBVIOUS
  <2>1. CASE q = p
    BY <2>1, <1>7, <1>8, <1>9 DEF Locked, Resting, Closed
  <2>2. CASE q # p
    BY <2>2, <1>3, <1>8, <1>9 DEF IInv, Locked, Fresh
  <2> QED
    BY <2>1, <2>2
<1>13. NeverTorn'
  <2> SUFFICES ASSUME NEW id \in Ids
               PROVE  OfOneSave([t \in Tables |-> draft.rows[t][id]])
    BY <1>8 DEF NeverTorn
  <2>1. Drafted(nem[p], id)
    BY <1>3 DEF IInv
  <2>2. CASE o.op = "store" /\ o.id = id
    <3>1. \A t \in Tables : draft.rows[t][id] = o.content[t]
      BY <2>1, <2>2, <1>2 DEF Drafted
    <3>2. OfOneSave(o.content)
      BY <2>2, <1>5 DEF WholeOperation
    <3> QED
      BY <3>1, <3>2 DEF OfOneSave
  <2>3. CASE ~(o.op = "store" /\ o.id = id)
    BY <2>1, <2>3 DEF Drafted
  <2> QED
    BY <2>2, <2>3
<1> QED
  BY <1>8, <1>10, <1>11, <1>12, <1>13 DEF IInv

(* Before the first write of an operation the draft is what is on disk.    *)
LEMMA DraftedBefore ==
    ASSUME IInv, NEW p \in Nemivers, nem[p].depth > 0, lock \subseteq {p}, NEW id \in Ids
    PROVE  Drafted(nem[p], id)
<1>1. CASE p \in lock
  BY <1>1 DEF IInv
<1>2. CASE p \notin lock
  <2>1. draft = db /\ Fresh(nem[p])
    BY <1>2 DEF IInv, Locked
  <2>2. OfOneSave([t \in Tables |-> draft.rows[t][id]])
    BY <2>1 DEF IInv, NeverTorn
  <2>3. ASSUME Head(nem[p].plan).op = "store", "sessions" \notin nem[p].left
        PROVE  nem[p].left = Tables
    BY <2>1, <2>3, StoreAssumption DEF Fresh, Writes
  <2> QED
    BY <2>2, <2>3 DEF Drafted
<1> QED
  BY <1>1, <1>2

(* A statement writes the line or the rows of one session.                 *)
LEMMA WrittenTyped ==
    ASSUME NEW d \in Database, NEW o \in WholeOperation,
           NEW t \in Tables \union {"sessions"},
           o.op \in {"clear", "delete", "store"},
           o.op = "store" /\ t = "sessions" => NewId(d) \in Ids
    PROVE  Written(o, t, d) \in Database
<1>1. CASE o.op = "store" /\ t = "sessions"
  BY <1>1 DEF Written, Database
<1>2. CASE o.op = "store" /\ t # "sessions"
  <2>1. o.content \in Contents
    BY <1>2 DEF WholeOperation, Operation
  <2> QED
    BY <1>2, <2>1 DEF Written, Stored, Database, Contents
<1>3. CASE o.op = "delete" /\ t = "sessions"
  BY <1>3 DEF Written, Database
<1>4. CASE o.op # "store" /\ ~(o.op = "delete" /\ t = "sessions")
  BY <1>4 DEF Written, Database
<1> QED
  BY <1>1, <1>2, <1>3, <1>4

(* What is drafted stays whole, statement by statement.                    *)
LEMMA StatementDrafted ==
    ASSUME NEW d \in Database, NEW e \in Database, NEW o \in WholeOperation,
           NEW left \in Lefts, NEW t \in left, NEW id \in Ids,
           o.op \in {"clear", "delete"}, e = Written(o, t, d),
           OfOneSave([u \in Tables |-> d.rows[u][id]])
    PROVE  OfOneSave([u \in Tables |-> e.rows[u][id]])
<1>1. CASE o.op = "delete" /\ t = "sessions"
  BY <1>1 DEF Written, Database
<1>2. CASE ~(o.op = "delete" /\ t = "sessions")
  <2>1. \A u \in Tables : e.rows[u][id] \in {{}, d.rows[u][id]}
    BY <1>2 DEF Written, Database
  <2> QED
    BY <2>1 DEF OfOneSave
<1> QED
  BY <1>1, <1>2

(* execute_statement                                                       *)
LEMMA ExecuteInv ==
    ASSUME IInv, NEW p \in Nemivers, NEW t \in Tables \union {"sessions"}, Execute(p, t)
    PROVE  IInv'
<1> DEFINE n == nem[p]
           o == Head(n.plan)
           numbered == o.op = "store" /\ t = "sessions"
           o2 == IF numbered THEN [o EXCEPT !.id = NewId(draft)] ELSE o
           plan == [n.plan EXCEPT ![1] = o2]
           r == [n EXCEPT !.plan = plan]
           rest == n.left \ {t}
           s == Transact(r, n.depth, rest)
<1>1. n \in WholeNemiver /\ n.depth > 0 /\ Opened(n) /\ n.up
  BY DEF Execute, IInv, Typed, Sound, Closed, Opened
<1>2. n.plan \in Seq(WholeOperation) /\ n.plan # <<>> /\ n.depth \in Depths /\ n.left \in Lefts
  BY <1>1 DEF WholeNemiver, Opened, Depths, Lefts
<1>3. o \in WholeOperation /\ n.plan[1] = o /\ 1 \in DOMAIN n.plan
  BY <1>2
<1>4. o.op \in {"clear", "delete", "store"} /\ t \in n.left
  BY <1>1 DEF Opened, Execute
<1>5. numbered => NewId(draft) \in Ids
  BY <1>2 DEF Execute, Doing
<1>6. /\ draft' = Written(o, t, draft) /\ lock \subseteq {p} /\ lock' = {p}
      /\ UNCHANGED <<db, saved>>
      /\ nem' = [nem EXCEPT ![p].left = @ \ {t}, ![p].plan[1] = o2]
  BY <1>3 DEF Execute
<1>7. o2 \in WholeOperation /\ o2.op = o.op
  BY <1>3, <1>5 DEF WholeOperation, Operation
<1>8. nem' = [nem EXCEPT ![p] = s]
  BY <1>1, <1>6 DEF Transact, WholeNemiver, IInv, Typed
<1> HIDE DEF o2
<1>9. plan \in Seq(WholeOperation) /\ plan # <<>> /\ Head(plan) = o2
  BY <1>2, <1>3, <1>7
<1> HIDE DEF plan
<1>10. r \in WholeNemiver /\ r.plan = plan /\ r.up = n.up
  BY <1>1, <1>9, Replanned, Zenon
<1>11. rest \in Lefts
  BY <1>2 DEF Lefts
<1> HIDE DEF r
<1>12. s = Transact(r, n.depth, rest)
  OBVIOUS
<1> HIDE DEF s
<1>13. /\ s \in WholeNemiver /\ s.depth = n.depth /\ s.left = n.left \ {t}
       /\ s.plan = plan /\ s.up = n.up
  <2>1. /\ s \in WholeNemiver /\ s.depth = n.depth /\ s.left = rest
        /\ s.plan = r.plan /\ s.up = r.up
    <3> HIDE DEF n, rest
    <3> QED
      BY <1>2, <1>10, <1>11, <1>12, Transacted
  <2> QED
    BY <2>1, <1>10
<1>14. nem'[p] = s /\ \A q \in Nemivers : q # p => nem'[q] = nem[q]
  BY <1>8 DEF IInv, Typed
<1>15. o.op = "store" => "sessions" \notin s.left /\ (t # "sessions" => "sessions" \notin n.left)
  BY <1>13 DEF Execute, InTurn
<1>16. draft' \in Database
  BY <1>3, <1>4, <1>5, <1>6, WrittenTyped DEF IInv, Typed
<1>17. Typed'
  <2>1. nem \in [Nemivers -> WholeNemiver] /\ s \in WholeNemiver
    BY <1>13 DEF IInv, Typed
  <2>2. nem' \in [Nemivers -> WholeNemiver]
    <3> HIDE DEF WholeNemiver
    <3> QED
      BY <1>8, <2>1
  <2>3. lock' \subseteq Nemivers /\ db' \in Database /\ saved' \in 0..MaxSaves
    BY <1>6 DEF IInv, Typed
  <2> QED
    BY <1>16, <2>2, <2>3 DEF Typed
<1>18. \A q \in Nemivers : Sound(nem[q])'
  <2> SUFFICES ASSUME NEW q \in Nemivers PROVE Sound(nem'[q])
    BY DEF Sound, Closed, Opened
  <2>1. Sound(s)
    BY <1>1, <1>4, <1>7, <1>9, <1>13, <1>15 DEF Sound, Opened
  <2> QED
    BY <2>1, <1>14 DEF IInv
<1>19. \A q \in Nemivers : Locked(q)'
  <2> SUFFICES ASSUME NEW q \in Nemivers PROVE Locked(q)'
    OBVIOUS
  <2>1. CASE q = p
    BY <2>1, <1>1, <1>6, <1>13, <1>14 DEF Locked
  <2>2. CASE q # p
    BY <2>2, <1>6, <1>14 DEF IInv, Locked, Fresh
  <2> QED
    BY <2>1, <2>2
<1>20. NeverTorn'
  BY <1>6 DEF IInv, NeverTorn
<1>21. Head(nem'[p].plan) = o2 /\ nem'[p].left = s.left
  BY <1>9, <1>13, <1>14
<1>22. ASSUME NEW id \in Ids PROVE Drafted(nem[p], id)'
  <2>1. Drafted(n, id)
    BY <1>1, <1>6, DraftedBefore
  <2>2. CASE o.op # "store"
    <3>1. OfOneSave([u \in Tables |-> draft.rows[u][id]])
      BY <2>1, <2>2 DEF Drafted
    <3>2. OfOneSave([u \in Tables |-> draft'.rows[u][id]])
      BY <3>1, <2>2, <1>2, <1>3, <1>4, <1>6, <1>16, StatementDrafted DEF IInv, Typed
    <3> QED
      BY <3>2, <2>2, <1>7, <1>21 DEF Drafted
  <2>3. CASE numbered
    <3>1. draft'.rows = draft.rows
      BY <2>3, <1>6 DEF Written, IInv, Typed, Database
    <3>2. OfOneSave([u \in Tables |-> draft.rows[u][id]])
      BY <2>1, <2>3, <1>4 DEF Drafted
    <3>3. Tables \subseteq s.left
      BY <2>3, <1>1, <1>4, <1>13, StoreAssumption DEF Opened
    <3> QED
      BY <3>1, <3>2, <3>3, <1>21 DEF Drafted
  <2>4. CASE o.op = "store" /\ t # "sessions"
    <3>1. o2 = o /\ "sessions" \notin n.left /\ "sessions" \notin s.left
      BY <2>4, <1>15 DEF o2
    <3>2. t \in Tables /\ draft' = [draft EXCEPT !.rows[t][o.id] = o.content[t]]
      BY <2>4, <1>6 DEF Written, Stored
    <3>3. CASE o.id = id
      <4>1. \A u \in Tables \ n.left : draft.rows[u][id] = o.content[u]
        BY <3>1, <3>3, <2>1, <2>4 DEF Drafted
      <4>2. \A u \in Tables \ s.left : draft'.rows[u][id] = o.content[u]
        BY <4>1, <3>2, <3>3, <1>13 DEF IInv, Typed, Database
      <4> QED
        BY <4>2, <3>1, <3>3, <2>4, <1>21 DEF Drafted
    <3>4. CASE o.id # id
      <4>1. OfOneSave([u \in Tables |-> draft.rows[u][id]])
        BY <3>4, <2>1 DEF Drafted
      <4>2. [u \in Tables |-> draft'.rows[u][id]] = [u \in Tables |-> draft.rows[u][id]]
        BY <3>2, <3>4 DEF IInv, Typed, Database
      <4> QED
        BY <4>1, <4>2, <3>1, <3>4, <1>21 DEF Drafted
    <3> QED
      BY <3>3, <3>4
  <2> QED
    BY <2>2, <2>3, <2>4
<1> QED
  <2>1. \A q \in lock', id \in Ids : Drafted(nem[q], id)'
    BY <1>6, <1>22
  <2> QED
    BY <2>1, <1>6, <1>17, <1>18, <1>19, <1>20 DEF IInv

-----------------------------------------------------------------------------
(* Every step preserves the inductive invariant.                           *)
LEMMA NextInv == IInv /\ [Next]_vars => IInv'
<1> SUFFICES ASSUME IInv, [Next]_vars PROVE IInv'
  OBVIOUS
<1>1. CASE UNCHANGED vars
  BY <1>1 DEF vars, IInv, Typed, Sound, Closed, Opened, Locked, Fresh, NeverTorn, Drafted
<1>2. CASE Next
  <2>1. PICK p \in Nemivers :
          \/ Start(p) \/ ExecuteProgram(p) \/ SaveCurrentSession(p) \/ OnShutdown(p)
          \/ ExecuteSession(p) \/ Rename(p)
          \/ Begin(p) \/ (\E t \in Tables \union {"sessions"} : Execute(p, t))
          \/ CommitInner(p) \/ Commit(p) \/ Fail(p)
          \/ Load(p) \/ Resume(p) \/ Quit(p) \/ Crash(p)
    BY <1>2 DEF Next
  <2> QED
    BY <2>1, StartInv, ExecuteProgramInv, SavesInv, RenameInv, BeginInv, ExecuteInv,
       CommitInnerInv, CommitInv, FailInv, FollowUpsInv, CrashInv
<1> QED
  BY <1>1, <1>2

(* The inductive invariant.                                                *)
THEOREM Inductive == Spec => []IInv
<1> QED
  BY InitIInv, NextInv, PTL DEF Spec

(* The types: every operation of SessMgr leaves a database and an instance *)
(* of the shape the others expect.                                         *)
THEOREM TypesHold == Spec => []TypeOK
<1>1. IInv => TypeOK
  <2> SUFFICES ASSUME IInv PROVE TypeOK
    OBVIOUS
  <2>1. nem \in [Nemivers -> Nemiver]
    BY WholeIsNemiver DEF IInv, Typed
  <2> QED
    BY <2>1 DEF IInv, Typed, TypeOK
<1> QED
  BY <1>1, Inductive, PTL

(* No session on disk is made of parts of two saves, whichever statement   *)
(* fails and whichever Nemiver dies: Transaction and TransactionAutoHelper *)
(* make clear_session, store_session and delete_session atomic.            *)
THEOREM SessionsAreWhole == Spec => []NeverTorn
<1>1. IInv => NeverTorn
  BY DEF IInv
<1> QED
  BY <1>1, Inductive, PTL

(* A Nemiver that is not at work on the store has left no transaction open *)
(* and holds no lock: commit and rollback empty the transaction's stack.   *)
THEOREM NothingStaysOpen == Spec => []NothingLeftOpen
<1>1. IInv => NothingLeftOpen
  BY DEF IInv, NothingLeftOpen, Sound, Closed, Opened, Locked
<1> QED
  BY <1>1, Inductive, PTL

-----------------------------------------------------------------------------
(* The store implements the table.                                         *)

(* The database d is what operation o makes of the database d0, but for    *)
(* the tables left to write.                                               *)
Worked(o, left, d0, d) ==
    /\ \A t \in Tables, id \in Ids : id # o.id => d.rows[t][id] = d0.rows[t][id]
    /\ o.op \in {"clear", "delete"} => \A t \in Tables :
          d.rows[t][o.id] = IF t \in Cleared \ left THEN {} ELSE d0.rows[t][o.id]
    /\ o.op \in {"clear", "delete"} => left \subseteq Writes(o)
    /\ o.op = "clear" => d.sessions = d0.sessions
    /\ o.op = "delete" =>
          d.sessions = IF "sessions" \in left THEN d0.sessions ELSE d0.sessions \ {o.id}
    /\ o.op = "store" /\ "sessions" \in left => d = d0
    /\ o.op = "store" /\ "sessions" \notin left =>
          /\ o.id # 0
          /\ \/ d.sessions = d0.sessions
             \/ /\ \A other \in d0.sessions : other < o.id
                /\ d.sessions = d0.sessions \union {o.id}

(* What the Nemiver that writes has drafted is its operation, as far as it *)
(* has come.                                                               *)
TableInv ==
    /\ IInv
    /\ \A p \in lock : Worked(Head(nem[p].plan), nem[p].left, db, draft)

-----------------------------------------------------------------------------
(* Numbers.                                                                *)

(* A non-empty set of bounded numbers has a largest one.                   *)
LEMMA LargestNumber ==
    ASSUME NEW N \in Nat, NEW S \in SUBSET (1..N), S # {}
    PROVE  \E x \in S : \A y \in S : x >= y
<1> DEFINE T == {m \in Nat : \E x \in S : m = N - x}
           R == OpToRel(<, Nat)
<1>1. T \subseteq Nat /\ T # {}
  <2>1. PICK x \in S : TRUE
    OBVIOUS
  <2>2. N - x \in Nat
    BY <2>1
  <2> QED
    BY <2>2
<1>2. IsWellFoundedOn(R, Nat)
  BY NatLessThanWellFounded
<1>3. \A x, y \in Nat : y < x => <<y, x>> \in R
  BY DEF OpToRel
<1> HIDE DEF T, R
<1>4. PICK m \in T : \A n \in T : ~ (<<n, m>> \in R)
  BY <1>1, <1>2, WFMin
<1>5. ASSUME NEW n \in T PROVE n >= m
  <2>1. n \in Nat /\ m \in Nat
    BY <1>1
  <2>2. ~(n < m)
    BY <1>3, <1>4, <2>1, Zenon
  <2> QED
    BY <2>1, <2>2
<1>6. PICK x \in S : m = N - x
  BY DEF T
<1>7. ASSUME NEW y \in S PROVE x >= y
  <2>1. N - y \in T
    BY DEF T
  <2> QED
    BY <1>5, <1>6, <2>1
<1> QED
  BY <1>7

(* The number given to a new session is above all others.                  *)
LEMMA NewIdIsNew ==
    ASSUME NEW d \in Database
    PROVE  \A other \in d.sessions : other < NewId(d)
<1> SUFFICES ASSUME NEW other \in d.sessions PROVE other < NewId(d)
  OBVIOUS
<1>1. d.sessions \in SUBSET (1..MaxSaves) /\ MaxSaves \in Nat
  BY StoreAssumption DEF Database, Ids
<1>2. PICK x \in d.sessions : \A y \in d.sessions : x >= y
  BY <1>1, LargestNumber
<1>3. Max(d.sessions) \in d.sessions /\ \A y \in d.sessions : Max(d.sessions) >= y
  BY <1>2 DEF Max
<1>4. NewId(d) = Max(d.sessions) + 1
  BY DEF NewId
<1> QED
  BY <1>1, <1>3, <1>4

-----------------------------------------------------------------------------
(* Operations in progress.                                                 *)

(* An operation that has written nothing yet.                              *)
LEMMA WorkedNothing ==
    ASSUME NEW d, NEW o, o.op \in {"clear", "delete", "store"}
    PROVE  Worked(o, Writes(o), d, d)
BY StoreAssumption DEF Worked, Writes


(* A statement that deletes rows of a session.                             *)
LEMMA WorkedRows ==
    ASSUME NEW o \in WholeOperation, o.op \in {"clear", "delete"},
           NEW left, NEW t \in left, t \in Cleared,
           NEW d0 \in Database, NEW d \in Database, Worked(o, left, d0, d)
    PROVE  Worked(o, left \ {t}, d0, Written(o, t, d))
<1>1. o.id \in Ids /\ t \in Tables /\ t # "sessions"
  BY StoreAssumption DEF WholeOperation, Operation
<1>2. PICK e : e = Written(o, t, d) /\ e = [d EXCEPT !.rows[t][o.id] = {}]
  BY <1>1 DEF Written
<1>3. /\ e.sessions = d.sessions /\ e.rows[t][o.id] = {}
      /\ \A u \in Tables, id \in Ids : u # t \/ id # o.id => e.rows[u][id] = d.rows[u][id]
  BY <1>1, <1>2 DEF Database
<1>4. Worked(o, left \ {t}, d0, e)
  <2>1. \A u \in Tables, id \in Ids : id # o.id => e.rows[u][id] = d0.rows[u][id]
    BY <1>3 DEF Worked
  <2>2. ASSUME NEW u \in Tables
        PROVE  e.rows[u][o.id] = IF u \in Cleared \ (left \ {t}) THEN {} ELSE d0.rows[u][o.id]
    <3>1. d.rows[u][o.id] = IF u \in Cleared \ left THEN {} ELSE d0.rows[u][o.id]
      BY DEF Worked
    <3>2. CASE u = t
      BY <1>3, <3>2
    <3>3. CASE u # t
      BY <1>1, <1>3, <3>1, <3>3
    <3> QED
      BY <3>2, <3>3
  <2>3. "sessions" \in left <=> "sessions" \in left \ {t}
    BY <1>1
  <2> QED
    BY <1>3, <2>1, <2>2, <2>3 DEF Worked
<1> QED
  BY <1>2, <1>4

(* The statement that deletes the line of a session.                       *)
LEMMA WorkedLine ==
    ASSUME NEW o \in WholeOperation, o.op = "delete",
           NEW left, "sessions" \in left,
           NEW d0 \in Database, NEW d \in Database, Worked(o, left, d0, d)
    PROVE  Worked(o, left \ {"sessions"}, d0, Written(o, "sessions", d))
<1>1. PICK e : /\ e = Written(o, "sessions", d)
               /\ e = [d EXCEPT !.sessions = d.sessions \ {o.id}]
  BY DEF Written
<1>2. e.rows = d.rows /\ e.sessions = d.sessions \ {o.id}
  BY <1>1 DEF Database
<1>3. Cleared \ (left \ {"sessions"}) = Cleared \ left
  BY StoreAssumption
<1>4. Worked(o, left \ {"sessions"}, d0, e)
  BY <1>2, <1>3 DEF Worked
<1> QED
  BY <1>1, <1>4

(* The statement that inserts the line of a new session.                   *)
LEMMA WorkedNumber ==
    ASSUME NEW o \in WholeOperation, o.op = "store",
           NEW left, "sessions" \in left,
           NEW d0 \in Database, NEW d \in Database, Worked(o, left, d0, d),
           NewId(d) \in Ids, NEW o2, o2 = [o EXCEPT !.id = NewId(d)]
    PROVE  Worked(o2, left \ {"sessions"}, d0, Written(o, "sessions", d))
<1>1. PICK e : /\ e = Written(o, "sessions", d)
               /\ e = [d EXCEPT !.sessions = d.sessions \union {NewId(d)}]
  BY DEF Written
<1>2. e.rows = d.rows /\ e.sessions = d.sessions \union {NewId(d)}
  BY <1>1 DEF Database
<1>3. o2.op = "store" /\ o2.id = NewId(d) /\ o2.id # 0
  BY DEF WholeOperation, Operation, Ids
<1>4. d = d0
  BY DEF Worked
<1>5. \A other \in d0.sessions : other < o2.id
  BY <1>3, <1>4, NewIdIsNew
<1>6. Worked(o2, left \ {"sessions"}, d0, e)
  BY <1>2, <1>3, <1>4, <1>5 DEF Worked
<1> QED
  BY <1>1, <1>6

(* The statements that store the rows of a session in a table.             *)
LEMMA WorkedStored ==
    ASSUME NEW o \in WholeOperation, o.op = "store",
           NEW left, NEW t \in left, t # "sessions", t \in Tables, "sessions" \notin left,
           NEW d0 \in Database, NEW d \in Database, Worked(o, left, d0, d)
    PROVE  Worked(o, left \ {t}, d0, Written(o, t, d))
<1>1. PICK e : /\ e = Written(o, t, d)
               /\ e = [d EXCEPT !.rows[t][o.id] = o.content[t]]
  BY DEF Written, Stored
<1>2. /\ e.sessions = d.sessions
      /\ \A u \in Tables, id \in Ids : id # o.id => e.rows[u][id] = d.rows[u][id]
  BY <1>1 DEF Database
<1>3. Worked(o, left \ {t}, d0, e)
  BY <1>2 DEF Worked
<1> QED
  BY <1>1, <1>3

(* Whoever may write next has drafted its operation as far as it has come: *)
(* without the lock it has written nothing, and the draft is the database. *)
LEMMA WorkedBefore ==
    ASSUME TableInv, NEW p \in Nemivers, nem[p].depth > 0, lock \subseteq {p}
    PROVE  Worked(Head(nem[p].plan), nem[p].left, db, draft)
<1>1. CASE p \in lock
  BY <1>1 DEF TableInv
<1>2. CASE p \notin lock
  <2>1. draft = db /\ Fresh(nem[p])
    BY <1>2 DEF TableInv, IInv, Locked
  <2>2. Head(nem[p].plan).op \in {"clear", "delete", "store"}
    BY DEF TableInv, IInv, Sound, Closed, Opened
  <2> QED
    BY <2>1, <2>2, WorkedNothing DEF Fresh
<1> QED
  BY <1>1, <1>2

-----------------------------------------------------------------------------
(* The steps.                                                              *)

(* Neither the database nor what those who write have drafted changes.     *)
Quiet ==
    /\ db' = db
    /\ \A q \in lock' : /\ q \in lock /\ draft' = draft
                        /\ nem'[q].plan = nem[q].plan /\ nem'[q].left = nem[q].left

(* Steps of a Nemiver that does not write are quiet.                       *)
LEMMA QuietAway ==
    ASSUME IInv, NEW p \in Nemivers, p \notin lock, UNCHANGED <<db, draft, lock>>,
           NEW s, nem' = [nem EXCEPT ![p] = s]
    PROVE  Quiet
BY DEF Quiet, IInv, Typed

(* A Nemiver without a transaction does not write.                         *)
LEMMA NoLock ==
    ASSUME IInv, NEW p \in Nemivers,
           nem[p].plan = <<>> \/ nem[p].depth = 0
              \/ Head(nem[p].plan).op \notin {"clear", "delete", "store"}
    PROVE  p \notin lock
BY DEF IInv, Sound, Locked, Closed, Opened

(* Every step is quiet but the statements and the commits.                 *)
LEMMA QuietSteps ==
    ASSUME IInv, NEW p \in Nemivers,
           \/ Start(p) \/ ExecuteProgram(p) \/ SaveCurrentSession(p) \/ OnShutdown(p)
           \/ ExecuteSession(p) \/ Rename(p) \/ Begin(p) \/ CommitInner(p) \/ Fail(p)
           \/ Load(p) \/ Resume(p) \/ Quit(p) \/ Crash(p)
    PROVE  Quiet
<1>1. CASE Start(p)
  <2>1. nem[p].plan = <<>>
    BY <1>1 DEF Start, IInv, Sound
  <2>2. p \notin lock
    BY <2>1, NoLock
  <2>3. UNCHANGED <<db, draft, lock>> /\ \E s : nem' = [nem EXCEPT ![p] = s]
    BY <1>1 DEF Start
  <2> QED
    BY <2>2, <2>3, QuietAway
<1>2. CASE ExecuteProgram(p)
  <2>1. p \notin lock
    BY <1>2, NoLock DEF ExecuteProgram, Ready
  <2>2. /\ UNCHANGED <<db, draft, lock>>
        /\ nem' = [nem EXCEPT ![p] = [nem[p] EXCEPT !.prog = TRUE, !.session = 0]]
    BY <1>2 DEF ExecuteProgram, IInv, Typed
  <2> QED
    BY <2>1, <2>2, QuietAway
<1>3. CASE SaveCurrentSession(p) \/ OnShutdown(p) \/ ExecuteSession(p)
  <2>1. PICK then : SaveAnd(p, then)
    BY <1>3 DEF SaveCurrentSession, OnShutdown, ExecuteSession
  <2>2. p \notin lock
    BY <2>1, NoLock DEF SaveAnd, Ready
  <2>3. /\ UNCHANGED <<db, draft, lock>>
        /\ nem' = [nem EXCEPT ![p] = [nem[p] EXCEPT !.plan = RecordAndSave(nem[p]) \o then]]
    BY <2>1 DEF SaveAnd
  <2> QED
    BY <2>2, <2>3, QuietAway
<1>4. CASE Rename(p)
  <2>1. p \notin lock
    BY <1>4, NoLock DEF Rename, Ready
  <2>2. UNCHANGED <<db, draft, lock>>
        /\ \E plan : nem' = [nem EXCEPT ![p] = [nem[p] EXCEPT !.plan = plan]]
    BY <1>4 DEF Rename
  <2> QED
    BY <2>1, <2>2, QuietAway
<1>5. CASE Begin(p)
  <2>1. p \notin lock
    BY <1>5, NoLock DEF Begin
  <2>2. UNCHANGED <<db, draft, lock>>
        /\ nem' = [nem EXCEPT ![p] = [nem[p] EXCEPT !.depth = Nesting(Head(nem[p].plan)),
                                                    !.left = Writes(Head(nem[p].plan))]]
    BY <1>5 DEF Begin
  <2> QED
    BY <2>1, <2>2, QuietAway
<1>6. CASE CommitInner(p)
  <2>1. UNCHANGED <<db, draft, lock>>
        /\ nem' = [nem EXCEPT ![p] = [nem[p] EXCEPT !.depth = 1]]
    BY <1>6 DEF CommitInner
  <2>2. \A q \in Nemivers : nem'[q].plan = nem[q].plan /\ nem'[q].left = nem[q].left
    BY <2>1 DEF IInv, Typed, WholeNemiver
  <2> QED
    BY <2>1, <2>2 DEF Quiet, IInv, Typed
<1>7. CASE Fail(p) \/ Crash(p)
  <2>1. PICK s : nem' = [nem EXCEPT ![p] = s] /\ Rollback(p) /\ UNCHANGED db
    BY <1>7 DEF Fail, Crash
  <2>2. \A q \in Nemivers : q # p => nem'[q] = nem[q]
    BY <2>1 DEF IInv, Typed
  <2>3. CASE p \in lock
    BY <2>1, <2>3 DEF Rollback, Quiet
  <2>4. CASE p \notin lock
    BY <2>1, <2>2, <2>4 DEF Rollback, Quiet, IInv, Typed
  <2> QED
    BY <2>3, <2>4
<1>8. CASE Load(p) \/ Resume(p) \/ Quit(p)
  <2>1. p \notin lock
    BY <1>8, NoLock DEF Load, Resume, Quit, Doing
  <2>2. PICK s : Done(p, s)
    BY <1>8 DEF Load, Resume, Quit
  <2> QED
    BY <2>1, <2>2, QuietAway DEF Done
<1> QED
  BY <1>1, <1>2, <1>3, <1>4, <1>5, <1>6, <1>7, <1>8

(* A statement carries its operation on, and the table sees nothing of it. *)
LEMMA StatementWorks ==
    ASSUME TableInv, NEW p \in Nemivers, NEW t \in Tables \union {"sessions"}, Execute(p, t)
    PROVE  db' = db /\ \A q \in lock' : Worked(Head(nem'[q].plan), nem'[q].left, db', draft')
<1> DEFINE n == nem[p]
           o == Head(n.plan)
           numbered == o.op = "store" /\ t = "sessions"
           o2 == IF numbered THEN [o EXCEPT !.id = NewId(draft)] ELSE o
<1>1. n \in WholeNemiver /\ n.depth > 0 /\ Opened(n)
  BY DEF TableInv, Execute, IInv, Typed, Sound, Closed, Opened
<1>2. n.plan \in Seq(WholeOperation) /\ n.plan # <<>>
  BY <1>1 DEF WholeNemiver, Opened
<1>3. o \in WholeOperation /\ n.plan[1] = o /\ 1 \in DOMAIN n.plan
  BY <1>2
<1>4. o.op \in {"clear", "delete", "store"} /\ t \in n.left
  BY <1>1 DEF Opened, Execute
<1>5. numbered => NewId(draft) \in Ids
  BY <1>2 DEF Execute, Doing
<1>6. /\ draft' = Written(o, t, draft) /\ lock \subseteq {p} /\ lock' = {p} /\ db' = db
      /\ nem' = [nem EXCEPT ![p].left = @ \ {t}, ![p].plan[1] = o2]
  BY <1>3 DEF Execute
<1>7. Worked(o, n.left, db, draft) /\ db \in Database /\ draft \in Database
  BY <1>1, <1>6, WorkedBefore DEF TableInv, IInv, Typed
<1>8. o.op = "store" /\ t # "sessions" => "sessions" \notin n.left
  BY DEF Execute, InTurn
<1>9. n.left \in Lefts
  BY <1>1 DEF WholeNemiver, Lefts
<1>10. Worked(o2, n.left \ {t}, db, draft')
  <2>1. CASE o.op = "clear" \/ (o.op = "delete" /\ t # "sessions")
    <3>1. t \in Cleared
      BY <1>4, <1>7, <2>1 DEF Worked, Writes
    <3>2. Worked(o, n.left \ {t}, db, draft')
      <4> HIDE DEF n, o
      <4> QED
        BY <1>3, <1>4, <1>6, <1>7, <2>1, <3>1, WorkedRows
    <3>3. o2 = o
      BY <2>1
    <3> QED
      BY <3>2, <3>3
  <2>2. CASE o.op = "delete" /\ t = "sessions"
    <3>1. o2 = o
      BY <2>2
    <3> HIDE DEF n, o, o2
    <3> QED
      BY <1>3, <1>4, <1>6, <1>7, <2>2, <3>1, WorkedLine
  <2>3. CASE o.op = "store" /\ t = "sessions"
    <3>1. o2 = [o EXCEPT !.id = NewId(draft)]
      BY <2>3
    <3> HIDE DEF n, o, o2
    <3> QED
      BY <1>3, <1>4, <1>5, <1>6, <1>7, <2>3, <3>1, WorkedNumber DEF numbered
  <2>4. CASE o.op = "store" /\ t # "sessions"
    <3>1. o2 = o
      BY <2>4
    <3>2. t \in Tables
      BY <2>4
    <3> HIDE DEF n, o, o2
    <3> QED
      BY <1>3, <1>4, <1>6, <1>7, <1>8, <2>4, <3>1, <3>2, WorkedStored
  <2> QED
    BY <1>4, <2>1, <2>2, <2>3, <2>4
<1>11. Head(nem'[p].plan) = o2 /\ nem'[p].left = n.left \ {t}
  <2> HIDE DEF o2
  <2>1. nem'[p] = [n EXCEPT !.left = n.left \ {t}, !.plan = [n.plan EXCEPT ![1] = o2]]
    BY <1>1, <1>6 DEF WholeNemiver, TableInv, IInv, Typed
  <2>2. nem'[p].plan = [n.plan EXCEPT ![1] = o2] /\ nem'[p].left = n.left \ {t}
    BY <1>1, <2>1 DEF WholeNemiver
  <2>3. Head([n.plan EXCEPT ![1] = o2]) = o2
    BY <1>2, <1>3
  <2> QED
    BY <2>2, <2>3
<1> QED
  <2> HIDE DEF o2
  <2> QED
    BY <1>6, <1>10, <1>11

(* A commit puts what was drafted on disk: all of one operation.           *)
LEMMA CommitIsAtomic ==
    ASSUME TableInv, IInv', NEW p \in Nemivers, Commit(p)
    PROVE  Table!Next
<1> DEFINE o == Head(nem[p].plan)
<1>1. nem[p].depth > 0 /\ nem[p].left = {} /\ db' = draft
  BY DEF Commit
<1>2. p \in lock /\ Opened(nem[p])
  BY <1>1, WriterLocks DEF TableInv
<1>3. /\ Worked(o, {}, db, db') /\ db \in Database /\ db' \in Database
      /\ o.op \in {"clear", "delete", "store"}
  BY <1>1, <1>2 DEF TableInv, IInv, Typed, Opened
<1>4. nem[p].plan \in Seq(WholeOperation) /\ nem[p].plan # <<>>
  BY <1>2 DEF TableInv, IInv, Typed, WholeNemiver, Opened
<1>5. o \in WholeOperation
  BY <1>4
<1>6. o.id \in Ids
  BY <1>3, <1>5 DEF WholeOperation, Operation, Worked
<1> HIDE DEF o
<1>7. ASSUME o.op \in {"clear", "delete"}
      PROVE  db'.rows = [t \in Tables |-> IF t \in Cleared
                                         THEN [db.rows[t] EXCEPT ![o.id] = {}] ELSE db.rows[t]]
  <2> DEFINE new == [t \in Tables |-> IF t \in Cleared
                                      THEN [db.rows[t] EXCEPT ![o.id] = {}] ELSE db.rows[t]]
  <2>1. \A t \in Tables, id \in Ids : db'.rows[t][id] = new[t][id]
    BY <1>3, <1>6, <1>7 DEF Worked, Database
  <2>2. db'.rows \in [Tables -> [Ids -> SUBSET (1..MaxSaves)]]
        /\ new \in [Tables -> [Ids -> SUBSET (1..MaxSaves)]]
    BY <1>3 DEF Database
  <2> HIDE DEF new
  <2>3. \A t \in Tables : db'.rows[t] = new[t]
    BY <2>1, <2>2
  <2>4. db'.rows = new
    BY <2>2, <2>3
  <2> QED
    BY <2>4 DEF new
<1>8. CASE o.op = "clear"
  <2>1. Table!Clear(o.id)
    BY <1>3, <1>7, <1>8 DEF Table!Clear, Worked
  <2> QED
    BY <1>6, <2>1 DEF Table!Next
<1>9. CASE o.op = "delete"
  <2>1. Table!Delete(o.id)
    BY <1>3, <1>7, <1>9 DEF Table!Delete, Worked
  <2> QED
    BY <1>6, <2>1 DEF Table!Next
<1>10. CASE o.op = "store"
  <2>1. PICK id \in Ids : id = o.id
    BY <1>6
  <2>2. Table!OnlyRowsOf(id)
    BY <1>3, <2>1 DEF Table!OnlyRowsOf, Worked
  <2>3. Table!OfOneSave(Table!Content(id))'
    BY <1>1, <2>1 DEF IInv, NeverTorn, OfOneSave, Table!OfOneSave, Table!Content
  <2>4. \/ UNCHANGED db.sessions
        \/ /\ \A other \in db.sessions : other < id
           /\ db'.sessions = db.sessions \union {id}
    BY <1>3, <1>10, <2>1 DEF Worked
  <2>5. Table!Store(id)
    BY <2>2, <2>3, <2>4 DEF Table!Store
  <2> QED
    BY <2>5 DEF Table!Next
<1> QED
  BY <1>3, <1>8, <1>9, <1>10

(* Every step keeps the invariant, and is one of the table or none.        *)
LEMMA StepTable ==
    ASSUME TableInv, [Next]_vars
    PROVE  TableInv' /\ [Table!Next]_<<db.sessions, db.rows>>
<1>1. IInv /\ IInv'
  BY NextInv DEF TableInv
<1>2. ASSUME Quiet
      PROVE  TableInv' /\ [Table!Next]_<<db.sessions, db.rows>>
  <2>1. \A q \in lock' : Worked(Head(nem'[q].plan), nem'[q].left, db', draft')
    BY <1>2 DEF Quiet, TableInv
  <2> QED
    BY <1>1, <1>2, <2>1 DEF Quiet, TableInv
<1>3. CASE UNCHANGED vars
  BY <1>2, <1>3 DEF vars, Quiet
<1>4. CASE Next
  <2>1. PICK p \in Nemivers :
          \/ Start(p) \/ ExecuteProgram(p) \/ SaveCurrentSession(p) \/ OnShutdown(p)
          \/ ExecuteSession(p) \/ Rename(p)
          \/ Begin(p) \/ (\E t \in Tables \union {"sessions"} : Execute(p, t))
          \/ CommitInner(p) \/ Commit(p) \/ Fail(p)
          \/ Load(p) \/ Resume(p) \/ Quit(p) \/ Crash(p)
    BY <1>4 DEF Next
  <2>2. CASE \E t \in Tables \union {"sessions"} : Execute(p, t)
    <3>1. db' = db /\ \A q \in lock' : Worked(Head(nem'[q].plan), nem'[q].left, db', draft')
      BY <2>2, StatementWorks
    <3> QED
      BY <1>1, <3>1 DEF TableInv
  <2>3. CASE Commit(p)
    <3>1. lock' = {}
      BY <2>3 DEF Commit
    <3>2. Table!Next
      BY <1>1, <2>3, CommitIsAtomic
    <3> QED
      BY <1>1, <3>1, <3>2 DEF TableInv
  <2>4. CASE ~Commit(p) /\ ~(\E t \in Tables \union {"sessions"} : Execute(p, t))
    <3>1. Quiet
      BY <1>1, <2>1, <2>4, QuietSteps
    <3> QED
      BY <1>2, <3>1
  <2> QED
    BY <2>2, <2>3, <2>4
<1> QED
  BY <1>3, <1>4

(* Each operation of SessMgr on the sessions on disk is done at once or    *)
(* not at all, and touches one session, for all the Nemivers that share    *)
(* the database, whatever fails or dies: "Either they all succeed in       *)
(* persisting their data, or they all fail" (nmv-transaction.h).           *)
THEOREM StoreImplementsTable == Spec => ImplementsTable
<1>1. Init => TableInv /\ Table!Init
  <2> SUFFICES ASSUME Init PROVE TableInv /\ Table!Init
    OBVIOUS
  <2>1. lock = {} /\ db = [sessions |-> {}, rows |-> [t \in Tables |-> [id \in Ids |-> {}]]]
    BY DEF Init
  <2> QED
    BY <2>1, InitIInv DEF TableInv, Table!Init
<1>2. TableInv /\ [Next]_vars => TableInv' /\ [Table!Next]_<<db.sessions, db.rows>>
  BY StepTable
<1> QED
  BY <1>1, <1>2, PTL DEF Spec, ImplementsTable, Table!Spec
=============================================================================
