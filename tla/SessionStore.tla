----------------------------- MODULE SessionStore -----------------------------
(***************************************************************************)
(* The saved debugging sessions: SessMgr (nmv-sess-mgr.cc) over nested     *)
(* transactions (nmv-transaction.h, nmv-transaction.cc) and an SQLite      *)
(* database (nmv-sqlite-cnx-drv.cc), as the debugging perspective uses it  *)
(* to save, resume, rename and purge sessions.  Several Nemivers of a user *)
(* share the database.                                                     *)
(*                                                                         *)
(* The step is the SQL statement.  Any statement may fail (the disk is     *)
(* full, the database stays locked), which throws: TransactionAutoHelper   *)
(* rolls back and the rest of the operation is given up.  A Nemiver may    *)
(* die at any step.                                                        *)
(***************************************************************************)
EXTENDS Integers, Sequences, SequencesExt, FiniteSetsExt

CONSTANTS
    Nemivers,     \* the running instances
    Tables,       \* the tables that hold the parts of a session
    Cleared,      \* the ones clear_session empties, "attributes" among them
    KeptSessions, \* sessions record_and_save_session keeps: 5
    MaxSaves,     \* bound: contents saved
    MayFail,      \* may a statement fail?
    MayCrash,     \* may a Nemiver die?
    MayRename, MayPurge   \* what the users do

ASSUME StoreAssumption ==
    /\ Cleared \subseteq Tables /\ "attributes" \in Cleared /\ "sessions" \notin Tables
    /\ KeptSessions \in Nat /\ MaxSaves \in Nat
    /\ {MayFail, MayCrash, MayRename, MayPurge} \subseteq BOOLEAN

Ids == 1..MaxSaves

(* The saves the rows of one session come from, table by table.            *)
Contents == [Tables -> SUBSET (1..MaxSaves)]

(* A database.  The rows of a session outlive its line in "sessions".      *)
Database == [sessions : SUBSET Ids, rows : [Tables -> [Ids -> SUBSET (1..MaxSaves)]]]

(* ISessMgr::Session in memory.                                            *)
Session == [id : Ids, content : Contents]

(* What a Nemiver has left to do: an operation of SessMgr, or the step of  *)
(* the perspective that follows.                                           *)
Operation ==
    [op : {"clear", "delete"}, id : Ids]
        \union [op : {"store"}, id : Ids \union {0}, content : Contents]
        \union [op : {"resume"}, session : Session]
        \union [op : {"load", "quit"}]

VARIABLES
    db,      \* the database, as committed
    draft,   \* the database as the transaction that writes sees it
    lock,    \* the Nemivers whose transaction holds the lock for writing
    nem,     \* the Nemivers
    saved    \* contents saved so far (numbers them)

vars == <<db, draft, lock, nem, saved>>

Nemiver == [up : BOOLEAN,
            prog : BOOLEAN,           \* prog_path is not empty
            session : Ids \union {0}, \* the session resumed; 0: reused_session is false
            list : Seq(Session),      \* SessMgr::sessions ()
            plan : Seq(Operation),
            depth : 0..2,             \* size of the transaction's stack
            left : SUBSET (Tables \union {"sessions"})]  \* still to write

TypeOK ==
    /\ db \in Database /\ draft \in Database
    /\ lock \subseteq Nemivers
    /\ nem \in [Nemivers -> Nemiver]
    /\ saved \in 0..MaxSaves

Down == [up |-> FALSE, prog |-> FALSE, session |-> 0, list |-> <<>>,
         plan |-> <<>>, depth |-> 0, left |-> {}]

Init ==
    /\ db = [sessions |-> {}, rows |-> [t \in Tables |-> [id \in Ids |-> {}]]]
    /\ draft = db /\ lock = {}
    /\ nem = [p \in Nemivers |-> Down]
    /\ saved = 0

-----------------------------------------------------------------------------
(* The operations, as plans.                                               *)

(* load_session                                                            *)
LoadSession(id) == [id |-> id, content |-> [t \in Tables |-> db.rows[t][id]]]

(* load_sessions: all of them, in the order of their numbers (the list is  *)
(* the only element of the set).                                           *)
LoadSessions ==
    {list \in [1..Cardinality(db.sessions) -> {LoadSession(id) : id \in db.sessions}] :
        \A i, j \in DOMAIN list : i < j => list[i].id < list[j].id}

(* read_next_row does not tell an error from the end of the rows: if the   *)
(* query of the sessions fails, there are none.                            *)
Loads == LoadSessions \union IF MayFail THEN {<<>>} ELSE {}

Clear(id)  == [op |-> "clear", id |-> id]
Delete(id) == [op |-> "delete", id |-> id]
Store(id, content) == [op |-> "store", id |-> id, content |-> content]

(* Sessions in excess, "all sessions but the 5 last ones" of the list.     *)
InExcess(list) ==
    [i \in 1..(IF Len(list) > KeptSessions THEN Len(list) - KeptSessions ELSE 0) |->
        Delete(list[i].id)]

(* record_and_save_session, of the session resumed or of a new one.        *)
RecordAndSave(s) ==
    IF ~s.prog THEN <<>>    \* "Don't save empty sessions."
    ELSE (IF s.session # 0 THEN <<Clear(s.session)>> ELSE <<>>)
            \o InExcess(s.list)
            \o <<Store(s.session, [t \in Tables |-> {saved + 1}])>>

-----------------------------------------------------------------------------
(* The user.                                                               *)

Ready(p) == nem[p].up /\ nem[p].plan = <<>>

(* A Nemiver starts (do_init loads the sessions), to be used or only to    *)
(* purge the sessions.                                                     *)
Start(p) ==
    /\ ~nem[p].up
    /\ \E purge \in {FALSE, MayPurge}, list \in Loads :
        nem' = [nem EXCEPT ![p] = [Down EXCEPT
            !.up = TRUE, !.list = list,
            !.plan = IF purge
                     THEN [i \in 1..Len(list) |-> Delete(list[i].id)] \o <<[op |-> "quit"]>>
                     ELSE <<>>]]
    /\ UNCHANGED <<db, draft, lock, saved>>

(* execute_program: the user picks an executable.                          *)
ExecuteProgram(p) ==
    /\ Ready(p)
    /\ nem' = [nem EXCEPT ![p].prog = TRUE, ![p].session = 0]
    /\ UNCHANGED <<db, draft, lock, saved>>

(* The session is saved, then the operation "then" is done.                *)
SaveAnd(p, then) ==
    /\ Ready(p)
    /\ nem[p].prog => saved < MaxSaves
    /\ saved' = IF nem[p].prog THEN saved + 1 ELSE saved
    /\ nem' = [nem EXCEPT ![p].plan = RecordAndSave(nem[p]) \o then]
    /\ UNCHANGED <<db, draft, lock>>

SaveCurrentSession(p) == nem[p].prog /\ SaveAnd(p, <<>>)

OnShutdown(p) == SaveAnd(p, <<[op |-> "quit"]>>)

ExecuteSession(p) ==
    \E i \in 1..Len(nem[p].list) :
        SaveAnd(p, <<[op |-> "resume", session |-> nem[p].list[i]]>>)

(* on_session_name_edited: stores a copy of the session as it was loaded,  *)
(* under another name, and loads the sessions.                             *)
Rename(p) ==
    /\ MayRename /\ Ready(p)
    /\ \E i \in 1..Len(nem[p].list) :
        nem' = [nem EXCEPT ![p].plan =
            <<Store(nem[p].list[i].id, nem[p].list[i].content), [op |-> "load"]>>]
    /\ UNCHANGED <<db, draft, lock, saved>>

-----------------------------------------------------------------------------
(* Transactions.                                                           *)

Doing(p, ops) == nem[p].plan # <<>> /\ Head(nem[p].plan).op \in ops

(* The transactions the operation nests: delete_session calls              *)
(* clear_session inside its own.                                           *)
Nesting(o) == IF o.op = "delete" THEN 2 ELSE 1

(* What the operation writes.                                              *)
Writes(o) ==
    CASE o.op = "clear"  -> Cleared
      [] o.op = "delete" -> Cleared \union {"sessions"}
      [] o.op = "store" /\ o.id = 0 -> Tables \union {"sessions"}
      [] OTHER -> Tables

(* Transaction::begin; the database learns of the outermost one only.      *)
Begin(p) ==
    /\ Doing(p, {"clear", "delete", "store"})
    /\ LET o == Head(nem[p].plan) IN
        /\ nem[p].left = {} /\ nem[p].depth = 0
        /\ nem' = [nem EXCEPT ![p].depth = Nesting(o), ![p].left = Writes(o)]
    /\ UNCHANGED <<db, draft, lock, saved>>

NewId(d) == IF d.sessions = {} THEN 1 ELSE Max(d.sessions) + 1

(* Wrong variant: the rows of the previous save are not deleted first.     *)
StoredOver(o, t, d) == [d EXCEPT !.rows[t][o.id] = @ \union o.content[t]]

(* store_session, for one table: delete what is there, insert.             *)
Stored(o, t, d) == [d EXCEPT !.rows[t][o.id] = o.content[t]]

(* The database after the statements operation o has for table t.          *)
Written(o, t, d) ==
    CASE o.op = "store" /\ t = "sessions"  -> [d EXCEPT !.sessions = @ \union {NewId(d)}]
      [] o.op = "store" /\ t # "sessions"  -> Stored(o, t, d)
      [] o.op = "delete" /\ t = "sessions" -> [d EXCEPT !.sessions = @ \ {o.id}]
      [] OTHER -> [d EXCEPT !.rows[t][o.id] = {}]

(* The order of the statements: the number of a new session first, the     *)
(* line of a deleted one once its rows are cleared.                        *)
InTurn(p, t) ==
    LET o == Head(nem[p].plan) IN
    CASE o.op = "store"  -> "sessions" \in nem[p].left => t = "sessions"
      [] o.op = "delete" -> (t = "sessions") <=> (nem[p].depth = 1)
      [] OTHER -> TRUE

(* execute_statement: SQLite lets one transaction write at a time.         *)
Execute(p, t) ==
    /\ nem[p].depth > 0 /\ t \in nem[p].left /\ InTurn(p, t)
    /\ Doing(p, {"store"}) /\ t = "sessions" => NewId(draft) \in Ids    \* bound
    /\ lock \subseteq {p}
    /\ lock' = {p}
    /\ LET o == Head(nem[p].plan) IN
        /\ draft' = Written(o, t, draft)
        /\ nem' = [nem EXCEPT ![p].left = @ \ {t},
                    ![p].plan[1] = IF o.op = "store" /\ t = "sessions"
                                   THEN [o EXCEPT !.id = NewId(draft)] ELSE @]
    /\ UNCHANGED <<db, saved>>

(* Transaction::commit of a transaction within another one.                *)
CommitInner(p) ==
    /\ nem[p].depth = 2 /\ nem[p].left = {"sessions"}
    /\ nem' = [nem EXCEPT ![p].depth = 1]
    /\ UNCHANGED <<db, draft, lock, saved>>

(* Transaction::commit of the outermost one.                               *)
Commit(p) ==
    /\ nem[p].depth = 1 /\ nem[p].left = {}
    /\ nem' = [nem EXCEPT ![p].depth = 0, ![p].plan = Tail(@)]
    /\ db' = draft /\ lock' = {}
    /\ UNCHANGED <<draft, saved>>

(* Wrong variants: what was written stays to be committed; the stack of    *)
(* the transaction is not emptied.                                         *)
RollbackForgotten(p) == UNCHANGED <<draft, lock>>
ThrowInside(s) == [s EXCEPT !.plan = <<>>, !.left = {}]

(* Transaction::rollback                                                   *)
Rollback(p) ==
    IF p \in lock THEN draft' = db /\ lock' = {} ELSE UNCHANGED <<draft, lock>>

(* An exception leaves every helper: the first one rolls everything back   *)
(* and empties the stack, the others find nothing to do.                   *)
Throw(s) == [s EXCEPT !.plan = <<>>, !.left = {}, !.depth = 0]

(* A statement or a commit fails, certainly so for a write while another   *)
(* Nemiver's transaction writes ("Let's try again a couple of times").     *)
Fail(p) ==
    /\ nem[p].depth > 0
    /\ MayFail \/ ~(lock \subseteq {p})
    /\ nem' = [nem EXCEPT ![p] = IF Last(@.plan).op = "quit" THEN Down ELSE Throw(@)]
    /\ Rollback(p)
    /\ UNCHANGED <<db, saved>>

-----------------------------------------------------------------------------
(* The steps of the perspective that follow the operations on the store.   *)

Done(p, s) ==
    /\ nem' = [nem EXCEPT ![p] = s]
    /\ UNCHANGED <<db, draft, lock, saved>>

Load(p) ==
    /\ Doing(p, {"load"})
    /\ \E list \in Loads : Done(p, [nem[p] EXCEPT !.plan = Tail(@), !.list = list])

(* execute_session, once the previous session is saved; without attributes *)
(* there is no program to execute and prog_path stays.                     *)
Resume(p) ==
    /\ Doing(p, {"resume"})
    /\ LET s == Head(nem[p].plan).session IN
       Done(p, [nem[p] EXCEPT !.plan = Tail(@), !.session = s.id,
                              !.prog = @ \/ s.content["attributes"] # {}])

Quit(p) == Doing(p, {"quit"}) /\ Done(p, Down)

Crash(p) ==
    /\ MayCrash /\ nem[p].up
    /\ nem' = [nem EXCEPT ![p] = Down]
    /\ Rollback(p)    \* SQLite's, when the database is opened next
    /\ UNCHANGED <<db, saved>>

-----------------------------------------------------------------------------
Next == \E p \in Nemivers :
    \/ Start(p) \/ ExecuteProgram(p) \/ SaveCurrentSession(p) \/ OnShutdown(p)
    \/ ExecuteSession(p) \/ Rename(p)
    \/ Begin(p) \/ (\E t \in Tables \union {"sessions"} : Execute(p, t))
    \/ CommitInner(p) \/ Commit(p) \/ Fail(p)
    \/ Load(p) \/ Resume(p) \/ Quit(p) \/ Crash(p)

Spec == Init /\ [][Next]_vars

-----------------------------------------------------------------------------
(* Properties.                                                             *)

(* What is on disk about a session comes from one save, whatever fails or  *)
(* dies in the middle of whatever: never breakpoints of one save with the  *)
(* watchpoints of another.                                                 *)
OfOneSave(content) ==
    \A t, u \in Tables : \A v \in content[t], w \in content[u] : v = w

NeverTorn == \A id \in Ids : OfOneSave([t \in Tables |-> db.rows[t][id]])

(* A Nemiver that is not at work on the store holds no lock and has left   *)
(* no transaction open: the transaction is shared by all the operations    *)
(* and what one of them left would become part of the next one.            *)
NothingLeftOpen == \A p \in Nemivers :
    nem[p].plan = <<>> => nem[p].depth = 0 /\ nem[p].left = {} /\ p \notin lock

(* The operations of SessMgr are atomic, for all the Nemivers.             *)
Table == INSTANCE SessionTable WITH sessions <- db.sessions, rows <- db.rows
ImplementsTable == Table!Spec

(* A session that was saved is there: "now store the current session"      *)
(* (record_and_save_session).  It does not hold: the session resumed may   *)
(* be one of those in excess, whose line the same save has deleted, and    *)
(* store_session inserts a line for new sessions only.                     *)
SavedIsThere == [][\A p \in Nemivers :
    Commit(p) /\ Head(nem[p].plan).op = "store"
        => Head(nem[p].plan).id \in db'.sessions]_vars
=============================================================================
