----------------------------- MODULE SessionTable -----------------------------
(***************************************************************************)
(* What SessMgr promises about the sessions on disk, without statements,   *)
(* transactions, locks, errors or crashes: "Either they all succeed in     *)
(* persisting their data, or they all fail" (nmv-transaction.h).  A        *)
(* session is cleared, deleted or stored in one step, and no other session *)
(* changes in that step.                                                   *)
(***************************************************************************)
EXTENDS Integers, FiniteSetsExt

CONSTANTS
    Tables,    \* the tables that hold the parts of a session
    Cleared,   \* the ones clear_session empties
    Ids        \* the numbers of sessions

VARIABLES
    sessions,  \* numbers of the sessions there are
    rows       \* for each table and session, the saves its rows come from

(* All the rows of a session come from one save, some may be missing.      *)
OfOneSave(content) ==
    \A t, u \in Tables : \A v \in content[t], w \in content[u] : v = w

Content(id) == [t \in Tables |-> rows[t][id]]

Init == sessions = {} /\ rows = [t \in Tables |-> [id \in Ids |-> {}]]

(* Only the session numbered id changes.                                   *)
OnlyRowsOf(id) ==
    \A t \in Tables, other \in Ids \ {id} : rows'[t][other] = rows[t][other]

Clear(id) ==
    /\ rows' = [t \in Tables |-> IF t \in Cleared THEN [rows[t] EXCEPT ![id] = {}]
                                                  ELSE rows[t]]
    /\ UNCHANGED sessions

Delete(id) ==
    /\ rows' = [t \in Tables |-> IF t \in Cleared THEN [rows[t] EXCEPT ![id] = {}]
                                                  ELSE rows[t]]
    /\ sessions' = sessions \ {id}

Store(id) ==
    /\ OnlyRowsOf(id)
    /\ OfOneSave(Content(id)')
    /\ \/ UNCHANGED sessions
       \/ /\ \A other \in sessions : other < id    \* a number of its own
          /\ sessions' = sessions \union {id}

Next == \E id \in Ids : Clear(id) \/ Delete(id) \/ Store(id)

Spec == Init /\ [][Next]_<<sessions, rows>>
=============================================================================
