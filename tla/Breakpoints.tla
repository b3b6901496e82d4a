----------------------------- MODULE Breakpoints -----------------------------
(***************************************************************************)
(* The breakpoints: the table GDB has, the cache of GDBEngine              *)
(* (nmv-gdb-engine.cc), the map the debugging perspective keeps            *)
(* (nmv-dbg-perspective.cc) and the rows of the breakpoints view           *)
(* (nmv-breakpoints-view.cc), and what becomes of the settings the user    *)
(* chose -- enabled or not, ignore count, countpoint -- when breakpoints   *)
(* are hit and programs are run again, restarted or resumed.               *)
(*                                                                         *)
(* Commands are answered one at a time and in order (GdbCommandQueue):     *)
(* the head of queue is the one in flight.  A countpoint is a breakpoint   *)
(* whose GDB commands are "continue"; GDB knows no other notion of it.     *)
(***************************************************************************)
EXTENDS Integers, Sequences, FiniteSets, Functions

CONSTANTS
    Locs,           \* source lines
    MaxBps,         \* bound: breakpoints one GDB numbers
    MaxIgnore,      \* bound: ignore counts
    MaxHits,        \* bound: hits of a breakpoint in one run of the program
    MaxQueue,       \* bound: commands waiting when the user adds one
    Scenarios       \* sets of Features, of which a behaviour has one

(* What may happen: the user deletes, disables, makes a countpoint of or   *)
(* sets the ignore count of a breakpoint, loads the program again, saves   *)
(* and resumes the session, or does not wait for answers; GDB tells        *)
(* =breakpoint-modified at each hit.                                       *)
Features ==
    {"delete", "disable", "count", "ignore", "restart", "resume", "haste", "notify"}

ASSUME BreakpointsAssumption ==
    /\ {MaxBps, MaxIgnore, MaxHits, MaxQueue} \subseteq Nat
    /\ Scenarios \subseteq SUBSET Features

Ids == 1..MaxBps

(* IDebugger::Breakpoint: its line, whether it is enabled, whether its     *)
(* type is COUNTPOINT_TYPE, and "the ignore count as set by the user".     *)
Breakpoint == [loc : Locs, enabled : BOOLEAN, count : BOOLEAN, initial : Nat]

(* GDB's own: the commands it runs, the hits still to ignore, the hits.    *)
GdbBreakpoint == [loc : Locs, enabled : BOOLEAN, script : BOOLEAN,
                  ignore : Nat, times : Nat]

Command ==
    [op : {"insert"}, loc : Locs, count : BOOLEAN, n : Nat]
        \union [op : {"delete", "enable", "disable"}, id : Ids]
        \union [op : {"after"}, id : Ids, n : Nat]
        \union [op : {"commands"}, id : Ids, yes : BOOLEAN]
        \union [op : {"list", "run", "continue"}]

(* f maps some of the ids, or lines, K to values of S.                     *)
IsTable(f, K, S) == DOMAIN f \subseteq K /\ f \in [DOMAIN f -> S]

VARIABLES
    n,      \* Nemiver: queue, cache, the map shown, the rows of the view
    gdb,    \* GDB: table, next number, inferior
    out,    \* records printed by GDB, not handled
    wanted, \* history: what the user chose for each line
    may     \* the features of this behaviour, chosen once

vars == <<n, gdb, out, wanted, may>>

TypeOK ==
    /\ n.queue \in Seq(Command)
    /\ IsTable(n.cache, Ids, Breakpoint) /\ IsTable(n.shown, Ids, Breakpoint)
    /\ n.rows \in [Ids -> Nat]
    /\ IsTable(gdb.table, Ids, GdbBreakpoint) /\ gdb.next \in 1..(MaxBps + 1)
    /\ gdb.inferior \in {"none", "stopped", "running"}
    /\ \A i \in 1..Len(out) : IsTable(out[i].bps, Ids, Breakpoint)
    /\ IsTable(wanted, Locs, Breakpoint) /\ may \in Scenarios

Waits == "haste" \notin may
Nothing == <<>>
NoRows == [id \in Ids |-> 0]
NewGdb == [table |-> Nothing, next |-> 1, inferior |-> "none"]

Init ==
    /\ n = [queue |-> <<>>, cache |-> Nothing, shown |-> Nothing, rows |-> NoRows]
    /\ gdb = NewGdb /\ out = <<>> /\ wanted = Nothing /\ may \in Scenarios

(* f with the values of g where g has one.                                 *)
Over(f, g) ==
    [x \in DOMAIN f \union DOMAIN g |-> IF x \in DOMAIN g THEN g[x] ELSE f[x]]
Without(f, x) == Restrict(f, DOMAIN f \ {x})
One(x, v) == [y \in {x} |-> v]

(* The ids in increasing order: i of them are not above the i-th.          *)
InOrder(ids) ==
    [i \in 1..Cardinality(ids) |->
        CHOOSE id \in ids : Cardinality({other \in ids : other <= id}) = i]

-----------------------------------------------------------------------------
(* The views: what DBGPerspective and BreakpointsView do with the signals. *)

(* add_breakpoints of the view, append_breakpoint for each: a row more,    *)
(* whatever rows there are.                                                *)
AddRows(s, ids) ==
    [s EXCEPT !.rows = [id \in Ids |-> IF id \in ids THEN @[id] + 1 ELSE @[id]]]
HasRow(s, id) == s.rows[id] # 0

(* breakpoints_set_signal: the map is updated, rows are added.             *)
BreakpointsSet(s, bps) == [AddRows(s, DOMAIN bps) EXCEPT !.shown = Over(@, bps)]

(* breakpoints_list_signal, with the cache: a row is added where none is.  *)
(* (The map would also disable the lines named by an "initially-disabled"  *)
(* cookie: only set-breakpoint carries one, and its answer goes through    *)
(* breakpoints_set_signal.)                                                *)
BreakpointsList(s) ==
    [AddRows(s, {id \in DOMAIN s.cache : ~HasRow(s, id)}) EXCEPT !.shown = Over(@, s.cache)]

(* breakpoint_deleted_signal                                               *)
BreakpointDeleted(s, id) ==
    [s EXCEPT !.shown = Without(@, id), !.rows[id] = 0]

-----------------------------------------------------------------------------
(* The cache of the engine.                                                *)

(* append_breakpoint_to_cache also updates what it is given: the initial   *)
(* ignore count is the cached one, "something we simulate over GDB".       *)
Told(s, bps) ==
    [id \in DOMAIN bps |-> IF id \in DOMAIN s.cache
                           THEN [bps[id] EXCEPT !.initial = s.cache[id].initial]
                           ELSE bps[id]]

(* append_breakpoints_to_cache keeps the type of a cached countpoint.      *)
Cache(s, bps) ==
    [s EXCEPT !.cache = Over(@, [id \in DOMAIN bps |->
        [Told(s, bps)[id] EXCEPT
            !.count = id \in DOMAIN s.cache /\ s.cache[id].count]])]

Queue(s, cs) == [s EXCEPT !.queue = @ \o cs]

(* enable_countpoint                                                       *)
EnableCountpoint(s, id, yes) ==
    IF id \in DOMAIN s.cache
    THEN Queue(s, <<[op |-> "commands", id |-> id, yes |-> yes]>>)
    ELSE s

(* Wrong variants: the breakpoint stays in the cache; no view is told.     *)
NotifyDeletedOnly(s, id) == BreakpointDeleted(s, id)
ForgetDeleted(s, id) == [s EXCEPT !.cache = Without(@, id)]

(* notify_breakpoint_deleted_signal                                        *)
NotifyDeleted(s, id) ==
    IF id \in DOMAIN s.cache
    THEN [BreakpointDeleted(s, id) EXCEPT !.cache = Without(@, id)]
    ELSE s

(* flag_breakpoint_as_countpoint: a countpoint that is flagged as one      *)
(* again becomes a standard breakpoint.                                    *)
Flag(s, id, yes) ==
    IF id \in DOMAIN s.cache
    THEN [s EXCEPT !.cache[id].count = yes /\ ~@]
    ELSE s

(* Wrong variant: the previous version stays shown.                        *)
OnModifiedTwice(s, id, bps) == BreakpointsSet(Cache(s, bps), Told(s, bps))

(* A modified breakpoint: "delete its previous version from the cache,     *)
(* notify the listeners about its deletion, add the new version".          *)
OnModified(s, id, bps) ==
    LET without == NotifyDeleted(s, id) IN
    BreakpointsSet(Cache(without, bps), Told(without, bps))

(* Wrong variant: the commands of the countpoint are not set.              *)
OnInsertedUncounted(s, c, bps) == BreakpointsSet(Cache(s, bps), Told(s, bps))

(* The answer to set-breakpoint or set-countpoint.                         *)
OnInserted(s, c, bps) ==
    LET cached == Cache(s, bps)
        id     == CHOOSE i \in DOMAIN bps : TRUE
    IN BreakpointsSet(IF c.count THEN EnableCountpoint(cached, id, TRUE) ELSE cached,
                      Told(s, bps))

(* ^done for command c; a list with nothing in it is not announced.        *)
OnDone(s, c, bps) ==
    CASE c.op = "insert"   -> OnInserted(s, c, bps)
      [] c.op = "delete"   -> NotifyDeleted(s, c.id)
      [] c.op = "commands" -> BreakpointsList(Flag(s, c.id, c.yes))
      [] c.op = "list" /\ bps # Nothing -> BreakpointsList(Cache(s, bps))
      [] OTHER -> s

(* A stop at a breakpoint: the view asks for the list.                     *)
OnStopped(s) == Queue(s, <<[op |-> "list"]>>)

Handle(s, r) ==
    CASE r.kind = "modified" -> OnModified(s, CHOOSE i \in DOMAIN r.bps : TRUE, r.bps)
      [] r.kind = "stopped"  -> OnStopped(s)
      [] r.kind = "error"    -> [s EXCEPT !.queue = Tail(@)]
      [] r.kind = "done"     ->
            [OnDone(s, Head(s.queue), r.bps) EXCEPT !.queue = Tail(@)]

OnOutputRecord ==
    /\ out # <<>>
    /\ n' = Handle(n, Head(out))
    /\ out' = Tail(out)
    /\ UNCHANGED <<gdb, wanted, may>>

-----------------------------------------------------------------------------
(* The user.                                                               *)

Quiet == n.queue = <<>> /\ out = <<>>

Free == /\ Len(n.queue) < MaxQueue
        /\ Waits => Quiet /\ gdb.inferior # "running"

Press(s, w) == n' = s /\ wanted' = w /\ UNCHANGED <<gdb, out, may>>

(* Bound: breakpoints are only added while GDB has a number for them.      *)
Inserts == Cardinality({i \in 1..Len(n.queue) : n.queue[i].op = "insert"})

(* toggle_breakpoint and toggle_countpoint on a line without a breakpoint; *)
(* the user does not ask twice for the same line.                          *)
(* set_breakpoint asks for a countpoint with an ignore count of -1.        *)
Insert(s, loc, count) ==
    Queue(s, <<[op |-> "insert", loc |-> loc, count |-> count, n |-> 0]>>)
SetBreakpoint(loc, count) ==
    /\ Free /\ gdb.next + Inserts <= MaxBps
    /\ loc \notin DOMAIN wanted /\ (count => "count" \in may)
    /\ Press(Insert(n, loc, count),
             Over(wanted, One(loc, [loc |-> loc, enabled |-> TRUE,
                                    count |-> count, initial |-> 0])))

(* What the user changes about the breakpoint shown as id.                 *)
Change(id, b) ==
    LET loc == n.shown[id].loc IN
    IF loc \in DOMAIN wanted THEN Over(wanted, One(loc, b)) ELSE wanted

Wanted(id) == LET loc == n.shown[id].loc IN
              IF loc \in DOMAIN wanted THEN wanted[loc] ELSE n.shown[id]

DeleteBreakpoint(id) ==
    /\ Free /\ "delete" \in may
    /\ Press(Queue(n, <<[op |-> "delete", id |-> id]>>),
             Without(wanted, n.shown[id].loc))

(* toggle_breakpoint_enabled                                               *)
ToggleEnabled(id) ==
    /\ Free /\ "disable" \in may
    /\ LET on == ~n.shown[id].enabled IN
       Press(Queue(n, <<[op |-> IF on THEN "enable" ELSE "disable", id |-> id],
                        [op |-> "list"]>>),
             Change(id, [Wanted(id) EXCEPT !.enabled = on]))

(* toggle_countpoint on a line with a breakpoint.                          *)
ToggleCountpoint(id) ==
    /\ Free /\ "count" \in may
    /\ LET yes == ~n.shown[id].count IN
       Press(EnableCountpoint(n, id, yes),
             Change(id, [Wanted(id) EXCEPT !.count = yes]))

(* Wrong variant: the count the user chose is not remembered.              *)
IgnoreOnlyInGdb(s, id, count) ==
    Queue(s, <<[op |-> "after", id |-> id, n |-> count], [op |-> "list"]>>)

(* set_breakpoint_ignore_count                                             *)
Ignore(s, id, count) ==
    LET queued == Queue(s, <<[op |-> "after", id |-> id, n |-> count],
                             [op |-> "list"]>>)
    IN IF id \in DOMAIN s.cache THEN [queued EXCEPT !.cache[id].initial = count]
       ELSE queued

(* on_breakpoint_ignore_count_edited                                       *)
EditIgnoreCount(id, count) ==
    /\ Free /\ "ignore" \in may /\ ~n.shown[id].count
    /\ Press(Ignore(n, id, count), Change(id, [Wanted(id) EXCEPT !.initial = count]))

Continue ==
    /\ Free /\ gdb.inferior = "stopped"
    /\ Press(Queue(n, <<[op |-> "continue"]>>), wanted)

-----------------------------------------------------------------------------
(* Running, and running again.                                             *)

(* Wrong variant: the ignore counts are as the last run left them.         *)
GoingToRunPlain(s) == [s EXCEPT !.rows = NoRows, !.shown = Nothing]

(* re_initialize_set_breakpoints: set_breakpoint_ignore_count for each     *)
(* breakpoint of the map, hence two commands each, and the counts cached.  *)
IgnoreCommands(s) ==
    LET ids == InOrder(DOMAIN s.shown) IN
    [i \in 1..(2 * Len(ids)) |->
        LET id == ids[(i + 1) \div 2] IN
        IF i % 2 = 1 THEN [op |-> "after", id |-> id, n |-> s.shown[id].initial]
        ELSE [op |-> "list"]]

IgnoreAgain(s) ==
    [Queue(s, IgnoreCommands(s)) EXCEPT
        !.cache = [id \in DOMAIN @ |->
            IF id \in DOMAIN s.shown THEN [@[id] EXCEPT !.initial = s.shown[id].initial]
            ELSE @[id]]]

(* on_going_to_run_target_signal: the view is cleared, the ignore counts   *)
(* are set again, the map is emptied with the marks of the source view.    *)
GoingToRun(s) == [IgnoreAgain(s) EXCEPT !.rows = NoRows, !.shown = Nothing]

Run(s) == Queue(GoingToRun(s), <<[op |-> "run"]>>)

(* restart_local_inferior, attached to the program that was run.           *)
Rerun ==
    /\ Free /\ gdb.inferior # "running"
    /\ Press(Run(n), wanted)

(* set_breakpoint (Breakpoint): always enabled, whatever it was.           *)
SetAgain(b) ==
    [op |-> "insert", loc |-> b.loc, count |-> b.count,
     n |-> IF b.count THEN 0 ELSE b.initial]

(* execute_program of the same program, in a new GDB: the deletions it     *)
(* queues first are lost with the queue; the cache stays.                  *)
Restart ==
    /\ Free /\ "restart" \in may /\ n.shown # Nothing
    /\ n' = LET ids == InOrder(DOMAIN n.shown) IN
            Run([n EXCEPT !.queue = [i \in 1..Len(ids) |-> SetAgain(n.shown[ids[i]])],
                          !.shown = Nothing])
    /\ gdb' = NewGdb /\ out' = <<>>
    /\ UNCHANGED <<wanted, may>>

(* Quitting saves the map as the session; execute_session, in a new        *)
(* Nemiver, makes breakpoints without a number of it.  All have the parent *)
(* id "0" then, and execute_program sets one breakpoint for each parent.   *)
Resume ==
    /\ Free /\ "resume" \in may /\ n.shown # Nothing
    /\ n' = LET first == CHOOSE id \in DOMAIN n.shown :
                            \A other \in DOMAIN n.shown : id <= other
            IN Run([queue |-> <<SetAgain(n.shown[first])>>, cache |-> Nothing,
                    shown |-> Nothing, rows |-> NoRows])
    /\ gdb' = NewGdb /\ out' = <<>>
    /\ UNCHANGED <<wanted, may>>

-----------------------------------------------------------------------------
(* GDB, external.                                                          *)

(* What GDBMIParser makes of GDB's breakpoint: its ignore count is only    *)
(* printed while it is positive.                                           *)
Parsed(b) == [loc |-> b.loc, enabled |-> b.enabled, count |-> FALSE,
              initial |-> IF b.ignore > 0 THEN b.ignore + b.times ELSE 0]

ParsedTable(t) == [id \in DOMAIN t |-> Parsed(t[id])]

Says(kind, bps) == out' = Append(out, [kind |-> kind, bps |-> bps])

Answered == \E i \in 1..Len(out) : out[i].kind \in {"done", "error"}

(* GDB answers the command in flight, unless the inferior runs.            *)
Reads(op) == /\ gdb.inferior # "running" /\ n.queue # <<>> /\ ~Answered
             /\ Head(n.queue).op = op
             /\ UNCHANGED <<n, wanted, may>>

GdbInserts ==
    /\ Reads("insert")
    /\ LET c == Head(n.queue)
           b == [loc |-> c.loc, enabled |-> TRUE, script |-> FALSE,
                 ignore |-> c.n, times |-> 0]
       IN /\ gdb' = [gdb EXCEPT !.table = Over(@, One(gdb.next, b)), !.next = @ + 1]
          /\ Says("done", One(gdb.next, Parsed(b)))

(* What the other commands do to the table t.                              *)
Changed(t, c) ==
    CASE c.op = "delete"   -> Without(t, c.id)
      [] c.op = "enable"   -> [t EXCEPT ![c.id].enabled = TRUE]
      [] c.op = "disable"  -> [t EXCEPT ![c.id].enabled = FALSE]
      [] c.op = "after"    -> [t EXCEPT ![c.id].ignore = c.n]
      [] c.op = "commands" -> [t EXCEPT ![c.id].script = c.yes]

GdbChanges(op) ==
    /\ Reads(op)
    /\ LET c == Head(n.queue) IN
       IF c.id \in DOMAIN gdb.table
       THEN /\ gdb' = [gdb EXCEPT !.table = Changed(@, c)]
            /\ Says("done", Nothing)
       ELSE Says("error", Nothing) /\ UNCHANGED gdb

GdbLists == Reads("list") /\ Says("done", ParsedTable(gdb.table)) /\ UNCHANGED gdb

GdbRuns ==
    /\ Reads("run")
    /\ gdb' = [gdb EXCEPT !.inferior = "running",
                   !.table = [id \in DOMAIN @ |-> [@[id] EXCEPT !.times = 0]]]
    /\ Says("done", Nothing)

GdbContinues ==
    /\ Reads("continue")
    /\ IF gdb.inferior = "stopped"
       THEN gdb' = [gdb EXCEPT !.inferior = "running"] /\ Says("done", Nothing)
       ELSE Says("error", Nothing) /\ UNCHANGED gdb

GdbAnswers ==
    \/ GdbInserts \/ GdbLists \/ GdbRuns \/ GdbContinues
    \/ \E op \in {"delete", "enable", "disable", "after", "commands"} : GdbChanges(op)

(* The inferior reaches a breakpoint: it stops there unless the hit is to  *)
(* be ignored or the breakpoint is a countpoint (the engine skips a        *)
(* *stopped that a *running follows).                                      *)
Hit(id) ==
    LET b    == gdb.table[id]
        hit  == [b EXCEPT !.times = @ + 1, !.ignore = IF @ > 0 THEN @ - 1 ELSE 0]
        stop == b.ignore = 0 /\ ~b.script
        told == IF "notify" \in may THEN <<[kind |-> "modified", bps |-> One(id, Parsed(hit))]>>
                ELSE <<>>
    IN /\ gdb.inferior = "running" /\ b.enabled /\ b.times < MaxHits
       /\ gdb' = [gdb EXCEPT !.table[id] = hit,
                             !.inferior = IF stop THEN "stopped" ELSE @]
       /\ out' = out \o told \o (IF stop THEN <<[kind |-> "stopped", bps |-> Nothing]>>
                                 ELSE <<>>)
       /\ UNCHANGED <<n, wanted, may>>

(* It stops elsewhere, or exits.                                           *)
Halts ==
    /\ gdb.inferior = "running"
    /\ \E how \in {"stopped", "none"} : gdb' = [gdb EXCEPT !.inferior = how]
    /\ UNCHANGED <<n, out, wanted, may>>

-----------------------------------------------------------------------------
User ==
    \/ \E loc \in Locs, count \in BOOLEAN : SetBreakpoint(loc, count)
    \/ \E id \in DOMAIN n.shown :
        \/ DeleteBreakpoint(id) \/ ToggleEnabled(id) \/ ToggleCountpoint(id)
        \/ \E count \in 0..MaxIgnore : EditIgnoreCount(id, count)
    \/ Continue \/ Rerun \/ Restart \/ Resume

Next == \/ User \/ OnOutputRecord \/ GdbAnswers \/ Halts
        \/ \E id \in DOMAIN gdb.table : Hit(id)

Spec == Init /\ [][Next]_vars

FairSpec == Spec /\ WF_vars(OnOutputRecord) /\ WF_vars(GdbAnswers)

-----------------------------------------------------------------------------
(* Properties.                                                             *)

(* Once everything is answered the cache has the breakpoints GDB has,      *)
(* although lists only ever add to it.                                     *)
CacheIsGdbs ==
    Quiet => /\ DOMAIN n.cache = DOMAIN gdb.table
             /\ \A id \in DOMAIN n.cache :
                    /\ n.cache[id].loc = gdb.table[id].loc
                    /\ n.cache[id].enabled = gdb.table[id].enabled

(* The map and the view show the cache, each breakpoint once, although     *)
(* they are emptied at each run and rows are added without a look at those *)
(* that are there.                                                         *)
ShownIsCached ==
    Quiet => /\ n.shown = n.cache
             /\ \A id \in Ids : n.rows[id] = IF id \in DOMAIN n.cache THEN 1 ELSE 0

(* What the user chose for each line is what the program is debugged with. *)
Kept(Same(_, _)) ==
    Quiet /\ Waits =>
        /\ \A loc \in DOMAIN wanted : \E id \in DOMAIN n.cache :
                n.cache[id].loc = loc /\ Same(n.cache[id], wanted[loc])
        /\ \A id \in DOMAIN n.cache : n.cache[id].loc \in DOMAIN wanted

(* The choices one by one.  They hold as ChoicesKept does, for a user who  *)
(* waits.  A new GDB brings back what was deleted and forgets what was     *)
(* disabled or made a countpoint; a resumed session sets one breakpoint; a *)
(* hasty user loses countpoints and ignore counts (see the README).        *)
LinesKept        == Kept(LAMBDA b, w : TRUE)
EnabledKept      == Kept(LAMBDA b, w : b.enabled = w.enabled)
CountpointsKept  == Kept(LAMBDA b, w : b.count = w.count)
IgnoreCountsKept == Kept(LAMBDA b, w : b.initial = w.initial)
ChoicesKept      == Kept(LAMBDA b, w : b = w)

(* A countpoint does not stop the program.                                 *)
CountpointsContinue ==
    gdb.inferior = "running" /\ Waits =>
        \A id \in DOMAIN gdb.table :
            LET loc == gdb.table[id].loc IN
            loc \in DOMAIN wanted /\ wanted[loc].count => gdb.table[id].script

(* Each run of the program ignores as many hits as the user asked for,     *)
(* although GDB counts them down (re_initialize_set_breakpoints).          *)
RunsIgnore ==
    [][GdbRuns /\ Waits => \A id \in DOMAIN gdb.table :
            LET loc == gdb.table[id].loc IN
            loc \in DOMAIN wanted => gdb.table[id].ignore = wanted[loc].initial]_vars

(* A breakpoint the user deletes goes away.  (Asked for while the program  *)
(* runs, it goes when the program stops, and it may never.)                *)
Deleting(id) == \E i \in 1..Len(n.queue) :
                    n.queue[i].op = "delete" /\ n.queue[i].id = id
DeletedGoes ==
    \A id \in Ids : (Waits /\ Deleting(id)) ~> id \notin DOMAIN n.shown
=============================================================================
