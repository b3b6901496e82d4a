------------------------ MODULE DebugSession_proofs ------------------------
(***************************************************************************)
(* Theorems about DebugSession: its types, and that the engine's state,    *)
(* the menus and is_attached agree with the inferior once all is handled.  *)
(***************************************************************************)
EXTENDS DebugSession, TLAPS

(* The commands that set the inferior in motion.                           *)
Moves == {"resume", "run"}

Results == {Result("done"), Result("running"), Result("error")}
Stops == {Stopped("hit"), Stopped("exit")}

In(k, s) == \E i \in 1..Len(s) : s[i] = k

(* The menus of a state that was announced.                                *)
Ready == {"detach", "loaded", "ready"}
Busy == {"detach", "busy"}

-----------------------------------------------------------------------------
(* What the operators of the engine do to its parts.                       *)

(* t differs from s in what the line carries, state and menus only.        *)
SameRest(s, t) ==
    /\ t.connected = s.connected /\ t.attached = s.attached
    /\ t.running = s.running /\ t.prog = s.prog /\ t.alive = s.alive

SameLine(s, t) ==
    /\ t.queued = s.queued /\ t.started = s.started /\ t.wire = s.wire

(* t is s with the command c on the wire and the commands cs behind it.    *)
Issued(s, t, c, cs) ==
    /\ t.started = <<c>> /\ t.wire = <<c>> /\ t.queued = cs
    /\ t.state = "RUNNING"
    /\ t.menus = IF s.state = "RUNNING" THEN s.menus ELSE Busy
    /\ SameRest(s, t)

LEMMA SetStateEffect ==
    ASSUME NEW s \in Engine, NEW st \in States
    PROVE  LET t == SetState(s, st)
               kept == (st = "READY" /\ s.queued # <<>>) \/ s.state = st
           IN /\ t \in Engine /\ SameRest(s, t) /\ SameLine(s, t)
              /\ t.state = IF kept THEN s.state ELSE st
              /\ t.menus = IF kept THEN s.menus ELSE Sensitive(st, s.menus)
<1>1. Sensitive(st, s.menus) \in SUBSET Menus
  BY DEF Sensitive, Menus, States, Engine
<1> QED
  BY <1>1 DEF SetState, SameRest, SameLine, Engine

LEMMA IssueEffect ==
    ASSUME NEW s \in Engine, s.started = <<>>, s.wire = <<>>, NEW c \in Kinds
    PROVE  Issue(s, c) \in Engine /\ Issued(s, Issue(s, c), c, s.queued)
<1> DEFINE a == Append(s.started, c)
           w == Append(s.wire, c)
           u == [s EXCEPT !.started = a, !.wire = w]
<1>1. a = <<c>> /\ w = <<c>>
  OBVIOUS
<1>2. <<c>> \in AtMostOne
  BY DEF AtMostOne
<1> HIDE DEF a, w
<1>3. /\ u \in Engine /\ SameRest(s, u) /\ u.queued = s.queued
      /\ u.started = <<c>> /\ u.wire = <<c>> /\ u.state = s.state /\ u.menus = s.menus
  BY <1>1, <1>2 DEF Engine, SameRest
<1>4. Issue(s, c) = SetState(u, "RUNNING")
  BY DEF Issue, a, w
<1> HIDE DEF u
<1>5. Sensitive("RUNNING", s.menus) = Busy /\ "RUNNING" \in States
  BY DEF Sensitive, Busy, States
<1> QED
  BY <1>3, <1>4, <1>5, SetStateEffect DEF Issued, SameRest, SameLine

(* Commands queued while nothing is in flight.                             *)
LEMMA QueueAllIdle ==
    ASSUME NEW s \in Engine, s.started = <<>>, s.wire = <<>>, s.queued = <<>>,
           NEW cs \in Seq(Kinds), cs # <<>>
    PROVE  /\ QueueAll(s, cs) \in Engine
           /\ Issued(s, QueueAll(s, cs), Head(cs), Tail(cs))
<1> DEFINE all == s.queued \o cs
           u == [s EXCEPT !.queued = all]
           c == Head(cs)
           v == Issue(u, c)
<1>1. all = cs /\ c \in Kinds /\ Tail(cs) \in Seq(Kinds)
  OBVIOUS
<1>2. /\ u \in Engine /\ SameRest(s, u) /\ u.queued = cs
      /\ u.started = <<>> /\ u.wire = <<>> /\ u.state = s.state /\ u.menus = s.menus
  BY <1>1 DEF Engine, SameRest
<1>3. QueueAll(s, cs) = [v EXCEPT !.queued = Tail(@)]
  BY <1>1 DEF QueueAll, Idle
<1> HIDE DEF u, c, all
<1>4. v \in Engine /\ Issued(u, v, c, cs)
  BY <1>1, <1>2, IssueEffect
<1> HIDE DEF v
<1>5. v.queued = cs
  BY <1>4 DEF Issued
<1>6. QueueAll(s, cs) \in Engine
  BY <1>1, <1>3, <1>4, <1>5 DEF Engine
<1>7. Issued(s, QueueAll(s, cs), c, Tail(cs))
  BY <1>1, <1>2, <1>3, <1>4, <1>5 DEF Issued, SameRest, Engine
<1> QED
  BY <1>6, <1>7 DEF c

(* Commands queued behind one in flight; or none.                          *)
LEMMA QueueAllBusy ==
    ASSUME NEW s \in Engine, NEW cs \in Seq(Kinds),
           s.started # <<>> \/ cs = <<>>
    PROVE  LET t == QueueAll(s, cs)
           IN /\ t \in Engine /\ SameRest(s, t) /\ t.started = s.started
              /\ t.wire = s.wire /\ t.state = s.state /\ t.menus = s.menus
              /\ t.queued = s.queued \o cs
<1>1. s.queued \o cs \in Seq(Kinds)
  BY DEF Engine
<1>2. QueueAll(s, cs) = [s EXCEPT !.queued = s.queued \o cs]
  BY DEF QueueAll, Idle
<1> QED
  BY <1>1, <1>2 DEF Engine, SameRest

LEMMA NextCommandEffect ==
    ASSUME NEW s \in Engine, s.wire = <<>>
    PROVE  LET t == NextCommand(s)
           IN /\ t \in Engine
              /\ s.queued # <<>> => Issued(s, t, Head(s.queued), Tail(s.queued))
              /\ s.queued = <<>> =>
                    /\ SameRest(s, t) /\ t.started = <<>> /\ t.wire = <<>>
                    /\ t.queued = <<>> /\ t.state = s.state /\ t.menus = s.menus
<1> DEFINE u == [s EXCEPT !.started = <<>>]
           q == s.queued
           c == Head(q)
           v == Issue(u, c)
<1>1. /\ u \in Engine /\ SameRest(s, u) /\ u.queued = q
      /\ u.started = <<>> /\ u.wire = <<>> /\ u.state = s.state /\ u.menus = s.menus
  BY DEF Engine, SameRest, AtMostOne
<1>2. CASE q = <<>>
  BY <1>1, <1>2 DEF NextCommand
<1>3. CASE q # <<>>
  <2>1. c \in Kinds /\ Tail(q) \in Seq(Kinds)
    BY <1>3 DEF Engine
  <2>2. NextCommand(s) = [v EXCEPT !.queued = Tail(@)]
    BY <1>3 DEF NextCommand
  <2> HIDE DEF u, c
  <2>3. v \in Engine /\ Issued(u, v, c, q)
    BY <1>1, <2>1, IssueEffect
  <2> HIDE DEF v, q
  <2>4. v.queued = q
    BY <2>3 DEF Issued
  <2>5. NextCommand(s) \in Engine
    BY <2>1, <2>2, <2>3, <2>4 DEF Engine
  <2>6. Issued(s, NextCommand(s), c, Tail(q))
    BY <1>1, <2>1, <2>2, <2>3, <2>4 DEF Issued, SameRest, Engine
  <2> QED
    BY <1>3, <2>5, <2>6 DEF c, q
<1> QED
  BY <1>2, <1>3

-----------------------------------------------------------------------------
(* What the handlers do.                                                   *)

LEMMA KnownSeqs ==
    /\ <<>> \in Seq(Kinds) /\ <<"query">> \in Seq(Kinds) /\ <<"main">> \in Seq(Kinds)
    /\ <<"run">> \in Seq(Kinds) /\ <<"query", "run">> \in Seq(Kinds)
    /\ <<"attach", "query">> \in Seq(Kinds) /\ <<"resume", "query">> \in Seq(Kinds)
BY DEF Kinds

(* A command in front of others.                                           *)
LEMMA InFront ==
    ASSUME NEW c \in Kinds, NEW cs \in Seq(Kinds)
    PROVE  /\ <<c>> \o cs \in Seq(Kinds) /\ <<c>> \o cs # <<>>
           /\ Head(<<c>> \o cs) = c /\ Tail(<<c>> \o cs) = cs
<1>1. <<c>> \in Seq(Kinds)
  OBVIOUS
<1>2. PICK j : j = <<c>> \o cs
  OBVIOUS
<1>3. /\ j \in Seq(Kinds) /\ Len(j) = Len(cs) + 1 /\ j[1] = c
      /\ \A i \in 1..Len(cs) : j[i + 1] = cs[i]
  BY <1>1, <1>2
<1>4. j # <<>> /\ Head(j) = c
  BY <1>3
<1>5. Tail(j) = cs
  <2>1. Tail(j) \in Seq(Kinds) /\ Len(Tail(j)) = Len(cs)
    BY <1>3, <1>4
  <2>2. \A i \in 1..Len(cs) : Tail(j)[i] = cs[i]
    BY <1>3, <1>4
  <2> QED
    BY <2>1, <2>2
<1> QED
  BY <1>2, <1>3, <1>4, <1>5

LEMMA QueryIsKind ==
    ASSUME NEW views \in Views
    PROVE  /\ views \in Seq(Kinds) /\ <<"query">> \o views \in Seq(Kinds)
           /\ <<"query">> \o views # <<>>
           /\ Head(<<"query">> \o views) = "query" /\ Tail(<<"query">> \o views) = views
<1>1. PICK n \in 0..MaxFollowUps : views \in [1..n -> {"query"}]
  BY DEF Views
<1>2. views \in Seq({"query"})
  BY <1>1, SessionAssumption
<1>3. views \in Seq(Kinds) /\ "query" \in Kinds
  BY <1>2 DEF Kinds
<1> QED
  BY <1>3, InFront

(* t is what a stop makes of s, when the views queue what views says.      *)
HitDone(s, views, t) ==
    /\ t \in Engine /\ t.attached /\ t.connected = s.connected
    /\ s.started = <<>> =>
          /\ t.started = <<"query">> /\ t.wire = <<"query">> /\ t.queued = views
          /\ t.state = IF views = <<>> THEN "READY" ELSE "RUNNING"
          /\ t.menus = IF views = <<>> THEN Ready
                       ELSE IF s.state = "RUNNING" THEN s.menus ELSE Busy
    /\ s.started # <<>> =>
          /\ t.started = s.started /\ t.wire = s.wire
          /\ t.queued = s.queued \o (<<"query">> \o views) /\ t.queued # <<>>
          /\ t.state = s.state /\ t.menus = s.menus

LEMMA HitEffect ==
    ASSUME NEW s \in Engine, s.started = <<>> => s.wire = <<>> /\ s.queued = <<>>,
           NEW views \in Views
    PROVE  HitDone(s, views, OnHit(s, views))
<1>1. PICK cs : cs = <<"query">> \o views
  OBVIOUS
<1>2. cs \in Seq(Kinds) /\ cs # <<>> /\ Head(cs) = "query" /\ Tail(cs) = views
  BY <1>1, QueryIsKind
<1>3. PICK u : u = QueueAll(s, cs)
  OBVIOUS
<1>4. PICK v : v = [u EXCEPT !.attached = TRUE]
  OBVIOUS
<1>5. OnHit(s, views) = SetState(v, "READY")
  BY <1>1, <1>3, <1>4 DEF OnHit
<1>6. "READY" \in States /\ \A menus : Sensitive("READY", menus) = Ready
  BY DEF States, Sensitive, Ready
<1>7. CASE s.started = <<>>
  <2>1. u \in Engine /\ Issued(s, u, "query", views)
    BY <1>2, <1>3, <1>7, QueueAllIdle
  <2>2. /\ v \in Engine /\ v.attached /\ v.connected = s.connected
        /\ v.started = <<"query">> /\ v.wire = <<"query">> /\ v.queued = views
        /\ v.state = "RUNNING" /\ v.menus = u.menus
    BY <1>4, <2>1 DEF Engine, Issued, SameRest
  <2>3. u.menus = IF s.state = "RUNNING" THEN s.menus ELSE Busy
    BY <2>1 DEF Issued
  <2> QED
    BY <1>5, <1>6, <1>7, <2>2, <2>3, SetStateEffect DEF SameRest, SameLine, HitDone
<1>8. CASE s.started # <<>>
  <2>1. /\ u \in Engine /\ SameRest(s, u) /\ u.started = s.started
        /\ u.wire = s.wire /\ u.state = s.state /\ u.menus = s.menus
        /\ u.queued = s.queued \o cs
    BY <1>2, <1>3, <1>8, QueueAllBusy
  <2>2. s.queued \o cs # <<>>
    BY <1>2 DEF Engine
  <2>3. /\ v \in Engine /\ v.attached /\ v.connected = s.connected
        /\ v.started = s.started /\ v.wire = s.wire /\ v.queued = s.queued \o cs
        /\ v.state = s.state /\ v.menus = s.menus
    BY <1>4, <2>1 DEF Engine, SameRest
  <2>4. /\ SetState(v, "READY") \in Engine /\ SameRest(v, SetState(v, "READY"))
        /\ SameLine(v, SetState(v, "READY"))
        /\ SetState(v, "READY").state = v.state /\ SetState(v, "READY").menus = v.menus
    BY <1>6, <2>2, <2>3, SetStateEffect
  <2> QED
    BY <1>1, <1>5, <1>8, <2>2, <2>3, <2>4 DEF SameRest, SameLine, HitDone
<1> QED
  BY <1>7, <1>8

LEMMA ExitEffect ==
    ASSUME NEW s \in Engine
    PROVE  LET t == OnExit(s)
           IN /\ t \in Engine /\ SameLine(s, t) /\ t.connected = s.connected
              /\ ~t.attached /\ t.state = "PROGRAM_EXITED"
              /\ t.menus = (s.menus \ {"ready", "busy"}) \union {"loaded"}
<1>1. PICK u : u = [s EXCEPT !.running = FALSE]
  OBVIOUS
<1>2. u \in Engine /\ SameLine(s, u) /\ u.connected = s.connected /\ u.menus = s.menus
      /\ u.state = s.state
  BY <1>1 DEF Engine, SameLine
<1>3. PICK v : v = SetState(u, "PROGRAM_EXITED")
  OBVIOUS
<1>4. /\ v \in Engine /\ SameLine(u, v) /\ v.connected = u.connected
      /\ v.state = "PROGRAM_EXITED"
      /\ v.menus = s.menus \/ v.menus = (s.menus \ {"ready", "busy"}) \union {"loaded"}
  <2>1. "PROGRAM_EXITED" \in States
        /\ Sensitive("PROGRAM_EXITED", s.menus) = (s.menus \ {"ready", "busy"}) \union {"loaded"}
    BY DEF States, Sensitive
  <2> QED
    BY <1>2, <1>3, <2>1, SetStateEffect DEF SameRest
<1>5. OnExit(s) = Finished(Detached(v))
  BY <1>1, <1>3 DEF OnExit
<1>6. PICK w : w = Detached(v)
  OBVIOUS
<1>7. /\ w \in Engine /\ SameLine(v, w) /\ w.connected = v.connected /\ ~w.attached
      /\ w.state = v.state /\ w.menus = v.menus \ {"ready", "busy", "loaded"}
  BY <1>4, <1>6 DEF Detached, Engine, SameLine
<1>8. PICK menus : menus = Sensitive("PROGRAM_EXITED", w.menus)
  OBVIOUS
<1>9. menus = (w.menus \ {"ready", "busy"}) \union {"loaded"} /\ menus \in SUBSET Menus
  BY <1>7, <1>8 DEF Sensitive, Menus, Engine
<1>10. Finished(w) = [w EXCEPT !.attached = FALSE, !.menus = menus]
  BY <1>8 DEF Finished
<1>11. menus = (s.menus \ {"ready", "busy"}) \union {"loaded"}
  BY <1>4, <1>7, <1>9
<1>12. PICK t : t = [w EXCEPT !.attached = FALSE, !.menus = menus]
  OBVIOUS
<1>13. /\ t \in Engine /\ SameLine(w, t) /\ t.connected = w.connected
       /\ ~t.attached /\ t.state = w.state /\ t.menus = menus
  BY <1>7, <1>9, <1>12 DEF Engine, SameLine
<1>14. OnExit(s) = t
  BY <1>5, <1>6, <1>10, <1>12
<1>15. SameLine(s, t)
  BY <1>2, <1>4, <1>7, <1>13 DEF SameLine
<1> QED
  BY <1>2, <1>4, <1>7, <1>11, <1>13, <1>14, <1>15

(* What is left to do after the result r of the command c, cs being queued *)
(* and slot queued by its slot.                                            *)
Left(r, c, cs, slot) ==
    CASE r = Result("done") /\ c = "detach" -> <<>>
      [] r = Result("done") /\ c = "attach" -> cs \o <<"resume", "query">>
      [] r = Result("done") /\ c \notin {"load", "attach", "detach"} -> cs \o slot
      [] OTHER -> cs

(* The state when nothing is left to do.                                   *)
Ended(r, c, s) ==
    CASE r = Result("done") /\ c = "load" -> "INFERIOR_LOADED"
      [] r = Result("done") /\ c = "detach" -> "NOT_STARTED"
      [] r = Result("running") -> s.state
      [] OTHER -> "READY"

AttachedAfter(r, c, s) ==
    CASE r = Result("done") /\ c \in {"load", "attach"} -> TRUE
      [] r = Result("done") /\ c = "detach" -> FALSE
      [] OTHER -> s.attached

(* t is what the result r of the command c makes of s: the next command is *)
(* issued, if one is left.                                                 *)
ResultDone(s, r, c, left, t) ==
    /\ t \in Engine /\ t.connected = s.connected
    /\ t.attached = AttachedAfter(r, c, s)
    /\ left \in Seq(Kinds)
    /\ left # <<>> =>
          /\ t.started = <<Head(left)>> /\ t.wire = <<Head(left)>>
          /\ t.queued = Tail(left) /\ t.state = "RUNNING"
          /\ \/ t.menus = Busy
             \/ /\ t.menus = s.menus /\ s.state = "RUNNING"
                /\ ~(r = Result("done") /\ c = "load")
    /\ left = <<>> =>
          /\ t.started = <<>> /\ t.wire = <<>> /\ t.queued = <<>>
          /\ t.state = Ended(r, c, s)
          /\ \/ s.state = t.state /\ t.menus = s.menus
             \/ t.menus = {"loaded"} /\ t.state = "INFERIOR_LOADED"
             \/ t.menus \subseteq s.menus /\ t.state = "NOT_STARTED"
             \/ t.menus = Ready /\ t.state = "READY"

LEMMA ResultEffect ==
    ASSUME NEW s \in Engine, NEW c \in Kinds, s.started = <<c>>, s.wire = <<>>,
           NEW r \in Results, NEW slot \in {<<>>, <<"run">>}
    PROVE  ResultDone(s, r, c, Left(r, c, s.queued, slot), NextCommand(OnResult(s, r, slot)))
<1>1. PICK u : u = OnResult(s, r, slot)
  OBVIOUS
<1> DEFINE Mid(left) ==
      /\ u \in Engine /\ u.connected = s.connected /\ u.wire = <<>>
      /\ u.attached = AttachedAfter(r, c, s)
      /\ left \in Seq(Kinds) /\ u.queued = left
      /\ left # <<>> => \/ u.state # "RUNNING"
                        \/ /\ u.menus = s.menus /\ s.state = "RUNNING"
                           /\ ~(r = Result("done") /\ c = "load")
      /\ left = <<>> =>
            /\ u.state = Ended(r, c, s)
            /\ \/ s.state = u.state /\ u.menus = s.menus
               \/ u.menus = {"loaded"} /\ u.state = "INFERIOR_LOADED"
               \/ u.menus \subseteq s.menus /\ u.state = "NOT_STARTED"
               \/ u.menus = Ready /\ u.state = "READY"
<1>2. \A menus : /\ Sensitive("INFERIOR_LOADED", menus) = {"loaded"}
                 /\ Sensitive("READY", menus) = Ready
                 /\ Sensitive("NOT_STARTED", menus) = {}
  BY DEF Sensitive, Ready
<1>3. {"INFERIOR_LOADED", "READY", "NOT_STARTED"} \subseteq States
  BY DEF States
<1>4. s.queued \in Seq(Kinds) /\ slot \in Seq(Kinds) /\ Head(s.started) = c
  <2>1. <<"run">> \in Seq(Kinds) /\ <<>> \in Seq(Kinds)
    BY DEF Kinds
  <2>2. Head(<<c>>) = c
    OBVIOUS
  <2> QED
    BY <2>1, <2>2 DEF Engine
<1>5. ASSUME r = Result("done") /\ c = "load"
      PROVE  Mid(Left(r, c, s.queued, slot))
  <2>1. Left(r, c, s.queued, slot) = s.queued /\ AttachedAfter(r, c, s) = TRUE
        /\ Ended(r, c, s) = "INFERIOR_LOADED"
    BY <1>5 DEF Left, AttachedAfter, Ended, Result
  <2>2. PICK v : v = [s EXCEPT !.attached = TRUE]
    OBVIOUS
  <2>3. v \in Engine /\ v.attached = TRUE /\ v.connected = s.connected /\ SameLine(s, v)
        /\ v.state = s.state /\ v.menus = s.menus
    BY <2>2 DEF Engine, SameLine
  <2>4. u = SetState(v, "INFERIOR_LOADED")
    BY <1>1, <1>4, <1>5, <2>2 DEF OnResult, OnDone, Result
  <2>5. /\ u \in Engine /\ SameRest(v, u) /\ SameLine(v, u) /\ u.state = "INFERIOR_LOADED"
        /\ (u.menus = s.menus /\ s.state = u.state) \/ u.menus = {"loaded"}
    BY SMTT(30), <1>2, <1>3, <2>3, <2>4, SetStateEffect
  <2>6. Mid(s.queued)
    BY <1>4, <1>5, <2>1, <2>3, <2>5 DEF SameRest, SameLine
  <2> QED
    BY <2>1, <2>6
<1>6. ASSUME r = Result("done") /\ c = "attach"
      PROVE  Mid(Left(r, c, s.queued, slot))
  <2>1. PICK left : left = s.queued \o <<"resume", "query">>
    OBVIOUS
  <2>2. Left(r, c, s.queued, slot) = left /\ AttachedAfter(r, c, s) = TRUE
    BY <1>6, <2>1 DEF Left, AttachedAfter, Result
  <2>3. PICK v : v = [s EXCEPT !.attached = TRUE]
    OBVIOUS
  <2>4. v \in Engine /\ v.attached = TRUE /\ v.connected = s.connected /\ SameLine(s, v)
        /\ v.state = s.state /\ v.menus = s.menus
    BY <2>3 DEF Engine, SameLine
  <2>5. PICK w : w = SetState(v, "READY")
    OBVIOUS
  <2>6. /\ w \in Engine /\ SameRest(v, w) /\ SameLine(v, w)
        /\ w.state = "READY" \/ (w.state = s.state /\ w.menus = s.menus)
    BY SMTT(30), <1>2, <1>3, <2>4, <2>5, SetStateEffect
  <2>7. u = QueueAll(w, <<"resume", "query">>)
    BY <1>1, <1>4, <1>6, <2>3, <2>5 DEF OnResult, OnDone, AttachDone, Result
  <2>8. <<"resume", "query">> \in Seq(Kinds) /\ w.started # <<>>
    BY <2>4, <2>6 DEF Kinds, SameLine
  <2>9. /\ u \in Engine /\ SameRest(w, u) /\ u.wire = w.wire /\ u.state = w.state
        /\ u.menus = w.menus /\ u.queued = w.queued \o <<"resume", "query">>
    BY <2>6, <2>7, <2>8, QueueAllBusy
  <2>10. left \in Seq(Kinds) /\ left # <<>> /\ u.queued = left
    BY <1>4, <2>1, <2>4, <2>6, <2>8, <2>9 DEF SameLine
  <2>11. Mid(left)
    BY <1>6, <2>2, <2>4, <2>6, <2>9, <2>10 DEF SameRest, SameLine, Result
  <2> QED
    BY <2>2, <2>11
<1>7. ASSUME r = Result("done") /\ c = "detach"
      PROVE  Mid(Left(r, c, s.queued, slot))
  <2>1. /\ Left(r, c, s.queued, slot) = <<>> /\ AttachedAfter(r, c, s) = FALSE
        /\ Ended(r, c, s) = "NOT_STARTED"
    BY <1>7 DEF Left, AttachedAfter, Ended, Result
  <2>2. PICK v0, v : v0 = ResetCommandQueue(s) /\ v = Detached(v0)
    OBVIOUS
  <2>19. <<>> \in Seq(Kinds) /\ <<>> \in AtMostOne
    BY DEF AtMostOne
  <2>20. /\ v0 \in Engine /\ v0.connected = s.connected /\ v0.queued = <<>>
         /\ v0.wire = <<>> /\ v0.state = s.state /\ v0.menus = s.menus
    BY <2>2, <2>19 DEF Engine, ResetCommandQueue
  <2>3. /\ v \in Engine /\ v.attached = FALSE /\ v.connected = s.connected
        /\ v.queued = <<>> /\ v.wire = <<>> /\ v.state = s.state /\ v.menus \subseteq s.menus
    BY <2>2, <2>20 DEF Engine, Detached
  <2>4. PICK w : w = SetState(v, "NOT_STARTED")
    OBVIOUS
  <2>5. /\ w \in Engine /\ SameRest(v, w) /\ SameLine(v, w)
        /\ w.state = "NOT_STARTED" /\ w.menus \subseteq s.menus
    BY SMTT(30), <1>2, <1>3, <2>3, <2>4, SetStateEffect
  <2>6. u = [w EXCEPT !.attached = FALSE]
    BY <1>1, <1>4, <1>7, <2>2, <2>4 DEF OnResult, OnDone, OnDetached, Result
  <2>7. /\ u \in Engine /\ u.attached = FALSE /\ u.connected = s.connected
        /\ u.queued = <<>> /\ u.wire = <<>> /\ u.state = "NOT_STARTED"
        /\ u.menus \subseteq s.menus
    BY <2>3, <2>5, <2>6 DEF Engine, SameRest, SameLine
  <2>8. Mid(<<>>)
    BY <2>1, <2>7, <2>19
  <2> QED
    BY <2>1, <2>8
<1>8. ASSUME r = Result("done") /\ c \notin {"load", "attach", "detach"}
      PROVE  Mid(Left(r, c, s.queued, slot))
  <2>1. PICK left : left = s.queued \o slot
    OBVIOUS
  <2>2. /\ Left(r, c, s.queued, slot) = left /\ AttachedAfter(r, c, s) = s.attached
        /\ Ended(r, c, s) = "READY"
    BY <1>8, <2>1 DEF Left, AttachedAfter, Ended, Result
  <2>3. PICK v : v = QueueAll(s, slot)
    OBVIOUS
  <2>4. /\ v \in Engine /\ SameRest(s, v) /\ v.wire = <<>> /\ v.state = s.state
        /\ v.menus = s.menus /\ v.queued = left /\ left \in Seq(Kinds)
    BY SMTT(30), <1>4, <2>1, <2>3, QueueAllBusy
  <2>5. u = SetState(v, "READY")
    BY <1>1, <1>4, <1>8, <2>3 DEF OnResult, OnDone, Result
  <2>6. /\ u \in Engine /\ SameRest(v, u) /\ SameLine(v, u)
        /\ left # <<>> => u.state = s.state /\ u.menus = s.menus
        /\ left = <<>> => /\ u.state = "READY"
                          /\ (s.state = "READY" /\ u.menus = s.menus) \/ u.menus = Ready
    BY SMTT(30), <1>2, <1>3, <2>4, <2>5, SetStateEffect
  <2>7. Mid(left)
    BY <1>8, <2>2, <2>4, <2>6 DEF SameRest, SameLine
  <2> QED
    BY <2>2, <2>7
<1>9. ASSUME r = Result("running")
      PROVE  Mid(Left(r, c, s.queued, slot))
  <2>1. /\ Left(r, c, s.queued, slot) = s.queued /\ AttachedAfter(r, c, s) = s.attached
        /\ Ended(r, c, s) = s.state
    BY <1>9 DEF Left, AttachedAfter, Ended, Result
  <2>2. u = [s EXCEPT !.running = TRUE]
    BY <1>1, <1>9 DEF OnResult, OnRunning, Result
  <2>3. /\ u \in Engine /\ u.attached = s.attached /\ u.connected = s.connected
        /\ u.queued = s.queued /\ u.wire = <<>> /\ u.state = s.state /\ u.menus = s.menus
    BY <2>2 DEF Engine
  <2>4. Mid(s.queued)
    BY <1>4, <1>9, <2>1, <2>3 DEF Result
  <2> QED
    BY <2>1, <2>4
<1>10. ASSUME r = Result("error")
      PROVE  Mid(Left(r, c, s.queued, slot))
  <2>1. /\ Left(r, c, s.queued, slot) = s.queued /\ AttachedAfter(r, c, s) = s.attached
        /\ Ended(r, c, s) = "READY"
    BY <1>10 DEF Left, AttachedAfter, Ended, Result
  <2>2. u = SetState(s, "READY")
    BY <1>1, <1>10 DEF OnResult, OnError, Result
  <2>3. /\ u \in Engine /\ SameRest(s, u) /\ SameLine(s, u)
        /\ s.queued # <<>> => u.state = s.state /\ u.menus = s.menus
        /\ s.queued = <<>> => /\ u.state = "READY"
                              /\ (s.state = "READY" /\ u.menus = s.menus) \/ u.menus = Ready
    BY <1>2, <1>3, <2>2, SetStateEffect
  <2>4. Mid(s.queued)
    BY <1>4, <1>10, <2>1, <2>3 DEF SameRest, SameLine, Result
  <2> QED
    BY <2>1, <2>4
<1>11. Mid(Left(r, c, s.queued, slot))
  BY <1>5, <1>6, <1>7, <1>8, <1>9, <1>10 DEF Results
<1>12. PICK left : left = Left(r, c, s.queued, slot)
  OBVIOUS
<1>13. Mid(left)
  BY <1>11, <1>12
<1>14. PICK t : t = NextCommand(u)
  OBVIOUS
<1>15. /\ t \in Engine
       /\ left # <<>> => Issued(u, t, Head(left), Tail(left))
       /\ left = <<>> =>
             /\ SameRest(u, t) /\ t.started = <<>> /\ t.wire = <<>>
             /\ t.queued = <<>> /\ t.state = u.state /\ t.menus = u.menus
  BY <1>13, <1>14, NextCommandEffect
<1>16. ResultDone(s, r, c, left, t)
  BY <1>13, <1>15 DEF ResultDone, Issued, SameRest
<1> QED
  BY <1>1, <1>12, <1>14, <1>16

-----------------------------------------------------------------------------
(* The inductive invariant.                                                *)

Printed == Results \union Stops

(* Nobody both acts before he is answered and has an inferior that exits   *)
(* while a command is unanswered.                                          *)
Tame == ~({"haste", "early exit"} \subseteq may)

(* Both ends of the line: what is on the wire is in flight; who is not     *)
(* connected hears nothing; only a live GDB has an inferior.               *)
LineInv ==
    /\ out \in Seq(Printed)
    /\ gdb = "up" => e.connected
    /\ ~e.connected => out = <<>> /\ e.wire = <<>>
    /\ Idle(e) => e.queued = <<>> /\ e.wire = <<>>
    /\ e.wire # <<>> => e.wire = e.started
    /\ inferior # "none" => gdb = "up"

(* The command in flight has one answer, once it was read, and no other    *)
(* answer is on its way; nothing is printed after a ^done or an ^error.    *)
OutInv ==
    /\ \A i, j \in 1..Len(out) : out[i] \in Results /\ out[j] \in Results => i = j
    /\ e.connected => ((\E i \in 1..Len(out) : out[i] \in Results)
                          <=> (e.started # <<>> /\ e.wire = <<>>))
    /\ In(Result("running"), out) => e.started \in {<<"resume">>, <<"run">>}
    /\ In(Result("error"), out) => e.started # <<"load">>
    /\ \A i \in 1..Len(out) : out[i] \in {Result("done"), Result("error")} => i = Len(out)

(* Where the answer is among the records, and what the inferior does since.*)
AnswerInv == gdb = "up" =>
    /\ \A i \in 1..Len(out) : out[i] \in {Result("done"), Result("error")} =>
          inferior # "running"
    /\ \A i \in 1..Len(out) : out[i] = Result("running") =>
          \/ i = Len(out) /\ inferior = "running"
          \/ i + 1 = Len(out) /\ out[i + 1] = Stopped("hit") /\ inferior = "stopped"
          \/ i + 1 = Len(out) /\ out[i + 1] = Stopped("exit") /\ inferior = "loaded"
    /\ inferior = "running" => out = <<>> \/ out[Len(out)] = Result("running")
    /\ Idle(e) /\ out # <<>> =>
          \/ out = <<Stopped("hit")>> /\ inferior = "stopped"
          \/ out = <<Stopped("exit")>> /\ inferior = "loaded"
    /\ e.started = <<"detach">> /\ In(Result("done"), out) => inferior = "none"

(* A load is the first command a GDB is given.                             *)
LoadInv ==
    /\ ~In("load", e.queued)
    /\ e.started = <<"load">> =>
          /\ inferior \in {"loaded", "none"}
          /\ ~In(Stopped("hit"), out) /\ ~In(Stopped("exit"), out)

(* The state once nothing is in flight.                                    *)
StateInv == gdb = "up" =>
    /\ inferior = "running" /\ out = <<>> /\ Tame => e.state = "RUNNING"
    /\ Idle(e) /\ out = <<>> /\ e.state = "RUNNING" => inferior = "running"
    /\ Idle(e) /\ out = <<>> /\ inferior = "stopped" => e.state = "READY"

(* The last command in the queue will leave the state RUNNING if it sets   *)
(* the inferior in motion: no exit is handled after it was issued, or a    *)
(* stop queues others behind it.                                           *)
TurnInv == Tame =>
    /\ \A i \in 1..Len(out) : out[i] = Result("running") =>
          \/ e.queued # <<>>
          \/ \E j \in 1..(i - 1) : out[j] = Stopped("hit")
          \/ e.state = "RUNNING" /\ \A j \in 1..(i - 1) : out[j] # Stopped("exit")
    /\ e.wire \in {<<"resume">>, <<"run">>} /\ e.queued = <<>> =>
          \/ In(Stopped("hit"), out)
          \/ e.state = "RUNNING" /\ ~In(Stopped("exit"), out)
    /\ ~Waits /\ In(Stopped("exit"), out) =>
          /\ out[1] = Stopped("exit") /\ e.state = "RUNNING"
          /\ \A i \in 2..Len(out) : out[i] # Stopped("exit")

(* What is in the queue when a program is launched.                        *)
Launching ==
    \/ e.started = <<"load">> /\ e.queued \in {<<>>, <<"main">>, <<"query", "run">>}
    \/ e.started = <<"main">> /\ e.queued = <<>>
    \/ e.started = <<"query">> /\ e.queued = <<"run">>

HasMain == e.started = <<"main">> \/ In("main", e.queued)

(* The user who waits never has two commands in the pipe.                  *)
WaitInv == Waits =>
    /\ e.wire \in {<<"resume">>, <<"run">>} /\ e.queued = <<>> =>
          out = <<>> /\ e.state = "RUNNING" /\ inferior # "running"
    /\ HasMain \/ In("run", e.queued) =>
          /\ Launching /\ inferior \in {"none", "loaded"}
          /\ ~In(Stopped("hit"), out) /\ ~In(Stopped("exit"), out)
    /\ e.queued # <<>> => e.queued[Len(e.queued)] # "resume"
    /\ e.wire = <<"run">> => e.queued = <<>>
    /\ ~In("detach", e.queued)
    /\ gdb = "up" /\ e.wire = <<"detach">> /\ inferior = "running" => sigint

(* The last command of the pipe, when nothing is told of an attachment.    *)
LastIsMove ==
    IF e.queued = <<>> THEN e.started \in {<<"resume">>, <<"run">>}
    ELSE e.queued[Len(e.queued)] \in Moves

(* The menus of the state; a GDB that died while RUNNING leaves the menus  *)
(* grey until the state has changed.                                       *)
MenuInv ==
    /\ ~({"ready", "busy"} \subseteq e.menus)
    /\ e.state = "RUNNING" => "detach" \in e.menus /\ e.menus \subseteq Busy
    /\ e.connected /\ e.state = "READY" => e.menus = Ready
    /\ e.connected /\ e.state = "PROGRAM_EXITED" => "loaded" \in e.menus
    /\ e.connected /\ e.state = "RUNNING" /\ "busy" \notin e.menus =>
          \/ e.started = <<"load">>
          \/ e.started # <<>> /\ ~HasMain /\ ~LastIsMove

(* is_attached, in a debugger whose user waits and only continues what he  *)
(* is attached to.                                                         *)
Attaching == e.started = <<"attach">> /\ In(Result("done"), out)

AttachInv ==
    /\ Waits /\ e.connected /\ e.state = "PROGRAM_EXITED" /\ e.attached => e.started # <<>>
    /\ Waits /\ "reuse" \notin may /\ gdb = "up" =>
        /\ inferior \in {"stopped", "running"} => e.attached \/ Attaching
        /\ In(Stopped("exit"), out) => inferior \notin {"stopped", "running"} \/ Attaching
        /\ e.wire = <<"run">> \/ In("run", e.queued) \/ HasMain => e.attached

IInv == /\ TypeOK /\ LineInv /\ OutInv /\ AnswerInv /\ LoadInv
        /\ StateInv /\ TurnInv /\ WaitInv /\ MenuInv /\ AttachInv

-----------------------------------------------------------------------------
(* Sequences.                                                              *)

LEMMA RecordFacts ==
    /\ Results \intersect Stops = {} /\ Printed \subseteq Record
    /\ Stopped("hit") # Stopped("exit") /\ Result("done") # Result("running")
    /\ Result("done") # Result("error") /\ Result("running") # Result("error")
    /\ \A k \in {"done", "running", "error"} : Result(k) \in Results /\ Result(k).stop = "none"
                                               /\ Result(k).result = k
    /\ \A k \in {"hit", "exit"} : Stopped(k) \in Stops /\ Stopped(k).stop = k
                                  /\ Stopped(k).result = "none"
BY DEF Results, Stops, Printed, Record, Result, Stopped

LEMMA EmptySeq ==
    ASSUME NEW S, NEW s \in Seq(S)
    PROVE  s = <<>> <=> Len(s) = 0
OBVIOUS

LEMMA TailFacts ==
    ASSUME NEW S, NEW s \in Seq(S), s # <<>>
    PROVE  /\ Head(s) = s[1] /\ Head(s) \in S /\ Tail(s) \in Seq(S)
           /\ Len(s) \in Nat \ {0} /\ Len(Tail(s)) = Len(s) - 1
           /\ \A i \in 1..(Len(s) - 1) : Tail(s)[i] = s[i + 1]
           /\ Tail(s) = <<>> <=> Len(s) = 1
           /\ \A x : In(x, s) <=> x = Head(s) \/ In(x, Tail(s))
<1>1. /\ Head(s) = s[1] /\ Head(s) \in S /\ Tail(s) \in Seq(S)
      /\ Len(s) \in Nat \ {0} /\ Len(Tail(s)) = Len(s) - 1
      /\ \A i \in 1..(Len(s) - 1) : Tail(s)[i] = s[i + 1]
  OBVIOUS
<1>2. Tail(s) = <<>> <=> Len(s) = 1
  <2>1. Len(Tail(s)) = 0 <=> Len(s) = 1
    BY <1>1
  <2> QED
    BY <1>1, <2>1, EmptySeq
<1>3. ASSUME NEW x PROVE In(x, s) <=> x = Head(s) \/ In(x, Tail(s))
  <2>1. ASSUME In(x, s), x # Head(s) PROVE In(x, Tail(s))
    <3>1. PICK i \in 1..Len(s) : s[i] = x
      BY <2>1 DEF In
    <3>2. i # 1
      BY <1>1, <2>1, <3>1
    <3>3. i - 1 \in 1..Len(Tail(s)) /\ Tail(s)[i - 1] = s[i]
      BY <1>1, <3>2
    <3> QED
      BY <3>1, <3>3 DEF In
  <2>2. ASSUME In(x, Tail(s)) PROVE In(x, s)
    <3>1. PICK i \in 1..Len(Tail(s)) : Tail(s)[i] = x
      BY <2>2 DEF In
    <3>2. i + 1 \in 1..Len(s) /\ s[i + 1] = x
      BY <1>1, <3>1
    <3> QED
      BY <3>2 DEF In
  <2>3. In(Head(s), s)
    BY <1>1 DEF In
  <2> QED
    BY <2>1, <2>2, <2>3
<1> QED
  BY <1>1, <1>2, <1>3

LEMMA AppendFacts ==
    ASSUME NEW S, NEW s \in Seq(S), NEW y \in S
    PROVE  /\ Append(s, y) \in Seq(S) /\ Len(Append(s, y)) = Len(s) + 1 /\ Len(s) \in Nat
           /\ \A i \in 1..Len(s) : Append(s, y)[i] = s[i]
           /\ Append(s, y)[Len(s) + 1] = y /\ Append(s, y) # <<>>
           /\ \A x : In(x, Append(s, y)) <=> x = y \/ In(x, s)
<1>1. /\ Append(s, y) \in Seq(S) /\ Len(Append(s, y)) = Len(s) + 1 /\ Len(s) \in Nat
      /\ \A i \in 1..Len(s) : Append(s, y)[i] = s[i]
      /\ Append(s, y)[Len(s) + 1] = y /\ Append(s, y) # <<>>
  OBVIOUS
<1>2. ASSUME NEW x PROVE In(x, Append(s, y)) <=> x = y \/ In(x, s)
  BY <1>1 DEF In
<1> QED
  BY <1>1, <1>2

LEMMA CatFacts ==
    ASSUME NEW S, NEW s \in Seq(S), NEW t \in Seq(S), t # <<>>
    PROVE  /\ s \o t \in Seq(S) /\ s \o t # <<>>
           /\ (s \o t)[Len(s \o t)] = t[Len(t)]
           /\ \A x : In(x, s \o t) <=> In(x, s) \/ In(x, t)
           /\ s = <<>> => s \o t = t
<1>1. PICK j : j = s \o t
  OBVIOUS
<1>2. /\ j \in Seq(S) /\ Len(j) = Len(s) + Len(t) /\ Len(s) \in Nat /\ Len(t) \in Nat \ {0}
      /\ \A i \in 1..Len(s) : j[i] = s[i]
      /\ \A i \in 1..Len(t) : j[i + Len(s)] = t[i]
      /\ s = <<>> => j = t
  BY <1>1
<1>3. j # <<>> /\ j[Len(j)] = t[Len(t)]
  BY <1>2
<1>4. ASSUME NEW x PROVE In(x, j) <=> In(x, s) \/ In(x, t)
  <2>1. ASSUME In(x, j) PROVE In(x, s) \/ In(x, t)
    <3>1. PICK i \in 1..Len(j) : j[i] = x
      BY <2>1 DEF In
    <3>2. CASE i <= Len(s)
      BY <1>2, <3>1, <3>2 DEF In
    <3>3. CASE i > Len(s)
      <4>1. i - Len(s) \in 1..Len(t) /\ t[i - Len(s)] = x
        BY <1>2, <3>1, <3>3
      <4> QED
        BY <4>1 DEF In
    <3> QED
      BY <1>2, <3>2, <3>3
  <2>2. ASSUME In(x, s) PROVE In(x, j)
    BY <1>2, <2>2 DEF In
  <2>3. ASSUME In(x, t) PROVE In(x, j)
    <3>1. PICK i \in 1..Len(t) : t[i] = x
      BY <2>3 DEF In
    <3>2. i + Len(s) \in 1..Len(j) /\ j[i + Len(s)] = x
      BY <1>2, <3>1
    <3> QED
      BY <3>2 DEF In
  <2> QED
    BY <2>1, <2>2, <2>3
<1> QED
  BY <1>1, <1>2, <1>3, <1>4

-----------------------------------------------------------------------------
(* The steps, by what they do.                                             *)

(* A menu entry queues c, and cs behind it.                                *)
Adds(c, cs) ==
    /\ c \in {"query", "resume", "run", "detach", "attach"}
    /\ cs = IF c = "attach" THEN <<"query">> ELSE <<>>
    /\ c \in Moves => "ready" \in e.menus \/ "loaded" \in e.menus
    /\ c = "run" => "reuse" \in may \/ IsAttached
    /\ c = "detach" => IsAttached /\ Interrupt
    /\ (sigint => sigint') /\ sigint' \in BOOLEAN
    /\ Waits => Idle(e) /\ out = <<>>
    /\ e.connected /\ UNCHANGED <<gdb, inferior, out, may>>
    /\ e' \in Engine /\ e'.connected = e.connected /\ e'.attached = e.attached
    /\ Idle(e) => Issued(e, e', c, cs)
    /\ ~Idle(e) => /\ e'.started = e.started /\ e'.wire = e.wire
                   /\ e'.state = e.state /\ e'.menus = e.menus
                   /\ e'.queued = e.queued \o (<<c>> \o cs)

(* A fresh GDB is given the commands c and cs.                             *)
Launches(c, cs, inf) ==
    /\ gdb' = "up" /\ inferior' = inf /\ out' = <<>> /\ ~sigint' /\ may' = may
    /\ e' \in Engine /\ e'.connected /\ sigint' \in BOOLEAN
    /\ e'.started = <<c>> /\ e'.wire = <<c>> /\ e'.queued = cs /\ e'.state = "RUNNING"
    /\ e'.menus = IF e.state = "RUNNING" THEN e.menus ELSE Busy

LEMMA QueueAllAdds ==
    ASSUME TypeOK, LineInv, NEW c \in Kinds, NEW cs \in {<<>>, <<"query">>},
           e' = QueueAll(e, <<c>> \o cs)
    PROVE  /\ e' \in Engine /\ e'.connected = e.connected /\ e'.attached = e.attached
           /\ Idle(e) => Issued(e, e', c, cs)
           /\ ~Idle(e) => /\ e'.started = e.started /\ e'.wire = e.wire
                          /\ e'.state = e.state /\ e'.menus = e.menus
                          /\ e'.queued = e.queued \o (<<c>> \o cs)
<1>1. PICK all : all = <<c>> \o cs
  OBVIOUS
<1>2. all \in Seq(Kinds) /\ all # <<>> /\ Head(all) = c /\ Tail(all) = cs
  <2>1. cs \in Seq(Kinds)
    BY KnownSeqs
  <2> QED
    BY <1>1, <2>1, InFront
<1>3. e \in Engine
  BY DEF TypeOK
<1>4. e' = QueueAll(e, all)
  BY <1>1
<1>5. CASE Idle(e)
  <2>1. e.started = <<>> /\ e.wire = <<>> /\ e.queued = <<>>
    BY <1>5 DEF LineInv, Idle
  <2>2. e' \in Engine /\ Issued(e, e', c, cs)
    BY <1>2, <1>3, <1>4, <2>1, QueueAllIdle
  <2> QED
    BY <1>5, <2>2 DEF Issued, SameRest
<1>6. CASE ~Idle(e)
  <2>1. e.started # <<>>
    BY <1>6 DEF Idle
  <2>2. /\ e' \in Engine /\ SameRest(e, e') /\ e'.started = e.started
        /\ e'.wire = e.wire /\ e'.state = e.state /\ e'.menus = e.menus
        /\ e'.queued = e.queued \o all
    <3>1. PICK t : t = QueueAll(e, all)
      OBVIOUS
    <3>2. /\ t \in Engine /\ SameRest(e, t) /\ t.started = e.started
          /\ t.wire = e.wire /\ t.state = e.state /\ t.menus = e.menus
          /\ t.queued = e.queued \o all
      BY <1>2, <1>3, <2>1, <3>1, QueueAllBusy
    <3> QED
      BY <1>4, <3>1, <3>2
  <2> QED
    BY <1>1, <1>6, <2>2 DEF SameRest
<1> QED
  BY <1>5, <1>6

LEMMA UserAdds ==
    ASSUME TypeOK, LineInv,
           Query \/ Step \/ Continue \/ Detach \/ Rerun \/ (Attach /\ e.connected)
    PROVE  \E c \in Kinds, cs \in {<<>>, <<"query">>} : Adds(c, cs)
<1>1. \A c : <<c>> \o <<>> = <<c>>
  OBVIOUS
<1>2. {"query", "resume", "run", "detach", "attach"} \subseteq Kinds /\ sigint \in BOOLEAN
  BY DEF Kinds, TypeOK
<1>3. CASE Query
  <2>1. e' = QueueAll(e, <<"query">> \o <<>>)
    BY <1>1, <1>3 DEF Query, Queues
  <2>2. Adds("query", <<>>)
    BY <1>2, <1>3, <2>1, QueueAllAdds DEF Adds, Query, Queues, Press, Free, Waits, Moves, Idle
  <2> QED
    BY <1>2, <2>2
<1>4. CASE Step
  <2>1. e' = QueueAll(e, <<"resume">> \o <<>>)
    BY <1>1, <1>4 DEF Step, Queues
  <2>2. Adds("resume", <<>>)
    BY <1>2, <1>4, <2>1, QueueAllAdds DEF Adds, Step, Queues, Press, Free, Waits, Moves, Idle
  <2> QED
    BY <1>2, <2>2
<1>5. CASE Continue
  <2>1. PICK c \in {"resume", "run"} : e' = QueueAll(e, <<c>> \o <<>>)
    BY <1>1, <1>5 DEF Continue, Queues
  <2>2. Adds(c, <<>>)
    BY <1>2, <1>5, <2>1, QueueAllAdds DEF Adds, Continue, Queues, Press, Free, Waits, Moves, Idle
  <2> QED
    BY <1>2, <2>2
<1>6. CASE Detach
  <2>1. e' = QueueAll(e, <<"detach">> \o <<>>)
    BY <1>1, <1>6 DEF Detach, Queues
  <2>2. Adds("detach", <<>>)
    BY <1>2, <1>6, <2>1, QueueAllAdds
       DEF Adds, Detach, Interrupt, Queues, Press, Free, Waits, Moves, Idle
  <2> QED
    BY <1>2, <2>2
<1>7. CASE Rerun
  <2>1. e' = QueueAll(e, <<"run">> \o <<>>)
    BY <1>1, <1>7 DEF Rerun, Queues
  <2>2. Adds("run", <<>>)
    BY <1>2, <1>7, <2>1, QueueAllAdds
       DEF Adds, Rerun, Interrupt, Queues, Press, Free, Waits, Moves, Idle
  <2> QED
    BY <1>2, <2>2
<1>8. CASE Attach /\ e.connected
  <2>1. <<"attach">> \o <<"query">> = <<"attach", "query">>
    <3>1. <<"attach">> \in Seq(Kinds) /\ <<"query">> \in Seq(Kinds)
      BY DEF Kinds
    <3>2. PICK j : j = <<"attach">> \o <<"query">>
      OBVIOUS
    <3>3. j \in Seq(Kinds) /\ Len(j) = 2 /\ j[1] = "attach" /\ j[2] = "query"
      BY <3>1, <3>2
    <3>4. j = <<j[1], j[2]>>
      BY <3>3
    <3> QED
      BY <3>2, <3>3, <3>4
  <2>2. PICK u : u = [e EXCEPT !.connected = TRUE]
    OBVIOUS
  <2>3. u = e
    BY <1>8, <2>2 DEF TypeOK, Engine
  <2>4. e' = QueueAll(e, <<"attach">> \o <<"query">>)
    BY <1>8, <2>1, <2>2, <2>3 DEF Attach
  <2>5. Adds("attach", <<"query">>)
    BY <1>2, <1>8, <2>4, QueueAllAdds DEF Adds, Attach, Free, Waits, Moves, Idle
  <2> QED
    BY <1>2, <2>5
<1> QED
  BY <1>3, <1>4, <1>5, <1>6, <1>7, <1>8

LEMMA LoadLaunches ==
    ASSUME TypeOK, NEW cs \in {<<>>, <<"main">>, <<"query", "run">>}, LoadAnd(cs)
    PROVE  Launches("load", cs, "loaded") /\ e'.attached
<1>1. PICK all : all = <<"load">> \o cs
  OBVIOUS
<1>2. all \in Seq(Kinds) /\ all # <<>> /\ Head(all) = "load" /\ Tail(all) = cs
  <2>1. "load" \in Kinds /\ cs \in Seq(Kinds)
    BY KnownSeqs DEF Kinds
  <2> QED
    BY <1>1, <2>1, InFront
<1>3. PICK u : u = [ResetCommandQueue(e) EXCEPT !.connected = TRUE, !.wire = <<>>]
  OBVIOUS
<1>4. <<>> \in Seq(Kinds) /\ <<>> \in AtMostOne
  BY DEF AtMostOne
<1>5. /\ u \in Engine /\ u.started = <<>> /\ u.wire = <<>> /\ u.queued = <<>>
      /\ u.connected /\ u.state = e.state /\ u.menus = e.menus
  BY <1>3, <1>4 DEF TypeOK, Engine, ResetCommandQueue
<1>6. PICK v : v = QueueAll(u, all)
  OBVIOUS
<1>7. v \in Engine /\ Issued(u, v, "load", cs)
  BY <1>2, <1>5, <1>6, QueueAllIdle
<1>8. e' = [v EXCEPT !.attached = TRUE, !.prog = TRUE, !.alive = TRUE]
  BY <1>1, <1>3, <1>6 DEF LoadAnd
<1>9. /\ e' \in Engine /\ e'.attached /\ e'.connected = v.connected
      /\ e'.started = v.started /\ e'.wire = v.wire /\ e'.queued = v.queued
      /\ e'.state = v.state /\ e'.menus = v.menus
  BY <1>7, <1>8 DEF Engine
<1> QED
  BY <1>5, <1>7, <1>9 DEF Launches, LoadAnd, Issued, SameRest

LEMMA AttachLaunches ==
    ASSUME TypeOK, LineInv, Attach, ~e.connected
    PROVE  Launches("query", <<"attach", "query">>, "none") /\ e'.attached = e.attached
<1>1. PICK all : all = <<"query", "attach", "query">>
  OBVIOUS
<1>2. all \in Seq(Kinds) /\ all # <<>> /\ Head(all) = "query" /\ Tail(all) = <<"attach", "query">>
  BY <1>1 DEF Kinds
<1>3. PICK u : u = [e EXCEPT !.connected = TRUE]
  OBVIOUS
<1>4. Idle(e) /\ e.queued = <<>> /\ e.wire = <<>>
  BY DEF Attach, LineInv
<1>5. /\ u \in Engine /\ u.started = <<>> /\ u.wire = <<>> /\ u.queued = <<>>
      /\ u.connected /\ u.state = e.state /\ u.menus = e.menus /\ u.attached = e.attached
  BY <1>3, <1>4 DEF TypeOK, Engine, Idle
<1>6. e' = QueueAll(u, all)
  BY <1>1, <1>3 DEF Attach
<1>7. e' \in Engine /\ Issued(u, e', "query", <<"attach", "query">>)
  BY <1>2, <1>5, <1>6, QueueAllIdle
<1> QED
  BY <1>5, <1>7 DEF Launches, Attach, Issued, SameRest

(* A record is a stop or the answer of the command in flight.              *)
HandlesHit(views) ==
    /\ Head(out) = Stopped("hit") /\ views \in Views /\ e' = OnHit(e, views)
HandlesExit == Head(out) = Stopped("exit") /\ e' = OnExit(e)
HandlesResult(r, c, slot) ==
    /\ Head(out) = r /\ r \in Results
    /\ c \in Kinds /\ e.started = <<c>> /\ e.wire = <<>>
    /\ slot \in {<<>>, <<"run">>}
    /\ slot # <<>> => c = "main" /\ r = Result("done")
    /\ e' = NextCommand(OnResult(e, r, slot))

LEMMA RecordCases ==
    ASSUME TypeOK, LineInv, OutInv, OnOutputRecord
    PROVE  \/ \E views \in Views : HandlesHit(views)
           \/ HandlesExit
           \/ \E r \in Results, c \in Kinds, slot \in {<<>>, <<"run">>} : HandlesResult(r, c, slot)
<1>1. PICK r : r = Head(out)
  OBVIOUS
<1>2. r \in Printed /\ r = out[1] /\ Len(out) \in Nat \ {0}
  BY <1>1, TailFacts DEF OnOutputRecord, LineInv
<1>3. PICK queued \in FollowUps(e, r) : e' = Handle(e, r, queued)
  BY <1>1 DEF OnOutputRecord
<1>4. CASE r = Stopped("hit")
  <2>1. r.stop = "hit" /\ r.result = "none"
    BY <1>4, RecordFacts
  <2>2. queued \in Views
    <3>1. FollowUps(e, r) = Views
      BY <2>1 DEF FollowUps
    <3> QED
      BY <1>3, <3>1
  <2>3. e' = OnHit(e, queued)
    BY <1>3, <2>1 DEF Handle
  <2> QED
    BY <1>1, <1>4, <2>2, <2>3 DEF HandlesHit
<1>5. CASE r = Stopped("exit")
  <2>1. r.stop = "exit"
    BY <1>5, RecordFacts
  <2> QED
    BY <1>1, <1>3, <1>5, <2>1 DEF HandlesExit, Handle
<1>6. CASE r \in Results
  <2>1. r.stop = "none" /\ (r.result = "done" => r = Result("done"))
    BY <1>6, RecordFacts DEF Results, Result
  <2>2. e.started # <<>> /\ e.wire = <<>>
    BY <1>2, <1>6 DEF OutInv, OnOutputRecord
  <2>3. PICK c \in Kinds : e.started = <<c>>
    BY <2>2 DEF TypeOK, Engine, AtMostOne
  <2>4. Head(e.started) = c
    BY <2>3
  <2>5. e' = NextCommand(OnResult(e, r, queued))
    BY <1>3, <2>1 DEF Handle
  <2>6. queued \in {<<>>, <<"run">>} /\ (queued # <<>> => c = "main" /\ r = Result("done"))
    <3>1. CASE r.result = "done" /\ c = "main"
      <4>1. queued \in {<<>>, <<"run">>}
        BY <1>3, <2>1, <2>4, <3>1 DEF FollowUps
      <4> QED
        BY <2>1, <3>1, <4>1
    <3>2. CASE ~(r.result = "done" /\ c = "main")
      BY <1>3, <2>1, <2>4, <3>2 DEF FollowUps
    <3> QED
      BY <3>1, <3>2
  <2>7. HandlesResult(r, c, queued)
    BY <1>1, <1>6, <2>2, <2>3, <2>5, <2>6 DEF HandlesResult
  <2> QED
    BY <1>6, <2>3, <2>6, <2>7
<1> QED
  BY <1>2, <1>4, <1>5, <1>6 DEF Printed, Stops

-----------------------------------------------------------------------------
(* The types.                                                              *)

LEMMA InitType == Init => TypeOK
<1>1. <<>> \in Seq(Kinds) /\ <<>> \in AtMostOne /\ <<>> \in Seq(Record)
  BY DEF AtMostOne
<1>2. "NOT_STARTED" \in States /\ {} \in SUBSET Menus
  BY DEF States
<1>3. Init => e \in Engine
  BY <1>1, <1>2 DEF Init, Engine
<1> QED
  BY <1>1, <1>3 DEF Init, TypeOK

LEMMA GdbAnswersType ==
    ASSUME TypeOK, LineInv, GdbAnswers
    PROVE  /\ e' \in Engine /\ e'.wire = <<>> /\ e.wire # <<>> /\ e.wire = e.started
           /\ SameRest(e, e') /\ e'.queued = e.queued /\ e'.started = e.started
           /\ e'.state = e.state /\ e'.menus = e.menus
           /\ gdb = "up" /\ gdb' = gdb /\ sigint' = sigint /\ may' = may
           /\ inferior # "running"
<1>1. PICK w : w = Tail(e.wire)
  OBVIOUS
<1>2. e.wire # <<>> /\ e.wire = e.started /\ e.wire \in AtMostOne
  BY DEF GdbAnswers, LineInv, TypeOK, Engine
<1>3. w = <<>>
  <2>1. PICK k \in Kinds : e.wire = <<k>>
    BY <1>2 DEF AtMostOne
  <2> QED
    BY <1>1, <2>1
<1>4. e' = [e EXCEPT !.wire = w]
  BY <1>1 DEF GdbAnswers
<1>5. <<>> \in AtMostOne
  BY DEF AtMostOne
<1> QED
  BY <1>2, <1>3, <1>4, <1>5 DEF TypeOK, Engine, SameRest, GdbAnswers

(* What GDB answers the command c with.                                    *)
Answers(c) ==
    \/ c # "load" /\ out' = Append(out, Result("error")) /\ inferior' = inferior
    \/ /\ c = "run" \/ (c = "resume" /\ inferior = "stopped")
       /\ out' = Append(out, Result("running")) /\ inferior' = "running"
    \/ /\ c = "attach" /\ inferior' = "stopped"
       /\ \/ out' = Append(out, Result("done"))
          \/ out' = Append(Append(out, Stopped("hit")), Result("done"))
    \/ /\ c \notin {"resume", "run", "attach"}
       /\ out' = Append(out, Result("done"))
       /\ inferior' = IF c = "detach" THEN "none" ELSE inferior

LEMMA GdbAnswerKinds ==
    ASSUME TypeOK, LineInv, GdbAnswers
    PROVE  \E c \in Kinds : e.wire = <<c>> /\ Answers(c)
<1>1. PICK c \in Kinds : e.wire = <<c>>
  BY DEF GdbAnswers, TypeOK, Engine, AtMostOne
<1>2. Head(e.wire) = c
  BY <1>1
<1>3. ASSUME NEW told \in {<<>>, <<Stopped("hit")>>}, out' = out \o told \o <<Result("done")>>
      PROVE  \/ out' = Append(out, Result("done"))
             \/ out' = Append(Append(out, Stopped("hit")), Result("done"))
  <2>1. PICK h, d : h = Stopped("hit") /\ d = Result("done")
    OBVIOUS
  <2>2. h \in Printed /\ d \in Printed /\ out \in Seq(Printed)
    BY <2>1, RecordFacts DEF LineInv, Printed
  <2>3. CASE told = <<>>
    <3>1. (out \o <<>>) \o <<d>> = Append(out, d)
      BY <2>2
    <3> QED
      BY <1>3, <2>1, <2>3, <3>1
  <2>4. CASE told = <<h>>
    <3>1. (out \o <<h>>) \o <<d>> = Append(Append(out, h), d)
      BY <2>2
    <3> QED
      BY <1>3, <2>1, <2>4, <3>1
  <2> QED
    BY <2>1, <2>3, <2>4
<1>4. Answers(c)
  <2>1. CASE c # "load" /\ out' = Append(out, Result("error")) /\ UNCHANGED inferior
    BY <2>1 DEF Answers
  <2>2. CASE /\ Accepts(c) /\ c \in {"resume", "run"}
             /\ out' = Append(out, Result("running")) /\ inferior' = "running"
    BY <2>2 DEF Answers, Accepts
  <2>3. CASE /\ Accepts(c) /\ c = "attach"
             /\ \E told \in {<<>>, <<Stopped("hit")>>} : out' = out \o told \o <<Result("done")>>
             /\ inferior' = "stopped"
    BY <1>3, <2>3 DEF Answers
  <2>4. CASE /\ Accepts(c) /\ c \notin {"resume", "run", "attach"}
             /\ out' = Append(out, Result("done"))
             /\ inferior' = IF c = "detach" THEN "none" ELSE inferior
    BY <2>4 DEF Answers
  <2> QED
    BY <1>2, <2>1, <2>2, <2>3, <2>4 DEF GdbAnswers
<1> QED
  BY <1>1, <1>4

-----------------------------------------------------------------------------
(* The invariant is kept when the user asks for something.                 *)

LEMMA InKnown ==
    /\ \A x : ~In(x, <<>>)
    /\ \A x, y : In(x, <<y>>) <=> x = y
    /\ \A x, y, z : In(x, <<y, z>>) <=> x = y \/ x = z
    /\ \A y, z : <<y, z>>[Len(<<y, z>>)] = z /\ <<y>>[Len(<<y>>)] = y
BY DEF In

LEMMA AddsKeeps ==
    ASSUME IInv, NEW c \in Kinds, NEW cs \in {<<>>, <<"query">>}, Adds(c, cs)
    PROVE  IInv'
<1> USE DEF IInv
<1>1. /\ out' = out /\ gdb' = gdb /\ inferior' = inferior /\ may' = may
      /\ e \in Engine /\ e' \in Engine /\ e'.connected /\ e.connected
      /\ Tame' = Tame /\ Waits' = Waits /\ e'.attached = e.attached
  BY DEF Adds, TypeOK, Tame, Waits
<1>2. CASE Idle(e)
  <2>1. /\ e.started = <<>> /\ e.wire = <<>> /\ e.queued = <<>>
        /\ \A r \in Results : ~In(r, out)
    BY <1>1, <1>2 DEF Idle, LineInv, OutInv, In
  <2>2. /\ e'.started = <<c>> /\ e'.wire = <<c>> /\ e'.queued = cs /\ e'.state = "RUNNING"
        /\ e'.menus = IF e.state = "RUNNING" THEN e.menus ELSE Busy
    BY <1>2 DEF Adds, Issued
  <2>3. /\ ~Idle(e)' /\ ~HasMain' /\ ~In("load", e'.queued) /\ ~In("run", e'.queued)
        /\ ~In("detach", e'.queued) /\ <<c>> # <<>> /\ <<c>> # <<"load">>
        /\ e'.queued # <<>> => e'.queued[Len(e'.queued)] = "query"
        /\ c = "run" => e'.queued = <<>>
    BY <2>2, InKnown DEF Adds, HasMain, Idle
  <2>4. e.state = "RUNNING" => "busy" \in e.menus
    BY <1>1, <2>1 DEF MenuInv
  <2>5. c \in Moves => e.state # "RUNNING"
    BY DEF Adds, MenuInv, Busy
  <2>6. TypeOK'
    BY <1>1 DEF TypeOK, Adds
  <2>7. LineInv'
    BY <1>1, <2>2, <2>3 DEF LineInv
  <2>8. OutInv'
    BY <1>1, <2>1, <2>2, <2>3 DEF OutInv, In, Results
  <2>9. AnswerInv'
    BY <1>1, <2>1, <2>3 DEF AnswerInv, Results
  <2>10. LoadInv'
    BY <1>1, <2>2, <2>3 DEF LoadInv
  <2>11. StateInv'
    BY <1>1, <2>2, <2>3 DEF StateInv
  <2>12. TurnInv'
    <3>1. ASSUME c \in Moves, Tame PROVE ~In(Stopped("exit"), out)
      <4>1. CASE Waits
        BY <4>1, InKnown DEF Adds
      <4>2. CASE ~Waits
        BY <2>5, <3>1, <4>2 DEF TurnInv
      <4> QED
        BY <4>1, <4>2
    <3>2. \A i \in 1..Len(out) : out[i] # Result("running")
      BY <2>1 DEF In, Results
    <3>3. <<c>> \in {<<"resume">>, <<"run">>} => c \in Moves
      BY DEF Moves
    <3> QED
      BY <1>1, <2>2, <3>1, <3>2, <3>3 DEF TurnInv
  <2>13. WaitInv'
    <3> SUFFICES ASSUME Waits PROVE WaitInv'
      BY <1>1 DEF WaitInv
    <3>1. out = <<>> /\ Tame
      BY DEF Adds, Waits, Tame
    <3>2. ASSUME inferior = "running" PROVE e.state = "RUNNING" /\ gdb = "up"
      BY <3>1, <3>2 DEF StateInv, LineInv
    <3>3. c \in Moves => inferior # "running"
      BY <2>5, <3>2
    <3>4. c = "detach" /\ inferior = "running" => sigint'
      BY <3>2 DEF Adds, Interrupt
    <3>5. <<c>> \in {<<"resume">>, <<"run">>} => c \in Moves
      BY DEF Moves
    <3>6. /\ <<c>> = <<"run">> => c = "run"
          /\ <<c>> = <<"detach">> => c = "detach"
      OBVIOUS
    <3> QED
      BY <1>1, <2>2, <2>3, <3>1, <3>3, <3>4, <3>5, <3>6 DEF WaitInv
  <2>14. MenuInv'
    BY <1>1, <2>2, <2>4 DEF MenuInv, Busy
  <2>15. AttachInv'
    <3>1. ASSUME Waits, "reuse" \notin may, gdb = "up"
          PROVE  /\ inferior \in {"stopped", "running"} => e.attached
                 /\ ~In(Stopped("exit"), out)
                 /\ c = "run" => e.attached
      <4>1. out = <<>> /\ ~Attaching
        BY <2>1, <3>1 DEF Adds, Attaching
      <4> QED
        BY <3>1, <4>1, InKnown DEF Adds, AttachInv, IsAttached
    <3>2. <<c>> = <<"run">> => c = "run"
      OBVIOUS
    <3> QED
      BY <1>1, <2>2, <2>3, <3>1, <3>2 DEF AttachInv
  <2> QED
    BY <2>6, <2>7, <2>8, <2>9, <2>10, <2>11, <2>12, <2>13, <2>14, <2>15
<1>3. CASE ~Idle(e)
  <2>1. PICK more : more = <<c>> \o cs
    OBVIOUS
  <2>2. /\ e'.started = e.started /\ e'.wire = e.wire /\ e'.state = e.state
        /\ e'.menus = e.menus /\ e'.queued = e.queued \o more
    BY <1>3, <2>1 DEF Adds
  <2>3. cs \in Seq(Kinds)
    BY KnownSeqs
  <2>4. more \in Seq(Kinds) /\ more # <<>> /\ Head(more) = c /\ Tail(more) = cs
    BY <2>1, <2>3, InFront
  <2>5. \A x : In(x, more) <=> x = c \/ In(x, cs)
    BY <2>4, TailFacts
  <2>6. more[Len(more)] \in {c, "query"}
    <3>1. CASE cs = <<>>
      <4>1. Len(more) = 1 /\ more[1] = c
        BY <2>4, <3>1, TailFacts
      <4> QED
        BY <4>1
    <3>2. CASE cs = <<"query">>
      <4>3. Len(cs) = 1 /\ cs[1] = "query"
        BY <3>2
      <4>1. Len(Tail(more)) = 1 /\ Tail(more)[1] = "query"
        BY <2>4, <4>3
      <4>2. Len(more) = 2 /\ more[2] = "query"
        BY <2>4, <4>1, TailFacts
      <4> QED
        BY <4>2
    <3> QED
      BY <3>1, <3>2
  <2>7. /\ e'.queued \in Seq(Kinds) /\ e'.queued # <<>>
        /\ e'.queued[Len(e'.queued)] \in {c, "query"}
        /\ \A x : In(x, e'.queued) <=> In(x, e.queued) \/ In(x, more)
    BY <1>1, <2>2, <2>4, <2>6, CatFacts DEF Engine
  <2>8. ~In("load", more) /\ ~In("main", more)
    BY <2>5, InKnown DEF Adds
  <2>9. ~Waits /\ e.started # <<>> /\ ~Idle(e)'
    BY <1>3, <2>2 DEF Adds, Idle
  <2>10. TypeOK'
    BY <1>1 DEF TypeOK, Adds
  <2>11. LineInv'
    BY <1>1, <2>2, <2>9 DEF LineInv
  <2>12. OutInv'
    BY <1>1, <2>2 DEF OutInv
  <2>13. AnswerInv'
    BY <1>1, <2>2, <2>9 DEF AnswerInv
  <2>14. LoadInv'
    BY <1>1, <2>2, <2>7, <2>8 DEF LoadInv
  <2>15. StateInv'
    BY <1>1, <2>2, <2>9 DEF StateInv
  <2>16. TurnInv'
    BY <1>1, <2>2, <2>7 DEF TurnInv
  <2>17. WaitInv'
    BY <1>1, <2>9 DEF WaitInv
  <2>18. MenuInv'
    <3>1. e.state = "RUNNING" => c \notin Moves
      BY DEF Adds, MenuInv, Busy
    <3>2. "query" \notin Moves
      BY DEF Moves
    <3>3. HasMain' <=> HasMain
      BY <2>2, <2>7, <2>8 DEF HasMain
    <3>4. e.state = "RUNNING" => ~LastIsMove'
      BY <2>7, <3>1, <3>2 DEF LastIsMove
    <3> QED
      BY <1>1, <2>2, <2>9, <3>3, <3>4 DEF MenuInv
  <2>19. AttachInv'
    BY <1>1, <2>2, <2>9 DEF AttachInv
  <2> QED
    BY <2>10, <2>11, <2>12, <2>13, <2>14, <2>15, <2>16, <2>17, <2>18, <2>19
<1> QED
  BY <1>2, <1>3

-----------------------------------------------------------------------------
(* The invariant is kept when a GDB is launched, or dies.                  *)

LEMMA LaunchKeeps ==
    ASSUME IInv,
           NEW c \in {"load", "query"}, NEW cs, NEW inf \in {"none", "loaded"},
           Launches(c, cs, inf),
           \/ /\ c = "load" /\ cs \in {<<>>, <<"main">>, <<"query", "run">>} /\ e'.attached
           \/ /\ c = "query" /\ cs = <<"attach", "query">> /\ inf = "none" /\ Idle(e)
    PROVE  IInv'
<1> USE DEF IInv
<1>1. /\ out' = <<>> /\ gdb' = "up" /\ inferior' \in {"none", "loaded"} /\ may' = may
      /\ e' \in Engine /\ e'.connected /\ Tame' = Tame /\ Waits' = Waits
      /\ e'.started = <<c>> /\ e'.wire = <<c>> /\ e'.queued = cs /\ e'.state = "RUNNING"
      /\ e'.menus = IF e.state = "RUNNING" THEN e.menus ELSE Busy
  BY DEF Launches, Tame, Waits
<1>2. /\ ~In("load", cs) /\ ~In("detach", cs)
      /\ cs # <<>> => cs[Len(cs)] # "resume"
  BY InKnown
<1>3. c = "query" => ~In("main", cs) /\ ~In("run", cs) /\ cs[Len(cs)] = "query" /\ cs # <<>>
  <2> SUFFICES ASSUME c = "query"
               PROVE  ~In("main", cs) /\ ~In("run", cs) /\ cs[Len(cs)] = "query" /\ cs # <<>>
    OBVIOUS
  <2>1. cs = <<"attach", "query">>
    OBVIOUS
  <2>2. ~In("main", <<"attach", "query">>) /\ ~In("run", <<"attach", "query">>)
    BY InKnown
  <2>3. <<"attach", "query">>[Len(<<"attach", "query">>)] = "query" /\ <<"attach", "query">> # <<>>
    BY InKnown
  <2> QED
    BY <2>1, <2>2, <2>3
<1>4. ~Idle(e)' /\ <<c>> # <<>> /\ Len(out') = 0 /\ \A x : ~In(x, out')
  BY <1>1, InKnown DEF Idle
<1>5. /\ <<c>> \notin {<<"resume">>, <<"run">>, <<"detach">>, <<"main">>}
      /\ <<c>> = <<"load">> <=> c = "load"
  OBVIOUS
<1>6. TypeOK'
  <2>1. <<>> \in Seq(Record) /\ may \in Scenarios
    BY DEF TypeOK
  <2> QED
    BY <1>1, <2>1 DEF TypeOK, Launches
<1>7. LineInv'
  <2>1. <<>> \in Seq(Printed)
    OBVIOUS
  <2> QED
    BY <1>1, <1>4, <2>1 DEF LineInv
<1>8. OutInv'
  BY <1>1, <1>4 DEF OutInv
<1>9. AnswerInv'
  BY <1>1, <1>4, <1>5 DEF AnswerInv
<1>10. LoadInv'
  BY <1>1, <1>2, <1>4 DEF LoadInv
<1>11. StateInv'
  BY <1>1, <1>4 DEF StateInv
<1>12. TurnInv'
  BY <1>1, <1>4, <1>5 DEF TurnInv
<1>13. WaitInv'
  <2>1. HasMain' \/ In("run", e'.queued) => Launching'
    BY <1>1, <1>3, <1>5 DEF HasMain, Launching
  <2> QED
    BY <1>1, <1>2, <1>4, <1>5, <2>1 DEF WaitInv
<1>14. MenuInv'
  <2>1. c = "query" => ~HasMain' /\ ~LastIsMove'
    BY <1>1, <1>3, <1>5 DEF HasMain, LastIsMove, Moves
  <2> QED
    BY <1>1, <1>4, <1>5, <2>1 DEF MenuInv, Busy
<1>15. AttachInv'
  <2>1. c = "query" => ~HasMain'
    BY <1>1, <1>3, <1>5 DEF HasMain
  <2> QED
    BY <1>1, <1>3, <1>4, <1>5, <2>1 DEF AttachInv
<1> QED
  BY <1>6, <1>7, <1>8, <1>9, <1>10, <1>11, <1>12, <1>13, <1>14, <1>15

(* OnHup: the channels are closed.                                         *)
LEMMA HupKeeps ==
    ASSUME IInv, OnHup
    PROVE  IInv'
<1> USE DEF IInv
<1>1. PICK u : u = [e EXCEPT !.connected = FALSE, !.wire = <<>>]
  OBVIOUS
<1>2. /\ u \in Engine /\ ~u.connected /\ u.wire = <<>> /\ u.started = e.started
      /\ u.queued = e.queued /\ u.state = e.state /\ u.attached = e.attached
      /\ u.menus = e.menus
  <2>1. <<>> \in AtMostOne /\ e \in Engine
    BY DEF AtMostOne, TypeOK
  <2> QED
    BY <1>1, <2>1 DEF Engine
<1>3. e' = [u EXCEPT !.alive = FALSE, !.menus = u.menus \ {"ready", "busy", "loaded"}]
  BY <1>1 DEF OnHup, EngineDied
<1>4. /\ e' \in Engine /\ ~e'.connected /\ e'.wire = <<>> /\ e'.started = e.started
      /\ e'.queued = e.queued /\ e'.state = e.state /\ e'.attached = e.attached
      /\ e'.menus = e.menus \ {"ready", "busy", "loaded"}
  BY <1>2, <1>3 DEF Engine
<1>5. /\ out = <<>> /\ out' = out /\ gdb' = gdb /\ gdb = "dead" /\ inferior' = inferior
      /\ may' = may /\ sigint' = sigint /\ Tame' = Tame /\ Waits' = Waits
      /\ \A x : ~In(x, out)
  BY InKnown DEF OnHup, Tame, Waits
<1>6. /\ Idle(e)' <=> Idle(e)
      /\ HasMain' <=> HasMain
      /\ Launching' <=> Launching
  BY <1>4 DEF Idle, HasMain, Launching
<1>7. TypeOK'
  BY <1>4, <1>5 DEF TypeOK
<1>8. LineInv'
  BY <1>4, <1>5, <1>6 DEF LineInv
<1>9. OutInv'
  BY <1>4, <1>5 DEF OutInv
<1>10. AnswerInv' /\ StateInv'
  BY <1>5 DEF AnswerInv, StateInv
<1>11. LoadInv'
  BY <1>4, <1>5 DEF LoadInv
<1>12. TurnInv'
  BY <1>4, <1>5 DEF TurnInv
<1>13. WaitInv'
  BY <1>4, <1>5, <1>6 DEF WaitInv
<1>14. MenuInv'
  BY <1>4 DEF MenuInv, Busy
<1>15. AttachInv'
  BY <1>4, <1>5 DEF AttachInv
<1> QED
  BY <1>7, <1>8, <1>9, <1>10, <1>11, <1>12, <1>13, <1>14, <1>15

(* GDB dies, a SIGINT is sent, or nothing happens.                         *)
LEMMA OthersKeep ==
    ASSUME IInv, GdbDies \/ Stop \/ UNCHANGED vars
    PROVE  IInv'
<1> USE DEF IInv
<1>1. e' = e /\ out' = out /\ may' = may /\ Tame' = Tame /\ Waits' = Waits
  BY DEF GdbDies, Stop, vars, Tame, Waits
<1>2. /\ inferior' = inferior \/ inferior' = "none"
      /\ gdb' = gdb \/ gdb' = "dead"
      /\ gdb' = "up" => gdb = "up" /\ inferior' = inferior /\ (sigint => sigint')
      /\ inferior' # "none" => gdb' = "up"
      /\ sigint' \in BOOLEAN /\ gdb' \in {"none", "up", "dead"}
      /\ inferior' \in {"none", "loaded", "stopped", "running"}
  BY DEF GdbDies, Stop, vars, LineInv, TypeOK
<1>3. /\ Idle(e)' <=> Idle(e)
      /\ HasMain' <=> HasMain
      /\ Launching' <=> Launching
      /\ LastIsMove' <=> LastIsMove
      /\ Attaching' <=> Attaching
  BY <1>1 DEF Idle, HasMain, Launching, LastIsMove, Attaching
<1>4. TypeOK'
  BY <1>1, <1>2 DEF TypeOK
<1>5. LineInv'
  BY <1>1, <1>2, <1>3 DEF LineInv
<1>6. OutInv'
  BY <1>1 DEF OutInv
<1>7. AnswerInv'
  BY <1>1, <1>2, <1>3 DEF AnswerInv
<1>8. LoadInv'
  BY <1>1, <1>2 DEF LoadInv
<1>9. StateInv'
  BY <1>1, <1>2, <1>3 DEF StateInv
<1>10. TurnInv'
  BY <1>1 DEF TurnInv
<1>11. WaitInv'
  BY <1>1, <1>2, <1>3 DEF WaitInv
<1>12. MenuInv'
  BY <1>1, <1>3 DEF MenuInv
<1>13. AttachInv'
  BY <1>1, <1>2, <1>3 DEF AttachInv
<1> QED
  BY <1>4, <1>5, <1>6, <1>7, <1>8, <1>9, <1>10, <1>11, <1>12, <1>13

-----------------------------------------------------------------------------
(* The invariant is kept by what GDB and the inferior do.                  *)

(* What holds when the record y, no result, has been printed of an         *)
(* inferior that runs, new being the records then.                         *)
InferiorRuns(new, y) ==
    /\ e.connected /\ new \in Seq(Printed) /\ new \in Seq(Record) /\ new # <<>>
    /\ Len(new) = Len(out) + 1 /\ Len(out) \in Nat /\ new[Len(out) + 1] = y
    /\ \A i \in 1..Len(out) : new[i] = out[i]
    /\ \A r \in Results : In(r, new) <=> In(r, out)
    /\ y # Stopped("exit") => (In(Stopped("exit"), new) <=> In(Stopped("exit"), out))
    /\ \A i \in 1..Len(new) : new[i] \in Results => i \in 1..Len(out) /\ out[i] = new[i]
    /\ \A i \in 1..Len(out) : out[i] \notin {Result("done"), Result("error")}
    /\ \A i \in 1..Len(out) : out[i] = Result("running") => i = Len(out)
    /\ Idle(e) => new = <<y>>
    /\ e.started # <<"load">>
    /\ e.wire \in {<<"resume">>, <<"run">>} /\ e.queued = <<>> => ~Waits
    /\ HasMain \/ In("run", e.queued) => ~Waits

LEMMA StopPrinted ==
    ASSUME IInv, gdb = "up", inferior = "running",
           NEW y \in Stops, NEW new, new = Append(out, y)
    PROVE  InferiorRuns(new, y)
<1> USE DEF IInv
<1>1. out \in Seq(Printed) /\ out \in Seq(Record) /\ y \in Printed /\ y \in Record /\ y \notin Results
  BY RecordFacts DEF LineInv, TypeOK, Printed
<1>2. /\ new \in Seq(Printed) /\ new # <<>>
      /\ Len(new) = Len(out) + 1 /\ Len(out) \in Nat /\ new[Len(out) + 1] = y
      /\ \A i \in 1..Len(out) : new[i] = out[i]
      /\ \A x : In(x, new) <=> x = y \/ In(x, out)
  BY <1>1, AppendFacts
<1>3. new \in Seq(Record)
  BY <1>1, AppendFacts
<1>4. \A i \in 1..Len(new) : new[i] \in Results => i \in 1..Len(out) /\ out[i] = new[i]
  BY <1>1, <1>2
<1>5. \A i \in 1..Len(out) : out[i] \notin {Result("done"), Result("error")}
  BY DEF AnswerInv
<1>6. \A i \in 1..Len(out) : out[i] = Result("running") => i = Len(out)
  BY DEF AnswerInv
<1>7. ASSUME Idle(e) PROVE new = <<y>>
  <2>1. e.connected /\ \A i \in 1..Len(out) : out[i] \notin Results
    BY <1>7 DEF Idle, LineInv, OutInv
  <2>2. Result("running") \in Results
    BY DEF Results
  <2>3. out = <<>>
    <3>1. CASE out[Len(out)] = Result("running") /\ out # <<>>
      BY <1>1, <2>1, <2>2, <3>1, TailFacts
    <3> QED
      BY <3>1 DEF AnswerInv
  <2> QED
    BY <2>3
<1> QED
  BY <1>1, <1>2, <1>3, <1>4, <1>5, <1>6, <1>7 DEF InferiorRuns, LineInv, LoadInv, WaitInv

LEMMA StopsKeep ==
    ASSUME IInv, InferiorStops \/ Interrupted
    PROVE  IInv'
<1> USE DEF IInv
<1>1. /\ gdb = "up" /\ inferior = "running" /\ inferior' = "stopped"
      /\ out' = Append(out, Stopped("hit")) /\ e' = e /\ gdb' = gdb /\ may' = may
      /\ sigint' \in BOOLEAN /\ Tame' = Tame /\ Waits' = Waits
  BY DEF InferiorStops, Interrupted, TypeOK, Tame, Waits
<1>2. /\ e.connected /\ out' \in Seq(Printed) /\ out' \in Seq(Record) /\ out' # <<>>
      /\ Len(out') = Len(out) + 1 /\ Len(out) \in Nat
      /\ out'[Len(out) + 1] = Stopped("hit")
      /\ \A i \in 1..Len(out) : out'[i] = out[i]
      /\ \A r \in Results : In(r, out') <=> In(r, out)
      /\ In(Stopped("exit"), out') <=> In(Stopped("exit"), out)
      /\ \A i \in 1..Len(out') : out'[i] \in Results => i \in 1..Len(out) /\ out[i] = out'[i]
      /\ \A i \in 1..Len(out) : out[i] \notin {Result("done"), Result("error")}
      /\ \A i \in 1..Len(out) : out[i] = Result("running") => i = Len(out)
      /\ Idle(e) => out' = <<Stopped("hit")>>
      /\ e.started # <<"load">>
      /\ e.wire \in {<<"resume">>, <<"run">>} /\ e.queued = <<>> => ~Waits
      /\ HasMain \/ In("run", e.queued) => ~Waits
  <2>1. PICK new : new = out'
    OBVIOUS
  <2>2. PICK y : y = Stopped("hit")
    OBVIOUS
  <2>3. y \in Stops /\ new = Append(out, y) /\ (y # Stopped("exit") <=> y = Stopped("hit"))
    BY <1>1, <2>1, <2>2, RecordFacts
  <2> QED
    <3>1. InferiorRuns(new, y)
      BY <1>1, <2>3, StopPrinted
    <3> QED
      BY <2>1, <2>2, <2>3, <3>1, RecordFacts DEF InferiorRuns
<1>3. /\ Idle(e)' <=> Idle(e)
      /\ HasMain' <=> HasMain
      /\ Launching' <=> Launching
      /\ LastIsMove' <=> LastIsMove
  BY <1>1 DEF Idle, HasMain, Launching, LastIsMove
<1>4. {Result("done"), Result("running"), Result("error")} = Results
  BY DEF Results
<1>5. TypeOK'
  BY <1>1, <1>2 DEF TypeOK
<1>6. LineInv'
  BY <1>1, <1>2, <1>3 DEF LineInv
<1>7. OutInv'
  <2>1. \A i, j \in 1..Len(out') : out'[i] \in Results /\ out'[j] \in Results => i = j
    BY <1>2 DEF OutInv
  <2>2. (\E i \in 1..Len(out') : out'[i] \in Results) <=> (\E i \in 1..Len(out) : out[i] \in Results)
    BY <1>2
  <2>3. \A i \in 1..Len(out') : out'[i] \notin {Result("done"), Result("error")}
    BY <1>2, <1>4
  <2> QED
    BY <1>1, <1>2, <1>4, <2>1, <2>2, <2>3 DEF OutInv
<1>8. AnswerInv'
  <2>1. \A i \in 1..Len(out') : out'[i] \notin {Result("done"), Result("error")}
    BY <1>2, <1>4
  <2>2. ASSUME NEW i \in 1..Len(out'), out'[i] = Result("running")
        PROVE  i + 1 = Len(out') /\ out'[i + 1] = Stopped("hit")
    BY <1>2, <1>4, <2>2
  <2>3. ~In(Result("done"), out')
    BY <2>1 DEF In
  <2> QED
    BY <1>1, <1>2, <1>3, <2>1, <2>2, <2>3 DEF AnswerInv
<1>9. LoadInv'
  BY <1>1, <1>2 DEF LoadInv
<1>10. StateInv'
  BY <1>1, <1>2 DEF StateInv
<1>11. TurnInv'
  <2> SUFFICES ASSUME Tame PROVE TurnInv'
    BY <1>1 DEF TurnInv
  <2>1. ASSUME NEW i \in 1..Len(out'), out'[i] = Result("running")
        PROVE  \/ e.queued # <<>>
               \/ \E j \in 1..(i - 1) : out'[j] = Stopped("hit")
               \/ e.state = "RUNNING" /\ \A j \in 1..(i - 1) : out'[j] # Stopped("exit")
    <3>1. i \in 1..Len(out) /\ out[i] = Result("running")
      BY <1>2, <1>4, <2>1
    <3>2. \A j \in 1..(i - 1) : j \in 1..Len(out) /\ out'[j] = out[j]
      BY <1>2, <3>1
    <3> QED
      BY <3>1, <3>2 DEF TurnInv
  <2>2. In(Stopped("hit"), out')
    BY <1>2 DEF In
  <2>3. ASSUME ~Waits, In(Stopped("exit"), out')
        PROVE  /\ out'[1] = Stopped("exit") /\ e.state = "RUNNING"
               /\ \A i \in 2..Len(out') : out'[i] # Stopped("exit")
    <3>1. /\ out[1] = Stopped("exit") /\ e.state = "RUNNING"
          /\ \A i \in 2..Len(out) : out[i] # Stopped("exit")
      BY <1>2, <2>3 DEF TurnInv
    <3>2. 1 \in 1..Len(out)
      BY <1>2, <2>3 DEF In
    <3> QED
      BY <1>2, <3>1, <3>2, RecordFacts
  <2> QED
    BY <1>1, <2>1, <2>2, <2>3 DEF TurnInv
<1>12. WaitInv'
  BY <1>1, <1>2, <1>3 DEF WaitInv
<1>13. MenuInv'
  BY <1>1, <1>3 DEF MenuInv
<1>14. AttachInv'
  <2>1. ~Attaching
    BY <1>2 DEF Attaching, In
  <2>2. ~Attaching'
    BY <1>1, <1>2, <1>4, <2>1 DEF Attaching
  <2> QED
    BY <1>1, <1>2, <1>3, <2>1, <2>2 DEF AttachInv
<1> QED
  BY <1>5, <1>6, <1>7, <1>8, <1>9, <1>10, <1>11, <1>12, <1>13, <1>14

LEMMA ExitsKeep ==
    ASSUME IInv, InferiorExits
    PROVE  IInv'
<1> USE DEF IInv
<1>1. /\ gdb = "up" /\ inferior = "running" /\ inferior' = "loaded"
      /\ out' = Append(out, Stopped("exit")) /\ e' = e /\ gdb' = gdb /\ may' = may
      /\ sigint' = sigint /\ Tame' = Tame /\ Waits' = Waits
      /\ "early exit" \in may \/ Idle(e)
  BY DEF InferiorExits, Tame, Waits
<1>2. /\ e.connected /\ out' \in Seq(Printed) /\ out' \in Seq(Record) /\ out' # <<>>
      /\ Len(out') = Len(out) + 1 /\ Len(out) \in Nat
      /\ out'[Len(out) + 1] = Stopped("exit")
      /\ \A i \in 1..Len(out) : out'[i] = out[i]
      /\ \A r \in Results : In(r, out') <=> In(r, out)
      /\ \A i \in 1..Len(out') : out'[i] \in Results => i \in 1..Len(out) /\ out[i] = out'[i]
      /\ \A i \in 1..Len(out) : out[i] \notin {Result("done"), Result("error")}
      /\ \A i \in 1..Len(out) : out[i] = Result("running") => i = Len(out)
      /\ Idle(e) => out' = <<Stopped("exit")>>
      /\ e.started # <<"load">>
      /\ e.wire \in {<<"resume">>, <<"run">>} /\ e.queued = <<>> => ~Waits
      /\ HasMain \/ In("run", e.queued) => ~Waits
  <2>1. PICK new : new = out'
    OBVIOUS
  <2>2. PICK y : y = Stopped("exit")
    OBVIOUS
  <2>3. y \in Stops /\ new = Append(out, y) /\ (y # Stopped("exit") <=> y = Stopped("hit"))
    BY <1>1, <2>1, <2>2, RecordFacts
  <2> QED
    <3>1. InferiorRuns(new, y)
      BY <1>1, <2>3, StopPrinted
    <3> QED
      BY <2>1, <2>2, <2>3, <3>1, RecordFacts DEF InferiorRuns
<1>3. /\ Idle(e)' <=> Idle(e)
      /\ HasMain' <=> HasMain
      /\ Launching' <=> Launching
      /\ LastIsMove' <=> LastIsMove
  BY <1>1 DEF Idle, HasMain, Launching, LastIsMove
<1>4. {Result("done"), Result("running"), Result("error")} = Results
  BY DEF Results
<1>5. TypeOK'
  BY <1>1, <1>2 DEF TypeOK
<1>6. LineInv'
  BY <1>1, <1>2, <1>3 DEF LineInv
<1>7. OutInv'
  <2>1. \A i, j \in 1..Len(out') : out'[i] \in Results /\ out'[j] \in Results => i = j
    BY <1>2 DEF OutInv
  <2>2. (\E i \in 1..Len(out') : out'[i] \in Results) <=> (\E i \in 1..Len(out) : out[i] \in Results)
    BY <1>2
  <2>3. \A i \in 1..Len(out') : out'[i] \notin {Result("done"), Result("error")}
    BY <1>2, <1>4
  <2> QED
    BY <1>1, <1>2, <1>4, <2>1, <2>2, <2>3 DEF OutInv
<1>8. AnswerInv'
  <2>1. \A i \in 1..Len(out') : out'[i] \notin {Result("done"), Result("error")}
    BY <1>2, <1>4
  <2>2. ASSUME NEW i \in 1..Len(out'), out'[i] = Result("running")
        PROVE  i + 1 = Len(out') /\ out'[i + 1] = Stopped("exit")
    BY <1>2, <1>4, <2>2
  <2>3. ~In(Result("done"), out')
    BY <2>1 DEF In
  <2> QED
    BY <1>1, <1>2, <1>3, <2>1, <2>2, <2>3 DEF AnswerInv
<1>9. LoadInv'
  BY <1>1, <1>2 DEF LoadInv
<1>10. StateInv'
  BY <1>1, <1>2 DEF StateInv
<1>11. TurnInv'
  <2> SUFFICES ASSUME Tame PROVE TurnInv'
    BY <1>1 DEF TurnInv
  <2>1. ASSUME NEW i \in 1..Len(out'), out'[i] = Result("running")
        PROVE  \/ e.queued # <<>>
               \/ \E j \in 1..(i - 1) : out'[j] = Stopped("hit")
               \/ e.state = "RUNNING" /\ \A j \in 1..(i - 1) : out'[j] # Stopped("exit")
    <3>1. i \in 1..Len(out) /\ out[i] = Result("running")
      BY <1>2, <1>4, <2>1
    <3>2. \A j \in 1..(i - 1) : j \in 1..Len(out) /\ out'[j] = out[j]
      BY <1>2, <3>1
    <3> QED
      BY <3>1, <3>2 DEF TurnInv
  <2>2. ~Waits => Idle(e)
    BY <1>1 DEF Waits, Tame
  <2>3. ~(e.wire \in {<<"resume">>, <<"run">>} /\ e.queued = <<>>)
    <3>1. Idle(e) => e.wire = <<>>
      BY DEF LineInv
    <3> QED
      BY <1>2, <2>2, <3>1
  <2>4. ASSUME ~Waits
        PROVE  /\ out'[1] = Stopped("exit") /\ e.state = "RUNNING"
               /\ \A i \in 2..Len(out') : out'[i] # Stopped("exit")
    <3>1. Len(out') = 1 /\ out' = <<Stopped("exit")>>
      BY <1>2, <2>2, <2>4
    <3>2. out = <<>>
      BY <1>2, <3>1, EmptySeq DEF LineInv
    <3>3. e.state = "RUNNING"
      BY <1>1, <3>2 DEF StateInv
    <3>4. out'[1] = Stopped("exit") /\ 2..Len(out') = {}
      BY <3>1
    <3> QED
      BY <3>3, <3>4
  <2> QED
    <3>1. Waits' = Waits /\ Tame' = Tame /\ e' = e
      BY <1>1
    <3> QED
      BY <2>1, <2>3, <2>4, <3>1 DEF TurnInv
<1>12. WaitInv'
  BY <1>1, <1>2, <1>3 DEF WaitInv
<1>13. MenuInv'
  BY <1>1, <1>3 DEF MenuInv
<1>14. AttachInv'
  BY <1>1, <1>3 DEF AttachInv
<1> QED
  BY <1>5, <1>6, <1>7, <1>8, <1>9, <1>10, <1>11, <1>12, <1>13, <1>14

(* GDB answers c: p is what it had printed before the answer r.            *)
AnswerPrinted(c, p, r) ==
    /\ r \in Results /\ p \in Seq(Printed) /\ out' = Append(p, r)
    /\ p = out \/ (p = Append(out, Stopped("hit")) /\ c = "attach" /\ r = Result("done"))
    /\ r = Result("error") => c # "load" /\ inferior' = inferior
    /\ r = Result("running") =>
          (c = "run" \/ (c = "resume" /\ inferior = "stopped")) /\ inferior' = "running"
    /\ r = Result("done") =>
          /\ c \notin {"resume", "run"}
          /\ inferior' = IF c = "attach" THEN "stopped"
                         ELSE IF c = "detach" THEN "none" ELSE inferior

LEMMA AnswersPrint ==
    ASSUME LineInv, NEW c \in Kinds, Answers(c)
    PROVE  \E p \in Seq(Printed), r \in Results : AnswerPrinted(c, p, r)
<1>1. out \in Seq(Printed) /\ Append(out, Stopped("hit")) \in Seq(Printed)
  BY RecordFacts, AppendFacts DEF LineInv, Printed
<1>2. /\ {Result("done"), Result("running"), Result("error")} = Results
      /\ Result("done") # Result("running") /\ Result("done") # Result("error")
      /\ Result("running") # Result("error")
  BY RecordFacts DEF Results
<1>3. CASE c # "load" /\ out' = Append(out, Result("error")) /\ inferior' = inferior
  <2>1. AnswerPrinted(c, out, Result("error"))
    BY <1>1, <1>2, <1>3 DEF AnswerPrinted
  <2> QED
    BY <1>1, <1>2, <2>1
<1>4. CASE /\ c = "run" \/ (c = "resume" /\ inferior = "stopped")
           /\ out' = Append(out, Result("running")) /\ inferior' = "running"
  <2>1. AnswerPrinted(c, out, Result("running"))
    BY <1>1, <1>2, <1>4 DEF AnswerPrinted
  <2> QED
    BY <1>1, <1>2, <2>1
<1>5. CASE c = "attach" /\ inferior' = "stopped" /\ out' = Append(out, Result("done"))
  <2>1. AnswerPrinted(c, out, Result("done"))
    BY <1>1, <1>2, <1>5 DEF AnswerPrinted
  <2> QED
    BY <1>1, <1>2, <2>1
<1>6. CASE /\ c = "attach" /\ inferior' = "stopped"
           /\ out' = Append(Append(out, Stopped("hit")), Result("done"))
  <2>1. AnswerPrinted(c, Append(out, Stopped("hit")), Result("done"))
    BY <1>1, <1>2, <1>6 DEF AnswerPrinted
  <2> QED
    BY <1>1, <1>2, <2>1
<1>7. CASE /\ c \notin {"resume", "run", "attach"}
           /\ out' = Append(out, Result("done"))
           /\ inferior' = IF c = "detach" THEN "none" ELSE inferior
  <2>1. AnswerPrinted(c, out, Result("done"))
    BY <1>1, <1>2, <1>7 DEF AnswerPrinted
  <2> QED
    BY <1>1, <1>2, <2>1
<1> QED
  BY <1>3, <1>4, <1>5, <1>6, <1>7 DEF Answers

LEMMA AnswersKeep ==
    ASSUME IInv, GdbAnswers
    PROVE  IInv'
<1> USE DEF IInv
<1>1. /\ e' \in Engine /\ e'.wire = <<>> /\ e.wire # <<>> /\ e.wire = e.started
      /\ e'.connected = e.connected /\ e'.attached = e.attached
      /\ e'.queued = e.queued /\ e'.started = e.started
      /\ e'.state = e.state /\ e'.menus = e.menus
      /\ gdb = "up" /\ gdb' = gdb /\ sigint' = sigint /\ may' = may
      /\ inferior # "running" /\ e.connected /\ Tame' = Tame /\ Waits' = Waits
  BY GdbAnswersType DEF SameRest, LineInv, Tame, Waits
<1>2. PICK c \in Kinds : e.wire = <<c>> /\ Answers(c)
  BY GdbAnswerKinds
<1>3. PICK p \in Seq(Printed), r \in Results : AnswerPrinted(c, p, r)
  BY <1>2, AnswersPrint
<1>4. /\ e.started = <<c>> /\ \A k : e.started = <<k>> <=> c = k
      /\ e.started # <<>> /\ ~Idle(e)'
      /\ <<>> \notin {<<"resume">>, <<"run">>, <<"detach">>}
      /\ HasMain' <=> HasMain
      /\ Launching' <=> Launching
      /\ LastIsMove' <=> LastIsMove
  BY <1>1, <1>2 DEF Idle, HasMain, Launching, LastIsMove
<1>5. out \in Seq(Printed) /\ \A i \in 1..Len(out) : out[i] \notin Results
  BY <1>1 DEF OutInv, LineInv
<1>6. /\ Len(out) \in Nat /\ Len(p) \in Nat /\ Len(p) >= Len(out)
      /\ \A i \in 1..Len(out) : p[i] = out[i]
      /\ \A i \in 1..Len(p) : p[i] \notin Results
      /\ In(Stopped("exit"), p) <=> In(Stopped("exit"), out)
      /\ \A i \in 1..Len(p) : p[i] = Stopped("exit") => i <= Len(out)
  <2>1. CASE p = out
    BY <1>5, <2>1 DEF In
  <2>2. CASE p # out
    <3>1. PICK y : y = Stopped("hit")
      OBVIOUS
    <3>2. y \in Printed /\ y \notin Results /\ y # Stopped("exit") /\ p = Append(out, y)
      BY <1>3, <2>2, <3>1, RecordFacts DEF AnswerPrinted, Printed
    <3> QED
      BY <1>5, <3>2, AppendFacts
  <2> QED
    BY <2>1, <2>2
<1>7. /\ out' \in Seq(Printed) /\ out' # <<>> /\ Len(out') = Len(p) + 1
      /\ \A i \in 1..Len(p) : out'[i] = p[i]
      /\ out'[Len(out')] = r
      /\ \A x : In(x, out') <=> x = r \/ In(x, p)
  <2>1. r \in Printed /\ out' = Append(p, r)
    BY <1>3 DEF Printed, AnswerPrinted
  <2> QED
    BY <2>1, AppendFacts
<1>8. /\ r \notin Stops /\ {Stopped("hit"), Stopped("exit")} = Stops
      /\ {Result("done"), Result("running"), Result("error")} = Results
  BY RecordFacts DEF Stops, Results
<1>9. /\ \A i \in 1..Len(out') : out'[i] \in Results => i = Len(out') /\ out'[i] = r
      /\ \A x \in Results : In(x, out') <=> x = r
  BY SMTT(30), <1>6, <1>7 DEF In
<1>10. In(Stopped("exit"), out') <=> In(Stopped("exit"), out)
  BY <1>6, <1>7, <1>8
<1>11. /\ r = Result("error") => c # "load" /\ inferior' = inferior
       /\ r = Result("running") =>
             (c = "run" \/ (c = "resume" /\ inferior = "stopped")) /\ inferior' = "running"
       /\ r = Result("done") =>
             /\ c \notin {"resume", "run"}
             /\ inferior' = IF c = "attach" THEN "stopped"
                            ELSE IF c = "detach" THEN "none" ELSE inferior
       /\ p = out \/ c = "attach"
       /\ r = Result("done") \/ r = Result("running") \/ r = Result("error")
       /\ Result("done") # Result("running") /\ Result("running") # Result("error")
       /\ Result("done") # Result("error")
  BY <1>3, RecordFacts DEF AnswerPrinted, Results
<1>12. TypeOK'
  <2>1. out' \in Seq(Record)
    BY <1>7, RecordFacts
  <2>2. inferior' \in {"none", "loaded", "stopped", "running"}
    BY <1>11 DEF TypeOK
  <2> QED
    BY <1>1, <2>1, <2>2 DEF TypeOK
<1>13. LineInv'
  BY <1>1, <1>4, <1>7 DEF LineInv
<1>14. OutInv'
  <2>1. Len(out') \in 1..Len(out') /\ out'[Len(out')] \in Results
    BY <1>3, <1>6, <1>7
  <2>2. In(Result("running"), out') => e.started \in {<<"resume">>, <<"run">>}
    BY <1>4, <1>8, <1>9, <1>11
  <2>3. In(Result("error"), out') => e.started # <<"load">>
    BY <1>4, <1>8, <1>9, <1>11
  <2> QED
    BY <1>1, <1>4, <1>8, <1>9, <2>1, <2>2, <2>3 DEF OutInv
<1>15. AnswerInv'
  <2>1. r \in {Result("done"), Result("error")} => inferior' # "running"
    BY <1>1, <1>11
  <2>2. r = Result("running") => inferior' = "running"
    BY <1>11
  <2>3. inferior' = "running" => r = Result("running")
    BY <1>8, <2>1
  <2>4. c = "detach" /\ r = Result("done") => inferior' = "none"
    BY <1>11
  <2> QED
    BY <1>1, <1>4, <1>7, <1>8, <1>9, <2>1, <2>2, <2>3, <2>4 DEF AnswerInv
<1>16. LoadInv'
  <2>1. ASSUME e.started = <<"load">>
        PROVE  /\ inferior' \in {"loaded", "none"}
               /\ ~In(Stopped("hit"), out') /\ ~In(Stopped("exit"), out')
    <3>1. c = "load" /\ p = out
      BY <1>4, <1>11, <2>1
    <3> QED
      BY <1>7, <1>8, <1>11, <2>1, <3>1 DEF LoadInv
  <2> QED
    BY <1>1, <2>1 DEF LoadInv
<1>17. StateInv'
  BY <1>7 DEF StateInv
<1>18. TurnInv'
  <2> SUFFICES ASSUME Tame PROVE TurnInv'
    BY <1>1 DEF TurnInv
  <2>1. ASSUME NEW i \in 1..Len(out'), out'[i] = Result("running")
        PROVE  \/ e.queued # <<>>
               \/ \E j \in 1..(i - 1) : out'[j] = Stopped("hit")
               \/ e.state = "RUNNING" /\ \A j \in 1..(i - 1) : out'[j] # Stopped("exit")
    <3>1. i = Len(out') /\ r = Result("running")
      BY <1>8, <1>9, <2>1
    <3>2. c \in {"resume", "run"} /\ p = out /\ e.wire \in {<<"resume">>, <<"run">>}
      BY <1>2, <1>11, <3>1
    <3>3. i - 1 = Len(out) /\ \A j \in 1..(i - 1) : out'[j] = out[j]
      BY <1>6, <1>7, <3>1, <3>2
    <3>4. \/ e.queued # <<>>
          \/ In(Stopped("hit"), out)
          \/ e.state = "RUNNING" /\ ~In(Stopped("exit"), out)
      BY <3>2 DEF TurnInv
    <3> QED
      BY <3>3, <3>4 DEF In
  <2>2. ASSUME ~Waits, In(Stopped("exit"), out')
        PROVE  /\ out'[1] = Stopped("exit") /\ e.state = "RUNNING"
               /\ \A i \in 2..Len(out') : out'[i] # Stopped("exit")
    <3>1. /\ out[1] = Stopped("exit") /\ e.state = "RUNNING"
          /\ \A i \in 2..Len(out) : out[i] # Stopped("exit")
      BY <1>10, <2>2 DEF TurnInv
    <3>2. 1 \in 1..Len(out)
      BY <1>5, <1>6, <1>10, <2>2 DEF In
    <3>3. out'[1] = Stopped("exit")
      BY <1>6, <1>7, <3>1, <3>2
    <3>4. ASSUME NEW i \in 2..Len(out') PROVE out'[i] # Stopped("exit")
      <4>1. CASE i = Len(out')
        BY <1>7, <1>8, <4>1
      <4>2. CASE i # Len(out')
        <5>1. i \in 1..Len(p) /\ out'[i] = p[i]
          BY <1>6, <1>7, <4>2
        <5>2. p[i] = Stopped("exit") => i \in 2..Len(out) /\ p[i] = out[i]
          BY <1>6, <5>1
        <5> QED
          BY <3>1, <5>1, <5>2
      <4> QED
        BY <4>1, <4>2
    <3> QED
      BY <3>1, <3>3, <3>4
  <2>3. Waits' = Waits /\ Tame' = Tame
    BY <1>1
  <2> QED
    BY <1>1, <1>4, <2>1, <2>2, <2>3 DEF TurnInv
<1>19. WaitInv'
  <2> SUFFICES ASSUME Waits PROVE WaitInv'
    BY <1>1 DEF WaitInv
  <2>1. ASSUME HasMain \/ In("run", e.queued)
        PROVE  /\ Launching /\ inferior' \in {"none", "loaded"}
               /\ ~In(Stopped("hit"), out') /\ ~In(Stopped("exit"), out')
    <3>1. /\ Launching /\ inferior \in {"none", "loaded"}
          /\ ~In(Stopped("hit"), out) /\ ~In(Stopped("exit"), out)
      BY <2>1 DEF WaitInv
    <3>2. c \in {"load", "main", "query"}
      BY <1>4, <3>1 DEF Launching
    <3>3. p = out /\ inferior' = inferior
      BY <1>11, <3>2
    <3> QED
      BY <1>7, <1>8, <3>1, <3>3
  <2> QED
    BY <1>1, <1>4, <2>1 DEF WaitInv
<1>20. MenuInv'
  BY <1>1, <1>4 DEF MenuInv
<1>21. AttachInv'
  <2>1. ASSUME Waits, "reuse" \notin may
        PROVE  /\ inferior' \in {"stopped", "running"} => e.attached \/ Attaching'
               /\ In(Stopped("exit"), out') => inferior' \notin {"stopped", "running"} \/ Attaching'
               /\ In("run", e.queued) \/ HasMain => e.attached
    <3>1. ~Attaching
      BY <1>5 DEF Attaching, In, Results
    <3>2. /\ inferior \in {"stopped", "running"} => e.attached
          /\ In(Stopped("exit"), out) => inferior \notin {"stopped", "running"}
          /\ e.wire = <<"run">> \/ In("run", e.queued) \/ HasMain => e.attached
      BY <1>1, <2>1, <3>1 DEF AttachInv
    <3>3. c = "attach" /\ r = Result("done") => Attaching'
      BY <1>1, <1>4, <1>7 DEF Attaching
    <3>4. c = "run" => e.attached /\ out = <<>>
      <4>1. ASSUME c = "run" PROVE e.wire = <<"run">>
        BY <1>2, <4>1
      <4> QED
        BY <2>1, <3>2, <4>1 DEF WaitInv
    <3>5. c = "run" => ~In(Stopped("exit"), out)
      BY <3>4, InKnown
    <3> QED
      BY <1>10, <1>11, <3>2, <3>3, <3>4, <3>5
  <2>2. Waits' = Waits
    BY <1>1
  <2> QED
    BY <1>1, <1>4, <2>1, <2>2 DEF AttachInv
<1> QED
  BY <1>12, <1>13, <1>14, <1>15, <1>16, <1>17, <1>18, <1>19, <1>20, <1>21

-----------------------------------------------------------------------------
(* The invariant is kept when a record is handled.                         *)

(* What holds of the records new that are left after a stop.               *)
StopHeard(new) ==
    /\ new \in Seq(Printed) /\ new \in Seq(Record)
    /\ Len(new) = Len(out) - 1 /\ Len(out) \in Nat \ {0}
    /\ \A i \in 1..Len(new) : new[i] = out[i + 1]
    /\ \A x : In(x, out) <=> x = out[1] \/ In(x, new)
    /\ \A i, j \in 1..Len(new) : new[i] \in Results /\ new[j] \in Results => i = j
    /\ (\E i \in 1..Len(new) : new[i] \in Results) <=> (\E i \in 1..Len(out) : out[i] \in Results)
    /\ \A r \in Results : In(r, new) <=> In(r, out)
    /\ \A i \in 1..Len(new) : new[i] \in {Result("done"), Result("error")} => i = Len(new)
    /\ gdb = "up" =>
          /\ \A i \in 1..Len(new) : new[i] \in {Result("done"), Result("error")} =>
                inferior # "running"
          /\ \A i \in 1..Len(new) : new[i] = Result("running") =>
                \/ i = Len(new) /\ inferior = "running"
                \/ i + 1 = Len(new) /\ new[i + 1] = Stopped("hit") /\ inferior = "stopped"
                \/ i + 1 = Len(new) /\ new[i + 1] = Stopped("exit") /\ inferior = "loaded"
          /\ inferior = "running" => new # <<>> /\ new[Len(new)] = Result("running")
          /\ Idle(e) => /\ new = <<>> /\ inferior # "running"
                        /\ out[1] = Stopped("exit") => inferior = "loaded"
          /\ e.started = <<"detach">> /\ In(Result("done"), new) => inferior = "none"

LEMMA StopIsHeard ==
    ASSUME IInv, e.connected, out # <<>>, Head(out) \in Stops, NEW new
    PROVE  new = Tail(out) => StopHeard(new) /\ Head(out) = out[1] /\ In(out[1], out)
<1>0. SUFFICES ASSUME new = Tail(out)
               PROVE  StopHeard(new) /\ Head(out) = out[1] /\ In(out[1], out)
  OBVIOUS
<1> USE DEF IInv
<1>1. /\ out \in Seq(Printed) /\ Head(out) = out[1] /\ new \in Seq(Printed)
      /\ Len(out) = Len(new) + 1 /\ Len(new) = Len(out) - 1 /\ Len(new) \in Nat
      /\ Len(out) \in Nat \ {0}
      /\ \A i \in 1..(Len(out) - 1) : new[i] = out[i + 1]
      /\ \A x : In(x, out) <=> x = out[1] \/ In(x, new)
  BY <1>0, TailFacts DEF LineInv
<1>2. new \in Seq(Record)
  BY <1>0, TailFacts DEF TypeOK
<1>3. out[1] \notin Results /\ Result("running") \in Results
      /\ Result("done") \in Results /\ Result("error") \in Results
  BY <1>1, RecordFacts DEF Results
<1>4. \A i \in 1..Len(new) : new[i] = out[i + 1] /\ i + 1 \in 1..Len(out)
  BY <1>1
<1>5. \A i \in 1..Len(out) : out[i] \in Results => i - 1 \in 1..Len(new) /\ new[i - 1] = out[i]
  BY <1>1, <1>3
<1>6. \A i, j \in 1..Len(new) : new[i] \in Results /\ new[j] \in Results => i = j
  <2> SUFFICES ASSUME NEW i \in 1..Len(new), NEW j \in 1..Len(new),
                      new[i] \in Results, new[j] \in Results
               PROVE  i = j
    OBVIOUS
  <2>1. i + 1 = j + 1
    BY <1>4 DEF OutInv
  <2> QED
    BY <1>1, <2>1
<1>7. (\E i \in 1..Len(new) : new[i] \in Results) <=> (\E i \in 1..Len(out) : out[i] \in Results)
  BY <1>4, <1>5
<1>8. \A r \in Results : In(r, new) <=> In(r, out)
  BY <1>1, <1>3
<1>9. \A i \in 1..Len(new) : new[i] \in {Result("done"), Result("error")} => i = Len(new)
  <2> SUFFICES ASSUME NEW i \in 1..Len(new), new[i] \in {Result("done"), Result("error")}
               PROVE  i = Len(new)
    OBVIOUS
  <2>1. i + 1 = Len(out) /\ i \in Int
    BY <1>4 DEF OutInv
  <2>2. Len(out) = Len(new) + 1 /\ Len(new) \in Int
    BY <1>1
  <2> QED
    BY <2>1, <2>2
<1>10. ASSUME gdb = "up"
       PROVE  /\ \A i \in 1..Len(new) : new[i] \in {Result("done"), Result("error")} =>
                    inferior # "running"
              /\ \A i \in 1..Len(new) : new[i] = Result("running") =>
                    \/ i = Len(new) /\ inferior = "running"
                    \/ i + 1 = Len(new) /\ new[i + 1] = Stopped("hit") /\ inferior = "stopped"
                    \/ i + 1 = Len(new) /\ new[i + 1] = Stopped("exit") /\ inferior = "loaded"
              /\ inferior = "running" => new # <<>> /\ new[Len(new)] = Result("running")
              /\ Idle(e) => /\ new = <<>> /\ inferior # "running"
                            /\ out[1] = Stopped("exit") => inferior = "loaded"
              /\ e.started = <<"detach">> /\ In(Result("done"), new) => inferior = "none"
  <2>1. ASSUME NEW i \in 1..Len(new), new[i] \in {Result("done"), Result("error")}
        PROVE  inferior # "running"
    BY <1>4, <1>10, <2>1 DEF AnswerInv
  <2>2. ASSUME NEW i \in 1..Len(new), new[i] = Result("running")
        PROVE  \/ i = Len(new) /\ inferior = "running"
               \/ i + 1 = Len(new) /\ new[i + 1] = Stopped("hit") /\ inferior = "stopped"
               \/ i + 1 = Len(new) /\ new[i + 1] = Stopped("exit") /\ inferior = "loaded"
    <3>1. \/ i + 1 = Len(out) /\ inferior = "running"
          \/ i + 2 = Len(out) /\ out[i + 2] = Stopped("hit") /\ inferior = "stopped"
          \/ i + 2 = Len(out) /\ out[i + 2] = Stopped("exit") /\ inferior = "loaded"
      <4>1. i + 1 \in 1..Len(out) /\ out[i + 1] = Result("running") /\ (i + 1) + 1 = i + 2
        BY <1>4, <2>2
      <4> QED
        BY <1>10, <4>1 DEF AnswerInv
    <3>2. Len(out) = Len(new) + 1 /\ Len(new) \in Int /\ i \in Int
      BY <1>1
    <3>3. i + 1 = Len(new) => new[i + 1] = out[i + 2]
      <4>1. ASSUME i + 1 = Len(new) PROVE i + 1 \in 1..Len(new) /\ (i + 1) + 1 = i + 2
        BY <3>2, <4>1
      <4> QED
        BY <1>4, <4>1
    <3>4. CASE i + 1 = Len(out) /\ inferior = "running"
      <4>1. i = Len(new)
        BY <3>2, <3>4
      <4> QED
        BY <3>4, <4>1
    <3>5. CASE i + 2 = Len(out) /\ out[i + 2] = Stopped("hit") /\ inferior = "stopped"
      <4>1. i + 1 = Len(new)
        BY <3>2, <3>5
      <4> QED
        BY <3>3, <3>5, <4>1
    <3>6. CASE i + 2 = Len(out) /\ out[i + 2] = Stopped("exit") /\ inferior = "loaded"
      <4>1. i + 1 = Len(new)
        BY <3>2, <3>6
      <4> QED
        BY <3>3, <3>6, <4>1
    <3> QED
      BY <3>1, <3>4, <3>5, <3>6
  <2>3. ASSUME inferior = "running" PROVE new # <<>> /\ new[Len(new)] = Result("running")
    <3>1. out[Len(out)] = Result("running")
      BY <1>10, <2>3 DEF AnswerInv
    <3>2. Len(out) \in 1..Len(out)
      BY <1>1
    <3>3. Len(new) \in 1..Len(new) /\ new[Len(new)] = out[Len(out)]
      <4>1. Len(out) - 1 = Len(new)
        BY <1>1
      <4> QED
        BY <1>3, <1>5, <3>1, <3>2, <4>1
    <3>4. new # <<>>
      <4>1. Len(<<>>) = 0 /\ Len(new) # 0
        BY <1>1, <3>3
      <4> QED
        BY <4>1
    <3> QED
      BY <3>1, <3>3, <3>4
  <2>4. ASSUME Idle(e)
        PROVE  /\ new = <<>> /\ inferior # "running"
               /\ out[1] = Stopped("exit") => inferior = "loaded"
    <3>1. \/ out = <<Stopped("hit")>> /\ inferior = "stopped"
          \/ out = <<Stopped("exit")>> /\ inferior = "loaded"
      BY <1>10, <2>4 DEF AnswerInv
    <3>2. Stopped("hit") # Stopped("exit")
      BY RecordFacts
    <3>3. new = <<>>
      <4>1. Len(out) = 1
        BY <3>1
      <4> QED
        BY <1>1, <4>1, EmptySeq
    <3>4. out = <<Stopped("hit")>> => out[1] = Stopped("hit")
      OBVIOUS
    <3> QED
      BY <3>1, <3>2, <3>3, <3>4
  <2>5. e.started = <<"detach">> /\ In(Result("done"), new) => inferior = "none"
    BY <1>3, <1>8, <1>10 DEF AnswerInv
  <2> QED
    BY <2>1, <2>2, <2>3, <2>4, <2>5
<1> QED
  BY <1>1, <1>2, <1>4, <1>6, <1>7, <1>8, <1>9, <1>10 DEF StopHeard

(* What the views queue at a stop.                                         *)
LEMMA ViewsAreQueries ==
    ASSUME NEW views \in Views
    PROVE  /\ \A x : In(x, views) => x = "query"
           /\ views # <<>> => views[Len(views)] = "query"
           /\ \A x : In(x, <<"query">> \o views) => x = "query"
           /\ (<<"query">> \o views)[Len(<<"query">> \o views)] = "query"
<1>1. PICK n \in 0..MaxFollowUps : views \in [1..n -> {"query"}]
  BY DEF Views
<1>2. n \in Nat /\ views \in Seq({"query"})
  BY <1>1, SessionAssumption
<1>3. \A s \in Seq({"query"}) : /\ \A x : In(x, s) => x = "query"
                                /\ s # <<>> => s[Len(s)] = "query"
  BY DEF In
<1>4. PICK more : more = <<"query">> \o views
  OBVIOUS
<1>5. more \in Seq({"query"}) /\ more # <<>>
  <2>1. <<"query">> \in Seq({"query"}) /\ Len(<<"query">>) = 1
    OBVIOUS
  <2>2. more \in Seq({"query"}) /\ Len(more) = 1 + Len(views) /\ Len(views) \in Nat
    BY <1>2, <1>4, <2>1
  <2> QED
    BY <2>2
<1> QED
  BY <1>2, <1>3, <1>4, <1>5

LEMMA HitKeeps ==
    ASSUME IInv, e.connected, out # <<>>, NEW views \in Views, HandlesHit(views),
           out' = Tail(out), UNCHANGED <<gdb, inferior, sigint, may>>
    PROVE  IInv'
<1> USE DEF IInv
<1>1. /\ gdb' = gdb /\ inferior' = inferior /\ sigint' = sigint /\ may' = may
      /\ Tame' = Tame /\ Waits' = Waits /\ e \in Engine
  BY DEF Tame, Waits, TypeOK
<1>2. StopHeard(out') /\ out[1] = Stopped("hit") /\ In(Stopped("hit"), out)
  <2>1. PICK new : new = out'
    OBVIOUS
  <2>2. Head(out) = Stopped("hit") /\ Head(out) \in Stops
    BY RecordFacts DEF HandlesHit
  <2> QED
    BY <2>1, <2>2, StopIsHeard
<1>3. PICK new : new = out'
  OBVIOUS
<1>4. StopHeard(new)
  BY <1>2, <1>3
<1>5. In(Stopped("exit"), new) => In(Stopped("exit"), out)
  BY <1>4 DEF StopHeard
<1>6. PICK t : t = e'
  OBVIOUS
<1>7. e.started = <<>> => e.wire = <<>> /\ e.queued = <<>>
  BY DEF LineInv, Idle
<1>8. HitDone(e, views, t)
  BY <1>1, <1>6, <1>7, HitEffect DEF HandlesHit
<1>9. Stopped("hit") # Stopped("exit")
  BY RecordFacts
<1>10. t.started # <<>> /\ ~Idle(e)'
  <2>1. e.started = <<>> => t.started = <<"query">>
    BY <1>8 DEF HitDone
  <2>2. e.started # <<>> => t.started = e.started
    BY <1>8 DEF HitDone
  <2>3. t.started # <<>>
    <3>1. <<"query">> # <<>>
      OBVIOUS
    <3> QED
      BY <2>1, <2>2, <3>1
  <2> QED
    BY <1>6, <2>3 DEF Idle
<1>11. TypeOK'
  <2>1. e' \in Engine /\ out' \in Seq(Record)
    BY <1>3, <1>4, <1>6, <1>8 DEF StopHeard, HitDone
  <2> QED
    BY <1>1, <2>1 DEF TypeOK
<1>12. CASE e.started = <<>>
  <2>1. \A i \in 1..Len(new) : new[i] \notin Results
    BY <1>4, <1>12 DEF OutInv, StopHeard
  <2>2. gdb = "up" => new = <<>> /\ inferior # "running"
    BY <1>4, <1>12 DEF StopHeard, Idle
  <2>3. /\ \A x : In(x, t.queued) => x = "query"
        /\ t.queued # <<>> => t.queued[Len(t.queued)] = "query"
    BY <1>8, <1>12, ViewsAreQueries DEF HitDone
  <2>4. /\ ~HasMain' /\ ~In("load", t.queued) /\ ~In("run", t.queued) /\ ~In("detach", t.queued)
        /\ t.started = <<"query">> /\ t.wire = <<"query">>
        /\ <<"query">> # <<>> /\ <<"query">> # <<"load">>
        /\ <<"query">> \notin {<<"resume">>, <<"run">>, <<"detach">>}
    <3>1. <<"query">> # <<"main">>
      OBVIOUS
    <3> QED
      BY <1>6, <1>8, <1>12, <2>3, <3>1 DEF HasMain, HitDone
  <2>5. LineInv'
    BY <1>1, <1>3, <1>4, <1>6, <1>8, <1>10, <2>4 DEF LineInv, StopHeard, HitDone
  <2>6. OutInv'
    BY <1>3, <1>6, <2>1, <2>4 DEF OutInv, In, Results
  <2>7. AnswerInv'
    BY <1>1, <1>3, <1>10, <2>1, <2>2 DEF AnswerInv, In, Results
  <2>8. LoadInv'
    BY <1>6, <2>4 DEF LoadInv
  <2>9. StateInv'
    BY <1>1, <1>10, <2>2 DEF StateInv
  <2>10. TurnInv'
    <3>1. \A i \in 1..Len(new) : new[i] # Result("running")
      BY <2>1 DEF Results
    <3>2. ~Waits /\ Tame => ~In(Stopped("exit"), new)
      BY <1>2, <1>5, <1>9 DEF TurnInv
    <3> QED
      BY <1>1, <1>3, <1>6, <2>4, <3>1, <3>2 DEF TurnInv
  <2>11. WaitInv'
    BY <1>1, <1>3, <1>6, <2>3, <2>4 DEF WaitInv
  <2>12. MenuInv'
    <3>1. CASE views = <<>>
      BY <1>6, <1>8, <1>12, <3>1 DEF MenuInv, Ready, HitDone
    <3>2. CASE views # <<>>
      <4>1. t.state = "RUNNING" /\ t.menus = IF e.state = "RUNNING" THEN e.menus ELSE Busy
        BY <1>8, <1>12, <3>2 DEF HitDone
      <4>2. "detach" \in t.menus /\ t.menus \subseteq Busy
        BY <4>1 DEF MenuInv, Busy
      <4>3. ~LastIsMove'
        BY <1>6, <1>8, <1>12, <2>3, <3>2 DEF LastIsMove, Moves, HitDone
      <4> QED
        BY <1>6, <1>10, <2>4, <4>1, <4>2, <4>3 DEF MenuInv, Busy
    <3> QED
      BY <3>1, <3>2
  <2>13. AttachInv'
    <3>1. gdb = "up" => ~In(Stopped("exit"), new)
      BY <2>2, InKnown
    <3> QED
      BY <1>1, <1>3, <1>6, <1>8, <1>10, <3>1 DEF AttachInv, HitDone
  <2> QED
    BY <1>11, <2>5, <2>6, <2>7, <2>8, <2>9, <2>10, <2>11, <2>12, <2>13
<1>13. CASE e.started # <<>>
  <2>1. PICK more : more = <<"query">> \o views
    OBVIOUS
  <2>2. /\ more \in Seq(Kinds) /\ more # <<>> /\ \A x : In(x, more) => x = "query"
        /\ more[Len(more)] = "query"
    BY <2>1, QueryIsKind, ViewsAreQueries
  <2>3. /\ t.started = e.started /\ t.wire = e.wire /\ t.queued = e.queued \o more
        /\ t.queued # <<>> /\ t.state = e.state /\ t.menus = e.menus
    BY <1>8, <1>13, <2>1 DEF HitDone
  <2>4. /\ t.queued[Len(t.queued)] = "query"
        /\ \A x : x # "query" => (In(x, t.queued) <=> In(x, e.queued))
    BY <1>1, <2>2, <2>3, CatFacts DEF Engine
  <2>5. /\ HasMain' <=> HasMain
        /\ ~LastIsMove'
    BY <1>6, <2>3, <2>4 DEF HasMain, LastIsMove, Moves
  <2>6. /\ e.started # <<"load">>
        /\ Waits => /\ ~HasMain /\ ~In("run", e.queued)
                    /\ ~(e.wire \in {<<"resume">>, <<"run">>} /\ e.queued = <<>>)
                    /\ e.wire # <<"run">>
    BY <1>2 DEF LoadInv, WaitInv
  <2>7. LineInv'
    BY <1>1, <1>3, <1>4, <1>6, <1>8, <1>10, <2>3 DEF LineInv, StopHeard, HitDone
  <2>8. OutInv'
    <3>1. /\ In(Result("running"), new) => e.started \in {<<"resume">>, <<"run">>}
          /\ In(Result("error"), new) => e.started # <<"load">>
      BY <1>4 DEF OutInv, StopHeard, Results
    <3> QED
      BY <1>3, <1>4, <1>6, <1>8, <2>3, <3>1 DEF OutInv, StopHeard, HitDone
  <2>9. AnswerInv'
    BY <1>1, <1>3, <1>4, <1>6, <1>10, <2>3 DEF AnswerInv, StopHeard
  <2>10. LoadInv'
    <3>1. ~In("load", t.queued)
      BY <2>4 DEF LoadInv
    <3> QED
      BY <1>6, <2>3, <2>6, <3>1 DEF LoadInv
  <2>11. StateInv'
    BY <1>1, <1>3, <1>4, <1>10 DEF StateInv, StopHeard
  <2>12. TurnInv'
    <3>1. ~Waits /\ Tame => ~In(Stopped("exit"), new)
      BY <1>2, <1>5, <1>9 DEF TurnInv
    <3> QED
      BY <1>1, <1>3, <1>6, <2>3, <3>1 DEF TurnInv
  <2>13. WaitInv'
    <3>1. Waits => ~HasMain' /\ ~In("run", t.queued) /\ (~In("detach", t.queued))
      BY <2>4, <2>5, <2>6 DEF WaitInv
    <3> QED
      BY <1>1, <1>6, <2>3, <2>4, <2>6, <3>1 DEF WaitInv
  <2>14. MenuInv'
    BY <1>6, <1>8, <1>10, <2>3, <2>5 DEF MenuInv, HitDone
  <2>15. AttachInv'
    <3>1. Attaching' <=> Attaching
      BY <1>3, <1>4, <1>6, <2>3 DEF Attaching, StopHeard, Results
    <3>2. In(Stopped("exit"), new) => In(Stopped("exit"), out)
      BY <1>5
    <3> QED
      BY <1>1, <1>3, <1>6, <1>8, <1>10, <3>1, <3>2 DEF AttachInv, HitDone
  <2> QED
    BY <1>11, <2>7, <2>8, <2>9, <2>10, <2>11, <2>12, <2>13, <2>14, <2>15
<1> QED
  BY <1>12, <1>13

LEMMA ExitKeeps ==
    ASSUME IInv, e.connected, out # <<>>, HandlesExit,
           out' = Tail(out), UNCHANGED <<gdb, inferior, sigint, may>>
    PROVE  IInv'
<1> USE DEF IInv
<1>1. /\ gdb' = gdb /\ inferior' = inferior /\ sigint' = sigint /\ may' = may
      /\ Tame' = Tame /\ Waits' = Waits /\ e \in Engine
  BY DEF Tame, Waits, TypeOK
<1>2. StopHeard(out') /\ out[1] = Stopped("exit") /\ In(Stopped("exit"), out)
  <2>1. PICK new : new = out'
    OBVIOUS
  <2>2. Head(out) = Stopped("exit") /\ Head(out) \in Stops
    BY RecordFacts DEF HandlesExit
  <2> QED
    BY <2>1, <2>2, StopIsHeard
<1>3. PICK new : new = out'
  OBVIOUS
<1>4. StopHeard(new)
  BY <1>2, <1>3
<1>5. PICK t : t = e'
  OBVIOUS
<1>6. /\ t \in Engine /\ t.connected = e.connected /\ ~t.attached /\ t.state = "PROGRAM_EXITED"
      /\ t.started = e.started /\ t.wire = e.wire /\ t.queued = e.queued
      /\ t.menus = (e.menus \ {"ready", "busy"}) \union {"loaded"}
  BY <1>1, <1>5, ExitEffect DEF HandlesExit, SameLine
<1>7. /\ Idle(e)' <=> Idle(e)
      /\ HasMain' <=> HasMain
      /\ Launching' <=> Launching
      /\ Attaching' <=> Attaching
  <2>1. In(Result("done"), out') <=> In(Result("done"), out)
    BY <1>3, <1>4 DEF StopHeard, Results
  <2> QED
    BY <1>5, <1>6, <2>1 DEF Idle, HasMain, Launching, Attaching
<1>8. Stopped("hit") # Stopped("exit")
  BY RecordFacts
<1>9. /\ e.started # <<"load">>
      /\ Waits => /\ ~HasMain /\ ~In("run", e.queued)
                  /\ ~(e.wire \in {<<"resume">>, <<"run">>} /\ e.queued = <<>>)
                  /\ e.wire # <<"run">>
  BY <1>2 DEF LoadInv, WaitInv
<1>10. TypeOK'
  <2>1. out' \in Seq(Record) /\ e' \in Engine
    BY <1>3, <1>4, <1>5, <1>6 DEF StopHeard
  <2>2. /\ gdb' \in {"none", "up", "dead"}
        /\ inferior' \in {"none", "loaded", "stopped", "running"}
        /\ sigint' \in BOOLEAN /\ may' \in Scenarios
    BY <1>1 DEF TypeOK
  <2> QED
    BY <2>1, <2>2 DEF TypeOK
<1>11. LineInv'
  BY <1>1, <1>3, <1>4, <1>5, <1>6, <1>7 DEF LineInv, StopHeard
<1>12. OutInv'
  <2>1. /\ In(Result("running"), new) => e.started \in {<<"resume">>, <<"run">>}
        /\ In(Result("error"), new) => e.started # <<"load">>
    BY <1>4 DEF OutInv, StopHeard, Results
  <2> QED
    BY <1>3, <1>4, <1>5, <1>6, <2>1 DEF OutInv, StopHeard
<1>13. AnswerInv'
  <2> SUFFICES ASSUME gdb = "up" PROVE AnswerInv'
    BY <1>1 DEF AnswerInv
  <2>1. \A i \in 1..Len(new) : new[i] \in {Result("done"), Result("error")} =>
          inferior # "running"
    BY <1>4 DEF StopHeard
  <2>2. \A i \in 1..Len(new) : new[i] = Result("running") =>
          \/ i = Len(new) /\ inferior = "running"
          \/ i + 1 = Len(new) /\ new[i + 1] = Stopped("hit") /\ inferior = "stopped"
          \/ i + 1 = Len(new) /\ new[i + 1] = Stopped("exit") /\ inferior = "loaded"
    BY <1>4 DEF StopHeard
  <2>3. inferior = "running" => new # <<>> /\ new[Len(new)] = Result("running")
    BY <1>4 DEF StopHeard
  <2>4. Idle(t) => new = <<>>
    BY <1>4, <1>5, <1>7 DEF StopHeard
  <2>5. t.started = <<"detach">> /\ In(Result("done"), new) => inferior = "none"
    BY <1>4, <1>6 DEF StopHeard
  <2> QED
    BY <1>1, <1>3, <1>5, <2>1, <2>2, <2>3, <2>4, <2>5 DEF AnswerInv
<1>14. LoadInv'
  BY <1>5, <1>6, <1>9 DEF LoadInv
<1>15. StateInv'
  <2>1. gdb = "up" /\ Idle(e) => inferior = "loaded"
    BY <1>2, <1>4 DEF StopHeard
  <2> QED
    BY <1>1, <1>3, <1>4, <1>5, <1>6, <1>7, <2>1 DEF StateInv, StopHeard
<1>16. TurnInv'
  <2> SUFFICES ASSUME Tame PROVE TurnInv'
    BY <1>1 DEF TurnInv
  <2>1. ASSUME NEW i \in 1..Len(new), new[i] = Result("running")
        PROVE  e.queued # <<>> \/ \E j \in 1..(i - 1) : new[j] = Stopped("hit")
    <3>1. i + 1 \in 1..Len(out) /\ out[i + 1] = Result("running") /\ i \in Int
          /\ \A j \in 1..((i + 1) - 1) : j # 1 => j - 1 \in 1..(i - 1) /\ new[j - 1] = out[j]
      <4>1. /\ \A k \in 1..Len(new) : new[k] = out[k + 1]
            /\ Len(new) = Len(out) - 1 /\ Len(out) \in Nat \ {0}
        BY <1>4 DEF StopHeard
      <4>2. i + 1 \in 1..Len(out) /\ out[i + 1] = Result("running") /\ i \in Int
        BY <4>1, <2>1
      <4>3. ASSUME NEW j \in 1..((i + 1) - 1), j # 1
            PROVE  j - 1 \in 1..(i - 1) /\ new[j - 1] = out[j]
        <5>1. j - 1 \in 1..(i - 1) /\ j - 1 \in 1..Len(new) /\ (j - 1) + 1 = j
          BY <4>1, <4>2, <4>3
        <5> QED
          BY <4>1, <5>1
      <4> QED
        BY <4>2, <4>3
    <3>2. 1 \in 1..((i + 1) - 1)
      BY <3>1
    <3>3. \/ e.queued # <<>>
          \/ \E j \in 1..((i + 1) - 1) : out[j] = Stopped("hit")
          \/ \A j \in 1..((i + 1) - 1) : out[j] # Stopped("exit")
      BY <3>1 DEF TurnInv
    <3>4. ~ \A j \in 1..((i + 1) - 1) : out[j] # Stopped("exit")
      BY <1>2, <3>2
    <3>5. ASSUME NEW j \in 1..((i + 1) - 1), out[j] = Stopped("hit")
          PROVE  \E k \in 1..(i - 1) : new[k] = Stopped("hit")
      BY <1>2, <1>8, <3>1, <3>5
    <3> QED
      BY <3>3, <3>4, <3>5
  <2>2. e.wire \in {<<"resume">>, <<"run">>} /\ e.queued = <<>> => In(Stopped("hit"), new)
    BY <1>2, <1>4, <1>8 DEF TurnInv, StopHeard
  <2>3. ~Waits => ~In(Stopped("exit"), new)
    <3>1. ~Waits => \A i \in 2..Len(out) : out[i] # Stopped("exit")
      BY <1>2 DEF TurnInv
    <3>2. \A i \in 1..Len(new) : i + 1 \in 2..Len(out) /\ new[i] = out[i + 1]
      BY <1>4 DEF StopHeard
    <3> QED
      BY <3>1, <3>2 DEF In
  <2>4. Waits' = Waits /\ Tame' = Tame
    BY <1>1
  <2> QED
    BY <1>3, <1>5, <1>6, <2>1, <2>2, <2>3, <2>4 DEF TurnInv
<1>17. WaitInv'
  BY <1>1, <1>5, <1>6, <1>7, <1>9 DEF WaitInv
<1>18. MenuInv'
  BY <1>5, <1>6 DEF MenuInv
<1>19. AttachInv'
  <2>1. ASSUME Waits, "reuse" \notin may, gdb = "up"
        PROVE  inferior \notin {"stopped", "running"} \/ Attaching
    BY <1>2, <2>1 DEF AttachInv
  <2>2. Waits' = Waits /\ gdb' = gdb /\ inferior' = inferior /\ may' = may
    BY <1>1
  <2> QED
    BY <1>5, <1>6, <1>7, <1>9, <2>1, <2>2 DEF AttachInv
<1> QED
  BY <1>10, <1>11, <1>12, <1>13, <1>14, <1>15, <1>16, <1>17, <1>18, <1>19

(* Where the commands that are left come from, and the last of them.       *)
LEMMA LeftFacts ==
    ASSUME NEW c \in Kinds, NEW cs \in Seq(Kinds), NEW r \in Results,
           NEW slot \in {<<>>, <<"run">>}, slot # <<>> => c = "main" /\ r = Result("done"),
           NEW left, left = Left(r, c, cs, slot)
    PROVE  /\ \/ left = cs
              \/ left = <<>> /\ r = Result("done") /\ c = "detach"
              \/ /\ left # <<>> /\ c = "attach" /\ r = Result("done")
                 /\ left[Len(left)] = "query"
                 /\ \A x : In(x, left) => In(x, cs) \/ x \in {"resume", "query"}
              \/ /\ left # <<>> /\ c = "main" /\ r = Result("done")
                 /\ left[Len(left)] = "run" /\ (cs = <<>> => left = <<"run">>)
                 /\ \A x : In(x, left) => In(x, cs) \/ x = "run"
           /\ r # Result("done") => left = cs
           /\ c \notin {"detach", "attach", "main"} => left = cs
<1>1. CASE r = Result("done") /\ c = "detach"
  BY <1>1 DEF Left
<1>2. CASE r = Result("done") /\ c = "attach"
  <2>1. PICK more : more = <<"resume", "query">>
    OBVIOUS
  <2>2. /\ more \in Seq(Kinds) /\ more # <<>> /\ more[Len(more)] = "query"
        /\ \A x : In(x, more) <=> x = "resume" \/ x = "query"
    BY <2>1, KnownSeqs, InKnown
  <2>3. left = cs \o more
    BY <1>2, <2>1 DEF Left
  <2>4. left # <<>> /\ left[Len(left)] = "query" /\ \A x : In(x, left) <=> In(x, cs) \/ In(x, more)
    BY <2>2, <2>3, CatFacts
  <2> QED
    BY <1>2, <2>2, <2>4
<1>3. CASE r = Result("done") /\ c \notin {"load", "attach", "detach"}
  <2>1. left = cs \o slot
    BY <1>3 DEF Left
  <2>2. CASE slot = <<>>
    BY <1>3, <2>1, <2>2
  <2>3. CASE slot = <<"run">>
    <3>1. /\ slot \in Seq(Kinds) /\ slot # <<>> /\ slot[Len(slot)] = "run"
          /\ \A x : In(x, slot) <=> x = "run"
      BY <2>3, KnownSeqs, InKnown
    <3>2. /\ left # <<>> /\ left[Len(left)] = "run" /\ (cs = <<>> => left = slot)
          /\ \A x : In(x, left) <=> In(x, cs) \/ In(x, slot)
      BY <2>1, <3>1, CatFacts
    <3> QED
      BY <1>3, <2>3, <3>1, <3>2
  <2> QED
    BY <2>2, <2>3
<1>4. CASE r # Result("done") \/ c = "load"
  BY <1>4 DEF Left
<1> QED
  BY <1>1, <1>2, <1>3, <1>4

(* What holds of the records new that are left after the result r.         *)
ResultHeard(new, r) ==
    /\ new \in Seq(Printed) /\ new \in Seq(Record)
    /\ \A x : In(x, new) => In(x, out)
    /\ \A i \in 1..Len(new) : new[i] \notin Results
    /\ \A x \in Results : ~In(x, new) /\ (In(x, out) => x = r)
    /\ r # Result("running") => new = <<>>
    /\ gdb = "up" =>
          /\ r # Result("running") => inferior # "running"
          /\ r = Result("running") =>
                \/ new = <<>> /\ inferior = "running"
                \/ new = <<Stopped("hit")>> /\ inferior = "stopped"
                \/ new = <<Stopped("exit")>> /\ inferior = "loaded"

LEMMA ResultIsHeard ==
    ASSUME IInv, out # <<>>, NEW r \in Results, Head(out) = r, NEW new
    PROVE  new = Tail(out) => ResultHeard(new, r) /\ out[1] = r /\ In(r, out)
<1>0. SUFFICES ASSUME new = Tail(out)
               PROVE  ResultHeard(new, r) /\ out[1] = r /\ In(r, out)
  OBVIOUS
<1> USE DEF IInv
<1>1. /\ out \in Seq(Printed) /\ out[1] = r /\ new \in Seq(Printed)
      /\ Len(out) = Len(new) + 1 /\ Len(new) \in Nat
      /\ \A i \in 1..Len(new) : new[i] = out[i + 1] /\ i + 1 \in 1..Len(out) /\ i + 1 # 1
      /\ \A x : In(x, out) <=> x = r \/ In(x, new)
      /\ 1 \in 1..Len(out)
  <2>1. out \in Seq(Printed)
    BY DEF LineInv
  <2>2. /\ Head(out) = out[1] /\ new \in Seq(Printed)
        /\ Len(out) \in Nat \ {0} /\ Len(new) = Len(out) - 1
        /\ \A i \in 1..(Len(out) - 1) : new[i] = out[i + 1]
        /\ \A x : In(x, out) <=> x = Head(out) \/ In(x, new)
    BY <1>0, <2>1, TailFacts
  <2> QED
    BY <2>1, <2>2
<1>2. new \in Seq(Record)
  BY <1>0, TailFacts DEF TypeOK
<1>3. \A i \in 1..Len(new) : new[i] \notin Results
  <2> SUFFICES ASSUME NEW i \in 1..Len(new), new[i] \in Results PROVE FALSE
    OBVIOUS
  <2>1. i + 1 = 1
    BY <1>1 DEF OutInv
  <2> QED
    BY <1>1, <2>1
<1>4. \A x \in Results : ~In(x, new)
  BY <1>3 DEF In
<1>5. {Result("done"), Result("running"), Result("error")} = Results
      /\ Result("running") # Result("done") /\ Result("running") # Result("error")
  BY RecordFacts DEF Results
<1>6. ASSUME r # Result("running") PROVE new = <<>>
  <2>1. 1 = Len(out)
    BY <1>1, <1>5, <1>6 DEF OutInv
  <2>2. Len(new) = 0
    BY <1>1, <2>1
  <2> QED
    BY <1>1, <2>2, EmptySeq
<1>7. ASSUME gdb = "up", r # Result("running") PROVE inferior # "running"
  BY <1>1, <1>5, <1>7 DEF AnswerInv
<1>8. ASSUME gdb = "up", r = Result("running")
      PROVE  \/ new = <<>> /\ inferior = "running"
             \/ new = <<Stopped("hit")>> /\ inferior = "stopped"
             \/ new = <<Stopped("exit")>> /\ inferior = "loaded"
  <2>1. \/ 1 = Len(out) /\ inferior = "running"
        \/ 2 = Len(out) /\ out[2] = Stopped("hit") /\ inferior = "stopped"
        \/ 2 = Len(out) /\ out[2] = Stopped("exit") /\ inferior = "loaded"
    <3>1. 1 + 1 = 2
      OBVIOUS
    <3> QED
      BY <1>1, <1>8, <3>1 DEF AnswerInv
  <2>2. 1 = Len(out) => new = <<>>
    <3>1. 1 = Len(out) => Len(new) = 0
      BY <1>1
    <3> QED
      BY <1>1, <3>1, EmptySeq
  <2>3. ASSUME 2 = Len(out) PROVE new = <<out[2]>>
    <3>1. Len(new) = 1 /\ 1 \in 1..Len(new) /\ 1 + 1 = 2
      <4>1. PICK n, m : n = Len(out) /\ m = Len(new)
        OBVIOUS
      <4>2. n = m + 1 /\ m \in Nat
        BY <1>1, <4>1
      <4>3. n = 2
        BY <2>3, <4>1
      <4>4. m = 1 /\ 1 \in 1..m /\ 1 + 1 = 2
        BY <4>2, <4>3
      <4> QED
        BY <4>1, <4>4
    <3>2. new[1] = out[2]
      <4>1. new[1] = out[1 + 1]
        BY <1>1, <3>1
      <4> QED
        BY <3>1, <4>1
    <3>3. new = <<new[1]>>
      BY <1>1, <3>1
    <3> QED
      BY <3>2, <3>3
  <2> QED
    BY <2>1, <2>2, <2>3
<1> QED
  BY <1>1, <1>2, <1>3, <1>4, <1>6, <1>7, <1>8 DEF ResultHeard

(* A command issued from those that are left.                              *)
LEMMA IssuedFacts ==
    ASSUME NEW left \in Seq(Kinds), left # <<>>
    PROVE  /\ In(Head(left), left) /\ \A x : In(x, Tail(left)) => In(x, left)
           /\ Tail(left) = <<>> => Head(left) = left[Len(left)] /\ left = <<Head(left)>>
           /\ Tail(left) # <<>> => Tail(left)[Len(Tail(left))] = left[Len(left)]
           /\ \A x : left = <<x>> => Tail(left) = <<>>
           /\ left = <<"query", "run">> => Head(left) = "query" /\ Tail(left) = <<"run">>
<1>1. PICK tl : tl = Tail(left)
  OBVIOUS
<1>2. PICK h : h = Head(left)
  OBVIOUS
<1>3. /\ h = left[1] /\ tl \in Seq(Kinds) /\ Len(left) = Len(tl) + 1 /\ Len(tl) \in Nat
      /\ \A i \in 1..Len(tl) : tl[i] = left[i + 1]
      /\ \A x : In(x, left) <=> x = h \/ In(x, tl)
  <2>1. /\ h = left[1] /\ tl \in Seq(Kinds) /\ Len(left) \in Nat \ {0}
        /\ Len(tl) = Len(left) - 1
        /\ \A i \in 1..(Len(left) - 1) : tl[i] = left[i + 1]
        /\ \A x : In(x, left) <=> x = h \/ In(x, tl)
    BY <1>1, <1>2, TailFacts
  <2> QED
    BY <2>1
<1>4. ASSUME tl = <<>> PROVE h = left[Len(left)] /\ left = <<h>>
  <2>1. Len(left) = 1
    BY <1>3, <1>4
  <2> QED
    BY <1>3, <2>1
<1>5. ASSUME tl # <<>> PROVE tl[Len(tl)] = left[Len(left)]
  <2>1. Len(tl) \in 1..Len(tl)
    BY <1>3, <1>5, EmptySeq
  <2> QED
    BY <1>3, <2>1
<1>6. \A x : Len(<<x>>) = 1
  OBVIOUS
<1>7. ASSUME NEW x, left = <<x>> PROVE tl = <<>>
  <2>1. Len(left) = 1
    BY <1>7
  <2>2. Len(tl) = 0
    BY <1>3, <2>1
  <2> QED
    BY <1>3, <2>2, EmptySeq
<1>8. left = <<"query", "run">> => h = "query" /\ tl = <<"run">>
  BY <1>1, <1>2
<1> QED
  BY <1>1, <1>2, <1>3, <1>4, <1>5, <1>7, <1>8

LEMMA ResultKeeps ==
    ASSUME IInv, e.connected, out # <<>>,
           NEW r \in Results, NEW c \in Kinds, NEW slot \in {<<>>, <<"run">>},
           HandlesResult(r, c, slot),
           out' = Tail(out), UNCHANGED <<gdb, inferior, sigint, may>>
    PROVE  IInv'
<1> USE DEF IInv
<1>1. /\ gdb' = gdb /\ inferior' = inferior /\ sigint' = sigint /\ may' = may
      /\ Tame' = Tame /\ Waits' = Waits /\ e \in Engine /\ e.queued \in Seq(Kinds)
  BY DEF Tame, Waits, TypeOK, Engine
<1>2. PICK new : new = out'
  OBVIOUS
<1>3. ResultHeard(new, r) /\ out[1] = r /\ In(r, out)
  BY <1>2, ResultIsHeard DEF HandlesResult
<1>4. PICK t : t = e'
  OBVIOUS
<1>5. PICK left : left = Left(r, c, e.queued, slot)
  OBVIOUS
<1>6. ResultDone(e, r, c, left, t)
  <2>1. t = NextCommand(OnResult(e, r, slot)) /\ e.started = <<c>> /\ e.wire = <<>>
    BY <1>4 DEF HandlesResult
  <2> QED
    BY <1>1, <1>5, <2>1, ResultEffect
<1>7. /\ \/ left = e.queued
         \/ left = <<>> /\ r = Result("done") /\ c = "detach"
         \/ /\ left # <<>> /\ c = "attach" /\ r = Result("done")
            /\ left[Len(left)] = "query"
            /\ \A x : In(x, left) => In(x, e.queued) \/ x \in {"resume", "query"}
         \/ /\ left # <<>> /\ c = "main" /\ r = Result("done")
            /\ left[Len(left)] = "run" /\ (e.queued = <<>> => left = <<"run">>)
            /\ \A x : In(x, left) => In(x, e.queued) \/ x = "run"
      /\ r # Result("done") => left = e.queued
      /\ c \notin {"detach", "attach", "main"} => left = e.queued
  <2>1. slot # <<>> => c = "main" /\ r = Result("done")
    BY DEF HandlesResult
  <2> QED
    BY <1>1, <1>5, <2>1, LeftFacts
<1>8. PICK h, tl : h = Head(left) /\ tl = Tail(left)
  OBVIOUS
<1>9. left # <<>> =>
        /\ In(h, left) /\ \A x : In(x, tl) => In(x, left)
        /\ tl = <<>> => h = left[Len(left)] /\ left = <<h>>
        /\ tl # <<>> => tl[Len(tl)] = left[Len(left)]
        /\ \A x : left = <<x>> => tl = <<>>
        /\ left = <<"query", "run">> => h = "query" /\ tl = <<"run">>
  <2>1. left \in Seq(Kinds)
    BY <1>6 DEF ResultDone
  <2> QED
    BY <1>8, <2>1, IssuedFacts
<1>10. /\ \A k : e.started = <<k>> <=> c = k
       /\ e.started = <<c>> /\ e.wire = <<>>
       /\ \A x : <<x>> # <<>>
       /\ \A x, y : <<x>> = <<y>> <=> x = y
  BY DEF HandlesResult
<1>11. /\ Result("done") # Result("running") /\ Result("done") # Result("error")
       /\ Result("running") # Result("error")
       /\ r = Result("done") \/ r = Result("running") \/ r = Result("error")
  BY RecordFacts DEF Results
<1>12. /\ r = Result("running") => c \in {"resume", "run"}
       /\ r = Result("error") => c # "load"
       /\ c = "load" => r = Result("done")
  <2>1. r = Result("running") => c \in {"resume", "run"}
    BY <1>3, <1>10 DEF OutInv
  <2>2. r = Result("error") => c # "load"
    BY <1>3, <1>10 DEF OutInv
  <2> QED
    BY <1>11, <2>1, <2>2
<1>13. /\ t \in Engine /\ t.connected /\ t.attached = AttachedAfter(r, c, e)
       /\ left # <<>> =>
             /\ t.started = <<h>> /\ t.wire = <<h>> /\ t.queued = tl /\ t.state = "RUNNING"
             /\ t.menus = Busy \/ (t.menus = e.menus /\ e.state = "RUNNING" /\ c # "load")
       /\ left = <<>> =>
             /\ t.started = <<>> /\ t.wire = <<>> /\ t.queued = <<>>
             /\ t.state = Ended(r, c, e)
             /\ \/ e.state = t.state /\ t.menus = e.menus
                \/ t.menus = {"loaded"} /\ t.state = "INFERIOR_LOADED"
                \/ t.menus \subseteq e.menus /\ t.state = "NOT_STARTED"
                \/ t.menus = Ready /\ t.state = "READY"
  BY <1>6, <1>8, <1>12 DEF ResultDone
<1>14. /\ Ended(r, c, e) = "RUNNING" => r = Result("running")
       /\ Ended(r, c, e) = "PROGRAM_EXITED" => r = Result("running")
       /\ r = Result("running") => Ended(r, c, e) = e.state
       /\ r # Result("running") =>
             \/ Ended(r, c, e) = "READY"
             \/ c = "load" /\ Ended(r, c, e) = "INFERIOR_LOADED"
             \/ c = "detach" /\ r = Result("done") /\ Ended(r, c, e) = "NOT_STARTED"
  BY <1>11 DEF Ended
<1>15. ASSUME r = Result("running"), e.queued = <<>>, Tame
       PROVE  e.state = "RUNNING"
  <2>1. \/ \E j \in 1..(1 - 1) : out[j] = Stopped("hit")
        \/ e.state = "RUNNING"
    <3>1. 1 \in 1..Len(out)
      <4>1. out \in Seq(Printed)
        BY DEF LineInv
      <4> QED
        BY <4>1, EmptySeq
    <3> QED
      BY <1>3, <1>15, <3>1 DEF TurnInv
  <2> QED
    BY <2>1
<1>16. ASSUME Waits, HasMain \/ In("run", e.queued)
       PROVE  /\ inferior \in {"none", "loaded"}
              /\ \/ c = "load" /\ left = <<"main">> /\ e.queued = <<"main">>
                 \/ c = "load" /\ left = <<"query", "run">> /\ e.queued = <<"query", "run">>
                 \/ c = "main" /\ (left = <<>> \/ left = <<"run">>)
                 \/ c = "query" /\ left = <<"run">>
              /\ new = <<>>
  <2>1. Launching /\ inferior \in {"none", "loaded"}
    BY <1>16 DEF WaitInv
  <2>2. \/ c = "load" /\ e.queued \in {<<>>, <<"main">>, <<"query", "run">>}
        \/ c = "main" /\ e.queued = <<>>
        \/ c = "query" /\ e.queued = <<"run">>
    BY <1>10, <2>1 DEF Launching
  <2>3. new = <<>>
    BY <1>3, <1>12, <2>2 DEF ResultHeard
  <2>4. c # "main" => left = e.queued
    BY <1>7, <2>2
  <2>5. c = "main" => left = <<>> \/ left = <<"run">>
    BY <1>7, <2>2
  <2>6. ~(c = "load" /\ e.queued = <<>>)
    <3>1. ~In("main", <<>>) /\ ~In("run", <<>>)
      BY InKnown
    <3> QED
      BY <1>10, <1>16, <3>1 DEF HasMain
  <2> QED
    BY <2>1, <2>2, <2>3, <2>4, <2>5, <2>6
<1>17. TypeOK'
  <2>1. e' \in Engine /\ out' \in Seq(Record)
    BY <1>2, <1>3, <1>4, <1>13 DEF ResultHeard
  <2> QED
    BY <1>1, <2>1 DEF TypeOK
<1>18. LineInv'
  <2>1. out' \in Seq(Printed) /\ e'.connected
    BY <1>2, <1>3, <1>4, <1>13 DEF ResultHeard
  <2>2. CASE left = <<>>
    BY <1>1, <1>4, <1>13, <2>1, <2>2 DEF LineInv
  <2>3. CASE left # <<>>
    <3>1. ~Idle(e)' /\ e'.wire = e'.started
      BY <1>4, <1>10, <1>13, <2>3 DEF Idle
    <3> QED
      BY <1>1, <2>1, <3>1 DEF LineInv
  <2> QED
    BY <2>2, <2>3
<1>19. OutInv'
  <2>1. ~(t.started # <<>> /\ t.wire = <<>>)
    BY <1>10, <1>13
  <2>2. \A i \in 1..Len(new) : new[i] \notin Results
    BY <1>3 DEF ResultHeard
  <2>3. ~In(Result("running"), new) /\ ~In(Result("error"), new)
    BY <2>2 DEF In, Results
  <2>4. \A i \in 1..Len(new) : new[i] \notin {Result("done"), Result("error")}
    BY <2>2 DEF Results
  <2> QED
    BY <1>2, <1>4, <2>1, <2>2, <2>3, <2>4 DEF OutInv
<1>20. AnswerInv'
  <2> SUFFICES ASSUME gdb = "up" PROVE AnswerInv'
    BY <1>1 DEF AnswerInv
  <2>1. \A i \in 1..Len(new) : new[i] \notin {Result("done"), Result("running"), Result("error")}
    BY <1>3 DEF ResultHeard, Results
  <2>2. ~In(Result("done"), new)
    BY <2>1 DEF In
  <2>3. \/ new = <<>>
        \/ new = <<Stopped("hit")>> /\ inferior = "stopped"
        \/ new = <<Stopped("exit")>> /\ inferior = "loaded"
    BY <1>3, <1>11 DEF ResultHeard
  <2> QED
    BY <1>1, <1>2, <2>1, <2>2, <2>3 DEF AnswerInv
<1>21. LoadInv'
  <2>1. ~In("load", left)
    <3>1. ~In("load", e.queued)
      BY DEF LoadInv
    <3>2. ~In("load", <<>>)
      BY InKnown
    <3> QED
      BY <1>7, <3>1, <3>2
  <2>2. CASE left = <<>>
    <3>1. ~In("load", <<>>) /\ <<"load">> # <<>>
      BY InKnown
    <3> QED
      BY <1>4, <1>13, <2>2, <3>1 DEF LoadInv
  <2>3. CASE left # <<>>
    <3>1. h # "load" /\ ~In("load", tl)
      BY <1>9, <2>1, <2>3
    <3> QED
      BY <1>4, <1>10, <1>13, <2>3, <3>1 DEF LoadInv
  <2> QED
    BY <2>2, <2>3
<1>22. StateInv'
  <2> SUFFICES ASSUME gdb = "up" PROVE StateInv'
    BY <1>1 DEF StateInv
  <2>1. ASSUME inferior = "running", Tame PROVE t.state = "RUNNING"
    <3>1. r = Result("running")
      BY <1>3, <2>1 DEF ResultHeard
    <3>2. CASE left = <<>>
      BY <1>7, <1>11, <1>13, <1>14, <1>15, <2>1, <3>1, <3>2
    <3> QED
      BY <1>13, <3>2
  <2>2. ASSUME t.started = <<>>
        PROVE  /\ left = <<>>
               /\ new = <<>> /\ t.state = "RUNNING" => inferior = "running"
               /\ new = <<>> /\ inferior = "stopped" => t.state = "READY"
    <3>1. left = <<>>
      BY <1>10, <1>13, <2>2
    <3>2. new = <<>> /\ r = Result("running") => inferior = "running"
      BY <1>3, <1>10 DEF ResultHeard
    <3>3. c = "load" => inferior # "stopped"
      BY <1>10 DEF LoadInv
    <3>4. c = "detach" /\ r = Result("done") => inferior # "stopped"
      BY <1>3, <1>10 DEF AnswerInv
    <3> QED
      BY <1>13, <1>14, <3>1, <3>2, <3>3, <3>4
  <2> QED
    BY <1>1, <1>2, <1>4, <2>1, <2>2 DEF StateInv, Idle
<1>23. ASSUME t.wire \in {<<"resume">>, <<"run">>}, t.queued = <<>>
       PROVE  /\ t.state = "RUNNING"
              /\ Waits => new = <<>> /\ inferior # "running"
  <2>1. /\ left # <<>> /\ h \in {"resume", "run"} /\ tl = <<>> /\ t.state = "RUNNING"
        /\ h = left[Len(left)] /\ left = <<h>>
    <3>1. left # <<>>
      BY <1>10, <1>13, <1>23
    <3> QED
      BY <1>9, <1>10, <1>13, <1>23, <3>1
  <2>2. ASSUME Waits PROVE new = <<>> /\ inferior # "running"
    <3>1. CASE left = e.queued
      <4>1. h # "resume"
        BY <2>1, <2>2, <3>1 DEF WaitInv
      <4>2. In("run", e.queued)
        BY <1>9, <2>1, <3>1, <4>1
      <4> QED
        BY <1>16, <2>2, <4>2
    <3>2. CASE left # e.queued
      <4>1. c = "main"
        BY <1>7, <2>1, <3>2
      <4>2. HasMain
        BY <1>10, <4>1 DEF HasMain
      <4> QED
        BY <1>16, <2>2, <4>2
    <3> QED
      BY <3>1, <3>2
  <2> QED
    BY <2>1, <2>2
<1>24. TurnInv'
  <2> SUFFICES ASSUME Tame PROVE TurnInv'
    BY <1>1 DEF TurnInv
  <2>1. \A i \in 1..Len(new) : new[i] # Result("running")
    BY <1>3 DEF ResultHeard, Results
  <2>2. ASSUME ~Waits PROVE ~In(Stopped("exit"), new)
    <3>1. In(Stopped("exit"), out) => out[1] = Stopped("exit")
      BY <2>2 DEF TurnInv
    <3>2. Stopped("exit") \notin Results
      BY RecordFacts
    <3> QED
      BY <1>3, <3>1, <3>2 DEF ResultHeard
  <2>3. Waits /\ new = <<>> => ~In(Stopped("exit"), new)
    BY InKnown
  <2>4. Waits' = Waits /\ Tame' = Tame
    BY <1>1
  <2> QED
    BY <1>2, <1>4, <1>23, <2>1, <2>2, <2>3, <2>4 DEF TurnInv
<1>25. WaitInv'
  <2> SUFFICES ASSUME Waits PROVE WaitInv'
    BY <1>1 DEF WaitInv
  <2>1. \A x : ~In(x, <<>>)
    BY InKnown
  <2>2. ASSUME HasMain' \/ In("run", t.queued) \/ t.wire = <<"run">>
        PROVE  /\ left # <<>> /\ (HasMain \/ In("run", e.queued))
    <3>1. left # <<>>
      BY <1>4, <1>10, <1>13, <2>1, <2>2 DEF HasMain
    <3>2. In("main", left) \/ In("run", left)
      BY <1>4, <1>9, <1>10, <1>13, <2>2, <3>1 DEF HasMain
    <3>3. In("main", e.queued) \/ In("run", e.queued) \/ c = "main"
      BY <1>7, <3>1, <3>2
    <3> QED
      BY <1>10, <3>1, <3>3 DEF HasMain
  <2>3. ASSUME HasMain' \/ In("run", t.queued)
        PROVE  Launching' /\ inferior \in {"none", "loaded"} /\ new = <<>>
    <3>1. left # <<>> /\ (HasMain \/ In("run", e.queued))
      BY <2>2, <2>3
    <3>2. CASE left = <<"main">>
      <4>1. tl = <<>> /\ h = "main"
        BY <1>9, <1>10, <3>1, <3>2
      <4> QED
        BY <1>4, <1>13, <1>16, <3>1, <4>1 DEF Launching
    <3>3. CASE left = <<"query", "run">>
      <4>1. tl = <<"run">> /\ h = "query"
        BY <1>9, <3>1, <3>3
      <4> QED
        BY <1>4, <1>13, <1>16, <3>1, <4>1 DEF Launching
    <3>4. CASE left = <<"run">>
      <4>1. tl = <<>> /\ h = "run"
        BY <1>9, <1>10, <3>1, <3>4
      <4>2. ~HasMain' /\ ~In("run", t.queued)
        BY <1>4, <1>10, <1>13, <2>1, <3>1, <4>1 DEF HasMain
      <4> QED
        BY <2>3, <4>2
    <3> QED
      BY <1>16, <3>1, <3>2, <3>3, <3>4
  <2>4. ASSUME t.queued # <<>> PROVE t.queued[Len(t.queued)] # "resume"
    <3>1. left # <<>> /\ t.queued[Len(t.queued)] = left[Len(left)]
      BY <1>9, <1>13, <2>4
    <3>2. left = e.queued => left[Len(left)] # "resume"
      BY <3>1 DEF WaitInv
    <3> QED
      BY <1>7, <3>1, <3>2
  <2>5. ASSUME t.wire = <<"run">> PROVE t.queued = <<>>
    <3>1. left # <<>> /\ (HasMain \/ In("run", e.queued)) /\ h = "run"
      BY <1>10, <1>13, <2>2, <2>5
    <3>2. left = <<"run">>
      <4>1. left # <<"query", "run">>
        BY <1>9, <3>1
      <4>2. left # <<"main">>
        BY <1>9, <1>10, <3>1
      <4> QED
        BY <1>16, <3>1, <4>1, <4>2
    <3> QED
      BY <1>9, <1>13, <3>1, <3>2
  <2>6. ~In("detach", t.queued) /\ t.wire # <<"detach">>
    <3>1. ~In("detach", left)
      <4>1. ~In("detach", e.queued)
        BY DEF WaitInv
      <4> QED
        BY <1>7, <2>1, <4>1
    <3>2. CASE left = <<>>
      BY <1>10, <1>13, <2>1, <3>2
    <3>3. CASE left # <<>>
      BY <1>9, <1>10, <1>13, <3>1, <3>3
    <3> QED
      BY <3>2, <3>3
  <2>7. Waits' = Waits
    BY <1>1
  <2> QED
    BY <1>1, <1>2, <1>4, <1>23, <2>1, <2>3, <2>4, <2>5, <2>6, <2>7 DEF WaitInv
<1>26. MenuInv'
  <2>1. CASE left # <<>>
    <3>1. "detach" \in t.menus /\ t.menus \subseteq Busy /\ t.state = "RUNNING"
      BY <1>13, <2>1 DEF MenuInv, Busy
    <3>2. ASSUME "busy" \notin t.menus PROVE ~HasMain' /\ ~LastIsMove'
      <4>1. ~HasMain /\ ~LastIsMove
        BY <1>10, <1>13, <2>1, <3>2 DEF MenuInv, Busy
      <4>2. c # "main" /\ ~In("main", e.queued)
        BY <1>10, <4>1 DEF HasMain
      <4>3. ~In("main", left) /\ left[Len(left)] \notin Moves
        BY <1>7, <2>1, <4>1, <4>2 DEF LastIsMove, Moves
      <4>4. ~HasMain'
        BY <1>4, <1>9, <1>10, <1>13, <2>1, <4>3 DEF HasMain
      <4>5. CASE tl = <<>>
        <5>1. h \notin {"resume", "run"}
          BY <1>9, <2>1, <4>3, <4>5 DEF Moves
        <5> QED
          BY <1>4, <1>10, <1>13, <2>1, <4>4, <4>5, <5>1 DEF LastIsMove
      <4>6. CASE tl # <<>>
        BY <1>4, <1>9, <1>13, <2>1, <4>3, <4>4, <4>6 DEF LastIsMove
      <4> QED
        BY <4>5, <4>6
    <3>3. t.started # <<>>
      BY <1>10, <1>13, <2>1
    <3> QED
      BY <1>4, <3>1, <3>2, <3>3 DEF MenuInv, Busy
  <2>2. CASE left = <<>>
    <3>1. CASE e.state = t.state /\ t.menus = e.menus
      <4>1. ~(t.state = "RUNNING" /\ "busy" \notin t.menus)
        <5>1. SUFFICES ASSUME t.state = "RUNNING", "busy" \notin t.menus PROVE FALSE
          OBVIOUS
        <5>2. r = Result("running") /\ e.queued = <<>> /\ c \in {"resume", "run"}
          BY <1>7, <1>11, <1>12, <1>13, <1>14, <2>2, <5>1
        <5>3. LastIsMove /\ e.started # <<"load">>
          BY <1>10, <5>2 DEF LastIsMove
        <5> QED
          BY <3>1, <5>1, <5>3 DEF MenuInv
      <4> QED
        BY <1>4, <3>1, <4>1 DEF MenuInv
    <3>2. CASE t.menus = {"loaded"} /\ t.state = "INFERIOR_LOADED"
      BY <1>4, <3>2 DEF MenuInv
    <3>3. CASE t.menus \subseteq e.menus /\ t.state = "NOT_STARTED"
      BY <1>4, <3>3 DEF MenuInv
    <3>4. CASE t.menus = Ready /\ t.state = "READY"
      BY <1>4, <3>4 DEF MenuInv, Ready
    <3> QED
      BY <1>13, <2>2, <3>1, <3>2, <3>3, <3>4
  <2> QED
    BY <2>1, <2>2
<1>27. AttachInv'
  <2>1. ASSUME Waits, t.state = "PROGRAM_EXITED" PROVE t.started # <<>>
    <3> SUFFICES ASSUME left = <<>> PROVE FALSE
      BY <1>10, <1>13
    <3>1. r = Result("running") /\ e.state = "PROGRAM_EXITED" /\ e.queued = <<>>
      BY <1>7, <1>11, <1>13, <1>14, <2>1
    <3>2. Tame
      BY <2>1 DEF Waits, Tame
    <3> QED
      BY <1>15, <3>1, <3>2
  <2>2. ASSUME Waits, "reuse" \notin may, gdb = "up"
        PROVE  /\ inferior \in {"stopped", "running"} => t.attached
               /\ In(Stopped("exit"), new) => inferior \notin {"stopped", "running"}
               /\ t.wire = <<"run">> \/ In("run", t.queued) \/ HasMain' => t.attached
    <3>1. ~(r = Result("done") /\ c = "detach") => (e.attached => t.attached)
      BY <1>13 DEF AttachedAfter
    <3>2. r = Result("done") /\ c = "detach" => inferior = "none" /\ left = <<>>
      <4>1. r = Result("done") /\ c = "detach" => inferior = "none"
        BY <1>3, <1>10, <2>2 DEF AnswerInv
      <4>2. r = Result("done") /\ c = "detach" => left = <<>>
        BY <1>5 DEF Left
      <4> QED
        BY <4>1, <4>2
    <3>3. ASSUME inferior \in {"stopped", "running"} PROVE t.attached
      <4>1. e.attached \/ Attaching
        BY <2>2, <3>3 DEF AttachInv
      <4>2. Attaching => c = "attach" /\ r = Result("done")
        BY <1>3, <1>10 DEF Attaching, ResultHeard, Results
      <4>3. c = "attach" /\ r = Result("done") => t.attached
        BY <1>13 DEF AttachedAfter
      <4> QED
        BY <3>1, <3>2, <3>3, <4>1, <4>2, <4>3
    <3>4. In(Stopped("exit"), new) => inferior \notin {"stopped", "running"}
      <4>1. ~In(Stopped("exit"), <<>>)
        BY InKnown
      <4>2. ~In(Stopped("exit"), <<Stopped("hit")>>)
        BY InKnown, RecordFacts
      <4> QED
        BY <1>3, <2>2, <4>1, <4>2 DEF ResultHeard
    <3>5. ASSUME t.wire = <<"run">> \/ In("run", t.queued) \/ HasMain' PROVE t.attached
      <4>1. \A x : ~In(x, <<>>)
        BY InKnown
      <4>2. left # <<>>
        BY <1>4, <1>10, <1>13, <3>5, <4>1 DEF HasMain
      <4>3. In("main", left) \/ In("run", left)
        BY <1>4, <1>9, <1>10, <1>13, <3>5, <4>2 DEF HasMain
      <4>4. In("run", e.queued) \/ HasMain
        BY <1>7, <1>10, <4>2, <4>3 DEF HasMain
      <4>5. e.attached
        BY <2>2, <4>4 DEF AttachInv
      <4> QED
        BY <3>1, <3>2, <4>2, <4>5
    <3> QED
      BY <3>3, <3>4, <3>5
  <2>3. Waits' = Waits
    BY <1>1
  <2> QED
    BY <1>1, <1>2, <1>4, <2>1, <2>2, <2>3 DEF AttachInv
<1> QED
  BY <1>17, <1>18, <1>19, <1>20, <1>21, <1>22, <1>24, <1>25, <1>26, <1>27

-----------------------------------------------------------------------------
(* The invariant holds.                                                    *)

LEMMA InitInv == Init => IInv
<1> SUFFICES ASSUME Init PROVE IInv
  OBVIOUS
<1>1. /\ e.queued = <<>> /\ e.started = <<>> /\ e.wire = <<>> /\ ~e.connected
      /\ e.state = "NOT_STARTED" /\ ~e.attached /\ e.menus = {}
      /\ gdb = "none" /\ inferior = "none" /\ out = <<>>
  BY DEF Init
<1>2. /\ \A x : ~In(x, <<>>)
      /\ <<>> \in Seq(Printed) /\ Len(<<>>) = 0
      /\ \A x : <<>> # <<x>>
  BY InKnown
<1>3. TypeOK
  BY InitType
<1>4. LineInv /\ OutInv /\ AnswerInv /\ LoadInv
  BY <1>1, <1>2 DEF LineInv, OutInv, AnswerInv, LoadInv
<1>5. StateInv /\ TurnInv
  BY <1>1, <1>2 DEF StateInv, TurnInv
<1>6. WaitInv /\ MenuInv /\ AttachInv
  BY <1>1, <1>2 DEF WaitInv, HasMain, MenuInv, AttachInv
<1> QED
  BY <1>3, <1>4, <1>5, <1>6 DEF IInv

LEMMA StepInv == IInv /\ [Next]_vars => IInv'
<1> SUFFICES ASSUME IInv, [Next]_vars PROVE IInv'
  OBVIOUS
<1>1. TypeOK /\ LineInv /\ OutInv
  BY DEF IInv
<1>2. CASE Query \/ Step \/ Continue \/ Detach \/ Rerun \/ (Attach /\ e.connected)
  <2>1. PICK c \in Kinds, cs \in {<<>>, <<"query">>} : Adds(c, cs)
    BY <1>1, <1>2, UserAdds
  <2> QED
    BY <2>1, AddsKeeps
<1>3. CASE Execute \/ Restart
  <2>1. PICK cs \in {<<>>, <<"main">>, <<"query", "run">>} : LoadAnd(cs)
    BY <1>3 DEF Execute, Restart
  <2>2. Launches("load", cs, "loaded") /\ e'.attached
    BY <1>1, <2>1, LoadLaunches
  <2> QED
    BY <2>2, LaunchKeeps
<1>4. CASE Attach /\ ~e.connected
  <2>1. Launches("query", <<"attach", "query">>, "none") /\ Idle(e)
    BY <1>1, <1>4, AttachLaunches DEF Attach
  <2> QED
    BY <2>1, LaunchKeeps
<1>5. CASE OnOutputRecord
  <2>1. /\ e.connected /\ out # <<>> /\ out' = Tail(out)
        /\ UNCHANGED <<gdb, inferior, sigint, may>>
    BY <1>5 DEF OnOutputRecord
  <2>2. CASE \E views \in Views : HandlesHit(views)
    BY <2>1, <2>2, HitKeeps
  <2>3. CASE HandlesExit
    BY <2>1, <2>3, ExitKeeps
  <2>4. CASE \E r \in Results, c \in Kinds, slot \in {<<>>, <<"run">>} : HandlesResult(r, c, slot)
    BY <2>1, <2>4, ResultKeeps
  <2> QED
    BY <1>1, <1>5, <2>2, <2>3, <2>4, RecordCases
<1>6. CASE OnHup
  BY <1>6, HupKeeps
<1>7. CASE GdbAnswers
  BY <1>7, AnswersKeep
<1>8. CASE InferiorStops \/ Interrupted
  BY <1>8, StopsKeep
<1>9. CASE InferiorExits
  BY <1>9, ExitsKeep
<1>10. CASE GdbDies \/ Stop \/ UNCHANGED vars
  BY <1>10, OthersKeep
<1> QED
  BY <1>2, <1>3, <1>4, <1>5, <1>6, <1>7, <1>8, <1>9, <1>10 DEF Next, User

LEMMA Invariance == Spec => []IInv
<1>1. Init => IInv
  BY InitInv
<1>2. IInv /\ [Next]_vars => IInv'
  BY StepInv
<1> QED
  BY <1>1, <1>2, PTL DEF Spec

-----------------------------------------------------------------------------
(* The results.                                                            *)

(* Nothing is on its way: what the invariant says then.                    *)
LEMMA SettledFacts ==
    ASSUME IInv, Settled
    PROVE  /\ gdb = "up" /\ e.connected /\ e.started = <<>> /\ out = <<>> /\ ~Attaching
           /\ Tame /\ inferior = "running" => e.state = "RUNNING"
           /\ e.state = "RUNNING" => inferior = "running" /\ {"busy", "detach"} \subseteq e.menus
           /\ inferior = "stopped" => e.state = "READY" /\ e.menus = Ready
<1>1. gdb = "up" /\ e.connected /\ Idle(e) /\ e.started = <<>> /\ out = <<>>
  BY DEF Settled, Idle
<1>2. ~Attaching
  BY <1>1, InKnown DEF Attaching
<1>3. Tame /\ inferior = "running" => e.state = "RUNNING"
  BY <1>1 DEF IInv, StateInv
<1>4. inferior = "stopped" => e.state = "READY" /\ e.menus = Ready
  BY <1>1 DEF IInv, StateInv, MenuInv
<1>5. e.state = "RUNNING" => inferior = "running"
  BY <1>1 DEF IInv, StateInv
<1>6. e.state = "RUNNING" => "detach" \in e.menus /\ e.menus \subseteq Busy /\ "busy" \in e.menus
  BY <1>1 DEF IInv, MenuInv
<1> QED
  BY <1>1, <1>2, <1>3, <1>4, <1>5, <1>6 DEF Busy, Ready

(* The engine, the menus, the records of GDB and the state of the inferior *)
(* keep their types through every interleaving of the user, the main loop, *)
(* GDB and the inferior, its deaths included.                              *)
THEOREM TypesOfSession == Spec => []TypeOK
<1>1. IInv => TypeOK
  BY DEF IInv
<1> QED
  BY <1>1, Invariance, PTL

(* Once everything is handled the state of GDBEngine is RUNNING exactly    *)
(* when the inferior runs, whatever the number of commands queued by the   *)
(* user and the views, unless one behaviour has both a user who acts       *)
(* before he is answered and an inferior that exits before a command is    *)
(* answered: then the exit is announced after the state of a command that  *)
(* was issued behind it.                                                   *)
THEOREM StateIsInferiors ==
    ASSUME \A sc \in Scenarios : ~({"haste", "early exit"} \subseteq sc)
    PROVE  Spec => []StateFollowsInferior
<1>1. IInv => StateFollowsInferior
  <2> SUFFICES ASSUME IInv, Settled PROVE e.state = "RUNNING" <=> inferior = "running"
    BY DEF StateFollowsInferior
  <2>1. Tame
    BY DEF Tame, IInv, TypeOK
  <2> QED
    BY <2>1, SettledFacts
<1> QED
  BY <1>1, Invariance, PTL

(* Under the same condition the action groups of DBGPerspective let the    *)
(* user stop and detach from an inferior that runs, step and detach from   *)
(* one that is stopped, run again one that has exited, and never offer to  *)
(* step and to stop at once.                                               *)
THEOREM MenusAreInferiors ==
    ASSUME \A sc \in Scenarios : ~({"haste", "early exit"} \subseteq sc)
    PROVE  Spec => []MenusFollowInferior
<1>1. IInv => MenusFollowInferior
  <2> SUFFICES ASSUME IInv PROVE MenusFollowInferior
    OBVIOUS
  <2>1. Tame
    BY DEF Tame, IInv, TypeOK
  <2>2. Settled /\ inferior = "running" => {"busy", "detach"} \subseteq e.menus
    BY <2>1, SettledFacts
  <2>3. Settled /\ inferior = "stopped" => {"ready", "detach"} \subseteq e.menus
    BY SettledFacts DEF Ready
  <2>4. Settled /\ e.state = "PROGRAM_EXITED" => "loaded" \in e.menus
    BY DEF Settled, IInv, MenuInv
  <2>5. ~({"ready", "busy"} \subseteq e.menus)
    BY DEF IInv, MenuInv
  <2> QED
    BY <2>2, <2>3, <2>4, <2>5 DEF MenusFollowInferior
<1> QED
  BY <1>1, Invariance, PTL

(* When the user waits for his answers, GDBEngine is attached whenever GDB *)
(* has a live process and not after its exit, provided that the user never *)
(* continues a program that has exited: Continue would then run it with    *)
(* is_attached left FALSE by the exit.                                     *)
THEOREM AttachedIsKnown ==
    ASSUME \A sc \in Scenarios : "reuse" \in sc => "haste" \in sc
    PROVE  Spec => []AttachedToProcess
<1>1. IInv => AttachedToProcess
  <2> SUFFICES ASSUME IInv, Waits, Settled
               PROVE  /\ inferior \in {"stopped", "running"} => IsAttached
                      /\ e.state = "PROGRAM_EXITED" => ~IsAttached
    BY DEF AttachedToProcess
  <2>1. "reuse" \notin may
    BY DEF Waits, IInv, TypeOK
  <2>2. gdb = "up" /\ e.connected /\ e.started = <<>> /\ ~Attaching
    BY SettledFacts
  <2> QED
    BY <2>1, <2>2 DEF IInv, AttachInv, IsAttached
<1> QED
  BY <1>1, Invariance, PTL

(* A detach that waits behind an inferior that runs always has a SIGINT on *)
(* its way, when the user waits for his answers.                           *)
THEOREM DetachIsInterrupted == Spec => []DetachInterrupts
<1>1. IInv => DetachInterrupts
  BY DEF IInv, WaitInv, DetachInterrupts
<1> QED
  BY <1>1, Invariance, PTL
=============================================================================
