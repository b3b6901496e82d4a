---------------------------- MODULE SourceViews ----------------------------
(***************************************************************************)
(* The tabs in which the perspective shows files and assembly              *)
(* (nmv-dbg-perspective.cc), with the marks of breakpoints and the arrow   *)
(* that each of them draws (nmv-source-editor.cc).                         *)
(*                                                                         *)
(* Commands are answered one at a time and in order (GdbCommandQueue), and *)
(* the user waits for the answers.  Of a file only its version counts; of  *)
(* assembly, the addresses of its lines.  A file is not reloaded while its *)
(* tab shows assembly, and the user does not help to find a lost file.     *)
(***************************************************************************)
EXTENDS Integers, Sequences, FiniteSets, FiniteSetsExt, SequencesExt, Functions

CONSTANTS
    MaxGoes,        \* bound: how often the program is run, continued, stepped
    MaxClicks,      \* bound: what the user does in a behaviour
    MaxIds,         \* bound: breakpoints set in a behaviour
    Window,         \* num_instr_to_disassemble, in instructions
    Scenarios       \* sets of Features, of which a behaviour has one

(* What there is beside the file a.c: another file, a file of the same     *)
(* name, a file that is not on disk, code without debug information.  What *)
(* may happen: the program ends, is detached from, goes on to higher       *)
(* addresses only; the user selects frames, sets breakpoints, disables     *)
(* them, goes to them, handles tabs, closes them, edits files, looks at    *)
(* assembly.                                                               *)
Features == {"two", "namesakes", "lost", "bare", "exits", "detach", "onward", "frames",
             "breaks", "toggle", "goto", "tabs", "close", "edit", "asm"}

SourceViewsAssumption ==
    /\ {MaxGoes, MaxClicks, MaxIds, Window} \subseteq Nat \ {0}
    /\ Scenarios \subseteq SUBSET Features

VARIABLES
    may,    \* the features of this behaviour, chosen once
    gdb,    \* inferior, its address, breakpoints
    n,      \* Nemiver: queue, notebook, maps of it, breakpoints, current frame
    clicks  \* of the user

vars == <<may, gdb, n, clicks>>

-----------------------------------------------------------------------------
(* The program: for an address, its file and line.                         *)

None == 0
Asm == "<Disassembly>"
Places == <<<<"a.c", 1>>, <<"a.c", 2>>, <<"b.c", 1>>, <<"lib/a.c", 1>>, <<"gone.c", 1>>,
            <<"", 0>>, <<"", 0>>, <<"", 0>>>>
File(addr) == IF addr = None THEN "" ELSE Places[addr][1]
Line(addr) == IF addr = None THEN 0 ELSE Places[addr][2]
Feature(addr) == CASE File(addr) = "b.c" -> "two" [] File(addr) = "lib/a.c" -> "namesakes"
                   [] File(addr) = "gone.c" -> "lost" [] File(addr) = "" -> "bare" [] OTHER -> ""
Code == {addr \in 1..Len(Places) : Feature(addr) \in may \union {""}}
OnDisk == {"a.c", "b.c", "lib/a.c"}
Files == {File(addr) : addr \in Code} \intersect OnDisk
Basename(file) == IF file = "lib/a.c" THEN "a.c" ELSE file

Disassembled(lo, hi) == SetToSortSeq(Code \intersect lo..hi, <)

Go(g) == [g EXCEPT !.inferior = "running", !.goes = @ + 1]
MayGo(g) == g.goes < MaxGoes

-----------------------------------------------------------------------------
(* The editor: a buffer of source, a buffer of assembly, one of them shown *)
(* (mode).  marks: for the line of a breakpoint, where its mark is and     *)
(* whether it looks enabled.                                               *)

Buffer(text) == [text |-> text, where |-> 0, marks |-> <<>>]
Editor(s, path) == [path |-> path, mode |-> IF path = Asm THEN "asm" ELSE "src",
                    src |-> Buffer(IF path = Asm THEN None ELSE s.disk[path]), asm |-> Buffer(<<>>)]
Shown(e) == e[e.mode]

(* The text is replaced: marks slide to its beginning.                     *)
Collapsed(b) == [b EXCEPT !.where = IF @ = 0 THEN 0 ELSE 1,
                          !.marks = [line \in DOMAIN @ |-> [@[line] EXCEPT !.at = 1]]]

(* address_2_line, which takes the addresses for sorted                    *)
AddressToLine(insns, addr, approximate) ==
    LET i == SelectInSeq(insns, LAMBDA a : a >= addr)
    IN CASE i # 0 /\ insns[i] = addr -> i
         [] i # 0 /\ insns[i] # addr /\ approximate -> IF i = 1 THEN 1 ELSE i - 1
         [] OTHER -> 0

(* The line of a place in what an editor shows.                            *)
LineIn(e, addr) == IF e.mode = "src" THEN Line(addr) ELSE AddressToLine(e.asm.text, addr, FALSE)

(* set_visual_breakpoint_at_line, remove_visual_breakpoint_from_line,      *)
(* clear_decorations, move_where_marker_to_line, unset_where_marker        *)
Mark(s, id, line, on) ==
    IF line = 0 THEN s
    ELSE [s EXCEPT !.ed[id][s.ed[id].mode].marks = (line :> [at |-> line, on |-> on]) @@ @]
Unmark(s, id, line) == [s EXCEPT !.ed[id][s.ed[id].mode].marks = Restrict(@, DOMAIN @ \ {line})]
ClearDecorations(s, id) == [s EXCEPT !.ed[id][s.ed[id].mode] = Buffer(@.text)]
MoveWhere(s, id, line) == IF line = 0 THEN s ELSE [s EXCEPT !.ed[id][s.ed[id].mode].where = line]

-----------------------------------------------------------------------------
(* The notebook and what is known of it: pages (path_2_pagenum_map), bases *)
(* (basename_2_pagenum_map), editors (pagenum_2_source_editor_map), cur    *)
(* (current_page_num).                                                     *)

Fresh(s) == Min(1..(Len(s.tabs) + 1) \ ToSet(s.tabs))

AppendEditor(s, path) ==
    LET page == Len(s.tabs) + 1
        id   == Fresh(s)
    IN [s EXCEPT !.ed = (id :> Editor(s, path)) @@ @, !.tabs = Append(@, id),
                 !.cur = IF @ = None THEN page ELSE @,
                 !.pages = (path :> page) @@ @, !.bases = (Basename(path) :> page) @@ @,
                 !.editors = (page :> id) @@ @,
                 !.monitored = IF path = Asm THEN @ ELSE @ \union {path}]

(* update_file_maps.  Wrong variant: numbers of pages are kept.            *)
UpdatePathsOnly(s) ==
    [s EXCEPT !.pages = [x \in DOMAIN @ \intersect {s.ed[id].path : id \in DOMAIN s.ed} |-> @[x]]]
UpdateFileMaps(s) ==
    LET path == [page \in DOMAIN s.tabs |-> s.ed[s.tabs[page]].path]
        LastPage(map, x) == Max({page \in DOMAIN map : map[page] = x})
        base == [page \in DOMAIN path |-> Basename(path[page])]
    IN [s EXCEPT !.pages = [x \in Range(path) |-> LastPage(path, x)],
                 !.bases = [x \in Range(base) |-> LastPage(base, x)], !.editors = s.tabs]

HasEditor(s, path) == path \in DOMAIN s.pages
EditorOf(s, path) == s.editors[s.pages[path]]
Current(s) == IF s.cur \in DOMAIN s.editors THEN s.editors[s.cur] ELSE None

OpenFile(s, path) == IF HasEditor(s, path) THEN s ELSE AppendEditor(s, path)
BringAsCurrent(s, id) == [s EXCEPT !.cur = s.pages[s.ed[id].path]]

(* close_file                                                              *)
CloseFile(s, path) ==
    IF ~HasEditor(s, path) THEN s
    ELSE LET page == s.pages[path]
             left == RemoveAt(s.tabs, page)
             cur  == IF s.cur > page \/ s.cur = Len(s.tabs) THEN s.cur - 1 ELSE s.cur
         IN UpdateFileMaps([s EXCEPT !.tabs = left, !.cur = cur, !.ed = Restrict(@, ToSet(left)),
                                     !.monitored = @ \ {path}])
CloseOpenedFiles(s) == FoldSet(LAMBDA path, t : CloseFile(t, path), s, DOMAIN s.pages)

Queue(s, c) == [s EXCEPT !.queue = Append(@, c)]

(* disassemble_around_address_and_do                                       *)
DisassembleAround(s, addr, slot) ==
    IF s.attached THEN Queue(s, [op |-> "disassemble", lo |-> addr, hi |-> addr + Window - 1, slot |-> slot])
    ELSE s

(* set_where, in an editor of source and in one of assembly.  The second   *)
(* has more disassembled if the address is not there.                      *)
WhereInSource(s, id, line) == MoveWhere(BringAsCurrent(s, id), id, line)
WhereInAsm(s, id, addr, approximate) ==
    LET t    == BringAsCurrent(s, id)
        line == AddressToLine(t.ed[id].asm.text, addr, approximate)
    IN IF line # 0 THEN MoveWhere(t, id, line) ELSE DisassembleAround(t, addr, <<"pump", id>>)

WhereIn(s, id, addr, approximate) ==
    IF s.ed[id].mode = "src" THEN WhereInSource(s, id, Line(addr)) ELSE WhereInAsm(s, id, addr, approximate)

(* set_where of a frame.                                                   *)
PathFor(addr) == IF File(addr) \in OnDisk THEN File(addr) ELSE Asm
SetWhere(s, addr) ==
    LET t  == OpenFile(s, PathFor(addr))
        id == EditorOf(t, PathFor(addr))
    IN [WhereIn(t, id, addr, FALSE) EXCEPT !.there = id, !.calm = TRUE]

UnsetWhere(s) == [s EXCEPT !.ed = [id \in DOMAIN @ |-> [@[id] EXCEPT ![@[id].mode].where = 0]]]

(* apply_decorations: of the breakpoints of the file, and of the current   *)
(* frame, whatever its file, if the tab is in front.                       *)
ApplyMarks(s, id) ==
    LET Draw(t, i) == IF t.bps[i].path = t.ed[id].path THEN Mark(t, id, LineIn(t.ed[id], t.bps[i].addr), t.bps[i].on)
                      ELSE t
    IN FoldLeft(Draw, s, SetToSortSeq(DOMAIN s.bps, <))
ApplyDecorations(s, id, approximate) ==
    LET t == ApplyMarks(s, id)
    IN IF Current(t) = id /\ (t.frame # None \/ t.ed[id].mode = "asm") THEN WhereIn(t, id, t.frame, approximate) ELSE t

(* get_source_editor_of_current_frame; get_current_source_editor (true)    *)
HasFrameEditor(s) == File(s.frame) \in OnDisk
FrameEditor(s) ==
    IF ~HasFrameEditor(s) THEN s
    ELSE LET t  == OpenFile(s, File(s.frame))
             id == EditorOf(t, File(s.frame))
         IN BringAsCurrent(ApplyDecorations(t, id, FALSE), id)
CurrentEditor(s) == IF s.tabs = <<>> THEN FrameEditor(s) ELSE s

-----------------------------------------------------------------------------
(* Assembly.                                                               *)

SwitchToAsm(s, id, insns, approximate) ==
    LET t == [ClearDecorations(s, id) EXCEPT !.ed[id].asm.text = @ \o insns, !.ed[id].mode = "asm"]
    IN ApplyDecorations(t, id, approximate)

SwitchToSourceCode(s) ==
    IF ~HasFrameEditor(s) THEN s
    ELSE LET t  == FrameEditor(s)
             id == EditorOf(t, File(s.frame))
         IN ApplyDecorations([ClearDecorations(t, id) EXCEPT !.ed[id].mode = "src"], id, FALSE)

(* open_asm: what is loaded for a tab that is yet to be made is lost.      *)
OpenAsm(s, insns) ==
    IF HasEditor(s, Asm)
    THEN [s EXCEPT !.ed[EditorOf(s, Asm)].asm = [Collapsed(@) EXCEPT !.text = insns]]
    ELSE AppendEditor(s, Asm)

(* on_debugger_asm_signal1 to 4.  The third takes the line for what says   *)
(* whether the breakpoint is enabled.                                      *)
OnDisassembled(s, insns, slot) ==
    CASE slot[1] = "tab" ->
            LET t == OpenAsm(s, insns) IN WhereInAsm(t, EditorOf(t, Asm), t.frame, FALSE)
      [] slot[1] = "switch" ->
            IF HasFrameEditor(s)
            THEN LET t == FrameEditor(s) IN SwitchToAsm(t, EditorOf(t, File(s.frame)), insns, FALSE)
            ELSE s
      [] slot[1] = "pump" -> SwitchToAsm(s, slot[2], insns, TRUE)
      [] slot[1] = "mark" ->
            LET t == SwitchToAsm(s, slot[2], insns, TRUE)
            IN Mark(t, slot[2], LineIn(t.ed[slot[2]], slot[3].addr), Line(slot[3].addr) # 0)
      [] slot[1] = "show" ->
            LET t == OpenAsm(s, insns) IN BringAsCurrent(t, EditorOf(t, Asm))

-----------------------------------------------------------------------------
(* Breakpoints.                                                            *)

(* append_breakpoint                                                       *)
AppendBreakpoint(s, i, bp) ==
    LET t == [s EXCEPT !.bps = (i :> bp) @@ @]
        u == OpenFile(t, PathFor(bp.addr))
        id == EditorOf(u, PathFor(bp.addr))
    IN IF bp.path \in OnDisk THEN Mark(u, id, LineIn(u.ed[id], bp.addr), bp.on)
       ELSE DisassembleAround(u, bp.addr, <<"mark", id, bp>>)
AppendBreakpoints(s, bps) ==
    CurrentEditor(FoldLeft(LAMBDA t, i : AppendBreakpoint(t, i, bps[i]), s, SetToSortSeq(DOMAIN bps, <)))

(* delete_visual_breakpoint.  The editor found for the path is not kept:   *)
(* that of the last tab with the same basename is.  Wrong variant: the     *)
(* mark stays.                                                             *)
DeleteFromMap(s, i) == [s EXCEPT !.bps = Restrict(@, DOMAIN @ \ {i})]
DeleteVisualBreakpoint(s, i) ==
    IF i \notin DOMAIN s.bps THEN s
    ELSE LET bp   == s.bps[i]
             page == IF bp.path = "" THEN IF HasEditor(s, Asm) THEN s.pages[Asm] ELSE None
                     ELSE IF Basename(bp.path) \in DOMAIN s.bases THEN s.bases[Basename(bp.path)] ELSE None
         IN IF page = None THEN s
            ELSE [Unmark(s, s.editors[page], LineIn(s.ed[s.editors[page]], bp.addr))
                    EXCEPT !.bps = Restrict(@, DOMAIN @ \ {i})]

(* on_debugger_breakpoint_deleted_signal, which throws without an editor.  *)
(* Wrong variant: nothing is deleted without a tab of the file.            *)
OnMarkDeleted(s, i) == CurrentEditor(DeleteVisualBreakpoint(s, i))
OnBreakpointDeleted(s, i) ==
    LET t == CurrentEditor(DeleteVisualBreakpoint(s, i))
    IN IF t.tabs = <<>> THEN t ELSE [t EXCEPT !.bps = Restrict(@, DOMAIN @ \ {i})]

(* toggle_breakpoint, at a line of a file and at an address.               *)
At(s, path, line) ==
    {i \in DOMAIN s.bps : Basename(s.bps[i].path) = Basename(path) /\ Line(s.bps[i].addr) = line}
AtAddress(s, addr) == {i \in DOMAIN s.bps : s.bps[i].addr = addr}
DeleteThem(s, there) ==
    FoldLeft(LAMBDA t, i : Queue(t, [op |-> "delete", id |-> i]), s, SetToSortSeq(there, <))
Toggle(s, there, addr) ==
    IF there = {} THEN Queue(s, [op |-> "break", addr |-> addr]) ELSE DeleteThem(s, there)

(* clear_session_data                                                      *)
DeleteVisualBreakpoints(s) == FoldLeft(DeleteVisualBreakpoint, s, SetToSortSeq(DOMAIN s.bps, <))

-----------------------------------------------------------------------------
Init ==
    /\ may \in Scenarios
    /\ gdb = [inferior |-> "none", addr |-> None, bps |-> <<>>, next |-> 1, goes |-> 0]
    /\ n = [queue |-> <<>>, tabs |-> <<>>, ed |-> <<>>, pages |-> <<>>, bases |-> <<>>, editors |-> <<>>,
            cur |-> None, monitored |-> {}, bps |-> <<>>, frame |-> None, attached |-> FALSE,
            there |-> None, calm |-> FALSE, disk |-> [file \in OnDisk |-> 0], changed |-> <<>>]
    /\ clicks = 0

Quiet == n.queue = <<>>

(* on_going_to_run_target_signal: re_initialize_set_breakpoints has them   *)
(* listed again, then their marks are deleted.                             *)
Run ==
    /\ Quiet /\ gdb.inferior = "none" /\ MayGo(gdb)
    /\ gdb' = [Go(gdb) EXCEPT !.addr = None]
    /\ LET listed == IF n.bps = <<>> THEN n ELSE Queue(n, [op |-> "list"])
       IN n' = [DeleteVisualBreakpoints(listed) EXCEPT !.attached = TRUE]
    /\ UNCHANGED <<may, clicks>>

Step ==
    /\ Quiet /\ gdb.inferior = "stopped" /\ MayGo(gdb)
    /\ gdb' = Go(gdb)
    /\ UNCHANGED <<may, n, clicks>>

InferiorStops ==
    /\ gdb.inferior = "running" /\ Quiet
    /\ \E addr \in Code :
        /\ "onward" \in may => addr >= gdb.addr
        /\ gdb' = [gdb EXCEPT !.inferior = "stopped", !.addr = addr]
        /\ n' = SetWhere([n EXCEPT !.frame = addr], addr)
    /\ UNCHANGED <<may, clicks>>

(* on_program_finished_signal, on_debugger_detached_from_target_signal     *)
InferiorExits ==
    /\ "exits" \in may /\ gdb.inferior = "running" /\ Quiet
    /\ gdb' = [gdb EXCEPT !.inferior = "none"]
    /\ n' = [UnsetWhere(n) EXCEPT !.attached = FALSE, !.calm = TRUE]
    /\ UNCHANGED <<may, clicks>>
Detached ==
    /\ "detach" \in may /\ gdb.inferior = "stopped" /\ Quiet
    /\ gdb' = [gdb EXCEPT !.inferior = "none"]
    /\ n' = [CloseOpenedFiles(n) EXCEPT !.attached = FALSE]
    /\ UNCHANGED <<may, clicks>>

Told(bps) == [i \in DOMAIN bps |-> [path |-> File(bps[i].addr), addr |-> bps[i].addr, on |-> bps[i].on]]

Reply ==
    /\ n.queue # <<>>
    /\ LET c == Head(n.queue)
           s == [n EXCEPT !.queue = Tail(@)]
       IN \/ /\ c.op = "break"
             /\ LET new == gdb.next :> [addr |-> c.addr, on |-> TRUE]
                IN /\ gdb' = [gdb EXCEPT !.bps = new @@ @, !.next = @ + 1]
                   /\ n' = AppendBreakpoints(s, Told(new))
          \/ /\ c.op = "delete"
             /\ gdb' = [gdb EXCEPT !.bps = Restrict(@, DOMAIN @ \ {c.id})]
             /\ n' = OnBreakpointDeleted(s, c.id)
          \/ /\ c.op = "enable"
             /\ gdb' = [gdb EXCEPT !.bps[c.id].on = c.on]
             /\ n' = AppendBreakpoints(s, Told(gdb'.bps))
          \/ /\ c.op = "list"
             /\ n' = AppendBreakpoints(s, Told(gdb.bps))
             /\ UNCHANGED gdb
          \/ /\ c.op = "disassemble"
             /\ n' = OnDisassembled(s, Disassembled(c.lo, c.hi), c.slot)
             /\ UNCHANGED gdb
    /\ UNCHANGED <<may, clicks>>

-----------------------------------------------------------------------------
(* The user.                                                               *)

Clicks ==
    /\ Quiet /\ gdb.inferior # "running" /\ clicks < MaxClicks /\ clicks' = clicks + 1
    /\ UNCHANGED <<may, gdb>>
Touched(s) == [s EXCEPT !.calm = FALSE]

(* on_frame_selected_signal                                                *)
SelectFrame ==
    /\ "frames" \in may /\ gdb.inferior = "stopped" /\ Clicks
    /\ \E addr \in Code \ {n.frame} : n' = SetWhere([n EXCEPT !.frame = addr], addr)

(* on_sv_markers_region_clicked_signal                                     *)
ClickMargin ==
    /\ "breaks" \in may /\ gdb.next <= MaxIds /\ Current(n) # None /\ Clicks
    /\ LET e == n.ed[Current(n)]
       IN \/ /\ e.mode = "src"
             /\ \E addr \in Code : File(addr) = e.path /\ n' = Toggle(n, At(n, e.path, Line(addr)), addr)
          \/ /\ e.mode = "asm"
             /\ \E addr \in Range(e.asm.text) : n' = Toggle(n, AtAddress(n, addr), addr)

(* toggle_breakpoint_enabled; a deletion in the view of breakpoints        *)
ToggleEnabled ==
    /\ "toggle" \in may /\ Clicks
    /\ \E i \in DOMAIN n.bps : n' = Queue(n, [op |-> "enable", id |-> i, on |-> ~n.bps[i].on])
DeleteInView ==
    /\ "toggle" \in may /\ Clicks
    /\ \E i \in DOMAIN n.bps : n' = Queue(n, [op |-> "delete", id |-> i])

(* on_breakpoint_go_to_source_action                                       *)
GoToSource ==
    /\ "goto" \in may /\ Clicks
    /\ \E i \in DOMAIN n.bps :
        LET bp   == n.bps[i]
            open == OpenFile(n, bp.path)
            t    == BringAsCurrent(open, EditorOf(open, bp.path))
        IN n' = Touched(IF bp.path \in OnDisk /\ LineIn(t.ed[EditorOf(open, bp.path)], bp.addr) # 0 THEN t
                        ELSE DisassembleAround(IF bp.path \in OnDisk THEN t ELSE n, bp.addr, <<"show">>))

(* open_file, of a dialog                                                  *)
Open ==
    /\ "tabs" \in may /\ Clicks
    /\ \E path \in Files :
        LET t == OpenFile(n, path)
        IN n' = Touched(BringAsCurrent(ApplyDecorations(t, EditorOf(t, path), FALSE), EditorOf(t, path)))
Close ==
    /\ "close" \in may /\ Clicks
    /\ \E path \in DOMAIN n.pages :
        LET t == CloseFile(n, path)
        IN n' = [Touched(t) EXCEPT !.there = IF @ \in DOMAIN t.ed /\ t.ed[@].path = n.ed[@].path THEN @ ELSE None]
(* on_switch_page_signal, on_notebook_tabs_reordered                       *)
SwitchPage ==
    /\ "tabs" \in may /\ Clicks
    /\ \E page \in DOMAIN n.tabs \ {n.cur} : n' = Touched([n EXCEPT !.cur = page])
ReorderTabs ==
    /\ "tabs" \in may /\ n.tabs # <<>> /\ Clicks
    /\ \E page \in DOMAIN n.tabs \ {n.cur} :
        LET moved == InsertAt(RemoveAt(n.tabs, n.cur), page, n.tabs[n.cur])
        IN n' = Touched([UpdateFileMaps([n EXCEPT !.tabs = moved]) EXCEPT !.cur = page])

(* reload_file, of the current file                                        *)
ReloadFile(s) ==
    LET id == Current(s)
    IN IF id = None \/ s.ed[id].path = Asm THEN s
       ELSE ApplyDecorations([s EXCEPT !.ed[id].src = [Collapsed(@) EXCEPT !.text = s.disk[s.ed[id].path]]],
                             id, FALSE)
ShowsSource(s) == Current(s) # None /\ s.ed[Current(s)].mode = "src"
Reload ==
    /\ "edit" \in may /\ ShowsSource(n) /\ Clicks
    /\ n' = Touched(ReloadFile(n))

(* A file that is watched changes.  on_file_content_changed asks whether   *)
(* to reload it.                                                           *)
FileChanges ==
    /\ "edit" \in may /\ n.changed = <<>> /\ Clicks
    /\ \E path \in n.monitored :
            n' = [n EXCEPT !.disk[path] = (@ + 1) % 2, !.changed = <<path>>]
OnFileChanged ==
    /\ n.changed # <<>>
    /\ \/ n' = [n EXCEPT !.changed = <<>>]
       \/ ShowsSource(n) /\ n' = Touched(ReloadFile([n EXCEPT !.changed = <<>>]))
    /\ UNCHANGED <<may, gdb, clicks>>

(* disassemble: from the current address and the breakpoints of the same   *)
(* file on.                                                                *)
Disassemble ==
    /\ "asm" \in may /\ n.attached /\ n.frame # None /\ Clicks
    /\ LET same  == {n.bps[i].addr : i \in {i \in DOMAIN n.bps : n.bps[i].path = File(n.frame) /\ File(n.frame) # ""}}
           range == same \union {n.frame}
       IN \E slot \in {<<"tab">>, <<"switch">>} :
            n' = Touched(Queue(n, [op |-> "disassemble", lo |-> Min(range), hi |-> Max(range) + Window - 1,
                                   slot |-> slot]))
SwitchToSource ==
    /\ "asm" \in may /\ gdb.inferior = "stopped" /\ Clicks
    /\ n' = Touched(SwitchToSourceCode(n))

Next == Run \/ Step \/ InferiorStops \/ InferiorExits \/ Detached \/ Reply
        \/ SelectFrame \/ ClickMargin \/ ToggleEnabled \/ DeleteInView \/ GoToSource
        \/ Open \/ Close \/ SwitchPage \/ ReorderTabs \/ Reload \/ FileChanges \/ OnFileChanged
        \/ Disassemble \/ SwitchToSource

Spec == Init /\ [][Next]_vars

-----------------------------------------------------------------------------
Settled == Quiet /\ gdb.inferior # "running"

(* When all is answered, the perspective knows the breakpoints GDB has,    *)
(* after runs, deletions from the view, tabs closed and reopened.          *)
BreakpointsKnown == Settled => n.bps = Told(gdb.bps)

(* ... and each tab of a file shows a mark at the line, or at the address, *)
(* of each breakpoint of that file, and no other (append_breakpoint,       *)
(* delete_visual_breakpoint, apply_decorations), wherever tabs were moved, *)
(* through reloads and changes to assembly and back.  A tab that was closed*)
(* may lack marks when a stop opens it again, and have that of the         *)
(* breakpoint whose deletion opens it again; of files of the same name,    *)
(* one may have lost or kept the marks of the other.                       *)
Expected(e) == {<<LineIn(e, n.bps[i].addr), n.bps[i].on>> :
                    i \in {i \in DOMAIN n.bps : n.bps[i].path = e.path /\ LineIn(e, n.bps[i].addr) # 0}}
Marks(e) == {<<Shown(e).marks[line].at, Shown(e).marks[line].on>> : line \in DOMAIN Shown(e).marks}
MarksShown ==
    Settled /\ "namesakes" \notin may => \A id \in DOMAIN n.ed : n.ed[id].path # Asm =>
        /\ ~({"close", "toggle"} \subseteq may) => Marks(n.ed[id]) \subseteq Expected(n.ed[id])
        /\ "close" \notin may => Expected(n.ed[id]) \subseteq Marks(n.ed[id])

(* The tab where the program was last seen to be has the arrow there, and  *)
(* is in front until the user takes another; a program that has ended      *)
(* leaves no arrow (set_where, unset_where).                               *)
ArrowShown ==
    Settled =>
        /\ gdb.inferior = "stopped" /\ n.there \in DOMAIN n.ed =>
            LET e == n.ed[n.there]
            IN /\ e.path = PathFor(n.frame)
               /\ IF e.mode = "src" THEN e.src.where = Line(n.frame)
                  ELSE e.asm.where # 0 /\ e.asm.text[e.asm.where] = n.frame
        /\ gdb.inferior = "stopped" /\ n.calm => n.tabs[n.cur] = n.there
        /\ gdb.inferior = "none" /\ n.calm => \A id \in DOMAIN n.ed : Shown(n.ed[id]).where = 0

(* The files of the tabs, and no others, are watched for changes.          *)
TabsWatched == n.monitored = {n.ed[id].path : id \in DOMAIN n.ed} \ {Asm}

(* Each file shown is the one on disk unless the user refused.  Refuted:   *)
(* on_file_content_changed reloads the file in front, not that which has   *)
(* changed.                                                                *)
ReloadsChanged == [][OnFileChanged => n' = [n EXCEPT !.changed = <<>>] \/
                        \A id \in DOMAIN n'.ed : n'.ed[id].path = n.changed[1] =>
                            n'.ed[id].src.text = n.disk[n.changed[1]]]_vars
=============================================================================
