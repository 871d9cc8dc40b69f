------------------------------ MODULE CellEdit ------------------------------
(***************************************************************************)
(* Editing the cells of a query's result in place: the widget of a cell    *)
(* (gridedit/typedEditor.js), the edit it belongs to and its question and  *)
(* update (gridedit/cellEdit.js, dialogs.js), and the grid that is drawn   *)
(* again under them (grid/resultGrid.js).  A commit, once it asks, goes on *)
(* by itself: its answers are handled in any order.                        *)
(***************************************************************************)
EXTENDS Naturals, Sequences, FiniteSets

CONSTANTS
  Row,      \* the rows of the result (their arrays)
  Key, Val, \* values of the key column and of the other one
  Start,    \* the row's key and value when the result arrived
  Kinds,    \* widgets the value's column may have
  Pages,    \* the rows a sort, a filter or a page may leave in the grid
  MaxEdits, \* bound: edits begun
  MaxJobs,  \* bound: commits under way at once
  MaxFaults \* bound: kinds of faults that happen

CellEditAssumption ==
  /\ Start \in [Row -> [key : Key, val : Val]]
  /\ \A r, q \in Row : r # q => Start[r].key # Start[q].key
  /\ Kinds \subseteq {"text", "menu", "date"} /\ Pages \subseteq SUBSET Row
  /\ Val # {} /\ MaxEdits \in Nat /\ MaxJobs \in Nat /\ MaxFaults \in Nat
ASSUME CellEditAssumption

VARIABLES
  kind,   \* the widget of each column
  rows,   \* the backing arrays
  drawn,  \* the rows on the page, after sort, filter and paging
  shown,  \* the cells: the edit mounted there, or 0, and the value
  edits,  \* calls of editCell, in the order they began
  jobs,   \* commits that asked, in order; one that is finished is done
  focus,  \* the edit whose widget has the keyboard, or 0
  search, \* searchTimer is running
  table,  \* the server's table, by key; a row that is gone keeps its value
  faults, \* faults that happened: an answer lost, a row deleted by others
  stale,  \* history: cells written while their td was no longer in the grid
  tangled \* history: two edits of a cell, or of a row and its key, overlapped,
          \* one edit committed twice, or an update hit what is another row's

vars == <<kind, rows, drawn, shown, edits, jobs, focus, search, table, faults,
          stale, tangled>>
Ids == 1..MaxEdits
Col == {"key", "val"}
Values(c) == IF c = "key" THEN Key ELSE Val

(* An edit is open until it commits or is over.  A text widget that loses  *)
(* its place is removed: the browser may or may not still send its blur.   *)
(* armed: the click-away listener of a date; frame: its first animation    *)
(* frame is to come; cancelled: when it was (history).                     *)
Edit == [row : Row, col : Col, kind : {"text", "menu", "date"},
         original : Key \cup Val, attached : BOOLEAN,
         pc : {"open", "committed", "over", "removed"},
         frame : BOOLEAN, armed : BOOLEAN,
         cancelled : {"no", "early", "yes"}]
Job == [edit : Ids, next : Key \cup Val, pk : Key, late : BOOLEAN,
        pc : {"ask", "post", "ok", "none", "error", "done"}]

Under(js) == {j \in DOMAIN js : js[j].pc # "done"}
Cell(e) == <<edits[e].row, edits[e].col>>
In(e) == edits[e].attached /\ shown[edits[e].row][edits[e].col].edit = e

(* Types; and the keyboard is with a widget that is in the page.           *)
TypeOK ==
  /\ kind \in [Col -> {"text", "menu", "date"}]
  /\ rows \in [Row -> [key : Key, val : Val]] /\ drawn \subseteq Row
  /\ shown \in [Row -> [key : [edit : 0..MaxEdits, val : Key],
                        val : [edit : 0..MaxEdits, val : Val]]]
  /\ edits \in Seq(Edit) /\ Len(edits) <= MaxEdits
  /\ jobs \in Seq(Job) /\ Cardinality(Under(jobs)) <= MaxJobs
  /\ focus \in 0..Len(edits) /\ (focus # 0 => In(focus)) /\ search \in BOOLEAN
  /\ table \in [Key -> [live : BOOLEAN, val : Val]]
  /\ faults \subseteq {"lost", "deleted"} /\ Cardinality(faults) <= MaxFaults
  /\ stale \subseteq Row \X Col /\ tangled \in BOOLEAN

Drawn(rs) == [r \in Row |-> [key |-> [edit |-> 0, val |-> rs[r].key],
                             val |-> [edit |-> 0, val |-> rs[r].val]]]

Init ==
  /\ kind \in {[key |-> "text", val |-> k] : k \in Kinds}
  /\ rows = Start /\ drawn = Row /\ shown = Drawn(Start)
  /\ edits = <<>> /\ jobs = <<>> /\ focus = 0 /\ search = FALSE
  /\ table = [k \in Key |->
       IF \E r \in Row : Start[r].key = k
       THEN [live |-> TRUE, val |-> Start[CHOOSE r \in Row : Start[r].key = k].val]
       ELSE [live |-> FALSE, val |-> CHOOSE v \in Val : TRUE]]
  /\ faults = {} /\ stale = {} /\ tangled = FALSE

-----------------------------------------------------------------------------
Dialogs == {j \in DOMAIN jobs : jobs[j].pc = "ask"}
Live(e) == edits[e].pc = "open" \/ edits[e].armed
Calm == \A e \in DOMAIN edits : edits[e].pc # "removed"
Latest(S) == CHOOSE e \in S : \A d \in S : d <= e

(* Widgets taken out of the page.                                          *)
Removed(es, gone) ==
  [e \in DOMAIN es |->
     IF e \in gone /\ e = focus /\ es[e].kind = "text" /\ es[e].pc = "open"
     THEN [es[e] EXCEPT !.pc = "removed"] ELSE es[e]]

(* Variant: a widget that is gone keeps the keyboard.                      *)
ShowsUnder(put, es, f) ==
  LET Of(r, c) == {e \in DOMAIN put : edits[e].attached /\ Cell(e) = <<r, c>>}
  IN /\ shown' = [r \in Row |-> [c \in Col |->
                    IF Of(r, c) = {} THEN shown[r][c]
                    ELSE [edit |-> 0, val |-> put[Latest(Of(r, c))]]]]
     /\ edits' = es /\ focus' = f

(* td.replaceChildren: the cells of these edits show these values.         *)
Shows(put, es, f) ==
  LET Of(r, c) == {e \in DOMAIN put : edits[e].attached /\ Cell(e) = <<r, c>>}
      gone == {shown[Cell(e)[1]][Cell(e)[2]].edit :
                 e \in {d \in DOMAIN put : edits[d].attached}}
  IN /\ shown' = [r \in Row |-> [c \in Col |->
                    IF Of(r, c) = {} THEN shown[r][c]
                    ELSE [edit |-> 0, val |-> put[Latest(Of(r, c))]]]]
     /\ edits' = Removed(es, gone)
     /\ focus' = IF f \in gone THEN 0 ELSE f

(* revert                                                                  *)
Reverts(E, es, f) == Shows([e \in E |-> edits[e].original], es, f)

(* Two commits meet: of one cell, or of a row and its key.                 *)
Meets(r, c) ==
  \E j \in Under(jobs) : LET d == jobs[j].edit IN
    edits[d].row = r /\ (edits[d].col = c \/ "key" \in {c, edits[d].col})

(* commit, up to the question; js are the jobs as the event has already    *)
(* changed them.                                                           *)
Commits(e, next, js, f) ==
  LET r == edits[e].row
      done == [edits EXCEPT ![e].pc = IF @ = "over" THEN @ ELSE "committed",
                            ![e].armed = FALSE]
  IN IF next = edits[e].original
     THEN /\ Reverts({e}, done, f) /\ jobs' = js
          /\ tangled' = (tangled \/ edits[e].pc \in {"committed", "over"})
     ELSE /\ Cardinality(Under(js)) < MaxJobs
          /\ jobs' = Append(js, [edit |-> e, next |-> next, pk |-> rows[r].key,
                                 late |-> edits[e].cancelled # "no", pc |-> "ask"])
          /\ tangled' = (\/ tangled \/ edits[e].pc \in {"committed", "over"}
                         \/ Meets(r, edits[e].col))
          /\ edits' = done /\ focus' = f /\ UNCHANGED shown

(* Every dialog says yes, or no.                                           *)
Answered(pc) == [j \in DOMAIN jobs |->
  IF j \in Dialogs THEN [jobs[j] EXCEPT !.pc = pc] ELSE jobs[j]]
Confirmed == Answered("post")
Declined  == Answered("done")

-----------------------------------------------------------------------------
(* A double click on a cell; the mouse went down outside every other       *)
(* widget first, so that those are closed.                                 *)
Begin ==
  /\ Calm /\ Dialogs = {} /\ Len(edits) < MaxEdits
  /\ \E r \in drawn, c \in Col :
       LET old == shown[r][c].edit
           new == [row |-> r, col |-> c, kind |-> kind[c],
                   original |-> rows[r][c], attached |-> TRUE, pc |-> "open",
                   frame |-> kind[c] # "text", armed |-> FALSE, cancelled |-> "no"]
       IN /\ \A e \in DOMAIN edits : Live(e) => e = old /\ kind[c] # "menu"
          /\ focus \in {0, old}
          /\ edits' = Append(Removed(edits, {old}), new)
          /\ shown' = [shown EXCEPT ![r][c].edit = Len(edits) + 1]
          /\ focus' = IF kind[c] = "menu" THEN 0 ELSE Len(edits) + 1
          /\ tangled' = (\/ tangled
                         \/ \E j \in Under(jobs) : Cell(jobs[j].edit) = <<r, c>>
                         \/ old # 0 /\ Live(old))
  /\ UNCHANGED <<kind, rows, drawn, jobs, search, table, faults, stale>>

(* requestAnimationFrame: the menu opens, or the click-away is listened to *)
(* (whatever became of the edit).                                          *)
Frame(e) ==
  /\ Calm /\ edits[e].frame
  /\ edits' = [edits EXCEPT ![e].frame = FALSE, ![e].armed = edits[e].kind = "date"]
  /\ UNCHANGED <<kind, rows, drawn, shown, jobs, focus, search, table, faults,
                 stale, tangled>>

(* The widget hears the keyboard; the picker's popup does without focus.   *)
Hears(e) == \/ focus = e
            \/ edits[e].kind = "date" /\ edits[e].pc = "open" /\ ~edits[e].frame

(* Enter, and the buttons of the picker.  A dialog hears it first.         *)
Enter(e) ==
  /\ Calm /\ Hears(e)
  /\ \E v \in Values(edits[e].col) : Commits(e, v, Confirmed, focus)
  /\ UNCHANGED <<kind, rows, drawn, search, table, faults, stale>>

When(e) == IF edits[e].frame THEN "early" ELSE "yes"

(* Variant: the flag that silences the blur is not set.                    *)
EscapeWithoutFlag(e) ==
  /\ Calm /\ Hears(e)
  /\ jobs' = Declined
  /\ Reverts({jobs[j].edit : j \in Dialogs} \cup {e},
             [edits EXCEPT ![e].cancelled = When(e), ![e].armed = FALSE], focus)
  /\ UNCHANGED <<kind, rows, drawn, search, table, faults, stale, tangled>>

(* Escape: no to every dialog, and cancel.                                 *)
Escape(e) ==
  /\ Calm /\ Hears(e)
  /\ jobs' = Declined
  /\ Reverts({jobs[j].edit : j \in Dialogs} \cup {e},
             [edits EXCEPT ![e].pc = "over", ![e].cancelled = When(e),
                           ![e].armed = FALSE], focus)
  /\ UNCHANGED <<kind, rows, drawn, search, table, faults, stale, tangled>>

(* The keyboard goes elsewhere: by the mouse or Tab, or to the button of a *)
(* dialog in its first frame.                                              *)
Blur(e) ==
  /\ Calm /\ focus = e
  /\ Dialogs # {} => \A d \in DOMAIN edits : ~edits[d].frame
  /\ \/ /\ edits[e].kind = "text" /\ edits[e].pc = "open"
        /\ \E v \in Values(edits[e].col) : Commits(e, v, jobs, 0)
     \/ /\ ~(edits[e].kind = "text" /\ edits[e].pc = "open")
        /\ focus' = 0 /\ UNCHANGED <<edits, jobs, shown, tangled>>
  /\ UNCHANGED <<kind, rows, drawn, search, table, faults, stale>>

(* The blur of a widget that was removed; without it the edit is dropped.  *)
(* Its revert is overwritten by what removed it.                           *)
BlurLate(e) ==
  /\ edits[e].pc = "removed"
  /\ \/ \E v \in Values(edits[e].col) \ {edits[e].original} :
          Commits(e, v, jobs, focus)
     \/ edits' = [edits EXCEPT ![e].pc = "over"]
        /\ UNCHANGED <<jobs, shown, focus, tangled>>
  /\ UNCHANGED <<kind, rows, drawn, search, table, faults, stale>>

(* A click outside the picker, or its focusout.                            *)
ClickAway(e) ==
  /\ Calm /\ edits[e].armed
  /\ \E v \in Values(edits[e].col) : Commits(e, v, jobs, focus)
  /\ UNCHANGED <<kind, rows, drawn, search, table, faults, stale>>

MenuOpen(e) == edits[e].kind = "menu" /\ edits[e].pc = "open" /\ ~edits[e].frame

Pick(e) ==
  /\ Calm /\ MenuOpen(e) /\ Dialogs = {}
  /\ \E v \in Values(edits[e].col) : Commits(e, v, jobs, focus)
  /\ UNCHANGED <<kind, rows, drawn, search, table, faults, stale>>

(* A click outside, Escape, Tab, a scroll.                                 *)
Dismiss(e) ==
  /\ Calm /\ MenuOpen(e)
  /\ Reverts({e}, [edits EXCEPT ![e].pc = "over", ![e].cancelled = When(e)], focus)
  /\ UNCHANGED <<kind, rows, drawn, jobs, search, table, faults, stale, tangled>>

(* Back into a widget that waits for its answer.                           *)
Refocus(e) ==
  /\ Calm /\ Dialogs = {} /\ In(e) /\ focus = 0 /\ edits[e].kind # "menu"
  /\ \A d \in DOMAIN edits : d # e => ~Live(d)
  /\ focus' = e
  /\ UNCHANGED <<kind, rows, drawn, shown, edits, jobs, search, table, faults,
                 stale, tangled>>

-----------------------------------------------------------------------------
(* The buttons, the cross and the backdrop of the topmost dialog.          *)
Click ==
  /\ Calm /\ Dialogs # {} /\ \A e \in DOMAIN edits : ~edits[e].armed
  /\ LET j == Latest(Dialogs) IN
       \/ /\ jobs' = [jobs EXCEPT ![j].pc = "post"]
          /\ UNCHANGED <<shown, edits, focus>>
       \/ /\ jobs' = [jobs EXCEPT ![j].pc = "done"]
          /\ Reverts({jobs[j].edit}, edits, focus)
  /\ UNCHANGED <<kind, rows, drawn, search, table, faults, stale, tangled>>

(* Enter or Escape once no widget hears it: every dialog does.             *)
Press ==
  /\ Calm /\ Dialogs # {} /\ focus = 0
  /\ \A e \in DOMAIN edits : ~Hears(e) /\ ~MenuOpen(e)
  /\ \/ jobs' = Confirmed /\ UNCHANGED <<shown, edits, focus>>
     \/ /\ jobs' = Declined
        /\ Reverts({jobs[j].edit : j \in Dialogs}, edits, focus)
  /\ UNCHANGED <<kind, rows, drawn, search, table, faults, stale, tangled>>

(* The key by which the server has row r, as far as it was updated here.   *)
Known(r) ==
  LET moved == {j \in DOMAIN jobs : jobs[j].pc = "ok" /\ Cell(jobs[j].edit) = <<r, "key">>}
  IN IF moved = {} THEN rows[r].key ELSE jobs[Latest(moved)].next

(* /table-update at the server.  A row that others deleted may have left   *)
(* its key to another row of the grid.                                     *)
Serve(j) ==
  /\ jobs[j].pc = "post"
  /\ LET to  == jobs[j].next
         pk  == jobs[j].pk
         col == edits[jobs[j].edit].col
         Goes(pc) == jobs' = [jobs EXCEPT ![j].pc = pc]
     IN \/ ~table[pk].live /\ Goes("none") /\ UNCHANGED table
        \/ /\ table[pk].live /\ col = "val" /\ Goes("ok")
           /\ table' = [table EXCEPT ![pk].val = to]
        \/ /\ table[pk].live /\ col = "key"
           /\ IF to # pk /\ table[to].live THEN Goes("error") /\ UNCHANGED table
              ELSE Goes("ok") /\ table' = [table EXCEPT ![pk].live = FALSE,
                                                       ![to] = table[pk]]
  /\ tangled' = (\/ tangled
                 \/ \E r \in Row : /\ r # edits[jobs[j].edit].row
                                   /\ Known(r) = jobs[j].pk)
  /\ UNCHANGED <<kind, rows, drawn, shown, edits, focus, search, faults, stale>>

Fault(f) == /\ f \notin faults /\ Cardinality(faults) < MaxFaults
            /\ faults' = faults \cup {f}

(* The request fails: before the server saw it, or on its way back.        *)
Lose(j) ==
  /\ jobs[j].pc \in {"post", "ok", "none"} /\ Fault("lost")
  /\ jobs' = [jobs EXCEPT ![j].pc = "error"]
  /\ UNCHANGED <<kind, rows, drawn, shown, edits, focus, search, table, stale,
                 tangled>>

(* Somebody else deletes a row; only an update on its way can tell when.   *)
Others ==
  /\ Fault("deleted") /\ \E j \in DOMAIN jobs : jobs[j].pc = "post"
  /\ \E k \in Key : table[k].live /\ table' = [table EXCEPT ![k].live = FALSE]
  /\ UNCHANGED <<kind, rows, drawn, shown, edits, jobs, focus, search, stale,
                 tangled>>

(* Variant: a row that was not matched is not noticed.                     *)
LandUnchecked(j) ==
  /\ Calm /\ jobs[j].pc \in {"ok", "none", "error"}
  /\ jobs' = [jobs EXCEPT ![j].pc = "done"]
  /\ LET e == jobs[j].edit IN
       IF jobs[j].pc # "error"
       THEN /\ rows' = [rows EXCEPT ![edits[e].row][edits[e].col] = jobs[j].next]
            /\ Shows([d \in {e} |-> jobs[j].next], edits, focus)
            /\ stale' = IF edits[e].attached THEN stale ELSE stale \cup {Cell(e)}
       ELSE Reverts({e}, edits, focus) /\ UNCHANGED <<rows, stale>>
  /\ UNCHANGED <<kind, drawn, search, table, faults, tangled>>

(* The rest of commit: affected is 0, or written back, or it failed.       *)
Land(j) ==
  /\ Calm /\ jobs[j].pc \in {"ok", "none", "error"}
  /\ jobs' = [jobs EXCEPT ![j].pc = "done"]
  /\ LET e == jobs[j].edit IN
       IF jobs[j].pc = "ok"
       THEN /\ rows' = [rows EXCEPT ![edits[e].row][edits[e].col] = jobs[j].next]
            /\ Shows([d \in {e} |-> jobs[j].next], edits, focus)
            /\ stale' = IF edits[e].attached THEN stale ELSE stale \cup {Cell(e)}
       ELSE Reverts({e}, edits, focus) /\ UNCHANGED <<rows, stale>>
  /\ UNCHANGED <<kind, drawn, search, table, faults, tangled>>

-----------------------------------------------------------------------------
(* Typing in the search box starts the timer.                              *)
Search ==
  /\ Calm /\ Dialogs = {} /\ focus = 0 /\ \A e \in DOMAIN edits : ~Live(e)
  /\ search' = TRUE
  /\ UNCHANGED <<kind, rows, drawn, shown, edits, jobs, focus, table, faults,
                 stale, tangled>>

(* redraw: when the timer fires, or a click sorts or turns the page.       *)
Redraw ==
  /\ Calm
  /\ \/ search
     \/ Dialogs = {} /\ focus = 0 /\ \A e \in DOMAIN edits : ~Live(e)
  /\ \E D \in Pages : drawn' = D
  /\ search' = FALSE /\ shown' = Drawn(rows) /\ stale' = {} /\ focus' = 0
  /\ LET gone == Removed(edits, DOMAIN edits) IN
       edits' = [e \in DOMAIN edits |-> [gone[e] EXCEPT !.attached = FALSE]]
  /\ UNCHANGED <<kind, rows, jobs, table, faults, tangled>>

Next ==
  \/ Begin \/ Click \/ Press \/ Others \/ Search \/ Redraw
  \/ \E e \in DOMAIN edits :
       \/ Frame(e) \/ Enter(e) \/ Escape(e) \/ Blur(e) \/ BlurLate(e)
       \/ ClickAway(e) \/ Pick(e) \/ Dismiss(e) \/ Refocus(e)
  \/ \E j \in DOMAIN jobs : Serve(j) \/ Lose(j) \/ Land(j)

Spec == Init /\ [][Next]_vars

-----------------------------------------------------------------------------
(* Properties.                                                             *)

(* Once every update is answered, the arrays hold the rows of the server   *)
(* and the cells hold the arrays, whatever widget, dialog, sort or search  *)
(* came in between: a key changed in one cell is used by the next update,  *)
(* and an update that matched no row is taken back.  Not so once edits of  *)
(* one cell overlapped or an edit committed twice, nor for a lost answer,  *)
(* nor once an update by the key of a row that somebody deleted hit the    *)
(* row that has that key by then; and a cell that was drawn again while    *)
(* its update was on its way shows the old value until the next redraw.    *)
(* A row that somebody deleted keeps the value it had.                     *)
CellTellsTruth ==
  Under(jobs) = {} /\ ~tangled =>
    /\ \A r \in Row :
         \/ "lost" \in faults \/ \E q \in Row : q # r /\ rows[q].key = rows[r].key
         \/ table[rows[r].key].val = rows[r].val
    /\ \A r \in drawn, c \in Col :
         \/ shown[r][c].edit # 0 \/ <<r, c>> \in stale
         \/ shown[r][c].val = rows[r][c]

(* An edit that was cancelled asks nothing any more: removing its widget   *)
(* sends no value.  But a date that ended before its first frame is still  *)
(* listening, and the next click commits it.                               *)
CancelledStaysCancelled ==
  \A j \in DOMAIN jobs : jobs[j].late => edits[jobs[j].edit].cancelled = "early"
=============================================================================
