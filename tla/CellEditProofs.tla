--------------------------- MODULE CellEditProofs ---------------------------
(***************************************************************************)
(* Theorems about CellEdit, for any rows, keys, values, pages and widgets, *)
(* and any number of edits, updates and faults.                            *)
(***************************************************************************)
EXTENDS CellEdit, FiniteSetTheorems, SequenceTheorems, WellFoundedInduction, TLAPS

-----------------------------------------------------------------------------
(* Types: what an edit and its update hold, and where widgets are.         *)

Widget == {"text", "menu", "date"}
Slot   == [key : [edit : 0..MaxEdits, val : Key],
           val : [edit : 0..MaxEdits, val : Val]]

EditInv == \A e \in DOMAIN edits : edits[e].original \in Values(edits[e].col)

JobInv == \A j \in DOMAIN jobs :
  /\ jobs[j].edit \in DOMAIN edits
  /\ jobs[j].next \in Values(edits[jobs[j].edit].col)
  /\ edits[jobs[j].edit].pc \in {"committed", "over"}

(* A cell holds the widget of an edit of that cell.                        *)
MountInv == \A r \in Row, c \in Col :
  LET e == shown[r][c].edit IN
  e # 0 => e \in DOMAIN edits /\ edits[e].attached /\ Cell(e) = <<r, c>>

TypeInv == TypeOK /\ EditInv /\ JobInv /\ MountInv

-----------------------------------------------------------------------------
(* An edit that was cancelled has no widget in the page any more; nothing  *)
(* is left of it, but a date may wait for its first frame.                 *)
CancelInv ==
  /\ \A e \in DOMAIN edits :
       /\ edits[e].cancelled # "no" => edits[e].pc = "over" /\ ~In(e)
       /\ edits[e].cancelled = "yes" => ~edits[e].frame /\ ~edits[e].armed
       /\ edits[e].armed => edits[e].kind = "date"
  /\ CancelledStaysCancelled

-----------------------------------------------------------------------------
(* Cells, arrays and server, until edits meet.                             *)

(* An edit that may still ask, or asks, or waits for its answer.           *)
Active(e) == edits[e].pc \in {"open", "removed"}
             \/ \E j \in Under(jobs) : jobs[j].edit = e

OneInv == \A e, d \in DOMAIN edits :
  Active(e) /\ Active(d) /\ Cell(e) = Cell(d) => e = d
WidgetInv == \A e \in DOMAIN edits : In(e) =>
  Active(e) /\ edits[e].pc # "removed"
OriginalInv == \A e \in DOMAIN edits : Active(e) =>
  edits[e].original = rows[edits[e].row][edits[e].col]

Apart(e, d) == edits[e].row = edits[d].row =>
  edits[e].col # edits[d].col /\ "key" \notin {edits[e].col, edits[d].col}
ApartInv == \A i, j \in Under(jobs) : i # j => Apart(jobs[i].edit, jobs[j].edit)
AddressInv == \A j \in Under(jobs) : jobs[j].pk = rows[edits[jobs[j].edit].row].key

DisplayInv == \A r \in Row, c \in Col :
  shown[r][c].edit # 0 \/ <<r, c>> \in stale \/ shown[r][c].val = rows[r][c]

(* The server has a row as far as an update was answered.                  *)
Done(r, c) == {j \in DOMAIN jobs : jobs[j].pc = "ok" /\ Cell(jobs[j].edit) = <<r, c>>}
Worth(r) == IF Done(r, "val") = {} THEN rows[r].val
            ELSE jobs[Latest(Done(r, "val"))].next
ServerInv == "lost" \notin faults => \A r \in Row :
  (\A q \in Row \ {r} : Known(q) # Known(r)) => table[Known(r)].val = Worth(r)

ClearInv == OneInv /\ WidgetInv /\ OriginalInv /\ ApartInv /\ AddressInv
            /\ DisplayInv /\ ServerInv
CellInv == ~tangled => ClearInv

-----------------------------------------------------------------------------
(* Numbers and sequences.                                                  *)

(* Of a set of numbers with a bound there is a greatest one.               *)
LEMMA GreatestNatural ==
  ASSUME NEW n \in Nat, NEW S \in SUBSET (1..n), S # {}
  PROVE  Latest(S) \in S /\ \A d \in S : d <= Latest(S)
<1> DEFINE R == OpToRel(<, Nat)
           T == {m \in Nat : \A d \in S : d <= m}
<1>1. IsWellFoundedOn(R, Nat)
  BY NatLessThanWellFounded
<1>2. \A k, m \in Nat : k < m => <<k, m>> \in R
  BY DEF OpToRel
<1> HIDE DEF R
<1>3. T \subseteq Nat /\ n \in T
  OBVIOUS
<1>4. PICK m \in T : \A k \in T : ~(<<k, m>> \in R)
  BY <1>1, <1>3, WFMin
<1>5. m \in S
  <2> SUFFICES ASSUME m \notin S PROVE FALSE
    OBVIOUS
  <2>1. PICK d \in S : TRUE
    OBVIOUS
  <2>2. m \in Nat /\ m # 0 /\ m - 1 \in Nat /\ \A x \in S : x <= m /\ x # m
    BY <2>1
  <2>3. \A x \in S : x <= m - 1
    BY <2>2
  <2>4. m - 1 \in T /\ m - 1 < m
    BY <2>2, <2>3
  <2> HIDE DEF T
  <2> QED
    BY <1>2, <1>3, <1>4, <2>2, <2>4
<1>6. \A d \in S : d <= m
  OBVIOUS
<1> QED
  BY <1>5, <1>6 DEF Latest

LEMMA SeqOf ==
  ASSUME NEW S, NEW n \in Nat, NEW f \in [1..n -> S]
  PROVE  f \in Seq(S) /\ Len(f) = n /\ DOMAIN f = 1..n
<1>1. f \in Seq(S)
  BY SeqDef
<1>2. Len(f) \in Nat /\ DOMAIN f = 1..Len(f) /\ DOMAIN f = 1..n
  BY <1>1, LenProperties
<1>3. Len(f) = n
  BY <1>2
<1> QED
  BY <1>1, <1>2, <1>3

LEMMA EditsAre ==
  ASSUME TypeOK
  PROVE  /\ Len(edits) \in Nat /\ DOMAIN edits = 1..Len(edits)
         /\ edits \in [1..Len(edits) -> Edit]
         /\ Len(jobs) \in Nat /\ DOMAIN jobs = 1..Len(jobs)
         /\ jobs \in [1..Len(jobs) -> Job]
         /\ Len(edits) <= MaxEdits /\ MaxEdits \in Nat
BY LenProperties, CellEditAssumption DEF TypeOK, CellEditAssumption

-----------------------------------------------------------------------------
(* What a step does to edits, cells and updates.                           *)

(* Nobody changes what an edit is about.                                   *)
Alike(x, y) == /\ x.row = y.row /\ x.col = y.col /\ x.kind = y.kind
               /\ x.original = y.original /\ x.attached = y.attached
Bears(es) == /\ es \in Seq(Edit) /\ Len(es) = Len(edits)
             /\ \A e \in DOMAIN edits : Alike(es[e], edits[e])

Lapsed(x, y) == x = y \/ (y.pc = "open" /\ x = [y EXCEPT !.pc = "removed"])
Lapses(es) == /\ Bears(edits')
              /\ \A e \in DOMAIN edits : Lapsed(edits'[e], es[e])

(* The cells of the edits in E show the values in `put`.                   *)
Of(E, r, c) == {e \in E : edits[e].attached /\ Cell(e) = <<r, c>>}
Clears(E, put) ==
  /\ shown' \in [Row -> Slot]
  /\ \A r \in Row, c \in Col :
       \/ Of(E, r, c) = {} /\ shown'[r][c] = shown[r][c]
       \/ shown'[r][c].edit = 0
          /\ \E e \in Of(E, r, c) : shown'[r][c].val = put[e]

LEMMA RemovedBears ==
  ASSUME TypeOK, NEW es, Bears(es), NEW gone
  PROVE  /\ Removed(es, gone) \in Seq(Edit)
         /\ Len(Removed(es, gone)) = Len(edits)
         /\ \A e \in DOMAIN edits : /\ Alike(Removed(es, gone)[e], edits[e])
                                    /\ Lapsed(Removed(es, gone)[e], es[e])
<1> DEFINE n == Len(edits)
           rs == Removed(es, gone)
<1>1. n \in Nat /\ DOMAIN edits = 1..n
  BY EditsAre
<1>2. /\ es \in [1..n -> Edit] /\ DOMAIN es = 1..n
      /\ \A e \in 1..n : Alike(es[e], edits[e])
  BY <1>1, LenProperties DEF Bears
<1>3. \A e \in 1..n : [es[e] EXCEPT !.pc = "removed"] \in Edit
                      /\ Alike([es[e] EXCEPT !.pc = "removed"], es[e])
  BY <1>2 DEF Edit, Alike
<1>4. rs = [e \in 1..n |->
        IF e \in gone /\ e = focus /\ es[e].kind = "text" /\ es[e].pc = "open"
        THEN [es[e] EXCEPT !.pc = "removed"] ELSE es[e]]
  BY <1>2 DEF Removed
<1> HIDE DEF n, rs
<1>5. rs \in [1..n -> Edit]
  BY <1>2, <1>3, <1>4
<1>6. rs \in Seq(Edit) /\ Len(rs) = n
  BY <1>1, <1>5, SeqOf
<1>7. \A e \in 1..n : Lapsed(rs[e], es[e]) /\ Alike(rs[e], edits[e])
  BY <1>2, <1>3, <1>4 DEF Lapsed, Alike
<1> QED
  BY <1>1, <1>6, <1>7 DEF n, rs

LEMMA ShowsDoes ==
  ASSUME TypeInv, NEW es, Bears(es), NEW E \in SUBSET (DOMAIN edits),
         NEW put, DOMAIN put = E,
         \A e \in E : put[e] \in Values(edits[e].col),
         NEW f \in {0, focus}, Shows(put, es, f)
  PROVE  /\ Clears(E, put) /\ Lapses(es)
         /\ focus' \in {0, f} /\ (focus' # 0 => In(focus)')
<1>0. /\ DOMAIN edits = 1..Len(edits) /\ edits \in [1..Len(edits) -> Edit]
      /\ Len(edits) \in Nat /\ shown \in [Row -> Slot] /\ TypeOK
  BY EditsAre DEF TypeInv, TypeOK, Slot
<1>1. ASSUME NEW r \in Row, NEW c \in Col, Of(E, r, c) # {}
      PROVE  Latest(Of(E, r, c)) \in Of(E, r, c)
  BY <1>0, <1>1, GreatestNatural DEF Of
<1> DEFINE P(r, c) == {e \in DOMAIN put : edits[e].attached /\ Cell(e) = <<r, c>>}
<1>2. \A r \in Row, c \in Col : P(r, c) = Of(E, r, c)
  BY DEF Of
<1>3. shown' = [r \in Row |-> [c \in Col |->
                 IF Of(E, r, c) = {} THEN shown[r][c]
                 ELSE [edit |-> 0, val |-> put[Latest(Of(E, r, c))]]]]
  BY <1>2 DEF Shows
<1>4. \A r \in Row, c \in Col : shown'[r][c] =
        IF Of(E, r, c) = {} THEN shown[r][c]
        ELSE [edit |-> 0, val |-> put[Latest(Of(E, r, c))]]
  BY <1>3
<1>5. \A r \in Row, c \in Col :
        \/ Of(E, r, c) = {} /\ shown'[r][c] = shown[r][c]
        \/ shown'[r][c].edit = 0
           /\ \E e \in Of(E, r, c) : shown'[r][c].val = put[e]
  <2> TAKE r \in Row, c \in Col
  <2>1. CASE Of(E, r, c) = {}
    BY <1>4, <2>1
  <2>2. CASE Of(E, r, c) # {}
    <3>1. PICK e \in Of(E, r, c) : e = Latest(Of(E, r, c))
      BY <1>1, <2>2
    <3>2. shown'[r][c] = [edit |-> 0, val |-> put[e]]
      BY <1>4, <2>2, <3>1
    <3> QED
      BY <3>2
  <2> QED
    BY <2>1, <2>2
<1>6. ASSUME NEW r \in Row, NEW c \in Col
      PROVE  shown'[r][c] \in [edit : 0..MaxEdits, val : Values(c)]
  <2>1. shown[r][c] \in [edit : 0..MaxEdits, val : Values(c)]
    BY <1>0 DEF Slot, Values, Col
  <2>2. CASE Of(E, r, c) # {}
    <3>1. PICK e \in Of(E, r, c) : e = Latest(Of(E, r, c))
      BY <1>1, <2>2
    <3>2. put[e] \in Values(c)
      BY DEF Of, Cell
    <3>3. shown'[r][c] = [edit |-> 0, val |-> put[e]] /\ 0 \in 0..MaxEdits
      BY <1>4, <2>2, <3>1, CellEditAssumption DEF CellEditAssumption
    <3> QED
      BY <3>2, <3>3
  <2> QED
    BY <1>4, <2>1, <2>2
<1>7. shown' \in [Row -> Slot]
  <2>1. ASSUME NEW r \in Row PROVE shown'[r] \in Slot
    <3>1. shown'[r] = [c \in Col |-> shown'[r][c]]
      BY <1>3
    <3> QED
      BY <1>6, <3>1 DEF Col, Values, Slot
  <2>2. shown' = [r \in Row |-> shown'[r]]
    BY <1>3
  <2> QED
    BY <2>1, <2>2
<1> DEFINE gone == {shown[Cell(e)[1]][Cell(e)[2]].edit :
                      e \in {d \in DOMAIN put : edits[d].attached}}
<1>8. edits' = Removed(es, gone) /\ focus' = IF f \in gone THEN 0 ELSE f
  BY DEF Shows
<1>9. Lapses(es)
  <2> HIDE DEF gone
  <2> QED
    BY <1>0, <1>8, RemovedBears DEF Lapses, Bears
<1>10. ASSUME focus' # 0 PROVE In(focus)'
  <2>1. focus' = focus /\ focus \in DOMAIN edits /\ focus \notin gone /\ In(focus)
    BY <1>0, <1>8, <1>10 DEF TypeOK
  <2>2. PICK r \in Row, c \in Col : Cell(focus) = <<r, c>>
    BY <1>0, <2>1 DEF Edit, Cell
  <2>3. shown[r][c].edit = focus /\ edits[focus].attached
    BY <2>1, <2>2 DEF In, Cell
  <2>4. Of(E, r, c) = {}
    <3> SUFFICES ASSUME NEW e \in Of(E, r, c) PROVE FALSE
      OBVIOUS
    <3>1. Cell(e)[1] = r /\ Cell(e)[2] = c /\ e \in DOMAIN put /\ edits[e].attached
      BY DEF Of
    <3>2. shown[Cell(e)[1]][Cell(e)[2]].edit = focus
      BY <2>3, <3>1
    <3> QED
      BY <2>1, <3>1, <3>2
  <2>5. shown'[r][c].edit = focus
    BY <1>4, <2>3, <2>4
  <2>6. Alike(edits'[focus], edits[focus])
    BY <1>9, <2>1 DEF Lapses, Bears
  <2> HIDE DEF gone
  <2>7. edits'[focus'].attached /\ edits'[focus'].row = r /\ edits'[focus'].col = c
    BY <2>1, <2>2, <2>3, <2>6 DEF Alike, Cell
  <2> QED
    BY <2>1, <2>5, <2>7 DEF In
<1> QED
  BY <1>5, <1>7, <1>8, <1>9, <1>10 DEF Clears

(* An update only moves on; one that is finished stays so.                 *)
Moved(x, y) == /\ x.edit = y.edit /\ x.next = y.next /\ x.pk = y.pk
               /\ x.late = y.late /\ (y.pc = "done" => x.pc = "done")
Moves(js) == /\ js \in Seq(Job) /\ Len(js) = Len(jobs)
             /\ \A j \in DOMAIN jobs : Moved(js[j], jobs[j])

LEMMA UnderFinite ==
  ASSUME NEW js \in Seq(Job)
  PROVE  /\ IsFiniteSet(Under(js)) /\ Cardinality(Under(js)) \in Nat
         /\ DOMAIN js = 1..Len(js) /\ Len(js) \in Nat
<1>1. DOMAIN js = 1..Len(js) /\ Len(js) \in Nat
  BY LenProperties
<1>2. IsFiniteSet(1..Len(js))
  BY <1>1, FS_Interval
<1>3. Under(js) \in SUBSET (1..Len(js))
  BY <1>1 DEF Under
<1>4. IsFiniteSet(Under(js))
  BY <1>2, <1>3, FS_Subset
<1> QED
  BY <1>1, <1>4, FS_CardinalityType

LEMMA MovesFit ==
  ASSUME TypeOK, NEW js, Moves(js)
  PROVE  /\ js \in Seq(Job) /\ Len(js) = Len(jobs) /\ DOMAIN js = DOMAIN jobs
         /\ Under(js) \subseteq Under(jobs)
         /\ Cardinality(Under(js)) \in Nat /\ Cardinality(Under(js)) <= MaxJobs
<1>1. js \in Seq(Job) /\ jobs \in Seq(Job) /\ MaxJobs \in Nat
      /\ Cardinality(Under(jobs)) <= MaxJobs
  BY CellEditAssumption DEF Moves, TypeOK, CellEditAssumption
<1>2. DOMAIN js = DOMAIN jobs
  BY <1>1, UnderFinite DEF Moves
<1>3. Under(js) \subseteq Under(jobs)
  BY <1>2 DEF Under, Moves, Moved
<1>4. /\ IsFiniteSet(Under(jobs)) /\ Cardinality(Under(jobs)) \in Nat
      /\ Cardinality(Under(js)) \in Nat
  BY <1>1, UnderFinite
<1>5. Cardinality(Under(js)) <= Cardinality(Under(jobs))
  BY <1>3, <1>4, FS_Subset
<1>6. Cardinality(Under(js)) <= MaxJobs
  BY <1>1, <1>4, <1>5
<1> QED
  BY <1>1, <1>2, <1>3, <1>4, <1>6 DEF Moves

LEMMA AppendFits ==
  ASSUME TypeOK, NEW js, Moves(js), Cardinality(Under(js)) < MaxJobs,
         NEW x \in Job, x.pc # "done"
  PROVE  /\ Append(js, x) \in Seq(Job)
         /\ DOMAIN Append(js, x) = DOMAIN jobs \cup {Len(jobs) + 1}
         /\ Len(jobs) + 1 \notin DOMAIN jobs
         /\ \A j \in DOMAIN jobs : Append(js, x)[j] = js[j]
         /\ Append(js, x)[Len(jobs) + 1] = x
         /\ Under(Append(js, x)) = Under(js) \cup {Len(jobs) + 1}
         /\ Cardinality(Under(Append(js, x))) <= MaxJobs
<1> DEFINE ks == Append(js, x)
           n == Len(jobs) + 1
<1>1. /\ js \in Seq(Job) /\ Len(js) = Len(jobs) /\ DOMAIN js = DOMAIN jobs
      /\ Cardinality(Under(js)) \in Nat /\ MaxJobs \in Nat
  BY MovesFit, CellEditAssumption DEF CellEditAssumption
<1>2. /\ DOMAIN js = 1..Len(js) /\ Len(js) \in Nat /\ IsFiniteSet(Under(js))
  BY <1>1, UnderFinite
<1>3. /\ ks \in Seq(Job) /\ Len(ks) = n /\ ks[n] = x
      /\ \A j \in 1..Len(js) : ks[j] = js[j]
  BY <1>1, <1>2, AppendProperties
<1>4. DOMAIN ks = 1..n
  BY <1>3, UnderFinite
<1> HIDE DEF ks
<1>5. DOMAIN ks = DOMAIN jobs \cup {n} /\ n \notin DOMAIN jobs
  BY <1>1, <1>2, <1>4
<1>6. Under(ks) = Under(js) \cup {n}
  BY <1>1, <1>2, <1>3, <1>5 DEF Under
<1>7. n \notin Under(js)
  BY <1>1, <1>5 DEF Under
<1>8. Cardinality(Under(js) \cup {n}) = Cardinality(Under(js)) + 1
  BY <1>2, <1>7, FS_AddElement
<1>9. Cardinality(Under(ks)) <= MaxJobs
  BY <1>1, <1>6, <1>8
<1> QED
  BY <1>1, <1>2, <1>3, <1>5, <1>6, <1>9 DEF ks

(* The answers: some updates move on to pc.                                *)
LEMMA MovesTo ==
  ASSUME TypeOK, NEW J \in SUBSET (DOMAIN jobs), NEW pc,
         pc \in {"post", "ok", "none", "error", "done"},
         \A j \in J : jobs[j].pc # "done"
  PROVE  Moves([j \in DOMAIN jobs |->
                  IF j \in J THEN [jobs[j] EXCEPT !.pc = pc] ELSE jobs[j]])
<1> DEFINE js == [j \in DOMAIN jobs |->
                    IF j \in J THEN [jobs[j] EXCEPT !.pc = pc] ELSE jobs[j]]
           n == Len(jobs)
<1>1. n \in Nat /\ DOMAIN jobs = 1..n /\ jobs \in [1..n -> Job]
  BY EditsAre
<1>2. \A j \in 1..n : /\ [jobs[j] EXCEPT !.pc = pc] \in Job
                      /\ (jobs[j].pc # "done" =>
                            Moved([jobs[j] EXCEPT !.pc = pc], jobs[j]))
                      /\ Moved(jobs[j], jobs[j])
  BY <1>1 DEF Job, Moved
<1>3. js = [j \in 1..n |->
              IF j \in J THEN [jobs[j] EXCEPT !.pc = pc] ELSE jobs[j]]
  BY <1>1
<1> HIDE DEF js, n
<1>4. js \in [1..n -> Job] /\ \A j \in 1..n : Moved(js[j], jobs[j])
  BY <1>1, <1>2, <1>3
<1>5. js \in Seq(Job) /\ Len(js) = n
  BY <1>1, <1>4, SeqOf
<1> QED
  BY <1>1, <1>4, <1>5 DEF js, n, Moves

LEMMA MovesOne ==
  ASSUME TypeOK, NEW i \in DOMAIN jobs, NEW pc,
         pc \in {"post", "ok", "none", "error", "done"}, jobs[i].pc # "done"
  PROVE  /\ Moves([jobs EXCEPT ![i].pc = pc])
         /\ [jobs EXCEPT ![i].pc = pc][i].pc = pc
         /\ \A j \in DOMAIN jobs \ {i} : [jobs EXCEPT ![i].pc = pc][j] = jobs[j]
<1> DEFINE js == [j \in DOMAIN jobs |->
                    IF j \in {i} THEN [jobs[j] EXCEPT !.pc = pc] ELSE jobs[j]]
<1>1. jobs \in [DOMAIN jobs -> Job]
  BY EditsAre
<1>2. [jobs EXCEPT ![i].pc = pc] = js
  BY <1>1
<1>3. Moves(js)
  BY MovesTo
<1>4. js[i].pc = pc /\ \A j \in DOMAIN jobs \ {i} : js[j] = jobs[j]
  BY <1>1 DEF Job
<1> HIDE DEF js
<1> QED
  BY <1>2, <1>3, <1>4

LEMMA AnswersMove ==
  ASSUME TypeOK, NEW pc, pc \in {"post", "done"}
  PROVE  Moves(Answered(pc))
<1>1. Dialogs \in SUBSET (DOMAIN jobs) /\ \A j \in Dialogs : jobs[j].pc # "done"
  BY DEF Dialogs
<1> QED
  BY <1>1, MovesTo DEF Answered

LEMMA StaysMoved ==
  ASSUME TypeOK
  PROVE  Moves(jobs)
BY DEF Moves, Moved, TypeOK

-----------------------------------------------------------------------------
(* Steps that take nothing out of the page but widgets, and let edits go   *)
(* on only towards their end.                                              *)

Settled == {"committed", "over"}
Keeps(x, y) == /\ Alike(x, y) /\ (y.pc \in Settled => x.pc \in Settled)
               /\ (y.pc = "over" => x.pc = "over")
Quiet(x, y) == /\ x.cancelled = y.cancelled /\ (x.frame => y.frame)
               /\ (x.armed => y.armed)
Goes == /\ edits' \in Seq(Edit) /\ Len(edits') = Len(edits)
        /\ \A e \in DOMAIN edits : Keeps(edits'[e], edits[e])
Empties == /\ shown' \in [Row -> Slot]
           /\ \A r \in Row, c \in Col : shown'[r][c].edit \in {0, shown[r][c].edit}
Asks == /\ jobs' \in Seq(Job) /\ Cardinality(Under(jobs')) <= MaxJobs
        /\ \A j \in DOMAIN jobs' :
             /\ jobs'[j].edit \in DOMAIN edits
             /\ jobs'[j].next \in Values(edits[jobs'[j].edit].col)
             /\ edits'[jobs'[j].edit].pc \in Settled
Listens == focus' \in 0..Len(edits) /\ (focus' # 0 => In(focus)')
RestTyped == /\ kind \in [Col -> {"text", "menu", "date"}]
             /\ rows \in [Row -> [key : Key, val : Val]] /\ drawn \subseteq Row
             /\ search \in BOOLEAN
             /\ table \in [Key -> [live : BOOLEAN, val : Val]]
             /\ faults \subseteq {"lost", "deleted"} /\ Cardinality(faults) <= MaxFaults
             /\ stale \subseteq Row \X Col /\ tangled \in BOOLEAN

LEMMA StepTyped ==
  ASSUME TypeInv, Goes, Empties, Asks, Listens, RestTyped'
  PROVE  TypeInv'
<1>1. /\ DOMAIN edits = 1..Len(edits) /\ edits \in [1..Len(edits) -> Edit]
      /\ Len(edits) \in Nat /\ Len(edits) <= MaxEdits
  BY EditsAre DEF TypeInv
<1>2. DOMAIN edits' = DOMAIN edits /\ edits' \in [1..Len(edits) -> Edit]
      /\ Len(edits') = Len(edits)
  BY <1>1, LenProperties DEF Goes
<1>3. TypeOK'
  BY <1>1, <1>2 DEF TypeOK, Goes, Empties, Asks, Listens, RestTyped, Slot
<1>4. EditInv'
  BY <1>2 DEF TypeInv, EditInv, Goes, Keeps, Alike
<1>5. JobInv'
  <2> SUFFICES ASSUME NEW j \in DOMAIN jobs'
               PROVE  /\ jobs'[j].edit \in DOMAIN edits'
                      /\ jobs'[j].next \in Values(edits'[jobs'[j].edit].col)
                      /\ edits'[jobs'[j].edit].pc \in {"committed", "over"}
    BY DEF JobInv
  <2>1. PICK e \in DOMAIN edits : e = jobs'[j].edit
    BY DEF Asks
  <2>2. edits'[e].col = edits[e].col
    BY DEF Goes, Keeps, Alike
  <2> QED
    BY <1>2, <2>1, <2>2 DEF Asks, Settled
<1>6. MountInv'
  <2> SUFFICES ASSUME NEW r \in Row, NEW c \in Col, shown'[r][c].edit # 0
               PROVE  LET e == shown'[r][c].edit IN
                 /\ e \in DOMAIN edits' /\ edits'[e].attached
                 /\ edits'[e].row = r /\ edits'[e].col = c
    BY DEF MountInv, Cell
  <2>1. PICK e : e = shown[r][c].edit
    OBVIOUS
  <2>2. e # 0 /\ shown'[r][c].edit = e
    BY <2>1 DEF Empties
  <2>3. /\ e \in DOMAIN edits /\ edits[e].attached
        /\ edits[e].row = r /\ edits[e].col = c
    BY <2>1, <2>2 DEF TypeInv, MountInv, Cell
  <2>4. Alike(edits'[e], edits[e])
    BY <2>3 DEF Goes, Keeps
  <2> QED
    BY <1>2, <2>2, <2>3, <2>4 DEF Alike
<1> QED
  BY <1>3, <1>4, <1>5, <1>6 DEF TypeInv

(* An edit that was cancelled stays so; only one that was not is, and then *)
(* it leaves the page and the keyboard.                                    *)
Ends(e) == /\ edits[e].cancelled = "no" /\ edits'[e].pc = "over"
           /\ ~In(e)' /\ (edits'[e].armed => edits'[e].kind = "date")
           /\ edits'[e].cancelled = "yes" => ~edits'[e].frame /\ ~edits'[e].armed
LateIsEarly == \A j \in DOMAIN jobs' : jobs'[j].late =>
                  edits[jobs'[j].edit].cancelled = "early"

(* No widget comes back into the page.                                     *)
LEMMA StaysOut ==
  ASSUME TypeInv, Goes, Empties, NEW e \in DOMAIN edits, In(e)'
  PROVE  In(e)
<1>1. edits \in [DOMAIN edits -> Edit] /\ e # 0 /\ Alike(edits'[e], edits[e])
  BY EditsAre DEF TypeInv, Goes, Keeps
<1>2. PICK r \in Row, c \in Col : edits[e].row = r /\ edits[e].col = c
  BY <1>1 DEF Edit
<1>3. edits'[e].attached /\ shown'[r][c].edit = e
  BY <1>1, <1>2 DEF In, Alike
<1>4. edits[e].attached /\ shown[r][c].edit = e
  BY <1>1, <1>3 DEF Alike, Empties
<1> QED
  BY <1>2, <1>4 DEF In

LEMMA StepCancels ==
  ASSUME TypeInv, CancelInv, Goes, Empties, Asks, LateIsEarly,
         \A e \in DOMAIN edits : Quiet(edits'[e], edits[e]) \/ Ends(e)
  PROVE  CancelInv'
<1>1. DOMAIN edits' = DOMAIN edits
  BY LenProperties DEF Goes, TypeInv, TypeOK
<1>2. ASSUME NEW e \in DOMAIN edits
      PROVE  /\ edits'[e].cancelled # "no" => edits'[e].pc = "over" /\ ~In(e)'
             /\ edits'[e].cancelled = "yes" => ~edits'[e].frame /\ ~edits'[e].armed
             /\ edits'[e].armed => edits'[e].kind = "date"
  <2>1. CASE Ends(e)
    BY <2>1 DEF Ends
  <2>2. CASE Quiet(edits'[e], edits[e])
    <3>1. /\ edits[e].cancelled # "no" => edits[e].pc = "over" /\ ~In(e)
          /\ edits[e].cancelled = "yes" => ~edits[e].frame /\ ~edits[e].armed
          /\ edits[e].armed => edits[e].kind = "date"
      BY DEF CancelInv
    <3>2. Keeps(edits'[e], edits[e])
      BY DEF Goes
    <3>3. edits[e].cancelled # "no" => ~In(e)'
      BY <3>1, StaysOut
    <3> QED
      BY <2>2, <3>1, <3>2, <3>3 DEF Quiet, Keeps, Alike
  <2> QED
    BY <2>1, <2>2
<1>3. ASSUME NEW j \in DOMAIN jobs', jobs'[j].late
      PROVE  edits'[jobs'[j].edit].cancelled = "early"
  <2>1. PICK e \in DOMAIN edits : e = jobs'[j].edit
    BY DEF Asks
  <2>2. edits[e].cancelled = "early"
    BY <1>3, <2>1 DEF LateIsEarly
  <2>3. Quiet(edits'[e], edits[e])
    BY <2>2 DEF Ends
  <2> QED
    BY <2>1, <2>2, <2>3 DEF Quiet
<1>4. (\A j \in DOMAIN jobs : jobs[j].late =>
          edits[jobs[j].edit].cancelled = "early")'
  BY <1>3
<1> QED
  BY <1>1, <1>2, <1>4 DEF CancelInv, CancelledStaysCancelled

Both == TypeInv /\ CancelInv

(* Updates that move on ask nothing new.                                   *)
LEMMA MovesAsk ==
  ASSUME Both, Goes, Moves(jobs')
  PROVE  Asks /\ LateIsEarly
<1>1. /\ jobs' \in Seq(Job) /\ DOMAIN jobs' = DOMAIN jobs
      /\ Cardinality(Under(jobs')) <= MaxJobs
  BY MovesFit DEF Both, TypeInv
<1>2. ASSUME NEW j \in DOMAIN jobs
      PROVE  /\ jobs'[j].edit \in DOMAIN edits
             /\ jobs'[j].next \in Values(edits[jobs'[j].edit].col)
             /\ edits'[jobs'[j].edit].pc \in Settled
             /\ jobs'[j].late => edits[jobs'[j].edit].cancelled = "early"
  <2>1. PICK e \in DOMAIN edits : e = jobs[j].edit
    BY DEF Both, TypeInv, JobInv
  <2>2. /\ jobs[j].next \in Values(edits[e].col)
        /\ edits[e].pc \in Settled
        /\ jobs[j].late => edits[e].cancelled = "early"
    BY <2>1 DEF Both, TypeInv, JobInv, Settled, CancelInv, CancelledStaysCancelled
  <2>3. edits'[e].pc \in Settled
    BY <2>2 DEF Goes, Keeps
  <2>4. jobs'[j].edit = e /\ jobs'[j].next = jobs[j].next
        /\ jobs'[j].late = jobs[j].late
    BY <2>1 DEF Moves, Moved
  <2> QED
    BY <2>2, <2>3, <2>4
<1> QED
  BY <1>1, <1>2 DEF Asks, LateIsEarly

(* A question of a commit.                                                 *)
LEMMA AskAsks ==
  ASSUME Both, Goes, NEW js, Moves(js), Cardinality(Under(js)) < MaxJobs,
         NEW x \in Job, x.pc = "ask", jobs' = Append(js, x),
         x.edit \in DOMAIN edits, x.next \in Values(edits[x.edit].col),
         edits'[x.edit].pc \in Settled,
         x.late => edits[x.edit].cancelled = "early"
  PROVE  Asks /\ LateIsEarly
<1>1. /\ jobs' \in Seq(Job) /\ DOMAIN jobs' = DOMAIN jobs \cup {Len(jobs) + 1}
      /\ Cardinality(Under(jobs')) <= MaxJobs /\ jobs'[Len(jobs) + 1] = x
      /\ \A j \in DOMAIN jobs : jobs'[j] = js[j]
  BY AppendFits DEF Both, TypeInv
<1>2. ASSUME NEW j \in DOMAIN jobs
      PROVE  /\ jobs'[j].edit \in DOMAIN edits
             /\ jobs'[j].next \in Values(edits[jobs'[j].edit].col)
             /\ edits'[jobs'[j].edit].pc \in Settled
             /\ jobs'[j].late => edits[jobs'[j].edit].cancelled = "early"
  <2>1. PICK e \in DOMAIN edits : e = jobs[j].edit
    BY DEF Both, TypeInv, JobInv
  <2>2. /\ jobs[j].next \in Values(edits[e].col)
        /\ edits[e].pc \in Settled
        /\ jobs[j].late => edits[e].cancelled = "early"
    BY <2>1 DEF Both, TypeInv, JobInv, Settled, CancelInv, CancelledStaysCancelled
  <2>3. edits'[e].pc \in Settled
    BY <2>2 DEF Goes, Keeps
  <2>4. jobs'[j].edit = e /\ jobs'[j].next = jobs[j].next
        /\ jobs'[j].late = jobs[j].late
    BY <1>1, <2>1 DEF Moves, Moved
  <2> QED
    BY <2>2, <2>3, <2>4
<1> QED
  BY <1>1, <1>2 DEF Asks, LateIsEarly

-----------------------------------------------------------------------------
(* What a commit, a revert and a write do.                                 *)

(* One edit is written anew.                                               *)
LEMMA RewriteBears ==
  ASSUME TypeOK, NEW e \in DOMAIN edits, NEW x \in Edit, Alike(x, edits[e])
  PROVE  /\ Bears([edits EXCEPT ![e] = x])
         /\ DOMAIN [edits EXCEPT ![e] = x] = DOMAIN edits
         /\ [edits EXCEPT ![e] = x][e] = x
         /\ \A d \in DOMAIN edits \ {e} : [edits EXCEPT ![e] = x][d] = edits[d]
<1> DEFINE es == [edits EXCEPT ![e] = x]
           n == Len(edits)
<1>1. n \in Nat /\ DOMAIN edits = 1..n /\ edits \in [1..n -> Edit]
  BY EditsAre
<1>2. /\ es \in [1..n -> Edit] /\ DOMAIN es = DOMAIN edits /\ es[e] = x
      /\ \A d \in DOMAIN edits \ {e} : es[d] = edits[d]
  BY <1>1
<1>3. es \in Seq(Edit) /\ Len(es) = n
  BY <1>1, <1>2, SeqOf
<1>4. \A d \in DOMAIN edits : Alike(es[d], edits[d])
  BY <1>2 DEF Alike
<1> QED
  BY <1>2, <1>3, <1>4 DEF Bears

LEMMA SameBears ==
  ASSUME TypeOK
  PROVE  Bears(edits)
BY DEF TypeOK, Bears, Alike

(* Whatever is put in a cell, its widget is gone.                          *)
LEMMA ShowsGoes ==
  ASSUME TypeInv, NEW es, Bears(es), \A d \in DOMAIN edits : Keeps(es[d], edits[d]),
         NEW E \in SUBSET (DOMAIN edits), NEW put, DOMAIN put = E,
         \A d \in E : put[d] \in Values(edits[d].col),
         NEW f \in {0, focus}, Shows(put, es, f)
  PROVE  /\ Goes /\ Empties /\ Listens /\ Clears(E, put) /\ Lapses(es)
         /\ \A d \in E : ~In(d)'
<1>1. /\ Clears(E, put) /\ Lapses(es) /\ focus' \in {0, f}
      /\ (focus' # 0 => In(focus)')
  BY ShowsDoes
<1>2. /\ DOMAIN edits = 1..Len(edits) /\ edits \in [DOMAIN edits -> Edit]
      /\ Len(edits) \in Nat
  BY EditsAre DEF TypeInv
<1>3. Goes
  <2>1. edits' \in Seq(Edit) /\ Len(edits') = Len(edits)
    BY <1>1 DEF Lapses, Bears
  <2>2. ASSUME NEW d \in DOMAIN edits PROVE Keeps(edits'[d], edits[d])
    <3>1. /\ Lapsed(edits'[d], es[d]) /\ Alike(edits'[d], edits[d])
          /\ Keeps(es[d], edits[d])
      BY <1>1 DEF Lapses, Bears
    <3> QED
      BY <3>1 DEF Keeps, Lapsed, Settled
  <2> QED
    BY <2>1, <2>2 DEF Goes
<1>4. Empties
  <2>1. shown' \in [Row -> Slot]
    BY <1>1 DEF Clears
  <2> QED
    BY <1>1, <2>1 DEF Clears, Empties
<1>5. Listens
  <2>1. focus \in 0..Len(edits)
    BY DEF TypeInv, TypeOK
  <2> QED
    BY <1>1, <1>2, <2>1 DEF Listens
<1>6. ASSUME NEW d \in E, In(d)' PROVE FALSE
  <2>1. PICK r \in Row, c \in Col : edits[d].row = r /\ edits[d].col = c
    BY <1>2 DEF Edit
  <2>2. Alike(edits'[d], edits[d]) /\ d # 0
    BY <1>2, <1>3 DEF Goes, Keeps
  <2>3. shown'[r][c].edit = d /\ edits[d].attached
    BY <1>6, <2>1, <2>2 DEF In, Alike
  <2>4. d \in Of(E, r, c)
    BY <2>1, <2>3 DEF Of, Cell
  <2> QED
    BY <1>1, <2>2, <2>3, <2>4 DEF Clears
<1> QED
  BY <1>1, <1>3, <1>4, <1>5, <1>6

LEMMA RevertsGoes ==
  ASSUME TypeInv, NEW es, Bears(es), \A d \in DOMAIN edits : Keeps(es[d], edits[d]),
         NEW E \in SUBSET (DOMAIN edits), NEW f \in {0, focus}, Reverts(E, es, f)
  PROVE  /\ Goes /\ Empties /\ Listens
         /\ Clears(E, [d \in E |-> edits[d].original]) /\ Lapses(es)
         /\ \A d \in E : ~In(d)'
<1> DEFINE put == [d \in E |-> edits[d].original]
<1>1. DOMAIN put = E /\ \A d \in E : put[d] \in Values(edits[d].col)
  BY DEF TypeInv, EditInv
<1>2. Shows(put, es, f)
  BY DEF Reverts
<1> HIDE DEF put
<1>3. /\ Goes /\ Empties /\ Listens /\ Clears(E, put) /\ Lapses(es)
      /\ \A d \in E : ~In(d)'
  BY <1>1, <1>2, ShowsGoes
<1> QED
  BY <1>3 DEF put

(* The keyboard stays where it was, or goes, and no cell changes.          *)
LEMMA StaysListening ==
  ASSUME TypeInv, Goes, shown' = shown, focus' \in {0, focus}
  PROVE  Empties /\ Listens
<1>1. /\ DOMAIN edits = 1..Len(edits) /\ Len(edits) \in Nat
      /\ focus \in 0..Len(edits) /\ (focus # 0 => In(focus))
      /\ shown \in [Row -> Slot]
  BY EditsAre DEF TypeInv, TypeOK, Slot
<1>2. ASSUME focus' # 0 PROVE In(focus)'
  <2>1. PICK e \in DOMAIN edits : e = focus
    BY <1>1, <1>2
  <2>2. focus' = e /\ In(e) /\ Alike(edits'[e], edits[e])
    BY <1>1, <1>2, <2>1 DEF Goes, Keeps
  <2> QED
    BY <2>2 DEF In, Alike
<1> QED
  BY <1>1, <1>2 DEF Empties, Listens

LEMMA LapsedQuiet ==
  ASSUME NEW x, NEW y \in Edit, Lapsed(x, y), NEW z, Quiet(y, z)
  PROVE  Quiet(x, z)
BY DEF Lapsed, Quiet, Edit

(* The edit that commits.                                                  *)
Committing(e) == [edits[e] EXCEPT !.pc = IF @ = "over" THEN @ ELSE "committed",
                                  !.armed = FALSE]
Committed(e) == [edits EXCEPT ![e] = Committing(e)]

LEMMA CommittedBears ==
  ASSUME TypeInv, NEW e \in DOMAIN edits
  PROVE  /\ Committing(e) \in Edit /\ Bears(Committed(e))
         /\ Committed(e) = [edits EXCEPT
              ![e].pc = IF @ = "over" THEN @ ELSE "committed", ![e].armed = FALSE]
         /\ \A d \in DOMAIN edits : /\ Keeps(Committed(e)[d], edits[d])
                                    /\ Quiet(Committed(e)[d], edits[d])
         /\ DOMAIN Committed(e) = DOMAIN edits
         /\ Committed(e)[e] = Committing(e) /\ Committing(e).pc \in Settled
         /\ \A d \in DOMAIN edits \ {e} : Committed(e)[d] = edits[d]
<1>1. edits \in [DOMAIN edits -> Edit]
  BY EditsAre DEF TypeInv
<1>2. /\ Committing(e) \in Edit /\ Alike(Committing(e), edits[e])
      /\ Committing(e).pc \in Settled
      /\ Keeps(Committing(e), edits[e]) /\ Quiet(Committing(e), edits[e])
  BY <1>1 DEF Edit, Committing, Alike, Settled, Keeps, Quiet
<1>3. /\ Bears(Committed(e)) /\ DOMAIN Committed(e) = DOMAIN edits
      /\ Committed(e)[e] = Committing(e)
      /\ \A d \in DOMAIN edits \ {e} : Committed(e)[d] = edits[d]
  BY <1>2, RewriteBears DEF Committed, TypeInv
<1>4. \A d \in DOMAIN edits : Keeps(edits[d], edits[d]) /\ Quiet(edits[d], edits[d])
  BY DEF Keeps, Quiet, Alike
<1>5. Committed(e) = [edits EXCEPT
        ![e].pc = IF @ = "over" THEN @ ELSE "committed", ![e].armed = FALSE]
  BY <1>1 DEF Committed, Committing
<1> QED
  BY <1>2, <1>3, <1>4, <1>5

LEMMA CommitsDoes ==
  ASSUME Both, NEW e \in DOMAIN edits, edits[e].cancelled # "yes",
         NEW next \in Values(edits[e].col), NEW js, Moves(js),
         NEW f \in {0, focus}, Commits(e, next, js, f)
  PROVE  /\ Goes /\ Empties /\ Listens /\ Asks /\ LateIsEarly
         /\ \A d \in DOMAIN edits : Quiet(edits'[d], edits[d])
         /\ tangled' \in BOOLEAN
<1>0. TypeInv
  BY DEF Both
<1>1. /\ Bears(Committed(e)) /\ DOMAIN Committed(e) = DOMAIN edits
      /\ \A d \in DOMAIN edits : /\ Keeps(Committed(e)[d], edits[d])
                                 /\ Quiet(Committed(e)[d], edits[d])
      /\ Committed(e)[e].pc \in Settled
      /\ Committed(e) = [edits EXCEPT
              ![e].pc = IF @ = "over" THEN @ ELSE "committed", ![e].armed = FALSE]
  BY <1>0, CommittedBears
<1>2. CASE next = edits[e].original
  <2>1. /\ Reverts({e}, Committed(e), f) /\ jobs' = js
        /\ tangled' = (tangled \/ edits[e].pc \in {"committed", "over"})
    BY <1>1, <1>2 DEF Commits
  <2>2. Goes /\ Empties /\ Listens /\ Lapses(Committed(e))
    <3>1. PICK es, E : es = Committed(e) /\ E = {e}
      OBVIOUS
    <3>2. /\ Bears(es) /\ \A d \in DOMAIN edits : Keeps(es[d], edits[d])
          /\ E \in SUBSET (DOMAIN edits) /\ Reverts(E, es, f)
      BY <1>1, <2>1, <3>1
    <3>3. Goes /\ Empties /\ Listens /\ Lapses(es)
      BY <1>0, <3>2, RevertsGoes
    <3> QED
      BY <3>1, <3>3
  <2>3. \A d \in DOMAIN edits : Quiet(edits'[d], edits[d])
    BY <1>1, <2>2, LapsedQuiet, LenProperties DEF Lapses, Bears
  <2>4. Asks /\ LateIsEarly
    BY <2>1, <2>2, MovesAsk
  <2>5. tangled' \in BOOLEAN
    BY <1>0, <2>1 DEF TypeInv, TypeOK
  <2> QED
    BY <2>2, <2>3, <2>4, <2>5
<1>3. CASE next # edits[e].original
  <2> DEFINE x == [edit |-> e, next |-> next, pk |-> rows[edits[e].row].key,
                   late |-> edits[e].cancelled # "no", pc |-> "ask"]
  <2>1. /\ Cardinality(Under(js)) < MaxJobs /\ jobs' = Append(js, x)
        /\ edits' = Committed(e) /\ focus' = f /\ shown' = shown
        /\ tangled' = (\/ tangled \/ edits[e].pc \in {"committed", "over"}
                       \/ Meets(edits[e].row, edits[e].col))
    BY <1>1, <1>3 DEF Commits
  <2>2. Goes
    BY <1>1, <2>1 DEF Goes, Bears
  <2>3. Empties /\ Listens
    BY <1>0, <2>1, <2>2, StaysListening
  <2>4. x \in Job
    <3>1. /\ edits[e] \in Edit /\ e \in 1..MaxEdits
          /\ rows \in [Row -> [key : Key, val : Val]]
      BY <1>0, EditsAre DEF TypeInv, TypeOK
    <3>2. next \in Key \cup Val /\ rows[edits[e].row].key \in Key
      BY <3>1 DEF Values, Edit
    <3> QED
      BY <3>1, <3>2 DEF Job, Ids
  <2>5. edits[e].cancelled # "no" => edits[e].cancelled = "early"
    BY <1>0, EditsAre DEF TypeInv, Edit
  <2>6. x.edit = e /\ x.next = next /\ x.pc = "ask"
        /\ x.late = (edits[e].cancelled # "no")
    OBVIOUS
  <2> HIDE DEF x
  <2>7. Asks /\ LateIsEarly
    BY <1>1, <2>1, <2>2, <2>4, <2>5, <2>6, AskAsks
  <2>8. tangled' \in BOOLEAN
    BY <1>0, <2>1 DEF TypeInv, TypeOK, Meets
  <2> QED
    BY <1>1, <2>1, <2>2, <2>3, <2>7, <2>8
<1> QED
  BY <1>2, <1>3

-----------------------------------------------------------------------------
(* Every action keeps the types, and what was cancelled cancelled.         *)

LEMMA StepBoth ==
  ASSUME Both, Goes, Empties, Listens, Asks, LateIsEarly, RestTyped',
         \A e \in DOMAIN edits : Quiet(edits'[e], edits[e]) \/ Ends(e)
  PROVE  Both'
BY StepTyped, StepCancels DEF Both

(* One that was cancelled hears nothing.                                   *)
LEMMA NotCancelled ==
  ASSUME Both, NEW e \in DOMAIN edits,
         Hears(e) \/ edits[e].pc \in {"open", "removed"}
  PROVE  edits[e].cancelled = "no"
<1>1. e \in 1..Len(edits) /\ edits[e] \in Edit
  BY EditsAre DEF Both, TypeInv
<1>2. focus = e => In(e)
  BY <1>1 DEF Both, TypeInv, TypeOK
<1>3. edits[e].cancelled # "no" => edits[e].pc = "over" /\ ~In(e)
  BY DEF Both, CancelInv
<1> QED
  BY <1>1, <1>2, <1>3 DEF Hears

LEMMA CommitBoth ==
  ASSUME Both, NEW e \in DOMAIN edits, edits[e].cancelled # "yes",
         NEW next \in Values(edits[e].col), NEW js, Moves(js),
         NEW f \in {0, focus}, Commits(e, next, js, f),
         UNCHANGED <<kind, rows, drawn, search, table, faults, stale>>
  PROVE  Both'
<1>1. /\ Goes /\ Empties /\ Listens /\ Asks /\ LateIsEarly
      /\ \A d \in DOMAIN edits : Quiet(edits'[d], edits[d])
      /\ tangled' \in BOOLEAN
  BY CommitsDoes
<1>2. RestTyped'
  BY <1>1 DEF RestTyped, Both, TypeInv, TypeOK
<1> QED
  BY <1>1, <1>2, StepBoth

(* Nothing of the edits and cells changes.                                 *)
LEMMA AsideBoth ==
  ASSUME Both, edits' = edits, shown' = shown, focus' \in {0, focus},
         Moves(jobs'), RestTyped'
  PROVE  Both'
<1>1. Goes
  BY DEF Goes, Keeps, Alike, Both, TypeInv, TypeOK
<1>2. Empties /\ Listens
  BY <1>1, StaysListening DEF Both
<1>3. Asks /\ LateIsEarly
  BY <1>1, MovesAsk
<1>4. \A d \in DOMAIN edits : Quiet(edits'[d], edits[d])
  BY DEF Quiet
<1> QED
  BY <1>1, <1>2, <1>3, <1>4, StepBoth

(* Cells get values back, updates move on, and nothing else.               *)
LEMMA ShowBoth ==
  ASSUME Both, NEW E \in SUBSET (DOMAIN edits), NEW put, DOMAIN put = E,
         \A d \in E : put[d] \in Values(edits[d].col),
         Shows(put, edits, focus), Moves(jobs'), RestTyped'
  PROVE  Both'
<1>1. Bears(edits) /\ \A d \in DOMAIN edits : Keeps(edits[d], edits[d])
  BY SameBears DEF Both, TypeInv, Keeps, Alike
<1>2. Goes /\ Empties /\ Listens /\ Lapses(edits)
  BY <1>1, ShowsGoes DEF Both
<1>3. \A d \in DOMAIN edits : Quiet(edits'[d], edits[d])
  <2>1. \A d \in DOMAIN edits : edits[d] \in Edit /\ Quiet(edits[d], edits[d])
    BY EditsAre DEF Both, TypeInv, Quiet
  <2> QED
    BY <1>2, <2>1, LapsedQuiet DEF Lapses
<1>4. Asks /\ LateIsEarly
  BY <1>2, MovesAsk
<1> QED
  BY <1>2, <1>3, <1>4, StepBoth

LEMMA BackBoth ==
  ASSUME Both, NEW E \in SUBSET (DOMAIN edits), Reverts(E, edits, focus),
         Moves(jobs'), RestTyped'
  PROVE  Both'
<1> DEFINE put == [d \in E |-> edits[d].original]
<1>1. DOMAIN put = E /\ \A d \in E : put[d] \in Values(edits[d].col)
  BY DEF Both, TypeInv, EditInv
<1>2. Shows(put, edits, focus)
  BY DEF Reverts
<1> HIDE DEF put
<1> QED
  BY <1>1, <1>2, ShowBoth

LEMMA DialogsEdits ==
  ASSUME TypeInv
  PROVE  {jobs[j].edit : j \in Dialogs} \in SUBSET (DOMAIN edits)
BY DEF TypeInv, JobInv, Dialogs

(* An edit that ends, with the dialogs that were asked.                    *)
LEMMA EndBoth ==
  ASSUME Both, NEW e \in DOMAIN edits, edits[e].cancelled = "no",
         NEW armed \in BOOLEAN, armed => edits[e].kind = "date" /\ edits[e].frame,
         NEW E \in SUBSET (DOMAIN edits), e \in E,
         Reverts(E, [edits EXCEPT ![e] =
           [edits[e] EXCEPT !.pc = "over", !.cancelled = When(e), !.armed = armed]],
           focus),
         Moves(jobs'), RestTyped'
  PROVE  Both'
<1> DEFINE x == [edits[e] EXCEPT !.pc = "over", !.cancelled = When(e), !.armed = armed]
           es == [edits EXCEPT ![e] = x]
<1>1. edits[e] \in Edit /\ edits \in [DOMAIN edits -> Edit]
  BY EditsAre DEF Both, TypeInv
<1>2. /\ x \in Edit /\ Alike(x, edits[e]) /\ Keeps(x, edits[e])
      /\ x.pc = "over" /\ x.cancelled \in {"early", "yes"} /\ x.armed = armed
      /\ x.cancelled = "yes" => ~x.frame
      /\ x.kind = edits[e].kind /\ x.frame = edits[e].frame
  BY <1>1 DEF Edit, Alike, Keeps, Settled, When
<1> HIDE DEF x
<1>3. /\ Bears(es) /\ es[e] = x
      /\ \A d \in DOMAIN edits \ {e} : es[d] = edits[d]
  BY <1>2, RewriteBears DEF Both, TypeInv
<1>4. Reverts(E, es, focus)
  BY DEF x
<1> HIDE DEF es
<1>5. \A d \in DOMAIN edits : Keeps(es[d], edits[d])
  BY <1>2, <1>3 DEF Keeps, Alike
<1>6. Goes /\ Empties /\ Listens /\ Lapses(es) /\ ~In(e)'
  BY <1>3, <1>4, <1>5, RevertsGoes DEF Both
<1>7. ASSUME NEW d \in DOMAIN edits PROVE Quiet(edits'[d], edits[d]) \/ Ends(d)
  <2>1. Lapsed(edits'[d], es[d])
    BY <1>6 DEF Lapses
  <2>2. CASE d = e
    <3>1. edits'[e] = x
      BY <1>2, <1>3, <2>1, <2>2 DEF Lapsed
    <3>2. /\ edits'[e].armed => edits'[e].kind = "date"
          /\ edits'[e].cancelled = "yes" => ~edits'[e].frame /\ ~edits'[e].armed
      BY <1>2, <3>1
    <3> QED
      BY <1>2, <1>6, <2>2, <3>1, <3>2 DEF Ends
  <2>3. CASE d # e
    <3>1. es[d] = edits[d] /\ edits[d] \in Edit
      BY <1>1, <1>3, <2>3
    <3> QED
      BY <2>1, <3>1, LapsedQuiet DEF Quiet
  <2> QED
    BY <2>2, <2>3
<1>8. Asks /\ LateIsEarly
  BY <1>6, MovesAsk
<1> QED
  BY <1>6, <1>7, <1>8, StepBoth

Rest == UNCHANGED <<kind, rows, drawn, search, table, faults, stale, tangled>>

LEMMA RestStays ==
  ASSUME Both, Rest
  PROVE  RestTyped'
BY DEF Rest, RestTyped, Both, TypeInv, TypeOK

LEMMA EnterBoth ==
  ASSUME Both, NEW e \in DOMAIN edits, Enter(e)
  PROVE  Both'
<1>1. PICK v \in Values(edits[e].col) : Commits(e, v, Confirmed, focus)
  BY DEF Enter
<1>2. edits[e].cancelled # "yes"
  BY NotCancelled DEF Enter
<1>3. Moves(Confirmed)
  BY AnswersMove DEF Confirmed, Both, TypeInv
<1> QED
  BY <1>1, <1>2, <1>3, CommitBoth DEF Enter

LEMMA BlurBoth ==
  ASSUME Both, NEW e \in DOMAIN edits, Blur(e)
  PROVE  Both'
<1>1. Moves(jobs)
  BY StaysMoved DEF Both, TypeInv
<1>2. CASE edits[e].kind = "text" /\ edits[e].pc = "open"
  <2>1. PICK v \in Values(edits[e].col) : Commits(e, v, jobs, 0)
    BY <1>2 DEF Blur
  <2>2. edits[e].cancelled # "yes"
    BY <1>2, NotCancelled
  <2> QED
    BY <1>1, <2>1, <2>2, CommitBoth DEF Blur
<1>3. CASE ~(edits[e].kind = "text" /\ edits[e].pc = "open")
  <2>1. focus' = 0 /\ edits' = edits /\ jobs' = jobs /\ shown' = shown /\ Rest
    BY <1>3 DEF Blur, Rest
  <2> QED
    BY <1>1, <2>1, RestStays, AsideBoth
<1> QED
  BY <1>2, <1>3

LEMMA BlurLateBoth ==
  ASSUME Both, NEW e \in DOMAIN edits, BlurLate(e)
  PROVE  Both'
<1>1. Moves(jobs) /\ edits[e].cancelled = "no" /\ edits[e].pc = "removed"
  BY StaysMoved, NotCancelled DEF Both, TypeInv, BlurLate
<1>2. CASE \E v \in Values(edits[e].col) \ {edits[e].original} :
             Commits(e, v, jobs, focus)
  BY <1>1, <1>2, CommitBoth DEF BlurLate
<1>3. CASE /\ edits' = [edits EXCEPT ![e].pc = "over"]
           /\ UNCHANGED <<jobs, shown, focus, tangled>>
  <2> DEFINE x == [edits[e] EXCEPT !.pc = "over"]
  <2>1. edits[e] \in Edit /\ edits' = [edits EXCEPT ![e] = x]
    BY <1>3, EditsAre DEF Both, TypeInv
  <2>2. x \in Edit /\ Alike(x, edits[e]) /\ Keeps(x, edits[e]) /\ Quiet(x, edits[e])
    BY <2>1 DEF Edit, Alike, Keeps, Settled, Quiet
  <2> HIDE DEF x
  <2>3. /\ Bears(edits') /\ edits'[e] = x
        /\ \A d \in DOMAIN edits \ {e} : edits'[d] = edits[d]
    BY <2>1, <2>2, RewriteBears DEF Both, TypeInv
  <2>4. \A d \in DOMAIN edits : /\ Keeps(edits'[d], edits[d])
                                /\ Quiet(edits'[d], edits[d])
    BY <2>2, <2>3 DEF Keeps, Alike, Quiet
  <2>5. Goes
    BY <2>3, <2>4 DEF Goes, Bears
  <2>6. Empties /\ Listens
    BY <1>3, <2>5, StaysListening DEF Both
  <2>7. Asks /\ LateIsEarly
    BY <1>1, <1>3, <2>5, MovesAsk
  <2>8. RestTyped'
    BY <1>3, RestStays DEF BlurLate, Rest
  <2> QED
    BY <2>4, <2>5, <2>6, <2>7, <2>8, StepBoth
<1> QED
  BY <1>2, <1>3 DEF BlurLate

LEMMA ClickAwayBoth ==
  ASSUME Both, NEW e \in DOMAIN edits, ClickAway(e)
  PROVE  Both'
<1>1. Moves(jobs) /\ edits[e].cancelled # "yes"
  BY StaysMoved DEF Both, TypeInv, CancelInv, ClickAway
<1>2. PICK v \in Values(edits[e].col) : Commits(e, v, jobs, focus)
  BY DEF ClickAway
<1> QED
  BY <1>1, <1>2, CommitBoth DEF ClickAway

LEMMA PickBoth ==
  ASSUME Both, NEW e \in DOMAIN edits, Pick(e)
  PROVE  Both'
<1>1. Moves(jobs) /\ edits[e].cancelled # "yes"
  BY StaysMoved, NotCancelled DEF Both, TypeInv, Pick, MenuOpen
<1>2. PICK v \in Values(edits[e].col) : Commits(e, v, jobs, focus)
  BY DEF Pick
<1> QED
  BY <1>1, <1>2, CommitBoth DEF Pick

LEMMA FrameBoth ==
  ASSUME Both, NEW e \in DOMAIN edits, Frame(e)
  PROVE  Both'
<1> DEFINE x == [edits[e] EXCEPT !.frame = FALSE, !.armed = edits[e].kind = "date"]
<1>1. /\ edits[e] \in Edit /\ edits' = [edits EXCEPT ![e] = x]
      /\ edits[e].frame
  BY EditsAre DEF Both, TypeInv, Frame
<1>2. /\ x \in Edit /\ Alike(x, edits[e]) /\ Keeps(x, edits[e])
      /\ x.cancelled = edits[e].cancelled /\ x.pc = edits[e].pc
      /\ x.kind = edits[e].kind /\ x.armed = (edits[e].kind = "date")
  BY <1>1 DEF Edit, Alike, Keeps, Settled
<1> HIDE DEF x
<1>3. /\ Bears(edits') /\ edits'[e] = x
      /\ \A d \in DOMAIN edits \ {e} : edits'[d] = edits[d]
  BY <1>1, <1>2, RewriteBears DEF Both, TypeInv
<1>4. Goes
  BY <1>2, <1>3 DEF Goes, Bears, Keeps, Alike
<1>5. Empties /\ Listens
  BY <1>4, StaysListening DEF Both, Frame
<1>6. Asks /\ LateIsEarly
  BY <1>4, MovesAsk, StaysMoved DEF Both, TypeInv, Frame
<1>7. TypeInv'
  BY <1>4, <1>5, <1>6, RestStays, StepTyped DEF Both, Frame, Rest
<1>8. CancelInv'
  <2>1. DOMAIN edits' = DOMAIN edits
    BY <1>4, LenProperties DEF Goes, Both, TypeInv, TypeOK
  <2>2. ASSUME NEW d \in DOMAIN edits
        PROVE  /\ edits'[d].cancelled # "no" => edits'[d].pc = "over" /\ ~In(d)'
               /\ edits'[d].cancelled = "yes" => ~edits'[d].frame /\ ~edits'[d].armed
               /\ edits'[d].armed => edits'[d].kind = "date"
    <3>1. /\ edits[d].cancelled # "no" => edits[d].pc = "over" /\ ~In(d)
          /\ edits[d].cancelled = "yes" => ~edits[d].frame /\ ~edits[d].armed
          /\ edits[d].armed => edits[d].kind = "date"
      BY DEF Both, CancelInv
    <3>2. In(d)' => In(d)
      BY <1>4, <1>5, StaysOut DEF Both
    <3>3. CASE d = e
      BY <1>1, <1>2, <1>3, <3>1, <3>2, <3>3
    <3>4. CASE d # e
      BY <1>3, <3>1, <3>2, <3>4
    <3> QED
      BY <3>3, <3>4
  <2>3. ASSUME NEW j \in DOMAIN jobs, jobs[j].late
        PROVE  edits'[jobs[j].edit].cancelled = "early"
    <3>1. PICK d \in DOMAIN edits : d = jobs[j].edit
      BY DEF Both, TypeInv, JobInv
    <3>2. edits[d].cancelled = "early"
      BY <2>3, <3>1 DEF Both, CancelInv, CancelledStaysCancelled
    <3> QED
      BY <1>2, <1>3, <3>1, <3>2
  <2>4. jobs' = jobs
    BY DEF Frame
  <2> QED
    BY <2>1, <2>2, <2>3, <2>4 DEF CancelInv, CancelledStaysCancelled
<1> QED
  BY <1>7, <1>8 DEF Both

LEMMA EscapeBoth ==
  ASSUME Both, NEW e \in DOMAIN edits, Escape(e)
  PROVE  Both'
<1> DEFINE x == [edits[e] EXCEPT !.pc = "over", !.cancelled = When(e), !.armed = FALSE]
           E == {jobs[j].edit : j \in Dialogs} \cup {e}
<1>1. /\ edits \in [DOMAIN edits -> Edit] /\ edits[e].cancelled = "no"
      /\ Moves(jobs') /\ E \in SUBSET (DOMAIN edits)
  BY EditsAre, NotCancelled, AnswersMove, DialogsEdits
     DEF Both, TypeInv, Escape, Declined
<1>2. [edits EXCEPT ![e].pc = "over", ![e].cancelled = When(e), ![e].armed = FALSE]
        = [edits EXCEPT ![e] = x]
  BY <1>1 DEF When
<1>3. Reverts(E, [edits EXCEPT ![e] = x], focus)
  BY <1>2 DEF Escape
<1>4. RestTyped'
  BY RestStays DEF Escape, Rest
<1> HIDE DEF E
<1> QED
  BY <1>1, <1>3, <1>4, EndBoth, e \in E DEF E

LEMMA DismissBoth ==
  ASSUME Both, NEW e \in DOMAIN edits, Dismiss(e)
  PROVE  Both'
<1> DEFINE x == [edits[e] EXCEPT !.pc = "over", !.cancelled = When(e), !.armed = FALSE]
<1>1. /\ edits \in [DOMAIN edits -> Edit] /\ edits[e] \in Edit
      /\ edits[e].cancelled = "no" /\ Moves(jobs')
  BY EditsAre, NotCancelled, StaysMoved DEF Both, TypeInv, Dismiss, MenuOpen
<1>2. edits[e].armed = FALSE
  BY <1>1 DEF Both, CancelInv, Dismiss, MenuOpen, Edit
<1>3. [edits EXCEPT ![e].pc = "over", ![e].cancelled = When(e)]
        = [edits EXCEPT ![e] = x]
  BY <1>1, <1>2 DEF Edit
<1>4. Reverts({e}, [edits EXCEPT ![e] = x], focus)
  BY <1>3 DEF Dismiss
<1>5. RestTyped'
  BY RestStays DEF Dismiss, Rest
<1> QED
  BY <1>1, <1>4, <1>5, EndBoth

LEMMA RefocusBoth ==
  ASSUME Both, NEW e \in DOMAIN edits, Refocus(e)
  PROVE  Both'
<1>1. /\ edits' = edits /\ shown' = shown /\ jobs' = jobs /\ focus' = e
      /\ In(e) /\ Rest
  BY DEF Refocus, Rest
<1>2. Goes
  BY <1>1 DEF Goes, Keeps, Alike, Both, TypeInv, TypeOK
<1>3. Empties /\ Listens
  <2>1. shown \in [Row -> Slot] /\ e \in 0..Len(edits)
    BY EditsAre DEF Both, TypeInv, TypeOK, Slot
  <2>2. In(focus)'
    BY <1>1 DEF In
  <2> QED
    BY <1>1, <2>1, <2>2 DEF Empties, Listens
<1>4. Asks /\ LateIsEarly
  BY <1>1, <1>2, StaysMoved, MovesAsk DEF Both, TypeInv
<1>5. \A d \in DOMAIN edits : Quiet(edits'[d], edits[d])
  BY <1>1 DEF Quiet
<1> QED
  BY <1>1, <1>2, <1>3, <1>4, <1>5, RestStays, StepBoth

LEMMA ClickBoth ==
  ASSUME Both, Click
  PROVE  Both'
<1>1. Rest
  BY DEF Click, Rest
<1>2. PICK j : j = Latest(Dialogs)
  OBVIOUS
<1>3. j \in Dialogs
  <2>1. DOMAIN jobs = 1..Len(jobs) /\ Len(jobs) \in Nat
    BY EditsAre DEF Both, TypeInv
  <2>2. Dialogs \in SUBSET (1..Len(jobs)) /\ Dialogs # {}
    BY <2>1 DEF Dialogs, Click
  <2> QED
    BY <1>2, <2>1, <2>2, GreatestNatural
<1>4. j \in DOMAIN jobs /\ jobs[j].pc # "done"
  BY <1>3 DEF Dialogs
<1>5. CASE jobs' = [jobs EXCEPT ![j].pc = "post"] /\ UNCHANGED <<shown, edits, focus>>
  <2>1. Moves(jobs')
    BY <1>4, <1>5, MovesOne DEF Both, TypeInv
  <2> QED
    BY <1>1, <1>5, <2>1, RestStays, AsideBoth
<1>6. CASE jobs' = [jobs EXCEPT ![j].pc = "done"] /\ Reverts({jobs[j].edit}, edits, focus)
  <2>1. Moves(jobs')
    BY <1>4, <1>6, MovesOne DEF Both, TypeInv
  <2>2. {jobs[j].edit} \in SUBSET (DOMAIN edits)
    BY <1>4 DEF Both, TypeInv, JobInv
  <2> QED
    BY <1>1, <1>6, <2>1, <2>2, RestStays, BackBoth
<1> QED
  BY <1>2, <1>5, <1>6 DEF Click

LEMMA PressBoth ==
  ASSUME Both, Press
  PROVE  Both'
<1>1. Rest
  BY DEF Press, Rest
<1>2. Moves(Confirmed) /\ Moves(Declined)
  BY AnswersMove DEF Both, TypeInv, Confirmed, Declined
<1>3. CASE jobs' = Confirmed /\ UNCHANGED <<shown, edits, focus>>
  BY <1>1, <1>2, <1>3, RestStays, AsideBoth
<1>4. CASE jobs' = Declined /\ Reverts({jobs[j].edit : j \in Dialogs}, edits, focus)
  BY <1>1, <1>2, <1>4, DialogsEdits, RestStays, BackBoth DEF Both
<1> QED
  BY <1>3, <1>4 DEF Press

LEMMA OthersBoth ==
  ASSUME Both, Others
  PROVE  Both'
<1>1. /\ edits' = edits /\ shown' = shown /\ focus' = focus /\ jobs' = jobs
      /\ Moves(jobs')
  BY StaysMoved DEF Others, Both, TypeInv
<1>2. PICK k \in Key : table' = [table EXCEPT ![k].live = FALSE]
  BY DEF Others
<1>3. table' \in [Key -> [live : BOOLEAN, val : Val]]
  BY <1>2 DEF Both, TypeInv, TypeOK
<1>4. faults' \subseteq {"lost", "deleted"} /\ Cardinality(faults') <= MaxFaults
  <2>1. /\ "deleted" \notin faults /\ faults' = faults \cup {"deleted"}
        /\ Cardinality(faults) < MaxFaults /\ faults \subseteq {"lost", "deleted"}
    BY DEF Others, Fault, Both, TypeInv, TypeOK
  <2>2. IsFiniteSet({"lost", "deleted"})
    <3>1. IsFiniteSet({"lost"})
      BY FS_Singleton
    <3> QED
      BY <3>1, FS_AddElement, {"lost", "deleted"} = {"lost"} \cup {"deleted"}
  <2>3. IsFiniteSet(faults)
    BY <2>1, <2>2, FS_Subset
  <2>4. Cardinality(faults') = Cardinality(faults) + 1
    BY <2>1, <2>3, FS_AddElement
  <2>5. Cardinality(faults) \in Nat /\ MaxFaults \in Nat
    BY <2>3, FS_CardinalityType, CellEditAssumption DEF CellEditAssumption
  <2> QED
    BY <2>1, <2>4, <2>5
<1>5. RestTyped'
  BY <1>3, <1>4 DEF Others, RestTyped, Both, TypeInv, TypeOK
<1> QED
  BY <1>1, <1>5, AsideBoth

LEMMA LoseBoth ==
  ASSUME Both, NEW j \in DOMAIN jobs, Lose(j)
  PROVE  Both'
<1>1. /\ edits' = edits /\ shown' = shown /\ focus' = focus /\ Moves(jobs')
  BY MovesOne DEF Lose, Both, TypeInv
<1>2. faults' \subseteq {"lost", "deleted"} /\ Cardinality(faults') <= MaxFaults
  <2>1. /\ "lost" \notin faults /\ faults' = faults \cup {"lost"}
        /\ Cardinality(faults) < MaxFaults /\ faults \subseteq {"lost", "deleted"}
    BY DEF Lose, Fault, Both, TypeInv, TypeOK
  <2>2. IsFiniteSet({"lost", "deleted"})
    <3>1. IsFiniteSet({"lost"})
      BY FS_Singleton
    <3> QED
      BY <3>1, FS_AddElement, {"lost", "deleted"} = {"lost"} \cup {"deleted"}
  <2>3. IsFiniteSet(faults)
    BY <2>1, <2>2, FS_Subset
  <2>4. Cardinality(faults') = Cardinality(faults) + 1
    BY <2>1, <2>3, FS_AddElement
  <2>5. Cardinality(faults) \in Nat /\ MaxFaults \in Nat
    BY <2>3, FS_CardinalityType, CellEditAssumption DEF CellEditAssumption
  <2> QED
    BY <2>1, <2>4, <2>5
<1>3. RestTyped'
  BY <1>2 DEF Lose, RestTyped, Both, TypeInv, TypeOK
<1> QED
  BY <1>1, <1>3, AsideBoth

(* The key of a row, and where the server has it, are keys.                *)
LEMMA JobFields ==
  ASSUME TypeInv, NEW j \in DOMAIN jobs
  PROVE  /\ jobs[j] \in Job /\ jobs[j].pk \in Key
         /\ jobs[j].edit \in DOMAIN edits /\ edits[jobs[j].edit] \in Edit
         /\ edits[jobs[j].edit].row \in Row
         /\ edits[jobs[j].edit].col \in Col
         /\ edits[jobs[j].edit].col = "key" => jobs[j].next \in Key
         /\ edits[jobs[j].edit].col = "val" => jobs[j].next \in Val
<1>1. jobs[j] \in Job /\ edits \in [DOMAIN edits -> Edit]
  BY EditsAre DEF TypeInv
<1>2. jobs[j].edit \in DOMAIN edits
      /\ jobs[j].next \in Values(edits[jobs[j].edit].col)
  BY DEF TypeInv, JobInv
<1> QED
  BY <1>1, <1>2 DEF Job, Edit, Values, Col

LEMMA ServeBoth ==
  ASSUME Both, NEW j \in DOMAIN jobs, Serve(j)
  PROVE  Both'
<1>1. /\ edits' = edits /\ shown' = shown /\ focus' = focus
      /\ jobs[j].pc = "post"
      /\ \E pc \in {"none", "ok", "error"} : jobs' = [jobs EXCEPT ![j].pc = pc]
  BY DEF Serve
<1>2. Moves(jobs')
  <2>1. PICK pc \in {"none", "ok", "error"} : jobs' = [jobs EXCEPT ![j].pc = pc]
    BY <1>1
  <2>2. pc \in {"post", "ok", "none", "error", "done"} /\ jobs[j].pc # "done"
    BY <1>1
  <2> QED
    BY <2>1, <2>2, MovesOne DEF Both, TypeInv
<1>3. table' \in [Key -> [live : BOOLEAN, val : Val]]
  <2>1. /\ jobs[j].pk \in Key
        /\ edits[jobs[j].edit].col = "key" => jobs[j].next \in Key
        /\ edits[jobs[j].edit].col = "val" => jobs[j].next \in Val
    BY JobFields DEF Both
  <2>2. table \in [Key -> [live : BOOLEAN, val : Val]]
    BY DEF Both, TypeInv, TypeOK
  <2>3. \/ table' = table
        \/ /\ edits[jobs[j].edit].col = "val"
           /\ table' = [table EXCEPT ![jobs[j].pk].val = jobs[j].next]
        \/ /\ edits[jobs[j].edit].col = "key"
           /\ table' = [table EXCEPT ![jobs[j].pk].live = FALSE,
                                     ![jobs[j].next] = table[jobs[j].pk]]
    BY DEF Serve
  <2> QED
    BY ZenonT(40), <2>1, <2>2, <2>3
<1>4. RestTyped'
  BY <1>3 DEF Serve, RestTyped, Both, TypeInv, TypeOK
<1> QED
  BY <1>1, <1>2, <1>4, AsideBoth

LEMMA LandBoth ==
  ASSUME Both, NEW j \in DOMAIN jobs, Land(j)
  PROVE  Both'
<1>1. Moves(jobs')
  BY MovesOne DEF Land, Both, TypeInv
<1>2. PICK e \in DOMAIN edits : e = jobs[j].edit
  BY JobFields DEF Both
<1>3. /\ edits[e].row \in Row /\ edits[e].col \in Col
      /\ jobs[j].next \in Values(edits[e].col)
      /\ edits[e].col = "key" => jobs[j].next \in Key
      /\ edits[e].col = "val" => jobs[j].next \in Val
  BY <1>2, JobFields DEF Both, TypeInv, JobInv
<1>4. CASE jobs[j].pc = "ok"
  <2>1. /\ rows' = [rows EXCEPT ![edits[e].row][edits[e].col] = jobs[j].next]
        /\ Shows([d \in {e} |-> jobs[j].next], edits, focus)
        /\ stale' = IF edits[e].attached THEN stale ELSE stale \cup {Cell(e)}
    BY <1>2, <1>4 DEF Land
  <2>2. rows' \in [Row -> [key : Key, val : Val]]
    BY <1>3, <2>1 DEF Both, TypeInv, TypeOK, Col
  <2>3. stale' \subseteq Row \X Col
    BY <1>3, <2>1 DEF Both, TypeInv, TypeOK, Cell
  <2>4. RestTyped'
    BY <2>2, <2>3 DEF Land, RestTyped, Both, TypeInv, TypeOK
  <2>6. PICK put : put = [d \in {e} |-> jobs[j].next]
    OBVIOUS
  <2>7. /\ DOMAIN put = {e} /\ \A d \in {e} : put[d] \in Values(edits[d].col)
        /\ Shows(put, edits, focus)
    BY <1>3, <2>1, <2>6
  <2> QED
    BY <1>1, <2>4, <2>7, ShowBoth
<1>5. CASE jobs[j].pc # "ok"
  <2>1. Reverts({e}, edits, focus) /\ rows' = rows /\ stale' = stale
    BY <1>2, <1>5 DEF Land
  <2>2. RestTyped'
    BY <2>1 DEF Land, RestTyped, Both, TypeInv, TypeOK
  <2> QED
    BY <1>1, <2>1, <2>2, BackBoth
<1> QED
  BY <1>4, <1>5

LEMMA SearchBoth ==
  ASSUME Both, Search
  PROVE  Both'
<1>1. RestTyped' /\ Moves(jobs')
  BY StaysMoved DEF Search, RestTyped, Both, TypeInv, TypeOK
<1> QED
  BY <1>1, AsideBoth DEF Search

(* The cells as a redraw leaves them.                                      *)
LEMMA DrawnIs ==
  ASSUME NEW rs \in [Row -> [key : Key, val : Val]]
  PROVE  /\ Drawn(rs) \in [Row -> Slot]
         /\ \A r \in Row, c \in Col : /\ Drawn(rs)[r][c].edit = 0
                                      /\ Drawn(rs)[r][c].val = rs[r][c]
<1>1. 0 \in 0..MaxEdits
  BY CellEditAssumption DEF CellEditAssumption
<1> QED
  BY <1>1 DEF Drawn, Slot, Col

(* A redraw: every edit that was there is out of the page.                 *)
LEMMA RedrawDoes ==
  ASSUME Both, Redraw
  PROVE  /\ edits' \in Seq(Edit) /\ Len(edits') = Len(edits)
         /\ DOMAIN edits' = DOMAIN edits
         /\ \A e \in DOMAIN edits : edits'[e].attached = FALSE
         /\ \A e \in DOMAIN edits : \E x \in Edit :
              Lapsed(x, edits[e]) /\ edits'[e] = [x EXCEPT !.attached = FALSE]
<1> DEFINE gone == Removed(edits, DOMAIN edits)
           n == Len(edits)
<1>1. n \in Nat /\ DOMAIN edits = 1..n /\ edits \in [1..n -> Edit]
  BY EditsAre DEF Both, TypeInv
<1>2. /\ gone \in Seq(Edit) /\ Len(gone) = n
      /\ \A e \in DOMAIN edits : Lapsed(gone[e], edits[e])
  BY SameBears, RemovedBears DEF Both, TypeInv
<1>3. DOMAIN gone = 1..n /\ gone \in [1..n -> Edit]
  BY <1>1, <1>2, LenProperties
<1>4. edits' = [e \in 1..n |-> [gone[e] EXCEPT !.attached = FALSE]]
  BY <1>1 DEF Redraw
<1> HIDE DEF gone, n
<1>5. edits' \in [1..n -> Edit] /\ \A e \in 1..n : edits'[e].attached = FALSE
  BY ZenonT(40), <1>3, <1>4 DEF Edit
<1>6. edits' \in Seq(Edit) /\ Len(edits') = n /\ DOMAIN edits' = 1..n
  BY <1>1, <1>5, SeqOf
<1>7. ASSUME NEW e \in DOMAIN edits
      PROVE  \E x \in Edit :
               Lapsed(x, edits[e]) /\ edits'[e] = [x EXCEPT !.attached = FALSE]
  <2>1. gone[e] \in Edit /\ Lapsed(gone[e], edits[e])
        /\ edits'[e] = [gone[e] EXCEPT !.attached = FALSE]
    BY <1>1, <1>2, <1>3, <1>4
  <2> QED
    BY <2>1
<1> QED
  BY <1>1, <1>5, <1>6, <1>7 DEF n

LEMMA RedrawBoth ==
  ASSUME Both, Redraw
  PROVE  Both'
<1>1. /\ edits' \in Seq(Edit) /\ Len(edits') = Len(edits)
      /\ DOMAIN edits' = DOMAIN edits
      /\ \A e \in DOMAIN edits : edits'[e].attached = FALSE
      /\ \A e \in DOMAIN edits : \E x \in Edit :
           Lapsed(x, edits[e]) /\ edits'[e] = [x EXCEPT !.attached = FALSE]
  BY RedrawDoes
<1>2. /\ TypeOK /\ EditInv /\ JobInv /\ CancelInv /\ jobs' = jobs
  BY DEF Both, TypeInv, Redraw
<1>3. ASSUME NEW e \in DOMAIN edits
      PROVE  /\ edits'[e].col = edits[e].col /\ edits'[e].original = edits[e].original
             /\ edits[e].pc \in Settled => edits'[e].pc = edits[e].pc
             /\ edits'[e].cancelled = edits[e].cancelled /\ edits'[e].kind = edits[e].kind
             /\ edits'[e].frame = edits[e].frame /\ edits'[e].armed = edits[e].armed
  <2>1. PICK x \in Edit : Lapsed(x, edits[e])
                          /\ edits'[e] = [x EXCEPT !.attached = FALSE]
    BY <1>1
  <2>2. edits[e] \in Edit
    BY <1>2, EditsAre
  <2> QED
    BY <2>1, <2>2 DEF Lapsed, Edit, Settled
<1>4. TypeOK'
  <2>1. rows \in [Row -> [key : Key, val : Val]]
    BY <1>2 DEF TypeOK
  <2>2. shown' \in [Row -> Slot]
    BY <2>1, DrawnIs DEF Redraw
  <2>3. PICK D \in Pages : drawn' = D
    BY DEF Redraw
  <2>4. drawn' \subseteq Row
    BY <2>3, CellEditAssumption DEF CellEditAssumption
  <2>5. Len(edits) \in Nat /\ Len(edits) <= MaxEdits
    BY <1>2, EditsAre
  <2>6. /\ kind' = kind /\ rows' = rows /\ jobs' = jobs /\ table' = table
        /\ faults' = faults /\ tangled' = tangled /\ search' = FALSE
        /\ stale' = {} /\ focus' = 0
    BY DEF Redraw
  <2>7. /\ kind' \in [Col -> {"text", "menu", "date"}]
        /\ rows' \in [Row -> [key : Key, val : Val]]
        /\ search' \in BOOLEAN /\ table' \in [Key -> [live : BOOLEAN, val : Val]]
        /\ stale' \subseteq Row \X Col /\ tangled' \in BOOLEAN
        /\ faults' \subseteq {"lost", "deleted"} /\ Cardinality(faults') <= MaxFaults
    BY <1>2, <2>6 DEF TypeOK
  <2>8. jobs' \in Seq(Job) /\ Cardinality(Under(jobs')) <= MaxJobs
    BY <1>2, <2>6 DEF TypeOK
  <2>9. /\ edits' \in Seq(Edit) /\ Len(edits') <= MaxEdits
        /\ focus' \in 0..Len(edits') /\ (focus' # 0 => In(focus)')
    BY <1>1, <2>5, <2>6
  <2> QED
    BY <2>2, <2>4, <2>7, <2>8, <2>9 DEF TypeOK, Slot
<1>5. EditInv'
  BY <1>1, <1>2, <1>3 DEF EditInv
<1>6. JobInv'
  BY <1>1, <1>2, <1>3 DEF JobInv, Settled
<1>7. MountInv'
  <2>1. rows \in [Row -> [key : Key, val : Val]]
    BY <1>2 DEF TypeOK
  <2>2. shown' = Drawn(rows)
    BY DEF Redraw
  <2>3. \A r \in Row, c \in Col : shown'[r][c].edit = 0
    BY <2>1, <2>2, DrawnIs
  <2> QED
    BY <2>3 DEF MountInv
<1>8. CancelInv'
  <2>1. ASSUME NEW e \in DOMAIN edits
        PROVE  /\ edits'[e].cancelled # "no" => edits'[e].pc = "over" /\ ~In(e)'
               /\ edits'[e].cancelled = "yes" => ~edits'[e].frame /\ ~edits'[e].armed
               /\ edits'[e].armed => edits'[e].kind = "date"
    BY <1>1, <1>2, <1>3 DEF CancelInv, In, Settled
  <2>2. ASSUME NEW j \in DOMAIN jobs, jobs[j].late
        PROVE  edits'[jobs[j].edit].cancelled = "early"
    BY <1>2, <1>3, <2>2 DEF CancelInv, CancelledStaysCancelled, JobInv
  <2> QED
    BY <1>1, <1>2, <2>1, <2>2 DEF CancelInv, CancelledStaysCancelled
<1> QED
  BY <1>4, <1>5, <1>6, <1>7, <1>8 DEF Both, TypeInv

(* A new edit is appended; the widget it replaces is gone.                 *)
Fresh(r, c) == [row |-> r, col |-> c, kind |-> kind[c],
                original |-> rows[r][c], attached |-> TRUE, pc |-> "open",
                frame |-> kind[c] # "text", armed |-> FALSE, cancelled |-> "no"]
Begun(r, c) ==
  /\ edits' \in Seq(Edit) /\ Len(edits') = Len(edits) + 1
  /\ DOMAIN edits' = DOMAIN edits \cup {Len(edits) + 1}
  /\ Len(edits) + 1 \notin DOMAIN edits
  /\ edits'[Len(edits) + 1] = Fresh(r, c)
  /\ \A e \in DOMAIN edits : Lapsed(edits'[e], edits[e]) /\ Alike(edits'[e], edits[e])
  /\ shown' = [shown EXCEPT ![r][c].edit = Len(edits) + 1]
  /\ focus' \in {0, Len(edits) + 1}
  /\ \A e \in DOMAIN edits : Live(e) => e = shown[r][c].edit /\ kind[c] # "menu"
  /\ tangled' = (\/ tangled
                 \/ \E j \in Under(jobs) : Cell(jobs[j].edit) = <<r, c>>
                 \/ shown[r][c].edit # 0 /\ Live(shown[r][c].edit))

LEMMA BeginDoes ==
  ASSUME Both, Begin
  PROVE  \E r \in drawn, c \in Col : Begun(r, c)
<1> DEFINE n == Len(edits)
<1>1. n \in Nat /\ DOMAIN edits = 1..n /\ edits \in [1..n -> Edit] /\ TypeOK
  BY EditsAre DEF Both, TypeInv
<1>2. PICK r \in drawn, c \in Col :
        /\ \A e \in DOMAIN edits : Live(e) => e = shown[r][c].edit /\ kind[c] # "menu"
        /\ edits' = Append(Removed(edits, {shown[r][c].edit}), Fresh(r, c))
        /\ shown' = [shown EXCEPT ![r][c].edit = Len(edits) + 1]
        /\ focus' = IF kind[c] = "menu" THEN 0 ELSE Len(edits) + 1
        /\ tangled' = (\/ tangled
                       \/ \E j \in Under(jobs) : Cell(jobs[j].edit) = <<r, c>>
                       \/ shown[r][c].edit # 0 /\ Live(shown[r][c].edit))
  BY DEF Begin, Fresh
<1>3. Fresh(r, c) \in Edit
  <2>1. /\ rows \in [Row -> [key : Key, val : Val]] /\ drawn \subseteq Row
        /\ kind \in [Col -> {"text", "menu", "date"}]
    BY <1>1 DEF TypeOK
  <2>2. rows[r][c] \in Key \cup Val
    BY <2>1 DEF Col
  <2> QED
    BY <2>1, <2>2 DEF Fresh, Edit
<1> DEFINE rs == Removed(edits, {shown[r][c].edit})
<1>4. /\ rs \in Seq(Edit) /\ Len(rs) = n
      /\ \A e \in DOMAIN edits : Alike(rs[e], edits[e]) /\ Lapsed(rs[e], edits[e])
  BY <1>1, SameBears, RemovedBears
<1> HIDE DEF rs
<1>5. edits' = Append(rs, Fresh(r, c))
  BY <1>2 DEF rs
<1>6. /\ edits' \in Seq(Edit) /\ Len(edits') = n + 1 /\ edits'[n + 1] = Fresh(r, c)
      /\ \A e \in 1..n : edits'[e] = rs[e]
  BY <1>1, <1>3, <1>4, <1>5, AppendProperties
<1>7. DOMAIN edits' = 1..(n + 1)
  BY <1>6, LenProperties
<1>8. 1..(n + 1) = 1..n \cup {n + 1} /\ n + 1 \notin 1..n
  BY <1>1
<1>9. Begun(r, c)
  BY <1>1, <1>2, <1>4, <1>6, <1>7, <1>8 DEF Begun
<1> QED
  BY <1>9

LEMMA BeginBoth ==
  ASSUME Both, Begin
  PROVE  Both'
<1> DEFINE n == Len(edits)
<1>1. PICK r \in drawn, c \in Col : Begun(r, c)
  BY BeginDoes
<1>2. /\ TypeOK /\ EditInv /\ JobInv /\ MountInv /\ CancelInv
      /\ jobs' = jobs /\ Len(edits) < MaxEdits
  BY DEF Both, TypeInv, Begin
<1>3. /\ n \in Nat /\ DOMAIN edits = 1..n /\ edits \in [1..n -> Edit]
      /\ MaxEdits \in Nat /\ r \in Row /\ shown \in [Row -> Slot]
      /\ rows \in [Row -> [key : Key, val : Val]]
      /\ kind \in [Col -> {"text", "menu", "date"}]
  BY <1>2, EditsAre DEF TypeOK, Slot
<1>4. ASSUME NEW e \in DOMAIN edits
      PROVE  /\ Alike(edits'[e], edits[e])
             /\ edits[e].pc \in Settled => edits'[e].pc = edits[e].pc
             /\ edits'[e].cancelled = edits[e].cancelled
             /\ edits'[e].frame = edits[e].frame /\ edits'[e].armed = edits[e].armed
  <2>1. /\ Lapsed(edits'[e], edits[e]) /\ Alike(edits'[e], edits[e])
        /\ edits[e] \in Edit
    BY <1>1, <1>3 DEF Begun
  <2> QED
    BY <2>1 DEF Lapsed, Edit, Settled
<1>5. /\ DOMAIN edits' = DOMAIN edits \cup {n + 1} /\ n + 1 \notin DOMAIN edits
      /\ edits'[n + 1] = Fresh(r, c)
      /\ shown' = [shown EXCEPT ![r][c].edit = n + 1] /\ focus' \in {0, n + 1}
      /\ tangled' \in BOOLEAN /\ edits' \in Seq(Edit) /\ Len(edits') = n + 1
  BY <1>1, <1>2 DEF Begun, TypeOK
<1>6. /\ shown' \in [Row -> Slot]
      /\ shown'[r][c].edit = n + 1
      /\ \A q \in Row, d \in Col : <<q, d>> # <<r, c>> => shown'[q][d] = shown[q][d]
      /\ \A q \in Row, d \in Col : shown'[q][d].val = shown[q][d].val
  BY SMTT(40), <1>2, <1>3, <1>5 DEF Slot, Col
<1>7. /\ edits'[n + 1].row = r /\ edits'[n + 1].col = c /\ edits'[n + 1].attached
      /\ edits'[n + 1].pc = "open" /\ edits'[n + 1].original = rows[r][c]
      /\ edits'[n + 1].cancelled = "no" /\ edits'[n + 1].armed = FALSE
  BY <1>5 DEF Fresh
<1> HIDE DEF n
<1>8. TypeOK'
  <2>1. focus' # 0 => In(focus)'
    BY <1>3, <1>5, <1>6, <1>7 DEF In
  <2>2. n + 1 <= MaxEdits /\ focus' \in 0..(n + 1)
    BY <1>2, <1>3, <1>5 DEF n
  <2> QED
    <3>1. /\ kind' = kind /\ rows' = rows /\ drawn' = drawn /\ jobs' = jobs
          /\ search' = search /\ table' = table /\ faults' = faults
          /\ stale' \subseteq Row \X Col
      BY <1>2 DEF TypeOK, Begin
    <3> QED
      BY <1>2, <1>5, <1>6, <2>1, <2>2, <3>1 DEF TypeOK, Slot
<1>9. EditInv'
  <2>1. rows[r][c] \in Values(c)
    BY <1>3 DEF Values, Col
  <2> QED
    BY <1>2, <1>4, <1>5, <1>7, <2>1 DEF EditInv, Alike
<1>10. JobInv'
  BY <1>2, <1>4, <1>5 DEF JobInv, Alike, Settled
<1>11. MountInv'
  <2> SUFFICES ASSUME NEW q \in Row, NEW d \in Col, shown'[q][d].edit # 0
               PROVE  LET e == shown'[q][d].edit IN
                 /\ e \in DOMAIN edits' /\ edits'[e].attached
                 /\ edits'[e].row = q /\ edits'[e].col = d
    BY DEF MountInv, Cell
  <2>1. CASE <<q, d>> = <<r, c>>
    BY <1>5, <1>6, <1>7, <2>1
  <2>2. CASE <<q, d>> # <<r, c>>
    <3>1. PICK e : e = shown[q][d].edit
      OBVIOUS
    <3>2. e # 0 /\ shown'[q][d].edit = e
      BY <1>6, <2>2, <3>1
    <3>3. /\ e \in DOMAIN edits /\ edits[e].attached
          /\ edits[e].row = q /\ edits[e].col = d
      BY <1>2, <3>1, <3>2 DEF MountInv, Cell
    <3> QED
      BY <1>4, <1>5, <3>2, <3>3 DEF Alike
  <2> QED
    BY <2>1, <2>2
<1>12. CancelInv'
  <2>1. ASSUME NEW e \in DOMAIN edits
        PROVE  /\ edits'[e].cancelled # "no" => edits'[e].pc = "over" /\ ~In(e)'
               /\ edits'[e].cancelled = "yes" => ~edits'[e].frame /\ ~edits'[e].armed
               /\ edits'[e].armed => edits'[e].kind = "date"
    <3>1. /\ edits[e].cancelled # "no" => edits[e].pc = "over" /\ ~In(e)
          /\ edits[e].cancelled = "yes" => ~edits[e].frame /\ ~edits[e].armed
          /\ edits[e].armed => edits[e].kind = "date"
      BY <1>2 DEF CancelInv
    <3>2. ASSUME In(e)' PROVE In(e)
      <4>1. PICK q \in Row, d \in Col : edits[e].row = q /\ edits[e].col = d
        BY <1>3 DEF Edit
      <4>2. Alike(edits'[e], edits[e]) /\ e # n + 1
        BY <1>4, <1>5
      <4>3. edits[e].attached /\ shown'[q][d].edit = e
        BY <3>2, <4>1, <4>2 DEF In, Alike
      <4>4. shown[q][d].edit = e
        BY <1>6, <4>2, <4>3
      <4> QED
        BY <4>1, <4>3, <4>4 DEF In
    <3> QED
      BY <1>4, <3>1, <3>2 DEF Settled, Alike
  <2>2. ASSUME NEW j \in DOMAIN jobs, jobs[j].late
        PROVE  edits'[jobs[j].edit].cancelled = "early"
    BY <1>2, <1>4, <2>2 DEF CancelInv, CancelledStaysCancelled, JobInv
  <2> QED
    BY <1>2, <1>5, <1>7, <2>1, <2>2 DEF CancelInv, CancelledStaysCancelled
<1> QED
  BY <1>8, <1>9, <1>10, <1>11, <1>12 DEF Both, TypeInv

LEMMA InitBoth == Init => Both
<1> SUFFICES ASSUME Init PROVE Both
  OBVIOUS
<1>1. /\ edits = <<>> /\ jobs = <<>> /\ DOMAIN edits = {} /\ DOMAIN jobs = {}
      /\ Len(edits) = 0 /\ edits \in Seq(Edit) /\ jobs \in Seq(Job)
  BY DEF Init
<1>2. /\ rows \in [Row -> [key : Key, val : Val]] /\ shown = Drawn(rows)
      /\ Start \in [Row -> [key : Key, val : Val]]
      /\ MaxEdits \in Nat /\ MaxJobs \in Nat /\ MaxFaults \in Nat
  BY CellEditAssumption DEF Init, CellEditAssumption
<1>3. shown \in [Row -> Slot] /\ \A r \in Row, c \in Col : shown[r][c].edit = 0
  BY <1>2, DrawnIs
<1>4. kind \in [Col -> {"text", "menu", "date"}]
  BY CellEditAssumption DEF Init, CellEditAssumption, Col
<1>5. table \in [Key -> [live : BOOLEAN, val : Val]]
  <2>1. ASSUME NEW k \in Key, \E r \in Row : Start[r].key = k
        PROVE  Start[CHOOSE r \in Row : Start[r].key = k].val \in Val
    <3>1. (CHOOSE r \in Row : Start[r].key = k) \in Row
      BY <2>1
    <3> QED
      BY <1>2, <3>1
  <2>2. (CHOOSE v \in Val : TRUE) \in Val
    BY CellEditAssumption DEF CellEditAssumption
  <2>3. ASSUME NEW k \in Key
        PROVE  (IF \E r \in Row : Start[r].key = k
                THEN [live |-> TRUE,
                      val |-> Start[CHOOSE r \in Row : Start[r].key = k].val]
                ELSE [live |-> FALSE, val |-> CHOOSE v \in Val : TRUE])
                 \in [live : BOOLEAN, val : Val]
    BY <2>1, <2>2
  <2> QED
    BY <2>3 DEF Init
<1>6. /\ Cardinality(Under(jobs)) <= MaxJobs /\ Cardinality(faults) <= MaxFaults
  <2>1. Under(jobs) = {} /\ faults = {} /\ Cardinality({}) = 0
    BY <1>1, FS_EmptySet DEF Under, Init
  <2> QED
    BY <1>2, <2>1
<1>7. TypeOK
  <2>1. /\ drawn = Row /\ focus = 0 /\ search = FALSE /\ stale = {}
        /\ faults = {} /\ tangled = FALSE
    BY DEF Init
  <2>2. focus \in 0..Len(edits) /\ Len(edits) <= MaxEdits
    BY <1>1, <1>2, <2>1
  <2> QED
    BY <1>1, <1>2, <1>3, <1>4, <1>5, <1>6, <2>1, <2>2 DEF TypeOK, Slot
<1> QED
  BY <1>1, <1>3, <1>7 DEF Both, TypeInv, EditInv, JobInv, MountInv, CancelInv,
     CancelledStaysCancelled

LEMMA NextBoth ==
  ASSUME Both, [Next]_vars
  PROVE  Both'
<1>1. CASE UNCHANGED vars
  BY <1>1 DEF vars, Both, TypeInv, TypeOK, EditInv, JobInv, MountInv, Cell, In,
     CancelInv, CancelledStaysCancelled
<1>2. CASE Begin
  BY <1>2, BeginBoth
<1>3. CASE Click
  BY <1>3, ClickBoth
<1>4. CASE Press
  BY <1>4, PressBoth
<1>5. CASE Others
  BY <1>5, OthersBoth
<1>6. CASE Search
  BY <1>6, SearchBoth
<1>7. CASE Redraw
  BY <1>7, RedrawBoth
<1>8. ASSUME NEW e \in DOMAIN edits,
             \/ Frame(e) \/ Enter(e) \/ Escape(e) \/ Blur(e) \/ BlurLate(e)
             \/ ClickAway(e) \/ Pick(e) \/ Dismiss(e) \/ Refocus(e)
      PROVE  Both'
  BY <1>8, FrameBoth, EnterBoth, EscapeBoth, BlurBoth, BlurLateBoth,
     ClickAwayBoth, PickBoth, DismissBoth, RefocusBoth
<1>9. ASSUME NEW j \in DOMAIN jobs, Serve(j) \/ Lose(j) \/ Land(j)
      PROVE  Both'
  BY <1>9, ServeBoth, LoseBoth, LandBoth
<1> QED
  BY <1>1, <1>2, <1>3, <1>4, <1>5, <1>6, <1>7, <1>8, <1>9 DEF Next

(* Every variable has its type, and the keyboard is with a widget that is  *)
(* in the page (typedEditor.js, cellEdit.js).                              *)
THEOREM CellTyped == Spec => []TypeOK
<1>1. Init => Both
  BY InitBoth
<1>2. Both /\ [Next]_vars => Both'
  BY NextBoth
<1>3. Both => TypeOK
  BY DEF Both, TypeInv
<1> QED
  BY <1>1, <1>2, <1>3, PTL DEF Spec

(* An edit that was cancelled asks nothing any more, unless it is a date   *)
(* that ended before its first frame (cellEdit.js, the cancelled flag).    *)
THEOREM CancelledIsOver == Spec => []CancelledStaysCancelled
<1>1. Init => Both
  BY InitBoth
<1>2. Both /\ [Next]_vars => Both'
  BY NextBoth
<1>3. Both => CancelledStaysCancelled
  BY DEF Both, CancelInv
<1> QED
  BY <1>1, <1>2, <1>3, PTL DEF Spec

-----------------------------------------------------------------------------
(* Cells, arrays and server: what a step must keep.                        *)

Same == /\ DOMAIN edits' = DOMAIN edits
        /\ \A e \in DOMAIN edits : /\ edits'[e].row = edits[e].row
                                   /\ edits'[e].col = edits[e].col
                                   /\ edits'[e].original = edits[e].original
Calmer == \A e \in DOMAIN edits :
  edits'[e].pc \in {"open", "removed"} => edits[e].pc \in {"open", "removed"}
Onward(js) == /\ Moves(js)
              /\ \A j \in DOMAIN jobs : (js[j].pc = "ok") <=> (jobs[j].pc = "ok")

LEMMA GoesSame ==
  ASSUME TypeInv, Goes
  PROVE  Same
BY LenProperties DEF TypeInv, TypeOK, Goes, Same, Keeps, Alike

LEMMA ActiveBefore ==
  ASSUME TypeInv, Calmer, Moves(jobs'), NEW e \in DOMAIN edits, Active(e)'
  PROVE  Active(e)
<1>1. Under(jobs') \subseteq Under(jobs) /\ DOMAIN jobs' = DOMAIN jobs
  BY MovesFit DEF TypeInv
<1>2. CASE edits'[e].pc \in {"open", "removed"}
  BY <1>2 DEF Calmer, Active
<1>3. CASE \E j \in Under(jobs') : jobs'[j].edit = e
  <2>1. PICK j \in Under(jobs') : jobs'[j].edit = e
    BY <1>3
  <2>2. j \in Under(jobs) /\ j \in DOMAIN jobs
    BY <1>1, <2>1 DEF Under
  <2>3. jobs[j].edit = e
    BY <2>1, <2>2 DEF Moves, Moved
  <2> QED
    BY <2>2, <2>3 DEF Active
<1> QED
  BY <1>2, <1>3 DEF Active

LEMMA SameOne ==
  ASSUME TypeInv, OneInv, OriginalInv, Same, rows' = rows,
         \A e \in DOMAIN edits : Active(e)' => Active(e)
  PROVE  OneInv' /\ OriginalInv'
<1>1. OneInv'
  <2> SUFFICES ASSUME NEW e \in DOMAIN edits', NEW d \in DOMAIN edits',
                      Active(e)', Active(d)', Cell(e)' = Cell(d)'
               PROVE  e = d
    BY DEF OneInv
  <2>1. Cell(e) = Cell(d) /\ e \in DOMAIN edits /\ d \in DOMAIN edits
    BY DEF Same, Cell
  <2> QED
    BY <2>1 DEF OneInv
<1>2. OriginalInv'
  BY DEF Same, OriginalInv
<1> QED
  BY <1>1, <1>2

LEMMA MovedApart ==
  ASSUME TypeInv, ApartInv, AddressInv, Same, Moves(jobs'),
         \A j \in Under(jobs') : rows'[edits[jobs[j].edit].row].key =
                                 rows[edits[jobs[j].edit].row].key
  PROVE  ApartInv' /\ AddressInv'
<1>1. Under(jobs') \subseteq Under(jobs) /\ DOMAIN jobs' = DOMAIN jobs
  BY MovesFit DEF TypeInv
<1>2. ASSUME NEW j \in Under(jobs')
      PROVE  \E d \in DOMAIN edits : d = jobs[j].edit /\ jobs'[j].edit = d
                                     /\ jobs'[j].pk = jobs[j].pk
             /\ edits'[d].row = edits[d].row /\ edits'[d].col = edits[d].col
  <2>1. j \in DOMAIN jobs
    BY <1>1 DEF Under
  <2> QED
    BY <2>1 DEF Moves, Moved, Same, TypeInv, JobInv
<1>3. ApartInv'
  <2> SUFFICES ASSUME NEW i \in Under(jobs'), NEW j \in Under(jobs'), i # j,
                      edits'[jobs'[i].edit].row = edits'[jobs'[j].edit].row
               PROVE  /\ edits'[jobs'[i].edit].col # edits'[jobs'[j].edit].col
                      /\ "key" \notin {edits'[jobs'[i].edit].col,
                                       edits'[jobs'[j].edit].col}
    BY DEF ApartInv, Apart
  <2>1. PICK d \in DOMAIN edits : d = jobs[i].edit /\ jobs'[i].edit = d
             /\ edits'[d].row = edits[d].row /\ edits'[d].col = edits[d].col
    BY <1>2
  <2>2. PICK e \in DOMAIN edits : e = jobs[j].edit /\ jobs'[j].edit = e
             /\ edits'[e].row = edits[e].row /\ edits'[e].col = edits[e].col
    BY <1>2
  <2>3. Apart(d, e)
    BY <1>1, <2>1, <2>2 DEF ApartInv
  <2> QED
    BY <2>1, <2>2, <2>3 DEF Apart
<1>4. AddressInv'
  <2> SUFFICES ASSUME NEW j \in Under(jobs')
               PROVE  jobs'[j].pk = rows'[edits'[jobs'[j].edit].row].key
    BY DEF AddressInv
  <2>1. PICK e \in DOMAIN edits : e = jobs[j].edit /\ jobs'[j].edit = e
             /\ jobs'[j].pk = jobs[j].pk /\ edits'[e].row = edits[e].row
    BY <1>2
  <2>2. jobs[j].pk = rows[edits[e].row].key
    BY <1>1, <2>1 DEF AddressInv
  <2> QED
    BY <2>1, <2>2
<1> QED
  BY <1>3, <1>4

(* What the server has of the rows does not change.                        *)
Steady == /\ \A r \in Row, c \in Col : Done(r, c)' = Done(r, c)
          /\ \A j \in DOMAIN jobs : jobs[j].pc = "ok" => jobs'[j].next = jobs[j].next

LEMMA OnwardSteady ==
  ASSUME TypeInv, Same, Onward(jobs')
  PROVE  Steady
<1>1. DOMAIN jobs' = DOMAIN jobs
  BY MovesFit DEF TypeInv, Onward
<1>2. ASSUME NEW j \in DOMAIN jobs
      PROVE  /\ (jobs'[j].pc = "ok") <=> (jobs[j].pc = "ok")
             /\ jobs'[j].next = jobs[j].next
             /\ \E d \in DOMAIN edits : d = jobs[j].edit /\ jobs'[j].edit = d
                  /\ edits'[d].row = edits[d].row /\ edits'[d].col = edits[d].col
  BY DEF Onward, Moves, Moved, Same, TypeInv, JobInv
<1>3. ASSUME NEW r \in Row, NEW c \in Col PROVE Done(r, c)' = Done(r, c)
  <2>1. \A j \in DOMAIN jobs : Cell(jobs[j].edit)' = Cell(jobs[j].edit)
    BY <1>2 DEF Cell
  <2> QED
    BY <1>1, <1>2, <2>1 DEF Done
<1> QED
  BY <1>2, <1>3 DEF Steady

LEMMA SteadyKnown ==
  ASSUME TypeInv, Steady, rows' = rows, NEW r \in Row
  PROVE  Known(r)' = Known(r) /\ Worth(r)' = Worth(r)
<1>1. Done(r, "key")' = Done(r, "key") /\ Done(r, "val")' = Done(r, "val")
  BY DEF Steady, Col
<1>2. ASSUME NEW c \in Col, Done(r, c) # {}
      PROVE  jobs'[Latest(Done(r, c))].next = jobs[Latest(Done(r, c))].next
  <2>1. DOMAIN jobs = 1..Len(jobs) /\ Len(jobs) \in Nat
    BY EditsAre DEF TypeInv
  <2>2. Done(r, c) \in SUBSET (1..Len(jobs))
    BY <2>1 DEF Done
  <2>3. Latest(Done(r, c)) \in Done(r, c)
    BY <1>2, <2>1, <2>2, GreatestNatural
  <2> QED
    BY <2>3 DEF Steady, Done
<1>3. Known(r) = IF Done(r, "key") = {} THEN rows[r].key
                 ELSE jobs[Latest(Done(r, "key"))].next
  BY DEF Known, Done
<1>4. Known(r)' = IF Done(r, "key")' = {} THEN rows'[r].key
                  ELSE jobs'[Latest(Done(r, "key")')].next
  BY DEF Known, Done
<1>5. Worth(r)' = IF Done(r, "val")' = {} THEN rows'[r].val
                  ELSE jobs'[Latest(Done(r, "val")')].next
  BY DEF Worth
<1> QED
  BY <1>1, <1>2, <1>3, <1>4, <1>5 DEF Worth, Col

LEMMA SteadyServer ==
  ASSUME TypeInv, ServerInv, Steady, rows' = rows,
         "lost" \in faults => "lost" \in faults',
         \A r \in Row : table'[Known(r)].val = table[Known(r)].val
  PROVE  ServerInv'
<1> SUFFICES ASSUME "lost" \notin faults', NEW r \in Row,
                    \A q \in Row \ {r} : Known(q)' # Known(r)'
             PROVE  table'[Known(r)'].val = Worth(r)'
  BY DEF ServerInv
<1>1. Known(r)' = Known(r) /\ Worth(r)' = Worth(r)
  BY SteadyKnown
<1>2. \A q \in Row \ {r} : Known(q) # Known(r)
  BY <1>1, SteadyKnown
<1>3. table[Known(r)].val = Worth(r)
  BY <1>2 DEF ServerInv
<1> QED
  BY <1>1, <1>3

(* Cells that keep what they show.                                         *)
LEMMA StillDisplay ==
  ASSUME DisplayInv, shown' = shown, rows' = rows, stale' = stale
  PROVE  DisplayInv'
BY DEF DisplayInv

(* The state until edits meet, without what the server has.                *)
Local == OneInv /\ WidgetInv /\ OriginalInv /\ ApartInv /\ AddressInv /\ DisplayInv

(* No cell changes and no update ends; a widget that was removed may.      *)
LEMMA AsideClear ==
  ASSUME TypeInv, Local, Goes, shown' = shown, rows' = rows, stale' = stale,
         Moves(jobs'), Under(jobs') = Under(jobs),
         \A e \in DOMAIN edits : \/ edits'[e].pc = edits[e].pc
                                 \/ edits[e].pc = "removed" /\ edits'[e].pc = "over"
  PROVE  Local'
<1>1. Same /\ Calmer
  BY GoesSame DEF Calmer
<1>2. OneInv' /\ OriginalInv'
  BY <1>1, ActiveBefore, SameOne DEF Local
<1>3. ApartInv' /\ AddressInv'
  BY <1>1, MovedApart DEF Local
<1>4. WidgetInv'
  <2> SUFFICES ASSUME NEW e \in DOMAIN edits', In(e)'
               PROVE  Active(e)' /\ edits'[e].pc # "removed"
    BY DEF WidgetInv
  <2>1. e \in DOMAIN edits /\ Alike(edits'[e], edits[e])
    BY <1>1 DEF Same, Goes, Keeps
  <2>2. In(e)
    BY <2>1 DEF In, Alike
  <2>3. Active(e) /\ edits[e].pc # "removed"
    BY <2>1, <2>2 DEF Local, WidgetInv
  <2>4. edits'[e].pc = edits[e].pc
    BY <2>1, <2>3
  <2>5. \A j \in Under(jobs) : j \in Under(jobs') /\ jobs'[j].edit = jobs[j].edit
    BY DEF Moves, Moved, Under
  <2> QED
    BY <2>3, <2>4, <2>5 DEF Active
<1>5. DisplayInv'
  BY StillDisplay DEF Local
<1> QED
  BY <1>2, <1>3, <1>4, <1>5 DEF Local

(* An edit that loses its widget leaves the page.                          *)
LEMMA LapsedOut ==
  ASSUME TypeInv, NEW es, NEW E \in SUBSET (DOMAIN edits), NEW put, DOMAIN put = E,
         NEW f, Shows(put, es, f), Clears(E, put), Lapses(es), Bears(es),
         NEW d \in DOMAIN edits, edits'[d] # es[d]
  PROVE  ~In(d)'
<1> DEFINE gone == {shown[Cell(e)[1]][Cell(e)[2]].edit :
                      e \in {x \in DOMAIN put : edits[x].attached}}
<1>0. /\ DOMAIN edits = 1..Len(edits) /\ edits \in [DOMAIN edits -> Edit]
      /\ es \in Seq(Edit) /\ Len(es) = Len(edits)
  BY EditsAre DEF TypeInv, Bears
<1>1. DOMAIN es = DOMAIN edits
  BY <1>0, LenProperties
<1>2. edits' = Removed(es, gone)
  BY DEF Shows
<1>3. d \in gone
  BY <1>1, <1>2 DEF Removed
<1>4. PICK e \in E : edits[e].attached /\ d = shown[Cell(e)[1]][Cell(e)[2]].edit
  BY <1>3
<1>5. PICK r \in Row, c \in Col : edits[e].row = r /\ edits[e].col = c
  BY <1>0 DEF Edit
<1>6. shown[r][c].edit = d /\ d # 0
  BY <1>0, <1>4, <1>5 DEF Cell
<1>7. edits[d].row = r /\ edits[d].col = c
  BY <1>6 DEF TypeInv, MountInv, Cell
<1>8. e \in Of(E, r, c)
  BY <1>4, <1>5 DEF Of, Cell
<1>9. shown'[r][c].edit = 0
  BY <1>8 DEF Clears
<1>10. edits'[d].row = r /\ edits'[d].col = c
  BY <1>7 DEF Lapses, Bears, Alike
<1> QED
  BY <1>6, <1>9, <1>10 DEF In

(* Active edits in E get their values back: their cells show the arrays,   *)
(* and only their updates may end.                                         *)
LEMMA BackClear ==
  ASSUME TypeInv, Local, NEW es, Bears(es),
         \A d \in DOMAIN edits : Keeps(es[d], edits[d]),
         \A d \in DOMAIN edits : es[d].pc \in {"open", "removed"} =>
            es[d].pc = edits[d].pc,
         NEW E \in SUBSET (DOMAIN edits), \A d \in E : Active(d),
         \A d \in DOMAIN edits \ E : es[d].pc = edits[d].pc,
         NEW f \in {0, focus}, Reverts(E, es, f),
         rows' = rows, stale' = stale, Moves(jobs'),
         \A j \in Under(jobs) : j \in Under(jobs') \/ jobs[j].edit \in E
  PROVE  Local'
<1> DEFINE put == [d \in E |-> edits[d].original]
<1>1. /\ Goes /\ Empties /\ Clears(E, put) /\ Lapses(es)
      /\ \A d \in E : ~In(d)'
  BY RevertsGoes
<1>2. Same
  BY <1>1, GoesSame
<1>3. \A d \in DOMAIN edits : Lapsed(edits'[d], es[d]) /\ es[d] \in Edit
  <2>1. DOMAIN es = DOMAIN edits /\ es \in [DOMAIN edits -> Edit]
    <3>1. Len(es) = Len(edits) /\ es \in Seq(Edit) /\ edits \in Seq(Edit)
      BY DEF Bears, TypeInv, TypeOK
    <3> QED
      BY <3>1, LenProperties
  <2> QED
    BY <1>1, <2>1 DEF Lapses
<1>4. Calmer
  BY <1>3 DEF Calmer, Lapsed, Edit
<1>5. OneInv' /\ OriginalInv'
  BY <1>2, <1>4, ActiveBefore, SameOne DEF Local
<1>6. ApartInv' /\ AddressInv'
  BY <1>2, MovedApart DEF Local
<1>7. Shows(put, es, f) /\ DOMAIN put = E
  BY DEF Reverts
<1> HIDE DEF put
<1>8. WidgetInv'
  <2> SUFFICES ASSUME NEW e \in DOMAIN edits', In(e)'
               PROVE  Active(e)' /\ edits'[e].pc # "removed"
    BY DEF WidgetInv
  <2>1. e \in DOMAIN edits /\ e \notin E
    BY <1>1, <1>2 DEF Same
  <2>2. Active(e) /\ edits[e].pc # "removed"
    BY <1>1, <2>1, StaysOut DEF Local, WidgetInv
  <2>3. edits'[e] = es[e]
    BY <1>1, <1>7, <2>1, LapsedOut
  <2>4. edits'[e].pc = edits[e].pc
    BY <2>1, <2>3
  <2>5. ASSUME NEW j \in Under(jobs), jobs[j].edit = e
        PROVE  j \in Under(jobs') /\ jobs'[j].edit = e
    BY <2>1, <2>5 DEF Moves, Moved, Under
  <2> QED
    BY <2>2, <2>4, <2>5 DEF Active
<1>9. DisplayInv'
  <2> SUFFICES ASSUME NEW r \in Row, NEW c \in Col, shown'[r][c].edit = 0
               PROVE  <<r, c>> \in stale \/ shown'[r][c].val = rows[r][c]
    BY DEF DisplayInv
  <2>1. CASE Of(E, r, c) = {} /\ shown'[r][c] = shown[r][c]
    BY <2>1 DEF Local, DisplayInv
  <2>2. CASE \E e \in Of(E, r, c) : shown'[r][c].val = put[e]
    <3>1. PICK e \in Of(E, r, c) : shown'[r][c].val = put[e]
      BY <2>2
    <3>2. e \in E /\ edits[e].row = r /\ edits[e].col = c /\ put[e] = edits[e].original
      BY DEF Of, Cell, put
    <3>3. edits[e].original = rows[r][c]
      BY <3>2 DEF Local, OriginalInv
    <3> QED
      BY <3>1, <3>2, <3>3
  <2> QED
    BY <1>1, <2>1, <2>2 DEF Clears
<1> QED
  BY <1>5, <1>6, <1>8, <1>9 DEF Local

(* A commit that asks: its update is apart from the others.                *)
LEMMA AskClear ==
  ASSUME TypeInv, Local, NEW e \in DOMAIN edits, edits[e].pc \in {"open", "removed"},
         edits' = Committed(e), shown' = shown, rows' = rows, stale' = stale,
         NEW js, Moves(js), Under(js) = Under(jobs), Cardinality(Under(js)) < MaxJobs,
         NEW x \in Job, x.edit = e, x.pk = rows[edits[e].row].key, x.pc = "ask",
         jobs' = Append(js, x), ~Meets(edits[e].row, edits[e].col)
  PROVE  Local'
<1> DEFINE n == Len(jobs) + 1
<1>1. /\ jobs' \in Seq(Job) /\ DOMAIN jobs' = DOMAIN jobs \cup {n}
      /\ n \notin DOMAIN jobs /\ jobs'[n] = x
      /\ Under(jobs') = Under(jobs) \cup {n}
      /\ \A j \in DOMAIN jobs : jobs'[j] = js[j]
  BY AppendFits DEF TypeInv
<1> HIDE DEF n
<1>2. /\ Committing(e).pc \in Settled /\ Bears(Committed(e))
      /\ Committed(e)[e] = Committing(e)
      /\ \A d \in DOMAIN edits \ {e} : Committed(e)[d] = edits[d]
      /\ \A d \in DOMAIN edits : Keeps(Committed(e)[d], edits[d])
  BY CommittedBears
<1>3. Goes
  BY <1>2 DEF Goes, Bears
<1>4. Same
  BY <1>3, GoesSame
<1>5. \A j \in Under(jobs) : /\ j \in DOMAIN jobs /\ jobs'[j].edit = jobs[j].edit
                             /\ jobs'[j].pk = jobs[j].pk /\ jobs[j].edit \in DOMAIN edits
  BY <1>1 DEF Under, Moves, Moved, TypeInv, JobInv
<1>6. ASSUME NEW d \in DOMAIN edits, Active(d)' PROVE Active(d)
  <2>1. Active(e)
    BY DEF Active
  <2>2. CASE d # e
    <3>1. edits'[d] = edits[d]
      BY <1>2, <2>2
    <3>2. CASE edits'[d].pc \in {"open", "removed"}
      BY <3>1, <3>2 DEF Active
    <3>3. CASE \E j \in Under(jobs') : jobs'[j].edit = d
      <4>1. PICK j \in Under(jobs') : jobs'[j].edit = d
        BY <3>3
      <4>2. j \in Under(jobs)
        BY <1>1, <2>2, <4>1
      <4> QED
        BY <1>5, <4>1, <4>2 DEF Active
    <3> QED
      BY <1>6, <3>2, <3>3 DEF Active
  <2> QED
    BY <2>1, <2>2
<1>7. OneInv' /\ OriginalInv'
  BY <1>4, <1>6, SameOne DEF Local
<1>8. WidgetInv'
  <2> SUFFICES ASSUME NEW d \in DOMAIN edits', In(d)'
               PROVE  Active(d)' /\ edits'[d].pc # "removed"
    BY DEF WidgetInv
  <2>1. d \in DOMAIN edits /\ Alike(edits'[d], edits[d])
    BY <1>3, <1>4 DEF Same, Goes, Keeps
  <2>2. In(d)
    BY <2>1 DEF In, Alike
  <2>3. Active(d) /\ edits[d].pc # "removed"
    BY <2>1, <2>2 DEF Local, WidgetInv
  <2>4. CASE d = e
    BY <1>1, <1>2, <2>4 DEF Active, Settled
  <2>5. CASE d # e
    <3>1. edits'[d] = edits[d]
      BY <1>2, <2>1, <2>5
    <3> QED
      BY <1>1, <1>5, <2>3, <3>1 DEF Active
  <2> QED
    BY <2>4, <2>5
<1>9. ApartInv'
  <2>1. ASSUME NEW j \in Under(jobs) PROVE Apart(jobs[j].edit, e) /\ Apart(e, jobs[j].edit)
    BY DEF Meets, Apart
  <2>2. ASSUME NEW d \in DOMAIN edits, NEW g \in DOMAIN edits, Apart(d, g)
        PROVE  Apart(d, g)'
    BY <1>4, <2>2 DEF Same, Apart
  <2>3. ASSUME NEW i \in Under(jobs'), NEW j \in Under(jobs'), i # j
        PROVE  \E d \in DOMAIN edits, g \in DOMAIN edits :
                 d = jobs'[i].edit /\ g = jobs'[j].edit /\ Apart(d, g)
    <3>1. CASE i = n
      BY <1>1, <1>5, <2>1, <2>3, <3>1
    <3>2. CASE j = n
      BY <1>1, <1>5, <2>1, <2>3, <3>2
    <3>3. CASE i # n /\ j # n
      BY <1>1, <1>5, <2>3, <3>3 DEF Local, ApartInv
    <3> QED
      BY <3>1, <3>2, <3>3
  <2> SUFFICES ASSUME NEW i \in Under(jobs'), NEW j \in Under(jobs'), i # j,
                      edits'[jobs'[i].edit].row = edits'[jobs'[j].edit].row
               PROVE  /\ edits'[jobs'[i].edit].col # edits'[jobs'[j].edit].col
                      /\ "key" \notin {edits'[jobs'[i].edit].col,
                                       edits'[jobs'[j].edit].col}
    BY DEF ApartInv, Apart
  <2>4. PICK d \in DOMAIN edits, g \in DOMAIN edits :
          d = jobs'[i].edit /\ g = jobs'[j].edit /\ Apart(d, g)
    BY <2>3
  <2>5. Apart(d, g)'
    BY <2>2, <2>4
  <2> QED
    BY <2>4, <2>5 DEF Apart
<1>10. AddressInv'
  <2> SUFFICES ASSUME NEW j \in Under(jobs')
               PROVE  jobs'[j].pk = rows[edits'[jobs'[j].edit].row].key
    BY DEF AddressInv
  <2>1. CASE j = n
    BY <1>1, <1>4, <2>1 DEF Same
  <2>2. CASE j # n
    <3>1. j \in Under(jobs)
      BY <1>1, <2>2
    <3>2. PICK d \in DOMAIN edits : d = jobs[j].edit
      BY <1>5, <3>1
    <3>3. jobs'[j].edit = d /\ jobs'[j].pk = rows[edits[d].row].key
      BY <1>5, <3>1, <3>2 DEF Local, AddressInv
    <3> QED
      BY <1>4, <3>3 DEF Same
  <2> QED
    BY <2>1, <2>2
<1>11. DisplayInv'
  BY StillDisplay DEF Local
<1> QED
  BY <1>7, <1>8, <1>9, <1>10, <1>11 DEF Local

-----------------------------------------------------------------------------
(* Every action keeps cells, arrays and server together, until edits meet. *)

LEMMA ClearParts == ClearInv <=> Local /\ ServerInv
BY DEF ClearInv, Local

(* The tables that differ in nothing but what is live.                     *)
Worthy == /\ rows' = rows /\ faults' = faults
          /\ \A r \in Row : table'[Known(r)].val = table[Known(r)].val

LEMMA OnwardServer ==
  ASSUME TypeInv, ServerInv, Same, Onward(jobs'), Worthy
  PROVE  ServerInv'
BY OnwardSteady, SteadyServer DEF Worthy

LEMMA CommitClear ==
  ASSUME Both, ClearInv, NEW e \in DOMAIN edits, edits[e].cancelled # "yes",
         NEW next \in Values(edits[e].col), NEW js, Onward(js),
         Under(js) = Under(jobs), NEW f \in {0, focus}, Commits(e, next, js, f),
         UNCHANGED <<kind, rows, drawn, search, table, faults, stale>>, ~tangled'
  PROVE  ClearInv'
<1>0. TypeInv /\ Local /\ ServerInv /\ Moves(js)
  BY ClearParts DEF Both, Onward
<1>1. /\ Bears(Committed(e)) /\ DOMAIN Committed(e) = DOMAIN edits
      /\ \A d \in DOMAIN edits : Keeps(Committed(e)[d], edits[d])
      /\ Committed(e)[e] = Committing(e) /\ Committing(e).pc \in Settled
      /\ \A d \in DOMAIN edits \ {e} : Committed(e)[d] = edits[d]
      /\ Committed(e) = [edits EXCEPT
              ![e].pc = IF @ = "over" THEN @ ELSE "committed", ![e].armed = FALSE]
  BY <1>0, CommittedBears
<1>2. Goes
  BY <1>0, CommitsDoes
<1>3. Same
  BY <1>0, <1>2, GoesSame
<1>4. edits[e].pc \in {"open", "removed"}
  <2>1. edits[e] \in Edit
    BY <1>0, EditsAre DEF TypeInv
  <2>2. edits[e].pc \notin {"committed", "over"}
    BY DEF Commits
  <2> QED
    BY <2>1, <2>2 DEF Edit
<1>5. rows' = rows /\ table' = table /\ faults' = faults /\ stale' = stale
  OBVIOUS
<1>6. CASE next = edits[e].original
  <2>1. Reverts({e}, Committed(e), f) /\ jobs' = js
    BY <1>1, <1>6 DEF Commits
  <2>2. PICK es, E : es = Committed(e) /\ E = {e}
    OBVIOUS
  <2>3. /\ Bears(es) /\ E \in SUBSET (DOMAIN edits) /\ Reverts(E, es, f)
        /\ \A d \in DOMAIN edits : Keeps(es[d], edits[d])
        /\ \A d \in DOMAIN edits \ E : es[d].pc = edits[d].pc
        /\ \A d \in E : Active(d)
    BY <1>1, <1>4, <2>1, <2>2 DEF Active
  <2>4. \A d \in DOMAIN edits : es[d].pc \in {"open", "removed"} =>
           es[d].pc = edits[d].pc
    BY <1>1, <2>2 DEF Settled
  <2>5. Moves(jobs') /\ \A j \in Under(jobs) : j \in Under(jobs') \/ jobs[j].edit \in E
    BY <1>0, <2>1
  <2>6. Local'
    BY <1>0, <1>5, <2>3, <2>4, <2>5, BackClear
  <2>7. ServerInv'
    BY <1>0, <1>3, <1>5, <2>1, OnwardServer DEF Worthy
  <2>8. (Local /\ ServerInv)'
    BY <2>6, <2>7
  <2> QED
    BY <2>8, ClearParts, PTL
<1>7. CASE next # edits[e].original
  <2> DEFINE x == [edit |-> e, next |-> next, pk |-> rows[edits[e].row].key,
                   late |-> edits[e].cancelled # "no", pc |-> "ask"]
  <2>1. /\ Cardinality(Under(js)) < MaxJobs /\ jobs' = Append(js, x)
        /\ edits' = Committed(e) /\ shown' = shown
        /\ ~Meets(edits[e].row, edits[e].col)
    BY <1>1, <1>7 DEF Commits
  <2>2. x \in Job
    <3>1. /\ edits[e] \in Edit /\ e \in 1..MaxEdits
          /\ rows \in [Row -> [key : Key, val : Val]]
      BY <1>0, EditsAre DEF TypeInv, TypeOK
    <3>2. next \in Key \cup Val /\ rows[edits[e].row].key \in Key
      BY <3>1 DEF Values, Edit
    <3> QED
      BY <3>1, <3>2 DEF Job, Ids
  <2>3. x.edit = e /\ x.pk = rows[edits[e].row].key /\ x.pc = "ask"
    OBVIOUS
  <2> HIDE DEF x
  <2>4. Local'
    BY <1>0, <1>4, <1>5, <2>1, <2>2, <2>3, AskClear
  <2>5. Steady
    <3> DEFINE n == Len(jobs) + 1
    <3>1. /\ DOMAIN jobs' = DOMAIN jobs \cup {n} /\ n \notin DOMAIN jobs
          /\ jobs'[n] = x /\ \A j \in DOMAIN jobs : jobs'[j] = js[j]
      BY <1>0, <2>1, <2>2, <2>3, AppendFits DEF TypeInv
    <3> HIDE DEF n
    <3>2. ASSUME NEW j \in DOMAIN jobs
          PROVE  /\ (jobs'[j].pc = "ok") <=> (jobs[j].pc = "ok")
                 /\ jobs'[j].next = jobs[j].next
                 /\ \E d \in DOMAIN edits : d = jobs[j].edit /\ jobs'[j].edit = d
                      /\ edits'[d].row = edits[d].row /\ edits'[d].col = edits[d].col
      BY <1>0, <1>3, <3>1 DEF Onward, Moves, Moved, Same, TypeInv, JobInv
    <3>3. ASSUME NEW r \in Row, NEW c \in Col PROVE Done(r, c)' = Done(r, c)
      <4>1. \A j \in DOMAIN jobs : Cell(jobs[j].edit)' = Cell(jobs[j].edit)
        BY <3>2 DEF Cell
      <4> QED
        BY <2>3, <3>1, <3>2, <4>1 DEF Done
    <3> QED
      BY <3>2, <3>3 DEF Steady
  <2>6. ServerInv'
    BY <1>0, <1>5, <2>5, SteadyServer
  <2>7. (Local /\ ServerInv)'
    BY <2>4, <2>6
  <2> QED
    BY <2>7, ClearParts, PTL
<1> QED
  BY <1>6, <1>7

LEMMA AnswersOnward ==
  ASSUME TypeOK, NEW pc, pc \in {"post", "done"}
  PROVE  /\ Onward(Answered(pc)) /\ DOMAIN Answered(pc) = DOMAIN jobs
         /\ pc = "post" => Under(Answered(pc)) = Under(jobs)
         /\ \A j \in Under(jobs) : j \in Under(Answered(pc)) \/ j \in Dialogs
<1>1. Moves(Answered(pc))
  BY AnswersMove
<1>2. /\ DOMAIN Answered(pc) = DOMAIN jobs
      /\ \A j \in DOMAIN jobs : Answered(pc)[j].pc =
           IF j \in Dialogs THEN pc ELSE jobs[j].pc
  <2>1. jobs \in [DOMAIN jobs -> Job]
    BY EditsAre
  <2> QED
    BY <2>1 DEF Answered, Job
<1>3. Onward(Answered(pc))
  BY <1>1, <1>2 DEF Onward, Dialogs
<1> QED
  BY <1>2, <1>3 DEF Under, Dialogs

LEMMA OneOnward ==
  ASSUME TypeOK, NEW i \in DOMAIN jobs, jobs[i].pc # "done", jobs[i].pc # "ok",
         NEW pc, pc \in {"post", "none", "error", "done"}
  PROVE  /\ Onward([jobs EXCEPT ![i].pc = pc])
         /\ pc # "done" => Under([jobs EXCEPT ![i].pc = pc]) = Under(jobs)
         /\ Under(jobs) \ {i} \subseteq Under([jobs EXCEPT ![i].pc = pc])
<1> DEFINE js == [jobs EXCEPT ![i].pc = pc]
<1>1. /\ Moves(js) /\ js[i].pc = pc /\ \A j \in DOMAIN jobs \ {i} : js[j] = jobs[j]
  BY MovesOne
<1>2. DOMAIN js = DOMAIN jobs
  BY <1>1, MovesFit
<1> HIDE DEF js
<1>3. Onward(js)
  BY <1>1 DEF Onward
<1>4. (pc # "done" => Under(js) = Under(jobs)) /\ Under(jobs) \ {i} \subseteq Under(js)
  BY <1>1, <1>2 DEF Under
<1> QED
  BY <1>3, <1>4 DEF js

(* No cell, no array and no answer changes.                                *)
LEMMA IdleClear ==
  ASSUME Both, ClearInv, Goes, shown' = shown, stale' = stale, Onward(jobs'),
         Under(jobs') = Under(jobs), Worthy,
         \A e \in DOMAIN edits : \/ edits'[e].pc = edits[e].pc
                                 \/ edits[e].pc = "removed" /\ edits'[e].pc = "over"
  PROVE  ClearInv'
<1>1. TypeInv /\ Local /\ ServerInv /\ Moves(jobs') /\ rows' = rows
  BY ClearParts DEF Both, Onward, Worthy
<1>2. Local'
  BY <1>1, AsideClear
<1>3. Same
  BY <1>1, GoesSame
<1>4. ServerInv'
  BY <1>1, <1>3, OnwardServer
<1>5. (Local /\ ServerInv)'
  BY <1>2, <1>4
<1> QED
  BY <1>5, ClearParts, PTL

LEMMA StaysOnward ==
  ASSUME TypeOK
  PROVE  Onward(jobs)
BY StaysMoved DEF Onward

LEMMA SameGoes ==
  ASSUME TypeOK, edits' = edits
  PROVE  Goes
BY DEF Goes, Keeps, Alike, TypeOK

(* Cells of active edits get their values back.                            *)
LEMMA RevertClear ==
  ASSUME Both, ClearInv, NEW es, Bears(es),
         \A d \in DOMAIN edits : Keeps(es[d], edits[d]),
         \A d \in DOMAIN edits : es[d].pc \in {"open", "removed"} =>
            es[d].pc = edits[d].pc,
         NEW E \in SUBSET (DOMAIN edits), \A d \in E : Active(d),
         \A d \in DOMAIN edits \ E : es[d].pc = edits[d].pc,
         Reverts(E, es, focus), stale' = stale, Worthy, Onward(jobs'),
         \A j \in Under(jobs) : j \in Under(jobs') \/ jobs[j].edit \in E
  PROVE  ClearInv'
<1>1. TypeInv /\ Local /\ ServerInv /\ Moves(jobs') /\ rows' = rows
  BY ClearParts DEF Both, Onward, Worthy
<1>2. Local'
  BY <1>1, BackClear
<1>3. Same
  <2>1. Goes
    BY <1>1, RevertsGoes
  <2> QED
    BY <1>1, <2>1, GoesSame
<1>4. ServerInv'
  BY <1>1, <1>3, OnwardServer
<1>5. (Local /\ ServerInv)'
  BY <1>2, <1>4
<1> QED
  BY <1>5, ClearParts, PTL

LEMMA RestWorthy ==
  ASSUME Rest
  PROVE  Worthy /\ stale' = stale
BY DEF Rest, Worthy

LEMMA DialogsActive ==
  ASSUME TypeInv
  PROVE  \A d \in {jobs[j].edit : j \in Dialogs} : d \in DOMAIN edits /\ Active(d)
BY DEF TypeInv, JobInv, Dialogs, Active, Under

(* An edit that hears the keyboard is active.                              *)
LEMMA HearsActive ==
  ASSUME Both, ClearInv, NEW e \in DOMAIN edits, Hears(e) \/ edits[e].pc = "open"
  PROVE  Active(e)
<1>1. e \in 1..Len(edits)
  BY EditsAre DEF Both, TypeInv
<1>2. focus = e => In(e)
  BY <1>1 DEF Both, TypeInv, TypeOK
<1> QED
  BY <1>2 DEF Hears, ClearInv, WidgetInv, Active

LEMMA EnterClear ==
  ASSUME Both, ClearInv, NEW e \in DOMAIN edits, Enter(e), ~tangled'
  PROVE  ClearInv'
<1>1. PICK v \in Values(edits[e].col) : Commits(e, v, Confirmed, focus)
  BY DEF Enter
<1>2. edits[e].cancelled # "yes"
  BY NotCancelled DEF Enter
<1>3. Onward(Confirmed) /\ Under(Confirmed) = Under(jobs)
  BY AnswersOnward DEF Confirmed, Both, TypeInv
<1> QED
  BY <1>1, <1>2, <1>3, CommitClear DEF Enter

LEMMA BlurClear ==
  ASSUME Both, ClearInv, NEW e \in DOMAIN edits, Blur(e), ~tangled'
  PROVE  ClearInv'
<1>1. Onward(jobs) /\ TypeOK
  BY StaysOnward DEF Both, TypeInv
<1>2. CASE edits[e].kind = "text" /\ edits[e].pc = "open"
  <2>1. PICK v \in Values(edits[e].col) : Commits(e, v, jobs, 0)
    BY <1>2 DEF Blur
  <2>2. edits[e].cancelled # "yes"
    BY <1>2, NotCancelled
  <2> QED
    BY <1>1, <2>1, <2>2, CommitClear DEF Blur
<1>3. CASE ~(edits[e].kind = "text" /\ edits[e].pc = "open")
  <2>1. edits' = edits /\ jobs' = jobs /\ shown' = shown /\ Rest
    BY <1>3 DEF Blur, Rest
  <2> QED
    BY <1>1, <2>1, RestWorthy, SameGoes, IdleClear
<1> QED
  BY <1>2, <1>3

LEMMA BlurLateClear ==
  ASSUME Both, ClearInv, NEW e \in DOMAIN edits, BlurLate(e), ~tangled'
  PROVE  ClearInv'
<1>1. /\ Onward(jobs) /\ edits[e].cancelled = "no" /\ edits[e].pc = "removed"
      /\ TypeOK
  BY StaysOnward, NotCancelled DEF Both, TypeInv, BlurLate
<1>2. CASE \E v \in Values(edits[e].col) \ {edits[e].original} :
             Commits(e, v, jobs, focus)
  BY <1>1, <1>2, CommitClear DEF BlurLate
<1>3. CASE /\ edits' = [edits EXCEPT ![e].pc = "over"]
           /\ UNCHANGED <<jobs, shown, focus, tangled>>
  <2> DEFINE x == [edits[e] EXCEPT !.pc = "over"]
  <2>1. edits[e] \in Edit /\ edits' = [edits EXCEPT ![e] = x]
    BY <1>1, <1>3, EditsAre
  <2>2. x \in Edit /\ Alike(x, edits[e]) /\ Keeps(x, edits[e]) /\ x.pc = "over"
    BY <2>1 DEF Edit, Alike, Keeps, Settled
  <2> HIDE DEF x
  <2>3. /\ Bears(edits') /\ edits'[e] = x
        /\ \A d \in DOMAIN edits \ {e} : edits'[d] = edits[d]
    BY <1>1, <2>1, <2>2, RewriteBears
  <2>4. Goes
    BY <2>2, <2>3 DEF Goes, Bears, Keeps, Alike
  <2>5. Rest
    BY <1>3 DEF BlurLate, Rest
  <2> QED
    BY <1>1, <1>3, <2>2, <2>3, <2>4, <2>5, RestWorthy, IdleClear
<1> QED
  BY <1>2, <1>3 DEF BlurLate

LEMMA ClickAwayClear ==
  ASSUME Both, ClearInv, NEW e \in DOMAIN edits, ClickAway(e), ~tangled'
  PROVE  ClearInv'
<1>1. Onward(jobs) /\ edits[e].cancelled # "yes"
  BY StaysOnward DEF Both, TypeInv, CancelInv, ClickAway
<1>2. PICK v \in Values(edits[e].col) : Commits(e, v, jobs, focus)
  BY DEF ClickAway
<1> QED
  BY <1>1, <1>2, CommitClear DEF ClickAway

LEMMA PickClear ==
  ASSUME Both, ClearInv, NEW e \in DOMAIN edits, Pick(e), ~tangled'
  PROVE  ClearInv'
<1>1. Onward(jobs) /\ edits[e].cancelled # "yes"
  BY StaysOnward, NotCancelled DEF Both, TypeInv, Pick, MenuOpen
<1>2. PICK v \in Values(edits[e].col) : Commits(e, v, jobs, focus)
  BY DEF Pick
<1> QED
  BY <1>1, <1>2, CommitClear DEF Pick

LEMMA FrameClear ==
  ASSUME Both, ClearInv, NEW e \in DOMAIN edits, Frame(e)
  PROVE  ClearInv'
<1> DEFINE x == [edits[e] EXCEPT !.frame = FALSE, !.armed = edits[e].kind = "date"]
<1>1. /\ edits[e] \in Edit /\ edits' = [edits EXCEPT ![e] = x] /\ TypeOK
  BY EditsAre DEF Both, TypeInv, Frame
<1>2. x \in Edit /\ Alike(x, edits[e]) /\ x.pc = edits[e].pc
  BY <1>1 DEF Edit, Alike
<1> HIDE DEF x
<1>3. /\ Bears(edits') /\ edits'[e] = x
      /\ \A d \in DOMAIN edits \ {e} : edits'[d] = edits[d]
  BY <1>1, <1>2, RewriteBears
<1>4. Goes /\ \A d \in DOMAIN edits : edits'[d].pc = edits[d].pc
  BY <1>2, <1>3 DEF Goes, Bears, Keeps, Alike
<1>5. Rest /\ jobs' = jobs /\ shown' = shown
  BY DEF Frame, Rest
<1> QED
  BY <1>1, <1>4, <1>5, RestWorthy, StaysOnward, IdleClear

(* Edits that are over, and the dialogs that were answered no.             *)
LEMMA EndClear ==
  ASSUME Both, ClearInv, NEW e \in DOMAIN edits, NEW x \in Edit,
         Alike(x, edits[e]), x.pc = "over", Active(e),
         NEW E \in SUBSET (DOMAIN edits), e \in E, \A d \in E : Active(d),
         Reverts(E, [edits EXCEPT ![e] = x], focus), Rest, Onward(jobs'),
         \A j \in Under(jobs) : j \in Under(jobs') \/ jobs[j].edit \in E
  PROVE  ClearInv'
<1> DEFINE es == [edits EXCEPT ![e] = x]
<1>1. /\ Bears(es) /\ es[e] = x
      /\ \A d \in DOMAIN edits \ {e} : es[d] = edits[d]
  BY RewriteBears DEF Both, TypeInv
<1>2. Reverts(E, es, focus)
  OBVIOUS
<1> HIDE DEF es
<1>3. \A d \in DOMAIN edits : Keeps(es[d], edits[d])
  BY <1>1 DEF Keeps, Alike, Settled
<1>4. /\ \A d \in DOMAIN edits : es[d].pc \in {"open", "removed"} =>
            es[d].pc = edits[d].pc
      /\ \A d \in DOMAIN edits \ E : es[d].pc = edits[d].pc
  BY <1>1
<1>5. Worthy /\ stale' = stale
  BY RestWorthy
<1> QED
  BY <1>1, <1>2, <1>3, <1>4, <1>5, RevertClear

LEMMA EscapeClear ==
  ASSUME Both, ClearInv, NEW e \in DOMAIN edits, Escape(e)
  PROVE  ClearInv'
<1> DEFINE x == [edits[e] EXCEPT !.pc = "over", !.cancelled = When(e), !.armed = FALSE]
           E == {jobs[j].edit : j \in Dialogs} \cup {e}
<1>1. /\ edits \in [DOMAIN edits -> Edit] /\ TypeOK /\ TypeInv
      /\ E \in SUBSET (DOMAIN edits)
  BY EditsAre, DialogsEdits DEF Both, TypeInv
<1>2. [edits EXCEPT ![e].pc = "over", ![e].cancelled = When(e), ![e].armed = FALSE]
        = [edits EXCEPT ![e] = x]
  BY <1>1 DEF When
<1>3. Reverts(E, [edits EXCEPT ![e] = x], focus)
  BY <1>2 DEF Escape
<1>4. x \in Edit /\ Alike(x, edits[e]) /\ x.pc = "over"
  BY ZenonT(40), <1>1 DEF Edit, Alike, When
<1>5. Active(e)
  BY HearsActive DEF Escape
<1>6. e \in E /\ \A d \in E : Active(d)
  BY <1>1, <1>5, DialogsActive
<1>7. Onward(jobs') /\ \A j \in Under(jobs) : j \in Under(jobs') \/ j \in Dialogs
  BY <1>1, AnswersOnward DEF Escape, Declined
<1>8. \A j \in Under(jobs) : j \in Under(jobs') \/ jobs[j].edit \in E
  BY <1>7
<1>9. Rest
  BY DEF Escape, Rest
<1> HIDE DEF E, x
<1> QED
  BY <1>1, <1>3, <1>4, <1>5, <1>6, <1>7, <1>8, <1>9, EndClear

LEMMA DismissClear ==
  ASSUME Both, ClearInv, NEW e \in DOMAIN edits, Dismiss(e)
  PROVE  ClearInv'
<1> DEFINE x == [edits[e] EXCEPT !.pc = "over", !.cancelled = When(e)]
<1>1. edits \in [DOMAIN edits -> Edit] /\ TypeOK
  BY EditsAre DEF Both, TypeInv
<1>2. [edits EXCEPT ![e].pc = "over", ![e].cancelled = When(e)]
        = [edits EXCEPT ![e] = x]
  BY <1>1
<1>3. Reverts({e}, [edits EXCEPT ![e] = x], focus)
  BY <1>2 DEF Dismiss
<1>4. x \in Edit /\ Alike(x, edits[e]) /\ x.pc = "over"
  BY <1>1 DEF Edit, Alike, When
<1>5. Active(e)
  BY HearsActive DEF Dismiss, MenuOpen
<1>6. Rest /\ jobs' = jobs /\ Onward(jobs')
  BY <1>1, StaysOnward DEF Dismiss, Rest
<1> HIDE DEF x
<1> QED
  BY <1>3, <1>4, <1>5, <1>6, EndClear

LEMMA RefocusClear ==
  ASSUME Both, ClearInv, NEW e \in DOMAIN edits, Refocus(e)
  PROVE  ClearInv'
<1>1. /\ edits' = edits /\ shown' = shown /\ jobs' = jobs /\ Rest /\ TypeOK
  BY DEF Refocus, Rest, Both, TypeInv
<1> QED
  BY <1>1, SameGoes, StaysOnward, RestWorthy, IdleClear

(* Answers of dialogs: no gives the cells back.                            *)
LEMMA AnswerClear ==
  ASSUME Both, ClearInv, NEW E \in SUBSET (DOMAIN edits), \A d \in E : Active(d),
         Reverts(E, edits, focus), Worthy, stale' = stale, Onward(jobs'),
         \A j \in Under(jobs) : j \in Under(jobs') \/ jobs[j].edit \in E
  PROVE  ClearInv'
<1>1. /\ Bears(edits) /\ \A d \in DOMAIN edits : Keeps(edits[d], edits[d])
  BY SameBears DEF Both, TypeInv, Keeps, Alike
<1> QED
  BY <1>1, RevertClear

LEMMA ClickClear ==
  ASSUME Both, ClearInv, Click
  PROVE  ClearInv'
<1>1. Rest /\ TypeOK /\ TypeInv
  BY DEF Click, Rest, Both, TypeInv
<1>2. PICK j : j = Latest(Dialogs)
  OBVIOUS
<1>3. j \in Dialogs
  <2>1. DOMAIN jobs = 1..Len(jobs) /\ Len(jobs) \in Nat
    BY <1>1, EditsAre
  <2>2. Dialogs \in SUBSET (1..Len(jobs)) /\ Dialogs # {}
    BY <2>1 DEF Dialogs, Click
  <2> QED
    BY <1>2, <2>1, <2>2, GreatestNatural
<1>4. j \in DOMAIN jobs /\ jobs[j].pc # "done" /\ jobs[j].pc # "ok"
  BY <1>3 DEF Dialogs
<1>5. CASE jobs' = [jobs EXCEPT ![j].pc = "post"] /\ UNCHANGED <<shown, edits, focus>>
  <2>1. Onward(jobs') /\ Under(jobs') = Under(jobs)
    BY <1>1, <1>4, <1>5, OneOnward
  <2> QED
    BY <1>1, <1>5, <2>1, RestWorthy, SameGoes, IdleClear
<1>6. CASE jobs' = [jobs EXCEPT ![j].pc = "done"] /\ Reverts({jobs[j].edit}, edits, focus)
  <2>1. Onward(jobs') /\ Under(jobs) \ {j} \subseteq Under(jobs')
    BY <1>1, <1>4, <1>6, OneOnward
  <2>2. PICK E : E = {jobs[j].edit}
    OBVIOUS
  <2>3. E \in SUBSET (DOMAIN edits) /\ \A d \in E : Active(d)
    BY <1>1, <1>3, <2>2, DialogsActive
  <2>4. \A i \in Under(jobs) : i \in Under(jobs') \/ jobs[i].edit \in E
    BY <2>1, <2>2
  <2> QED
    BY <1>1, <1>6, <2>1, <2>2, <2>3, <2>4, RestWorthy, AnswerClear
<1> QED
  BY <1>2, <1>5, <1>6 DEF Click

LEMMA PressClear ==
  ASSUME Both, ClearInv, Press
  PROVE  ClearInv'
<1>1. Rest /\ TypeOK /\ TypeInv
  BY DEF Press, Rest, Both, TypeInv
<1>2. CASE jobs' = Confirmed /\ UNCHANGED <<shown, edits, focus>>
  <2>1. Onward(jobs') /\ Under(jobs') = Under(jobs)
    BY <1>1, <1>2, AnswersOnward DEF Confirmed
  <2> QED
    BY <1>1, <1>2, <2>1, RestWorthy, SameGoes, IdleClear
<1>3. CASE jobs' = Declined /\ Reverts({jobs[j].edit : j \in Dialogs}, edits, focus)
  <2>1. Onward(jobs') /\ \A j \in Under(jobs) : j \in Under(jobs') \/ j \in Dialogs
    BY <1>1, <1>3, AnswersOnward DEF Declined
  <2>2. PICK E : E = {jobs[j].edit : j \in Dialogs}
    OBVIOUS
  <2>3. E \in SUBSET (DOMAIN edits) /\ \A d \in E : Active(d)
    BY <1>1, <2>2, DialogsEdits, DialogsActive
  <2>4. \A j \in Under(jobs) : j \in Under(jobs') \/ jobs[j].edit \in E
    BY <2>1, <2>2
  <2> QED
    BY <1>1, <1>3, <2>1, <2>2, <2>3, <2>4, RestWorthy, AnswerClear
<1> QED
  BY <1>2, <1>3 DEF Press

LEMMA SearchClear ==
  ASSUME Both, ClearInv, Search
  PROVE  ClearInv'
<1>1. /\ edits' = edits /\ shown' = shown /\ jobs' = jobs /\ stale' = stale
      /\ Worthy /\ TypeOK
  BY DEF Search, Worthy, Both, TypeInv
<1> QED
  BY <1>1, SameGoes, StaysOnward, IdleClear

(* Nothing but what the server has, or what is known of it, changes.       *)
LEMMA ServedLocal ==
  ASSUME Both, ClearInv, edits' = edits, shown' = shown, rows' = rows,
         stale' = stale, Moves(jobs'), Under(jobs') = Under(jobs)
  PROVE  Local' /\ Same
<1>1. TypeInv /\ TypeOK /\ Local
  BY ClearParts DEF Both, TypeInv
<1>2. Goes
  BY <1>1, SameGoes
<1>3. Local'
  BY <1>1, <1>2, AsideClear
<1> QED
  BY <1>1, <1>2, <1>3, GoesSame

LEMMA OthersClear ==
  ASSUME Both, ClearInv, Others
  PROVE  ClearInv'
<1>1. /\ edits' = edits /\ shown' = shown /\ rows' = rows /\ stale' = stale
      /\ jobs' = jobs /\ TypeInv /\ TypeOK /\ ServerInv
  BY ClearParts DEF Others, Both, TypeInv
<1>2. Onward(jobs') /\ Moves(jobs')
  BY <1>1, StaysOnward DEF Onward
<1>3. Local' /\ Same
  BY <1>1, <1>2, ServedLocal
<1>4. PICK k \in Key : table' = [table EXCEPT ![k].live = FALSE]
  BY DEF Others
<1>5. \A m \in Key : table'[m].val = table[m].val
  BY <1>1, <1>4 DEF TypeOK
<1>6. Steady
  BY <1>1, <1>2, <1>3, OnwardSteady
<1>7. "lost" \in faults => "lost" \in faults'
  BY DEF Others, Fault
<1>8. \A r \in Row : table'[Known(r)].val = table[Known(r)].val
  <2>1. \A m : table'[m] = table[m] \/ m \in Key
    BY <1>1, <1>4 DEF TypeOK
  <2> QED
    BY <1>5, <2>1
<1>9. ServerInv'
  BY <1>1, <1>6, <1>7, <1>8, SteadyServer
<1>10. (Local /\ ServerInv)'
  BY <1>3, <1>9
<1> QED
  BY <1>10, ClearParts, PTL

LEMMA LoseClear ==
  ASSUME Both, ClearInv, NEW j \in DOMAIN jobs, Lose(j)
  PROVE  ClearInv'
<1>1. /\ edits' = edits /\ shown' = shown /\ rows' = rows /\ stale' = stale
      /\ "lost" \in faults' /\ TypeOK /\ jobs[j].pc \in {"post", "ok", "none"}
      /\ jobs' = [jobs EXCEPT ![j].pc = "error"]
  BY DEF Lose, Fault, Both, TypeInv
<1>2. /\ Moves(jobs') /\ jobs'[j].pc = "error"
      /\ \A i \in DOMAIN jobs \ {j} : jobs'[i] = jobs[i]
  BY <1>1, MovesOne
<1>3. Under(jobs') = Under(jobs)
  <2>1. DOMAIN jobs' = DOMAIN jobs
    BY <1>1, <1>2, MovesFit
  <2> QED
    BY <1>1, <1>2, <2>1 DEF Under
<1>4. Local'
  BY <1>1, <1>2, <1>3, ServedLocal
<1>5. ServerInv'
  BY <1>1 DEF ServerInv
<1>6. (Local /\ ServerInv)'
  BY <1>4, <1>5
<1> QED
  BY <1>6, ClearParts, PTL

LEMMA RedrawClear ==
  ASSUME Both, ClearInv, Redraw
  PROVE  ClearInv'
<1>1. /\ DOMAIN edits' = DOMAIN edits
      /\ \A e \in DOMAIN edits : edits'[e].attached = FALSE
      /\ \A e \in DOMAIN edits : \E x \in Edit :
           Lapsed(x, edits[e]) /\ edits'[e] = [x EXCEPT !.attached = FALSE]
  BY RedrawDoes
<1>2. /\ TypeInv /\ TypeOK /\ Local /\ ServerInv /\ jobs' = jobs /\ Worthy
      /\ rows' = rows /\ shown' = Drawn(rows)
  BY ClearParts DEF Redraw, Both, TypeInv, Worthy
<1>3. ASSUME NEW e \in DOMAIN edits
      PROVE  /\ edits'[e].row = edits[e].row /\ edits'[e].col = edits[e].col
             /\ edits'[e].original = edits[e].original
             /\ edits'[e].pc \in {"open", "removed"} => edits[e].pc \in {"open", "removed"}
  <2>1. PICK x \in Edit : Lapsed(x, edits[e])
                          /\ edits'[e] = [x EXCEPT !.attached = FALSE]
    BY <1>1
  <2>2. edits[e] \in Edit
    BY <1>2, EditsAre
  <2> QED
    BY <2>1, <2>2 DEF Lapsed, Edit
<1>4. Same /\ Calmer
  BY <1>1, <1>3 DEF Same, Calmer
<1>5. Onward(jobs') /\ Moves(jobs')
  BY <1>2, StaysOnward DEF Onward
<1>6. OneInv' /\ OriginalInv'
  BY <1>2, <1>4, <1>5, ActiveBefore, SameOne DEF Local
<1>7. ApartInv' /\ AddressInv'
  BY <1>2, <1>4, <1>5, MovedApart DEF Local
<1>8. WidgetInv'
  BY <1>1 DEF WidgetInv, In
<1>9. DisplayInv'
  <2>1. rows \in [Row -> [key : Key, val : Val]]
    BY <1>2 DEF TypeOK
  <2>2. \A r \in Row, c \in Col : shown'[r][c].val = rows[r][c]
    BY <1>2, <2>1, DrawnIs
  <2> QED
    BY <1>2, <2>2 DEF DisplayInv
<1>10. ServerInv'
  BY <1>2, <1>4, <1>5, OnwardServer
<1>11. (Local /\ ServerInv)'
  BY <1>6, <1>7, <1>8, <1>9, <1>10 DEF Local
<1> QED
  BY <1>11, ClearParts, PTL

LEMMA BeginClear ==
  ASSUME Both, ClearInv, Begin, ~tangled'
  PROVE  ClearInv'
<1> DEFINE n == Len(edits)
<1>1. PICK r \in drawn, c \in Col : Begun(r, c)
  BY BeginDoes
<1>2. /\ TypeInv /\ TypeOK /\ Local /\ ServerInv /\ jobs' = jobs /\ rows' = rows
      /\ stale' = stale /\ faults' = faults /\ table' = table
  BY ClearParts DEF Begin, Both, TypeInv
<1>3. /\ n \in Nat /\ DOMAIN edits = 1..n /\ edits \in [1..n -> Edit] /\ r \in Row
      /\ shown \in [Row -> Slot]
  BY <1>2, EditsAre DEF TypeOK, Slot
<1>4. ASSUME NEW e \in DOMAIN edits
      PROVE  /\ Alike(edits'[e], edits[e]) /\ Lapsed(edits'[e], edits[e])
             /\ edits[e] \in Edit
             /\ edits'[e].pc \in {"open", "removed"} => edits[e].pc \in {"open", "removed"}
             /\ edits[e].pc # "open" => edits'[e].pc = edits[e].pc
  <2>1. /\ Lapsed(edits'[e], edits[e]) /\ Alike(edits'[e], edits[e])
        /\ edits[e] \in Edit
    BY <1>1, <1>3 DEF Begun
  <2> QED
    BY <2>1 DEF Lapsed, Edit
<1>5. /\ DOMAIN edits' = DOMAIN edits \cup {n + 1} /\ n + 1 \notin DOMAIN edits
      /\ edits'[n + 1] = Fresh(r, c)
      /\ shown' = [shown EXCEPT ![r][c].edit = n + 1]
      /\ \A e \in DOMAIN edits : Live(e) => e = shown[r][c].edit
      /\ ~\E j \in Under(jobs) : Cell(jobs[j].edit) = <<r, c>>
      /\ ~(shown[r][c].edit # 0 /\ Live(shown[r][c].edit))
  BY <1>1 DEF Begun
<1>6. /\ shown'[r][c].edit = n + 1 /\ n + 1 # 0
      /\ \A q \in Row, d \in Col : <<q, d>> # <<r, c>> => shown'[q][d] = shown[q][d]
      /\ \A q \in Row, d \in Col : shown'[q][d].val = shown[q][d].val
  BY <1>3, <1>5 DEF Slot, Col
<1>7. /\ edits'[n + 1].row = r /\ edits'[n + 1].col = c /\ edits'[n + 1].pc = "open"
      /\ edits'[n + 1].original = rows[r][c]
  BY <1>5 DEF Fresh
<1> HIDE DEF n
<1>8. \A e \in DOMAIN edits : edits[e].pc # "open" /\ edits[e].pc # "removed"
  <2>1. \A e \in DOMAIN edits : edits[e].pc # "removed"
    BY DEF Begin, Calm
  <2>2. ASSUME NEW e \in DOMAIN edits, edits[e].pc = "open" PROVE FALSE
    <3>1. Live(e)
      BY <2>2 DEF Live
    <3>2. e = shown[r][c].edit
      BY <1>5, <3>1
    <3>3. e # 0
      BY <1>3
    <3> QED
      BY <1>5, <3>1, <3>2, <3>3
  <2> QED
    BY <2>1, <2>2
<1>9. \A j \in DOMAIN jobs : jobs[j].edit \in DOMAIN edits
  BY <1>2 DEF TypeInv, JobInv
<1>10. \A j \in Under(jobs) : j \in DOMAIN jobs
  BY DEF Under
<1>11. ASSUME NEW e \in DOMAIN edits'
       PROVE  \/ e = n + 1 /\ Active(e)'
              \/ e \in DOMAIN edits /\ e # n + 1 /\ (Active(e)' <=> Active(e))
  <2>1. CASE e = n + 1
    BY <1>7, <2>1 DEF Active
  <2>2. CASE e # n + 1
    <3>1. e \in DOMAIN edits
      BY <1>5, <2>2
    <3>2. edits'[e].pc = edits[e].pc
      BY <1>4, <1>8, <3>1
    <3> QED
      BY <1>2, <2>2, <3>1, <3>2 DEF Active
  <2> QED
    BY <2>1, <2>2
<1>12. ASSUME NEW e \in DOMAIN edits, Active(e) PROVE Cell(e) # <<r, c>>
  <2>1. PICK j \in Under(jobs) : jobs[j].edit = e
    BY <1>8, <1>12 DEF Active
  <2> QED
    BY <1>5, <2>1
<1>13. OneInv'
  <2> SUFFICES ASSUME NEW e \in DOMAIN edits', NEW d \in DOMAIN edits',
                      Active(e)', Active(d)',
                      edits'[e].row = edits'[d].row, edits'[e].col = edits'[d].col
               PROVE  e = d
    BY DEF OneInv, Cell
  <2>1. CASE e = n + 1 /\ d # n + 1
    BY <1>4, <1>7, <1>11, <1>12, <2>1 DEF Cell, Alike
  <2>2. CASE d = n + 1 /\ e # n + 1
    BY <1>4, <1>7, <1>11, <1>12, <2>2 DEF Cell, Alike
  <2>3. CASE d # n + 1 /\ e # n + 1
    <3>1. /\ d \in DOMAIN edits /\ e \in DOMAIN edits /\ Active(d) /\ Active(e)
      BY <1>11, <2>3
    <3>2. Cell(d) = Cell(e)
      BY <1>4, <3>1 DEF Cell, Alike
    <3> QED
      BY <1>2, <3>1, <3>2 DEF Local, OneInv
  <2> QED
    BY <2>1, <2>2, <2>3
<1>14. WidgetInv'
  <2> SUFFICES ASSUME NEW e \in DOMAIN edits', In(e)'
               PROVE  Active(e)' /\ edits'[e].pc # "removed"
    BY DEF WidgetInv
  <2>1. CASE e = n + 1
    BY <1>7, <1>11, <2>1
  <2>2. CASE e # n + 1
    <3>1. e \in DOMAIN edits /\ (Active(e)' <=> Active(e))
      BY <1>11, <2>2
    <3>2. PICK q \in Row, d \in Col : edits[e].row = q /\ edits[e].col = d
      BY <1>3, <3>1 DEF Edit
    <3>3. edits[e].attached /\ shown'[q][d].edit = e
      BY <1>4, <3>1, <3>2 DEF In, Alike
    <3>4. shown[q][d].edit = e
      BY <1>6, <2>2, <3>3
    <3>5. In(e)
      BY <3>2, <3>3, <3>4 DEF In
    <3> QED
      BY <1>2, <1>4, <1>8, <3>1, <3>5 DEF Local, WidgetInv
  <2> QED
    BY <2>1, <2>2
<1>15. OriginalInv'
  <2> SUFFICES ASSUME NEW e \in DOMAIN edits', Active(e)'
               PROVE  edits'[e].original = rows'[edits'[e].row][edits'[e].col]
    BY DEF OriginalInv
  <2>1. CASE e = n + 1
    BY <1>2, <1>7, <2>1
  <2>2. CASE e # n + 1
    <3>1. e \in DOMAIN edits /\ Active(e)
      BY <1>11, <2>2
    <3> QED
      BY <1>2, <1>4, <3>1 DEF Local, OriginalInv, Alike
  <2> QED
    BY <2>1, <2>2
<1>16. \A j \in DOMAIN jobs : /\ edits'[jobs[j].edit].row = edits[jobs[j].edit].row
                              /\ edits'[jobs[j].edit].col = edits[jobs[j].edit].col
  BY <1>4, <1>9 DEF Alike
<1>17. ApartInv'
  BY <1>2, <1>10, <1>16 DEF Local, ApartInv, Apart
<1>18. AddressInv'
  BY <1>2, <1>10, <1>16 DEF Local, AddressInv
<1>19. DisplayInv'
  <2> SUFFICES ASSUME NEW q \in Row, NEW d \in Col, shown'[q][d].edit = 0
               PROVE  <<q, d>> \in stale \/ shown'[q][d].val = rows[q][d]
    BY <1>2 DEF DisplayInv
  <2>1. shown'[q][d] = shown[q][d]
    BY <1>6
  <2> QED
    BY <1>2, <2>1 DEF Local, DisplayInv
<1>20. Steady
  <2>1. \A j \in DOMAIN jobs : Cell(jobs[j].edit)' = Cell(jobs[j].edit)
    BY <1>2, <1>16 DEF Cell
  <2> QED
    BY <1>2, <2>1 DEF Steady, Done
<1>21. ServerInv'
  BY <1>2, <1>20, SteadyServer
<1>22. (Local /\ ServerInv)'
  BY <1>13, <1>14, <1>15, <1>17, <1>18, <1>19, <1>21 DEF Local
<1> QED
  BY <1>22, ClearParts, PTL

-----------------------------------------------------------------------------
(* An update at the server, and its answer.                                *)

LEMMA KnownServer ==
  ASSUME ServerInv, "lost" \in faults => "lost" \in faults',
         \A r \in Row : Known(r)' = Known(r) /\ Worth(r)' = Worth(r),
         \A r \in Row : table'[Known(r)].val = table[Known(r)].val
  PROVE  ServerInv'
<1> SUFFICES ASSUME "lost" \notin faults', NEW r \in Row,
                    \A q \in Row \ {r} : Known(q)' # Known(r)'
             PROVE  table'[Known(r)'].val = Worth(r)'
  BY DEF ServerInv
<1>1. \A q \in Row \ {r} : Known(q) # Known(r)
  OBVIOUS
<1>2. table[Known(r)].val = Worth(r)
  BY <1>1 DEF ServerInv
<1> QED
  BY <1>2

LEMMA KnownIs ==
  ASSUME NEW r \in Row
  PROVE  /\ Known(r) = IF Done(r, "key") = {} THEN rows[r].key
                       ELSE jobs[Latest(Done(r, "key"))].next
         /\ Known(r)' = IF Done(r, "key")' = {} THEN rows'[r].key
                        ELSE jobs'[Latest(Done(r, "key")')].next
         /\ Worth(r) = IF Done(r, "val") = {} THEN rows[r].val
                       ELSE jobs[Latest(Done(r, "val"))].next
         /\ Worth(r)' = IF Done(r, "val")' = {} THEN rows'[r].val
                        ELSE jobs'[Latest(Done(r, "val")')].next
BY DEF Known, Worth, Done

LEMMA LatestOne ==
  ASSUME TypeOK, NEW j \in DOMAIN jobs
  PROVE  Latest({j}) = j
<1>1. Len(jobs) \in Nat /\ {j} \in SUBSET (1..Len(jobs)) /\ {j} # {}
  BY EditsAre
<1> QED
  BY <1>1, GreatestNatural

LEMMA LatestDone ==
  ASSUME TypeOK, NEW r \in Row, NEW c \in Col, Done(r, c) # {}
  PROVE  Latest(Done(r, c)) \in Done(r, c) /\ Latest(Done(r, c)) \in DOMAIN jobs
<1>1. Len(jobs) \in Nat /\ Done(r, c) \in SUBSET (1..Len(jobs))
  BY EditsAre DEF Done
<1> QED
  BY <1>1, GreatestNatural DEF Done

(* A row none of whose answers changed.                                    *)
LEMMA KnownStays ==
  ASSUME TypeOK, Moves(jobs'), NEW r \in Row, rows'[r] = rows[r]
  PROVE  /\ Done(r, "key")' = Done(r, "key") => Known(r)' = Known(r)
         /\ Done(r, "val")' = Done(r, "val") => Worth(r)' = Worth(r)
<1>1. \A i \in DOMAIN jobs : jobs'[i].next = jobs[i].next
  BY DEF Moves, Moved
<1>2. ASSUME NEW c \in Col, Done(r, c) # {}
      PROVE  jobs'[Latest(Done(r, c))].next = jobs[Latest(Done(r, c))].next
  BY <1>1, <1>2, LatestDone
<1> QED
  BY <1>2, KnownIs DEF Col

LEMMA KnownKey ==
  ASSUME TypeInv, NEW r \in Row
  PROVE  Known(r) \in Key
<1>1. rows[r].key \in Key /\ TypeOK
  BY DEF TypeInv, TypeOK
<1>2. ASSUME Done(r, "key") # {} PROVE jobs[Latest(Done(r, "key"))].next \in Key
  <2>1. PICK j \in Done(r, "key") : j = Latest(Done(r, "key"))
    BY <1>1, <1>2, LatestDone DEF Col
  <2>2. j \in DOMAIN jobs /\ edits[jobs[j].edit].col = "key"
    BY DEF Done, Cell
  <2> QED
    BY <2>1, <2>2, JobFields
<1> QED
  BY <1>1, <1>2, KnownIs

(* The update of a cell is the only one of its row that can be answered.   *)
LEMMA AloneOnRow ==
  ASSUME TypeInv, ApartInv, NEW j \in Under(jobs), NEW r, NEW c,
         Cell(jobs[j].edit) = <<r, c>>
  PROVE  /\ Done(r, c) \subseteq {j} /\ Done(r, "key") \subseteq {j}
         /\ c = "key" => Done(r, "val") \subseteq {j}
<1>1. ASSUME NEW i \in DOMAIN jobs, jobs[i].pc = "ok", i # j,
             edits[jobs[i].edit].row = r
      PROVE  edits[jobs[i].edit].col # c /\ "key" \notin {edits[jobs[i].edit].col, c}
  <2>1. i \in Under(jobs)
    BY <1>1 DEF Under
  <2>2. Apart(jobs[i].edit, jobs[j].edit)
    BY <1>1, <2>1 DEF ApartInv
  <2> QED
    BY <1>1, <2>2 DEF Apart, Cell
<1> QED
  BY <1>1 DEF Done, Cell

LEMMA OneMoves ==
  ASSUME TypeOK, NEW j \in DOMAIN jobs, NEW pc, jobs[j].pc # "done",
         pc \in {"post", "ok", "none", "error", "done"},
         jobs' = [jobs EXCEPT ![j].pc = pc]
  PROVE  /\ Moves(jobs') /\ jobs'[j].pc = pc
         /\ \A i \in DOMAIN jobs \ {j} : jobs'[i] = jobs[i]
<1> DEFINE js == [i \in DOMAIN jobs |->
                    IF i \in {j} THEN [jobs[i] EXCEPT !.pc = pc] ELSE jobs[i]]
<1>1. jobs \in [DOMAIN jobs -> Job]
  BY EditsAre
<1>2. jobs' = js
  BY <1>1
<1>3. Moves(js)
  BY MovesTo
<1>4. js[j].pc = pc /\ \A i \in DOMAIN jobs \ {j} : js[i] = jobs[i]
  BY <1>1 DEF Job
<1> HIDE DEF js
<1> QED
  BY <1>2, <1>3, <1>4

(* The answers after job j moved on to pc.                                 *)
LEMMA DoneAfter ==
  ASSUME TypeInv, NEW j \in DOMAIN jobs, NEW pc, Same,
         jobs' = [jobs EXCEPT ![j].pc = pc],
         pc \in {"post", "ok", "none", "error", "done"}, jobs[j].pc # "done"
  PROVE  \A q, d : Done(q, d)' =
           IF pc = "ok" /\ Cell(jobs[j].edit) = <<q, d>>
           THEN Done(q, d) \cup {j} ELSE Done(q, d) \ {j}
<1>1. /\ Moves(jobs') /\ jobs'[j].pc = pc
      /\ \A i \in DOMAIN jobs \ {j} : jobs'[i] = jobs[i]
  BY OneMoves DEF TypeInv
<1>2. DOMAIN jobs' = DOMAIN jobs
  BY <1>1, MovesFit DEF TypeInv
<1>3. \A i \in DOMAIN jobs : Cell(jobs[i].edit)' = Cell(jobs[i].edit)
  BY <1>1 DEF Moves, Moved, Same, TypeInv, JobInv, Cell
<1> QED
  BY <1>1, <1>2, <1>3 DEF Done

LEMMA ServeClear ==
  ASSUME Both, ClearInv, NEW j \in DOMAIN jobs, Serve(j), ~tangled'
  PROVE  ClearInv'
<1>1. /\ TypeInv /\ TypeOK /\ Local /\ ServerInv /\ ApartInv /\ AddressInv
      /\ edits' = edits /\ shown' = shown /\ rows' = rows /\ stale' = stale
      /\ faults' = faults /\ jobs[j].pc = "post" /\ jobs[j].pc # "done"
  BY ClearParts DEF Serve, Both, TypeInv, Local
<1>2. PICK e \in DOMAIN edits, r \in Row, c \in Col :
        e = jobs[j].edit /\ edits[e].row = r /\ edits[e].col = c
  BY <1>1, JobFields
<1>3. PICK pk \in Key, to \in Values(c) : pk = jobs[j].pk /\ to = jobs[j].next
  <2>1. jobs[j].pk \in Key
    BY <1>1, JobFields
  <2>2. jobs[j].next \in Values(c)
    BY <1>1, <1>2 DEF TypeInv, JobInv
  <2> QED
    BY <2>1, <2>2
<1>4. to \in Values(c)
  BY <1>3
<1>5. j \in Under(jobs) /\ Cell(jobs[j].edit) = <<r, c>>
  BY <1>1, <1>2 DEF Under, Cell
<1>6. j \notin Done(r, c) /\ j \notin Done(r, "key") /\ j \notin Done(r, "val")
  BY <1>1 DEF Done
<1>7. Done(r, c) = {} /\ Done(r, "key") = {} /\ (c = "key" => Done(r, "val") = {})
  BY <1>1, <1>5, <1>6, AloneOnRow
<1>8. Known(r) = pk /\ \A q \in Row \ {r} : Known(q) # pk
  <2>1. Known(r) = rows[r].key
    BY <1>7, KnownIs
  <2>2. jobs[j].pk = rows[r].key
    BY <1>1, <1>2, <1>5 DEF AddressInv
  <2>3. \A q \in Row : q # r => Known(q) # jobs[j].pk
    BY <1>2 DEF Serve
  <2> QED
    BY <1>3, <2>1, <2>2, <2>3
<1>9. table \in [Key -> [live : BOOLEAN, val : Val]]
  BY <1>1 DEF TypeOK
<1>10. ASSUME NEW pc \in {"none", "ok", "error"}, jobs' = [jobs EXCEPT ![j].pc = pc]
       PROVE  /\ Moves(jobs') /\ Local' /\ Same
              /\ \A q, d : Done(q, d)' = IF pc = "ok" /\ <<r, c>> = <<q, d>>
                                         THEN Done(q, d) \cup {j}
                                         ELSE Done(q, d) \ {j}
              /\ jobs'[j].next = to
  <2>1. /\ Moves(jobs') /\ jobs'[j].pc = pc
        /\ \A i \in DOMAIN jobs \ {j} : jobs'[i] = jobs[i]
    BY <1>1, <1>10, OneMoves
  <2>2. Under(jobs') = Under(jobs)
    <3>1. DOMAIN jobs' = DOMAIN jobs
      BY <1>1, <2>1, MovesFit
    <3> QED
      BY <1>1, <2>1, <3>1 DEF Under
  <2>3. Local' /\ Same
    BY <1>1, <2>1, <2>2, ServedLocal
  <2>4. jobs'[j].next = to
    BY <1>3, <2>1 DEF Moves, Moved
  <2> QED
    <3>1. pc \in {"post", "ok", "none", "error", "done"}
      BY <1>10
    <3>2. \A q, d : Done(q, d)' =
            IF pc = "ok" /\ Cell(jobs[j].edit) = <<q, d>>
            THEN Done(q, d) \cup {j} ELSE Done(q, d) \ {j}
      BY <1>1, <1>10, <2>3, <3>1, DoneAfter
    <3> QED
      BY <1>5, <2>1, <2>3, <2>4, <3>2
<1>11. ASSUME NEW pc \in {"none", "error"}, jobs' = [jobs EXCEPT ![j].pc = pc],
              table' = table
       PROVE  Local' /\ ServerInv'
  <2>1. Onward(jobs')
    BY <1>1, <1>11, OneOnward
  <2>2. Local' /\ Same
    BY <1>10, <1>11
  <2>3. ServerInv'
    BY <1>1, <1>11, <2>1, <2>2, OnwardServer DEF Worthy
  <2> QED
    BY <2>2, <2>3
<1>12. ASSUME c = "val", jobs' = [jobs EXCEPT ![j].pc = "ok"],
              table' = [table EXCEPT ![pk].val = to]
       PROVE  Local' /\ ServerInv'
  <2>1. /\ Moves(jobs') /\ Local'
        /\ \A q, d : Done(q, d)' = IF <<r, c>> = <<q, d>>
                                   THEN Done(q, d) \cup {j} ELSE Done(q, d) \ {j}
        /\ jobs'[j].next = to
    BY <1>10, <1>12
  <2>2. \A q, d : j \notin Done(q, d)
    BY <1>1 DEF Done
  <2>3. \A q \in Row : Done(q, "key")' = Done(q, "key")
    BY <1>12, <2>1, <2>2
  <2>4. \A q \in Row \ {r} : Done(q, "val")' = Done(q, "val")
    BY <2>1, <2>2
  <2>5. Done(r, "val")' = {j}
    BY <1>7, <1>12, <2>1
  <2>6. \A q \in Row : Known(q)' = Known(q)
    BY <1>1, <2>1, <2>3, KnownStays
  <2>7. \A q \in Row \ {r} : Worth(q)' = Worth(q)
    BY <1>1, <2>1, <2>4, KnownStays
  <2>8. Worth(r)' = to
    BY <1>1, <2>1, <2>5, KnownIs, LatestOne
  <2>9. ServerInv'
    <3> SUFFICES ASSUME "lost" \notin faults', NEW q \in Row,
                        \A p \in Row \ {q} : Known(p)' # Known(q)'
                 PROVE  table'[Known(q)'].val = Worth(q)'
      BY DEF ServerInv
    <3>1. CASE q = r
      BY <1>8, <1>9, <1>12, <2>6, <2>8, <3>1
    <3>2. CASE q # r
      <4>1. table[Known(q)].val = Worth(q)
        BY <1>1, <2>6 DEF ServerInv
      <4>2. Known(q) # pk
        BY <1>8, <3>2
      <4>3. table'[Known(q)] = table[Known(q)] \/ Known(q) \notin Key
        BY <1>9, <1>12, <4>2
      <4>4. DOMAIN table' = Key /\ DOMAIN table = Key
        BY <1>9, <1>12
      <4>5. Known(q) \in Key
        BY <1>1, KnownKey
      <4> QED
        BY <2>6, <2>7, <3>2, <4>1, <4>3, <4>5
    <3> QED
      BY <3>1, <3>2
  <2> QED
    BY <2>1, <2>9
<1>13. ASSUME c = "key", jobs' = [jobs EXCEPT ![j].pc = "ok"],
              table' = [table EXCEPT ![pk].live = FALSE, ![to] = table[pk]]
       PROVE  Local' /\ ServerInv'
  <2>1. /\ Moves(jobs') /\ Local'
        /\ \A q, d : Done(q, d)' = IF <<r, c>> = <<q, d>>
                                   THEN Done(q, d) \cup {j} ELSE Done(q, d) \ {j}
        /\ jobs'[j].next = to
    BY <1>10, <1>13
  <2>2. \A q, d : j \notin Done(q, d)
    BY <1>1 DEF Done
  <2>3. \A q \in Row : Done(q, "val")' = Done(q, "val")
    BY <1>13, <2>1, <2>2
  <2>4. \A q \in Row \ {r} : Done(q, "key")' = Done(q, "key")
    BY <2>1, <2>2
  <2>5. Done(r, "key")' = {j}
    BY <1>7, <1>13, <2>1
  <2>6. \A q \in Row : Worth(q)' = Worth(q)
    BY <1>1, <2>1, <2>3, KnownStays
  <2>7. \A q \in Row \ {r} : Known(q)' = Known(q)
    BY <1>1, <2>1, <2>4, KnownStays
  <2>8. Known(r)' = to /\ to \in Key
    BY <1>1, <1>4, <1>13, <2>1, <2>5, KnownIs, LatestOne DEF Values
  <2>9. ServerInv'
    <3> SUFFICES ASSUME "lost" \notin faults', NEW q \in Row,
                        \A p \in Row \ {q} : Known(p)' # Known(q)'
                 PROVE  table'[Known(q)'].val = Worth(q)'
      BY DEF ServerInv
    <3>1. CASE q = r
      <4>1. table[pk].val = Worth(r)
        BY <1>1, <1>8 DEF ServerInv
      <4>2. table'[to] = table[pk]
        BY <1>9, <1>13, <2>8
      <4> QED
        BY <2>6, <2>8, <3>1, <4>1, <4>2
    <3>2. CASE q # r
      <4>1. Known(q)' = Known(q) /\ Known(q) # to /\ Known(q) # pk /\ Known(q) \in Key
        BY <1>1, <1>8, <2>7, <2>8, <3>2, KnownKey
      <4>2. \A p \in Row \ {q} : Known(p) # Known(q)
        BY <1>8, <2>7, <4>1
      <4>3. table[Known(q)].val = Worth(q)
        BY <1>1, <4>2 DEF ServerInv
      <4>4. table'[Known(q)] = table[Known(q)]
        BY <1>9, <1>13, <4>1
      <4> QED
        BY <2>6, <4>1, <4>3, <4>4
    <3> QED
      BY <3>1, <3>2
  <2> QED
    BY <2>1, <2>9
<1>14. \/ /\ table' = table
          /\ \E pc \in {"none", "error"} : jobs' = [jobs EXCEPT ![j].pc = pc]
       \/ /\ c = "val" /\ jobs' = [jobs EXCEPT ![j].pc = "ok"]
          /\ table' = [table EXCEPT ![pk].val = to]
       \/ /\ c = "key" /\ jobs' = [jobs EXCEPT ![j].pc = "ok"]
          /\ table' = [table EXCEPT ![pk].live = FALSE, ![to] = table[pk]]
  <2>1. /\ jobs[j].pk = pk /\ jobs[j].next = to /\ edits[jobs[j].edit].col = c
    BY <1>2, <1>3
  <2> QED
    BY <2>1 DEF Serve
<1>15. Local' /\ ServerInv'
  BY <1>11, <1>12, <1>13, <1>14
<1>16. (Local /\ ServerInv)'
  BY <1>15
<1> QED
  BY <1>16, ClearParts, PTL

LEMMA LandClear ==
  ASSUME Both, ClearInv, NEW j \in DOMAIN jobs, Land(j)
  PROVE  ClearInv'
<1>1. /\ TypeInv /\ TypeOK /\ Local /\ ServerInv /\ ApartInv /\ AddressInv
      /\ OneInv /\ OriginalInv /\ WidgetInv /\ DisplayInv
      /\ jobs[j].pc \in {"ok", "none", "error"} /\ jobs[j].pc # "done"
      /\ table' = table /\ faults' = faults
      /\ jobs' = [jobs EXCEPT ![j].pc = "done"]
  BY ClearParts DEF Land, Both, TypeInv, Local
<1>2. PICK e \in DOMAIN edits, r \in Row, c \in Col :
        e = jobs[j].edit /\ edits[e].row = r /\ edits[e].col = c
  BY <1>1, JobFields
<1>3. PICK to \in Values(c) : to = jobs[j].next
  BY <1>1, <1>2 DEF TypeInv, JobInv
<1>4. j \in Under(jobs) /\ Cell(jobs[j].edit) = <<r, c>> /\ Active(e)
  BY <1>1, <1>2 DEF Under, Cell, Active
<1>5. /\ Moves(jobs') /\ jobs'[j].pc = "done"
      /\ \A i \in DOMAIN jobs \ {j} : jobs'[i] = jobs[i]
  BY <1>1, OneMoves
<1>6. Under(jobs') = Under(jobs) \ {j}
  <2>1. DOMAIN jobs' = DOMAIN jobs
    BY <1>1, <1>5, MovesFit
  <2> QED
    BY <1>5, <2>1 DEF Under
<1>7. CASE jobs[j].pc # "ok"
  <2>1. Reverts({e}, edits, focus) /\ rows' = rows /\ stale' = stale
    BY <1>2, <1>7 DEF Land
  <2>2. PICK E : E = {e}
    OBVIOUS
  <2>3. /\ E \in SUBSET (DOMAIN edits) /\ \A d \in E : Active(d)
        /\ \A i \in Under(jobs) : i \in Under(jobs') \/ jobs[i].edit \in E
    BY <1>2, <1>4, <1>6, <2>2
  <2>4. Onward(jobs') /\ Worthy
    BY <1>1, <1>5, <1>7, <2>1 DEF Onward, Worthy
  <2> QED
    BY <2>1, <2>2, <2>3, <2>4, AnswerClear
<1>8. CASE jobs[j].pc = "ok"
  <2>1. PICK put : put = [d \in {e} |-> to]
    OBVIOUS
  <2>2. /\ rows' = [rows EXCEPT ![r][c] = to]
        /\ Shows(put, edits, focus)
        /\ stale' = IF edits[e].attached THEN stale ELSE stale \cup {<<r, c>>}
    BY <1>2, <1>3, <1>8, <2>1 DEF Land, Cell
  <2>3. /\ rows'[r][c] = to
        /\ \A q \in Row, d \in Col : <<q, d>> # <<r, c>> => rows'[q][d] = rows[q][d]
        /\ \A q \in Row \ {r} : rows'[q] = rows[q]
    BY <1>1, <2>2 DEF TypeOK, Col
  <2>4. /\ DOMAIN put = {e} /\ put[e] = to
        /\ \A d \in {e} : put[d] \in Values(edits[d].col)
    BY <1>2, <2>1
  <2>5. /\ Bears(edits) /\ \A d \in DOMAIN edits : Keeps(edits[d], edits[d])
    BY <1>1, SameBears DEF Keeps, Alike
  <2>6. /\ Goes /\ Empties /\ Clears({e}, put) /\ Lapses(edits)
        /\ \A d \in {e} : ~In(d)'
    BY <1>1, <2>2, <2>4, <2>5, ShowsGoes
  <2>7. Same
    BY <1>1, <2>6, GoesSame
  <2>8. \A d \in DOMAIN edits : Lapsed(edits'[d], edits[d]) /\ edits[d] \in Edit
    BY <1>1, <2>6, EditsAre DEF Lapses
  <2>9. Calmer
    BY <2>8 DEF Calmer, Lapsed
  <2>10. ~Active(e)'
    <3>1. edits[e].pc \in {"committed", "over"}
      BY <1>1, <1>2 DEF TypeInv, JobInv
    <3>2. edits'[e].pc \notin {"open", "removed"}
      BY <2>9, <3>1 DEF Calmer
    <3>3. ASSUME NEW i \in Under(jobs'), jobs'[i].edit = e PROVE FALSE
      <4>1. i \in Under(jobs) /\ i # j /\ i \in DOMAIN jobs
        BY <1>6 DEF Under
      <4>2. jobs[i].edit = e
        BY <1>5, <3>3, <4>1
      <4>3. Apart(e, e)
        BY <1>1, <1>2, <1>4, <4>1, <4>2 DEF ApartInv
      <4> QED
        BY <4>3 DEF Apart
    <3> QED
      BY <3>2, <3>3 DEF Active
  <2>11. ASSUME NEW d \in DOMAIN edits, Active(d)'
         PROVE  Active(d) /\ <<edits[d].row, edits[d].col>> # <<r, c>>
    <3>1. Active(d) /\ d # e
      BY <1>1, <1>5, <2>9, <2>10, <2>11, ActiveBefore
    <3>2. Cell(d) # Cell(e)
      BY <1>1, <1>4, <3>1 DEF OneInv
    <3> QED
      BY <1>2, <3>1, <3>2 DEF Cell
  <2>12. OneInv'
    <3> SUFFICES ASSUME NEW g \in DOMAIN edits', NEW d \in DOMAIN edits',
                        Active(g)', Active(d)',
                        edits'[g].row = edits'[d].row, edits'[g].col = edits'[d].col
                 PROVE  g = d
      BY DEF OneInv, Cell
    <3>1. /\ g \in DOMAIN edits /\ d \in DOMAIN edits /\ Active(g) /\ Active(d)
          /\ Cell(g) = Cell(d)
      BY <2>7, <2>11 DEF Same, Cell
    <3> QED
      BY <1>1, <3>1 DEF OneInv
  <2>13. OriginalInv'
    <3> SUFFICES ASSUME NEW d \in DOMAIN edits', Active(d)'
                 PROVE  edits'[d].original = rows'[edits'[d].row][edits'[d].col]
      BY DEF OriginalInv
    <3>1. /\ d \in DOMAIN edits /\ Active(d)
          /\ <<edits[d].row, edits[d].col>> # <<r, c>>
      BY <2>7, <2>11 DEF Same
    <3>2. edits[d].row \in Row /\ edits[d].col \in Col
      BY <2>8, <3>1 DEF Edit
    <3>3. rows'[edits[d].row][edits[d].col] = rows[edits[d].row][edits[d].col]
      BY <2>3, <3>1, <3>2
    <3> QED
      BY <1>1, <2>7, <3>1, <3>3 DEF Same, OriginalInv
  <2>14. WidgetInv'
    <3> SUFFICES ASSUME NEW d \in DOMAIN edits', In(d)'
                 PROVE  Active(d)' /\ edits'[d].pc # "removed"
      BY DEF WidgetInv
    <3>1. d \in DOMAIN edits /\ d # e
      BY <2>6, <2>7 DEF Same
    <3>2. Active(d) /\ edits[d].pc # "removed"
      BY <1>1, <2>6, <3>1, StaysOut DEF WidgetInv
    <3>3. edits'[d] = edits[d]
      BY <1>1, <2>2, <2>4, <2>5, <2>6, <3>1, LapsedOut
    <3>4. ASSUME NEW i \in Under(jobs), jobs[i].edit = d
          PROVE  i \in Under(jobs') /\ jobs'[i].edit = d
      <4>1. i \in DOMAIN jobs /\ i # j
        BY <1>2, <3>1, <3>4 DEF Under
      <4> QED
        BY <1>5, <1>6, <3>4, <4>1
    <3> QED
      BY <3>2, <3>3, <3>4 DEF Active
  <2>15. ApartInv' /\ AddressInv'
    <3>1. ASSUME NEW i \in Under(jobs')
          PROVE  rows'[edits[jobs[i].edit].row].key = rows[edits[jobs[i].edit].row].key
      <4>1. i \in Under(jobs) /\ i # j /\ i \in DOMAIN jobs
        BY <1>6 DEF Under
      <4>2. PICK d \in DOMAIN edits : d = jobs[i].edit
        BY <1>1, <4>1 DEF TypeInv, JobInv
      <4>3. Apart(d, e) /\ edits[d].row \in Row
        BY <1>1, <1>2, <1>4, <2>8, <4>1, <4>2 DEF ApartInv, Edit
      <4>4. CASE edits[d].row = r
        <5>1. c # "key"
          BY <1>2, <4>3, <4>4 DEF Apart
        <5>2. rows'[r]["key"] = rows[r]["key"]
          BY <2>3, <5>1 DEF Col
        <5> QED
          BY <4>2, <4>4, <5>2
      <4>5. CASE edits[d].row # r
        BY <2>3, <4>2, <4>3, <4>5
      <4> QED
        BY <4>4, <4>5
    <3> QED
      BY <1>1, <1>5, <2>7, <3>1, MovedApart
  <2>16. DisplayInv'
    <3> SUFFICES ASSUME NEW q \in Row, NEW d \in Col, shown'[q][d].edit = 0
                 PROVE  <<q, d>> \in stale' \/ shown'[q][d].val = rows'[q][d]
      BY DEF DisplayInv
    <3>1. CASE Of({e}, q, d) = {} /\ shown'[q][d] = shown[q][d]
      <4>1. CASE <<q, d>> = <<r, c>>
        <5>1. ~edits[e].attached
          BY <1>2, <3>1, <4>1 DEF Of, Cell
        <5> QED
          BY <2>2, <4>1, <5>1
      <4>2. CASE <<q, d>> # <<r, c>>
        BY <1>1, <2>2, <2>3, <3>1, <4>2 DEF DisplayInv
      <4> QED
        BY <4>1, <4>2
    <3>2. CASE \E g \in Of({e}, q, d) : shown'[q][d].val = put[g]
      <4>1. e \in Of({e}, q, d) /\ shown'[q][d].val = put[e]
        BY <3>2 DEF Of
      <4>2. q = r /\ d = c
        BY <1>2, <4>1 DEF Of, Cell
      <4> QED
        BY <2>3, <2>4, <4>1, <4>2
    <3> QED
      BY <2>6, <3>1, <3>2 DEF Clears
  <2>17. \A q, d : Done(q, d)' = Done(q, d) \ {j}
    <3>1. PICK pc : pc = "done"
      OBVIOUS
    <3>2. \A q, d : Done(q, d)' =
            IF pc = "ok" /\ Cell(jobs[j].edit) = <<q, d>>
            THEN Done(q, d) \cup {j} ELSE Done(q, d) \ {j}
      BY <1>1, <2>7, <3>1, DoneAfter
    <3> QED
      BY <3>1, <3>2
  <2>18. \A q \in Row, d \in Col : <<q, d>> # <<r, c>> => j \notin Done(q, d)
    BY <1>4 DEF Done
  <2>19. j \in Done(r, c)
    BY <1>4, <1>8 DEF Done
  <2>20. \A q \in Row : Known(q)' = Known(q) /\ Worth(q)' = Worth(q)
    <3> TAKE q \in Row
    <3>1. CASE q # r
      <4>1. Done(q, "key")' = Done(q, "key") /\ Done(q, "val")' = Done(q, "val")
        BY <2>17, <2>18, <3>1 DEF Col
      <4> QED
        BY <1>1, <1>5, <2>3, <3>1, <4>1, KnownStays
    <3>2. CASE q = r /\ c = "key"
      <4>1. Done(r, "key") = {j} /\ Done(r, "val") = {}
        BY <1>1, <1>4, <2>18, <2>19, <3>2, AloneOnRow DEF Col
      <4>2. Done(r, "key")' = {} /\ Done(r, "val")' = {}
        BY <2>17, <4>1
      <4>3. rows'[r]["key"] = to /\ rows'[r]["val"] = rows[r]["val"]
        BY <2>3, <3>2 DEF Col
      <4>4. Known(r) = to /\ Known(r)' = to
        BY <1>1, <1>3, <4>1, <4>2, <4>3, KnownIs, LatestOne
      <4>5. Worth(r)' = Worth(r)
        BY <4>1, <4>2, <4>3, KnownIs
      <4> QED
        BY <3>2, <4>4, <4>5
    <3>3. CASE q = r /\ c = "val"
      <4>1. Done(r, "val") = {j} /\ Done(r, "key") = {}
        BY <1>1, <1>4, <2>18, <2>19, <3>3, AloneOnRow DEF Col
      <4>2. Done(r, "key")' = {} /\ Done(r, "val")' = {}
        BY <2>17, <4>1
      <4>3. rows'[r]["val"] = to /\ rows'[r]["key"] = rows[r]["key"]
        BY <2>3, <3>3 DEF Col
      <4>4. Worth(r) = to /\ Worth(r)' = to
        BY <1>1, <1>3, <4>1, <4>2, <4>3, KnownIs, LatestOne
      <4>5. Known(r)' = Known(r)
        BY <4>1, <4>2, <4>3, KnownIs
      <4> QED
        BY <3>3, <4>4, <4>5
    <3> QED
      BY <3>1, <3>2, <3>3 DEF Col
  <2>21. ServerInv'
    BY <1>1, <2>20, KnownServer
  <2>22. (Local /\ ServerInv)'
    BY <2>12, <2>13, <2>14, <2>15, <2>16, <2>21 DEF Local
  <2> QED
    BY <2>22, ClearParts, PTL
<1> QED
  BY <1>7, <1>8

LEMMA InitClear == Init => ClearInv
<1> SUFFICES ASSUME Init PROVE ClearInv
  OBVIOUS
<1>1. /\ DOMAIN edits = {} /\ DOMAIN jobs = {} /\ Under(jobs) = {}
      /\ rows = Start /\ shown = Drawn(rows)
      /\ Start \in [Row -> [key : Key, val : Val]]
  BY CellEditAssumption DEF Init, Under, CellEditAssumption
<1>2. DisplayInv
  BY <1>1, DrawnIs DEF DisplayInv
<1>3. \A r \in Row, c \in Col : Done(r, c) = {}
  BY <1>1 DEF Done
<1>4. ServerInv
  <2> SUFFICES ASSUME NEW r \in Row PROVE table[Known(r)].val = Worth(r)
    BY DEF ServerInv
  <2>1. Known(r) = Start[r].key /\ Worth(r) = Start[r].val
    BY <1>1, <1>3, KnownIs DEF Col
  <2>2. PICK k \in Key : k = Start[r].key
    BY <1>1
  <2>3. (CHOOSE q \in Row : Start[q].key = k) = r
    BY <2>2, CellEditAssumption DEF CellEditAssumption
  <2>4. table[k] = [live |-> TRUE, val |-> Start[r].val]
    BY <2>2, <2>3 DEF Init
  <2> QED
    BY <2>1, <2>2, <2>4
<1> QED
  BY <1>1, <1>2, <1>4 DEF ClearInv, OneInv, WidgetInv, OriginalInv, ApartInv, AddressInv

LEMMA TangledStays ==
  ASSUME Both, Next, tangled
  PROVE  tangled'
<1>1. ASSUME NEW e, NEW v, NEW js, NEW f, Commits(e, v, js, f)
      PROVE  tangled'
  BY <1>1 DEF Commits
<1> QED
  BY <1>1 DEF Next, Begin, Click, Press, Others, Search, Redraw, Frame, Enter,
     Escape, Blur, BlurLate, ClickAway, Pick, Dismiss, Refocus, Serve, Lose, Land

LEMMA NextClear ==
  ASSUME Both, CellInv, [Next]_vars
  PROVE  CellInv'
<1>1. CASE UNCHANGED vars
  <2>1. /\ rows' = rows /\ shown' = shown /\ edits' = edits /\ jobs' = jobs
        /\ table' = table /\ faults' = faults /\ stale' = stale /\ tangled' = tangled
    BY <1>1 DEF vars
  <2>2. OneInv => OneInv'
    BY <2>1 DEF OneInv, Active, Cell
  <2>3. WidgetInv => WidgetInv'
    BY <2>1 DEF WidgetInv, Active, In
  <2>4. OriginalInv => OriginalInv'
    BY <2>1 DEF OriginalInv, Active
  <2>5. ApartInv => ApartInv'
    BY <2>1 DEF ApartInv, Apart
  <2>6. AddressInv => AddressInv'
    BY <2>1 DEF AddressInv
  <2>7. DisplayInv => DisplayInv'
    BY <2>1 DEF DisplayInv
  <2>8. ServerInv => ServerInv'
    <3>1. \A r \in Row, c \in Col : Done(r, c)' = Done(r, c)
      BY <2>1 DEF Done, Cell
    <3>2. \A r \in Row : Known(r)' = Known(r) /\ Worth(r)' = Worth(r)
      BY <2>1, <3>1, KnownIs DEF Col
    <3> QED
      BY <2>1, <3>2, KnownServer
  <2> QED
    BY <2>1, <2>2, <2>3, <2>4, <2>5, <2>6, <2>7, <2>8 DEF CellInv, ClearInv
<1>2. CASE Next
  <2> SUFFICES ASSUME ~tangled' PROVE ClearInv'
    BY DEF CellInv
  <2>1. ClearInv
    BY <1>2, TangledStays DEF CellInv
  <2>2. ASSUME NEW e \in DOMAIN edits,
               \/ Frame(e) \/ Enter(e) \/ Escape(e) \/ Blur(e) \/ BlurLate(e)
               \/ ClickAway(e) \/ Pick(e) \/ Dismiss(e) \/ Refocus(e)
        PROVE  ClearInv'
    BY <2>1, <2>2, FrameClear, EnterClear, EscapeClear, BlurClear, BlurLateClear,
       ClickAwayClear, PickClear, DismissClear, RefocusClear
  <2>3. ASSUME NEW j \in DOMAIN jobs, Serve(j) \/ Lose(j) \/ Land(j)
        PROVE  ClearInv'
    BY <2>1, <2>3, ServeClear, LoseClear, LandClear
  <2> QED
    BY <1>2, <2>1, <2>2, <2>3, BeginClear, ClickClear, PressClear, OthersClear,
       SearchClear, RedrawClear DEF Next
<1> QED
  BY <1>1, <1>2

LEMMA ClearTells ==
  ASSUME TypeInv, CellInv
  PROVE  CellTellsTruth
<1> SUFFICES ASSUME Under(jobs) = {}, ~tangled
             PROVE  /\ \A r \in Row :
                         \/ "lost" \in faults
                         \/ \E q \in Row : q # r /\ rows[q].key = rows[r].key
                         \/ table[rows[r].key].val = rows[r].val
                    /\ \A r \in drawn, c \in Col :
                         \/ shown[r][c].edit # 0 \/ <<r, c>> \in stale
                         \/ shown[r][c].val = rows[r][c]
  BY DEF CellTellsTruth
<1>1. ServerInv /\ DisplayInv /\ drawn \subseteq Row
  BY DEF CellInv, ClearInv, TypeInv, TypeOK
<1>2. \A r \in Row, c \in Col : Done(r, c) = {}
  BY DEF Done, Under
<1>3. \A r \in Row : Known(r) = rows[r].key /\ Worth(r) = rows[r].val
  BY <1>2, KnownIs DEF Col
<1>4. ASSUME NEW r \in Row, "lost" \notin faults,
             ~\E q \in Row : q # r /\ rows[q].key = rows[r].key
      PROVE  table[rows[r].key].val = rows[r].val
  BY <1>1, <1>3, <1>4 DEF ServerInv
<1> QED
  BY <1>1, <1>4 DEF DisplayInv

(* Once every update is answered, the arrays hold the rows of the server   *)
(* and the cells hold the arrays (cellEdit.js, commit; resultGrid.js,      *)
(* redraw), until edits of one cell overlap or an update hits a key that   *)
(* another row took.                                                       *)
THEOREM CellsTellTruth == Spec => []CellTellsTruth
<1>1. Init => Both /\ CellInv
  BY InitBoth, InitClear DEF CellInv
<1>2. Both /\ CellInv /\ [Next]_vars => Both' /\ CellInv'
  BY NextBoth, NextClear
<1>3. Both /\ CellInv => CellTellsTruth
  BY ClearTells DEF Both
<1> QED
  BY <1>1, <1>2, <1>3, PTL DEF Spec
=============================================================================
