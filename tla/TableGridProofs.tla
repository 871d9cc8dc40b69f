-------------------------- MODULE TableGridProofs --------------------------
(***************************************************************************)
(* Theorems about TableGrid, for every set of tables, rows and filters and *)
(* any number of loads and row operations.                                 *)
(***************************************************************************)
EXTENDS TableGrid, FiniteSetTheorems, WellFoundedInduction, TLAPS

-----------------------------------------------------------------------------
(* The rows of a page.                                                     *)

(* A set of numbers has a least one.                                       *)
LEMMA LeastNatural ==
  ASSUME NEW T \in SUBSET Nat, T # {}
  PROVE  \E m \in T : \A n \in T : m <= n
<1> DEFINE R == OpToRel(<, Nat)
<1>1. IsWellFoundedOn(R, Nat)
  BY NatLessThanWellFounded
<1>2. \A n, m \in Nat : n < m => <<n, m>> \in R
  BY DEF OpToRel
<1> HIDE DEF R
<1>3. PICK m \in T : \A n \in T : ~(<<n, m>> \in R)
  BY <1>1, WFMin
<1>4. ASSUME NEW n \in T
      PROVE  m <= n
  <2>1. m \in Nat /\ n \in Nat /\ ~(n < m)
    BY <1>2, <1>3
  <2> QED
    BY <2>1
<1> QED
  BY <1>4

(* Of a finite set of numbers, one has exactly k before it.                *)
LEMMA PlaceFilled ==
  ASSUME NEW S \in SUBSET Nat, IsFiniteSet(S), NEW k \in Nat,
         k < Cardinality(S)
  PROVE  \E r \in S : Cardinality({q \in S : q < r}) = k
<1> DEFINE Place(r) == Cardinality({q \in S : q < r})
           Bad == {n \in Nat : n < Cardinality(S) /\ \A r \in S : Place(r) # n}
<1>0. Cardinality(S) \in Nat
  BY FS_CardinalityType
<1> SUFFICES ASSUME Bad # {}
             PROVE  FALSE
  OBVIOUS
<1>1. PICK n \in Bad : \A m \in Bad : n <= m
  <2>1. Bad \in SUBSET Nat
    OBVIOUS
  <2> QED
    BY <2>1, LeastNatural
<1>2. n \in Nat /\ n < Cardinality(S) /\ \A r \in S : Place(r) # n
  BY <1>1
<1>3. ASSUME NEW U \in SUBSET S, Cardinality(U) = n,
             \A q \in S : \A r \in U : q < r => q \in U
      PROVE  FALSE
  <2>1. S \ U # {}
    <3>1. S # U
      BY <1>2, <1>3
    <3> QED
      BY <3>1
  <2>2. PICK r \in S \ U : \A q \in S \ U : r <= q
    BY <2>1, LeastNatural
  <2>3. {q \in S : q < r} = U
    <3>1. ASSUME NEW q \in U
          PROVE  q < r
      BY <1>3, <2>2
    <3>2. ASSUME NEW q \in S, q < r
          PROVE  q \in U
      BY <2>2, <3>2
    <3> QED
      BY <3>1, <3>2
  <2> QED
    BY <1>2, <1>3, <2>3
<1>4. CASE n = 0
  <2>1. {} \in SUBSET S /\ Cardinality({}) = n
    BY <1>4, FS_EmptySet
  <2> QED
    BY <1>3, <2>1
<1>5. CASE n # 0
  <2>1. n - 1 \in Nat /\ n - 1 < Cardinality(S) /\ n - 1 \notin Bad
    BY <1>0, <1>1, <1>2, <1>5
  <2>2. PICK r \in S : Place(r) = n - 1
    BY <2>1
  <2> DEFINE L == {q \in S : q < r}
             U == L \cup {r}
  <2>3. IsFiniteSet(L) /\ r \notin L /\ Cardinality(L) = n - 1
    <3>1. L \in SUBSET S
      OBVIOUS
    <3> QED
      BY <2>2, <3>1, FS_Subset
  <2>4. Cardinality(U) = n
    <3> HIDE DEF L
    <3>1. Cardinality(L \cup {r}) = Cardinality(L) + 1
      BY <2>3, FS_AddElement
    <3> QED
      BY <1>2, <2>3, <3>1
  <2>5. U \in SUBSET S /\ \A q \in S : \A u \in U : q < u => q \in U
    OBVIOUS
  <2> HIDE DEF U
  <2> QED
    BY <1>3, <2>4, <2>5
<1> QED
  BY <1>4, <1>5

(* A page is a sequence of rows of the table.                              *)
LEMMA PageType ==
  ASSUME db \in [Table -> SUBSET Row], NEW t \in Table, NEW f \in Filter,
         NEW p \in Nat
  PROVE  PageRows(t, f, p) \in Seq(Row) /\ Cardinality(Found(t, f)) \in Nat
<1> DEFINE F == Found(t, f)
           n == Cardinality(F)
           D == {j \in 1..PageSize : p * PageSize + j <= n}
           o == p * PageSize
           m == IF n <= o THEN 0 ELSE IF n - o < PageSize THEN n - o ELSE PageSize
<1>1. F \in SUBSET Row /\ F \in SUBSET Nat /\ IsFiniteSet(F)
  <2>1. F \in SUBSET Row /\ F \in SUBSET Nat
    BY MatchAssumption DEF Found
  <2> QED
    BY <2>1, MatchAssumption, FS_Subset
<1>2. n \in Nat
  BY <1>1, FS_CardinalityType
<1>3. o \in Nat /\ PageSize \in Nat
  BY BoundAssumption
<1>4. D = 1..m /\ m \in Nat
  <2> HIDE DEF n, o
  <2>1. D = {j \in 1..PageSize : o + j <= n}
    BY DEF o, n
  <2> QED
    BY <1>2, <1>3, <2>1
<1>5. ASSUME NEW i \in D
      PROVE  (CHOOSE r \in F : Before(t, f, r) + 1 = p * PageSize + i) \in Row
  <2> DEFINE k == o + i - 1
  <2>1. k \in Nat /\ k < n
    BY <1>2, <1>3
  <2>2. PICK r \in F : Cardinality({q \in F : q < r}) = k
    BY <1>1, <2>1, PlaceFilled
  <2>3. Before(t, f, r) + 1 = p * PageSize + i
    BY <1>3, <2>1, <2>2 DEF Before
  <2> QED
    BY <1>1, <2>3
<1>6. PageRows(t, f, p) = [i \in D |-> CHOOSE r \in F : Before(t, f, r) + 1 = p * PageSize + i]
  BY DEF PageRows
<1> HIDE DEF D, F, m
<1>7. PageRows(t, f, p) \in [1..m -> Row]
  BY <1>4, <1>5, <1>6
<1> QED
  BY <1>2, <1>4, <1>7 DEF F

-----------------------------------------------------------------------------
(* Types.                                                                  *)

(* A load just asked for.                                                  *)
LEMMA AskType ==
  ASSUME NEW t \in Table, NEW f \in Filter, NEW p \in Nat, NEW key,
         NEW cached \in Nat \cup {NoCount}, TypeOK, Ask(t, f, p, key, cached)
  PROVE  /\ asked' \in Nat /\ loads' \in SUBSET LoadRec
         /\ latest' \in Key /\ overlap' \in BOOLEAN /\ missed' \in BOOLEAN
<1> DEFINE reuse == IF key = <<t, f>> THEN cached ELSE NoCount
           l == [n |-> asked + 1, of |-> t, filter |-> f, page |-> p,
                 reuse |-> reuse, phase |-> "sent", rows |-> <<>>,
                 count |-> NoCount, meta |-> NoTable]
<1>1. reuse \in Nat \cup {NoCount} /\ asked \in Nat
  BY DEF TypeOK
<1>2. <<>> \in Seq(Row)
  OBVIOUS
<1>3. loads' = loads \cup {l}
  BY DEF Ask
<1> HIDE DEF reuse
<1>4. l \in LoadRec
  BY <1>1, <1>2 DEF LoadRec
<1> HIDE DEF l
<1>5. overlap' = (overlap \/ loads # {}) /\ missed' = FALSE
  BY DEF Ask
<1>6. overlap' \in BOOLEAN /\ missed' \in BOOLEAN
  BY <1>5
<1>7. asked' \in Nat /\ latest' \in Key
  BY <1>1 DEF Ask, Key
<1>8. loads' \in SUBSET LoadRec
  BY <1>3, <1>4 DEF TypeOK
<1> QED
  BY <1>6, <1>7, <1>8

LEMMA AskActiveType ==
  ASSUME NEW f \in Filter, NEW p \in Nat, TypeOK, AskActive(f, p)
  PROVE  /\ asked' \in Nat /\ loads' \in SUBSET LoadRec
         /\ latest' \in Key \cup {<<>>}
         /\ overlap' \in BOOLEAN /\ missed' \in BOOLEAN
<1>1. CASE active = NoTable
  BY <1>1 DEF AskActive, TypeOK, history
<1>2. CASE active # NoTable
  <2>1. active \in Table /\ total \in Nat \cup {NoCount}
    BY <1>2 DEF TypeOK
  <2>2. Ask(active, f, p, totalKey, total)
    BY <1>2 DEF AskActive
  <2> QED
    BY <2>1, <2>2, AskType
<1> QED
  BY <1>1, <1>2

LEMMA UserType ==
  ASSUME TypeOK,
         \/ \E t \in Table : OpenTable(t)
         \/ RunQuery \/ CloseTable \/ Search
         \/ \E f \in Filter : Keystroke(f) \/ PickColumn(f)
         \/ \E p \in 0..Cardinality(Row) : Turn(p)
  PROVE  TypeOK'
<1>1. ASSUME NEW t \in Table, OpenTable(t)
      PROVE  TypeOK'
  <2>1. Ask(t, NoFilter, 0, <<>>, NoCount)
    BY <1>1 DEF OpenTable
  <2>2. /\ asked' \in Nat /\ loads' \in SUBSET LoadRec
        /\ latest' \in Key /\ overlap' \in BOOLEAN /\ missed' \in BOOLEAN
    BY <2>1, AskType, NullAssumption
  <2> QED
    BY <1>1, <2>2, NullAssumption DEF OpenTable, TypeOK
<1>2. CASE RunQuery \/ CloseTable
  BY <1>2 DEF RunQuery, CloseTable, TypeOK, history
<1>3. ASSUME NEW f \in Filter, Keystroke(f)
      PROVE  TypeOK'
  BY <1>3 DEF Keystroke, TypeOK, history
<1>4. ASSUME NEW f \in Filter, NEW p \in Nat, AskActive(f, p), filter' = f,
             timer' \in BOOLEAN,
             UNCHANGED <<db, active, snapshot, totalKey, total, keys, drawn,
                         op, ops>>
      PROVE  TypeOK'
  <2>1. /\ asked' \in Nat /\ loads' \in SUBSET LoadRec
        /\ latest' \in Key \cup {<<>>}
        /\ overlap' \in BOOLEAN /\ missed' \in BOOLEAN
    BY <1>4, AskActiveType
  <2> QED
    BY <1>4, <2>1 DEF TypeOK
<1>5. filter \in Filter /\ timer \in BOOLEAN /\ 0 \in Nat
  BY DEF TypeOK
<1>6. CASE Search
  BY <1>4, <1>5, <1>6 DEF Search, session
<1>7. ASSUME NEW f \in Filter, PickColumn(f)
      PROVE  TypeOK'
  BY <1>4, <1>5, <1>7 DEF PickColumn
<1>8. ASSUME NEW p \in 0..Cardinality(Row), Turn(p)
      PROVE  TypeOK'
  BY <1>4, <1>5, <1>8 DEF Turn, session
<1> QED
  BY <1>1, <1>2, <1>3, <1>6, <1>7, <1>8

LEMMA LoadType ==
  ASSUME TypeOK, NEW l \in loads,
         Serve(l) \/ LoadFails(l) \/ Land(l) \/ Draw(l)
  PROVE  TypeOK'
<1>1. l \in LoadRec
  BY DEF TypeOK
<1>2. CASE Serve(l)
  <2>1. PICK c \in {Cardinality(Found(l.of, l.filter)), NoCount} :
          loads' = (loads \ {l}) \cup
            {[l EXCEPT !.phase = "served",
                       !.rows  = PageRows(l.of, l.filter, l.page),
                       !.count = IF l.reuse = NoCount THEN c ELSE NoCount]}
    BY <1>2 DEF Serve
  <2>2. /\ PageRows(l.of, l.filter, l.page) \in Seq(Row)
        /\ c \in Nat \cup {NoCount}
    BY <1>1, PageType DEF TypeOK, LoadRec
  <2> DEFINE rows == PageRows(l.of, l.filter, l.page)
             count == IF l.reuse = NoCount THEN c ELSE NoCount
             m == [l EXCEPT !.phase = "served", !.rows = rows, !.count = count]
  <2>a. loads' = (loads \ {l}) \cup {m}
    BY <2>1
  <2>b. rows \in Seq(Row) /\ count \in Nat \cup {NoCount}
    BY <2>2
  <2> HIDE DEF rows, count
  <2>c. m \in LoadRec
    BY <1>1, <2>b DEF LoadRec
  <2> HIDE DEF m
  <2>3. loads' \in SUBSET LoadRec
    BY <2>a, <2>c DEF TypeOK
  <2> QED
    BY ZenonT(40), <1>2, <2>3 DEF Serve, TypeOK, session, history
<1>3. CASE LoadFails(l)
  BY <1>3 DEF LoadFails, TypeOK, session
<1>4. CASE Land(l)
  <2> DEFINE counted == IF l.reuse = NoCount THEN l.count ELSE l.reuse
             new == [of |-> l.of, filter |-> l.filter, page |-> l.page,
                     rows |-> l.rows, count |-> counted, n |-> l.n]
             m == [l EXCEPT !.phase = "meta", !.meta = active]
  <2>1. new \in Snap /\ <<l.of, l.filter>> \in Key
        /\ l.count \in Nat \cup {NoCount}
    BY <1>1 DEF LoadRec, Snap, Key
  <2>2. /\ snapshot' = new /\ totalKey' = <<l.of, l.filter>>
        /\ total' = IF l.reuse = NoCount THEN l.count ELSE total
        /\ drawn' = IF active # NoTable /\ keys = active THEN new ELSE drawn
        /\ loads' = IF active = NoTable \/ keys = active THEN loads \ {l}
                    ELSE (loads \ {l}) \cup {m}
        /\ UNCHANGED <<db, active, filter, keys, timer, op, asked, ops, history>>
    BY <1>4 DEF Land
  <2>3. m \in LoadRec
    BY <1>1 DEF LoadRec, TypeOK
  <2> HIDE DEF new, m
  <2> QED
    BY <2>1, <2>2, <2>3 DEF TypeOK, history
<1>5. CASE Draw(l)
  <2>1. keys' \in Table \cup {NoTable}
    BY <1>1, <1>5 DEF Draw, TypeOK, LoadRec
  <2> QED
    BY <1>5, <2>1 DEF Draw, TypeOK, history
<1> QED
  BY <1>2, <1>3, <1>4, <1>5

LEMMA ShowType ==
  ASSUME TypeOK, NEW o \in OpRec, NEW t, Show(o, t)
  PROVE  op' \in OpRec \cup {NoOp}
<1>1. CASE Stop
  BY <1>1 DEF Stop
<1>2. CASE ~Stop
  <2> DEFINE row == IF o.kind = "insert" THEN o.row ELSE o.snap.rows[o.at]
  <2>1. op' = [o EXCEPT !.phase = "dialog", !.target = active, !.row = row]
    BY <1>2 DEF Show
  <2>2. active # NoTable /\ (o.kind # "insert" => o.at <= Len(o.snap.rows))
    <3>1. o.snap.rows \in Seq(Row) /\ o.at \in Nat /\ Len(o.snap.rows) \in Nat
      BY DEF OpRec, Snap
    <3> QED
      BY <1>2, <3>1 DEF Show
  <2>3. row \in Nat
    <3>1. o.kind # "insert" => o.snap.rows[o.at] \in Row
      <4>1. o.snap.rows \in Seq(Row) /\ o.at \in Nat \ {0}
        BY DEF OpRec, Snap
      <4> QED
        BY <2>2, <4>1
    <3> QED
      BY <3>1, MatchAssumption DEF OpRec
  <2> HIDE DEF row
  <2> QED
    BY <2>1, <2>2, <2>3 DEF OpRec, TypeOK
<1> QED
  BY <1>1, <1>2

LEMMA OperationType ==
  ASSUME TypeOK,
         \/ \E k \in Kind, at \in 1..PageSize : Click(k, at)
         \/ Dismiss \/ Confirm \/ KeysKnown \/ ServeWrite \/ WriteFails
         \/ WriteDone
  PROVE  TypeOK'
<1>1. ASSUME NEW k \in Kind, NEW at \in 1..PageSize, Click(k, at)
      PROVE  TypeOK'
  <2> DEFINE o == [kind |-> k, phase |-> "keys", at |-> at, snap |-> snapshot,
                   meta |-> active, target |-> active, row |-> 0]
  <2>1. snapshot \in Snap /\ active \in Table
    BY <1>1 DEF Click, TypeOK
  <2>2. o \in OpRec
    BY <2>1 DEF OpRec
  <2>3. Show(o, active) \/ op' = o
    BY <1>1 DEF Click
  <2> HIDE DEF o
  <2>4. op' \in OpRec \cup {NoOp}
    BY <2>2, <2>3, ShowType
  <2> QED
    BY <1>1, <2>4 DEF Click, TypeOK, session, history
<1>2. CASE Dismiss
  BY <1>2 DEF Dismiss, Stop, TypeOK, session, history
<1>3. CASE Confirm
  <2>1. op \in OpRec
    BY <1>3 DEF Confirm, Dialog, TypeOK
  <2>2. op' \in OpRec \cup {NoOp}
    BY <1>3, <2>1 DEF Confirm, Stop, TypeOK, OpRec
  <2> QED
    BY <1>3, <2>2 DEF Confirm, TypeOK, session, history
<1>4. CASE KeysKnown
  <2>1. op \in OpRec
    BY <1>4 DEF KeysKnown, TypeOK
  <2>2. op' \in OpRec \cup {NoOp} /\ keys' \in Table \cup {NoTable}
    BY <1>4, <2>1, ShowType DEF KeysKnown, Stop, TypeOK, OpRec
  <2> QED
    BY <1>4, <2>2 DEF KeysKnown, TypeOK, history
<1>5. CASE ServeWrite
  <2>1. op \in OpRec
    BY <1>5 DEF ServeWrite, TypeOK
  <2>2. op' \in OpRec
    BY <1>5, <2>1 DEF ServeWrite, OpRec
  <2>3. \/ db' = [db EXCEPT ![op.target] = @ \ {op.row}]
        \/ \E r \in Row : db' = [db EXCEPT ![op.target] = @ \cup {r}]
        \/ db' = db
    BY <1>5 DEF ServeWrite
  <2>4. db' \in [Table -> SUBSET Row]
    BY <2>3 DEF TypeOK
  <2> QED
    BY <1>5, <2>2, <2>4 DEF ServeWrite, TypeOK, session, history
<1>6. CASE WriteFails
  BY <1>6 DEF WriteFails, Stop, TypeOK, session
<1>7. CASE WriteDone
  <2>1. op \in OpRec /\ filter \in Filter
    BY <1>7 DEF WriteDone, TypeOK
  <2> DEFINE p == IF op.kind = "delete" THEN op.snap.page
                  ELSE IF snapshot = NoSnap THEN 0 ELSE snapshot.page
  <2>2. p \in Nat
    BY <2>1 DEF OpRec, Snap, TypeOK
  <2>3. \/ UNCHANGED <<asked, loads, history>>
        \/ active \in Table /\ Ask(active, filter, p, <<>>, NoCount)
    BY <1>7 DEF WriteDone, TypeOK
  <2> HIDE DEF p
  <2>4. /\ asked' \in Nat /\ loads' \in SUBSET LoadRec
        /\ latest' \in Key \cup {<<>>}
        /\ overlap' \in BOOLEAN /\ missed' \in BOOLEAN
    BY <2>1, <2>2, <2>3, AskType DEF TypeOK, history
  <2>5. totalKey' \in Key \cup {<<>>} /\ total' \in Nat \cup {NoCount}
    BY <1>7 DEF WriteDone, TypeOK
  <2> QED
    BY <1>7, <2>4, <2>5 DEF WriteDone, Stop, TypeOK
<1> QED
  BY <1>1, <1>2, <1>3, <1>4, <1>5, <1>6, <1>7

(* Every variable keeps its type: in particular no load asks for a page    *)
(* before the first, and no row operation takes a row from outside the     *)
(* snapshot it was started on.                                             *)
THEOREM GridTyped == Spec => []TypeOK
<1>1. Init => TypeOK
  <2> SUFFICES ASSUME Init
               PROVE  TypeOK
    OBVIOUS
  <2>1. db \in [Table -> SUBSET Row]
    BY StoredAssumption DEF Init
  <2> QED
    BY <2>1, NullAssumption DEF Init, TypeOK
<1>2. TypeOK /\ [Next]_vars => TypeOK'
  <2>1. TypeOK /\ UNCHANGED vars => TypeOK'
    BY DEF TypeOK, vars, session, history
  <2> QED
    BY <2>1, UserType, LoadType, OperationType DEF Next, User, Answers
<1> QED
  BY <1>1, <1>2, PTL DEF Spec

-----------------------------------------------------------------------------
(* What is asked for.                                                      *)

(* A load asked for with the current filter is the current request.        *)
LEMMA AskIsCurrent ==
  ASSUME NEW f, NEW p, active' = active, filter' = f, AskActive(f, p)
  PROVE  active' # NoTable => latest' = <<active', filter'>>
BY DEF AskActive, Ask

(* Every handler that changes the table or the filter asks for its rows    *)
(* before it returns, or leaves the debounce timer armed to do so.         *)
LEMMA StepIsCurrent ==
  ASSUME RequestIsCurrent, [Next]_vars
  PROVE  RequestIsCurrent'
<1> USE DEF RequestIsCurrent
<1>1. ASSUME NEW t \in Table, OpenTable(t) PROVE RequestIsCurrent'
  BY <1>1 DEF OpenTable, Ask
<1>2. CASE RunQuery
  BY <1>2 DEF RunQuery
<1>3. CASE CloseTable
  BY <1>3 DEF CloseTable
<1>4. ASSUME NEW f \in Filter, Keystroke(f) PROVE RequestIsCurrent'
  BY <1>4 DEF Keystroke
<1>5. ASSUME NEW f \in Filter, PickColumn(f) PROVE RequestIsCurrent'
  BY <1>5, AskIsCurrent DEF PickColumn
<1>6. ASSUME NEW p \in 0..Cardinality(Row), Turn(p) PROVE RequestIsCurrent'
  BY <1>6, AskIsCurrent DEF Turn, session
<1>7. ASSUME NEW k \in Kind, NEW at \in 1..PageSize, Click(k, at)
      PROVE  RequestIsCurrent'
  BY <1>7 DEF Click, session, history
<1>8. CASE Dismiss
  BY <1>8 DEF Dismiss, session, history
<1>9. CASE Confirm
  BY <1>9 DEF Confirm, session, history
<1>10. ASSUME NEW l \in loads, Serve(l) PROVE RequestIsCurrent'
  BY <1>10 DEF Serve, session, history
<1>11. ASSUME NEW l \in loads, LoadFails(l) PROVE RequestIsCurrent'
  BY <1>11 DEF LoadFails, session
<1>12. ASSUME NEW l \in loads, Land(l) PROVE RequestIsCurrent'
  BY <1>12 DEF Land, history
<1>13. ASSUME NEW l \in loads, Draw(l) PROVE RequestIsCurrent'
  BY <1>13 DEF Draw, history
<1>14. CASE Search
  BY <1>14, AskIsCurrent DEF Search, session
<1>15. CASE KeysKnown
  BY <1>15 DEF KeysKnown, history
<1>16. CASE ServeWrite
  BY <1>16 DEF ServeWrite, session, history
<1>17. CASE WriteFails
  BY <1>17 DEF WriteFails, session
<1>18. CASE WriteDone
  BY <1>18 DEF WriteDone, Ask, history
<1>19. CASE UNCHANGED vars
  BY <1>19 DEF vars, session, history
<1> QED
  BY <1>1, <1>2, <1>3, <1>4, <1>5, <1>6, <1>7, <1>8, <1>9, <1>10, <1>11,
     <1>12, <1>13, <1>14, <1>15, <1>16, <1>17, <1>18, <1>19
     DEF Next, User, Answers

(* The rows asked for last are those of the table and filter on screen,    *)
(* for tableData.js and the handlers of tableGrid.js and rowOps.js.        *)
THEOREM NoKeystrokeIsLost == Spec => []RequestIsCurrent
<1>1. Init => RequestIsCurrent
  BY DEF Init, RequestIsCurrent
<1> QED
  BY <1>1, StepIsCurrent, PTL DEF Spec
-----------------------------------------------------------------------------
(* The grid and the database.  The page asked for last is on its way, or   *)
(* it is the snapshot, and what is drawn is the snapshot or will be when   *)
(* the primary key is known; a write that is done and not yet reported is  *)
(* followed by another load.                                               *)

Way(l)  == l.phase \in {"sent", "served"}
Written == op # NoOp /\ op.phase = "done" /\ op.kind # "update"

FreshRows(s) == s.rows = PageRows(s.of, s.filter, s.page)
RightCount(t, f, c) == c # NoCount => c = Cardinality(Found(t, f))

NumbersInv ==
  /\ \A l \in loads : l.n <= asked
  /\ \A l, k \in loads : l.n = k.n => l = k
Coming(l) ==
  /\ l.n = asked /\ Way(l) /\ <<l.of, l.filter>> = latest
  /\ l.phase = "served" /\ ~Written => FreshRows(l)
Shown ==
  /\ snapshot # NoSnap
  /\ <<snapshot.of, snapshot.filter>> = latest
  /\ ~Written => /\ FreshRows(snapshot)
                 /\ overlap \/ RightCount(snapshot.of, snapshot.filter,
                                          snapshot.count)
  /\ \A l \in loads : ~Way(l)
  /\ drawn = snapshot \/ loads # {}
ShownInv == active # NoTable /\ ~missed => Shown \/ \E l \in loads : Coming(l)

(* The cached count, while loads were asked for one at a time.             *)
AloneInv == ~overlap => \A l, k \in loads : l = k
CountInv ==
  ~overlap /\ active # NoTable /\ ~Written =>
    /\ \A t \in Table, f \in Filter :
         totalKey = <<t, f>> => RightCount(t, f, total)
    /\ \A l \in loads :
         /\ RightCount(l.of, l.filter, l.reuse)
         /\ l.phase = "served" => RightCount(l.of, l.filter, l.count)
ReuseInv ==
  ~overlap /\ active # NoTable =>
    \A l \in loads : Way(l) /\ l.reuse # NoCount => total = l.reuse

GridInv == NumbersInv /\ ShownInv /\ AloneInv /\ CountInv /\ ReuseInv

(* Steps that leave the loads, and what they bring, alone.                 *)
LEMMA IdleKeeps ==
  ASSUME GridInv, UNCHANGED <<loads, asked, history>>,
         \/ active' = NoTable
         \/ /\ UNCHANGED <<db, active, snapshot, drawn, totalKey, total>>
            /\ Written => Written'
  PROVE  GridInv'
<1>1. NumbersInv' /\ AloneInv'
  BY DEF GridInv, NumbersInv, AloneInv, history
<1>2. CASE active' = NoTable
  BY <1>1, <1>2 DEF GridInv, ShownInv, CountInv, ReuseInv
<1>3. CASE /\ UNCHANGED <<db, active, snapshot, drawn, totalKey, total>>
           /\ Written => Written'
  <2>1. /\ \A s : FreshRows(s)' <=> FreshRows(s)
        /\ \A t, f, c : RightCount(t, f, c)' <=> RightCount(t, f, c)
    BY <1>3 DEF FreshRows, RightCount, PageRows, Before, Found
  <2>2. \A l \in loads : Coming(l) => Coming(l)'
    BY <1>3, <2>1 DEF Coming, Way, history
  <2>3. Shown => Shown'
    BY <1>3, <2>1 DEF Shown, Way, history
  <2>4. ShownInv'
    BY <1>3, <2>2, <2>3 DEF GridInv, ShownInv, history
  <2>5. CountInv'
    BY <1>3, <2>1 DEF GridInv, CountInv, history
  <2>6. ReuseInv'
    BY <1>3 DEF GridInv, ReuseInv, Way, history
  <2> QED
    BY <1>1, <2>4, <2>5, <2>6 DEF GridInv
<1> QED
  BY <1>2, <1>3

(* A new load, with the cached count or without one.                       *)
LEMMA AskKeeps ==
  ASSUME TypeOK, GridInv, NEW t \in Table, NEW f \in Filter, NEW p \in Nat,
         NEW key, NEW cached, Ask(t, f, p, key, cached), UNCHANGED db,
         totalKey' = key, total' = cached,
         \/ key = <<>> /\ cached = NoCount
         \/ /\ t = active /\ UNCHANGED <<active, totalKey, total>>
            /\ Written' <=> Written
  PROVE  GridInv'
<1> DEFINE reuse == IF key = <<t, f>> THEN cached ELSE NoCount
<1>0. PICK l : l = [n |-> asked + 1, of |-> t, filter |-> f, page |-> p,
                    reuse |-> reuse, phase |-> "sent", rows |-> <<>>,
                    count |-> NoCount, meta |-> NoTable]
  OBVIOUS
<1>1. /\ asked' = asked + 1 /\ loads' = loads \cup {l} /\ latest' = <<t, f>>
      /\ overlap' = (overlap \/ loads # {})
  BY <1>0 DEF Ask
<1>2. asked \in Nat /\ \A k \in loads : k.n \in Nat
  BY DEF TypeOK, LoadRec
<1>3. /\ l.n = asked + 1 /\ l.phase = "sent" /\ l.of = t /\ l.filter = f
      /\ l.reuse = reuse
  BY <1>0
<1>4. reuse # NoCount => key = <<t, f>> /\ cached = reuse
  OBVIOUS
<1> HIDE DEF reuse
<1>5. NumbersInv'
  BY <1>1, <1>2, <1>3 DEF GridInv, NumbersInv
<1>6. Coming(l)'
  BY <1>1, <1>3 DEF Coming, Way
<1>7. ShownInv'
  BY <1>1, <1>6 DEF ShownInv
<1>8. ~overlap' => loads' = {l} /\ ~overlap
  BY <1>1
<1>9. AloneInv'
  BY <1>8 DEF AloneInv
<1>10. \A u, g, c : RightCount(u, g, c)' <=> RightCount(u, g, c)
  BY DEF RightCount, Found
<1>11. CountInv'
  <2> SUFFICES ASSUME ~overlap', active' # NoTable, ~Written'
               PROVE  /\ \A u \in Table, g \in Filter :
                           key = <<u, g>> => RightCount(u, g, cached)
                      /\ RightCount(t, f, reuse)
    BY <1>3, <1>8, <1>10 DEF CountInv
  <2>1. CASE key = <<>> /\ cached = NoCount
    BY <2>1, <1>4 DEF RightCount
  <2>2. CASE /\ t = active /\ UNCHANGED <<active, totalKey, total>>
             /\ Written' <=> Written
    <3>1. \A u \in Table, g \in Filter :
            key = <<u, g>> => RightCount(u, g, cached)
      BY <2>2, <1>8 DEF GridInv, CountInv
    <3> QED
      BY <3>1, <1>4 DEF RightCount
  <2> QED
    BY <2>1, <2>2
<1>12. ReuseInv'
  BY <1>3, <1>4, <1>8 DEF ReuseInv
<1> QED
  BY <1>5, <1>7, <1>9, <1>11, <1>12 DEF GridInv

LEMMA AskActiveKeeps ==
  ASSUME TypeOK, GridInv, NEW f \in Filter, NEW p \in Nat, AskActive(f, p),
         UNCHANGED <<db, active, snapshot, totalKey, total, drawn, op>>
  PROVE  GridInv'
<1>1. Written' <=> Written
  BY DEF Written
<1>2. CASE active = NoTable
  <2>1. UNCHANGED <<loads, asked, history>>
    BY <1>2 DEF AskActive
  <2> QED
    BY <1>1, <2>1, IdleKeeps
<1>3. CASE active # NoTable
  <2>1. active \in Table /\ Ask(active, f, p, totalKey, total)
    BY <1>3 DEF AskActive, TypeOK
  <2> QED
    BY <1>1, <2>1, AskKeeps
<1> QED
  BY <1>2, <1>3

(* Steps of the user.                                                      *)
LEMMA UserKeeps ==
  ASSUME TypeOK, GridInv,
         \/ \E t \in Table : OpenTable(t)
         \/ RunQuery \/ CloseTable \/ Search
         \/ \E f \in Filter : Keystroke(f) \/ PickColumn(f)
         \/ \E p \in 0..Cardinality(Row) : Turn(p)
         \/ \E k \in Kind, at \in 1..PageSize : Click(k, at)
         \/ Dismiss \/ Confirm \/ KeysKnown \/ UNCHANGED vars
  PROVE  GridInv'
<1>1. ASSUME NEW t \in Table, OpenTable(t)
      PROVE  GridInv'
  <2>1. /\ Ask(t, NoFilter, 0, <<>>, NoCount) /\ UNCHANGED db
        /\ totalKey' = <<>> /\ total' = NoCount
    BY <1>1 DEF OpenTable
  <2> QED
    BY <2>1, AskKeeps, NullAssumption
<1>2. CASE RunQuery \/ CloseTable
  BY <1>2, IdleKeeps DEF RunQuery, CloseTable
<1>3. ASSUME NEW f \in Filter, Keystroke(f)
      PROVE  GridInv'
  BY <1>3, IdleKeeps DEF Keystroke, Written
<1>4. CASE Search
  <2>1. AskActive(filter, 0) /\ filter \in Filter /\ 0 \in Nat
    BY <1>4 DEF Search, TypeOK
  <2> QED
    BY <1>4, <2>1, AskActiveKeeps DEF Search, session
<1>5. ASSUME NEW f \in Filter, PickColumn(f)
      PROVE  GridInv'
  <2>1. AskActive(f, 0) /\ 0 \in Nat
    BY <1>5 DEF PickColumn
  <2> QED
    BY <1>5, <2>1, AskActiveKeeps DEF PickColumn
<1>6. ASSUME NEW p \in 0..Cardinality(Row), Turn(p)
      PROVE  GridInv'
  <2>1. AskActive(filter, p) /\ filter \in Filter /\ p \in Nat
    BY <1>6 DEF Turn, TypeOK
  <2> QED
    BY <1>6, <2>1, AskActiveKeeps DEF Turn, session
<1>7. CASE \/ \E k \in Kind, at \in 1..PageSize : Click(k, at)
           \/ Dismiss \/ Confirm \/ KeysKnown \/ UNCHANGED vars
  <2>1. /\ UNCHANGED <<db, active, snapshot, drawn, totalKey, total>>
        /\ UNCHANGED <<loads, asked, history>>
    BY <1>7 DEF Click, Dismiss, Confirm, KeysKnown, vars, session
  <2>2. Written => Written'
    BY <1>7 DEF Click, Dismiss, Confirm, KeysKnown, Dialog, Written, vars
  <2> QED
    BY <2>1, <2>2, IdleKeeps
<1> QED
  BY <1>1, <1>2, <1>3, <1>4, <1>5, <1>6, <1>7

LEMMA ServeKeeps ==
  ASSUME TypeOK, GridInv, NEW l \in loads, Serve(l)
  PROVE  GridInv'
<1>1. PICK c \in {Cardinality(Found(l.of, l.filter)), NoCount} :
        loads' = (loads \ {l}) \cup
          {[l EXCEPT !.phase = "served",
                     !.rows  = PageRows(l.of, l.filter, l.page),
                     !.count = IF l.reuse = NoCount THEN c ELSE NoCount]}
  BY DEF Serve
<1>0. PICK m : m = [l EXCEPT !.phase = "served",
                             !.rows  = PageRows(l.of, l.filter, l.page),
                             !.count = IF l.reuse = NoCount THEN c ELSE NoCount]
  OBVIOUS
<1>2. /\ loads' = (loads \ {l}) \cup {m} /\ l.phase = "sent"
      /\ UNCHANGED <<db, active, snapshot, drawn, totalKey, total, op, asked,
                     latest, missed, overlap>>
  BY <1>0, <1>1 DEF Serve, session, history
<1>3. /\ m.n = l.n /\ m.of = l.of /\ m.filter = l.filter /\ m.page = l.page
      /\ m.reuse = l.reuse /\ m.phase = "served"
      /\ m.rows = PageRows(l.of, l.filter, l.page)
      /\ m.count = IF l.reuse = NoCount THEN c ELSE NoCount
  BY <1>0 DEF TypeOK, LoadRec
<1>4. /\ \A s : FreshRows(s)' <=> FreshRows(s)
      /\ \A t, f, d : RightCount(t, f, d)' <=> RightCount(t, f, d)
      /\ Written' <=> Written
  BY <1>2 DEF FreshRows, RightCount, PageRows, Before, Found, Written
<1>5. NumbersInv'
  BY <1>2, <1>3 DEF GridInv, NumbersInv
<1>6. AloneInv'
  BY <1>2, <1>3 DEF GridInv, AloneInv
<1>7. FreshRows(m) /\ RightCount(m.of, m.filter, m.count)
  BY <1>3 DEF FreshRows, RightCount
<1>8. ShownInv'
  <2> SUFFICES ASSUME active # NoTable, ~missed
               PROVE  \E k \in loads' : Coming(k)'
    BY <1>2 DEF ShownInv
  <2>1. PICK k \in loads : Coming(k)
    BY <1>2 DEF GridInv, ShownInv, Shown, Way
  <2>2. CASE k = l
    <3>1. Coming(m)'
      BY <1>2, <1>3, <1>4, <1>7, <2>1, <2>2 DEF Coming, Way
    <3> QED
      BY <1>2, <3>1
  <2>3. CASE k # l
    <3>1. Coming(k)'
      BY <1>2, <1>4, <2>1 DEF Coming, Way
    <3> QED
      BY <1>2, <2>3, <3>1
  <2> QED
    BY <2>2, <2>3
<1>9. CountInv'
  BY <1>2, <1>3, <1>4, <1>7 DEF GridInv, CountInv
<1>10. ReuseInv'
  BY <1>2, <1>3 DEF GridInv, ReuseInv, Way
<1> QED
  BY <1>5, <1>6, <1>8, <1>9, <1>10 DEF GridInv

(* A load that arrives in turn is the one asked for last, or older.        *)
LEMMA LandKeeps ==
  ASSUME "reorder" \notin Fault, TypeOK, GridInv, NEW l \in loads, Land(l)
  PROVE  GridInv'
<1> DEFINE counted == IF l.reuse = NoCount THEN l.count ELSE l.reuse
           new == [of |-> l.of, filter |-> l.filter, page |-> l.page,
                   rows |-> l.rows, count |-> counted, n |-> l.n]
           m == [l EXCEPT !.phase = "meta", !.meta = active]
<1>1. /\ snapshot' = new /\ totalKey' = <<l.of, l.filter>>
      /\ total' = IF l.reuse = NoCount THEN l.count ELSE total
      /\ drawn' = IF active # NoTable /\ keys = active THEN new ELSE drawn
      /\ loads' = IF active = NoTable \/ keys = active THEN loads \ {l}
                  ELSE (loads \ {l}) \cup {m}
      /\ l.phase = "served"
      /\ UNCHANGED <<db, active, op, asked, latest, missed, overlap>>
  BY DEF Land, history
<1>2. \A k \in loads : k.phase = "meta" \/ l.n <= k.n
  BY DEF Land, InTurn
<1>3. m.n = l.n /\ m.phase = "meta" /\ m.of = l.of /\ m.filter = l.filter
      /\ m.reuse = l.reuse
  BY DEF TypeOK, LoadRec
<1>4. /\ new.of = l.of /\ new.filter = l.filter /\ new.page = l.page
      /\ new.rows = l.rows /\ new.count = counted
  OBVIOUS
<1>5. new # NoSnap
  <2>1. new \in Snap
    BY DEF TypeOK, LoadRec, Snap
  <2> QED
    BY <2>1, SnapAssumption
<1>6. asked \in Nat /\ \A k \in loads : k.n \in Nat /\ l \in LoadRec
      /\ l.of \in Table /\ l.filter \in Filter
  BY DEF TypeOK, LoadRec
<1> HIDE DEF new, m
<1>7. /\ \A s : FreshRows(s)' <=> FreshRows(s)
      /\ \A t, f, d : RightCount(t, f, d)' <=> RightCount(t, f, d)
      /\ Written' <=> Written
  BY <1>1 DEF FreshRows, RightCount, PageRows, Before, Found, Written
<1>8. NumbersInv'
  BY <1>1, <1>3 DEF GridInv, NumbersInv
<1>9. AloneInv'
  BY <1>1, <1>3 DEF GridInv, AloneInv
<1>10. \A k \in loads' : k \in loads \/ (k = m /\ k.phase = "meta")
  BY <1>1, <1>3
<1>11. ASSUME ~overlap, active # NoTable, ~Written
       PROVE  RightCount(l.of, l.filter, counted)
  BY <1>1, <1>11 DEF GridInv, CountInv
<1>12. ShownInv'
  <2> SUFFICES ASSUME active # NoTable, ~missed
               PROVE  Shown' \/ \E k \in loads' : Coming(k)'
    BY <1>1 DEF ShownInv
  <2>1. PICK k \in loads : Coming(k)
    BY <1>1 DEF GridInv, ShownInv, Shown, Way
  <2>2. CASE k = l
    <3>1. \A j \in loads : j # l => j.phase = "meta"
      BY <1>2, <1>6, <2>1, <2>2 DEF GridInv, NumbersInv, Coming
    <3>2. \A j \in loads' : ~Way(j)
      BY <1>1, <1>3, <3>1 DEF Way
    <3>3. <<new.of, new.filter>> = latest /\ (~Written => FreshRows(new))
      BY <1>1, <1>4, <2>1, <2>2 DEF Coming, FreshRows
    <3>4. ~Written => overlap \/ RightCount(new.of, new.filter, new.count)
      BY <1>4, <1>11
    <3>5. drawn' = new \/ loads' # {}
      BY <1>1
    <3>6. Shown'
      BY <1>1, <1>5, <1>7, <3>2, <3>3, <3>4, <3>5 DEF Shown
    <3> QED
      BY <3>6
  <2>3. CASE k # l
    <3>1. Coming(k)' /\ k \in loads'
      BY <1>1, <1>7, <2>1, <2>3 DEF Coming, Way
    <3> QED
      BY <3>1
  <2> QED
    BY <2>2, <2>3
<1>13. CountInv'
  <2> SUFFICES ASSUME ~overlap, active # NoTable, ~Written
               PROVE  /\ RightCount(l.of, l.filter, total')
                      /\ \A k \in loads' :
                           /\ RightCount(k.of, k.filter, k.reuse)
                           /\ k.phase = "served" =>
                                RightCount(k.of, k.filter, k.count)
    BY <1>1, <1>6, <1>7 DEF CountInv
  <2>1. /\ RightCount(l.of, l.filter, l.reuse)
        /\ RightCount(l.of, l.filter, l.count)
        /\ l.reuse # NoCount => total = l.reuse
    BY <1>1 DEF GridInv, CountInv, ReuseInv, Way
  <2>2. RightCount(l.of, l.filter, total')
    BY <1>1, <2>1
  <2>3. \A k \in loads : /\ RightCount(k.of, k.filter, k.reuse)
                         /\ k.phase = "served" =>
                              RightCount(k.of, k.filter, k.count)
    BY DEF GridInv, CountInv
  <2> QED
    BY <1>3, <1>10, <2>1, <2>2, <2>3
<1>14. ReuseInv'
  <2> SUFFICES ASSUME ~overlap, NEW k \in loads', Way(k)
               PROVE  FALSE
    BY <1>1 DEF ReuseInv, Way
  <2>1. k \in loads \ {l}
    BY <1>1, <1>3 DEF Way
  <2> QED
    BY <2>1 DEF GridInv, AloneInv
<1> QED
  BY <1>8, <1>9, <1>12, <1>13, <1>14 DEF GridInv

LEMMA DrawKeeps ==
  ASSUME TypeOK, GridInv, NEW l \in loads, Draw(l)
  PROVE  GridInv'
<1>1. /\ l.phase = "meta" /\ loads' = loads \ {l}
      /\ drawn' = IF active = NoTable THEN NoSnap ELSE snapshot
      /\ UNCHANGED <<db, active, snapshot, totalKey, total, op, asked, latest,
                     missed, overlap>>
  BY DEF Draw, history
<1>2. /\ \A s : FreshRows(s)' <=> FreshRows(s)
      /\ \A t, f, d : RightCount(t, f, d)' <=> RightCount(t, f, d)
      /\ Written' <=> Written
  BY <1>1 DEF FreshRows, RightCount, PageRows, Before, Found, Written
<1>3. NumbersInv' /\ AloneInv' /\ ReuseInv'
  BY <1>1 DEF GridInv, NumbersInv, AloneInv, ReuseInv, Way
<1>4. CountInv'
  BY <1>1, <1>2 DEF GridInv, CountInv
<1>5. ShownInv'
  <2> SUFFICES ASSUME active # NoTable, ~missed
               PROVE  Shown' \/ \E k \in loads' : Coming(k)'
    BY <1>1 DEF ShownInv
  <2>1. CASE Shown
    <3>1. Shown'
      BY <1>1, <1>2, <2>1 DEF Shown, Way
    <3> QED
      BY <3>1
  <2>2. ASSUME NEW k \in loads, Coming(k)
        PROVE  \E j \in loads' : Coming(j)'
    <3>1. k \in loads' /\ Coming(k)'
      BY <1>1, <1>2, <2>2 DEF Coming, Way
    <3> QED
      BY <3>1
  <2> QED
    BY <2>1, <2>2 DEF GridInv, ShownInv
<1> QED
  BY <1>3, <1>4, <1>5 DEF GridInv

LEMMA FailsKeeps ==
  ASSUME TypeOK, GridInv, (\E l \in loads : LoadFails(l)) \/ WriteFails
  PROVE  GridInv'
<1>1. /\ missed' = TRUE /\ loads' \subseteq loads
      /\ UNCHANGED <<db, active, totalKey, total, asked>>
      /\ overlap => overlap'
  <2>1. ASSUME NEW l \in loads, LoadFails(l)
        PROVE  /\ missed' = TRUE /\ loads' = loads \ {l}
               /\ UNCHANGED <<db, active, totalKey, total, asked, overlap>>
    BY <2>1 DEF LoadFails, session
  <2>2. CASE WriteFails
    <3>1. /\ missed' = TRUE /\ loads' = loads
          /\ UNCHANGED <<db, active, totalKey, total, asked>>
      BY <2>2 DEF WriteFails, session
    <3>2. overlap => overlap'
      BY <2>2 DEF WriteFails
    <3> QED
      BY <3>1, <3>2
  <2> QED
    BY <2>1, <2>2
<1>2. Written => overlap' \/ Written'
  BY DEF LoadFails, WriteFails, Written
<1>3. \A t, f, d : RightCount(t, f, d)' <=> RightCount(t, f, d)
  BY <1>1 DEF RightCount, Found
<1>4. NumbersInv' /\ ShownInv' /\ AloneInv' /\ ReuseInv'
  BY <1>1 DEF GridInv, NumbersInv, ShownInv, AloneInv, ReuseInv, Way
<1>5. CountInv'
  BY <1>1, <1>2, <1>3 DEF GridInv, CountInv
<1> QED
  BY <1>4, <1>5 DEF GridInv

LEMMA WriteKeeps ==
  ASSUME TypeOK, GridInv, ServeWrite \/ WriteDone
  PROVE  GridInv'
<1>0. op # NoOp /\ op \in OpRec
  BY DEF ServeWrite, WriteDone, TypeOK
<1>1. CASE ServeWrite
  <2>1. /\ op' = [op EXCEPT !.phase = "done"] /\ op.phase = "sent"
        /\ UNCHANGED <<active, snapshot, drawn, totalKey, total, loads, asked,
                       latest, missed, overlap>>
        /\ op.kind = "update" => db' = db
    BY <1>1 DEF ServeWrite, session, history
  <2>2. op'.phase = "done" /\ op'.kind = op.kind
    BY <1>0, <2>1 DEF OpRec
  <2>3. CASE op.kind = "update"
    <3>1. Written => Written'
      BY <2>1 DEF Written
    <3> QED
      BY <2>1, <2>3, <3>1, IdleKeeps DEF history
  <2>4. CASE op.kind # "update" /\ op' # NoOp
    <3>1. Written'
      BY <2>2, <2>4 DEF Written
    <3>2. NumbersInv' /\ AloneInv' /\ ReuseInv' /\ CountInv'
      BY <2>1, <3>1 DEF GridInv, NumbersInv, AloneInv, ReuseInv, CountInv, Way
    <3>3. ShownInv'
      BY <2>1, <3>1 DEF GridInv, ShownInv, Shown, Coming, Way
    <3> QED
      BY <3>2, <3>3 DEF GridInv
  <2>5. op' # NoOp
    <3>1. op' \in OpRec
      BY <1>0, <2>1 DEF OpRec
    <3> QED
      BY <3>1, OpAssumption
  <2> QED
    BY <2>3, <2>4, <2>5
<1>2. CASE WriteDone
  <2>1. CASE op.kind = "update"
    <3>1. /\ UNCHANGED <<db, active, snapshot, drawn, totalKey, total>>
          /\ UNCHANGED <<loads, asked, history>>
      BY <1>2, <2>1 DEF WriteDone
    <3>2. Written => Written'
      BY <2>1 DEF Written
    <3> QED
      BY <3>1, <3>2, IdleKeeps
  <2>2. CASE op.kind # "update" /\ active = NoTable
    <3>1. UNCHANGED <<loads, asked, history>> /\ active' = NoTable
      BY <1>2, <2>2 DEF WriteDone
    <3> QED
      BY <3>1, IdleKeeps
  <2>3. CASE op.kind # "update" /\ active # NoTable
    <3> DEFINE p == IF op.kind = "delete" THEN op.snap.page
                    ELSE IF snapshot = NoSnap THEN 0 ELSE snapshot.page
    <3>1. /\ Ask(active, filter, p, <<>>, NoCount) /\ UNCHANGED db
          /\ totalKey' = <<>> /\ total' = NoCount
      BY <1>2, <2>3 DEF WriteDone
    <3>2. p \in Nat /\ active \in Table /\ filter \in Filter
      BY <1>0, <2>3 DEF OpRec, Snap, TypeOK
    <3> HIDE DEF p
    <3> QED
      BY <3>1, <3>2, AskKeeps
  <2> QED
    BY <2>1, <2>2, <2>3
<1> QED
  BY <1>1, <1>2

(* When nothing is in flight and nothing failed, the grid shows the page   *)
(* of the database that was asked for last (loadTableRows, and the reloads *)
(* of rowOps.js), provided answers arrive in the order of their requests:  *)
(* nothing in tableData.js drops the answer to an older load.              *)
THEOREM GridShowsWhatIsStored ==
  ASSUME "reorder" \notin Fault
  PROVE  Spec => []GridShowsDatabase
<1>1. Init => GridInv
  BY DEF Init, GridInv, NumbersInv, ShownInv, AloneInv, CountInv, ReuseInv
<1>2. TypeOK /\ GridInv /\ [Next]_vars => GridInv'
  BY UserKeeps, ServeKeeps, LandKeeps, DrawKeeps, FailsKeeps, WriteKeeps
     DEF Next, User, Answers
<1>3. TypeOK /\ GridInv => GridShowsDatabase
  <2> SUFFICES ASSUME TypeOK, GridInv, Quiet
               PROVE  /\ drawn # NoSnap
                      /\ <<drawn.of, drawn.filter>> = latest
                      /\ drawn.rows = PageRows(drawn.of, drawn.filter, drawn.page)
                      /\ overlap \/ CountIsRight
    BY DEF GridShowsDatabase
  <2>1. Shown /\ ~Written
    BY DEF Quiet, GridInv, ShownInv, Written
  <2>2. drawn = snapshot
    BY <2>1 DEF Shown, Quiet
  <2> QED
    BY <2>1, <2>2 DEF Shown, FreshRows, RightCount, CountIsRight
<1> QED
  BY <1>1, <1>2, <1>3, GridTyped, PTL DEF Spec
=============================================================================
