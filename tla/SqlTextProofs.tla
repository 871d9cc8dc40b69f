--------------------------- MODULE SqlTextProofs ---------------------------
(***************************************************************************)
(* Theorems about the reading of a statement: who is asked before a text   *)
(* that destroys, what an Explain sends, and what an editable result is a  *)
(* result of.                                                              *)
(***************************************************************************)
EXTENDS SqlText, FiniteSetTheorems, SequenceTheorems, WellFoundedInduction, TLAPS

-----------------------------------------------------------------------------
(* Numbers and positions.                                                  *)

(* Of some numbers there is a least one.                                   *)
LEMMA LeastOf ==
  ASSUME NEW S, S \subseteq Nat, S # {}
  PROVE  \E i \in S : \A j \in S : i <= j
<1> DEFINE R == OpToRel(<, Nat)
<1>1. IsWellFoundedOn(R, Nat)
  BY NatLessThanWellFounded
<1>2. \A n, m \in Nat : n < m => <<n, m>> \in R
  BY DEF OpToRel
<1> HIDE DEF R
<1>3. PICK m \in S : \A n \in S : ~(<<n, m>> \in R)
  BY <1>1, WFMin
<1>4. m \in Nat /\ \A n \in S : n \in Nat /\ ~(n < m)
  BY <1>2, <1>3
<1>5. \A n \in S : m <= n
  BY <1>4
<1> QED
  BY <1>5

(* What holds of 0 and of the successor of each number holds of all.       *)
LEMMA Counting ==
  ASSUME NEW S, 0 \in S, \A n \in Nat : n \in S => n + 1 \in S
  PROVE  Nat \subseteq S
<1> DEFINE T == {n \in Nat : n \notin S}
<1> SUFFICES ASSUME T # {} PROVE FALSE
  OBVIOUS
<1>1. T \subseteq Nat
  OBVIOUS
<1>2. PICK m \in T : \A n \in T : m <= n
  BY <1>1, LeastOf
<1>3. m \in Nat /\ m # 0 /\ m - 1 \in Nat
  OBVIOUS
<1>4. m - 1 \notin T
  BY <1>2, <1>3
<1>5. (m - 1) + 1 \in S
  BY <1>3, <1>4
<1> QED
  BY <1>3, <1>5

-----------------------------------------------------------------------------
(* The statements of a text.                                               *)

LEMMA CutsFacts ==
  ASSUME NEW s, IsSeq(s)
  PROVE  /\ Len(s) \in Nat /\ DOMAIN s = 1..Len(s)
         /\ Cuts(s) \subseteq Nat /\ 0 \in Cuts(s) /\ Len(s) + 1 \in Cuts(s)
         /\ \A i \in Cuts(s) : i <= Len(s) + 1
         /\ \A i \in 1..Len(s) : i \in Cuts(s) <=> s[i] = Semi
<1>1. Len(s) \in Nat /\ DOMAIN s = 1..Len(s)
  BY LenProperties DEF IsSeq
<1> QED
  BY <1>1 DEF Cuts

(* What is between two neighbouring cuts.                                  *)
LEMMA StatementIs ==
  ASSUME NEW s, IsSeq(s), NEW st \in StatementsOf(s)
  PROVE  \E b, e \in Cuts(s) :
           /\ b < e /\ (\A k \in Cuts(s) : k <= b \/ e <= k)
           /\ Len(st) = (e - 1) - b /\ DOMAIN st = 1..((e - 1) - b)
           /\ \A i \in 1..((e - 1) - b) : st[i] = s[b + i]
<1>1. PICK c \in Cuts(s) \X Cuts(s) :
        /\ c[1] < c[2] /\ \A k \in Cuts(s) : k <= c[1] \/ c[2] <= k
        /\ st = SubSeq(s, c[1] + 1, c[2] - 1)
  BY DEF StatementsOf
<1> DEFINE b == c[1]
           e == c[2]
<1>2. b \in Cuts(s) /\ e \in Cuts(s)
  OBVIOUS
<1>3. b \in Nat /\ e \in Nat /\ e <= Len(s) + 1 /\ Len(s) \in Nat
  BY <1>2, CutsFacts
<1>4. b < e /\ st = SubSeq(s, b + 1, e - 1)
  BY <1>1
<1> HIDE DEF b, e
<1>5. s \in Seq(Words(s)) /\ b + 1 \in 1..(Len(s) + 1) /\ e - 1 \in b..Len(s)
  BY <1>3, <1>4 DEF IsSeq
<1>6. /\ Len(st) = (e - 1) - b /\ st \in Seq(Words(s))
      /\ \A i \in 1..((e - 1) - b) : st[i] = s[b + i]
  BY <1>3, <1>4, <1>5, SubSeqProperties
<1>7. DOMAIN st = 1..((e - 1) - b)
  BY <1>6, LenProperties
<1> QED
  BY <1>1, <1>2, <1>4, <1>6, <1>7 DEF b, e

(* A word of a statement is a word of the text, and neighbours stay so.    *)
LEMMA StatementInText ==
  ASSUME NEW s, IsSeq(s), NEW st \in StatementsOf(s), NEW a, NEW b,
         Adjacent(st, a, b)
  PROVE  Adjacent(s, a, b)
<1>1. PICK p, e \in Cuts(s) :
        /\ p < e /\ (\A k \in Cuts(s) : k <= p \/ e <= k)
        /\ Len(st) = (e - 1) - p /\ DOMAIN st = 1..((e - 1) - p)
        /\ \A i \in 1..((e - 1) - p) : st[i] = s[p + i]
  BY StatementIs
<1>2. p \in Nat /\ e \in Nat /\ e <= Len(s) + 1 /\ Len(s) \in Nat
  BY CutsFacts
<1>3. PICK i \in 1..Len(st) - 1 : st[i] = W(a) /\ st[i + 1] = W(b)
  BY DEF Adjacent
<1>4. /\ i \in Nat /\ i >= 1 /\ i + 1 <= (e - 1) - p
      /\ p + i \in 1..Len(s) - 1 /\ p + (i + 1) = (p + i) + 1
  BY <1>1, <1>2, <1>3
<1>5. st[i] = s[p + i] /\ st[i + 1] = s[(p + i) + 1]
  BY <1>1, <1>2, <1>4, SMTT(40)
<1> QED
  BY <1>3, <1>4, <1>5 DEF Adjacent

(* Neighbours that are no ; are neighbours in a statement.                 *)
LEMMA TextInStatement ==
  ASSUME NEW s, IsSeq(s), NEW a, NEW b, Adjacent(s, a, b),
         W(a) # Semi, W(b) # Semi
  PROVE  \E st \in StatementsOf(s) : Adjacent(st, a, b)
<1>1. /\ Len(s) \in Nat /\ DOMAIN s = 1..Len(s)
      /\ Cuts(s) \subseteq Nat /\ 0 \in Cuts(s) /\ Len(s) + 1 \in Cuts(s)
      /\ \A i \in 1..Len(s) : i \in Cuts(s) <=> s[i] = Semi
  BY CutsFacts
<1>2. PICK i \in 1..Len(s) - 1 : s[i] = W(a) /\ s[i + 1] = W(b)
  BY DEF Adjacent
<1>3. i \in 1..Len(s) /\ i + 1 \in 1..Len(s) /\ i \notin Cuts(s) /\ i + 1 \notin Cuts(s)
  BY <1>1, <1>2
<1> DEFINE Back == {n \in Nat : n <= i /\ i - n \in Cuts(s)}
           On   == {n \in Cuts(s) : i <= n}
<1>4. i \in Back /\ Back \subseteq Nat
  BY <1>1, <1>3
<1>5. PICK m \in Back : \A n \in Back : m <= n
  BY <1>4, LeastOf
<1>6. Len(s) + 1 \in On /\ On \subseteq Nat
  BY <1>1, <1>3
<1>7. PICK e \in On : \A n \in On : e <= n
  BY <1>6, LeastOf
<1> DEFINE p == i - m
<1>8. p \in Cuts(s) /\ p \in Nat /\ p <= i /\ p # i /\ p < i
  BY <1>1, <1>3, <1>5
<1>9. /\ e \in Cuts(s) /\ e \in Nat /\ i <= e /\ e # i /\ e # i + 1
      /\ i + 1 < e /\ e <= Len(s) + 1
  BY <1>1, <1>3, <1>6, <1>7
<1>10. ASSUME NEW k \in Cuts(s) PROVE k <= p \/ e <= k
  <2>1. k \in Nat
    BY <1>1
  <2>2. CASE i <= k
    BY <1>7, <2>2
  <2>3. CASE k < i
    <3>1. i - k \in Back
      BY <1>3, <2>1, <2>3
    <3>2. m <= i - k /\ m \in Nat
      BY <1>5, <3>1
    <3> QED
      BY <1>3, <2>1, <3>2
  <2> QED
    BY <1>3, <2>1, <2>2, <2>3
<1> HIDE DEF p, Back, On
<1>11. SubSeq(s, p + 1, e - 1) \in StatementsOf(s)
  <2> DEFINE c == <<p, e>>
  <2>1. c \in Cuts(s) \X Cuts(s) /\ c[1] = p /\ c[2] = e
    BY <1>8, <1>9
  <2>2. c[1] < c[2] /\ \A k \in Cuts(s) : k <= c[1] \/ c[2] <= k
    BY <1>3, <1>8, <1>9, <1>10, <2>1
  <2> HIDE DEF c
  <2> QED
    BY <2>1, <2>2 DEF StatementsOf
<1>12. s \in Seq(Words(s)) /\ p + 1 \in Int /\ e - 1 \in Int
       /\ \A j \in (p + 1)..(e - 1) : s[j] \in Words(s)
  BY <1>1, <1>8, <1>9, SMTT(40) DEF IsSeq, Words
<1> DEFINE st == SubSeq(s, p + 1, e - 1)
<1>13. /\ Len(st) = (e - 1) - p
       /\ \A j \in 1..((e - 1) - p) : st[j] = s[p + j]
  <2>1. (e - 1) - (p + 1) + 1 = (e - 1) - p /\ p + 1 <= e - 1
    BY <1>3, <1>8, <1>9
  <2>2. \A j \in 1..((e - 1) - p) : (p + 1) + j - 1 = p + j
    BY <1>8, <1>9
  <2> QED
    BY <1>12, <2>1, <2>2, SubSeqProperties
<1>14. /\ i - p \in 1..Len(st) - 1 /\ i - p \in 1..((e - 1) - p)
       /\ (i - p) + 1 \in 1..((e - 1) - p)
       /\ p + (i - p) = i /\ p + ((i - p) + 1) = i + 1
  BY <1>3, <1>8, <1>9, <1>13
<1>15. st[i - p] = W(a) /\ st[(i - p) + 1] = W(b)
  BY <1>2, <1>13, <1>14
<1>16. Adjacent(st, a, b)
  BY <1>14, <1>15 DEF Adjacent
<1> QED
  BY <1>11, <1>16

(* A text without a ; is one statement.                                    *)
LEMMA OneStatement ==
  ASSUME NEW s, IsSeq(s), Semi \notin Words(s), s # <<>>
  PROVE  StatementsOf(s) = {s}
<1>1. /\ Len(s) \in Nat /\ DOMAIN s = 1..Len(s)
      /\ Cuts(s) = {0, Len(s) + 1}
  BY CutsFacts DEF Cuts, Words
<1>2. SubSeq(s, 1, Len(s)) = s
  BY SubSeqFull DEF IsSeq
<1>3. ASSUME NEW c \in Cuts(s) \X Cuts(s)
      PROVE  (/\ c[1] < c[2]
              /\ \A k \in Cuts(s) : k <= c[1] \/ c[2] <= k)
             <=> c = <<0, Len(s) + 1>>
  BY <1>1
<1>4. <<0, Len(s) + 1>> \in Cuts(s) \X Cuts(s)
  BY <1>1
<1> DEFINE d == <<0, Len(s) + 1>>
           D == {c \in Cuts(s) \X Cuts(s) :
                   c[1] < c[2] /\ \A k \in Cuts(s) : k <= c[1] \/ c[2] <= k}
<1>5. D = {d}
  BY <1>3, <1>4
<1>6. d[1] + 1 = 1 /\ d[2] - 1 = Len(s)
  BY <1>1
<1>7. StatementsOf(s) = {SubSeq(s, c[1] + 1, c[2] - 1) : c \in D}
  BY DEF StatementsOf
<1> HIDE DEF D, d
<1> QED
  BY <1>2, <1>5, <1>6, <1>7

-----------------------------------------------------------------------------
(* The server's reading.                                                   *)

State(T) == [mode : {"code", "literal", "line", "block"}, out : Seq(T)]
Start == [mode |-> "code", out |-> <<>>]
Behind(h, a) == [mode |-> a.mode, out |-> h \o a.out]

(* The function that Lexed applies.                                        *)
LexAt(s, f, n) == IF n = 0 THEN Start ELSE LexStep(f[n - 1], s[n])
Lexer(s) == CHOOSE f : f = [n \in 0..Len(s) |-> LexAt(s, f, n)]

LEMMA LexedIs == ASSUME NEW s PROVE Lexed(s) = Lexer(s)[Len(s)].out
BY DEF Lexed, Lexer, LexAt, Start

LEMMA LexerExists ==
  ASSUME NEW s, NEW k \in Nat
  PROVE  \E f : f = [n \in 0..k |-> LexAt(s, f, n)]
<1> DEFINE S == {m \in Nat : \E f : f = [n \in 0..m |-> LexAt(s, f, n)]}
<1>1. 0 \in S
  <2> DEFINE f == [n \in 0..0 |-> Start]
  <2>1. \A n \in 0..0 : LexAt(s, f, n) = Start
    BY DEF LexAt
  <2>2. f = [n \in 0..0 |-> LexAt(s, f, n)]
    BY <2>1
  <2> QED
    BY <2>2
<1>2. ASSUME NEW m \in Nat, m \in S
      PROVE  m + 1 \in S
  <2>1. PICK f : f = [n \in 0..m |-> LexAt(s, f, n)]
    BY <1>2
  <2> DEFINE g == [n \in 0..(m + 1) |-> IF n = m + 1 THEN LexAt(s, f, n) ELSE f[n]]
  <2>2. \A n \in 0..(m + 1) : n = 0 \/ (n - 1 \in 0..m /\ g[n - 1] = f[n - 1])
    OBVIOUS
  <2>3. \A n \in 0..(m + 1) : LexAt(s, g, n) = LexAt(s, f, n)
    BY <2>2 DEF LexAt
  <2>4. \A n \in 0..(m + 1) : n = m + 1 \/ (n \in 0..m /\ f[n] = LexAt(s, f, n))
    BY <2>1
  <2>5. g = [n \in 0..(m + 1) |-> LexAt(s, g, n)]
    BY <2>3, <2>4
  <2> HIDE DEF g
  <2>6. m + 1 \in Nat /\ \E h : h = [n \in 0..(m + 1) |-> LexAt(s, h, n)]
    BY <2>5
  <2> QED
    BY <2>6
<1> HIDE DEF S
<1>3. Nat \subseteq S
  BY <1>1, <1>2, Counting
<1> QED
  BY <1>3 DEF S

LEMMA LexerDoes ==
  ASSUME NEW T, NEW s \in Seq(T)
  PROVE  /\ Lexer(s)[0] = Start
         /\ \A n \in 1..Len(s) : Lexer(s)[n] = LexStep(Lexer(s)[n - 1], s[n])
<1> DEFINE f == Lexer(s)
<1>1. Len(s) \in Nat
  BY LenProperties
<1>2. f = [n \in 0..Len(s) |-> LexAt(s, f, n)]
  BY <1>1, LexerExists DEF Lexer
<1> HIDE DEF f
<1>3. \A n \in 0..Len(s) : f[n] = LexAt(s, f, n)
  BY <1>2
<1>4. 0 \in 0..Len(s) /\ \A n \in 1..Len(s) : n \in 0..Len(s) /\ n # 0
  BY <1>1
<1> QED
  BY <1>3, <1>4 DEF f, LexAt

LEMMA LexStepTyped ==
  ASSUME NEW T, Literal \in T, NEW a \in State(T), NEW x \in T
  PROVE  LexStep(a, x) \in State(T)
<1>1. a.out \in Seq(T) /\ a.mode \in {"code", "literal", "line", "block"}
  BY DEF State
<1>2. Append(a.out, x) \in Seq(T) /\ Append(a.out, Literal) \in Seq(T)
  BY <1>1, AppendProperties
<1> QED
  BY <1>1, <1>2 DEF LexStep, State

(* Every step gives a state over the tokens of the text.                   *)
LEMMA LexerTyped ==
  ASSUME NEW T, Literal \in T, NEW s \in Seq(T)
  PROVE  \A n \in 0..Len(s) : Lexer(s)[n] \in State(T)
<1> DEFINE f == Lexer(s)
           S == {n \in Nat : n <= Len(s) => f[n] \in State(T)}
<1>0. Len(s) \in Nat /\ \A n \in 1..Len(s) : s[n] \in T
  BY LenProperties, ElementOfSeq
<1>1. f[0] = Start /\ \A n \in 1..Len(s) : f[n] = LexStep(f[n - 1], s[n])
  BY LexerDoes
<1> HIDE DEF f
<1>2. 0 \in S
  <2>1. Start \in State(T)
    BY EmptySeq DEF Start, State
  <2> QED
    BY <1>1, <2>1
<1>3. ASSUME NEW n \in Nat, n \in S PROVE n + 1 \in S
  <2> SUFFICES ASSUME n + 1 <= Len(s) PROVE f[n + 1] \in State(T)
    OBVIOUS
  <2>1. n + 1 \in 1..Len(s) /\ (n + 1) - 1 = n /\ f[n] \in State(T)
    BY <1>0, <1>3
  <2>2. f[n + 1] = LexStep(f[n], s[n + 1])
    BY <1>1, <2>1
  <2> QED
    BY <1>0, <2>1, <2>2, LexStepTyped
<1> HIDE DEF S
<1>4. Nat \subseteq S
  BY <1>2, <1>3, Counting
<1>5. \A n \in 0..Len(s) : f[n] \in State(T)
  BY <1>0, <1>4 DEF S
<1> QED
  BY <1>5 DEF f

LEMMA LexedTyped ==
  ASSUME NEW T, Literal \in T, NEW s \in Seq(T)
  PROVE  Lexed(s) \in Seq(T)
<1>1. Len(s) \in 0..Len(s)
  BY LenProperties
<1>2. Lexer(s)[Len(s)] \in State(T)
  BY <1>1, LexerTyped
<1> QED
  BY <1>2, LexedIs DEF State

(* A sequence over some set is one over its own elements.                  *)
LEMMA SeqIsSeq ==
  ASSUME NEW T, NEW s \in Seq(T)
  PROVE  IsSeq(s) /\ Words(s) \subseteq T
<1>1. Len(s) \in Nat /\ DOMAIN s = 1..Len(s) /\ s \in [1..Len(s) -> T]
  BY LenProperties
<1>2. s \in [1..Len(s) -> Words(s)]
  BY <1>1 DEF Words
<1> QED
  BY <1>1, <1>2, SMTT(40) DEF IsSeq, Words

LEMMA ConcatAppend ==
  ASSUME NEW T, NEW h \in Seq(T), NEW o \in Seq(T), NEW x \in T
  PROVE  h \o Append(o, x) = Append(h \o o, x)
<1>1. <<x>> \in Seq(T) /\ h \o o \in Seq(T)
  BY ConcatProperties
<1>2. Append(o, x) = o \o <<x>> /\ Append(h \o o, x) = (h \o o) \o <<x>>
  BY <1>1, AppendIsConcat
<1> QED
  BY <1>1, <1>2, ConcatAssociative

(* What a step makes of the mode and of the text read.                     *)
NextMode(m, x) ==
  IF m = "code"
  THEN IF x = Quote THEN "literal" ELSE IF x = Mark THEN "line"
       ELSE IF x = Opens THEN "block" ELSE "code"
  ELSE IF <<m, x>> \in {<<"literal", Quote>>, <<"line", NewLine>>, <<"block", Closes>>}
       THEN "code" ELSE m
NextOut(m, o, x) ==
  IF m = "code" /\ x \notin {Quote, Mark, Opens, NewLine} THEN Append(o, x)
  ELSE IF m = "literal" /\ x = Quote THEN Append(o, Literal) ELSE o

LEMMA LexStepIs ==
  ASSUME NEW m \in {"code", "literal", "line", "block"}, NEW o, NEW x
  PROVE  LexStep([mode |-> m, out |-> o], x)
           = [mode |-> NextMode(m, x), out |-> NextOut(m, o, x)]
<1> DEFINE a == [mode |-> m, out |-> o]
<1>1. CASE m = "code"
  BY <1>1 DEF LexStep, NextMode, NextOut, Quote, Mark, Opens, NewLine
<1>2. CASE m = "literal"
  BY <1>2 DEF LexStep, NextMode, NextOut
<1>3. CASE m = "line"
  BY <1>3 DEF LexStep, NextMode, NextOut
<1>4. CASE m = "block"
  BY <1>4 DEF LexStep, NextMode, NextOut
<1> QED
  BY <1>1, <1>2, <1>3, <1>4

(* What was read before does not change how the rest is read.              *)
LEMMA LexStepBehind ==
  ASSUME NEW T, Literal \in T, NEW h \in Seq(T), NEW a \in State(T), NEW x \in T
  PROVE  LexStep(Behind(h, a), x) = Behind(h, LexStep(a, x))
<1> DEFINE m == a.mode
           o == a.out
<1>1. o \in Seq(T) /\ m \in {"code", "literal", "line", "block"}
      /\ a = [mode |-> m, out |-> o]
  BY DEF State
<1> HIDE DEF m, o
<1>2. /\ h \o Append(o, x) = Append(h \o o, x)
      /\ h \o Append(o, Literal) = Append(h \o o, Literal)
  BY <1>1, ConcatAppend
<1>3. h \o NextOut(m, o, x) = NextOut(m, h \o o, x)
  BY <1>2 DEF NextOut
<1>4. LexStep(a, x) = [mode |-> NextMode(m, x), out |-> NextOut(m, o, x)]
  BY <1>1, LexStepIs
<1>5. Behind(h, a) = [mode |-> m, out |-> h \o o]
  BY <1>1 DEF Behind
<1>6. LexStep(Behind(h, a), x)
        = [mode |-> NextMode(m, x), out |-> NextOut(m, h \o o, x)]
  <2> DEFINE u == h \o o
  <2>1. m \in {"code", "literal", "line", "block"}
    BY <1>1
  <2> HIDE DEF u
  <2>2. LexStep([mode |-> m, out |-> u], x)
          = [mode |-> NextMode(m, x), out |-> NextOut(m, u, x)]
    BY <2>1, LexStepIs
  <2> QED
    BY <1>5, <2>2 DEF u
<1>7. Behind(h, LexStep(a, x))
        = [mode |-> NextMode(m, x), out |-> h \o NextOut(m, o, x)]
  BY <1>4 DEF Behind
<1> QED
  BY <1>3, <1>6, <1>7

(* Words that open nothing are read as they stand.                         *)
LEMMA LexStepPlain ==
  ASSUME NEW T, NEW a \in State(T), a.mode = "code",
         NEW x \in T, x \notin {Quote, Mark, Opens, NewLine}
  PROVE  LexStep(a, x) = [mode |-> "code", out |-> Append(a.out, x)]
BY DEF LexStep, State

LEMMA SubSeqGrows ==
  ASSUME NEW T, NEW s \in Seq(T), NEW n \in Nat, n + 1 <= Len(s)
  PROVE  /\ SubSeq(s, 1, n) \in Seq(T)
         /\ SubSeq(s, 1, n + 1) = Append(SubSeq(s, 1, n), s[n + 1])
<1>1. Len(s) \in Nat /\ \A i \in 1..Len(s) : s[i] \in T
  BY LenProperties, ElementOfSeq
<1>2. /\ SubSeq(s, 1, n) \in Seq(T) /\ Len(SubSeq(s, 1, n)) = n
      /\ \A i \in 1..n : SubSeq(s, 1, n)[i] = s[i]
  BY <1>1, SubSeqProperties
<1>3. /\ SubSeq(s, 1, n + 1) \in Seq(T) /\ Len(SubSeq(s, 1, n + 1)) = n + 1
      /\ \A i \in 1..(n + 1) : SubSeq(s, 1, n + 1)[i] = s[i]
  BY <1>1, SubSeqProperties
<1>4. n + 1 \in 1..Len(s) /\ s[n + 1] \in T
  BY <1>1
<1> DEFINE u == Append(SubSeq(s, 1, n), s[n + 1])
<1>5. /\ u \in Seq(T) /\ Len(u) = n + 1
      /\ (\A i \in 1..n : u[i] = s[i]) /\ u[n + 1] = s[n + 1]
  BY <1>2, <1>4, AppendProperties
<1> HIDE DEF u
<1>6. \A i \in 1..(n + 1) : SubSeq(s, 1, n + 1)[i] = u[i]
  <2>1. \A i \in 1..(n + 1) : i \in 1..n \/ i = n + 1
    OBVIOUS
  <2>2. n + 1 \in 1..(n + 1)
    OBVIOUS
  <2> QED
    BY <1>3, <1>5, <2>1, <2>2
<1>7. SubSeq(s, 1, n + 1) = u
  BY <1>3, <1>5, <1>6, SeqEqual
<1> QED
  BY <1>2, <1>7 DEF u

LEMMA LexedAfter ==
  ASSUME NEW T, Literal \in T, NEW h \in Seq(T), NEW t \in Seq(T),
         Words(h) \cap {Quote, Mark, Opens, NewLine} = {}
  PROVE  Lexed(h \o t) = h \o Lexed(t)
<1> DEFINE s == h \o t
           f == Lexer(s)
           g == Lexer(t)
           P == {n \in Nat : n <= Len(h) =>
                   f[n] = [mode |-> "code", out |-> SubSeq(h, 1, n)]}
           Q == {n \in Nat : n <= Len(t) => f[Len(h) + n] = Behind(h, g[n])}
<1>1. /\ Len(h) \in Nat /\ Len(t) \in Nat /\ s \in Seq(T)
      /\ Len(s) = Len(h) + Len(t) /\ DOMAIN h = 1..Len(h)
  BY LenProperties, ConcatProperties
<1>2. \A i \in 1..Len(h) : s[i] = h[i] /\ h[i] \in T
                          /\ h[i] \notin {Quote, Mark, Opens, NewLine}
  <2> SUFFICES ASSUME NEW i \in 1..Len(h)
               PROVE  s[i] = h[i] /\ h[i] \in T
                      /\ h[i] \notin {Quote, Mark, Opens, NewLine}
    OBVIOUS
  <2>1. i \in 1..Len(h) + Len(t) /\ i <= Len(h)
    BY <1>1
  <2>2. s[i] = h[i]
    BY <2>1, ConcatProperties
  <2>3. h[i] \in Words(h)
    BY <1>1 DEF Words
  <2> QED
    BY <2>2, <2>3, ElementOfSeq
<1>3. \A i \in 1..Len(t) : s[Len(h) + i] = t[i] /\ t[i] \in T
  <2> SUFFICES ASSUME NEW i \in 1..Len(t)
               PROVE  s[Len(h) + i] = t[i] /\ t[i] \in T
    OBVIOUS
  <2>1. Len(h) + i \in 1..Len(h) + Len(t) /\ ~(Len(h) + i <= Len(h))
        /\ (Len(h) + i) - Len(h) = i
    BY <1>1
  <2> QED
    BY <2>1, ConcatProperties, ElementOfSeq
<1>4. f[0] = Start /\ \A n \in 1..Len(s) : f[n] = LexStep(f[n - 1], s[n])
  BY <1>1, LexerDoes
<1>5. /\ g[0] = Start /\ \A n \in 1..Len(t) : g[n] = LexStep(g[n - 1], t[n])
      /\ \A n \in 0..Len(t) : g[n] \in State(T)
  BY LexerDoes, LexerTyped
<1> HIDE DEF s, f, g
<1>6. 0 \in P
  <2>1. SubSeq(h, 1, 0) = <<>>
    BY SubSeqEmpty
  <2> QED
    BY <1>4, <2>1 DEF Start
<1>7. ASSUME NEW n \in Nat, n \in P PROVE n + 1 \in P
  <2> SUFFICES ASSUME n + 1 <= Len(h)
               PROVE  f[n + 1] = [mode |-> "code", out |-> SubSeq(h, 1, n + 1)]
    OBVIOUS
  <2> DEFINE a == [mode |-> "code", out |-> SubSeq(h, 1, n)]
  <2>1. n + 1 \in 1..Len(s) /\ n + 1 \in 1..Len(h) /\ (n + 1) - 1 = n /\ n <= Len(h)
    BY <1>1
  <2>2. f[n] = a /\ s[n + 1] = h[n + 1]
    BY <1>2, <1>7, <2>1
  <2>3. a \in State(T) /\ a.mode = "code" /\ a.out = SubSeq(h, 1, n)
    BY SubSeqGrows DEF State
  <2>4. f[n + 1] = LexStep(a, h[n + 1])
    BY <1>4, <2>1, <2>2
  <2>5. /\ h[n + 1] \in T /\ h[n + 1] \notin {Quote, Mark, Opens, NewLine}
        /\ SubSeq(h, 1, n + 1) = Append(SubSeq(h, 1, n), h[n + 1])
    BY <1>2, <2>1, SubSeqGrows
  <2> HIDE DEF a
  <2>6. LexStep(a, h[n + 1]) = [mode |-> "code", out |-> Append(a.out, h[n + 1])]
    BY <2>3, <2>5, LexStepPlain
  <2> QED
    BY <2>3, <2>4, <2>5, <2>6
<1> HIDE DEF P
<1>8. Nat \subseteq P
  BY <1>6, <1>7, Counting
<1>9. f[Len(h)] = [mode |-> "code", out |-> h]
  BY <1>1, <1>8, SubSeqFull DEF P
<1>10. 0 \in Q
  <2>1. h \o <<>> = h
    BY ConcatEmptySeq
  <2> QED
    BY <1>1, <1>5, <1>9, <2>1 DEF Start, Behind
<1>11. ASSUME NEW n \in Nat, n \in Q PROVE n + 1 \in Q
  <2> SUFFICES ASSUME n + 1 <= Len(t)
               PROVE  f[Len(h) + (n + 1)] = Behind(h, g[n + 1])
    OBVIOUS
  <2>1. /\ n + 1 \in 1..Len(t) /\ (n + 1) - 1 = n /\ n \in 0..Len(t)
        /\ Len(h) + (n + 1) \in 1..Len(s) /\ (Len(h) + (n + 1)) - 1 = Len(h) + n
    BY <1>1
  <2>2. f[Len(h) + (n + 1)] = LexStep(Behind(h, g[n]), t[n + 1])
    BY <1>3, <1>4, <1>11, <2>1
  <2>3. g[n + 1] = LexStep(g[n], t[n + 1]) /\ g[n] \in State(T) /\ t[n + 1] \in T
    BY <1>3, <1>5, <2>1
  <2> QED
    BY <2>2, <2>3, LexStepBehind
<1> HIDE DEF Q
<1>12. Nat \subseteq Q
  BY <1>10, <1>11, Counting
<1>13. f[Len(s)] = Behind(h, g[Len(t)])
  BY <1>1, <1>12 DEF Q
<1>14. f[Len(s)].out = h \o g[Len(t)].out
  BY <1>13 DEF Behind
<1>15. Lexed(s) = f[Len(s)].out /\ Lexed(t) = g[Len(t)].out
  BY LexedIs DEF f, g
<1> QED
  BY <1>14, <1>15 DEF s

-----------------------------------------------------------------------------
(* Whether a question is asked.                                            *)

(* Where the two readings agree, the search finds what the server would    *)
(* destroy, and nothing else.                                              *)
LEMMA ReasonIsRight ==
  ASSUME NEW s, IsSeq(s), Bare(s) = Lexed(s)
  PROVE  LET all == StatementsOf(Lexed(s)) IN
         /\ (\E st \in all : Destroys(st) /\ ~Unseen(st)) => Reason(s)
         /\ Reason(s) => \E st \in all : Destroys(st) \/ Misplaced(st)
<1> DEFINE L == Lexed(s)
           all == StatementsOf(L)
           T == Words(s) \union {Literal}
<1>1. Literal \in T /\ s \in Seq(T)
  BY SeqIsSeq DEF IsSeq
<1>2. L \in Seq(T)
  BY <1>1, LexedTyped
<1> HIDE DEF T
<1>3. IsSeq(L) /\ Bare(s) = L
  BY <1>2, SeqIsSeq
<1> HIDE DEF L
<1>4. Reason(s) <=> \/ Destructive(L)
                    \/ \E st \in all : /\ StartsWith(st, "delete from")
                                       /\ W("where") \notin Words(st)
                                       /\ Sub \notin Words(st)
  BY <1>3 DEF Reason
<1>5. ASSUME NEW st \in all, Destroys(st), ~Unseen(st)
      PROVE  Reason(s)
  <2>1. CASE ClearsAll(st)
    BY <1>4, <1>5, <2>1 DEF ClearsAll, Unseen
  <2>2. CASE Drops(st)
    BY <1>3, <1>4, <2>2, StatementInText DEF Drops, Destructive
  <2>3. CASE Empties(st)
    BY <1>3, <1>4, <1>5, <2>3, StatementInText DEF Unseen, Destructive
  <2> QED
    BY <1>5, <2>1, <2>2, <2>3 DEF Destroys
<1>6. ASSUME Destructive(L)
      PROVE  \E st \in all : Destroys(st) \/ Misplaced(st)
  <2>1. W("drop") # Semi /\ W("truncate") # Semi /\ W("table") # Semi
    BY DEF W, Semi
  <2>2. PICK st \in all : Destructive(st)
    BY <1>3, <1>6, <2>1, TextInStatement DEF Destructive
  <2> QED
    BY <2>2 DEF Destroys, Misplaced
<1>7. ASSUME Reason(s)
      PROVE  \E st \in all : Destroys(st) \/ Misplaced(st)
  BY <1>4, <1>6, <1>7 DEF Destroys, ClearsAll
<1> QED
  BY <1>5, <1>7 DEF L

-----------------------------------------------------------------------------
(* The text of a pasted SELECT.                                            *)

(* The function that Listed applies.                                       *)
ListAt(items, f, n) ==
  IF n = 0 THEN <<>>
  ELSE f[n - 1] \o (IF n = 1 THEN <<>> ELSE <<Comma>>) \o items[n].text
Lister(items) == CHOOSE f : f = [n \in 0..Len(items) |-> ListAt(items, f, n)]

LEMMA ListedIs ==
  ASSUME NEW items PROVE Listed(items) = Lister(items)[Len(items)]
BY DEF Listed, Lister, ListAt

LEMMA ListerExists ==
  ASSUME NEW items, NEW k \in Nat
  PROVE  \E f : f = [n \in 0..k |-> ListAt(items, f, n)]
<1> DEFINE S == {m \in Nat : \E f : f = [n \in 0..m |-> ListAt(items, f, n)]}
<1>1. 0 \in S
  <2> DEFINE f == [n \in 0..0 |-> <<>>]
  <2>1. \A n \in 0..0 : ListAt(items, f, n) = <<>>
    BY DEF ListAt
  <2>2. f = [n \in 0..0 |-> ListAt(items, f, n)]
    BY <2>1
  <2> QED
    BY <2>2
<1>2. ASSUME NEW m \in Nat, m \in S
      PROVE  m + 1 \in S
  <2>1. PICK f : f = [n \in 0..m |-> ListAt(items, f, n)]
    BY <1>2
  <2> DEFINE g == [n \in 0..(m + 1) |-> IF n = m + 1 THEN ListAt(items, f, n) ELSE f[n]]
  <2>2. \A n \in 0..(m + 1) : n = 0 \/ (n - 1 \in 0..m /\ g[n - 1] = f[n - 1])
    OBVIOUS
  <2>3. \A n \in 0..(m + 1) : ListAt(items, g, n) = ListAt(items, f, n)
    BY <2>2 DEF ListAt
  <2>4. \A n \in 0..(m + 1) : n = m + 1 \/ (n \in 0..m /\ f[n] = ListAt(items, f, n))
    BY <2>1
  <2>5. g = [n \in 0..(m + 1) |-> ListAt(items, g, n)]
    BY <2>3, <2>4
  <2> HIDE DEF g
  <2>6. m + 1 \in Nat /\ \E h : h = [n \in 0..(m + 1) |-> ListAt(items, h, n)]
    BY <2>5
  <2> QED
    BY <2>6
<1> HIDE DEF S
<1>3. Nat \subseteq S
  BY <1>1, <1>2, Counting
<1> QED
  BY <1>3 DEF S

(* A list of items holds their words and commas.                           *)
LEMMA ListedTyped ==
  ASSUME NEW T, Comma \in T, NEW items, IsSeq(items),
         \A i \in DOMAIN items : items[i].text \in Seq(T)
  PROVE  Listed(items) \in Seq(T)
<1> DEFINE f == Lister(items)
           S == {n \in Nat : n <= Len(items) => f[n] \in Seq(T)}
<1>0. Len(items) \in Nat /\ DOMAIN items = 1..Len(items)
  BY LenProperties DEF IsSeq
<1>1. f = [n \in 0..Len(items) |-> ListAt(items, f, n)]
  BY <1>0, ListerExists DEF Lister
<1> HIDE DEF f
<1>2. \A n \in 0..Len(items) : f[n] = ListAt(items, f, n)
  BY <1>1
<1>3. 0 \in S
  <2>1. 0 \in 0..Len(items) /\ ListAt(items, f, 0) = <<>> /\ <<>> \in Seq(T)
    BY <1>0 DEF ListAt
  <2> QED
    BY <1>2, <2>1
<1>4. ASSUME NEW n \in Nat, n \in S PROVE n + 1 \in S
  <2> SUFFICES ASSUME n + 1 <= Len(items) PROVE f[n + 1] \in Seq(T)
    OBVIOUS
  <2> DEFINE sep == IF n + 1 = 1 THEN <<>> ELSE <<Comma>>
  <2>1. /\ n + 1 \in 0..Len(items) /\ n + 1 \in DOMAIN items
        /\ (n + 1) - 1 = n /\ n + 1 # 0 /\ f[n] \in Seq(T)
    BY <1>0, <1>4
  <2>2. f[n + 1] = f[n] \o sep \o items[n + 1].text
    BY <1>2, <2>1 DEF ListAt
  <2>3. sep \in Seq(T) /\ items[n + 1].text \in Seq(T)
    BY <2>1
  <2> HIDE DEF sep
  <2> QED
    BY <2>1, <2>2, <2>3, ConcatProperties
<1> HIDE DEF S
<1>5. Nat \subseteq S
  BY <1>3, <1>4, Counting
<1> QED
  BY <1>0, <1>5, ListedIs DEF S, f

(* The words before the rest of a SELECT.                                  *)
Fore(q) == {W("select"), W("distinct"), Comma, W("from"), q.from}
             \union UNION {Words(q.items[i].text) : i \in DOMAIN q.items}

LEMMA ForeIsPlain ==
  ASSUME NEW q \in Query
  PROVE  /\ Fore(q) \cap {Quote, Mark, Opens, NewLine} = {}
         /\ Fore(q) \cap {W("where"), W("group by"), W("order by"), W("having")} = {}
<1> DEFINE R == {W("where"), W("group by"), W("order by"), W("having"),
                 Quote, Mark, Opens, NewLine}
<1>1. R \subseteq Reserved
  BY DEF Reserved
<1>2. q.from \notin R
  BY <1>1, QueryAssumption DEF QueryAssumption
<1>3. \A i \in DOMAIN q.items : Words(q.items[i].text) \cap R = {}
  BY <1>1, QueryAssumption DEF QueryAssumption
<1>4. {W("select"), W("distinct"), Comma, W("from")} \cap R = {}
  BY DEF W, Comma, Quote, Mark, Opens, NewLine
<1>5. Fore(q) \cap R = {}
  BY <1>2, <1>3, <1>4 DEF Fore
<1> QED
  BY <1>5

LEMMA OpeningFacts ==
  ASSUME NEW q \in Query
  PROVE  LET h == Opening(q) IN
         /\ h \in Seq(Fore(q)) /\ Len(h) \in Nat /\ Len(h) >= 2
         /\ h[Len(h) - 1] = W("from") /\ h[Len(h)] = q.from
         /\ q.distinct # <<>> => W("distinct") \in Words(h)
<1> DEFINE T == Fore(q)
           a == <<W("select")>>
           b == a \o q.distinct
           c == b \o Listed(q.items)
           d == <<W("from"), q.from>>
           h == Opening(q)
<1>1. IsSeq(q.items) /\ q.distinct \in {<<>>, <<W("distinct")>>}
  BY QueryAssumption DEF QueryAssumption
<1>2. a \in Seq(T) /\ q.distinct \in Seq(T) /\ d \in Seq(T) /\ Comma \in T
  <2>1. /\ W("select") \in T /\ W("distinct") \in T /\ W("from") \in T
        /\ Comma \in T /\ q.from \in T
    BY DEF Fore
  <2> HIDE DEF T
  <2>2. a \in Seq(T) /\ d \in Seq(T)
    BY <2>1
  <2>3. <<>> \in Seq(T) /\ <<W("distinct")>> \in Seq(T)
    BY <2>1
  <2> QED
    BY <1>1, <2>1, <2>2, <2>3
<1>3. \A i \in DOMAIN q.items : q.items[i].text \in Seq(T)
  <2> SUFFICES ASSUME NEW i \in DOMAIN q.items PROVE q.items[i].text \in Seq(T)
    OBVIOUS
  <2>1. q.items[i].text \in Seq(Words(q.items[i].text))
    BY QueryAssumption DEF QueryAssumption, IsSeq
  <2>2. Words(q.items[i].text) \subseteq T
    BY DEF Fore
  <2> DEFINE u == q.items[i].text
  <2>3. Len(u) \in Nat /\ u \in [1..Len(u) -> Words(u)]
    BY <2>1, LenProperties
  <2>4. u \in [1..Len(u) -> T]
    BY <2>2, <2>3
  <2> QED
    BY <2>3, <2>4
<1>4. Listed(q.items) \in Seq(T)
  BY <1>1, <1>2, <1>3, ListedTyped
<1>5. b \in Seq(T) /\ c \in Seq(T) /\ h = c \o d
  BY <1>2, <1>4, ConcatProperties DEF Opening
<1>6. /\ Len(d) = 2 /\ d[1] = W("from") /\ d[2] = q.from
      /\ Len(c) \in Nat /\ Len(b) \in Nat /\ Len(Listed(q.items)) \in Nat
  BY <1>4, <1>5, LenProperties
<1>7. h \in Seq(T) /\ Len(h) = Len(c) + 2
      /\ \A i \in 1..Len(c) + 2 : h[i] = IF i <= Len(c) THEN c[i] ELSE d[i - Len(c)]
  <2> HIDE DEF c, d, h, T
  <2>1. /\ c \o d \in Seq(T) /\ Len(c \o d) = Len(c) + Len(d)
        /\ \A i \in 1..Len(c) + Len(d) :
             (c \o d)[i] = IF i <= Len(c) THEN c[i] ELSE d[i - Len(c)]
    BY <1>2, <1>5, ConcatProperties
  <2> QED
    BY <1>5, <1>6, <2>1
<1>8. h[Len(c) + 1] = W("from") /\ h[Len(c) + 2] = q.from
  <2> HIDE DEF c, d, h
  <2>1. /\ Len(c) + 1 \in 1..Len(c) + 2 /\ Len(c) + 2 \in 1..Len(c) + 2
        /\ ~(Len(c) + 1 <= Len(c)) /\ ~(Len(c) + 2 <= Len(c))
        /\ (Len(c) + 1) - Len(c) = 1 /\ (Len(c) + 2) - Len(c) = 2
    BY <1>6
  <2> QED
    BY <1>6, <1>7, <2>1
<1>9. ASSUME q.distinct # <<>> PROVE W("distinct") \in Words(h)
  <2>1. Len(a) = 1 /\ Len(q.distinct) = 1 /\ q.distinct[1] = W("distinct")
    BY <1>1, <1>9
  <2>2. Len(b) = 2 /\ b[2] = W("distinct")
    BY <1>2, <2>1, ConcatProperties
  <2>3. Len(c) = 2 + Len(Listed(q.items)) /\ c[2] = W("distinct")
    <3> DEFINE l == Listed(q.items)
    <3> HIDE DEF b, T, l
    <3>0. /\ Len(b \o l) = Len(b) + Len(l)
          /\ \A i \in 1..Len(b) + Len(l) :
               (b \o l)[i] = IF i <= Len(b) THEN b[i] ELSE l[i - Len(b)]
      BY <1>4, <1>5, ConcatProperties DEF l
    <3>1. /\ Len(c) = 2 + Len(Listed(q.items))
          /\ \A i \in 1..2 + Len(Listed(q.items)) :
               c[i] = IF i <= 2 THEN b[i] ELSE Listed(q.items)[i - 2]
      BY <2>2, <3>0 DEF l
    <3> HIDE DEF c
    <3>2. 2 \in 1..2 + Len(Listed(q.items))
      BY <1>6
    <3> QED
      BY <2>2, <3>1, <3>2
  <2> HIDE DEF c, h, T
  <2>4. 2 \in 1..Len(c) + 2 /\ 2 <= Len(c)
    BY <1>6, <2>3
  <2>5. h[2] = W("distinct") /\ DOMAIN h = 1..Len(c) + 2
    BY <1>7, <2>3, <2>4, LenProperties
  <2> QED
    BY <2>4, <2>5 DEF Words
<1> HIDE DEF c, h
<1>10. Len(h) \in Nat /\ Len(h) >= 2 /\ Len(h) - 1 = Len(c) + 1
  BY <1>6, <1>7
<1> QED
  BY <1>7, <1>8, <1>9, <1>10 DEF h

(* The text is read as its beginning, and then the rest.                   *)
LEMMA RenderFacts ==
  ASSUME NEW q \in Query
  PROVE  /\ IsSeq(Render(q)) /\ IsSeq(Lexed(q.tail))
         /\ Lexed(Render(q)) = Opening(q) \o Lexed(q.tail)
         /\ IsSeq(Lexed(Render(q)))
<1> DEFINE T == Fore(q) \union Words(q.tail) \union {Literal}
           h == Opening(q)
<1>1. h \in Seq(Fore(q)) /\ q.tail \in Seq(Words(q.tail))
  BY OpeningFacts, QueryAssumption DEF QueryAssumption, IsSeq
<1>2. Len(h) \in Nat /\ h \in [1..Len(h) -> Fore(q)]
      /\ Len(q.tail) \in Nat /\ q.tail \in [1..Len(q.tail) -> Words(q.tail)]
  BY <1>1, LenProperties
<1>3. h \in [1..Len(h) -> T] /\ q.tail \in [1..Len(q.tail) -> T]
  BY <1>2
<1>4. h \in Seq(T) /\ q.tail \in Seq(T) /\ Literal \in T
  BY <1>2, <1>3
<1>5. Words(h) \cap {Quote, Mark, Opens, NewLine} = {}
  BY <1>1, SeqIsSeq, ForeIsPlain
<1> HIDE DEF T, h
<1>6. h \o q.tail \in Seq(T) /\ Lexed(q.tail) \in Seq(T)
  BY <1>4, ConcatProperties, LexedTyped
<1>7. Lexed(h \o q.tail) = h \o Lexed(q.tail)
  BY <1>4, <1>5, LexedAfter
<1>8. h \o Lexed(q.tail) \in Seq(T)
  BY <1>4, <1>6, ConcatProperties
<1> QED
  BY <1>6, <1>7, <1>8, SeqIsSeq DEF Render, h

-----------------------------------------------------------------------------
(* What a result that can be edited is a result of.                        *)

(* A name after FROM is found.                                             *)
LEMMA FromIsRef ==
  ASSUME NEW q \in Query, Bare(Render(q)) = Lexed(Render(q))
  PROVE  q.from \in Refs(Render(q)) /\ IsFiniteSet(Refs(Render(q)))
<1> DEFINE h == Opening(q)
           r == Lexed(q.tail)
           L == Lexed(Render(q))
           n == Len(h) - 1
           Leads(i) == /\ L[i] \in {W("from"), W("join"), W("update"), W("into"),
                                    W("delete from")}
                       /\ L[i + 1] \notin {Literal, Semi, Comma, Quote, Opens,
                                           Closes, Sub}
           At == {k \in 1..Len(L) - 1 : Leads(k)}
<1>1. /\ Len(h) \in Nat /\ Len(h) >= 2
      /\ h[n] = W("from") /\ h[n + 1] = q.from
  BY OpeningFacts
<1>2. h \in Seq(Fore(q)) /\ r \in Seq(Words(r)) /\ L = h \o r /\ L \in Seq(Words(L))
  BY OpeningFacts, RenderFacts DEF IsSeq
<1>3. Len(r) \in Nat /\ Len(L) \in Nat
  BY <1>2, LenProperties
<1>4. Refs(Render(q)) = {L[i + 1] : i \in At}
  BY DEF Refs
<1> HIDE DEF h, r, L
<1>5. Len(L) = Len(h) + Len(r) /\ \A i \in 1..Len(h) : L[i] = h[i]
  <2> DEFINE T == Fore(q) \union Words(r)
  <2>1. h \in [1..Len(h) -> Fore(q)] /\ r \in [1..Len(r) -> Words(r)]
    BY <1>2, LenProperties
  <2>2. h \in [1..Len(h) -> T] /\ r \in [1..Len(r) -> T]
    BY <2>1
  <2>3. h \in Seq(T) /\ r \in Seq(T)
    BY <1>1, <1>3, <2>2, SMTT(40)
  <2> HIDE DEF T
  <2>4. /\ Len(h \o r) = Len(h) + Len(r)
        /\ \A i \in 1..Len(h) + Len(r) :
             (h \o r)[i] = IF i <= Len(h) THEN h[i] ELSE r[i - Len(h)]
    BY <2>3, ConcatProperties
  <2>5. \A i \in 1..Len(h) : i \in 1..Len(h) + Len(r) /\ i <= Len(h)
    BY <1>1, <1>3
  <2> QED
    BY <1>2, <2>4, <2>5
<1>6. n \in 1..Len(L) - 1 /\ n \in 1..Len(h) /\ n + 1 \in 1..Len(h)
  BY <1>1, <1>3, <1>5
<1>7. L[n] = W("from") /\ L[n + 1] = q.from
  BY <1>1, <1>5, <1>6
<1>8. q.from \notin {Literal, Semi, Comma, Quote, Opens, Closes, Sub}
  BY QueryAssumption DEF QueryAssumption, Reserved
<1> HIDE DEF n
<1>9. n \in At
  BY <1>6, <1>7, <1>8
<1>10. IsFiniteSet(At)
  <2>1. 1 \in Int /\ Len(L) - 1 \in Int
    BY <1>3
  <2>2. IsFiniteSet(1..Len(L) - 1)
    BY <2>1, FS_Interval
  <2>3. At \in SUBSET (1..Len(L) - 1)
    OBVIOUS
  <2> HIDE DEF At
  <2> QED
    BY <2>2, <2>3, FS_Subset
<1> HIDE DEF At
<1>11. IsFiniteSet({L[i + 1] : i \in At})
  <2> DEFINE f == [i \in At |-> L[i + 1]]
             U == {L[i + 1] : i \in At}
  <2>1. f \in Surjection(At, U)
    BY DEF Surjection
  <2> HIDE DEF f, U
  <2>2. IsFiniteSet(U)
    BY <1>10, <2>1, FS_Surjection
  <2> QED
    BY <2>2 DEF U
<1> QED
  BY <1>4, <1>7, <1>9, <1>11

(* A SELECT taken for one of a single table is one.                        *)
LEMMA SingleIsRight ==
  ASSUME NEW q \in Query, Bare(Render(q)) = Lexed(Render(q)),
         SingleTableSelect(Render(q))
  PROVE  q.single
<1> DEFINE h == Opening(q)
           r == Lexed(q.tail)
           L == Lexed(Render(q))
           m == Len(h)
           Stop == {W("where"), W("group by"), W("order by"), W("having")}
           Multi == {W("join"), W("group by"), W("having"), W("distinct"),
                     W("union")}
           From == {i \in DOMAIN L : L[i] = W("from")}
<1>1. /\ m \in Nat /\ m >= 2 /\ h[m - 1] = W("from")
      /\ q.distinct # <<>> => W("distinct") \in Words(h)
  BY OpeningFacts
<1>2. h \in Seq(Fore(q)) /\ r \in Seq(Words(r)) /\ L = h \o r /\ L \in Seq(Words(L))
  BY OpeningFacts, RenderFacts DEF IsSeq
<1>3. Fore(q) \cap Stop = {}
  BY ForeIsPlain
<1>4. Words(L) \cap Multi = {}
  BY DEF SingleTableSelect
<1>5. From # {} =>
        \A k \in DOMAIN L : L[k] = Comma =>
          LET i == CHOOSE i \in From : \A j \in From : i <= j IN
          ~(i < k /\ \A j \in i..k : L[j] \notin Stop)
  BY DEF SingleTableSelect
<1>6. ~q.single => \/ q.distinct # <<>>
                   \/ Words(r) \cap Multi # {}
                   \/ \E k \in DOMAIN r : r[k] = Comma /\ \A j \in 1..k : r[j] \notin Stop
  BY QueryAssumption DEF QueryAssumption, Combines
<1> HIDE DEF h, r, L, m
<1>7. /\ Len(r) \in Nat /\ DOMAIN r = 1..Len(r) /\ DOMAIN h = 1..m
      /\ \A i \in 1..m : h[i] \in Fore(q)
  BY <1>2, LenProperties, ElementOfSeq DEF m
<1>8. /\ DOMAIN L = 1..m + Len(r)
      /\ (\A i \in 1..m : L[i] = h[i])
      /\ \A i \in 1..Len(r) : m + i \in 1..m + Len(r) /\ L[m + i] = r[i]
  <2> DEFINE T == Fore(q) \union Words(r)
  <2>1. h \in [1..m -> Fore(q)] /\ r \in [1..Len(r) -> Words(r)]
    BY <1>2, LenProperties DEF m
  <2>2. h \in [1..m -> T] /\ r \in [1..Len(r) -> T]
    BY <2>1
  <2>3. h \in Seq(T) /\ r \in Seq(T)
    BY <1>1, <1>7, <2>2
  <2> HIDE DEF T
  <2>4. /\ h \o r \in Seq(T) /\ Len(h \o r) = m + Len(r)
        /\ \A i \in 1..m + Len(r) : (h \o r)[i] = IF i <= m THEN h[i] ELSE r[i - m]
    BY <2>3, ConcatProperties DEF m
  <2>5. DOMAIN L = 1..m + Len(r)
    BY <1>2, <2>4, LenProperties
  <2>6. \A i \in 1..m : i \in 1..m + Len(r) /\ i <= m
    BY <1>1, <1>7
  <2>7. \A i \in 1..Len(r) : m + i \in 1..m + Len(r) /\ ~(m + i <= m) /\ (m + i) - m = i
    BY <1>1, <1>7
  <2> QED
    BY <1>2, <2>4, <2>5, <2>6, <2>7
<1>9. Words(h) \subseteq Words(L) /\ Words(r) \subseteq Words(L)
  <2>1. \A i \in 1..m : i \in DOMAIN L
    BY <1>1, <1>7, <1>8
  <2> QED
    BY <1>7, <1>8, <2>1 DEF Words
<1>10. q.distinct = <<>> /\ Words(r) \cap Multi = {}
  <2>1. W("distinct") \in Multi
    OBVIOUS
  <2> HIDE DEF Multi
  <2> QED
    BY <1>1, <1>4, <1>9, <2>1
<1> HIDE DEF Multi, Stop
<1>11. SUFFICES ASSUME NEW k \in DOMAIN r, r[k] = Comma,
                       \A j \in 1..k : r[j] \notin Stop
                PROVE  FALSE
  BY <1>6, <1>10
<1>12. m - 1 \in From /\ From \subseteq Nat
  <2>1. m - 1 \in 1..m /\ m - 1 \in 1..m + Len(r)
    BY <1>1, <1>7
  <2> QED
    BY <1>1, <1>8, <2>1
<1> DEFINE i == CHOOSE i \in From : \A j \in From : i <= j
<1>13. i \in From /\ \A j \in From : i <= j
  BY <1>12, LeastOf
<1> HIDE DEF From, i
<1>14. /\ m + k \in DOMAIN L /\ L[m + k] = Comma /\ i \in Nat /\ k \in Nat
       /\ i <= m - 1 /\ i < m + k
  BY <1>1, <1>7, <1>8, <1>11, <1>12, <1>13
<1>15. ASSUME NEW j \in i..(m + k) PROVE L[j] \notin Stop
  <2>0. i \in DOMAIN L
    BY <1>13 DEF From
  <2>1. j \in Nat /\ j >= 1 /\ j <= m + k
    BY <1>8, <1>14, <2>0
  <2>2. CASE j <= m
    <3>1. j \in 1..m
      BY <1>1, <2>1, <2>2
    <3> QED
      BY <1>3, <1>7, <1>8, <3>1
  <2>3. CASE j > m
    <3>1. j - m \in 1..k /\ j - m \in 1..Len(r) /\ m + (j - m) = j
      BY <1>1, <1>7, <1>14, <2>1, <2>3
    <3> QED
      BY <1>8, <1>11, <3>1
  <2> QED
    BY <1>1, <2>1, <2>2, <2>3
<1> QED
  BY <1>5, <1>12, <1>14, <1>15 DEF i

LEMMA FirstIs ==
  ASSUME NEW cache, NEW at, at \subseteq Nat, at # {}, NEW e,
         \A i \in at : cache[i] = e
  PROVE  First(cache, at) = e
<1> DEFINE i == CHOOSE i \in at : \A j \in at : i <= j
<1>1. i \in at
  BY LeastOf
<1>2. First(cache, at) = cache[i]
  BY DEF First
<1> HIDE DEF i
<1> QED
  BY <1>1, <1>2

(* When the name leaves one of the cached tables, that one is found.       *)
LEMMA MatchIsLeft ==
  ASSUME NEW q \in Query, NEW e, Left(q) = {e}
  PROVE  Match(q.cache, q.from, q.current) = e
<1> DEFINE c == q.cache
           ref == q.from
           n == Len(ref)
           all == {c[i] : i \in DOMAIN c}
           of == {i \in DOMAIN c : c[i].table = ref[n]}
           Fits(x) == \/ n = 3 /\ x.db = ref[1] /\ x.schema = ref[2]
                      \/ n = 2 /\ (x.db = ref[1] \/ x.schema = ref[1])
           fitting == {i \in of : Fits(c[i])}
           here == {i \in of : c[i].db = q.current}
           named == {x \in all : x.table = ref[n]}
<1>1. IsSeq(c) /\ n \in 1..3
  BY QueryAssumption DEF QueryAssumption
<1>2. DOMAIN c \subseteq Nat
  BY <1>1, LenProperties DEF IsSeq
<1>3. of \subseteq Nat /\ fitting \subseteq Nat /\ here \subseteq Nat
  BY <1>2
<1>4. Match(c, ref, q.current) =
        First(c, IF fitting # {} THEN fitting ELSE IF here # {} THEN here ELSE of)
  BY DEF Match
<1>5. /\ n = 3 => Left(q) = {x \in named : x.db = ref[1] /\ x.schema = ref[2]}
      /\ n = 2 => Left(q) = {x \in named : x.db = ref[1] \/ x.schema = ref[1]}
      /\ n = 1 => Left(q) = IF \E x \in named : x.db = q.current
                           THEN {x \in named : x.db = q.current} ELSE named
  BY <1>1, SMTT(40) DEF Left
<1>6. /\ \A i \in of : c[i] \in named
      /\ \A x \in named : \E i \in of : c[i] = x
  OBVIOUS
<1>7. CASE n \in {2, 3}
  <2>1. \A x \in named : Fits(x) <=> x \in Left(q)
    BY <1>5, <1>7
  <2>2. fitting # {} /\ \A i \in fitting : c[i] = e
    <3> HIDE DEF named, of, Fits
    <3> QED
      BY <1>5, <1>6, <1>7, <2>1
  <2> HIDE DEF fitting
  <2> QED
    BY <1>3, <1>4, <2>2, FirstIs
<1>8. CASE n = 1
  <2>1. fitting = {}
    BY <1>8
  <2>2. CASE \E x \in named : x.db = q.current
    <3>1. here # {} /\ \A i \in here : c[i] = e
      <4> HIDE DEF named, of
      <4> QED
        BY <1>5, <1>6, <1>8, <2>2
    <3> HIDE DEF fitting, here
    <3> QED
      BY <1>3, <1>4, <2>1, <3>1, FirstIs
  <2>3. CASE ~\E x \in named : x.db = q.current
    <3>1. here = {}
      <4> HIDE DEF named, of
      <4> QED
        BY <1>6, <2>3
    <3>2. of # {} /\ \A i \in of : c[i] = e
      <4> HIDE DEF named, of
      <4> QED
        BY <1>5, <1>6, <1>8, <2>3
    <3> HIDE DEF fitting, here, of
    <3> QED
      BY <1>3, <1>4, <2>1, <3>1, <3>2, FirstIs
  <2> QED
    BY <2>2, <2>3
<1> QED
  BY <1>1, <1>7, <1>8

(* The edit context of a SELECT that is not misread.                       *)
LEMMA ContextIsRight ==
  ASSUME NEW q \in Query, Bare(Render(q)) = Lexed(Render(q)),
         \A i \in DOMAIN q.items : q.items[i].of # "other",
         NEW e, Named(e, q), Left(q) = {e},
         NEW g, g = EditContext(Render(q), q), g # None
  PROVE  /\ Named(g.table, q) /\ q.single
         /\ q.items[g.key].of = "id"
         /\ \A i \in g.cols : q.items[i].of = q.items[i].as
<1> DEFINE names == ResultNames(q.items)
           match == Match(q.cache, CHOOSE r \in Refs(Render(q)) : TRUE, q.current)
           Key == {i \in DOMAIN names : names[i] = "id"}
           key == CHOOSE i \in Key : \A j \in Key : i <= j
           cols == {i \in DOMAIN names : names[i] \in {"id", "v"}}
<1>1. /\ SingleTableSelect(Render(q)) /\ Cardinality(Refs(Render(q))) = 1 /\ Key # {}
      /\ g = [table |-> match, key |-> key, cols |-> cols]
  BY DEF EditContext
<1>2. q.single
  BY <1>1, SingleIsRight
<1>3. PICK r : Refs(Render(q)) = {r}
  BY <1>1, FromIsRef, FS_Singleton
<1>4. q.from = CHOOSE x \in Refs(Render(q)) : TRUE
  BY <1>3, FromIsRef
<1>5. match = e
  BY <1>4, MatchIsLeft
<1>6. /\ IsSeq(q.items)
      /\ \A i \in DOMAIN q.items : q.items[i].of = q.items[i].as
  BY QueryAssumption DEF QueryAssumption
<1>7. /\ DOMAIN names = DOMAIN q.items
      /\ \A i \in DOMAIN q.items : names[i] = q.items[i].as
  BY DEF ResultNames
<1> HIDE DEF names
<1>8. Key \subseteq Nat
  BY <1>6, <1>7, LenProperties DEF IsSeq
<1>9. key \in Key
  BY <1>1, <1>8, LeastOf
<1> HIDE DEF match, key
<1>10. q.items[key].of = "id"
  BY <1>6, <1>7, <1>9
<1>11. \A i \in cols : q.items[i].of = q.items[i].as
  BY <1>6, <1>7
<1> HIDE DEF cols, Key
<1>12. g.table = e /\ g.key = key /\ g.cols = cols
  BY <1>1, <1>5
<1> QED
  BY <1>2, <1>10, <1>11, <1>12

-----------------------------------------------------------------------------
(* What is explained.                                                      *)

(* A request for a plan: the prefix, and a text without a ;.               *)
Explained(s) ==
  \E cut : IsSeq(cut) /\ Semi \notin Words(cut) /\ s = <<Prefix>> \o cut

(* The server reads one statement in it.                                   *)
LEMMA ExplainedIsOne ==
  ASSUME NEW s, Explained(s)
  PROVE  Cardinality(StatementsOf(Lexed(s)) \ {<<>>}) = 1
<1>1. PICK cut : IsSeq(cut) /\ Semi \notin Words(cut) /\ s = <<Prefix>> \o cut
  BY DEF Explained
<1> DEFINE T == Words(cut) \union {Prefix, Literal}
           h == <<Prefix>>
           L == Lexed(s)
<1>2. Literal \in T /\ Prefix \in T /\ h \in Seq(T) /\ h # <<>>
  OBVIOUS
<1>3. cut \in Seq(T)
  <2>1. Len(cut) \in Nat /\ cut \in [1..Len(cut) -> Words(cut)]
    BY <1>1, LenProperties DEF IsSeq
  <2>2. cut \in [1..Len(cut) -> T]
    BY <2>1
  <2> QED
    BY <2>1, <2>2
<1>4. Semi \notin T
  BY <1>1 DEF Semi, Literal, Prefix, W
<1>5. Words(h) \cap {Quote, Mark, Opens, NewLine} = {}
  <2>1. Words(h) = {Prefix}
    BY DEF Words
  <2> QED
    BY <2>1 DEF Prefix, W, Quote, Mark, Opens, NewLine
<1> HIDE DEF T, h
<1>6. L = h \o Lexed(cut)
  BY <1>1, <1>2, <1>3, <1>5, LexedAfter DEF h
<1>7. Lexed(cut) \in Seq(T)
  BY <1>2, <1>3, LexedTyped
<1>8. L \in Seq(T) /\ L # <<>>
  BY <1>2, <1>6, <1>7, ConcatProperties, ConcatEqualIffEmpty
<1> HIDE DEF L
<1>9. IsSeq(L) /\ Semi \notin Words(L)
  BY <1>4, <1>8, SeqIsSeq
<1>10. StatementsOf(L) \ {<<>>} = {L}
  BY <1>8, <1>9, OneStatement
<1> QED
  BY <1>10, FS_Singleton DEF L

(* The text of an Explain without the ; at its end.                        *)
LEMMA CutIsOne ==
  ASSUME NEW s, IsSeq(s), ~Several(s), NEW end,
         end = {i \in DOMAIN s :
                  s[i] = Semi /\ \A j \in DOMAIN s : i < j => s[j] = NewLine},
         NEW cut, cut = IF end = {} THEN s
                        ELSE SubSeq(s, 1, (CHOOSE i \in end : TRUE) - 1)
  PROVE  IsSeq(cut) /\ Semi \notin Words(cut)
<1>1. Len(s) \in Nat /\ DOMAIN s = 1..Len(s) /\ Semi # NewLine
  BY LenProperties DEF IsSeq, Semi, NewLine
<1>2. \A i, j \in DOMAIN s : i < j /\ s[i] = Semi => s[j] = NewLine
  BY DEF Several
<1>3. CASE end = {}
  <2>1. \A i \in DOMAIN s : s[i] # Semi
    BY <1>2, <1>3
  <2> QED
    BY <1>3, <2>1 DEF Words
<1>4. CASE end # {}
  <2> DEFINE i == CHOOSE i \in end : TRUE
  <2>1. i \in 1..Len(s) /\ s[i] = Semi
    BY <1>1, <1>4
  <2>2. cut = SubSeq(s, 1, i - 1)
    BY <1>4
  <2> HIDE DEF i
  <2>3. ASSUME NEW k \in 1..(i - 1) PROVE s[k] \in Words(s) /\ s[k] # Semi
    <3>1. k \in DOMAIN s /\ i \in DOMAIN s /\ k < i
      BY <1>1, <2>1, <2>3
    <3> QED
      BY <1>1, <1>2, <2>1, <3>1 DEF Words
  <2> DEFINE T == Words(s) \ {Semi}
  <2>4. \A k \in 1..(i - 1) : s[k] \in T
    BY <2>3
  <2> DEFINE l == i - 1
  <2>5. 1 \in Int /\ l \in Int /\ \A k \in 1..l : s[k] \in T
    BY <2>1, <2>4
  <2> HIDE DEF T, l
  <2>6. cut \in Seq(T)
    <3>1. SubSeq(s, 1, l) \in Seq(T)
      BY <2>5, SubSeqProperties
    <3> QED
      BY <2>2, <3>1 DEF l
  <2>7. IsSeq(cut) /\ Words(cut) \subseteq T
    BY <2>6, SeqIsSeq
  <2>8. Semi \notin T
    BY DEF T
  <2> QED
    BY <2>7, <2>8
<1> QED
  BY <1>3, <1>4

-----------------------------------------------------------------------------
(* What holds of the text, the question, the request and the result.       *)

AskedInv ==
  /\ IsSeq(text)
  /\ dialog # None => IsSeq(dialog) /\ Reason(dialog)
  /\ sent # None =>
       /\ IsSeq(sent.sql) /\ sent.how \in {"run", "explain"}
       /\ sent.how = "run" => sent.asked = Reason(sent.sql)
       /\ sent.how = "explain" => Explained(sent.sql)

ShownInv ==
  /\ query \in Query \union {None}
  /\ query = None => grid = None
  /\ query # None =>
       /\ text \in {<<>>, Render(query)} /\ dialog \in {None, Render(query)}
       /\ sent # None => sent.sql = Render(query)
       /\ grid \in {None, EditContext(Render(query), query)}

LEMMA AppendIsSeq ==
  ASSUME NEW s, IsSeq(s), NEW x PROVE IsSeq(Append(s, x))
<1> DEFINE T == Words(s) \union {x}
<1>1. Len(s) \in Nat /\ s \in [1..Len(s) -> Words(s)]
  BY LenProperties DEF IsSeq
<1>2. s \in [1..Len(s) -> T] /\ x \in T
  BY <1>1
<1>3. s \in Seq(T)
  BY <1>1, <1>2
<1> HIDE DEF T
<1> QED
  BY <1>2, <1>3, AppendProperties, SeqIsSeq

LEMMA EmptyIsSeq == IsSeq(<<>>)
BY SeqIsSeq, EmptySeq

LEMMA ReasonIsBoolean == ASSUME NEW s PROVE Reason(s) \in BOOLEAN
BY DEF Reason

(* A text that is sent, asked or not.                                      *)
LEMMA SendsAsked ==
  ASSUME NEW s, IsSeq(s), NEW how \in {"run", "explain"}, NEW asked,
         how = "run" => asked = Reason(s), how = "explain" => Explained(s),
         Sends(s, how, asked)
  PROVE  AskedInv'
<1>1. sent'.sql = s /\ sent'.how = how /\ sent'.asked = asked
      /\ text' = <<>> /\ dialog' = None
  BY DEF Sends
<1> QED
  BY <1>1, EmptyIsSeq DEF AskedInv

LEMMA AskedStep == AskedInv /\ [Next]_vars => AskedInv'
<1> SUFFICES ASSUME AskedInv, [Next]_vars PROVE AskedInv'
  OBVIOUS
<1>1. CASE Type
  BY <1>1, AppendIsSeq DEF Type, AskedInv
<1>2. CASE Paste
  <2>1. PICK q \in Query : text' = Render(q)
    BY <1>2 DEF Paste
  <2>2. IsSeq(text')
    BY <2>1, RenderFacts
  <2> QED
    BY <1>2, <2>2 DEF Paste, AskedInv
<1>3. CASE Run
  <2>1. CASE Reason(text)
    BY <1>3, <2>1 DEF Run, AskedInv
  <2>2. CASE ~Reason(text)
    <3>1. Reason(text) = FALSE /\ IsSeq(text) /\ Sends(text, "run", FALSE)
      BY <1>3, <2>2, ReasonIsBoolean DEF Run, AskedInv
    <3> QED
      BY <3>1, SendsAsked
  <2> QED
    BY <2>1, <2>2
<1>4. CASE Confirm
  <2>1. Reason(dialog) = TRUE /\ IsSeq(dialog) /\ Sends(dialog, "run", TRUE)
    BY <1>4, ReasonIsBoolean DEF Confirm, AskedInv
  <2> QED
    BY <2>1, SendsAsked
<1>5. CASE Cancel
  BY <1>5 DEF Cancel, AskedInv
<1>6. CASE Explain
  <2> DEFINE end == {i \in DOMAIN text :
                       text[i] = Semi /\ \A j \in DOMAIN text : i < j => text[j] = NewLine}
             cut == IF end = {} THEN text
                    ELSE SubSeq(text, 1, (CHOOSE i \in end : TRUE) - 1)
  <2>1. IsSeq(text) /\ ~Several(text) /\ Sends(<<Prefix>> \o cut, "explain", FALSE)
    BY <1>6 DEF Explain, AskedInv
  <2>2. IsSeq(cut) /\ Semi \notin Words(cut)
    BY <2>1, CutIsOne
  <2> HIDE DEF cut, end
  <2>3. Explained(<<Prefix>> \o cut)
    BY <2>2 DEF Explained
  <2>4. IsSeq(<<Prefix>> \o cut)
    <3> DEFINE T == Words(cut) \union {Prefix}
    <3>1. Len(cut) \in Nat /\ cut \in [1..Len(cut) -> Words(cut)]
      BY <2>2, LenProperties DEF IsSeq
    <3>2. cut \in [1..Len(cut) -> T]
      BY <3>1
    <3>3. cut \in Seq(T) /\ <<Prefix>> \in Seq(T)
      BY <3>1, <3>2
    <3> HIDE DEF T
    <3> QED
      BY <3>3, ConcatProperties, SeqIsSeq
  <2> QED
    BY <2>1, <2>3, <2>4, SendsAsked
<1>7. CASE AiQuery
  <2>1. IsSeq(text) /\ Sends(text, "run", Reason(text))
    BY <1>7 DEF AiQuery, AskedInv
  <2> QED
    BY <2>1, SendsAsked
<1>8. CASE Land
  BY <1>8 DEF Land, AskedInv
<1>9. CASE Leave
  BY <1>9 DEF Leave, AskedInv
<1>10. CASE UNCHANGED vars
  BY <1>10 DEF vars, AskedInv
<1> QED
  BY <1>1, <1>2, <1>3, <1>4, <1>5, <1>6, <1>7, <1>8, <1>9, <1>10 DEF Next

(* A text that is sent while a SELECT is pasted is that SELECT's.          *)
LEMMA SendsShown ==
  ASSUME ShownInv, NEW s, query # None => s = Render(query), NEW how, NEW asked,
         Sends(s, how, asked)
  PROVE  ShownInv'
<1>1. sent'.sql = s /\ text' = <<>> /\ dialog' = None /\ grid' = None /\ query' = query
  BY DEF Sends
<1> QED
  BY <1>1 DEF ShownInv

LEMMA ShownStep == ShownInv /\ [Next]_vars => ShownInv'
<1> SUFFICES ASSUME ShownInv, [Next]_vars PROVE ShownInv'
  OBVIOUS
<1>1. CASE Type
  BY <1>1 DEF Type, ShownInv
<1>2. CASE Paste
  <2>1. PICK q \in Query : query' = q /\ text' = Render(q)
    BY <1>2 DEF Paste
  <2>2. q # None
    BY QueryAssumption DEF QueryAssumption
  <2> QED
    BY <1>2, <2>1, <2>2 DEF Paste, Typing, ShownInv
<1>3. CASE Run
  <2>1. query # None => text = Render(query)
    BY <1>3 DEF Run, ShownInv
  <2>2. CASE Reason(text)
    BY <1>3, <2>1, <2>2 DEF Run, ShownInv
  <2>3. CASE ~Reason(text)
    BY <1>3, <2>1, <2>3, SendsShown DEF Run
  <2> QED
    BY <2>2, <2>3
<1>4. CASE Confirm
  <2>1. query # None => dialog = Render(query)
    BY <1>4 DEF Confirm, ShownInv
  <2> QED
    BY <1>4, <2>1, SendsShown DEF Confirm
<1>5. CASE Cancel
  BY <1>5 DEF Cancel, ShownInv
<1>6. CASE Explain
  <2>1. query = None /\ \E s : Sends(s, "explain", FALSE)
    BY <1>6 DEF Explain
  <2> QED
    BY <2>1, SendsShown
<1>7. CASE AiQuery
  <2>1. query = None /\ Sends(text, "run", Reason(text))
    BY <1>7 DEF AiQuery
  <2> QED
    BY <2>1, SendsShown
<1>8. CASE Land
  <2>1. CASE query # None /\ grid' = EditContext(sent.sql, query)
    <3>1. sent.sql = Render(query)
      BY <1>8, <2>1 DEF Land, ShownInv
    <3> QED
      BY <1>8, <2>1, <3>1 DEF Land, ShownInv
  <2>2. CASE grid' = None
    BY <1>8, <2>2 DEF Land, ShownInv
  <2> QED
    BY <1>8, <2>1, <2>2 DEF Land
<1>9. CASE Leave
  BY <1>9 DEF Leave, ShownInv
<1>10. CASE UNCHANGED vars
  BY <1>10 DEF vars, ShownInv
<1> QED
  BY <1>1, <1>2, <1>3, <1>4, <1>5, <1>6, <1>7, <1>8, <1>9, <1>10 DEF Next

LEMMA TextInit == Init => AskedInv /\ ShownInv
BY EmptyIsSeq DEF Init, AskedInv, ShownInv

LEMMA AskedDone == AskedInv => AskedWhenItDestroys /\ ExplainsOne
<1> SUFFICES ASSUME AskedInv, sent # None PROVE AskedWhenItDestroys /\ ExplainsOne
  BY DEF AskedWhenItDestroys, ExplainsOne
<1>1. AskedWhenItDestroys
  <2> SUFFICES ASSUME sent.how = "run", Bare(sent.sql) = Lexed(sent.sql)
               PROVE  LET all == StatementsOf(Lexed(sent.sql)) IN
                      /\ (\E st \in all : Destroys(st) /\ ~Unseen(st)) => sent.asked
                      /\ sent.asked => \E st \in all : Destroys(st) \/ Misplaced(st)
    BY DEF AskedWhenItDestroys
  <2>1. IsSeq(sent.sql) /\ sent.asked = Reason(sent.sql)
    BY DEF AskedInv
  <2> QED
    BY <2>1, ReasonIsRight
<1>2. ExplainsOne
  BY ExplainedIsOne DEF AskedInv, ExplainsOne
<1> QED
  BY <1>1, <1>2

LEMMA ShownDone == ShownInv => EditsWhatIsShown
<1> SUFFICES ASSUME ShownInv, grid # None, Bare(Render(query)) = Lexed(Render(query)),
                    \A i \in DOMAIN query.items : query.items[i].of # "other",
                    NEW e, Named(e, query), Left(query) = {e}
             PROVE  /\ Named(grid.table, query) /\ query.single
                    /\ query.items[grid.key].of = "id"
                    /\ \A i \in grid.cols : query.items[i].of = query.items[i].as
  BY DEF EditsWhatIsShown
<1>1. query \in Query /\ grid = EditContext(Render(query), query)
  BY DEF ShownInv
<1> QED
  BY <1>1, ContextIsRight

-----------------------------------------------------------------------------
(* The theorems.                                                           *)

(* run.js, ai.js: whoever sends a text that drops, empties or clears a     *)
(* table was asked, and nobody is asked for another, but for the texts     *)
(* that AskedWhenItDestroys names.                                         *)
THEOREM QuestionIsAsked == Spec => []AskedWhenItDestroys
<1>1. Init => AskedInv
  BY TextInit
<1>2. Spec => []AskedInv
  BY <1>1, AskedStep, PTL DEF Spec
<1> QED
  BY <1>2, AskedDone, PTL

(* run.js: an Explain is one statement to the server.                      *)
THEOREM PlanIsOfOne == Spec => []ExplainsOne
<1>1. Init => AskedInv
  BY TextInit
<1>2. Spec => []AskedInv
  BY <1>1, AskedStep, PTL DEF Spec
<1> QED
  BY <1>2, AskedDone, PTL

(* editContext.js, sqlRefs.js: the cells of a result that can be edited    *)
(* belong to the table that was read, by its key, one row each.            *)
THEOREM EditIsOfWhatIsShown == Spec => []EditsWhatIsShown
<1>1. Init => ShownInv
  BY TextInit
<1>2. Spec => []ShownInv
  BY <1>1, ShownStep, PTL DEF Spec
<1> QED
  BY <1>2, ShownDone, PTL
=============================================================================
