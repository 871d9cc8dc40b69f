------------------------------ MODULE SqlText ------------------------------
(***************************************************************************)
(* What the workbench reads in the text of a statement: whether running it *)
(* deserves a question (sql.js, run.js, ai.js), whether it can be          *)
(* explained, and whether its result can be edited in place                *)
(* (query/sqlRefs.js, query/editContext.js).  The code searches the text   *)
(* with regular expressions; here it is a sequence of tokens, a word or a  *)
(* mark each, with white space between them.  Next to each reading stands  *)
(* the server's, which goes through the text once from left to right.      *)
(***************************************************************************)
EXTENDS Naturals, Sequences, FiniteSets, SequencesExt

CONSTANTS
  Alphabet, \* the tokens a user types one by one
  MaxLen,   \* bound: tokens typed
  Query,    \* SELECT statements that are pasted
  Catalog,  \* the tables of the server, by engine
  None

VARIABLES
  text,   \* what activeSql returns: the editor's text, or the selection
  query,  \* the SELECT it is, when it was pasted, and where it is run
  dialog, \* the statement a confirmation shows, or None
  sent,   \* the request on its way: [sql, how, asked], or None
  grid    \* the edit context of the result shown, or None

vars == <<text, query, dialog, sent, grid>>

(* Tokens.  A name is a token of one to three parts.  Sub is a subquery    *)
(* with a WHERE of its own.                                                *)
Quote   == <<"'">>
Mark    == <<"--">>
NewLine == <<"nl">>
Opens   == <<"/*">>
Closes  == <<"*/">>
Semi    == <<";">>
Comma   == <<",">>
Literal == <<"''">>
Sub == <<"(select where)">>
W(word) == <<word>>

-----------------------------------------------------------------------------
(* Blanking comments and literals.                                         *)

(* --[^\r\n]*                                                              *)
LineComments(s) ==
  LET Step(a, x) == IF x = NewLine THEN [a EXCEPT !.cut = FALSE]
                    ELSE IF a.cut \/ x = Mark THEN [a EXCEPT !.cut = TRUE]
                    ELSE [a EXCEPT !.out = Append(@, x)]
  IN FoldLeft(Step, [cut |-> FALSE, out |-> <<>>], s).out

(* From an opening mark to the next closing one; an opening mark that is   *)
(* not closed stays, and so does what follows it.                          *)
Spans(s, opening, closing, put) ==
  LET Step(a, x) ==
        IF ~a.inside /\ x = opening
        THEN [a EXCEPT !.inside = TRUE, !.held = <<x>>]
        ELSE IF ~a.inside THEN [a EXCEPT !.out = Append(@, x)]
        ELSE IF x = closing
        THEN [out |-> a.out \o put, held |-> <<>>, inside |-> FALSE]
        ELSE [a EXCEPT !.held = Append(@, x)]
      end == FoldLeft(Step, [out |-> <<>>, held |-> <<>>, inside |-> FALSE], s)
  IN end.out \o end.held

(* Variant: literals are left in the text.                                 *)
BareOfComments(s) == Spans(LineComments(s), Opens, Closes, <<>>)

(* bareSql, and the same three steps in parseSqlReferences and             *)
(* isSingleTableSelect: line comments, block comments, literals.           *)
Bare(s) ==
  Spans(Spans(LineComments(s), Opens, Closes, <<>>), Quote, Quote, <<Literal>>)

(* The server's reading: what opens first hides the rest.                  *)
LexStep(a, x) ==
  CASE a.mode = "code" /\ x = Quote -> [a EXCEPT !.mode = "literal"]
    [] a.mode = "code" /\ x = Mark -> [a EXCEPT !.mode = "line"]
    [] a.mode = "code" /\ x = Opens -> [a EXCEPT !.mode = "block"]
    [] a.mode = "code" /\ x \notin {Quote, Mark, Opens, NewLine} ->
         [a EXCEPT !.out = Append(@, x)]
    [] a.mode = "literal" /\ x = Quote ->
         [mode |-> "code", out |-> Append(a.out, Literal)]
    [] a.mode = "line" /\ x = NewLine -> [a EXCEPT !.mode = "code"]
    [] a.mode = "block" /\ x = Closes -> [a EXCEPT !.mode = "code"]
    [] OTHER -> a
Lexed(s) ==
  LET f[n \in 0..Len(s)] == IF n = 0 THEN [mode |-> "code", out |-> <<>>]
                            ELSE LexStep(f[n - 1], s[n])
  IN f[Len(s)].out

(* split(";"), as a set: what is between two neighbouring cuts.            *)
Cuts(s) == {i \in 0..Len(s) + 1 : i \in DOMAIN s => s[i] = Semi}
StatementsOf(s) ==
  {SubSeq(s, c[1] + 1, c[2] - 1) :
     c \in {d \in Cuts(s) \X Cuts(s) :
            d[1] < d[2] /\ \A k \in Cuts(s) : k <= d[1] \/ d[2] <= k}}

Words(s) == {s[i] : i \in DOMAIN s}
Adjacent(s, a, b) == \E i \in 1..Len(s) - 1 : s[i] = W(a) /\ s[i + 1] = W(b)
StartsWith(s, a) == s # <<>> /\ s[1] = W(a)

-----------------------------------------------------------------------------
(* Asking first.                                                           *)

(* DESTRUCTIVE_REGEX                                                       *)
Destructive(clean) ==
  Adjacent(clean, "drop", "table") \/ Adjacent(clean, "truncate", "table")

(* Variant: the WHERE of another statement counts.                         *)
ReasonOnWhole(s) ==
  LET clean == Bare(s) IN
  \/ Destructive(clean)
  \/ /\ \E st \in StatementsOf(clean) : StartsWith(st, "delete from")
     /\ W("where") \notin Words(clean) /\ Sub \notin Words(clean)

(* destructiveReason: is there one.                                        *)
Reason(s) ==
  LET clean == Bare(s) IN
  \/ Destructive(clean)
  \/ \E st \in StatementsOf(clean) :
       /\ StartsWith(st, "delete from")
       /\ W("where") \notin Words(st) /\ Sub \notin Words(st)

(* What the server does with a statement.                                  *)
Drops(st)     == StartsWith(st, "drop") /\ Adjacent(st, "drop", "table")
Empties(st)   == StartsWith(st, "truncate")
ClearsAll(st) == StartsWith(st, "delete from") /\ W("where") \notin Words(st)
Destroys(st)  == Drops(st) \/ Empties(st) \/ ClearsAll(st)

(* Where the search is known to see less: TRUNCATE without TABLE, and a    *)
(* DELETE whose only WHERE is a subquery's.                                *)
Unseen(st) ==
  \/ Empties(st) /\ ~Adjacent(st, "truncate", "table")
  \/ ClearsAll(st) /\ Sub \in Words(st)

(* Where it sees more: the words in the middle of another statement.       *)
Misplaced(st) == Destructive(st) /\ ~Drops(st) /\ ~Empties(st)

-----------------------------------------------------------------------------
(* Which table a SELECT is about.                                          *)

(* parseSqlReferences: the names after FROM and the like, each once.       *)
Refs(s) ==
  LET clean == Bare(s)
      Leads(i) == /\ clean[i] \in {W("from"), W("join"), W("update"), W("into"),
                                   W("delete from")}
                  /\ clean[i + 1] \notin {Literal, Semi, Comma, Quote, Opens,
                                          Closes, Sub}
  IN {clean[i + 1] : i \in {k \in 1..Len(clean) - 1 : Leads(k)}}

(* Variant: a comma in the FROM clause is nothing special.                 *)
SingleTableSelectWithCommas(s) ==
  LET clean == Bare(s) IN
  /\ StartsWith(clean, "select")
  /\ Words(clean) \cap {W("join"), W("group by"), W("having"), W("distinct"),
                        W("union")} = {}

(* isSingleTableSelect                                                     *)
SingleTableSelect(s) ==
  LET clean == Bare(s)
      From == {i \in DOMAIN clean : clean[i] = W("from")}
      InFrom(k) == LET i == CHOOSE i \in From : \A j \in From : i <= j IN
                   /\ i < k
                   /\ \A j \in i..k : clean[j] \notin
                        {W("where"), W("group by"), W("order by"), W("having")}
  IN /\ StartsWith(clean, "select")
     /\ Words(clean) \cap {W("join"), W("group by"), W("having"), W("distinct"),
                           W("union")} = {}
     /\ From # {} => \A k \in DOMAIN clean : clean[k] = Comma => ~InFrom(k)

(* The entry at the first of some positions.                               *)
First(cache, at) ==
  IF at = {} THEN None ELSE cache[CHOOSE i \in at : \A j \in at : i <= j]

(* Variant: a bare name is looked for in any database first.               *)
MatchAnywhere(cache, ref, current) ==
  First(cache, {i \in DOMAIN cache : cache[i].table = ref[Len(ref)]})

(* findCachedMatch, for one reference: the first of the cached tables of   *)
(* that name that the qualifiers allow, or that is in the current          *)
(* database, or at all.                                                    *)
Match(cache, ref, current) ==
  LET of == {i \in DOMAIN cache : cache[i].table = ref[Len(ref)]}
      Fits(e) == \/ Len(ref) = 3 /\ e.db = ref[1] /\ e.schema = ref[2]
                 \/ Len(ref) = 2 /\ (e.db = ref[1] \/ e.schema = ref[1])
      fitting == {i \in of : Fits(cache[i])}
      here    == {i \in of : cache[i].db = current}
  IN First(cache, IF fitting # {} THEN fitting
                  ELSE IF here # {} THEN here ELSE of)

(* isReadOnly                                                              *)
IsReadOnly(c) == ~c.writes \/ (c.kind = "sqlite" /\ c.readOnlyFile)

ResultNames(items) == [i \in DOMAIN items |-> items[i].as]

(* resolveQueryEditContext, given that /columns answers.  Every table has  *)
(* a key column id and a column v.                                         *)
EditContext(s, q) ==
  LET names == ResultNames(q.items)
      match == Match(q.cache, CHOOSE r \in Refs(s) : TRUE, q.current)
      Key   == {i \in DOMAIN names : names[i] = "id"}
  IN IF /\ SingleTableSelect(s) /\ Cardinality(Refs(s)) = 1
        /\ match # None /\ ~IsReadOnly(q.conn) /\ Key # {}
     THEN IF match.view THEN None
          ELSE [table |-> match,
                key   |-> CHOOSE i \in Key : \A j \in Key : i <= j,
                cols  |-> {i \in DOMAIN names : names[i] \in {"id", "v"}}]
     ELSE None

-----------------------------------------------------------------------------
(* The SELECT statements that are pasted.                                  *)

(* The text of one: its items, separated by commas, and the rest.          *)
Listed(items) ==
  LET f[n \in 0..Len(items)] ==
        IF n = 0 THEN <<>>
        ELSE f[n - 1] \o (IF n = 1 THEN <<>> ELSE <<Comma>>) \o items[n].text
  IN f[Len(items)]
Opening(q) ==
  <<W("select")>> \o q.distinct \o Listed(q.items) \o <<W("from"), q.from>>
Render(q) == Opening(q) \o q.tail

(* What a name is not.                                                     *)
Reserved ==
  {Quote, Mark, NewLine, Opens, Closes, Semi, Comma, Literal, Sub}
    \union {W("select"), W("from"), W("join"), W("update"), W("into"),
            W("delete from"), W("where"), W("group by"), W("order by"),
            W("having"), W("distinct"), W("union")}

(* The rows of the result are not rows of one table: the server reads a    *)
(* word for that, or a comma among the tables.                             *)
Combines(q) ==
  LET rest == Lexed(q.tail) IN
  \/ q.distinct # <<>>
  \/ Words(rest) \cap {W("join"), W("group by"), W("having"), W("distinct"),
                       W("union")} # {}
  \/ \E k \in DOMAIN rest :
       /\ rest[k] = Comma
       /\ \A j \in 1..k : rest[j] \notin
            {W("where"), W("group by"), W("order by"), W("having")}

IsSeq(s) == s \in Seq(Words(s))

QueryAssumption ==
  /\ None \notin Query
  /\ \A q \in Query :
       /\ IsSeq(q.items) /\ IsSeq(q.tail) /\ IsSeq(q.cache)
       /\ q.distinct \in {<<>>, <<W("distinct")>>}
       /\ q.from \notin Reserved /\ IsSeq(q.from) /\ Len(q.from) \in 1..3
       /\ \A i \in DOMAIN q.items :
            LET it == q.items[i] IN
            /\ IsSeq(it.text) /\ Words(it.text) \cap Reserved = {}
            /\ it.of \in {it.as, "other"}
       /\ ~q.single => Combines(q)
ASSUME QueryAssumption

-----------------------------------------------------------------------------
Init == text = <<>> /\ query = None /\ dialog = None /\ sent = None /\ grid = None

Typing == dialog = None /\ sent = None

Type ==
  /\ Typing /\ query = None /\ Len(text) < MaxLen
  /\ \E x \in Alphabet : text' = Append(text, x)
  /\ UNCHANGED <<query, dialog, sent, grid>>

Paste ==
  /\ Typing /\ text = <<>> /\ query = None
  /\ \E q \in Query : query' = q /\ text' = Render(q)
  /\ UNCHANGED <<dialog, sent, grid>>

Sends(sql, how, asked) ==
  /\ sent' = [sql |-> sql, how |-> how, asked |-> asked]
  /\ text' = <<>> /\ dialog' = None /\ grid' = None /\ UNCHANGED query

(* runActiveQuery: a question first, or the request.                       *)
Run ==
  /\ Typing /\ text # <<>>
  /\ IF Reason(text)
     THEN dialog' = text /\ UNCHANGED <<text, query, sent, grid>>
     ELSE Sends(text, "run", FALSE)

(* openConfirmDialog                                                       *)
Confirm == dialog # None /\ Sends(dialog, "run", TRUE)
Cancel  == dialog # None /\ dialog' = None /\ UNCHANGED <<text, query, sent, grid>>

(* Variant: a ; in a comment or a literal ends no statement.               *)
SeveralInBare(s) ==
  \E i \in DOMAIN Bare(s) : Bare(s)[i] = Semi /\ i < Len(Bare(s))

(* hasMultipleStatements: a ; with anything after it.                      *)
Several(s) == \E i, j \in DOMAIN s : i < j /\ s[i] = Semi /\ s[j] # NewLine

Prefix == W("explain")

(* ... of runActiveQuery with opts.explain: never a question.              *)
Explain ==
  /\ Typing /\ text # <<>> /\ query = None
  /\ ~Several(text)
  /\ LET end == {i \in DOMAIN text :
                   text[i] = Semi /\ \A j \in DOMAIN text : i < j => text[j] = NewLine}
         cut == IF end = {} THEN text
                ELSE SubSeq(text, 1, (CHOOSE i \in end : TRUE) - 1)
     IN Sends(<<Prefix>> \o cut, "explain", FALSE)

(* The sql_query tool: refused with the reason unless it says confirm, and *)
(* refused on a read-only connection when the first word writes.           *)
Writes(s) == s # <<>> /\ s[1] \in {W("delete from"), W("drop"), W("truncate")}
AiQuery ==
  /\ Typing /\ text # <<>> /\ query = None
  /\ \E confirm, readOnly \in BOOLEAN :
       /\ ~(readOnly /\ Writes(text))
       /\ Reason(text) => confirm
       /\ Sends(text, "run", Reason(text))

(* The answer; a result of a pasted SELECT is drawn, and can be edited if  *)
(* its columns arrive.                                                     *)
Land ==
  /\ sent # None /\ sent' = None
  /\ \/ query # None /\ grid' = EditContext(sent.sql, query)
     \/ grid' = None
  /\ UNCHANGED <<text, query, dialog>>

(* Something else is opened.                                               *)
Leave ==
  /\ Typing /\ text = <<>> /\ query # None /\ query' = None /\ grid' = None
  /\ UNCHANGED <<text, dialog, sent>>

Next == Type \/ Paste \/ Run \/ Confirm \/ Cancel \/ Explain \/ AiQuery \/ Land
        \/ Leave

Spec == Init /\ [][Next]_vars

-----------------------------------------------------------------------------
(* Properties.                                                             *)

(* Whoever sends a text was asked exactly when it drops, empties or clears *)
(* a table: no harmful word is missed, and none is found in a comment or a *)
(* literal; but for texts that the two readings split differently (a mark  *)
(* in a literal, a quote in a comment, one that is not closed), TRUNCATE   *)
(* without TABLE, the WHERE of a subquery, and the words in another        *)
(* statement.                                                              *)
AskedWhenItDestroys ==
  sent # None /\ sent.how = "run" =>
    LET lexed == Lexed(sent.sql)
        all   == StatementsOf(lexed)
    IN Bare(sent.sql) = lexed =>
         /\ (\E st \in all : Destroys(st) /\ ~Unseen(st)) => sent.asked
         /\ sent.asked => \E st \in all : Destroys(st) \/ Misplaced(st)

(* An Explain is one statement to the server, whatever hides the ;.        *)
ExplainsOne ==
  sent # None /\ sent.how = "explain" =>
    Cardinality(StatementsOf(Lexed(sent.sql)) \ {<<>>}) = 1

(* The table the server reads for a name.                                  *)
Named(e, q) ==
  LET ref == q.from IN
  /\ e.table = ref[Len(ref)]
  /\ CASE Len(ref) = 3 -> e.db = ref[1] /\ e.schema = ref[2]
       [] Len(ref) = 2 -> IF q.conn.kind = "mysql" THEN e.db = ref[1]
                          ELSE e.schema = ref[1] /\ e.db = q.at.db
       [] OTHER -> e.db = q.at.db /\ e.schema = q.at.schema

(* The cached tables that the name, or the current database, leaves.       *)
Left(q) ==
  LET ref == q.from
      of  == {e \in {q.cache[i] : i \in DOMAIN q.cache} :
                e.table = ref[Len(ref)]}
  IN CASE Len(ref) = 3 -> {e \in of : e.db = ref[1] /\ e.schema = ref[2]}
       [] Len(ref) = 2 -> {e \in of : e.db = ref[1] \/ e.schema = ref[1]}
       [] OTHER -> IF \E e \in of : e.db = q.current
                   THEN {e \in of : e.db = q.current} ELSE of

(* A cell of a result that can be edited belongs to the row it will write: *)
(* the table is the one that was read, the key and the value are its       *)
(* columns, and every row of the result is a row of it; but for renamed    *)
(* columns, names that the tree has not loaded or more than once, and      *)
(* texts that the two readings split differently.                          *)
EditsWhatIsShown ==
  grid # None /\ Bare(Render(query)) = Lexed(Render(query))
    /\ (\A i \in DOMAIN query.items : query.items[i].of # "other")
    /\ (\E e \in Catalog[query.conn.kind] : Named(e, query) /\ Left(query) = {e})
  => /\ Named(grid.table, query) /\ query.single
     /\ query.items[grid.key].of = "id"
     /\ \A i \in grid.cols : query.items[i].of = query.items[i].as
=============================================================================
