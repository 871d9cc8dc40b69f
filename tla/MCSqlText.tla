----------------------------- MODULE MCSqlText -----------------------------
(***************************************************************************)
(* Instances of SqlText for TLC: the marks and words a question depends on *)
(* and the SELECT statements an edit depends on.                           *)
(***************************************************************************)
EXTENDS SqlText, TLC

Keys == {<<"delete from">>, <<"truncate">>, <<"drop">>, <<"table">>,
         <<"where">>, Sub, Semi, Quote, Mark, NewLine, Opens, Closes}

Entry(d, s, t) == [db |-> d, schema |-> s, table |-> t, view |-> t = "w"]

Tables == [postgres |-> {Entry("d", "s", "t"), Entry("d", "r", "t"),
                         Entry("e", "s", "t"), Entry("d", "s", "w")},
           mysql    |-> {Entry("d", "d", "t"), Entry("e", "e", "t")}]

(* The tree has loaded some of them, in some order.                        *)
Loaded == [k \in DOMAIN Tables |->
             UNION {SetToSeqs(some) : some \in
               {s \in SUBSET Tables[k] : Cardinality(s) <= 2}}]

Item(col, as) ==
  [text |-> IF col = as THEN <<W(col)>> ELSE <<W(col), W("as"), W(as)>>,
   as |-> as, of |-> IF col = as THEN col ELSE "other"]
Items == {<<Item("id", "id"), Item("v", "v")>>, <<Item("v", "v"), Item("id", "id")>>,
          <<Item("v", "v")>>, <<Item("id", "id"), Item("v", "id")>>,
          <<Item("v", "id")>>}

Froms == [postgres |-> {<<"t">>, <<"s", "t">>, <<"d", "t">>, <<"d", "s", "t">>,
                        <<"w">>},
          mysql    |-> {<<"t">>, <<"d", "t">>, <<"e", "t">>}]

(* The rest of the statement, and whether its rows are rows of one table.  *)
Tails == {[text |-> <<>>, one |-> TRUE],
          [text |-> <<W("where"), Comma>>, one |-> TRUE],
          [text |-> <<W("order by"), Comma>>, one |-> TRUE],
          [text |-> <<Mark, W("join"), NewLine>>, one |-> TRUE],
          [text |-> <<Comma, W("u")>>, one |-> FALSE],
          [text |-> <<W("join"), W("u")>>, one |-> FALSE],
          [text |-> <<W("where"), Quote, W("union"), Quote>>, one |-> TRUE],
          [text |-> <<W("group by"), W("id")>>, one |-> FALSE],
          [text |-> <<Opens, Comma, Closes, W("having")>>, one |-> FALSE],
          [text |-> <<W("where"), Quote, Mark, Quote, W("union"), W("select"),
                      W("id"), W("from"), W("u")>>, one |-> FALSE],
          [text |-> <<W("union"), W("select"), W("id"), W("from"), W("t")>>,
           one |-> FALSE]}

Connections == [postgres |-> {[kind |-> "postgres", writes |-> b,
                               readOnlyFile |-> FALSE] : b \in BOOLEAN},
                mysql    |-> {[kind |-> "mysql", writes |-> TRUE,
                               readOnlyFile |-> FALSE]}]
Places == [postgres |-> {[db |-> "d", schema |-> "s"]},
           mysql    |-> {[db |-> "d", schema |-> "d"]}]

(* DISTINCT comes without one.                                             *)
Shapes == {[distinct |-> <<>>, tail |-> t.text, one |-> t.one] : t \in Tails}
          \union {[distinct |-> <<W("distinct")>>, tail |-> <<>>, one |-> FALSE]}

Queries ==
  UNION {{[items |-> i, from |-> f, distinct |-> t.distinct, tail |-> t.tail,
           single |-> t.one, conn |-> c, at |-> a, current |-> cur,
           cache |-> l] :
            i \in Items, f \in Froms[k],
            t \in Shapes, c \in Connections[k], a \in Places[k],
            cur \in {"d", "none"}, l \in Loaded[k]} : k \in DOMAIN Tables}
=============================================================================
