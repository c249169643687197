----------------------------- MODULE MCListings -----------------------------
(***************************************************************************)
(* TLC instances of Listings: three objects, pages of one or two, and the  *)
(* rows and filters that tell the listings and the conditions apart.       *)
(***************************************************************************)
EXTENDS Listings

MCRows ==
    {NewRow,
     [NewRow EXCEPT !.parent = "null", !.prop = 1, !.mine = TRUE],
     [NewRow EXCEPT !.parent = "null", !.owner = "group", !.prop = 2, !.name = 2],
     [NewRow EXCEPT !.owner = "other", !.everyone = TRUE, !.name = 2],
     [NewRow EXCEPT !.owner = "other", !.prop = 1],
     [NewRow EXCEPT !.deleted = TRUE, !.prop = 2],
     [NewRow EXCEPT !.deleted = TRUE, !.anc = TRUE],
     [NewRow EXCEPT !.read = FALSE]}

Query(fields, conds, values, match) ==
    [fields |-> fields, conds |-> conds, values |-> values, match |-> match, sort |-> "date", ascending |-> FALSE]

MCQueries ==
    {Query(<<>>, <<>>, <<>>, "any"), [Query(<<>>, <<>>, <<>>, "any") EXCEPT !.ascending = TRUE],
     Query(<<"name">>, <<>>, <<1>>, "and")}
    \cup {[Query(<<"colour">>, <<"notequals">>, <<1>>, "and") EXCEPT !.sort = "name", !.ascending = a] : a \in BOOLEAN}
    \cup {Query(<<"name">>, <<"equals">>, <<1>>, m) : m \in {"all", "any"}}
    \cup {Query(<<"colour">>, <<"notequals">>, <<1>>, m) : m \in {"and", "any"}}
    \cup {Query(<<"name", "colour">>, <<"morethan", "lessthan">>, <<1, 2>>, m) : m \in {"and", "any"}}
    \cup {Query(<<"name", "colour">>, <<"equals", "notequals">>, <<1>>, m) : m \in {"and", "any"}}

(* All rows directly below the top, or the last one below one of the others. *)
MCTrees ==
    {[o \in Objs |-> Top]} \cup {[[o \in Objs |-> Top] EXCEPT !["c"] = p] : p \in {"a", "b"}}
=============================================================================
