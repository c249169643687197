----------------------------- MODULE MCSharing -----------------------------
(***************************************************************************)
(* TLC instances of Sharing: two users, a group both are in, two requests  *)
(* under way at once and three altogether.                                 *)
(***************************************************************************)
EXTENDS Sharing, TLC

CONSTANTS r1, r2

MCMember == [u \in Users |-> Groups]

(* Permissions of the API: the rights for the grantees gs, nothing denied. *)
Nobody == [x \in Rights |-> [allow |-> {}, deny |-> {}]]
Allow(gs, rights) == [x \in Rights |-> [allow |-> IF x \in rights THEN gs ELSE {}, deny |-> {}]]

MCCreated ==
    {[owner |-> "alice", share |-> {"alice"}, permission |-> Nobody],
     [owner |-> "alice", share |-> {}, permission |-> Allow({"bob"}, {"U", "S"})],
     [owner |-> "staff", share |-> {"bob"}, permission |-> Allow({"alice"}, {"R", "S"})]}

MCShareInputs ==
    {[to |-> {"bob"}, rights |-> Rights], [to |-> {"staff"}, rights |-> {"R", "U"}],
     [to |-> {"bob"}, rights |-> {"U"}], [to |-> {"everyone"}, rights |-> {"R"}],
     [to |-> {"bob", "everyone"}, rights |-> {"R"}]}

ACM(s) == [given |-> TRUE, share |-> s]
NoACM == [given |-> FALSE, share |-> {}]

MCUpdateInputs ==
    {[acm |-> a, permission |-> Nobody] : a \in {ACM({}), ACM({"bob"})}}
    \cup {[acm |-> NoACM, permission |-> Allow({"bob"}, {"R", "U"})],
          [acm |-> ACM({"staff"}),
           permission |-> [Allow({"bob", "everyone"}, {"R", "U"}) EXCEPT !["R"].deny = {"everyone"}]]}

Symmetry == Permutations({r1, r2})
=============================================================================
