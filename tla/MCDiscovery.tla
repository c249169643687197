---------------------------- MODULE MCDiscovery ----------------------------
(***************************************************************************)
(* TLC instances of Discovery.  A replaced connection is dialled at most   *)
(* once by each tracker, because the state that replaces the shared one    *)
(* remembers no announcement and cannot fail to announce: MaxConns is one  *)
(* more than the number of trackers.  A stop during the start, at which no      *)
(* property looks, more than doubles the states and is left to the proofs. *)
(***************************************************************************)
EXTENDS Discovery
=============================================================================
