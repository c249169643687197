---------------------------- MODULE MCStreaming ----------------------------
(***************************************************************************)
(* TLC instance of Streaming: blocks of two bytes and counters of four     *)
(* bytes with three values, the last two bytes zero, so that contents of   *)
(* up to eighteen bytes cross both; the first counter is next to wrapping. *)
(***************************************************************************)
EXTENDS Streaming

Rev(size, iv) == [size |-> size, iv |-> iv]

MCRevisions == [o \in Objs |->
    IF o = "doc" THEN <<Rev(5, <<0, 1, 0, 0>>), Rev(17, <<2, 2, 0, 0>>)>>
    ELSE IF o = "pic" THEN <<Rev(3, <<1, 0, 0, 0>>)>> ELSE <<Rev(0, <<1, 2, 0, 0>>)>>]
MCNewRevision == Rev(18, <<1, 1, 0, 0>>)

(* doc and pic have one name; that of note is what the second would get. *)
MCNamed == [o \in Objs |-> IF o = "note" THEN <<"a", 1>> ELSE <<"a">>]
MCPortion == [o \in Objs |-> IF o = "pic" THEN "S" ELSE "U"]

R(start, stop) == [start |-> start, stop |-> stop, given |-> TRUE]
MCRanges == {NoRange, R(0, Open), R(0, 0), R(1, 2), R(3, Open), R(5, 16), R(7, 7), R(12, 15), R(17, Open), R(16, 17), R(4, 40),
             R(4, 3), R(5, 2)}

(* What BlocksAreCounted proves, for every counter that CreateIV may make    *)
(* and every byte that it can count.                                         *)
ASSUME CountsBlocks ==
    \A head \in [1 .. IVLen - Zeros -> 0 .. Base - 1], start \in 0 .. BlockSize * Power[Zeros] - 1 :
        LET iv == [i \in 1 .. IVLen |-> IF i <= IVLen - Zeros THEN head[i] ELSE 0]
        IN  Value(AdjustIV(iv, start)) = Value(iv) + (start \div BlockSize)
=============================================================================
