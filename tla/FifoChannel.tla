---------------------------- MODULE FifoChannel ----------------------------
(***************************************************************************)
(* What the sending side of a session promises: the bytes that leave the   *)
(* server are the accepted messages, one after the other, in the order in  *)
(* which they were accepted, none of them mixed with another, until the    *)
(* connection breaks.                                                      *)
(*                                                                         *)
(* Messages are numbered 1, 2, ... in the order of acceptance.  A message  *)
(* is Pieces pieces long: the kernel may take a message in several parts.  *)
(***************************************************************************)
EXTENDS Integers, Sequences

CONSTANT Pieces

VARIABLES accepted, (* number of messages accepted so far                  *)
          wire,     (* <<message, piece>> handed to the peer, in order     *)
          broken    (* the connection is broken: nothing more is written   *)

vars == <<accepted, wire, broken>>

(* The piece that has to follow piece p.                                   *)
Succ(p) == IF p[2] < Pieces THEN <<p[1], p[2] + 1>> ELSE <<p[1] + 1, 1>>

NextPiece == IF wire = <<>> THEN <<1, 1>> ELSE Succ(wire[Len(wire)])

Init == /\ accepted = 0
        /\ wire = <<>>
        /\ broken = FALSE

Accept == /\ accepted' = accepted + 1
          /\ UNCHANGED <<wire, broken>>

Transfer == /\ ~broken
            /\ NextPiece[1] <= accepted
            /\ wire' = Append(wire, NextPiece)
            /\ UNCHANGED <<accepted, broken>>

Break == /\ ~broken
         /\ broken' = TRUE
         /\ UNCHANGED <<accepted, wire>>

Next == Accept \/ Transfer \/ Break

Spec == Init /\ [][Next]_vars

(* Whatever is accepted is written in the end, unless the connection breaks.*)
LiveSpec == Spec /\ WF_vars(Transfer)
=============================================================================
