---------------------------- MODULE FrameStream ----------------------------
(***************************************************************************)
(* What the wire format of the server promises, independently of how TCP   *)
(* cuts the byte stream: the stream is a concatenation of frames, a frame  *)
(* is a header of HeadTotalLen bytes that announces an id and a length,    *)
(* followed by that many body bytes, and the receiver hands over exactly   *)
(* the bodies, one after the other, until it stops.                        *)
(*                                                                         *)
(* A byte is named by its position in the stream, so a body that holds the *)
(* wrong bytes is a different value from the body that holds the right     *)
(* ones.                                                                   *)
(***************************************************************************)
EXTENDS Integers, Sequences

CONSTANTS HeadTotalLen,  (* bytes of a frame header                        *)
          MaxLength,     (* largest id and largest body length accepted    *)
          Streams        (* the byte streams a peer may send               *)

VARIABLES stream,    (* the stream of this session; never changes          *)
          pos,       (* position of the first frame not handed over        *)
          delivered, (* the messages handed over, in order                 *)
          ended      (* the receiver has stopped for good                  *)

vars == <<stream, pos, delivered, ended>>

(* The header that starts at position p announces an id and a length the   *)
(* receiver accepts.                                                       *)
Valid(p) == /\ stream.id[p] <= MaxLength
            /\ stream.len[p] \in 0 .. MaxLength

(* The whole frame that starts at p is part of the stream.                 *)
Complete(p) == /\ p + HeadTotalLen <= stream.size
               /\ p + HeadTotalLen + stream.len[p] <= stream.size

(* The message of the frame at p: its id and its body bytes.               *)
Message(p) ==
  [id   |-> stream.id[p],
   body |-> [k \in 0 .. stream.len[p] - 1 |-> p + HeadTotalLen + k]]

Init == /\ stream \in Streams
        /\ pos = 0
        /\ delivered = <<>>
        /\ ended = FALSE

Deliver == /\ ~ended
           /\ pos + HeadTotalLen <= stream.size
           /\ Valid(pos)
           /\ Complete(pos)
           /\ delivered' = Append(delivered, Message(pos))
           /\ pos' = pos + HeadTotalLen + stream.len[pos]
           /\ UNCHANGED <<stream, ended>>

(* The peer is gone, or the next header is not acceptable.                 *)
End == /\ ~ended
       /\ ended' = TRUE
       /\ UNCHANGED <<stream, pos, delivered>>

Next == Deliver \/ End

Spec == Init /\ [][Next]_vars

LiveSpec == Spec /\ WF_vars(Deliver)
=============================================================================
