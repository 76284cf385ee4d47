--------------------------- MODULE MCFrameReader ---------------------------
(* Small instances of FrameReader: headers of two bytes, bodies of up to   *)
(* MaxLength bytes, and every stream of up to MCFrames frames, whole or    *)
(* cut inside its last frame.                                              *)
EXTENDS FrameReader

CONSTANTS MCLens,    (* lengths announced by frames that are acceptable    *)
          MCBad,     (* <<id, len>> of headers that are not                *)
          MCFrames   (* frames per stream                                  *)

MCBadHeads  == {<<MaxLength + 1, 1>>, <<1, MaxLength + 1>>, <<1, -2>>, <<1, -1>>}
MCNegative  == {<<1, -2>>}

(* A negative id passes the check of HandleRead.                           *)
MCGood == {<<IF l = 0 THEN -3 ELSE l, l>> : l \in MCLens}

MCLayouts == {ls \in UNION {[1 .. n -> MCGood \cup MCBad] : n \in 1 .. MCFrames} :
                \A i \in 1 .. Len(ls) - 1 : ls[i] \in MCGood}

(* Behind a header of length -1 three more bytes come.                     *)
BodyBytes(l) == IF l = -1 THEN 3 ELSE IF l > 0 THEN l ELSE 0

FrameAt(ls) ==
  LET at[i \in 1 .. Len(ls) + 1] ==
        IF i = 1 THEN 0 ELSE at[i - 1] + HeadTotalLen + BodyBytes(ls[i - 1][2])
  IN  at

(* Body bytes also decode to something: an acceptable head of length 1.    *)
StreamOf(ls, missing) ==
  LET at   == FrameAt(ls)
      size == at[Len(ls) + 1] - missing
      heads(p) == {i \in 1 .. Len(ls) : at[i] = p}
      field(f, p) == IF heads(p) = {} THEN 1
                     ELSE ls[CHOOSE i \in heads(p) : TRUE][f]
  IN  [size |-> size,
       id   |-> [p \in 0 .. size |-> field(1, p)],
       len  |-> [p \in 0 .. size |-> field(2, p)]]

MCStreams == {StreamOf(ls, missing) : ls \in MCLayouts, missing \in 0 .. 1}
=============================================================================
