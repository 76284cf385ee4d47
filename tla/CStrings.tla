----------------------------- MODULE CStrings -----------------------------
(***************************************************************************)
(* The functions on text of src/public/_public.cpp that are one search or  *)
(* one copy: the copies into a buffer of fixed size, trimming, strstr and  *)
(* GetXMLBuffer.                                                           *)
(*                                                                         *)
(* A text is a sequence of characters, a buffer in memory a sequence of    *)
(* cells, of which those before the first NUL are its text.                *)
(***************************************************************************)
EXTENDS Integers, Sequences, SequencesExt

CONSTANT TagCells   \* the limit of SNPRINTF for the tags of a field, 50 in the code

NUL == "NUL"
SP == " "

-----------------------------------------------------------------------------
(* Copies: the destination is cleared, as many cells as fit are written *)

Cells(n) == [i \in 1 .. n |-> NUL]
TextLen(m) == IF Contains(m, NUL) THEN (CHOOSE i \in 1 .. Len(m) :
                m[i] = NUL /\ \A j \in 1 .. i - 1 : m[j] # NUL) - 1 ELSE Len(m)
TextOf(m) == SubSeq(m, 1, TextLen(m))
Least(a, b) == IF a < b THEN a ELSE b
Cut(s, n) == SubSeq(s, 1, Least(n, Len(s)))

\* strncpy from cell i on: n cells, filled up with NUL.
Strncpy(m, i, src, n) ==
  [c \in DOMAIN m |-> IF c < i \/ c >= i + n THEN m[c]
                      ELSE IF c - i + 1 <= Len(src) THEN src[c - i + 1] ELSE NUL]

\* A mutated form: the last cell is not kept for the end.
StrncpyToTheEnd(dest, src, n) == Strncpy(Cells(Len(dest)), 1, src, Least(n, Len(dest)))

STRNCPY(dest, src, n) == Strncpy(Cells(Len(dest)), 1, src, Least(n, Len(dest) - 1))
STRCPY(dest, src) ==
  IF Len(src) > Len(dest) - 1
  THEN Strncpy(Cells(Len(dest)), 1, src, Len(dest) - 1)
  ELSE Strncpy(Cells(Len(dest)), 1, src, Len(src) + 1)

\* strncat ends what it writes with a NUL.
STRNCAT(dest, src, n) ==
  LET more == Cut(src, Least(n, Len(dest) - 1 - TextLen(dest))) IN
  Strncpy(dest, TextLen(dest) + 1, more, Len(more) + 1)
STRCAT(dest, src) == STRNCAT(dest, src, Len(src))

\* vsnprintf writes n - 1 cells of the formatted text and a NUL.
SNPRINTF(dest, n, formatted) ==
  LET len == Least(n, Len(dest)) IN
  IF len = 0 THEN Cells(Len(dest))
  ELSE Strncpy(Cells(Len(dest)), 1, Cut(formatted, len - 1), len)
SPRINTF(dest, formatted) == SNPRINTF(dest, Len(dest), formatted)

\* What a buffer of so many cells holds after it was asked to hold a text: it is
\* no longer than before, and its text is as much of the one wanted as fits
\* in front of a NUL.
Fits(m, size, want) == Len(m) = size /\ TextOf(m) = Cut(want, size - 1)

\* All the copies into a buffer, with limit n for those that have one, and what
\* is added to a copy.
CopiesAreCut(old, src, more, n) ==
  LET size == Len(old) IN
  /\ Fits(STRCPY(old, src), size, src)
  /\ Fits(SPRINTF(old, src), size, src)
  /\ Fits(STRCAT(STRCPY(old, src), more), size, src \o more)
  /\ Fits(STRNCPY(old, src, n), size, Cut(src, n))
  /\ Fits(STRNCAT(STRCPY(old, src), more, n), size, src \o Cut(more, n))
  /\ n > 0 => Fits(SNPRINTF(old, n, src), size, Cut(src, n - 1))

-----------------------------------------------------------------------------
(* Trimming *)

From(s, i) == SubSeq(s, i, Len(s))

DeleteLChar(s, c) ==
  IF \A i \in DOMAIN s : s[i] = c THEN <<>>
  ELSE From(s, CHOOSE i \in DOMAIN s : s[i] # c /\ \A j \in 1 .. i - 1 : s[j] = c)
DeleteRChar(s, c) == Reverse(DeleteLChar(Reverse(s), c))
DeleteLRChar(s, c) == DeleteRChar(DeleteLChar(s, c), c)

-----------------------------------------------------------------------------
(* Searching *)

\* strstr and string::find from position i on, 0 when there is none.
Occurs(s, t, i) == i + Len(t) - 1 <= Len(s) /\ SubSeq(s, i, i + Len(t) - 1) = t
Find(s, t, i) ==
  IF \E j \in i .. Len(s) + 1 : Occurs(s, t, j)
  THEN CHOOSE j \in i .. Len(s) + 1 : Occurs(s, t, j) /\ \A k \in i .. j - 1 : ~Occurs(s, t, k)
  ELSE 0

-----------------------------------------------------------------------------
(* GetXMLBuffer *)

\* The tags as they are written, and what is looked for: as much of them as
\* SNPRINTF puts into its buffers.
Tag(name) == <<"<">> \o name \o <<">">>
EndTag(name) == <<"<", "/">> \o name \o <<">">>
m_SFieldName(name) == Cut(Tag(name), TagCells - 1)
m_EFieldName(name) == Cut(EndTag(name), TagCells - 1)

\* Names that agree in as much of them as there is room for are one name.
Same(t, u) == Cut(t, TagCells - 2) = Cut(u, TagCells - 2)

\* strncpy is called with a negative count, as an unsigned one: what becomes of
\* the program is open, and stands for no answer.
Undefined == [ok |-> FALSE, value |-> <<NUL>>]

\* A mutated form: the end of the field is one character too late.
GetXMLBufferLong(xml, name, ilen) ==
  LET start == Find(xml, m_SFieldName(name), 1)
      end == IF start = 0 THEN 0 ELSE Find(xml, m_EFieldName(name), start)
      length == end - start - Len(name) - 1
      first == start + Len(name) + 2 IN
  IF start = 0 \/ end = 0 THEN [ok |-> FALSE, value |-> <<>>]
  ELSE IF length < 0 THEN Undefined
  ELSE [ok |-> TRUE,
        value |-> DeleteLRChar(SubSeq(xml, first, first - 1 +
                    IF ilen = 0 THEN length ELSE Least(length, ilen)), SP)]

GetXMLBuffer(xml, name, ilen) ==
  LET start == Find(xml, m_SFieldName(name), 1)
      end == IF start = 0 THEN 0 ELSE Find(xml, m_EFieldName(name), start)
      length == end - start - Len(name) - 2
      first == start + Len(name) + 2 IN
  IF start = 0 \/ end = 0 THEN [ok |-> FALSE, value |-> <<>>]
  ELSE IF length < 0 THEN Undefined
  ELSE [ok |-> TRUE,
        value |-> DeleteLRChar(SubSeq(xml, first, first - 1 +
                    IF ilen = 0 THEN length ELSE Least(length, ilen)), SP)]
=============================================================================
