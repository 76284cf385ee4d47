------------------------------- MODULE CText -------------------------------
(***************************************************************************)
(* The functions on text of src/public/_public.cpp that repeat a search,   *)
(* lines 184-402 and 611-932: PickNumber, case, UpdateStr, CCmdStr,        *)
(* MatchStr, and the numbers and truths in fields.  Those that do not are  *)
(* in CStrings.  A number in a text counts as one character.               *)
(***************************************************************************)
EXTENDS CStrings, TLC

CONSTANTS Lower, Upper, \* the letters, as functions of a number: <<"a", ..>>
          Width,        \* the bits of an int; a long has twice as many
          Numbers,      \* the numbers that occur in texts
          MaxRounds     \* bound: rounds of the loop of UpdateStr

-----------------------------------------------------------------------------
(* Picking and case *)

\* What is left of a text are its digits, its signs when bsigned is set, and
\* its dots when bdot is; of a number without its sign, the digits.
PickNumber(s, bsigned, bdot) ==
  LET Digits(c) == {n \in Numbers : n >= 0 /\ c = ToString(n)}
      Negative(c) == {n \in Numbers : n < 0 /\ c = ToString(n)}
      Kept(c) == IF Digits(c) # {} \/ (bdot /\ c = ".") \/ (bsigned /\ c \in {"+", "-"})
                 THEN <<c>>
                 ELSE IF Negative(c) = {} THEN <<>>
                 ELSE IF bsigned THEN <<c>>
                 ELSE <<ToString(-(CHOOSE n \in Negative(c) : TRUE))>>
      t == DeleteLRChar(s, SP)
  IN FlattenSeq([i \in DOMAIN t |-> Kept(t[i])])

Converted(s, from, to) ==
  [i \in DOMAIN s |-> IF Contains(from, s[i])
                      THEN to[CHOOSE k \in DOMAIN from : from[k] = s[i]] ELSE s[i]]
ToUpper(s) == Converted(s, Lower, Upper)
ToLower(s) == Converted(s, Upper, Lower)

-----------------------------------------------------------------------------
(* Replacing *)

\* The loop: from the start again when bloop is set, behind the replacement
\* otherwise.  A text of NUL stands for a loop that has not come to its end.
RECURSIVE Replace(_, _, _, _, _, _)
Replace(s, old, new, bloop, start, rounds) ==
  LET i == Find(s, old, IF bloop THEN 1 ELSE start) IN
  IF i = 0 THEN s
  ELSE IF rounds = 0 THEN <<NUL>>
  ELSE Replace(SubSeq(s, 1, i - 1) \o new \o From(s, i + Len(old)), old, new, bloop,
               i + Len(new), rounds - 1)

\* A mutated form: the search starts behind the first character.
UpdateStrFromSecond(s, old, new, bloop) ==
  IF s = <<>> \/ (bloop /\ Find(new, old, 1) # 0) THEN s
  ELSE Replace(s, old, new, bloop, 2, MaxRounds)

\* A mutated form: an old text that is part of the new one is not looked for.
UpdateStrUnguarded(s, old, new, bloop) ==
  IF s = <<>> THEN s ELSE Replace(s, old, new, bloop, 1, MaxRounds)

UpdateStr(s, old, new, bloop) ==
  IF s = <<>> \/ (bloop /\ Find(new, old, 1) # 0) THEN s
  ELSE Replace(s, old, new, bloop, 1, MaxRounds)

-----------------------------------------------------------------------------
(* CCmdStr *)

RECURSIVE SplitToCmd(_, _, _)
SplitToCmd(s, sep, bdelspace) ==
  LET Field(t) == IF bdelspace THEN DeleteLRChar(t, SP) ELSE t
      i == Find(s, sep, 1) IN
  IF i = 0 THEN <<Field(s)>>
  ELSE <<Field(SubSeq(s, 1, i - 1))>> \o SplitToCmd(From(s, i + Len(sep)), sep, bdelspace)

CmdCount(fields) == Len(fields)

\* A field into a buffer of ilen characters, 0 for no limit; inum counts from 0.
GetValue(fields, inum, ilen) ==
  IF inum >= CmdCount(fields) THEN [ok |-> FALSE, value |-> <<>>]
  ELSE [ok |-> TRUE, value |-> IF ilen = 0 THEN fields[inum + 1]
                               ELSE Cut(fields[inum + 1], ilen)]

\* atol stops at the limits of a long; atoi cuts it down to the bits of an int;
\* an unsigned value is the same bits, counted from 0.
Signed(n, w) == ((n + 2^(w - 1)) % 2^w) - 2^(w - 1)
Clamp(n, w) == IF n >= 2^(w - 1) THEN 2^(w - 1) - 1 ELSE IF n < -(2^(w - 1)) THEN -(2^(w - 1)) ELSE n
NumberIn(text) ==
  LET t == DeleteLChar(text, SP)
      first == {n \in Numbers : t # <<>> /\ t[1] = ToString(n)} IN
  IF first = {} THEN 0 ELSE CHOOSE n \in first : TRUE
Atol(text) == Clamp(NumberIn(text), 2 * Width)
Atoi(text) == Signed(Atol(text), Width)
\* A mutated form: the value passes through an int that stops at its limits.
UnsignedIntSaturated(text) == Clamp(Atol(text), Width) % 2^Width

UnsignedInt(text) == Atoi(text) % 2^Width
UnsignedLong(text) == Atol(text) % 2^(2 * Width)

Kinds == {"int", "unsigned int", "long", "unsigned long"}
ReadAs(kind, text) ==
  CASE kind = "int" -> Atoi(text)
    [] kind = "unsigned int" -> UnsignedInt(text)
    [] kind = "long" -> Atol(text)
    [] kind = "unsigned long" -> UnsignedLong(text)

FieldNumber(fields, inum, kind) ==
  IF inum >= CmdCount(fields) THEN [ok |-> FALSE, value |-> 0]
  ELSE [ok |-> TRUE, value |-> ReadAs(kind, fields[inum + 1])]

\* The bool of a field: any other text is a false that was read.
TRUETEXT == <<"A">>
FieldBool(fields, inum) ==
  IF inum >= CmdCount(fields) THEN [ok |-> FALSE, value |-> FALSE]
  ELSE [ok |-> TRUE, value |-> ToUpper(Cut(fields[inum + 1], 10)) = TRUETEXT]

-----------------------------------------------------------------------------
(* MatchStr *)

\* One rule: the pieces between its stars, the first at the head of the name,
\* the last at its tail, each behind the one before.  (For a last piece longer
\* than the name the code compares memory in front of the name; the search
\* that follows fails whatever that comparison says.)
RECURSIVE MatchPieces(_, _, _, _)
MatchPieces(name, pieces, j, pos) ==
  IF j > Len(pieces) THEN TRUE
  ELSE /\ j = 1 => IsPrefix(pieces[j], name)
       /\ j = Len(pieces) => IsSuffix(pieces[j], name)
       /\ LET i == Find(name, pieces[j], pos) IN
            i # 0 /\ MatchPieces(name, pieces, j + 1, i + Len(pieces[j]))

\* A mutated form: the name is compared as it is written.
MatchStrCase(name, rules) ==
  /\ rules # <<>>
  /\ \/ rules = <<"*">>
     \/ \E rule \in Range(SplitToCmd(ToUpper(rules), <<",">>, FALSE)) :
          rule # <<>> /\ MatchPieces(name, SplitToCmd(rule, <<"*">>, FALSE), 1, 1)

MatchStr(name, rules) ==
  /\ rules # <<>>
  /\ \/ rules = <<"*">>
     \/ \E rule \in Range(SplitToCmd(ToUpper(rules), <<",">>, FALSE)) :
          rule # <<>> /\ MatchPieces(ToUpper(name), SplitToCmd(rule, <<"*">>, FALSE), 1, 1)

-----------------------------------------------------------------------------
(* Fields of XML *)

\* The bool of a field: a field with any other text is reported like none.
GetXMLBool(xml, name) ==
  LET got == GetXMLBuffer(xml, name, 10)
      true == got.ok /\ ToUpper(got.value) = TRUETEXT IN [ok |-> true, value |-> true]

XMLNumber(xml, name, kind) ==
  LET got == GetXMLBuffer(xml, name, 50) IN
  [ok |-> got.ok, value |-> IF got.ok THEN ReadAs(kind, got.value) ELSE 0]
=============================================================================
