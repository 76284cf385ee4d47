------------------------------ MODULE TextCalls ------------------------------
(***************************************************************************)
(* Calls of the functions on text, one at a time, each compared with what  *)
(* it is for: a definition that says what the result is, not how it is     *)
(* found.                                                                  *)
(***************************************************************************)
EXTENDS CRecords

CONSTANTS Names,     \* names of files and texts to be replaced in
          Rules,     \* rules of MatchStr
          Sizes,     \* sizes of buffers
          Pairs,     \* pairs of a text and what replaces it
          Fields,    \* contents of fields
          Tags,      \* names of XML fields
          Files,     \* contents of files, with lines
          Marks,     \* ends of records
          Times, Offsets,  \* times and differences of times
          Statements \* statements for Oracle, as sequences of words and markers

VARIABLE call
tvars == <<call>>

NoCall == [fn |-> "none"]
TextInit == call = NoCall

Called(record) == call = NoCall /\ call' = record

CallCopy == \E n \in Sizes, s \in Names, t \in Names :
  Called([fn |-> "copy", size |-> n, src |-> s, more |-> t])
CallUpdateStr == \E s \in Names, p \in Pairs, bloop \in BOOLEAN :
  Called([fn |-> "update", s |-> s, old |-> p[1], new |-> p[2], bloop |-> bloop])
CallMatchStr == \E s \in Names, r \in Rules :
  Called([fn |-> "match", name |-> s, rules |-> r])
CallXML == \E t, u \in Tags, v, w \in Fields, n \in Sizes \cup {0} :
  t # u /\ Called([fn |-> "xml", tags |-> <<t, u>>, values |-> <<v, w>>, ilen |-> n])
CallRead == \E f \in Files, n \in Sizes, e \in Marks \cup {<<>>} :
  n > 1 /\ Called([fn |-> "read", file |-> f, readsize |-> n, endbz |-> e])
CallTime == \E t \in Times, d \in Offsets, f, g \in DOMAIN Shows :
  Called([fn |-> "time", t |-> t, d |-> d, in |-> f, out |-> g])
CallPrepare == \E words \in Statements :
  Called([fn |-> "prepare", words |-> words])
CallNumber == \E n \in Numbers, v \in Fields :
  Called([fn |-> "number", n |-> n, before |-> v])

Return == call # NoCall /\ call' = NoCall

TextNext == CallCopy \/ CallUpdateStr \/ CallMatchStr \/ CallXML \/ CallNumber
            \/ CallRead \/ CallTime \/ CallPrepare \/ Return

-----------------------------------------------------------------------------
(* Properties *)

\* No copy writes behind the buffer or leaves it without an end, and the text
\* in it is as much of what was asked for as fits: for a copy and for what is
\* added to it, also when the first one has filled the buffer.
CopiesFit ==
  call.fn = "copy" =>
    \A n \in 0 .. call.size + 1 :
      CopiesAreCut([i \in 1 .. call.size |-> "x"], call.src, call.more, n)

RECURSIVE Join(_, _)
Join(pieces, sep) ==
  IF Len(pieces) = 1 THEN pieces[1] ELSE pieces[1] \o sep \o Join(Tail(pieces), sep)

\* The texts that replacing one occurrence after another leads to, wherever each
\* of them is, in up to so many rounds.
ReplacedOnce(s, old, new) ==
  {SubSeq(s, 1, i - 1) \o new \o From(s, i + Len(old)) :
     i \in {j \in DOMAIN s : Occurs(s, old, j)}}
RECURSIVE Rewritten(_, _, _, _)
Rewritten(texts, old, new, rounds) ==
  IF rounds = 0 THEN texts
  ELSE Rewritten(texts \cup UNION {ReplacedOnce(t, old, new) : t \in texts},
                 old, new, rounds - 1)

\* UpdateStr without bloop replaces what SplitToCmd splits at; joining the
\* pieces with the old text gives back the text.  With bloop a text comes back
\* as it is if the old text is part of the new one; otherwise the result is a
\* text that replacing leads to and that holds nothing of the old one, and the
\* loop is endless only where replacing leads to no such text.  (The comment
\* takes the first case for the only way of looping for ever: "ab" into "bbaa"
\* is another one.)
UpdateReplaces ==
  call.fn = "update" /\ call.old # <<>> =>
    LET pieces == SplitToCmd(call.s, call.old, FALSE)
        result == UpdateStr(call.s, call.old, call.new, call.bloop)
        ends == {t \in Rewritten({call.s}, call.old, call.new, MaxRounds) :
                   Find(t, call.old, 1) = 0}
    IN /\ Join(pieces, call.old) = call.s
       /\ \A p \in Range(pieces) : Find(p, call.old, 1) = 0
       /\ ~call.bloop => result = Join(pieces, call.new)
       /\ call.bloop =>
            IF Find(call.new, call.old, 1) # 0 THEN result = call.s
            ELSE IF ends = {} THEN result = <<NUL>>
            ELSE result \in ends

\* A rule as it is meant: a star stands for any text.
RECURSIVE Glob(_, _)
Glob(s, rule) ==
  IF rule = <<>> THEN s = <<>>
  ELSE IF rule[1] = "*" THEN \E i \in 1 .. Len(s) + 1 : Glob(From(s, i), Tail(rule))
  ELSE s # <<>> /\ s[1] = rule[1] /\ Glob(Tail(s), Tail(rule))

\* MatchStr matches as rules with stars are read, whatever the case of the
\* letters; a rule without a star also matches a longer name that begins and
\* ends with it.
MatchIsGlob ==
  call.fn = "match" =>
    LET name == ToLower(call.name)
        rules == {ToLower(r) : r \in Range(SplitToCmd(call.rules, <<",">>, FALSE))} \ {<<>>}
    IN MatchStr(call.name, call.rules) <=>
         \E r \in rules : \/ Glob(name, r)
                          \/ ~Contains(r, "*") /\ IsPrefix(r, name) /\ IsSuffix(r, name)

\* What there is to read for a name where fields with these names and values
\* stand: of the first field whose name is the same, what is left of its tag
\* and its value behind as many characters as the name's own tag has.
FieldRead(tags, values, t, ilen) ==
  LET same == {i \in DOMAIN tags : Same(t, tags[i])}
      i == CHOOSE i \in same : \A j \in same : i <= j
      left == From(Tag(tags[i]) \o values[i], Len(Tag(t)) + 1)
  IN IF same = {} THEN [ok |-> FALSE, value |-> <<>>]
     ELSE IF Len(Tag(t)) > Len(Tag(tags[i]) \o values[i]) THEN Undefined
     ELSE [ok |-> TRUE,
           value |-> DeleteLRChar(IF ilen = 0 THEN left ELSE Cut(left, ilen), SP)]

\* What is written as XML, or with separators, is read back, trimmed and cut to
\* the size asked for, field by field, whatever the other field holds, and from
\* a file as well, in pieces of any size; a name that no field has finds none.
\* Names that agree in as much as is looked for are one name: the first of two
\* such fields is read for both, with a wrong start if their lengths differ. A
\* bool field that is not true is reported like one that is not there.  Of the
\* parameters of a database those before the last comma are read.
RecordsRoundTrip ==
  call.fn = "xml" =>
    LET xml == FlattenSeq([i \in 1 .. 2 |->
                 Tag(call.tags[i]) \o call.values[i] \o EndTag(call.tags[i])])
        csv == SplitToCmd(Join(call.values, <<"|">>), <<"|">>, TRUE)
        all == call.values \o call.values \o <<<<"1">>>>
        Want(v) == IF call.ilen = 0 THEN v ELSE Cut(v, call.ilen)
        Read(t, ilen) == FieldRead(call.tags, call.values, t, ilen)
        True(v) == ToUpper(DeleteLRChar(v, SP)) = TRUETEXT
    IN /\ \A n \in 1 .. 5 : setdbopt(Join(SubSeq(all, 1, n), <<",">>)) =
            [strings |-> [j \in 1 .. 4 |-> IF j < n THEN all[j] ELSE <<>>],
             port |-> IF n = 5 THEN 1 ELSE 0]
       /\ \A i \in 1 .. 2 :
         LET v == call.values[i] IN
         /\ Len(call.tags[i]) + 4 <= TagCells
              => Read(call.tags[i], call.ilen) = [ok |-> TRUE, value |-> DeleteLRChar(Want(v), SP)]
         /\ GetValue(csv, i - 1, call.ilen) = [ok |-> TRUE, value |-> Want(DeleteLRChar(v, SP))]
         /\ ~GetValue(csv, i + 1, call.ilen).ok
         /\ FieldBool(csv, i - 1) = [ok |-> TRUE, value |-> True(v)]
       /\ \A t \in Tags :
         LET whole == Read(t, 0) IN
         /\ GetXMLBuffer(xml, t, call.ilen) = Read(t, call.ilen)
         /\ GetXMLBool(xml, t).ok <=> whole.ok /\ True(whole.value)
         /\ \A size \in Sizes \ {1} :
              IniValue(xml, size, t, call.ilen) = Read(t, call.ilen)

\* A number in a field is read back as it was written wherever the type can
\* hold it, but for an unsigned long in its upper half, which atol stops at;
\* PickNumber finds it, or its digits, in any other text.
Holds(kind) ==
  CASE kind = "int" -> -(2^(Width - 1)) .. 2^(Width - 1) - 1
    [] kind = "unsigned int" -> 0 .. 2^Width - 1
    [] kind = "long" -> -(2^(2 * Width - 1)) .. 2^(2 * Width - 1) - 1
    [] kind = "unsigned long" -> 0 .. 2^(2 * Width - 1) - 1
NumbersReadBack ==
  call.fn = "number" =>
    LET written == <<SP, ToString(call.n)>>
        xml == Tag(<<"b">>) \o call.before \o EndTag(<<"b">>)
               \o Tag(<<"a">>) \o written \o EndTag(<<"a">>)
        csv == SplitToCmd(Join(<<call.before, written>>, <<"|">>), <<"|">>, FALSE)
        read == [ok |-> TRUE, value |-> call.n]
        among == call.before \o written \o <<".", "x">>
        digits == ToString(IF call.n < 0 THEN -call.n ELSE call.n)
    IN /\ \A kind \in Kinds : call.n \in Holds(kind) =>
            /\ IniNumber(xml, 4, <<"a">>, kind) = read
            /\ FieldNumber(csv, 1, kind) = read /\ ~FieldNumber(csv, 2, kind).ok
            /\ XMLNumber(xml, <<"a">>, kind) = read /\ ~XMLNumber(xml, <<"a", "b">>, kind).ok
       /\ PickNumber(among, FALSE, FALSE) = <<digits>>
       /\ PickNumber(among, TRUE, TRUE) = <<ToString(call.n), ".">>

\* The lines of a file, each with its end.
RECURSIVE Lines(_)
Lines(file) ==
  LET end == Find(file, <<NL>>, 1) IN
  IF file = <<>> THEN <<>>
  ELSE IF end = 0 THEN <<file>>
  ELSE <<Cut(file, end)>> \o Lines(From(file, end + 1))

\* Records: lines up to one that holds the mark; what has no mark is no record.
RECURSIVE Records(_, _, _)
Records(lines, mark, begun) ==
  IF lines = <<>> THEN <<>>
  ELSE LET record == begun \o lines[1] IN
       IF Find(lines[1], mark, 1) # 0
       THEN <<record>> \o Records(Tail(lines), mark, <<>>)
       ELSE Records(Tail(lines), mark, record)

\* FGETS without a mark loses nothing of a file, however long its lines; with a
\* mark it reads every record that fits, whole and in order, up to the first
\* one that does not: of that one it may return a part, or nothing for ever.
RecordsAreRead ==
  call.fn = "read" =>
    LET got == ReadAll(call.file, 1, call.readsize, call.endbz)
        want == Records(Lines(call.file), call.endbz, <<>>)
    IN IF call.endbz = <<>>
       THEN /\ LoadFile(call.file, call.readsize) = call.file
            /\ \A i \in DOMAIN got : Len(got[i]) < call.readsize
       ELSE \A i \in DOMAIN want :
              (\A j \in 1 .. i : Len(want[j]) < call.readsize)
                => i \in DOMAIN got /\ got[i] = want[i]

\* A time written with all six fields is read back, shifted and written in
\* another format; a text that shows fewer fields is refused, never misread.
\* COPY, which passes the time of a file as text, keeps it.
TimesRoundTrip ==
  call.fn = "time" /\ call.t + call.d >= 0 =>
    /\ AddTime(timetostr(call.t, call.in), call.d, call.out)
         = IF Shows[call.in] = 1 .. 6
           THEN [ok |-> TRUE, text |-> LocalTime(call.t, call.out, call.d)]
           ELSE [ok |-> FALSE, text |-> NoText]
    /\ UTime(FileMTime(call.t, "yyyymmddhh24miss")) = call.t

\* A word of a statement as its author wrote it, and as MySQL is to read it.
Numbered(word) == {n \in 1 .. MAXPARAMS : word = ToString(n)}
Written(word) == IF Numbered(word) = {} THEN <<word>>
                 ELSE Marker(CHOOSE n \in Numbered(word) : TRUE)
Meant(word) ==
  IF Numbered(word) # {} THEN <<"?">>
  ELSE CASE word = "to_date" -> <<"str_", "to_date">>
         [] word = "sysdate" -> <<"sysdate", "()">>
         [] word = "to_char" -> <<"date_format">>
         [] word \in DOMAIN DateFormats -> <<DateFormats[word]>>
         [] OTHER -> <<word>>
Mapped(words, Op(_)) == FlattenSeq([i \in DOMAIN words |-> Op(words[i])])

\* A statement written for Oracle has a question mark for each of its markers,
\* the tenth and later ones among them, and the words of MySQL, however often
\* they occur and whatever else it says.
MarkersBecomeQuestions ==
  call.fn = "prepare" => Prepared(Mapped(call.words, Written)) = Mapped(call.words, Meant)

\* A statement is taken for a query, whose rows next fetches, when it begins
\* with SELECT in any case, in that part of it that is looked at, whatever else
\* it says and whatever is replaced in it.
QueriesAreKnown ==
  call.fn = "prepare" =>
    LET words == Mapped(call.words, Written)
        Behind(n, text) == Prepared([i \in 1 .. n |-> SP] \o text)
    IN \A n \in 0 .. SqlHead + 1 :
         /\ \A select \in {"select", "SELECT"} :
              IsSelect(Behind(n, <<select>> \o words)) <=> n < SqlHead
         /\ ~IsSelect(Behind(n, words))
=============================================================================
