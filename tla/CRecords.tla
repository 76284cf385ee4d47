------------------------------ MODULE CRecords ------------------------------
(***************************************************************************)
(* Functions on text of the library that build on those of CText: reading  *)
(* records (FGETS, CIniFile), times as text (timetostr, strtotime,         *)
(* AddTime, FileMTime, UTime), and what sqlstatement::prepare makes of a   *)
(* statement written for Oracle (src/public/db/_mysql.cpp:320-461).        *)
(*                                                                         *)
(* A text of a time is a function of the fields it shows.  The calendar    *)
(* (localtime, mktime) is external, and without daylight saving time.      *)
(***************************************************************************)
EXTENDS CText

CONSTANTS MAXPARAMS,   \* parameters of a statement
          SqlHead,     \* the characters of a statement that tell its type
          Bases        \* the calendar: months, days, hours, minutes, seconds

NL == "\n"

-----------------------------------------------------------------------------
(* FGETS *)

\* A mutated form: the cell for the end is not counted.
FgetsExact(file, pos, n) ==
  LET rest == Cut(From(file, pos), n)
      end == Find(rest, <<NL>>, 1) IN
  IF end = 0 THEN rest ELSE Cut(rest, end)

\* fgets: to the end of the line, but not more than n - 1 characters.
Fgets(file, pos, n) ==
  LET rest == Cut(From(file, pos), n - 1)
      end == Find(rest, <<NL>>, 1) IN
  IF end = 0 THEN rest ELSE Cut(rest, end)

\* The loop: lines are added until one holds endbz (<<>> for none), or until
\* they no longer fit, when the line just read is dropped.
RECURSIVE FGETS(_, _, _, _, _)
FGETS(file, pos, buffer, readsize, endbz) ==
  LET line == Fgets(file, pos, readsize)
      next == pos + Len(line) IN
  IF line = <<>> \/ Len(buffer) + Len(line) >= readsize
  THEN [ok |-> FALSE, text |-> buffer, pos |-> next]
  ELSE IF endbz = <<>> \/ Find(line, endbz, 1) # 0
  THEN [ok |-> TRUE, text |-> buffer \o line, pos |-> next]
  ELSE FGETS(file, next, buffer \o line, readsize, endbz)

\* What a program reads that calls FGETS until it is false.
RECURSIVE ReadAll(_, _, _, _)
ReadAll(file, pos, readsize, endbz) ==
  LET r == FGETS(file, pos, <<>>, readsize, endbz) IN
  IF r.ok THEN <<r.text>> \o ReadAll(file, r.pos, readsize, endbz) ELSE <<>>

\* CIniFile::LoadFile puts all lines together; less than 10 characters are none.
LoadFile(file, readsize) == FlattenSeq(ReadAll(file, 1, readsize, <<>>))

\* CIniFile::GetValue, of a text and of a number.
IniValue(file, readsize, fieldname, ilen) ==
  GetXMLBuffer(LoadFile(file, readsize), fieldname, ilen)
IniNumber(file, readsize, fieldname, kind) ==
  XMLNumber(LoadFile(file, readsize), fieldname, kind)

-----------------------------------------------------------------------------
(* Times *)

\* The fields, year to second, that each format shows.
Shows ==
  [f \in {"yyyy-mm-dd hh24:mi:ss", "yyyymmddhh24miss"} |-> 1 .. 6] @@
  [f \in {"yyyy-mm-dd hh24:mi", "yyyymmddhh24mi"} |-> 1 .. 5] @@
  [f \in {"yyyy-mm-dd hh24", "yyyymmddhh24"} |-> 1 .. 4] @@
  [f \in {"yyyy-mm-dd", "yyyymmdd"} |-> 1 .. 3] @@
  [f \in {"yyyy-mm"} |-> 1 .. 2] @@ [f \in {"hh24miss"} |-> 4 .. 6] @@
  [f \in {"hh24mi"} |-> 4 .. 5] @@ [f \in {"hh24"} |-> {4}] @@ [f \in {"mi"} |-> {5}]

Default == "yyyy-mm-dd hh24:mi:ss"
NoText == [i \in {} |-> 0]

RECURSIVE Unit(_)
Unit(i) == IF i = 6 THEN 1 ELSE Bases[i] * Unit(i + 1)
Localtime(t) == [i \in 1 .. 6 |-> IF i = 1 THEN t \div Unit(1)
                                  ELSE (t \div Unit(i)) % Bases[i - 1]]
RECURSIVE Mktime(_, _)
Mktime(tm, i) == IF i = 7 THEN 0 ELSE tm[i] * Unit(i) + Mktime(tm, i + 1)

timetostr(t, fmt) ==
  IF fmt \in DOMAIN Shows THEN [i \in Shows[fmt] |-> Localtime(t)[i]] ELSE NoText

\* A mutated form: twelve digits are taken as well.
StrtotimeLenient(text) == IF DOMAIN text \in {1 .. 5, 1 .. 6}
                          THEN Mktime([i \in 1 .. 6 |-> IF i \in DOMAIN text THEN text[i] ELSE 0], 1) ELSE -1

\* PickNumber leaves the digits: there have to be 14, those of all six fields.
strtotime(text) == IF DOMAIN text = 1 .. 6 THEN Mktime(text, 1) ELSE -1

AddTime(text, timetvl, fmt) ==
  IF strtotime(text) = -1 THEN [ok |-> FALSE, text |-> NoText]
  ELSE [ok |-> TRUE, text |-> timetostr(strtotime(text) + timetvl, fmt)]

LocalTime(now, fmt, timetvl) == timetostr(now + timetvl, fmt)

\* FileMTime of one file and UTime of another, as at the end of COPY.
FileMTime(mtime, fmt) == timetostr(mtime, fmt)
UTime(text) == strtotime(text)

-----------------------------------------------------------------------------
(* connection::setdbopt: ip, user, password and database end with a comma, *)
(* the port is the rest; from a comma that is missing on nothing is set.   *)

RECURSIVE Options(_, _)
Options(s, n) ==
  LET i == Find(s, <<",">>, 1) IN
  IF n = 0 THEN <<s>>
  ELSE IF i = 0 THEN <<>>
  ELSE <<SubSeq(s, 1, i - 1)>> \o Options(From(s, i + 1), n - 1)
setdbopt(connstr) ==
  LET set == Options(connstr, 4) IN
  [strings |-> [i \in 1 .. 4 |-> IF i <= Len(set) THEN set[i] ELSE <<>>],
   port |-> IF Len(set) = 5 THEN Atoi(set[5]) ELSE 0]

-----------------------------------------------------------------------------
(* sqlstatement::prepare *)

MY__UpdateStr(s, old, new) == UpdateStr(s, old, new, FALSE)

Digits(n) == IF n < 10 THEN <<ToString(n)>> ELSE <<ToString(n \div 10), ToString(n % 10)>>
Marker(n) == <<":">> \o Digits(n)

\* The markers, the one with the highest number first.
RECURSIVE QuestionMarks(_, _)
QuestionMarks(sql, ii) ==
  IF ii = 0 THEN sql
  ELSE QuestionMarks(MY__UpdateStr(sql, Marker(ii), <<"?">>), ii - 1)

\* The formats of dates that are replaced; all others stay.
DateFormats == [f \in {"yyyy-mm-dd hh24:mi:ss"} |-> "%Y-%m-%d %H:%i:%s"] @@
               [f \in {"yyyymmddhh24miss"} |-> "%Y%m%d%H%i%s"]
Reformatted(sql, f) == MY__UpdateStr(sql, <<f>>, <<DateFormats[f]>>)

\* The words of Oracle; a word, or a format, counts as one character here.
ToMysql(sql) ==
  LET dated == IF Find(sql, <<"str_", "to_date">>, 1) # 0 THEN sql
               ELSE MY__UpdateStr(sql, <<"to_date">>, <<"str_", "to_date">>)
      named == MY__UpdateStr(dated, <<"to_char">>, <<"date_format">>)
      formatted == Reformatted(Reformatted(named, "yyyy-mm-dd hh24:mi:ss"), "yyyymmddhh24miss")
  IN IF Find(formatted, <<"sysdate", "()">>, 1) # 0 THEN formatted
     ELSE MY__UpdateStr(formatted, <<"sysdate">>, <<"sysdate", "()">>)

\* A mutated form: the loop begins at the marker before the last one.
PreparedButOne(sql) == ToMysql(QuestionMarks(sql, MAXPARAMS - 1))

Prepared(sql) == ToMysql(QuestionMarks(sql, MAXPARAMS))

\* A query is told from other statements by SELECT in its first characters, in
\* any case and behind any blanks there.
MY__ToUpper(s) == ToUpper(s)
MY__DeleteLChar(s, c) == DeleteLChar(s, c)
IsSelect(sql) ==
  IsPrefix(<<"SELECT">>, MY__DeleteLChar(MY__ToUpper(Cut(sql, SqlHead)), SP))
=============================================================================
