---------------------------- MODULE LibraryProofs ----------------------------
(***************************************************************************)
(* Six stateful parts of the utility library, each with the invariant that *)
(* its steps keep, and the functions on text that are one copy or one      *)
(* search.  For any set of pids and size of the table, number of messages  *)
(* and connections and length of a body, number and size of documents,     *)
(* length and limit of a log, and number of faults:                        *)
(*                                                                         *)
(* ProcessTable  IInv: one process at a time is between P() and V(), a pid *)
(*   has one record, and a registered process keeps it, as long as no      *)
(*   signal interrupts semop (the second one even then).  The scan and the *)
(*   search happen before the memcpy: the invariant says what a position   *)
(*   that was found is still worth.                                        *)
(* TcpFrames     SocketsInv: what a Read returned, holds, and will find on *)
(*   the wire or in the peer's Write, is one stream of frames.  A step     *)
(*   moves a few pieces across one of these borders.                       *)
(* FileStore     FilesInv: who writes an inode is the only one that knows  *)
(*   it, until rename() gives it its last name; what a reader may have     *)
(*   open is not written any more.                                         *)
(* LogFile       LogInv: backups and log, in the order of their seconds,   *)
(*   hold the accepted lines without those whose log was emptied, as long  *)
(*   as no two rotations fell into one second.                             *)
(* MakePath      MakeInv: of several programs that make a path one is      *)
(*   ahead of the others, who comes to nothing that is already there.      *)
(* FileList      ListInv: what ReadDir returned is what OpenDir collected, *)
(*   up to the position.                                                   *)
(* CStrings      the copies, GetXMLBuffer and trimming, for texts of any   *)
(*   length over any characters.  Where a CHOOSE stands for a loop, what   *)
(*   it finds is unique; that it finds something is the least-number       *)
(*   principle, from the well-foundedness of < on Nat.                     *)
(***************************************************************************)
EXTENDS ProcessTable, TcpFrames, FileStore, LogFile, MakePath, FileList, CStrings,
        SequenceTheorems, WellFoundedInduction, TLAPS

-----------------------------------------------------------------------------
(* CPActive: the process table and its semaphore *)

\* A process that stands before SETVAL, or is between P() and V().
Holds(p) == stage[p] = "setval" \/ Inside(p)

\* A process that writes into the table knows where; only a destructor wipes.
Placed ==
  \A p \in Pids :
    /\ stage[p] \in {"store", "unlock", "member", "wipe"} => pos[p] \in Slots
    /\ wiping[p] # {} => stage[p] = "wipe"

\* From the scan to the memcpy a process knows every record with its pid.
OwnRecords ==
  \A p \in Pids :
    /\ stage[p] \in {"lock", "store"} => OwnSlots(p) \subseteq {pos[p]}
    /\ stage[p] = "search" => OwnSlots(p) = {}

\* The semaphore is 0 as long as somebody holds it, and what the kernel would
\* undo is what the holder took.
Locked ==
  interrupts = 0 =>
    /\ sem \in {-1, 0, 1}
    /\ \A p \in Pids : /\ Holds(p) => sem = 0
                       /\ undo[p] = IF Inside(p) THEN 1 ELSE 0
    /\ \A p, q \in Pids : Holds(p) /\ Holds(q) => p = q

\* A position that a process has settled on is its own or empty: the scan found
\* its pid there, or the search found nobody; the memset of a destructor has
\* its own pid before it until it clears it.
SettledKept ==
  interrupts = 0 => \A p \in Pids :
    /\ stage[p] = "lock" /\ pos[p] # 0 => table[pos[p]]["pid"] = p
    /\ stage[p] = "store" => table[pos[p]]["pid"] \in {p, NoPid}
    /\ stage[p] \in {"unlock", "member"} => /\ table[pos[p]]["pid"] = p
                                            /\ table[pos[p]]["atime"] \in {p, NoPid}
    /\ "pid" \in wiping[p] => table[pos[p]]["pid"] = p

IInv == TableTypeOK /\ Placed /\ OneRecordPerPid /\ OwnRecords /\ Locked /\ SettledKept

-----------------------------------------------------------------------------
(* No step breaks the invariant *)

LEMMA StartInv ==
  ASSUME IInv, NEW p \in Pids, Start(p) PROVE IInv'
<1> USE NoPidAssumption, NumberAssumption DEF Start, Go, Slots, Fields
<1>1. TableTypeOK'
  BY DEF IInv, TableTypeOK, Stages
<1>2. Placed'
  BY DEF IInv, Placed
<1>3. OneRecordPerPid'
  BY DEF IInv, OneRecordPerPid
<1>4. OwnRecords'
  BY DEF IInv, OwnRecords, OwnSlots
<1>5. Locked'
  BY DEF IInv, Locked, Holds, Inside
<1>6. SettledKept'
  BY DEF IInv, SettledKept
<1> QED BY <1>1, <1>2, <1>3, <1>4, <1>5, <1>6 DEF IInv

LEMMA Init1Inv ==
  ASSUME IInv, NEW p \in Pids, Init1(p) PROVE IInv'
<1> USE NoPidAssumption, NumberAssumption DEF Init1, Go, Slots, Fields
<1>1. TableTypeOK'
  BY DEF IInv, TableTypeOK, Stages
<1>2. Placed'
  BY DEF IInv, Placed
<1>3. OneRecordPerPid'
  BY DEF IInv, OneRecordPerPid
<1>4. OwnRecords'
  BY DEF IInv, OwnRecords, OwnSlots
<1>5. Locked'
  BY DEF IInv, Locked, Holds, Inside
<1>6. SettledKept'
  BY DEF IInv, SettledKept
<1> QED BY <1>1, <1>2, <1>3, <1>4, <1>5, <1>6 DEF IInv

LEMMA CreateInv ==
  ASSUME IInv, NEW p \in Pids, Create(p) PROVE IInv'
<1> USE NoPidAssumption, NumberAssumption DEF Create, Go, Slots, Fields
<1>1. TableTypeOK'
  BY DEF IInv, TableTypeOK, Stages
<1>2. Placed'
  BY DEF IInv, Placed
<1>3. OneRecordPerPid'
  BY DEF IInv, OneRecordPerPid
<1>4. OwnRecords'
  BY DEF IInv, OwnRecords, OwnSlots
<1>5. Locked'
  BY DEF IInv, Locked, Holds, Inside
<1>6. SettledKept'
  BY DEF IInv, SettledKept
<1> QED BY <1>1, <1>2, <1>3, <1>4, <1>5, <1>6 DEF IInv

LEMMA SetValInv ==
  ASSUME IInv, NEW p \in Pids, SetVal(p) PROVE IInv'
<1> USE NoPidAssumption, NumberAssumption DEF SetVal, Go, Slots, Fields
<1>1. TableTypeOK'
  BY DEF IInv, TableTypeOK, Stages
<1>2. Placed'
  BY DEF IInv, Placed
<1>3. OneRecordPerPid'
  BY DEF IInv, OneRecordPerPid
<1>4. OwnRecords'
  BY DEF IInv, OwnRecords, OwnSlots
<1>5. Locked'
  BY DEF IInv, Locked, TableTypeOK, Holds, Inside
<1>6. SettledKept'
  BY DEF IInv, SettledKept
<1> QED BY <1>1, <1>2, <1>3, <1>4, <1>5, <1>6 DEF IInv

LEMMA GetInv ==
  ASSUME IInv, NEW p \in Pids, Get(p) PROVE IInv'
<1> USE NoPidAssumption, NumberAssumption DEF Get, Go, Slots, Fields
<1>1. TableTypeOK'
  BY DEF IInv, TableTypeOK, Stages
<1>2. Placed'
  BY DEF IInv, Placed
<1>3. OneRecordPerPid'
  BY DEF IInv, OneRecordPerPid
<1>4. OwnRecords'
  BY DEF IInv, OwnRecords, OwnSlots
<1>5. Locked'
  BY DEF IInv, Locked, Holds, Inside
<1>6. SettledKept'
  BY DEF IInv, SettledKept
<1> QED BY <1>1, <1>2, <1>3, <1>4, <1>5, <1>6 DEF IInv

LEMMA NoMemoryInv ==
  ASSUME IInv, NEW p \in Pids, NoMemory(p) PROVE IInv'
<1> USE NoPidAssumption, NumberAssumption DEF NoMemory, Go, Slots, Fields
<1>1. TableTypeOK'
  BY DEF IInv, TableTypeOK, Stages
<1>2. Placed'
  BY DEF IInv, Placed
<1>3. OneRecordPerPid'
  BY DEF IInv, OneRecordPerPid
<1>4. OwnRecords'
  BY DEF IInv, OwnRecords, OwnSlots
<1>5. Locked'
  BY DEF IInv, Locked, Holds, Inside
<1>6. SettledKept'
  BY DEF IInv, SettledKept
<1> QED BY <1>1, <1>2, <1>3, <1>4, <1>5, <1>6 DEF IInv

LEMMA ScanInv ==
  ASSUME IInv, NEW p \in Pids, Scan(p) PROVE IInv'
<1> USE NoPidAssumption, NumberAssumption DEF Scan, Go, Slots, Fields
<1>1. TableTypeOK'
  BY DEF IInv, TableTypeOK, Stages, OneRecordPerPid, OwnSlots, Placed
<1>2. Placed'
  BY DEF IInv, Placed
<1>3. OneRecordPerPid'
  BY DEF IInv, OneRecordPerPid
<1>4. OwnRecords'
  BY DEF IInv, OwnRecords, TableTypeOK, OneRecordPerPid, OwnSlots, Placed
<1>5. Locked'
  BY DEF IInv, Locked, Holds, Inside
<1>6. SettledKept'
  BY DEF IInv, SettledKept, TableTypeOK, Placed, OneRecordPerPid, OwnSlots, Locked, Holds, Inside
<1> QED BY <1>1, <1>2, <1>3, <1>4, <1>5, <1>6 DEF IInv

LEMMA PInv ==
  ASSUME IInv, NEW p \in Pids, P(p) PROVE IInv'
<1> USE NoPidAssumption, NumberAssumption DEF P, Go, Add, Slots, Fields
<1>1. TableTypeOK'
  BY DEF IInv, TableTypeOK, Stages
<1>2. Placed'
  BY DEF IInv, TableTypeOK, Placed
<1>3. OneRecordPerPid'
  BY DEF IInv, OneRecordPerPid
<1>4. OwnRecords'
  BY DEF IInv, OwnRecords, OwnSlots
<1>5. Locked'
  BY DEF IInv, Locked, TableTypeOK, Holds, Inside
<1>6. SettledKept'
  BY DEF IInv, SettledKept
<1> QED BY <1>1, <1>2, <1>3, <1>4, <1>5, <1>6 DEF IInv

LEMMA InterruptedInv ==
  ASSUME IInv, NEW p \in Pids, Interrupted(p) PROVE IInv'
<1> USE NoPidAssumption, NumberAssumption DEF Interrupted, Go, Slots, Fields
<1>1. TableTypeOK'
  BY DEF IInv, TableTypeOK, Stages
<1>2. Placed'
  BY DEF IInv, TableTypeOK, Placed
<1>3. OneRecordPerPid'
  BY DEF IInv, OneRecordPerPid
<1>4. OwnRecords'
  BY DEF IInv, OwnRecords, OwnSlots
<1>5. Locked'
  BY DEF IInv, Locked, TableTypeOK, Holds, Inside
<1>6. SettledKept'
  BY DEF IInv, TableTypeOK, SettledKept
<1> QED BY <1>1, <1>2, <1>3, <1>4, <1>5, <1>6 DEF IInv

LEMMA SearchInv ==
  ASSUME IInv, NEW p \in Pids, Search(p) PROVE IInv'
<1> USE NoPidAssumption, NumberAssumption DEF Search, Go, Slots, Fields
<1>1. TableTypeOK'
  <2>1. CASE table[at[p]]["pid"] = NoPid
    BY <2>1 DEF IInv, TableTypeOK, Stages, OneRecordPerPid, OwnSlots, Placed
  <2>2. CASE table[at[p]]["pid"] # NoPid /\ at[p] < MAXNUMP
    <3>1. at[p] + 1 \in Slots
      BY <2>2 DEF IInv, TableTypeOK
    <3> QED BY <2>2, <3>1 DEF IInv, TableTypeOK, Stages
  <2>3. CASE table[at[p]]["pid"] # NoPid /\ ~(at[p] < MAXNUMP)
    BY <2>3 DEF IInv, TableTypeOK, Stages, OneRecordPerPid, OwnSlots, Placed
  <2> QED BY <2>1, <2>2, <2>3
<1>2. Placed'
  BY DEF IInv, TableTypeOK, Placed
<1>3. OneRecordPerPid'
  BY DEF IInv, OneRecordPerPid
<1>4. OwnRecords'
  BY DEF IInv, TableTypeOK, OwnRecords, OwnSlots
<1>5. Locked'
  <2>1. PICK s \in {"store", "search", "full"} : stage' = [stage EXCEPT ![p] = s]
    OBVIOUS
  <2>2. stage[p] = "search" /\ stage \in [Pids -> Stages]
    BY DEF IInv, TableTypeOK
  <2>3. \A q \in Pids : (Inside(q)' <=> Inside(q)) /\ (Holds(q)' <=> Holds(q))
    BY <2>1, <2>2 DEF Inside, Holds
  <2> QED BY <2>3 DEF IInv, Locked
<1>6. SettledKept'
  BY DEF IInv, TableTypeOK, Placed, SettledKept
<1> QED BY <1>1, <1>2, <1>3, <1>4, <1>5, <1>6 DEF IInv

LEMMA StoreInv ==
  ASSUME IInv, NEW p \in Pids, Store(p) PROVE IInv'
<1> USE NoPidAssumption, NumberAssumption DEF Store, Go, Slots, Fields
<1>1. TableTypeOK'
  BY DEF IInv, TableTypeOK, Stages
<1>2. Placed'
  BY DEF IInv, Placed
<1>3. OneRecordPerPid'
  BY DEF IInv, TableTypeOK, OneRecordPerPid, OwnRecords, OwnSlots
<1>4. OwnRecords'
  BY DEF IInv, OwnRecords, OwnSlots
<1>5. Locked'
  <2>1. stage[p] = "store" /\ stage' = [stage EXCEPT ![p] = "unlock"] /\ stage \in [Pids -> Stages]
    BY DEF IInv, TableTypeOK
  <2>2. \A q \in Pids : (Inside(q)' <=> Inside(q)) /\ (Holds(q)' <=> Holds(q))
    BY <2>1 DEF Inside, Holds
  <2> QED BY <2>2 DEF IInv, Locked
<1>6. SettledKept'
  BY DEF IInv, SettledKept, TableTypeOK, Placed, OneRecordPerPid, OwnSlots, Locked, Holds, Inside
<1> QED BY <1>1, <1>2, <1>3, <1>4, <1>5, <1>6 DEF IInv

LEMMA VInv ==
  ASSUME IInv, NEW p \in Pids, V(p) PROVE IInv'
<1> USE NoPidAssumption, NumberAssumption DEF V, Go, Add, Slots, Fields
<1> PICK from \in {"unlock", "full"}, to \in {"member", "out"} :
       Go(p, from, to) /\ (from = "unlock" <=> to = "member")
  OBVIOUS
<1>1. TableTypeOK'
  BY DEF IInv, TableTypeOK, Stages
<1>2. Placed'
  BY DEF IInv, Placed
<1>3. OneRecordPerPid'
  BY DEF IInv, OneRecordPerPid
<1>4. OwnRecords'
  BY DEF IInv, OwnRecords, OwnSlots
<1>5. Locked'
  BY DEF IInv, Locked, TableTypeOK, Holds, Inside
<1>6. SettledKept'
  BY DEF IInv, SettledKept
<1> QED BY <1>1, <1>2, <1>3, <1>4, <1>5, <1>6 DEF IInv

LEMMA UptATimeInv ==
  ASSUME IInv, NEW p \in Pids, UptATime(p) PROVE IInv'
<1> USE NoPidAssumption, NumberAssumption DEF UptATime, Go, Slots, Fields
<1>1. TableTypeOK'
  BY DEF IInv, TableTypeOK
<1>2. Placed'
  BY DEF IInv, Placed
<1>3. OneRecordPerPid'
  BY DEF IInv, OneRecordPerPid
<1>4. OwnRecords'
  BY DEF IInv, OwnRecords, OwnSlots
<1>5. Locked'
  BY DEF IInv, Locked, Holds, Inside
<1>6. SettledKept'
  BY DEF IInv, SettledKept
<1> QED BY <1>1, <1>2, <1>3, <1>4, <1>5, <1>6 DEF IInv

LEMMA DestroyInv ==
  ASSUME IInv, NEW p \in Pids, Destroy(p) PROVE IInv'
<1> USE NoPidAssumption, NumberAssumption DEF Destroy, Go, Slots, Fields
<1>1. TableTypeOK'
  BY DEF IInv, TableTypeOK, Stages
<1>2. Placed'
  BY DEF IInv, TableTypeOK, Placed
<1>3. OneRecordPerPid'
  BY DEF IInv, OneRecordPerPid
<1>4. OwnRecords'
  BY DEF IInv, OwnRecords, OwnSlots
<1>5. Locked'
  BY DEF IInv, Locked, Holds, Inside
<1>6. SettledKept'
  BY DEF IInv, SettledKept
<1> QED BY <1>1, <1>2, <1>3, <1>4, <1>5, <1>6 DEF IInv

LEMMA WipeInv ==
  ASSUME IInv, NEW p \in Pids, Wipe(p) PROVE IInv'
<1> USE NoPidAssumption, NumberAssumption DEF Wipe, Go, Slots, Fields
<1>1. TableTypeOK'
  BY DEF IInv, TableTypeOK, Stages, Placed
<1>2. Placed'
  BY DEF IInv, Placed
<1>3. OneRecordPerPid'
  BY DEF IInv, OneRecordPerPid
<1>4. OwnRecords'
  BY DEF IInv, OwnRecords, OwnSlots
<1>5. Locked'
  BY DEF IInv, Locked, Holds, Inside
<1>6. SettledKept'
  BY DEF IInv, TableTypeOK, SettledKept
<1> QED BY <1>1, <1>2, <1>3, <1>4, <1>5, <1>6 DEF IInv

LEMMA ExitInv ==
  ASSUME IInv, NEW p \in Pids, Exit(p) PROVE IInv'
<1> USE NoPidAssumption, NumberAssumption DEF Exit, Go, ProcessEnds, Slots, Fields
<1>1. TableTypeOK'
  BY DEF IInv, TableTypeOK, Stages
<1>2. Placed'
  BY DEF IInv, TableTypeOK, Placed
<1>3. OneRecordPerPid'
  BY DEF IInv, OneRecordPerPid
<1>4. OwnRecords'
  BY DEF IInv, OwnRecords, OwnSlots
<1>5. Locked'
  BY DEF IInv, Locked, Holds, Inside
<1>6. SettledKept'
  BY DEF IInv, TableTypeOK, SettledKept
<1> QED BY <1>1, <1>2, <1>3, <1>4, <1>5, <1>6 DEF IInv

LEMMA CrashInv ==
  ASSUME IInv, NEW p \in Pids, Crash(p) PROVE IInv'
<1> USE NoPidAssumption, NumberAssumption DEF Crash, Go, ProcessEnds, Slots, Fields
<1>1. TableTypeOK'
  BY DEF IInv, TableTypeOK, Stages
<1>2. Placed'
  BY DEF IInv, TableTypeOK, Placed
<1>3. OneRecordPerPid'
  BY DEF IInv, OneRecordPerPid
<1>4. OwnRecords'
  BY DEF IInv, TableTypeOK, OwnRecords, OwnSlots
<1>5. Locked'
  BY DEF IInv, Locked, TableTypeOK, Holds, Inside
<1>6. SettledKept'
  BY DEF IInv, TableTypeOK, SettledKept
<1> QED BY <1>1, <1>2, <1>3, <1>4, <1>5, <1>6 DEF IInv

LEMMA InitInv == TableInit => IInv
<1> SUFFICES ASSUME TableInit PROVE IInv
  OBVIOUS
<1> USE NoPidAssumption, NumberAssumption DEF TableInit, Slots, Fields, Empty
<1>1. TableTypeOK
  BY DEF TableTypeOK, Stages
<1>2. Placed /\ OneRecordPerPid /\ OwnRecords
  BY DEF Placed, OneRecordPerPid, OwnRecords
<1>3. Locked /\ SettledKept
  BY DEF Locked, SettledKept, Holds, Inside
<1> QED BY <1>1, <1>2, <1>3 DEF IInv

LEMMA NextInv == IInv /\ [TableNext]_pvars => IInv'
<1> SUFFICES ASSUME IInv, [TableNext]_pvars PROVE IInv'
  OBVIOUS
<1>1. CASE TableNext
  <2> PICK p \in Pids :
        \/ Own(p) \/ Start(p) \/ Init1(p) \/ NoMemory(p) \/ Interrupted(p)
        \/ UptATime(p) \/ Destroy(p) \/ Crash(p)
    BY <1>1 DEF TableNext
  <2> QED
    BY StartInv, Init1Inv, CreateInv, SetValInv, GetInv, NoMemoryInv, ScanInv, PInv,
       InterruptedInv, SearchInv, StoreInv, VInv, UptATimeInv, DestroyInv, WipeInv,
       ExitInv, CrashInv DEF Own
<1>2. CASE UNCHANGED pvars
  BY <1>2 DEF pvars, IInv, TableTypeOK, Placed, OneRecordPerPid, OwnRecords, OwnSlots,
     Locked, SettledKept, Holds, Inside
<1> QED BY <1>1, <1>2

-----------------------------------------------------------------------------

\* Every reachable state satisfies the inductive invariant.
THEOREM TableInvariance == TableSpec => []IInv
  BY InitInv, NextInv, PTL DEF TableSpec

\* Every variable of the table keeps to its type.
THEOREM TableTypeCorrect == TableSpec => []TableTypeOK
<1>1. IInv => TableTypeOK
  BY DEF IInv
<1> QED BY <1>1, TableInvariance, PTL

\* The semaphore of CSEM excludes, whoever creates it and whoever dies holding
\* it, while no signal interrupts semop.
THEOREM LockExcludes == TableSpec => []OneInside
<1>1. IInv => OneInside
  BY DEF IInv, Locked, Holds, OneInside
<1> QED BY <1>1, TableInvariance, PTL

\* No pid ever has two records, although AddPInfo looks for an earlier one
\* before it takes the lock.
THEOREM PidHasOneRecord == TableSpec => []OneRecordPerPid
<1>1. IInv => OneRecordPerPid
  BY DEF IInv
<1> QED BY <1>1, TableInvariance, PTL

\* No Store, no heartbeat and no memset of another process ever takes the
\* record of a registered process, while no signal interrupts semop.
THEOREM RecordIsKept == TableSpec => []MemberKeepsRecord
<1>1. IInv => MemberKeepsRecord
  BY DEF IInv, SettledKept, MemberKeepsRecord, Fields
<1> QED BY <1>1, TableInvariance, PTL

-----------------------------------------------------------------------------
(* TcpFrames: streams of frames *)

Sendable == 1 .. Len(Lengths)
Pieces == Sendable \X Nat

\* The pieces of a frame: its header and its body.
FrameLen(m) == Lengths[m] + HeaderPieces

\* s is the stream of the messages w after the first n of them and g pieces of
\* the next: it begins there, its pieces are of these messages, each is
\* followed by the next one of its frame, and the last one by the next frame.
Begins(s, w, n, g) == s # <<>> => n < Len(w) /\ s[1] = <<w[n + 1], g + 1>>

Known(s, w) ==
  \A j \in 1 .. Len(s) : /\ \E q \in 1 .. Len(w) : s[j][1] = w[q]
                         /\ s[j][2] \in 1 .. FrameLen(s[j][1])

Unbroken(s) ==
  \A j \in 1 .. Len(s) : \A d \in 0 .. Len(s) - j :
    s[j][2] + d <= FrameLen(s[j][1]) => s[j + d] = <<s[j][1], s[j][2] + d>>

Joined(s, w) ==
  \A j \in 1 .. Len(s) - 1 : \A q \in 1 .. Len(w) :
    s[j] = <<w[q], FrameLen(w[q])>> => q < Len(w) /\ s[j + 1] = <<w[q + 1], 1>>

Line(s, w, n, g) == Begins(s, w, n, g) /\ Known(s, w) /\ Unbroken(s) /\ Joined(s, w)

\* ... up to the end of the last message.
ToTheEnd(s, w, n, g) ==
  IF s = <<>> THEN n = Len(w) /\ g = 0
              ELSE s[Len(s)] = <<w[Len(w)], FrameLen(w[Len(w)])>>

Rising(w) == \A i, j \in 1 .. Len(w) : i < j => w[i] < w[j]

LEMMA FrameShape ==
  ASSUME NEW m \in Sendable
  PROVE  /\ FrameLen(m) \in Nat /\ FrameLen(m) >= 2
         /\ Frame(m) \in Seq(Pieces) /\ Len(Frame(m)) = FrameLen(m)
         /\ \A i \in 1 .. FrameLen(m) : Frame(m)[i] = <<m, i>>
<1>1. Lengths[m] \in Nat /\ m \in Nat
  BY SocketsAssumption DEF Sendable
<1>2. Frame(m) = [i \in 1 .. FrameLen(m) |-> <<m, i>>]
  BY DEF Frame, FrameLen, HeaderPieces
<1>3. FrameLen(m) \in Nat /\ FrameLen(m) >= 2
  BY <1>1 DEF FrameLen, HeaderPieces
<1>4. PICK L, f : L = FrameLen(m) /\ f = Frame(m)
  OBVIOUS
<1>5. f \in [1 .. L -> Pieces] /\ L \in Nat
  BY <1>1, <1>2, <1>3, <1>4 DEF Pieces
<1>6. f \in Seq(Pieces) /\ Len(f) = L
  BY <1>5
<1>7. \A i \in 1 .. L : f[i] = <<m, i>>
  BY <1>2, <1>4
<1> QED BY <1>3, <1>4, <1>6, <1>7

LEMMA RisingOnce ==
  ASSUME NEW w \in Seq(Sendable), Rising(w),
         NEW i \in 1 .. Len(w), NEW j \in 1 .. Len(w), w[i] = w[j]
  PROVE  i = j
<1>1. w[i] \in Nat /\ w[j] \in Nat
  BY DEF Sendable
<1>2. ~(i < j) /\ ~(j < i)
  BY <1>1 DEF Rising
<1> QED BY <1>2

LEMMA Parts ==
  ASSUME NEW s \in Seq(Pieces), NEW t \in Seq(Pieces)
  PROVE  /\ s \o t \in Seq(Pieces) /\ Len(s \o t) = Len(s) + Len(t)
         /\ \A i \in 1 .. Len(s) : (s \o t)[i] = s[i]
         /\ \A i \in 1 .. Len(t) : (s \o t)[Len(s) + i] = t[i]
OBVIOUS

\* A part of the stream from its beginning is one as well.
LEMMA LineFront ==
  ASSUME NEW s \in Seq(Pieces), NEW t \in Seq(Pieces), NEW w, NEW n, NEW g,
         Line(s \o t, w, n, g)
  PROVE  Line(s, w, n, g)
<1> DEFINE u == s \o t
<1>1. /\ Len(u) = Len(s) + Len(t) /\ Len(s) \in Nat /\ Len(t) \in Nat
      /\ \A i \in 1 .. Len(s) : u[i] = s[i]
  OBVIOUS
<1>2. /\ Begins(u, w, n, g) /\ Known(u, w) /\ Unbroken(u) /\ Joined(u, w)
  BY DEF Line
<1> HIDE DEF u
<1>3. Begins(s, w, n, g)
  <2> SUFFICES ASSUME s # <<>> PROVE n < Len(w) /\ s[1] = <<w[n + 1], g + 1>>
    BY DEF Begins
  <2>1. 1 \in 1 .. Len(s) /\ u # <<>>
    BY <1>1
  <2> QED BY <1>1, <1>2, <2>1 DEF Begins
<1>4. Known(s, w)
  <2>1. ASSUME NEW j \in 1 .. Len(s)
        PROVE  (\E q \in 1 .. Len(w) : s[j][1] = w[q]) /\ s[j][2] \in 1 .. FrameLen(s[j][1])
    <3>1. j \in 1 .. Len(u) /\ u[j] = s[j]
      BY <1>1
    <3> QED BY <1>2, <3>1 DEF Known
  <2> QED BY <2>1 DEF Known
<1>5. Unbroken(s)
  <2> SUFFICES ASSUME NEW j \in 1 .. Len(s), NEW d \in 0 .. Len(s) - j,
                      s[j][2] + d <= FrameLen(s[j][1])
               PROVE  s[j + d] = <<s[j][1], s[j][2] + d>>
    BY DEF Unbroken
  <2>1. /\ j \in 1 .. Len(u) /\ d \in 0 .. Len(u) - j /\ u[j] = s[j]
        /\ j + d \in 1 .. Len(s) /\ u[j + d] = s[j + d]
    BY <1>1
  <2> QED BY <1>2, <2>1 DEF Unbroken
<1>6. Joined(s, w)
  <2> SUFFICES ASSUME NEW j \in 1 .. Len(s) - 1, NEW q \in 1 .. Len(w),
                      s[j] = <<w[q], FrameLen(w[q])>>
               PROVE  q < Len(w) /\ s[j + 1] = <<w[q + 1], 1>>
    BY DEF Joined
  <2>1. /\ j \in 1 .. Len(u) - 1 /\ u[j] = s[j] /\ u[j + 1] = s[j + 1]
    BY <1>1
  <2> QED BY <1>2, <2>1 DEF Joined
<1> QED BY <1>3, <1>4, <1>5, <1>6 DEF Line

\* A frame that is written next goes to the end of the stream.
LEMMA LineWritten ==
  ASSUME NEW s \in Seq(Pieces), NEW w \in Seq(Sendable), NEW n \in Nat, NEW g \in Nat,
         Line(s, w, n, g), ToTheEnd(s, w, n, g), Rising(w), NEW m \in Sendable,
         \A i \in 1 .. Len(w) : w[i] < m
  PROVE  /\ Append(w, m) \in Seq(Sendable) /\ Rising(Append(w, m))
         /\ Line(s \o Frame(m), Append(w, m), n, g)
         /\ ToTheEnd(s \o Frame(m), Append(w, m), n, g)
<1>0. PICK f, v, u, L, k, l : f = Frame(m) /\ v = Append(w, m) /\ u = s \o f /\ L = FrameLen(m)
                              /\ k = Len(s) /\ l = Len(w)
  OBVIOUS
<1>1. /\ f \in Seq(Pieces) /\ Len(f) = L /\ L \in Nat /\ L >= 2 /\ k \in Nat /\ l \in Nat
      /\ \A i \in 1 .. L : f[i] = <<m, i>>
  BY <1>0, FrameShape
<1>2. /\ u \in Seq(Pieces) /\ Len(u) = k + L
      /\ \A i \in 1 .. k : u[i] = s[i]
      /\ \A i \in 1 .. L : u[k + i] = <<m, i>>
  <2>1. /\ u \in Seq(Pieces) /\ Len(u) = Len(s) + Len(f)
        /\ \A i \in 1 .. Len(s) : u[i] = s[i]
        /\ \A i \in 1 .. Len(f) : u[Len(s) + i] = f[i]
    BY <1>0, <1>1, Parts
  <2> QED BY <1>0, <1>1, <2>1
<1>3. /\ Len(v) = l + 1 /\ v[l + 1] = m /\ \A i \in 1 .. l : v[i] = w[i]
  BY <1>0
<1>4. /\ Begins(s, w, n, g) /\ Known(s, w) /\ Unbroken(s) /\ Joined(s, w)
  BY DEF Line
<1>5. \A j \in 1 .. k : s[j] \in Pieces
  BY <1>0
<1>6. s # <<>> => k \in 1 .. k /\ s[k] = <<w[l], FrameLen(w[l])>> /\ l \in 1 .. l
  <2> SUFFICES ASSUME s # <<>> PROVE k \in 1 .. k /\ s[k] = <<w[l], FrameLen(w[l])>> /\ l \in 1 .. l
    OBVIOUS
  <2>1. k \in 1 .. k /\ s[k] = <<w[l], FrameLen(w[l])>>
    BY <1>0, <1>1 DEF ToTheEnd
  <2>2. n < l
    BY <1>0, <1>4 DEF Begins
  <2> QED BY <1>1, <2>1, <2>2
<1>7. \A j \in 1 .. k + L : j \in 1 .. k \/ \E i \in 1 .. L : j = k + i
  <2> TAKE j \in 1 .. k + L
  <2>1. j \in 1 .. k \/ (j - k \in 1 .. L /\ j = k + (j - k))
    BY <1>1
  <2> QED BY <2>1
<1>8. Begins(u, v, n, g)
  <2>1. CASE s = <<>>
    <3>1. n = l /\ g = 0 /\ k = 0
      BY <1>0, <2>1 DEF ToTheEnd
    <3>2. u[1] = <<m, 1>>
      <4>1. 1 \in 1 .. L /\ k + 1 = 1
        BY <1>1, <3>1
      <4>2. u[k + 1] = <<m, 1>>
        BY <1>2, <4>1
      <4> QED BY <4>1, <4>2
    <3> QED BY <1>1, <1>3, <3>1, <3>2 DEF Begins
  <2>2. CASE s # <<>>
    <3>1. n < l /\ s[1] = <<w[n + 1], g + 1>>
      BY <1>0, <1>4, <2>2 DEF Begins
    <3>2. u[1] = s[1] /\ v[n + 1] = w[n + 1]
      <4>1. 1 \in 1 .. k /\ n + 1 \in 1 .. l
        BY <1>1, <1>6, <2>2, <3>1
      <4> QED BY <1>2, <1>3, <4>1
    <3> QED BY <1>1, <1>3, <3>1, <3>2 DEF Begins
  <2> QED BY <2>1, <2>2
<1>9. Known(u, v)
  <2> SUFFICES ASSUME NEW j \in 1 .. k + L
               PROVE  (\E q \in 1 .. l + 1 : u[j][1] = v[q]) /\ u[j][2] \in 1 .. FrameLen(u[j][1])
    BY <1>2, <1>3 DEF Known
  <2>1. CASE j \in 1 .. k
    <3>1. PICK q \in 1 .. l : s[j][1] = w[q]
      BY <1>0, <1>4, <2>1 DEF Known
    <3>2. u[j] = s[j] /\ v[q] = w[q] /\ q \in 1 .. l + 1
      BY <1>1, <1>2, <1>3, <2>1
    <3>3. s[j][2] \in 1 .. FrameLen(s[j][1])
      BY <1>0, <1>4, <2>1 DEF Known
    <3> QED BY <3>1, <3>2, <3>3
  <2>2. CASE \E i \in 1 .. L : j = k + i
    <3>1. PICK i \in 1 .. L : j = k + i
      BY <2>2
    <3>2. u[j] = <<m, i>> /\ l + 1 \in 1 .. l + 1 /\ FrameLen(m) = L
      BY <1>0, <1>1, <1>2, <3>1
    <3> QED BY <1>3, <3>2
  <2> QED BY <1>7, <2>1, <2>2
<1>10. Unbroken(u)
  <2> SUFFICES ASSUME NEW j \in 1 .. k + L, NEW d \in 0 .. (k + L) - j,
                      u[j][2] + d <= FrameLen(u[j][1])
               PROVE  u[j + d] = <<u[j][1], u[j][2] + d>>
    BY <1>2 DEF Unbroken
  <2>1. CASE \E i \in 1 .. L : j = k + i
    <3>1. PICK i \in 1 .. L : j = k + i
      BY <2>1
    <3>2. u[j] = <<m, i>> /\ i + d \in 1 .. L
      <4>1. u[j] = <<m, i>> /\ i \in Nat /\ d \in Nat
        BY <1>1, <1>2, <3>1
      <4>2. i + d <= L
        BY <1>0, <4>1
      <4> QED BY <1>1, <4>1, <4>2, <3>1
    <3>3. u[k + (i + d)] = <<m, i + d>> /\ j + d = k + (i + d)
      BY <1>1, <1>2, <3>1, <3>2
    <3> QED BY <3>2, <3>3
  <2>2. CASE j \in 1 .. k
    <3>1. u[j] = s[j] /\ s[j] \in Pieces
      BY <1>2, <1>5, <2>2
    <3>2. CASE j + d <= k
      <4>1. d \in 0 .. k - j /\ j + d \in 1 .. k
        BY <1>1, <2>2, <3>2
      <4>2. s[j + d] = <<s[j][1], s[j][2] + d>>
        BY <1>0, <1>4, <2>2, <3>1, <4>1 DEF Unbroken
      <4> QED BY <1>2, <3>1, <4>1, <4>2
    <3>3. CASE j + d > k
      \* The frame of s[j] ends within s, since s ends with a frame.
      <4>0. PICK a, b, e : a = s[j][1] /\ b = s[j][2] /\ e = k - j
        OBVIOUS
      <4>a. a \in Nat /\ b \in Nat /\ s[j] = <<a, b>>
        BY <3>1, <4>0 DEF Pieces, Sendable
      <4>b. k \in Nat /\ j \in 1 .. k /\ d \in Nat /\ j + d > k
        BY <1>1, <2>2, <3>3
      <4>1. e \in 0 .. k - j /\ e \in Nat /\ e < d /\ j + e = k
        BY <4>0, <4>b
      <4>2. b + d <= FrameLen(a)
        BY <3>1, <4>a
      <4>3. PICK q \in 1 .. l : a = w[q]
        BY <1>0, <1>4, <2>2, <4>0 DEF Known
      <4>4. FrameLen(a) \in Nat
        <5>1. w[q] \in Sendable
          BY <1>0
        <5> QED BY <4>3, <5>1, FrameShape
      <4>5. b + e < FrameLen(a)
        BY <4>1, <4>2, <4>4, <4>a, <4>b
      <4>6. s[j + e] = <<a, b + e>>
        <5>1. b + e <= FrameLen(a)
          BY <4>1, <4>4, <4>5, <4>a
        <5>2. s[j][1] = a /\ s[j][2] = b /\ j \in 1 .. Len(s) /\ e \in 0 .. Len(s) - j
          BY <1>0, <2>2, <4>0, <4>1
        <5>3. s[j][2] + e <= FrameLen(s[j][1])
          BY <5>1, <5>2
        <5>4. s[j + e] = <<s[j][1], s[j][2] + e>>
          BY <1>4, <5>2, <5>3 DEF Unbroken
        <5> QED BY <5>2, <5>4
      <4>7. s # <<>>
        BY <1>0, <1>1, <2>2
      <4>8. <<a, b + e>> = <<w[l], FrameLen(w[l])>>
        BY <1>6, <4>1, <4>6, <4>7
      <4>9. a = w[l] /\ b + e = FrameLen(w[l])
        BY <4>8
      <4> QED BY <4>1, <4>4, <4>5, <4>9
    <3> QED BY <1>1, <2>2, <3>2, <3>3
  <2> QED BY <1>7, <2>1, <2>2
<1>11. Joined(u, v)
  <2> SUFFICES ASSUME NEW j \in 1 .. (k + L) - 1, NEW q \in 1 .. l + 1,
                      u[j] = <<v[q], FrameLen(v[q])>>
               PROVE  q < l + 1 /\ u[j + 1] = <<v[q + 1], 1>>
    BY <1>2, <1>3 DEF Joined
  <2>1. \A i \in 1 .. l : w[i] \in Nat /\ w[i] # m /\ FrameLen(w[i]) \in Nat
    <3> TAKE i \in 1 .. l
    <3>1. w[i] \in Sendable /\ w[i] < m
      BY <1>0
    <3>2. w[i] \in Nat /\ m \in Nat
      BY <3>1 DEF Sendable
    <3> QED BY <3>1, <3>2, FrameShape
  <2>2. CASE \E i \in 1 .. L : j = k + i
    <3>1. PICK i \in 1 .. L : j = k + i
      BY <2>2
    <3>2. <<m, i>> = <<v[q], FrameLen(v[q])>> /\ i < L
      <4>1. u[k + i] = <<m, i>>
        BY <1>2
      <4>2. k \in Nat /\ L \in Nat
        BY <1>1
      <4>a. j \in Nat /\ j <= (k + L) - 1
        BY <4>2
      <4>3. i < L
        BY <3>1, <4>2, <4>a
      <4> QED BY <3>1, <4>1, <4>3
    <3>3. m = v[q] /\ i = FrameLen(m)
      BY <3>2
    <3>4. L = FrameLen(m) /\ L \in Nat
      BY <1>0, <1>1
    <3> QED BY <3>2, <3>3, <3>4
  <2>3. CASE j \in 1 .. k
    <3>1. s[j] = <<v[q], FrameLen(v[q])>>
      BY <1>2, <2>3
    <3>2. PICK p \in 1 .. l : s[j][1] = w[p]
      BY <1>0, <1>4, <2>3 DEF Known
    <3>3. v[q] # m
      BY <2>1, <3>1, <3>2
    <3>4. q \in 1 .. l /\ v[q] = w[q]
      <4>1. l \in Nat /\ q \in 1 .. l + 1 /\ q # l + 1
        BY <1>1, <1>3, <3>3
      <4>2. q \in 1 .. l
        BY <4>1
      <4> QED BY <1>3, <4>2
    <3>5. s[j] = <<w[q], FrameLen(w[q])>>
      BY <3>1, <3>4
    <3>6. CASE j < k
      <4>1. q < l /\ s[j + 1] = <<w[q + 1], 1>>
        <5>1. j \in 1 .. k - 1
          BY <1>1, <2>3, <3>6
        <5> QED BY <1>0, <1>4, <3>4, <3>5, <5>1 DEF Joined
      <4>2. u[j + 1] = s[j + 1] /\ v[q + 1] = w[q + 1]
        BY <1>1, <1>2, <1>3, <2>3, <3>4, <3>6, <4>1
      <4> QED BY <1>1, <3>4, <4>1, <4>2
    <3>7. CASE j = k
      <4>1. s # <<>>
        BY <1>0, <1>1, <2>3
      <4>2. <<w[q], FrameLen(w[q])>> = <<w[l], FrameLen(w[l])>>
        BY <1>6, <3>5, <3>7, <4>1
      <4>3. w[q] = w[l]
        BY <4>2
      <4>4. q = l
        BY <1>0, <1>6, <3>4, <4>1, <4>3, RisingOnce
      <4>5. u[k + 1] = <<m, 1>> /\ l + 1 = q + 1
        <5>1. 1 \in 1 .. L
          BY <1>1
        <5> QED BY <1>2, <4>4, <5>1
      <4> QED BY <1>1, <1>3, <3>4, <3>7, <4>4, <4>5
    <3> QED BY <1>1, <2>3, <3>6, <3>7
  <2> QED BY <1>1, <1>7, <2>2, <2>3
<1>12. ToTheEnd(u, v, n, g)
  <2>1. u # <<>> /\ u[k + L] = <<m, L>> /\ Len(u) = k + L
    BY <1>1, <1>2
  <2>2. v[Len(v)] = m /\ FrameLen(m) = L
    BY <1>0, <1>3
  <2> QED BY <2>1, <2>2 DEF ToTheEnd
<1>13. v \in Seq(Sendable) /\ Rising(v)
  <2>1. v \in Seq(Sendable)
    BY <1>0
  <2>2. ASSUME NEW i \in 1 .. l + 1, NEW j \in 1 .. l + 1, i < j
        PROVE  v[i] < v[j]
    <3>1. CASE j = l + 1
      BY <1>0, <1>1, <1>3, <2>2, <3>1
    <3>2. CASE j # l + 1
      <4>1. i \in 1 .. l /\ j \in 1 .. l
        BY <1>1, <2>2, <3>2
      <4> QED BY <1>0, <1>3, <2>2, <4>1 DEF Rising
    <3> QED BY <3>1, <3>2
  <2> QED BY <1>3, <2>1, <2>2 DEF Rising
<1> QED BY <1>0, <1>8, <1>9, <1>10, <1>11, <1>12, <1>13 DEF Line

\* Pieces of one frame that are read are those that the message is made of; the
\* rest of the stream goes on behind them.
LEMMA LineRead ==
  ASSUME NEW s \in Seq(Pieces), NEW w \in Seq(Sendable), NEW n \in Nat, NEW g \in Nat,
         Line(s, w, n, g), Rising(w), NEW k \in 1 .. Len(s), g + k <= FrameLen(w[n + 1])
  PROVE  LET r == SubSeq(s, k + 1, Len(s))
             complete == g + k = FrameLen(w[n + 1])
             n1 == IF complete THEN n + 1 ELSE n
             g1 == IF complete THEN 0 ELSE g + k
         IN /\ n + 1 \in 1 .. Len(w)
            /\ \A i \in 1 .. k : s[i] = <<w[n + 1], g + i>>
            /\ Line(r, w, n1, g1)
            /\ ToTheEnd(s, w, n, g) => ToTheEnd(r, w, n1, g1)
<1>0. PICK r, z, l, m, n1, g1 :
        /\ r = SubSeq(s, k + 1, Len(s)) /\ z = Len(s) /\ l = Len(w) /\ m = w[n + 1]
        /\ n1 = (IF g + k = FrameLen(w[n + 1]) THEN n + 1 ELSE n)
        /\ g1 = (IF g + k = FrameLen(w[n + 1]) THEN 0 ELSE g + k)
  OBVIOUS
<1>1. /\ Begins(s, w, n, g) /\ Known(s, w) /\ Unbroken(s) /\ Joined(s, w)
  BY DEF Line
<1>2. z \in Nat /\ l \in Nat /\ k \in 1 .. z
  BY <1>0
<1>3. /\ Len(r) = z - k /\ z - k \in Nat
      /\ \A i \in 1 .. z - k : r[i] = s[k + i]
  BY <1>0
<1>4. n + 1 \in 1 .. l /\ s[1] = <<m, g + 1>>
  <2>1. s # <<>>
    BY <1>0, <1>2
  <2> QED BY <1>0, <1>1, <1>2, <2>1 DEF Begins
<1>5. m \in Sendable /\ FrameLen(m) \in Nat /\ g + k <= FrameLen(m)
  BY <1>0, <1>4, FrameShape
<1>6. \A i \in 1 .. k : s[i] = <<m, g + i>>
  <2> TAKE i \in 1 .. k
  <2>1. /\ 1 \in 1 .. z /\ i - 1 \in 0 .. z - 1 /\ 1 + (i - 1) = i
        /\ (g + 1) + (i - 1) <= FrameLen(m) /\ (g + 1) + (i - 1) = g + i
    BY <1>2, <1>5
  <2>2. s[1][1] = m /\ s[1][2] = g + 1
    BY <1>4
  <2>3. s[1 + (i - 1)] = <<s[1][1], s[1][2] + (i - 1)>>
    BY <1>0, <1>1, <2>1, <2>2 DEF Unbroken
  <2> QED BY <2>1, <2>2, <2>3
<1>7. Begins(r, w, n1, g1)
  <2> SUFFICES ASSUME r # <<>> PROVE n1 < l /\ r[1] = <<w[n1 + 1], g1 + 1>>
    BY <1>0 DEF Begins
  <2>1. k < z
    BY <1>0, <1>2
  <2>2. r[1] = s[k + 1] /\ s[k] = <<m, g + k>>
    BY <1>2, <1>3, <1>6, <2>1
  <2>3. CASE g + k = FrameLen(m)
    <3>1. s[k] = <<w[n + 1], FrameLen(w[n + 1])>> /\ k \in 1 .. z - 1
      BY <1>0, <1>2, <2>1, <2>2, <2>3
    <3>2. n + 1 < l /\ s[k + 1] = <<w[(n + 1) + 1], 1>>
      BY <1>0, <1>1, <1>4, <3>1 DEF Joined
    <3>3. n1 = n + 1 /\ g1 + 1 = 1
      BY <1>0, <2>3
    <3> QED BY <2>2, <3>2, <3>3
  <2>4. CASE g + k # FrameLen(m)
    <3>1. (g + k) + 1 <= FrameLen(m)
      BY <1>5, <2>4
    <3>2. s[k][1] = m /\ s[k][2] = g + k /\ 1 \in 0 .. z - k
      BY <1>2, <2>1, <2>2
    <3>3. s[k + 1] = <<m, (g + k) + 1>>
      BY <1>0, <1>1, <3>1, <3>2 DEF Unbroken
    <3>4. n1 = n /\ g1 = g + k
      BY <1>0, <2>4
    <3> QED BY <1>0, <1>4, <2>2, <3>3, <3>4
  <2> QED BY <2>3, <2>4
<1>8. Known(r, w)
  <2>1. ASSUME NEW j \in 1 .. z - k
        PROVE  (\E q \in 1 .. Len(w) : r[j][1] = w[q]) /\ r[j][2] \in 1 .. FrameLen(r[j][1])
    <3>1. k + j \in 1 .. z /\ r[j] = s[k + j]
      BY <1>2, <1>3
    <3> QED BY <1>0, <1>1, <3>1 DEF Known
  <2> QED BY <1>3, <2>1 DEF Known
<1>9. Unbroken(r)
  <2> SUFFICES ASSUME NEW j \in 1 .. z - k, NEW d \in 0 .. (z - k) - j,
                      r[j][2] + d <= FrameLen(r[j][1])
               PROVE  r[j + d] = <<r[j][1], r[j][2] + d>>
    BY <1>3 DEF Unbroken
  <2>0. k \in Nat /\ z \in Nat
    BY <1>2
  <2>1. /\ k + j \in 1 .. z /\ d \in 0 .. z - (k + j)
        /\ j + d \in 1 .. z - k /\ k + (j + d) = (k + j) + d
    BY <2>0
  <2>2. r[j] = s[k + j] /\ r[j + d] = s[k + (j + d)]
    BY <1>3, <2>1
  <2>3. s[k + j][2] + d <= FrameLen(s[k + j][1])
    BY <2>2
  <2>4. s[(k + j) + d] = <<s[k + j][1], s[k + j][2] + d>>
    BY <1>0, <1>1, <2>1, <2>3 DEF Unbroken
  <2> QED BY <2>1, <2>2, <2>4
<1>10. Joined(r, w)
  <2> SUFFICES ASSUME NEW j \in 1 .. (z - k) - 1, NEW q \in 1 .. Len(w),
                      r[j] = <<w[q], FrameLen(w[q])>>
               PROVE  q < Len(w) /\ r[j + 1] = <<w[q + 1], 1>>
    BY <1>3 DEF Joined
  <2>0. k \in Nat /\ z \in Nat
    BY <1>2
  <2>a. j \in Nat /\ 1 <= j /\ j <= (z - k) - 1
    BY <2>0
  <2>1. /\ k + j \in 1 .. z - 1 /\ j \in 1 .. z - k /\ j + 1 \in 1 .. z - k
        /\ k + (j + 1) = (k + j) + 1
    BY <2>0, <2>a
  <2>2. r[j] = s[k + j] /\ r[j + 1] = s[k + (j + 1)]
    BY <1>3, <2>1
  <2>3. q < Len(w) /\ s[(k + j) + 1] = <<w[q + 1], 1>>
    BY <1>0, <1>1, <2>1, <2>2 DEF Joined
  <2> QED BY <2>1, <2>2, <2>3
<1>11. ASSUME ToTheEnd(s, w, n, g) PROVE ToTheEnd(r, w, n1, g1)
  <2>1. s[z] = <<w[l], FrameLen(w[l])>> /\ l \in 1 .. l
    BY <1>0, <1>2, <1>4, <1>11 DEF ToTheEnd
  <2>2. CASE k < z
    <3>1. r # <<>> /\ r[z - k] = s[z]
      BY <1>2, <1>3, <2>2
    <3> QED BY <1>0, <1>3, <2>1, <3>1 DEF ToTheEnd
  <2>3. CASE k = z
    <3>1. r = <<>> /\ s[z] = <<m, g + k>>
      BY <1>0, <1>2, <1>6, <2>3
    <3>2. m = w[l] /\ g + k = FrameLen(m)
      BY <2>1, <3>1
    <3>3. n + 1 = l
      BY <1>0, <1>4, <2>1, <3>2, RisingOnce
    <3>4. n1 = l /\ g1 = 0
      BY <1>0, <3>2, <3>3
    <3> QED BY <1>0, <3>1, <3>4 DEF ToTheEnd
  <2> QED BY <1>2, <2>2, <2>3
<1> QED BY <1>0, <1>4, <1>6, <1>7, <1>8, <1>9, <1>10, <1>11 DEF Line

-----------------------------------------------------------------------------
(* The inductive invariant of the sockets *)

Kinds == {"idle", "poll", "head", "body", "write"}
Calls == [kind : Kinds, left : Nat, got : Seq(Pieces), rest : Seq(Pieces)]

SocketTypes ==
  /\ listening \in BOOLEAN
  /\ made \in 0 .. MaxConns /\ told \in 0 .. Len(Lengths)
  /\ pending \in Seq(1 .. made)
  /\ connfd \in [Ends -> 0 .. made]
  /\ open \subseteq Conns \X Ends /\ reset \subseteq 1 .. made
  /\ wire \in [Conns \X Ends -> Seq(Pieces)]
  /\ op \in [Ends -> Calls]
  /\ btimeout \in [Ends -> BOOLEAN] /\ spent \subseteq Ends
  /\ written \in [Conns \X Ends -> Seq(Sendable)]
  /\ taken \in [Conns \X Ends -> Seq(Seq(Pieces))]

\* What waits to be accepted was made in this order, and the server has neither
\* written to it nor read from it; the connections in use have their descriptors.
Fresh(c) == /\ taken[<<c, "server">>] = <<>> /\ written[<<c, "server">>] = <<>>
            /\ wire[<<c, "client">>] = <<>>

Connections ==
  /\ \A i \in 1 .. Len(pending) : pending[i] # connfd["server"] /\ Fresh(pending[i])
  /\ \A i, j \in 1 .. Len(pending) : i < j => pending[i] < pending[j]
  /\ \A e \in Ends : connfd[e] # 0 => Now(e) \in open

\* The message that an end is reading from its connection.
Current(e) == written[<<connfd[e], Peer(e)>>][Len(taken[Now(e)]) + 1]

\* An end is in one call at a time, on a connection that it may use.
InCall(e) ==
  /\ op[e].kind = "idle" => op[e] = Idle
  /\ op[e].kind # "idle" => connfd[e] # 0 /\ e \notin spent
  /\ op[e].kind # "write" => op[e].rest = <<>>
  /\ op[e].kind = "write" => op[e].rest # <<>> /\ op[e].got = <<>>
  /\ op[e].kind \in {"poll", "head"} =>
       op[e].left > 0 /\ Len(op[e].got) + op[e].left = HeaderPieces
  /\ op[e].kind = "poll" => op[e].got = <<>>
  /\ op[e].kind = "body" =>
       /\ op[e].left > 0 /\ op[e].got # <<>>
       /\ connfd[e] \notin reset => Len(op[e].got) + op[e].left = FrameLen(Current(e))

\* An end that may still read what comes on a connection, or write to it: it
\* has it, or it is the server and will accept it.
Attached(c, e) == connfd[e] = c \/ (e = "server" /\ c \in Range(pending))
MayUse(c, e) == c \notin reset /\ Attached(c, e) /\ (connfd[e] = c => e \notin spent)

\* What has left the peer, or will when its Write goes on, and was not read.
Held(c, e)   == IF connfd[e] = c THEN op[e].got ELSE <<>>
Unsent(c, e) == IF connfd[e] = c THEN op[e].rest ELSE <<>>
Coming(c, e) == wire[<<c, e>>] \o (IF MayUse(c, Peer(e)) THEN Unsent(c, Peer(e)) ELSE <<>>)

\* t are the first frames of the messages w, h the beginning of the next one,
\* and s goes on from there, to the end of w as long as its writer is there.
Flows(w, t, s, h, reads, writes) ==
  /\ Rising(w)
  /\ Len(t) <= Len(w) /\ \A i \in 1 .. Len(t) : t[i] = Frame(w[i])
  /\ reads => /\ h # <<>> => Len(t) < Len(w)
              /\ \A i \in 1 .. Len(h) : h[i] = <<w[Len(t) + 1], i>>
              /\ Line(s, w, Len(t), Len(h))
              /\ writes => ToTheEnd(s, w, Len(t), Len(h))

Bounded(c, e) ==
  /\ \A i \in 1 .. Len(written[<<c, Peer(e)>>]) : written[<<c, Peer(e)>>][i] <= told
  /\ c > made => /\ wire[<<c, e>>] = <<>> /\ taken[<<c, e>>] = <<>>
                 /\ written[<<c, Peer(e)>>] = <<>>
  /\ c \in reset /\ Attached(c, e) => wire[<<c, e>>] = <<>>

Streams(c, e) ==
  /\ Bounded(c, e)
  /\ Flows(written[<<c, Peer(e)>>], taken[<<c, e>>], Coming(c, e), Held(c, e),
           MayUse(c, e), MayUse(c, Peer(e)))

SocketsInv ==
  /\ SocketTypes /\ Connections /\ ClientHoldsOneDescriptor
  /\ \A e \in Ends : InCall(e)
  /\ \A c \in Conns, e \in Ends : Streams(c, e)

LEMMA Peers ==
  /\ Peer("client") = "server" /\ Peer("server") = "client"
  /\ \A e \in Ends : /\ Peer(e) \in Ends /\ Peer(e) # e /\ Peer(Peer(e)) = e
                     /\ \A x \in Ends : x = e \/ x = Peer(e)
<1>1. Peer("client") = "server"
  <2>1. \E x \in Ends : x # "client"
    BY DEF Ends
  <2> QED BY <2>1 DEF Peer, Ends
<1>2. Peer("server") = "client"
  <2>1. \E x \in Ends : x # "server"
    BY DEF Ends
  <2> QED BY <2>1 DEF Peer, Ends
<1> QED BY <1>1, <1>2 DEF Ends

LEMMA SocketsStart == SocketsInit => SocketsInv
<1> SUFFICES ASSUME SocketsInit PROVE SocketsInv
  OBVIOUS
<1> USE DEF SocketsInit
<1>1. SocketTypes
  <2>1. Len(Lengths) \in Nat /\ MaxConns \in Nat
    BY SocketsAssumption
  <2>2. Idle \in Calls
    BY DEF Idle, Calls, Kinds
  <2>3. /\ connfd \in [Ends -> 0 .. made] /\ op \in [Ends -> Calls]
        /\ btimeout \in [Ends -> BOOLEAN]
    BY <2>2
  <2>4. /\ wire \in [Conns \X Ends -> Seq(Pieces)] /\ written \in [Conns \X Ends -> Seq(Sendable)]
        /\ taken \in [Conns \X Ends -> Seq(Seq(Pieces))]
    OBVIOUS
  <2>5. made \in 0 .. MaxConns /\ told \in 0 .. Len(Lengths) /\ pending \in Seq(1 .. made)
    BY <2>1
  <2>6. listening \in BOOLEAN /\ open \subseteq Conns \X Ends /\ reset \subseteq 1 .. made
        /\ spent \subseteq Ends
    OBVIOUS
  <2> HIDE DEF SocketsInit
  <2> QED BY <2>3, <2>4, <2>5, <2>6 DEF SocketTypes
<1>2. Connections
  BY DEF Connections
<1>3. ClientHoldsOneDescriptor
  BY DEF ClientHoldsOneDescriptor
<1>4. ASSUME NEW e \in Ends PROVE InCall(e)
  <2>1. op[e] = Idle
    OBVIOUS
  <2> QED BY <2>1 DEF InCall, Idle
<1>5. ASSUME NEW c \in Conns, NEW e \in Ends PROVE Streams(c, e)
  <2>1. /\ wire[<<c, e>>] = <<>> /\ taken[<<c, e>>] = <<>> /\ written[<<c, Peer(e)>>] = <<>>
    BY Peers
  <2>2. Bounded(c, e)
    BY <2>1 DEF Bounded
  <2>3. c # 0 /\ connfd[e] = 0
    BY DEF Conns
  <2>4. ~MayUse(c, e)
    <3>1. Range(pending) = {}
      BY DEF Range
    <3>2. ~Attached(c, e)
      BY <2>3, <3>1 DEF Attached
    <3> QED BY <3>2 DEF MayUse
  <2> QED BY <2>1, <2>2, <2>4 DEF Streams, Flows, Rising
<1> QED BY <1>1, <1>2, <1>3, <1>4, <1>5 DEF SocketsInv

-----------------------------------------------------------------------------
(* Types *)

LEMMA Sequel ==
  ASSUME NEW s \in Seq(Pieces), NEW k \in 0 .. Len(s)
  PROVE  /\ SubSeq(s, k + 1, Len(s)) \in Seq(Pieces) /\ SubSeq(s, 1, k) \in Seq(Pieces)
         /\ Len(SubSeq(s, k + 1, Len(s))) = Len(s) - k /\ Len(SubSeq(s, 1, k)) = k
         /\ \A i \in 1 .. k : SubSeq(s, 1, k)[i] = s[i]
         /\ \A i \in 1 .. Len(s) - k : SubSeq(s, k + 1, Len(s))[i] = s[k + i]
         /\ SubSeq(s, 1, k) \o SubSeq(s, k + 1, Len(s)) = s
<1>0. PICK l, r, n : l = SubSeq(s, 1, k) /\ r = SubSeq(s, k + 1, Len(s)) /\ n = Len(s)
  OBVIOUS
<1>1. n \in Nat /\ k \in 0 .. n /\ \A i \in 1 .. n : s[i] \in Pieces
  BY <1>0
<1>2. /\ l \in Seq(Pieces) /\ Len(l) = k /\ \A i \in 1 .. k : l[i] = s[i]
  <2>1. /\ l \in Seq(Pieces) /\ Len(l) = (IF 1 <= k THEN k - 1 + 1 ELSE 0)
        /\ \A i \in 1 .. k - 1 + 1 : l[i] = s[1 + i - 1]
    <3>1. \A i \in 1 .. k : s[i] \in Pieces
      BY <1>1
    <3> QED BY <1>0, <1>1, <3>1, SubSeqProperties
  <2> QED BY <1>1, <2>1
<1>3. /\ r \in Seq(Pieces) /\ Len(r) = n - k /\ \A i \in 1 .. n - k : r[i] = s[k + i]
  <2>1. /\ r \in Seq(Pieces) /\ Len(r) = (IF k + 1 <= n THEN n - (k + 1) + 1 ELSE 0)
        /\ \A i \in 1 .. n - (k + 1) + 1 : r[i] = s[(k + 1) + i - 1]
    <3>1. \A i \in k + 1 .. n : s[i] \in Pieces
      BY <1>1
    <3> QED BY <1>0, <1>1, <3>1, SubSeqProperties
  <2> QED BY <1>1, <2>1
<1>4. l \o r = s
  <2>1. /\ l \o r \in Seq(Pieces) /\ Len(l \o r) = Len(l) + Len(r)
        /\ \A i \in 1 .. Len(l) + Len(r) : (l \o r)[i] =
              IF i <= Len(l) THEN l[i] ELSE r[i - Len(l)]
    BY <1>2, <1>3, ConcatProperties
  <2>2. Len(l \o r) = n /\ \A i \in 1 .. n : (l \o r)[i] =
              IF i <= k THEN l[i] ELSE r[i - k]
    <3>1. Len(l) = k /\ Len(l) + Len(r) = n
      BY <1>1, <1>2, <1>3
    <3> QED BY <2>1, <3>1
  <2>3. ASSUME NEW i \in 1 .. n PROVE (l \o r)[i] = s[i]
    <3>1. CASE i <= k
      BY <1>1, <1>2, <2>2, <3>1
    <3>2. CASE ~(i <= k)
      <4>1. i - k \in 1 .. n - k /\ k + (i - k) = i
        BY <1>1, <3>2
      <4> QED BY <1>3, <2>2, <3>2, <4>1
    <3> QED BY <3>1, <3>2
  <2> QED BY <1>0, <2>1, <2>2, <2>3, SeqEqual
<1> QED BY <1>0, <1>2, <1>3, <1>4

LEMMA ReturnTypes ==
  ASSUME SocketTypes, NEW e \in Ends, NEW ok \in BOOLEAN, Returns(e, ok)
  PROVE  op' \in [Ends -> Calls] /\ spent' \subseteq Ends
<1>1. Idle \in Calls
  BY DEF Idle, Calls, Kinds
<1> QED BY <1>1 DEF Returns, SocketTypes

LEMMA TypesStep == SocketsInv /\ [SocketsNext]_svars => SocketTypes'
<1> SUFFICES ASSUME SocketsInv, [SocketsNext]_svars PROVE SocketTypes'
  OBVIOUS
<1>0. SocketTypes /\ Len(Lengths) \in Nat /\ MaxConns \in Nat
  BY SocketsAssumption DEF SocketsInv
<1>a. Idle \in Calls /\ Conns = 1 .. MaxConns /\ Ends = {"client", "server"} /\ HeaderPieces = 2
  BY DEF Idle, Calls, Kinds, Conns, Ends, HeaderPieces
<1>b. Range(pending) \subseteq 1 .. made
  BY <1>0 DEF SocketTypes, Range
<1>c. made \in Nat /\ told \in Nat
  BY <1>0 DEF SocketTypes
<1>d. ASSUME NEW e \in Ends, connfd[e] # 0 PROVE Now(e) \in Conns \X Ends /\ connfd[e] \in Conns
  BY <1>0, <1>a, <1>c, <1>d DEF SocketTypes, Now
<1>e. ASSUME NEW e \in Ends, op[e].kind # "idle" PROVE connfd[e] # 0
  BY <1>e DEF SocketsInv, InCall
<1>1. ASSUME NEW ok \in BOOLEAN, InitServer(ok) PROVE SocketTypes'
  <2>1. reset' \subseteq 1 .. made' /\ pending' \in Seq(1 .. made')
    <3>1. reset \cup Range(pending) \subseteq 1 .. made /\ <<>> \in Seq(1 .. made)
      BY <1>0, <1>b, EmptySeq DEF SocketTypes
    <3> QED BY <1>1, <3>1 DEF InitServer
  <2> QED BY <1>0, <1>1, <2>1 DEF InitServer, SocketTypes
<1>2. CASE ConnectToServer
  <2>1. /\ made' = made + 1 /\ made' \in 0 .. MaxConns /\ reset' = reset
        /\ pending' = Append(pending, made + 1)
        /\ connfd' = [connfd EXCEPT !["client"] = made + 1]
        /\ open' = (open \ {Now("client")}) \cup {<<made + 1, "client">>}
    BY <1>0, <1>2 DEF ConnectToServer, Connect, SocketTypes
  <2>2. pending' \in Seq(1 .. made')
    <3>1. pending \in Seq(1 .. made + 1)
      <4>1. 1 .. made \subseteq 1 .. made + 1
        BY <1>c
      <4> QED BY <1>0, <4>1, SeqMonotonic DEF SocketTypes
    <3> QED BY <1>c, <2>1, <3>1
  <2>3. connfd' \in [Ends -> 0 .. made'] /\ reset' \subseteq 1 .. made'
    BY <1>0, <1>a, <1>c, <2>1 DEF SocketTypes
  <2>4. open' \subseteq Conns \X Ends
    <3>1. made + 1 \in Conns
      BY <1>0, <1>a, <1>c, <2>1
    <3> QED BY <1>0, <1>a, <2>1, <3>1 DEF SocketTypes
  <2> QED BY <1>0, <1>2, <2>1, <2>2, <2>3, <2>4 DEF ConnectToServer, SocketTypes
<1>3. CASE ConnectFails
  <2>1. connfd' \in [Ends -> 0 .. made'] /\ open' \subseteq Conns \X Ends
    <3>1. 0 \in 0 .. made /\ made' = made
      BY <1>c, <1>3 DEF ConnectFails
    <3> QED BY <1>0, <1>3, <3>1 DEF ConnectFails, SocketTypes
  <2> QED BY <1>0, <1>3, <2>1 DEF ConnectFails, SocketTypes
<1>4. CASE Accept
  <2>1. Head(pending) \in 1 .. made /\ Tail(pending) \in Seq(1 .. made)
    BY <1>0, <1>4 DEF Accept, SocketTypes
  <2>2. <<Head(pending), "server">> \in Conns \X Ends
    BY <1>0, <1>a, <1>c, <2>1 DEF SocketTypes
  <2>3. /\ connfd' = [connfd EXCEPT !["server"] = Head(pending)] /\ pending' = Tail(pending)
        /\ open' = open \cup {<<Head(pending), "server">>} /\ made' = made
    BY <1>4 DEF Accept
  <2>4. connfd' \in [Ends -> 0 .. made'] /\ pending' \in Seq(1 .. made')
    <3>1. Head(pending) \in 0 .. made
      BY <1>c, <2>1
    <3> QED BY <1>0, <2>1, <2>3, <3>1 DEF SocketTypes
  <2>5. open' \subseteq Conns \X Ends
    BY <1>0, <2>2, <2>3 DEF SocketTypes
  <2>6. spent' \subseteq Ends
    BY <1>0, <1>4 DEF Accept, SocketTypes
  <2> QED BY <1>0, <1>4, <2>3, <2>4, <2>5, <2>6 DEF Accept, SocketTypes
<1>5. CASE AcceptFails
  <2>1. connfd' \in [Ends -> 0 .. made'] /\ open' \subseteq Conns \X Ends
    <3>1. 0 \in 0 .. made /\ made' = made
      BY <1>c, <1>5 DEF AcceptFails
    <3> QED BY <1>0, <1>5, <3>1 DEF AcceptFails, SocketTypes
  <2> QED BY <1>0, <1>5, <2>1 DEF AcceptFails, SocketTypes
<1>6. ASSUME NEW e \in Ends, Close(e) PROVE SocketTypes'
  <2>1. btimeout' \in [Ends -> BOOLEAN]
    BY <1>0, <1>6 DEF Close, SocketTypes
  <2> QED BY <1>0, <1>6, <2>1 DEF Close, SocketTypes
<1>7. ASSUME NEW e \in Ends, Write(e) PROVE SocketTypes'
  <2>1. told + 1 \in Sendable /\ told' = told + 1 /\ told' \in 0 .. Len(Lengths)
    BY <1>0, <1>7, <1>c DEF Write, SocketTypes, Sendable
  <2>2. Outgoing(e, told + 1) \in Calls
    BY <1>a, <2>1, FrameShape DEF Outgoing, Calls, Kinds, Idle
  <2>3. op' \in [Ends -> Calls]
    BY <1>0, <1>7, <2>2 DEF Write, SocketTypes
  <2>4. Now(e) \in Conns \X Ends
    BY <1>7, <1>d DEF Write, Ready
  <2>5. written[Now(e)] \in Seq(Sendable)
    BY <1>0, <2>4 DEF SocketTypes
  <2>6. Append(written[Now(e)], told + 1) \in Seq(Sendable)
    BY <2>1, <2>5
  <2>7. written' \in [Conns \X Ends -> Seq(Sendable)]
    BY <1>0, <1>7, <2>6 DEF Write, SocketTypes
  <2> QED BY <1>0, <1>7, <2>1, <2>3, <2>7 DEF Write, SocketTypes
<1>8. ASSUME NEW e \in Ends, NEW k \in Nat, Writen(e, k) PROVE SocketTypes'
  <2>1. op[e] \in Calls /\ op[e].rest \in Seq(Pieces) /\ k \in 0 .. Len(op[e].rest)
    BY <1>0, <1>8 DEF Writen, SocketTypes, Calls
  <2>2. /\ SubSeq(op[e].rest, 1, k) \in Seq(Pieces)
        /\ SubSeq(op[e].rest, k + 1, Len(op[e].rest)) \in Seq(Pieces)
    BY <2>1, Sequel
  <2>3. wire' \in [Conns \X Ends -> Seq(Pieces)]
    <3>1. \A x \in Conns \X Ends : wire[x] \o SubSeq(op[e].rest, 1, k) \in Seq(Pieces)
      BY <1>0, <2>2 DEF SocketTypes
    <3> QED BY <1>0, <1>8, <3>1 DEF Writen, SocketTypes
  <2>4. op' \in [Ends -> Calls] /\ spent' \subseteq Ends
    <3>1. CASE k = Len(op[e].rest)
      BY <1>0, <1>8, <3>1, ReturnTypes DEF Writen
    <3>2. CASE k # Len(op[e].rest)
      <4>1. [op[e] EXCEPT !.rest = SubSeq(op[e].rest, k + 1, Len(op[e].rest))] \in Calls
        BY <2>1, <2>2 DEF Calls
      <4> QED BY <1>0, <1>8, <3>2, <4>1 DEF Writen, SocketTypes
    <3> QED BY <3>1, <3>2
  <2> QED BY <1>0, <1>8, <2>3, <2>4 DEF Writen, SocketTypes
<1>9. ASSUME NEW e \in Ends, WritenFails(e) \/ ReadnFails(e) \/ Interrupt(e) PROVE SocketTypes'
  <2>1. op' \in [Ends -> Calls] /\ spent' \subseteq Ends
    BY <1>0, <1>9, ReturnTypes DEF WritenFails, ReadnFails, Interrupt
  <2> QED BY <1>0, <1>9, <2>1 DEF WritenFails, ReadnFails, Interrupt, SocketTypes
<1>10. ASSUME NEW e \in Ends, Read(e) PROVE SocketTypes'
  <2>1. [Idle EXCEPT !.kind = IF e \in Waits THEN "poll" ELSE "head", !.left = HeaderPieces] \in Calls
    BY <1>a DEF Calls, Kinds, Idle
  <2>2. btimeout' \in [Ends -> BOOLEAN]
    BY <1>0, <1>10 DEF Read, SocketTypes
  <2> QED BY <1>0, <1>10, <2>1, <2>2 DEF Read, SocketTypes
<1>11. ASSUME NEW e \in Ends, Poll(e) PROVE SocketTypes'
  <2>1. [op[e] EXCEPT !.kind = "head"] \in Calls
    BY <1>0 DEF SocketTypes, Calls, Kinds
  <2> QED BY <1>0, <1>11, <2>1 DEF Poll, SocketTypes
<1>12. ASSUME NEW e \in Ends, TimesOut(e) PROVE SocketTypes'
  <2>1. op' \in [Ends -> Calls] /\ spent' \subseteq Ends
    BY <1>0, <1>12, ReturnTypes DEF TimesOut
  <2> QED BY <1>0, <1>12, <2>1 DEF TimesOut, SocketTypes
<1>13. ASSUME NEW e \in Ends, NEW k \in Nat, Readn(e, k) PROVE SocketTypes'
  <2>1. Now(e) \in Conns \X Ends
    BY <1>13, <1>d, <1>e DEF Readn
  <2>2. PICK s, got : s = wire[Now(e)] /\ got = op[e].got \o SubSeq(s, 1, k)
    OBVIOUS
  <2>3. op[e] \in Calls /\ s \in Seq(Pieces) /\ k \in 0 .. Len(s) /\ op[e].left \in Nat
    BY <1>0, <1>13, <2>1, <2>2 DEF Readn, Arrived, SocketTypes, Calls
  <2>4. SubSeq(s, k + 1, Len(s)) \in Seq(Pieces) /\ SubSeq(s, 1, k) \in Seq(Pieces)
    BY <2>3, Sequel
  <2>5. got \in Seq(Pieces)
    BY <2>2, <2>3, <2>4 DEF Calls
  <2>6. wire' \in [Conns \X Ends -> Seq(Pieces)]
    BY <1>0, <1>13, <2>2, <2>4 DEF Readn, SocketTypes
  <2>7. op' \in [Ends -> Calls] /\ spent' \subseteq Ends
           /\ taken' \in [Conns \X Ends -> Seq(Seq(Pieces))]
    <3>1. CASE k = op[e].left
      <4>1. PICK n : ReadnDone(e, got, n) /\ (op[e].kind = "head" => n \in LengthsOf(got))
        BY <1>13, <2>2, <3>1 DEF Readn, Arrived
      <4>2. CASE op[e].kind = "head" /\ n > 0
        <5>1. n \in Nat
          <6>1. got # <<>>
            BY <1>13, <2>2, <2>3, <2>4, <3>1, Sequel DEF Readn, Calls
          <6>2. got[1][1] \in Sendable
            BY <2>5, <6>1 DEF Pieces
          <6>3. Lengths[got[1][1]] \in Nat /\ Range(Lengths) \subseteq Nat
            BY <6>2, SocketsAssumption DEF Sendable, Range
          <6> QED BY <4>1, <4>2, <6>3 DEF LengthsOf
        <5>2. [op[e] EXCEPT !.kind = "body", !.left = n, !.got = got] \in Calls
          BY <2>3, <2>5, <5>1 DEF Calls, Kinds
        <5> QED BY <1>0, <4>1, <4>2, <5>2 DEF ReadnDone, SocketTypes
      <4>3. CASE ~(op[e].kind = "head" /\ n > 0)
        <5>1. Returns(e, TRUE) /\ taken' = [taken EXCEPT ![Now(e)] = Append(@, got)]
          BY <4>1, <4>3 DEF ReadnDone
        <5>2. Append(taken[Now(e)], got) \in Seq(Seq(Pieces))
          BY <1>0, <2>1, <2>5 DEF SocketTypes
        <5> QED BY <1>0, <5>1, <5>2, ReturnTypes DEF SocketTypes
      <4> QED BY <4>2, <4>3
    <3>2. CASE k # op[e].left
      <4>1. op[e].left - k \in Nat
        BY <1>13, <2>3, <3>2 DEF Readn
      <4>2. [op[e] EXCEPT !.left = op[e].left - k, !.got = got] \in Calls
        BY <2>3, <2>5, <4>1 DEF Calls
      <4> QED BY <1>0, <1>13, <2>2, <3>2, <4>2 DEF Readn, Arrived, SocketTypes
    <3> QED BY <3>1, <3>2
  <2> QED BY <1>0, <1>13, <2>6, <2>7 DEF Readn, SocketTypes
<1>14. ASSUME NEW c \in Conns, Reset(c) PROVE SocketTypes'
  <2>1. c \in 1 .. made
    BY <1>14, <1>a, <1>c DEF Reset
  <2>2. wire' \in [Conns \X Ends -> Seq(Pieces)]
    BY <1>0, <1>14 DEF Reset, SocketTypes
  <2> QED BY <1>0, <1>14, <2>1, <2>2 DEF Reset, SocketTypes
<1>15. CASE UNCHANGED svars
  BY <1>0, <1>15 DEF svars, SocketTypes
<1>16. 1 .. 4 \subseteq Nat
  OBVIOUS
<1> QED BY <1>1, <1>2, <1>3, <1>4, <1>5, <1>6, <1>7, <1>8, <1>9, <1>10, <1>11, <1>12, <1>13,
           <1>14, <1>15, <1>16 DEF SocketsNext, CloseListen, Proceed

-----------------------------------------------------------------------------
(* Connections and descriptors *)

LEMMA Known1 ==
  ASSUME SocketsInv
  PROVE  /\ made \in Nat /\ Conns = 1 .. MaxConns /\ MaxConns \in Nat /\ made <= MaxConns
         /\ \A e \in Ends : connfd[e] \in 0 .. made
         /\ \A e \in Ends : op[e].kind # "idle" => connfd[e] # 0 /\ e \notin spent
         /\ \A e \in Ends : connfd[e] # 0 => connfd[e] \in Conns /\ Now(e) \in Conns \X Ends
         /\ \A i \in 1 .. Len(pending) : pending[i] \in 1 .. made
         /\ Len(pending) \in Nat /\ Range(pending) = {pending[i] : i \in 1 .. Len(pending)}
<1>1. SocketTypes /\ \A e \in Ends : InCall(e)
  BY DEF SocketsInv
<1>2. made \in Nat /\ MaxConns \in Nat /\ made <= MaxConns
  BY <1>1, SocketsAssumption DEF SocketTypes
<1>3. \A e \in Ends : connfd[e] \in 0 .. made
  BY <1>1 DEF SocketTypes
<1>4. Len(pending) \in Nat /\ DOMAIN pending = 1 .. Len(pending)
      /\ \A i \in 1 .. Len(pending) : pending[i] \in 1 .. made
  BY <1>1 DEF SocketTypes
<1> QED BY <1>1, <1>2, <1>3, <1>4 DEF InCall, Conns, Now, Range

LEMMA PendingStays ==
  ASSUME SocketsInv, UNCHANGED <<pending, connfd, open>>,
         \A i \in 1 .. Len(pending) : Fresh(pending[i])'
  PROVE  Connections' /\ ClientHoldsOneDescriptor'
BY DEF SocketsInv, Connections, ClientHoldsOneDescriptor, Now

LEMMA ConnectionsStep ==
  SocketsInv /\ [SocketsNext]_svars => Connections' /\ ClientHoldsOneDescriptor'
<1> SUFFICES ASSUME SocketsInv, [SocketsNext]_svars
             PROVE  Connections' /\ ClientHoldsOneDescriptor'
  OBVIOUS
<1>0. SocketTypes /\ Connections /\ ClientHoldsOneDescriptor
  BY DEF SocketsInv
<1>k. /\ made \in Nat /\ Conns = 1 .. MaxConns /\ MaxConns \in Nat /\ made <= MaxConns
      /\ \A e \in Ends : connfd[e] \in 0 .. made
      /\ \A e \in Ends : op[e].kind # "idle" => connfd[e] # 0 /\ e \notin spent
      /\ \A e \in Ends : connfd[e] # 0 => connfd[e] \in Conns /\ Now(e) \in Conns \X Ends
      /\ \A i \in 1 .. Len(pending) : pending[i] \in 1 .. made
      /\ Len(pending) \in Nat
  BY Known1
<1>e. Ends = {"client", "server"} /\ "client" # "server"
  BY DEF Ends
<1>c. connfd \in [Ends -> 0 .. made] /\ pending \in Seq(1 .. made)
  BY <1>0 DEF SocketTypes
<1>f. \A i \in 1 .. Len(pending) : pending[i] # connfd["server"] /\ Fresh(pending[i])
  BY <1>0 DEF Connections
<1>1. ASSUME NEW ok \in BOOLEAN, InitServer(ok) PROVE Connections' /\ ClientHoldsOneDescriptor'
  BY <1>0, <1>1 DEF InitServer, Connections, ClientHoldsOneDescriptor, Now
<1>2. CASE ConnectToServer
  <2>1. /\ made' = made + 1 /\ made + 1 \in Conns /\ pending' = Append(pending, made + 1)
        /\ connfd' = [connfd EXCEPT !["client"] = made + 1]
        /\ open' = (open \ {Now("client")}) \cup {<<made + 1, "client">>}
        /\ UNCHANGED <<wire, written, taken>>
    BY <1>2, <1>k DEF ConnectToServer, Connect
  <2>2. Fresh(made + 1)
    <3>1. Bounded(made + 1, "client") /\ Bounded(made + 1, "server")
      BY <2>1, <1>e DEF SocketsInv, Streams
    <3>2. made + 1 > made
      BY <1>k
    <3> QED BY <3>1, <3>2, Peers DEF Bounded, Fresh
  <2>3. /\ Len(pending') = Len(pending) + 1 /\ pending'[Len(pending) + 1] = made + 1
        /\ \A i \in 1 .. Len(pending) : pending'[i] = pending[i]
    BY <1>c, <2>1
  <2>4. connfd'["server"] = connfd["server"] /\ connfd'["client"] = made + 1
    BY <1>c, <1>e, <2>1
  <2>5. ASSUME NEW i \in 1 .. Len(pending')
        PROVE  (pending[i] # connfd["server"] /\ Fresh(pending[i]))'
    <3>1. CASE i \in 1 .. Len(pending)
      BY <1>f, <2>1, <2>3, <2>4, <3>1 DEF Fresh
    <3>2. CASE i = Len(pending) + 1
      <4>1. made + 1 # connfd["server"]
        BY <1>k, <1>e
      <4> QED BY <2>1, <2>2, <2>3, <2>4, <3>2, <4>1 DEF Fresh
    <3> QED BY <1>k, <2>3, <3>1, <3>2
  <2>6. ASSUME NEW i \in 1 .. Len(pending'), NEW j \in 1 .. Len(pending'), i < j
        PROVE  pending'[i] < pending'[j]
    <3>1. i \in 1 .. Len(pending)
      BY <1>k, <2>3, <2>6
    <3>2. CASE j \in 1 .. Len(pending)
      BY <1>0, <2>3, <2>6, <3>1, <3>2 DEF Connections
    <3>3. CASE j = Len(pending) + 1
      BY <1>k, <2>3, <3>1, <3>3
    <3> QED BY <1>k, <2>3, <3>2, <3>3
  <2>7. ASSUME NEW e \in Ends, connfd'[e] # 0 PROVE Now(e)' \in open'
    <3>1. CASE e = "client"
      BY <2>1, <2>4, <3>1 DEF Now
    <3>2. CASE e = "server"
      <4>1. <<connfd["server"], "server">> \in open
        BY <1>0, <1>e, <2>4, <2>7, <3>2 DEF Connections, Now
      <4> QED BY <1>e, <2>1, <2>4, <3>2, <4>1 DEF Now
    <3> QED BY <1>e, <3>1, <3>2
  <2>8. ClientHoldsOneDescriptor'
    <3> SUFFICES ASSUME NEW c \in Conns, <<c, "client">> \in open' PROVE connfd'["client"] = c
      BY DEF ClientHoldsOneDescriptor, Conns
    <3>1. CASE c = made + 1
      BY <2>4, <3>1
    <3>2. CASE c # made + 1
      <4>1. <<c, "client">> \in open /\ <<c, "client">> # Now("client")
        BY <2>1, <3>2
      <4> QED BY <1>0, <4>1 DEF ClientHoldsOneDescriptor, Now
    <3> QED BY <3>1, <3>2
  <2> QED BY <2>5, <2>6, <2>7, <2>8 DEF Connections
<1>3. CASE ConnectFails
  <2>1. /\ connfd'["server"] = connfd["server"] /\ connfd'["client"] = 0
        /\ open' = open \ {<<connfd["client"], "client">>}
        /\ UNCHANGED <<pending, wire, written, taken>>
    BY <1>3, <1>c, <1>e DEF ConnectFails, Now
  <2>2. Connections'
    BY <1>0, <1>e, <2>1 DEF Connections, Fresh, Now
  <2> QED BY <1>0, <2>1, <2>2 DEF ClientHoldsOneDescriptor, Conns
<1>4. CASE Accept
  <2>1. /\ pending # <<>> /\ connfd' = [connfd EXCEPT !["server"] = pending[1]]
        /\ open' = open \cup {<<pending[1], "server">>} /\ pending' = Tail(pending)
        /\ UNCHANGED <<wire, written, taken>>
    BY <1>4, <1>c DEF Accept
  <2>2. connfd'["client"] = connfd["client"] /\ connfd'["server"] = pending[1]
    BY <1>c, <1>e, <2>1
  <2>3. /\ Len(pending) \in Nat /\ 1 \in 1 .. Len(pending) /\ Len(pending') = Len(pending) - 1
        /\ \A i \in 1 .. Len(pending') : pending'[i] = pending[i + 1] /\ i + 1 \in 1 .. Len(pending)
    BY <1>c, <2>1
  <2>4. ASSUME NEW i \in 1 .. Len(pending')
        PROVE  (pending[i] # connfd["server"] /\ Fresh(pending[i]))'
    <3>1. 1 < i + 1 /\ pending'[i] = pending[i + 1] /\ i + 1 \in 1 .. Len(pending)
      BY <2>3
    <3>2. pending[1] < pending[i + 1]
      BY <1>0, <2>3, <3>1 DEF Connections
    <3>3. pending[1] # pending[i + 1]
      BY <1>k, <2>3, <3>1, <3>2
    <3> QED BY <1>f, <2>1, <2>2, <3>1, <3>3 DEF Fresh
  <2>5. ASSUME NEW i \in 1 .. Len(pending'), NEW j \in 1 .. Len(pending'), i < j
        PROVE  pending'[i] < pending'[j]
    <3>1. i + 1 < j + 1
      BY <2>3, <2>5
    <3> QED BY <1>0, <2>3, <3>1 DEF Connections
  <2>6. ASSUME NEW e \in Ends, connfd'[e] # 0 PROVE Now(e)' \in open'
    <3>1. CASE e = "client"
      BY <1>0, <1>e, <2>1, <2>2, <2>6, <3>1 DEF Connections, Now
    <3>2. CASE e = "server"
      BY <2>1, <2>2, <3>2 DEF Now
    <3> QED BY <1>e, <3>1, <3>2
  <2>7. ClientHoldsOneDescriptor'
    BY <1>0, <2>1, <2>2 DEF ClientHoldsOneDescriptor, Conns
  <2> QED BY <2>4, <2>5, <2>6, <2>7 DEF Connections
<1>5. CASE AcceptFails
  <2>1. /\ connfd'["client"] = connfd["client"] /\ connfd'["server"] = 0
        /\ UNCHANGED <<pending, open, wire, written, taken>>
    BY <1>5, <1>c, <1>e DEF AcceptFails, Now
  <2>2. \A i \in 1 .. Len(pending) : pending[i] # 0
    BY <1>k
  <2>3. Connections'
    BY <1>0, <1>e, <2>1, <2>2 DEF Connections, Fresh, Now
  <2> QED BY <1>0, <2>1, <2>3 DEF ClientHoldsOneDescriptor, Conns
<1>6. ASSUME NEW e \in Ends, Close(e) PROVE Connections' /\ ClientHoldsOneDescriptor'
  <2>1. /\ connfd'[e] = 0 /\ \A x \in Ends \ {e} : connfd'[x] = connfd[x]
        /\ open' = open \ {<<connfd[e], e>>}
        /\ UNCHANGED <<pending, wire, written, taken>>
    BY <1>6, <1>c DEF Close, Now
  <2>2. \A i \in 1 .. Len(pending) : pending[i] # 0
    BY <1>k
  <2>3. Connections'
    BY <1>0, <1>e, <2>1, <2>2 DEF Connections, Fresh, Now
  <2> QED BY <1>0, <1>e, <2>1, <2>3 DEF ClientHoldsOneDescriptor, Conns
<1>7. ASSUME NEW e \in Ends, Write(e) PROVE Connections' /\ ClientHoldsOneDescriptor'
  <2>1. /\ UNCHANGED <<pending, connfd, open, wire, taken>>
        /\ \A x \in Conns \X Ends : x # Now(e) => written'[x] = written[x]
    BY <1>7, <1>0 DEF Write, SocketTypes
  <2>2. ASSUME NEW i \in 1 .. Len(pending) PROVE Fresh(pending[i])'
    <3>1. <<pending[i], "server">> \in Conns \X Ends /\ <<pending[i], "server">> # Now(e)
      BY <1>e, <1>f, <1>k DEF Now
    <3> QED BY <1>f, <2>1, <3>1 DEF Fresh
  <2> QED BY <2>1, <2>2, PendingStays
<1>8. ASSUME NEW e \in Ends, NEW k \in Nat, Writen(e, k)
      PROVE  Connections' /\ ClientHoldsOneDescriptor'
  <2>1. /\ UNCHANGED <<pending, connfd, open, written, taken>>
        /\ \A x \in Conns \X Ends : x # <<connfd[e], Peer(e)>> => wire'[x] = wire[x]
    BY <1>8, <1>0 DEF Writen, SocketTypes
  <2>2. ASSUME NEW i \in 1 .. Len(pending) PROVE Fresh(pending[i])'
    <3>1. <<pending[i], "client">> \in Conns \X Ends /\ <<pending[i], "client">> # <<connfd[e], Peer(e)>>
      BY <1>e, <1>f, <1>k, Peers
    <3> QED BY <1>f, <2>1, <3>1 DEF Fresh
  <2> QED BY <2>1, <2>2, PendingStays
<1>9. ASSUME NEW e \in Ends, NEW k \in Nat, Readn(e, k)
      PROVE  Connections' /\ ClientHoldsOneDescriptor'
  <2>1. /\ UNCHANGED <<pending, connfd, open, written>>
        /\ \A x \in Conns \X Ends : x # Now(e) => wire'[x] = wire[x] /\ taken'[x] = taken[x]
    BY <1>9, <1>0 DEF Readn, ReadnDone, SocketTypes
  <2>2. ASSUME NEW i \in 1 .. Len(pending) PROVE Fresh(pending[i])'
    <3>1. /\ <<pending[i], "client">> \in Conns \X Ends /\ <<pending[i], "server">> \in Conns \X Ends
          /\ <<pending[i], "server">> # Now(e)
      BY <1>e, <1>f, <1>k DEF Now
    <3>2. <<pending[i], "client">> # Now(e)
      <4> SUFFICES ASSUME <<pending[i], "client">> = Now(e) PROVE FALSE
        OBVIOUS
      <4>1. wire[Now(e)] = <<>>
        BY <1>f DEF Fresh
      <4>2. k >= 1 /\ k <= Len(wire[Now(e)])
        BY <1>9 DEF Readn, Arrived
      <4> QED BY <4>1, <4>2
    <3> QED BY <1>f, <2>1, <3>1, <3>2 DEF Fresh
  <2> QED BY <2>1, <2>2, PendingStays
<1>10. ASSUME NEW c \in Conns, Reset(c) PROVE Connections' /\ ClientHoldsOneDescriptor'
  <2>1. /\ UNCHANGED <<pending, connfd, open, written, taken>>
        /\ \A x \in Conns \X Ends : wire'[x] = wire[x] \/ wire'[x] = <<>>
    BY <1>10, <1>0 DEF Reset, SocketTypes
  <2>2. ASSUME NEW i \in 1 .. Len(pending) PROVE Fresh(pending[i])'
    <3>1. <<pending[i], "client">> \in Conns \X Ends
      BY <1>e, <1>f, <1>k
    <3> QED BY <1>f, <2>1, <3>1 DEF Fresh
  <2> QED BY <2>1, <2>2, PendingStays
<1>11. ASSUME UNCHANGED <<pending, connfd, open, wire, written, taken>>
       PROVE  Connections' /\ ClientHoldsOneDescriptor'
  BY <1>11, <1>f, PendingStays DEF Fresh
<1>12. ASSUME NEW e \in Ends,
              WritenFails(e) \/ ReadnFails(e) \/ Interrupt(e) \/ Read(e) \/ Poll(e) \/ TimesOut(e)
       PROVE  Connections' /\ ClientHoldsOneDescriptor'
  BY <1>11, <1>12 DEF WritenFails, ReadnFails, Interrupt, Read, Poll, TimesOut
<1>13. CASE UNCHANGED svars
  BY <1>11, <1>13 DEF svars
<1>14. 1 .. 4 \subseteq Nat
  OBVIOUS
<1> QED BY <1>1, <1>2, <1>3, <1>4, <1>5, <1>6, <1>7, <1>8, <1>9, <1>10, <1>12, <1>13, <1>14
        DEF SocketsNext, CloseListen, Proceed

-----------------------------------------------------------------------------
(* One recv() *)

LEMMA StreamTypes ==
  ASSUME SocketsInv, NEW c \in Conns, NEW e \in Ends
  PROVE  /\ wire[<<c, e>>] \in Seq(Pieces) /\ written[<<c, Peer(e)>>] \in Seq(Sendable)
         /\ taken[<<c, e>>] \in Seq(Seq(Pieces))
         /\ op[e] \in Calls /\ op[e].got \in Seq(Pieces) /\ op[e].rest \in Seq(Pieces)
         /\ op[e].left \in Nat
         /\ Held(c, e) \in Seq(Pieces) /\ Unsent(c, e) \in Seq(Pieces)
         /\ Coming(c, e) \in Seq(Pieces)
<1>1. SocketTypes /\ Peer(e) \in Ends
  BY Peers DEF SocketsInv
<1>2. \A x \in Ends : op[x] \in Calls /\ op[x].got \in Seq(Pieces) /\ op[x].rest \in Seq(Pieces)
                        /\ op[x].left \in Nat
  BY <1>1 DEF SocketTypes, Calls
<1>3. /\ wire[<<c, e>>] \in Seq(Pieces) /\ written[<<c, Peer(e)>>] \in Seq(Sendable)
      /\ taken[<<c, e>>] \in Seq(Seq(Pieces))
  BY <1>1 DEF SocketTypes
<1>4. <<>> \in Seq(Pieces)
  OBVIOUS
<1>5. Held(c, e) \in Seq(Pieces) /\ Unsent(c, e) \in Seq(Pieces) /\ Unsent(c, Peer(e)) \in Seq(Pieces)
  BY <1>1, <1>2, <1>4 DEF Held, Unsent
<1>6. Coming(c, e) \in Seq(Pieces)
  BY <1>3, <1>4, <1>5 DEF Coming
<1> QED BY <1>2, <1>3, <1>5, <1>6

LEMMA RestOfAll ==
  ASSUME NEW a \in Seq(Pieces), NEW u \in Seq(Pieces), NEW k \in 0 .. Len(a)
  PROVE  SubSeq(a \o u, k + 1, Len(a \o u)) = SubSeq(a, k + 1, Len(a)) \o u
<1>1. PICK s, q, r, x :
        /\ s = a \o u /\ q = SubSeq(a, k + 1, Len(a)) /\ r = q \o u
        /\ x = SubSeq(s, k + 1, Len(s))
  OBVIOUS
<1>2. /\ s \in Seq(Pieces) /\ Len(s) = Len(a) + Len(u)
      /\ \A i \in 1 .. Len(a) : s[i] = a[i]
      /\ \A i \in 1 .. Len(u) : s[Len(a) + i] = u[i]
  BY <1>1, Parts
<1>3. /\ q \in Seq(Pieces) /\ Len(q) = Len(a) - k
      /\ \A i \in 1 .. Len(a) - k : q[i] = a[k + i]
  BY <1>1, Sequel
<1>4. /\ x \in Seq(Pieces) /\ Len(x) = Len(s) - k
      /\ \A i \in 1 .. Len(s) - k : x[i] = s[k + i]
  <2>1. k \in 0 .. Len(s)
    BY <1>2
  <2> QED BY <1>1, <1>2, <2>1, Sequel
<1>5. /\ r \in Seq(Pieces) /\ Len(r) = Len(q) + Len(u)
      /\ \A i \in 1 .. Len(q) : r[i] = q[i]
      /\ \A i \in 1 .. Len(u) : r[Len(q) + i] = u[i]
  <2>1. q \in Seq(Pieces)
    BY <1>3
  <2>2. r = q \o u
    BY <1>1
  <2> QED BY <2>1, <2>2, Parts
<1>a. PICK A, U : A = Len(a) /\ U = Len(u)
  OBVIOUS
<1>6. A = Len(a) /\ U = Len(u) /\ A \in Nat /\ U \in Nat /\ k \in 0 .. A
  BY <1>a
<1>7. Len(x) = (A - k) + U /\ Len(r) = (A - k) + U
  BY <1>2, <1>3, <1>4, <1>5, <1>6
<1>8. ASSUME NEW i \in 1 .. (A - k) + U PROVE x[i] = r[i]
  <2>1. CASE i <= A - k
    <3>1. i \in 1 .. A - k /\ k + i \in 1 .. A /\ i \in 1 .. (A + U) - k
      BY <1>6, <1>8, <2>1
    <3> QED BY <1>2, <1>3, <1>4, <1>5, <1>6, <3>1
  <2>2. CASE ~(i <= A - k)
    <3>1. PICK j : j = i - (A - k)
      OBVIOUS
    <3>2. j \in 1 .. U /\ i = (A - k) + j /\ k + i = A + j /\ i \in 1 .. (A + U) - k
      BY <1>6, <1>8, <2>2, <3>1
    <3>3. r[(A - k) + j] = u[j] /\ s[A + j] = u[j] /\ x[i] = s[k + i]
      BY <1>2, <1>3, <1>4, <1>5, <1>6, <3>2
    <3> QED BY <3>2, <3>3
  <2> QED BY <2>1, <2>2
<1> QED BY <1>1, <1>4, <1>5, <1>7, <1>8, SeqEqual

LEMMA ReadOn ==
  ASSUME NEW m, NEW h \in Seq(Pieces), NEW a \in Seq(Pieces), NEW k \in 1 .. Len(a),
         \A i \in 1 .. Len(h) : h[i] = <<m, i>>,
         \A i \in 1 .. k : a[i] = <<m, Len(h) + i>>
  PROVE  /\ h \o SubSeq(a, 1, k) \in Seq(Pieces) /\ Len(h \o SubSeq(a, 1, k)) = Len(h) + k
         /\ \A i \in 1 .. Len(h) + k : (h \o SubSeq(a, 1, k))[i] = <<m, i>>
<1>a. PICK z, got, H : z = SubSeq(a, 1, k) /\ got = h \o z /\ H = Len(h)
  OBVIOUS
<1>b. H \in Nat /\ k \in Nat
  BY <1>a
<1>1. z = SubSeq(a, 1, k) /\ got = h \o z /\ H = Len(h) /\ H \in Nat /\ k \in Nat
  BY <1>a, <1>b
<1>2. z \in Seq(Pieces) /\ Len(z) = k /\ \A i \in 1 .. k : z[i] = a[i]
  <2>1. k \in 0 .. Len(a)
    OBVIOUS
  <2> QED BY <1>1, <2>1, Sequel
<1>3. /\ got \in Seq(Pieces) /\ Len(got) = H + k
      /\ \A i \in 1 .. H : got[i] = h[i]
      /\ \A i \in 1 .. k : got[H + i] = z[i]
  <2>1. z \in Seq(Pieces) /\ got = h \o z
    BY <1>1, <1>2
  <2>2. /\ got \in Seq(Pieces) /\ Len(got) = Len(h) + Len(z)
        /\ \A i \in 1 .. Len(h) : got[i] = h[i]
        /\ \A i \in 1 .. Len(z) : got[Len(h) + i] = z[i]
    BY <2>1, Parts
  <2> QED BY <1>1, <1>2, <2>2
<1>4. ASSUME NEW i \in 1 .. H + k PROVE got[i] = <<m, i>>
  <2>1. CASE i <= H
    <3>1. i \in 1 .. H
      BY <1>1, <2>1
    <3> QED BY <1>1, <1>3, <3>1
  <2>2. CASE ~(i <= H)
    <3>1. PICK j : j = i - H
      OBVIOUS
    <3>2. j \in 1 .. k /\ i = H + j
      BY <1>1, <2>2, <3>1
    <3> QED BY <1>1, <1>2, <1>3, <3>2
  <2> QED BY <2>1, <2>2
<1> QED BY <1>1, <1>3, <1>4

\* What an end is in the middle of belongs to the next message of its peer.
LEMMA BodyOfMessage ==
  ASSUME SocketsInv, NEW e \in Ends, connfd[e] # 0, connfd[e] \notin reset, e \notin spent
  PROVE  /\ connfd[e] \in Conns /\ MayUse(connfd[e], e) /\ Held(connfd[e], e) = op[e].got
         /\ Flows(written[<<connfd[e], Peer(e)>>], taken[Now(e)], Coming(connfd[e], e), op[e].got,
                  TRUE, MayUse(connfd[e], Peer(e)))
         /\ op[e].got # <<>> =>
              Len(taken[Now(e)]) < Len(written[<<connfd[e], Peer(e)>>])
<1>1. connfd[e] \in Conns
  BY Known1
<1>2. MayUse(connfd[e], e) /\ Held(connfd[e], e) = op[e].got
  BY DEF MayUse, Attached, Held
<1>3. Streams(connfd[e], e)
  BY <1>1 DEF SocketsInv
<1> QED BY <1>1, <1>2, <1>3 DEF Streams, Flows, Now

\* The pieces that Readn returns are the next ones of one message; they never go
\* beyond its end, and the length it reads is the length of this message.
LEMMA Reading ==
  ASSUME SocketsInv, NEW e \in Ends, NEW k \in Nat,
         op[e].kind \in {"head", "body"}, connfd[e] \notin reset,
         k \in 1 .. op[e].left, k <= Len(Arrived(e))
  PROVE  LET got == op[e].got \o SubSeq(Arrived(e), 1, k)
             m == Current(e)
             n == Len(taken[Now(e)])
             w == written[<<connfd[e], Peer(e)>>]
             r == SubSeq(Arrived(e), k + 1, Len(Arrived(e)))
                  \o (IF MayUse(connfd[e], Peer(e)) THEN Unsent(connfd[e], Peer(e)) ELSE <<>>)
             complete == Len(got) = FrameLen(m)
             n1 == IF complete THEN n + 1 ELSE n
             g1 == IF complete THEN 0 ELSE Len(got)
         IN /\ m = w[n + 1] /\ m \in Sendable /\ n + 1 \in 1 .. Len(w)
            /\ got \in Seq(Pieces) /\ Len(got) = Len(op[e].got) + k /\ Len(got) <= FrameLen(m)
            /\ \A i \in 1 .. Len(got) : got[i] = <<m, i>>
            /\ Line(r, w, n1, g1)
            /\ MayUse(connfd[e], Peer(e)) => ToTheEnd(r, w, n1, g1)
<1>1. connfd[e] # 0 /\ e \notin spent /\ connfd[e] \in Conns /\ InCall(e)
  <2>1. op[e].kind # "idle"
    OBVIOUS
  <2> QED BY <2>1, Known1 DEF SocketsInv
<1>2. PICK c, h, a, u, s, m, n, w, r, got :
        /\ c = connfd[e] /\ h = op[e].got /\ a = Arrived(e) /\ s = Coming(c, e)
        /\ u = (IF MayUse(c, Peer(e)) THEN Unsent(c, Peer(e)) ELSE <<>>)
        /\ m = Current(e) /\ n = Len(taken[Now(e)]) /\ w = written[<<connfd[e], Peer(e)>>]
        /\ r = SubSeq(a, k + 1, Len(a)) \o u
        /\ got = h \o SubSeq(a, 1, k)
  OBVIOUS
<1>3. /\ h \in Seq(Pieces) /\ a \in Seq(Pieces) /\ s \in Seq(Pieces) /\ u \in Seq(Pieces)
      /\ w \in Seq(Sendable) /\ n \in Nat /\ op[e].left \in Nat /\ s = a \o u
  <2>1. /\ h \in Seq(Pieces) /\ a \in Seq(Pieces) /\ s \in Seq(Pieces) /\ w \in Seq(Sendable)
        /\ taken[Now(e)] \in Seq(Seq(Pieces)) /\ op[e].left \in Nat
    BY <1>1, <1>2, StreamTypes DEF Arrived, Now
  <2>2. Unsent(c, Peer(e)) \in Seq(Pieces) /\ <<>> \in Seq(Pieces)
    <3>1. c \in Conns /\ Peer(e) \in Ends
      BY <1>1, <1>2, Peers
    <3>2. Unsent(c, Peer(e)) \in Seq(Pieces)
      BY <3>1, StreamTypes
    <3> QED BY <3>2
  <2>3. n \in Nat
    BY <1>2, <2>1
  <2> QED BY <1>2, <2>1, <2>2, <2>3 DEF Coming, Arrived, Now
<1>4. Flows(w, taken[Now(e)], s, h, TRUE, MayUse(c, Peer(e)))
  BY <1>1, <1>2, BodyOfMessage
<1>5. /\ Rising(w) /\ Line(s, w, n, Len(h)) /\ (MayUse(c, Peer(e)) => ToTheEnd(s, w, n, Len(h)))
      /\ \A i \in 1 .. Len(h) : h[i] = <<w[n + 1], i>>
  BY <1>2, <1>4 DEF Flows
<1>6. /\ Len(h) \in Nat /\ Len(a) \in Nat /\ Len(s) = Len(a) + Len(u) /\ Len(u) \in Nat
      /\ \A i \in 1 .. Len(a) : s[i] = a[i]
  BY <1>3, Parts
<1>7. k \in 1 .. Len(a) /\ k \in 1 .. Len(s) /\ k \in 0 .. Len(a)
  BY <1>2, <1>6
<1>8. m = w[n + 1] /\ n + 1 \in 1 .. Len(w) /\ m \in Sendable
  <2>1. m = w[n + 1]
    BY <1>2 DEF Current
  <2>2. s # <<>>
    BY <1>7, <1>3
  <2>3. n < Len(w)
    BY <1>5, <2>2 DEF Line, Begins
  <2> QED BY <1>3, <2>1, <2>3
<1>9. FrameLen(m) \in Nat /\ FrameLen(m) >= 2
  BY <1>8, FrameShape
<1>10. Len(h) + k <= FrameLen(m)
  <2>1. CASE op[e].kind = "head"
    <3>1. Len(h) + op[e].left = 2
      BY <1>1, <1>2, <2>1 DEF InCall, HeaderPieces
    <3> QED BY <1>3, <1>6, <1>9, <3>1
  <2>2. CASE op[e].kind = "body"
    <3>1. Len(h) + op[e].left = FrameLen(m)
      BY <1>1, <1>2, <2>2 DEF InCall
    <3> QED BY <1>3, <1>6, <1>9, <3>1
  <2> QED BY <2>1, <2>2
<1>11. SubSeq(s, k + 1, Len(s)) = r
  <2>1. a \in Seq(Pieces) /\ u \in Seq(Pieces) /\ k \in 0 .. Len(a)
    BY <1>3, <1>7
  <2>2. SubSeq(a \o u, k + 1, Len(a \o u)) = SubSeq(a, k + 1, Len(a)) \o u
    BY <2>1, RestOfAll
  <2> QED BY <1>2, <1>3, <2>2
<1>12. /\ \A i \in 1 .. k : s[i] = <<w[n + 1], Len(h) + i>>
       /\ Line(r, w, IF Len(h) + k = FrameLen(w[n + 1]) THEN n + 1 ELSE n,
               IF Len(h) + k = FrameLen(w[n + 1]) THEN 0 ELSE Len(h) + k)
       /\ ToTheEnd(s, w, n, Len(h)) =>
            ToTheEnd(r, w, IF Len(h) + k = FrameLen(w[n + 1]) THEN n + 1 ELSE n,
                     IF Len(h) + k = FrameLen(w[n + 1]) THEN 0 ELSE Len(h) + k)
  <2>1. s \in Seq(Pieces) /\ w \in Seq(Sendable) /\ n \in Nat /\ Len(h) \in Nat
    BY <1>3, <1>6
  <2>2. Line(s, w, n, Len(h)) /\ Rising(w) /\ k \in 1 .. Len(s)
    BY <1>5, <1>7
  <2>3. Len(h) + k <= FrameLen(w[n + 1])
    BY <1>8, <1>10
  <2>4. /\ \A i \in 1 .. k : s[i] = <<w[n + 1], Len(h) + i>>
        /\ Line(SubSeq(s, k + 1, Len(s)), w, IF Len(h) + k = FrameLen(w[n + 1]) THEN n + 1 ELSE n,
                IF Len(h) + k = FrameLen(w[n + 1]) THEN 0 ELSE Len(h) + k)
        /\ ToTheEnd(s, w, n, Len(h)) =>
            ToTheEnd(SubSeq(s, k + 1, Len(s)), w, IF Len(h) + k = FrameLen(w[n + 1]) THEN n + 1 ELSE n,
                     IF Len(h) + k = FrameLen(w[n + 1]) THEN 0 ELSE Len(h) + k)
    BY <2>1, <2>2, <2>3, LineRead
  <2> QED BY <1>11, <2>4
<1>13. got \in Seq(Pieces) /\ Len(got) = Len(h) + k /\ \A i \in 1 .. Len(h) + k : got[i] = <<m, i>>
  <2>1. \A i \in 1 .. k : a[i] = <<m, Len(h) + i>>
    <3> TAKE i \in 1 .. k
    <3>1. i \in 1 .. Len(a) /\ s[i] = <<w[n + 1], Len(h) + i>>
      BY <1>7, <1>12
    <3> QED BY <1>6, <1>8, <3>1
  <2>2. h \in Seq(Pieces) /\ a \in Seq(Pieces) /\ k \in 1 .. Len(a)
    BY <1>3, <1>7
  <2>3. \A i \in 1 .. Len(h) : h[i] = <<m, i>>
    BY <1>5, <1>8
  <2>4. /\ h \o SubSeq(a, 1, k) \in Seq(Pieces) /\ Len(h \o SubSeq(a, 1, k)) = Len(h) + k
        /\ \A i \in 1 .. Len(h) + k : (h \o SubSeq(a, 1, k))[i] = <<m, i>>
    BY <2>1, <2>2, <2>3, ReadOn
  <2> QED BY <1>2, <2>4
<1>14. PICK n1, g1 : /\ n1 = (IF Len(got) = FrameLen(m) THEN n + 1 ELSE n)
                    /\ g1 = (IF Len(got) = FrameLen(m) THEN 0 ELSE Len(got))
  OBVIOUS
<1>15. Line(r, w, n1, g1) /\ (MayUse(c, Peer(e)) => ToTheEnd(r, w, n1, g1))
  BY <1>5, <1>8, <1>12, <1>13, <1>14
<1>16. /\ m = w[n + 1] /\ m \in Sendable /\ n + 1 \in 1 .. Len(w)
       /\ got \in Seq(Pieces) /\ Len(got) = Len(h) + k /\ Len(got) <= FrameLen(m)
       /\ \A i \in 1 .. Len(got) : got[i] = <<m, i>>
  BY <1>8, <1>10, <1>13
<1> QED BY <1>2, <1>14, <1>15, <1>16

LEMMA HeaderLength ==
  ASSUME NEW m \in Sendable, NEW got \in Seq(Pieces), Len(got) = HeaderPieces,
         \A i \in 1 .. Len(got) : got[i] = <<m, i>>
  PROVE  LengthsOf(got) = {Lengths[m]}
<1>1. got[1] = <<m, 1>> /\ Len(got) = 2
  BY DEF HeaderPieces
<1>2. got = SubSeq(Frame(m), 1, 2)
  <2>1. /\ Frame(m) \in Seq(Pieces) /\ Len(Frame(m)) = FrameLen(m) /\ FrameLen(m) >= 2
        /\ FrameLen(m) \in Nat /\ \A i \in 1 .. FrameLen(m) : Frame(m)[i] = <<m, i>>
    BY FrameShape
  <2>2. /\ SubSeq(Frame(m), 1, 2) \in Seq(Pieces) /\ Len(SubSeq(Frame(m), 1, 2)) = 2
        /\ \A i \in 1 .. 2 : SubSeq(Frame(m), 1, 2)[i] = Frame(m)[i]
    <3>1. 2 \in 0 .. Len(Frame(m))
      BY <2>1
    <3> QED BY <2>1, <3>1, Sequel
  <2>3. \A i \in 1 .. 2 : got[i] = SubSeq(Frame(m), 1, 2)[i]
    <3>1. 1 .. 2 \subseteq 1 .. FrameLen(m)
      BY <2>1
    <3> QED BY <1>1, <2>1, <2>2, <3>1
  <2> QED BY <1>1, <2>2, <2>3, SeqEqual
<1> QED BY <1>1, <1>2 DEF LengthsOf, HeaderPieces

-----------------------------------------------------------------------------
(* Calls *)

LEMMA InCallIdle ==
  ASSUME NEW e \in Ends, op'[e] = Idle
  PROVE  InCall(e)'
BY DEF InCall, Idle

LEMMA InCallStays ==
  ASSUME SocketsInv, NEW e \in Ends, op'[e] = op[e], connfd'[e] = connfd[e],
         e \in spent' => e \in spent, reset \subseteq reset',
         op[e].kind = "body" /\ connfd[e] \notin reset => Current(e)' = Current(e)
  PROVE  InCall(e)'
<1>1. InCall(e)
  BY DEF SocketsInv
<1> QED BY <1>1 DEF InCall

\* The message that an end is in the middle of is not changed by what its peer
\* writes behind it.
LEMMA CurrentStays ==
  ASSUME SocketsInv, NEW e \in Ends, op[e].got # <<>>, op[e].kind = "body",
         connfd[e] \notin reset, connfd'[e] = connfd[e],
         taken'[Now(e)] = taken[Now(e)],
         \/ written'[<<connfd[e], Peer(e)>>] = written[<<connfd[e], Peer(e)>>]
         \/ \E m \in Sendable : written'[<<connfd[e], Peer(e)>>] =
                                  Append(written[<<connfd[e], Peer(e)>>], m)
  PROVE  Current(e)' = Current(e)
<1>1. PICK w, v, n : /\ w = written[<<connfd[e], Peer(e)>>] /\ v = written'[<<connfd[e], Peer(e)>>]
                     /\ n = Len(taken[Now(e)])
  OBVIOUS
<1>2. connfd[e] \in Conns /\ connfd[e] # 0 /\ e \notin spent
  BY Known1
<1>3. w \in Seq(Sendable) /\ taken[Now(e)] \in Seq(Seq(Pieces)) /\ n \in Nat
  BY <1>1, <1>2, StreamTypes DEF Now
<1>4. n < Len(w)
  BY <1>1, <1>2, BodyOfMessage
<1>5. v[n + 1] = w[n + 1]
  <2>1. CASE v = w
    BY <2>1
  <2>2. CASE \E m \in Sendable : v = Append(w, m)
    <3>1. n + 1 \in 1 .. Len(w)
      BY <1>3, <1>4
    <3> QED BY <1>3, <2>2, <3>1
  <2> QED BY <1>1, <2>1, <2>2
<1>6. Current(e) = w[n + 1]
  BY <1>1 DEF Current
<1>7. Current(e)' = v[n + 1]
  BY <1>1 DEF Current, Now
<1> QED BY <1>5, <1>6, <1>7

LEMMA InCallStep == SocketsInv /\ [SocketsNext]_svars => \A e \in Ends : InCall(e)'
<1> SUFFICES ASSUME SocketsInv, [SocketsNext]_svars, NEW x \in Ends
             PROVE  InCall(x)'
  OBVIOUS
<1>0. SocketTypes /\ InCall(x)
  BY DEF SocketsInv
<1>t. op \in [Ends -> Calls] /\ connfd \in [Ends -> 0 .. made] /\ Ends = {"client", "server"}
      /\ "client" # "server"
  BY <1>0 DEF SocketTypes, Ends
<1>b. op[x].kind = "body" => op[x].got # <<>>
  BY <1>0 DEF InCall
<1>i. ASSUME NEW e \in Ends, op[e] = Idle, op' = op, \A y \in Ends \ {e} : connfd'[y] = connfd[y],
             spent' \subseteq spent, reset \subseteq reset', UNCHANGED <<taken, written>>
      PROVE  InCall(x)'
  <2>1. CASE x = e
    BY <1>i, <2>1, InCallIdle
  <2>2. CASE x # e
    <3>1. Current(x)' = Current(x) /\ connfd'[x] = connfd[x]
      BY <1>i, <2>2 DEF Current, Now
    <3> QED BY <1>i, <3>1, InCallStays
  <2> QED BY <2>1, <2>2
<1>1. ASSUME NEW ok \in BOOLEAN, InitServer(ok) PROVE InCall(x)'
  BY <1>1, <1>i DEF InitServer, Free, Ends
<1>2. CASE ConnectToServer
  <2>1. \A y \in Ends \ {"client"} : connfd'[y] = connfd[y]
    BY <1>2, <1>t DEF ConnectToServer
  <2> QED BY <1>2, <1>i, <2>1 DEF ConnectToServer, Free, Ends
<1>3. CASE ConnectFails
  <2>1. \A y \in Ends \ {"client"} : connfd'[y] = connfd[y]
    BY <1>3, <1>t DEF ConnectFails
  <2> QED BY <1>3, <1>i, <2>1 DEF ConnectFails, Free, Ends
<1>4. CASE Accept
  <2>1. \A y \in Ends \ {"server"} : connfd'[y] = connfd[y]
    BY <1>4, <1>t DEF Accept
  <2> QED BY <1>4, <1>i, <2>1 DEF Accept, Free, Ends
<1>5. CASE AcceptFails
  <2>1. \A y \in Ends \ {"server"} : connfd'[y] = connfd[y]
    BY <1>5, <1>t DEF AcceptFails
  <2> QED BY <1>5, <1>i, <2>1 DEF AcceptFails, Free, Ends
<1>6. ASSUME NEW e \in Ends, Close(e) PROVE InCall(x)'
  <2>1. \A y \in Ends \ {e} : connfd'[y] = connfd[y]
    BY <1>6, <1>t DEF Close
  <2> QED BY <1>6, <1>i, <2>1 DEF Close, Free
<1>7. ASSUME NEW e \in Ends, Write(e) PROVE InCall(x)'
  <2>1. told + 1 \in Sendable
    BY <1>0, <1>7, SocketsAssumption DEF Write, SocketTypes, Sendable
  <2>2. CASE x = e
    <3>1. op'[x] = Outgoing(e, told + 1)
      BY <1>7, <1>t, <2>2 DEF Write
    <3>2. Frame(told + 1) # <<>>
      BY <2>1, FrameShape
    <3>3. /\ op'[x].kind = "write" /\ op'[x].rest # <<>> /\ op'[x].got = <<>>
      BY <3>1, <3>2 DEF Outgoing, Idle
    <3>4. connfd'[x] # 0 /\ x \notin spent'
      BY <1>7, <2>2 DEF Write, Ready
    <3> QED BY <3>3, <3>4 DEF InCall
  <2>3. CASE x # e
    <3>1. op'[x] = op[x] /\ UNCHANGED <<connfd, spent, reset, taken>>
      BY <1>7, <1>t, <2>3 DEF Write
    <3>2. \/ written'[<<connfd[x], Peer(x)>>] = written[<<connfd[x], Peer(x)>>]
          \/ written'[<<connfd[x], Peer(x)>>] = Append(written[<<connfd[x], Peer(x)>>], told + 1)
          \/ op[x].kind # "body"
      <4>1. op[x].kind = "body" => <<connfd[x], Peer(x)>> \in Conns \X Ends
        BY Known1, Peers
      <4> QED BY <1>7, <1>0, <4>1 DEF Write, SocketTypes
    <3>3. op[x].kind = "body" /\ connfd[x] \notin reset => Current(x)' = Current(x)
      BY <1>b, <2>1, <3>1, <3>2, CurrentStays
    <3> QED BY <3>1, <3>3, InCallStays
  <2> QED BY <2>2, <2>3
<1>a. ASSUME NEW e \in Ends, x # e, \A y \in Ends \ {e} : op'[y] = op[y],
             spent' \subseteq spent \cup {e}, \A y \in Conns \X Ends : y # Now(e) => taken'[y] = taken[y],
             UNCHANGED <<connfd, reset, written>>
      PROVE  InCall(x)'
  <2>1. op'[x] = op[x] /\ (x \in spent' => x \in spent)
    BY <1>a
  <2>2. ASSUME op[x].kind = "body" PROVE Current(x)' = Current(x)
    <3>1. Now(x) \in Conns \X Ends
      BY <2>2, Known1
    <3>2. Now(x) # Now(e)
      BY <1>a DEF Now
    <3> QED BY <1>a, <3>1, <3>2 DEF Current, Now
  <2> QED BY <1>a, <2>1, <2>2, InCallStays
<1>8. ASSUME NEW e \in Ends, NEW k \in Nat, Writen(e, k) PROVE InCall(x)'
  <2>1. CASE x = e /\ k = Len(op[e].rest)
    BY <1>8, <1>t, <2>1, InCallIdle DEF Writen, Returns
  <2>2. CASE x = e /\ k # Len(op[e].rest)
    <3>1. op[e].rest \in Seq(Pieces)
      BY <1>t DEF Calls
    <3>2. SubSeq(op[e].rest, k + 1, Len(op[e].rest)) # <<>>
      <4>1. k \in 0 .. Len(op[e].rest) /\ Len(op[e].rest) - k > 0
        BY <1>8, <2>2, <3>1 DEF Writen
      <4>2. Len(SubSeq(op[e].rest, k + 1, Len(op[e].rest))) = Len(op[e].rest) - k
        BY <3>1, <4>1, Sequel
      <4>3. PICK z : z = SubSeq(op[e].rest, k + 1, Len(op[e].rest))
        OBVIOUS
      <4>4. Len(z) > 0
        BY <4>1, <4>2, <4>3
      <4>5. z # <<>>
        BY <4>4
      <4> QED BY <4>3, <4>5
    <3>3. op'[x] = [op[x] EXCEPT !.rest = SubSeq(op[x].rest, k + 1, Len(op[x].rest))]
      BY <1>8, <1>t, <2>2 DEF Writen
    <3>4. op'[x].kind = "write" /\ op'[x].rest # <<>> /\ op'[x].got = op[x].got
      BY <1>8, <1>t, <2>2, <3>2, <3>3 DEF Writen, Calls
    <3> QED BY <1>0, <1>8, <2>2, <3>4 DEF InCall, Writen
  <2>3. CASE x # e
    BY <1>8, <1>a, <1>t, <2>3 DEF Writen, Returns
  <2> QED BY <2>1, <2>2, <2>3
<1>9. ASSUME NEW e \in Ends, WritenFails(e) \/ ReadnFails(e) \/ Interrupt(e) \/ TimesOut(e)
      PROVE  InCall(x)'
  <2>1. \E ok \in BOOLEAN : Returns(e, ok) /\ UNCHANGED <<connfd, reset, written, taken>>
    BY <1>9 DEF WritenFails, ReadnFails, Interrupt, TimesOut
  <2>2. CASE x = e
    BY <1>t, <2>1, <2>2, InCallIdle DEF Returns
  <2>3. CASE x # e
    BY <1>a, <1>t, <2>1, <2>3 DEF Returns
  <2> QED BY <2>2, <2>3
<1>10. ASSUME NEW e \in Ends, Read(e) PROVE InCall(x)'
  <2>1. CASE x = e
    <3>1. /\ op'[x].kind \in {"poll", "head"} /\ op'[x].left = 2 /\ op'[x].got = <<>> /\ op'[x].rest = <<>>
          /\ connfd' = connfd /\ spent' = spent
      BY <1>10, <1>t, <2>1 DEF Read, Idle, HeaderPieces
    <3>2. connfd'[x] # 0 /\ x \notin spent'
      BY <1>10, <2>1, <3>1 DEF Read, Ready
    <3> QED BY <3>1, <3>2 DEF InCall, HeaderPieces
  <2>2. CASE x # e
    BY <1>10, <1>a, <1>t, <2>2 DEF Read
  <2> QED BY <2>1, <2>2
<1>11. ASSUME NEW e \in Ends, Poll(e) PROVE InCall(x)'
  <2>1. CASE x = e
    <3>1. /\ op'[x].kind = "head" /\ op'[x].left = op[x].left /\ op'[x].got = op[x].got
          /\ op'[x].rest = op[x].rest /\ connfd' = connfd /\ spent' = spent /\ op[x].kind = "poll"
      BY <1>11, <1>t, <2>1 DEF Poll, Calls
    <3> QED BY <1>0, <3>1 DEF InCall
  <2>2. CASE x # e
    BY <1>11, <1>a, <1>t, <2>2 DEF Poll
  <2> QED BY <2>1, <2>2
<1>12. ASSUME NEW e \in Ends, NEW k \in Nat, Readn(e, k) PROVE InCall(x)'
  <2>1. CASE x # e
    <3>1. /\ \A y \in Ends \ {e} : op'[y] = op[y]
          /\ spent' \subseteq spent \cup {e}
          /\ \A y \in Conns \X Ends : y # Now(e) => taken'[y] = taken[y]
      BY <1>12, <1>t, <1>0 DEF Readn, ReadnDone, Returns, SocketTypes
    <3> QED BY <1>12, <1>a, <2>1, <3>1 DEF Readn
  <2>2. CASE x = e
    <3>1. PICK got, m : got = op[x].got \o SubSeq(Arrived(x), 1, k) /\ m = Current(x)
      OBVIOUS
    <3>2. /\ m \in Sendable /\ got \in Seq(Pieces) /\ Len(got) = Len(op[x].got) + k
          /\ \A i \in 1 .. Len(got) : got[i] = <<m, i>>
      BY <1>12, <2>2, <3>1, Reading DEF Readn
    <3>3. /\ op[x] \in Calls /\ op[x].left \in Nat /\ Len(op[x].got) \in Nat /\ k \in 1 .. op[x].left
          /\ op[x].rest = <<>>
      BY <1>0, <1>12, <1>t, <2>2 DEF Readn, Calls, InCall
    <3>4. got # <<>>
      BY <3>2, <3>3
    <3>5. connfd'[x] # 0 /\ x \notin spent /\ op[x].kind \in {"head", "body"} /\ connfd' = connfd
          /\ reset' = reset /\ written' = written /\ op[x].kind # "idle"
      BY <1>0, <1>12, <2>2 DEF Readn, InCall
    <3>6. CASE k # op[x].left
      <4>1. /\ op'[x] = [op[x] EXCEPT !.left = op[x].left - k, !.got = got]
            /\ spent' = spent /\ taken' = taken
        BY <1>12, <1>t, <2>2, <3>1, <3>6 DEF Readn
      <4>2. /\ op'[x].kind = op[x].kind /\ op'[x].left = op[x].left - k /\ op'[x].got = got
            /\ op'[x].rest = <<>>
        BY <3>3, <4>1 DEF Calls
      <4>3. op'[x].left > 0 /\ Len(op'[x].got) + op'[x].left = Len(op[x].got) + op[x].left
        <5>1. op'[x].left = op[x].left - k /\ Len(op'[x].got) = Len(op[x].got) + k
          BY <3>2, <4>2
        <5>2. /\ op[x].left \in Nat /\ Len(op[x].got) \in Nat /\ k \in 1 .. op[x].left
          BY <3>3
        <5> QED BY <3>6, <5>1, <5>2
      <4>4. Current(x)' = Current(x)
        BY <3>5, <4>1 DEF Current, Now
      <4> QED BY <1>0, <3>4, <3>5, <4>1, <4>2, <4>3, <4>4 DEF InCall
    <3>7. CASE k = op[x].left
      <4>1. PICK n : ReadnDone(x, got, n) /\ (op[x].kind = "head" => n \in LengthsOf(got))
        BY <1>12, <2>2, <3>1, <3>7 DEF Readn
      <4>2. CASE ~(op[x].kind = "head" /\ n > 0)
        BY <1>t, <4>1, <4>2, InCallIdle DEF ReadnDone, Returns
      <4>3. CASE op[x].kind = "head" /\ n > 0
        <5>1. Len(got) = HeaderPieces
          BY <1>0, <3>2, <3>3, <3>7, <4>3 DEF InCall
        <5>2. n = Lengths[m] /\ n \in Nat
          <6>1. LengthsOf(got) = {Lengths[m]}
            BY <3>2, <5>1, HeaderLength
          <6>2. n = Lengths[m]
            BY <4>1, <4>3, <6>1
          <6> QED BY <3>2, <6>2, SocketsAssumption DEF Sendable
        <5>3. op'[x].kind = "body" /\ op'[x].left = n /\ op'[x].got = got /\ op'[x].rest = <<>>
          <6>1. op'[x] = [op[x] EXCEPT !.kind = "body", !.left = n, !.got = got]
            BY <1>t, <4>1, <4>3 DEF ReadnDone
          <6> QED BY <3>3, <6>1 DEF Calls
        <5>4. taken' = taken /\ spent' = spent
          BY <4>1, <4>3 DEF ReadnDone
        <5>5. Current(x)' = m
          BY <3>1, <3>5, <5>4 DEF Current, Now
        <5>6. Len(got) + n = FrameLen(m)
          BY <5>1, <5>2 DEF FrameLen, HeaderPieces
        <5> QED BY <3>4, <3>5, <4>3, <5>3, <5>4, <5>5, <5>6 DEF InCall
      <4> QED BY <4>2, <4>3
    <3> QED BY <3>6, <3>7
  <2> QED BY <2>1, <2>2
<1>13. ASSUME NEW c \in Conns, Reset(c) PROVE InCall(x)'
  <2>1. Current(x)' = Current(x)
    BY <1>13 DEF Reset, Current, Now
  <2> QED BY <1>13, <2>1, InCallStays DEF Reset
<1>14. CASE UNCHANGED svars
  <2>1. Current(x)' = Current(x)
    BY <1>14 DEF svars, Current, Now
  <2> QED BY <1>14, <2>1, InCallStays DEF svars
<1>15. 1 .. 4 \subseteq Nat
  OBVIOUS
<1> QED BY <1>1, <1>2, <1>3, <1>4, <1>5, <1>6, <1>7, <1>8, <1>9, <1>10, <1>11, <1>12, <1>13,
           <1>14, <1>15 DEF SocketsNext, CloseListen, Proceed

-----------------------------------------------------------------------------
(* Streams *)

LEMMA FlowsEmpty ==
  ASSUME NEW rd \in BOOLEAN, NEW wr \in BOOLEAN
  PROVE  Flows(<<>>, <<>>, <<>>, <<>>, rd, wr)
<1>1. Len(<<>>) = 0
  OBVIOUS
<1> QED BY <1>1 DEF Flows, Rising, Line, Begins, Known, Unbroken, Joined, ToTheEnd

LEMMA FlowsUnread ==
  ASSUME NEW w, NEW t, NEW s, NEW h, NEW r, NEW g, NEW rd \in BOOLEAN, NEW wr \in BOOLEAN,
         NEW x \in BOOLEAN, Flows(w, t, s, h, rd, wr)
  PROVE  Flows(w, t, r, g, FALSE, x)
BY DEF Flows

\* What another end, another connection or a failure does to a stream: nothing,
\* or it has lost its reader or its writer.
LEMMA StreamKept ==
  ASSUME SocketsInv, NEW c \in Conns, NEW e \in Ends,
         told' \in Nat, told' >= told, made' \in Nat, made' >= made,
         written'[<<c, Peer(e)>>] = written[<<c, Peer(e)>>], taken'[<<c, e>>] = taken[<<c, e>>],
         wire'[<<c, e>>] = wire[<<c, e>>] \/ wire'[<<c, e>>] = <<>>,
         c \in reset' /\ Attached(c, e)' => wire'[<<c, e>>] = <<>>,
         MayUse(c, e)' => /\ MayUse(c, e) /\ Held(c, e)' = Held(c, e)
                          /\ wire'[<<c, e>>] = wire[<<c, e>>],
         MayUse(c, e)' /\ MayUse(c, Peer(e))' =>
           MayUse(c, Peer(e)) /\ Unsent(c, Peer(e))' = Unsent(c, Peer(e))
  PROVE  Streams(c, e)'
<1>1. PICK w, t, a, h : /\ w = written[<<c, Peer(e)>>] /\ t = taken[<<c, e>>]
                        /\ a = wire[<<c, e>>] /\ h = Held(c, e)
  OBVIOUS
<1>2. /\ w \in Seq(Sendable) /\ t \in Seq(Seq(Pieces)) /\ a \in Seq(Pieces) /\ h \in Seq(Pieces)
  BY <1>1, StreamTypes
<1>3. Bounded(c, e) /\ Flows(w, t, Coming(c, e), h, MayUse(c, e), MayUse(c, Peer(e)))
  BY <1>1 DEF SocketsInv, Streams
<1>4. Bounded(c, e)'
  <2>1. told \in Nat /\ made \in Nat /\ c \in Nat
    BY SocketsAssumption DEF SocketsInv, SocketTypes, Conns
  <2>2. \A i \in 1 .. Len(w) : w[i] \in Nat /\ w[i] <= told
    <3>1. \A i \in 1 .. Len(w) : w[i] \in Nat
      BY <1>2 DEF Sendable
    <3>2. \A i \in 1 .. Len(w) : w[i] <= told
      BY <1>1, <1>3 DEF Bounded
    <3> QED BY <3>1, <3>2
  <2>3. \A i \in 1 .. Len(w) : w[i] <= told'
    BY <2>1, <2>2
  <2>4. c > made' => c > made
    BY <2>1
  <2> QED BY <1>1, <1>3, <2>3, <2>4 DEF Bounded
<1>5. Flows(written'[<<c, Peer(e)>>], taken'[<<c, e>>], Coming(c, e)', Held(c, e)',
            MayUse(c, e)', MayUse(c, Peer(e))')
  <2>0. PICK r, g, x, y : /\ r = Coming(c, e)' /\ g = Held(c, e)' /\ x = MayUse(c, e)' /\ x \in BOOLEAN
                          /\ y = MayUse(c, Peer(e))' /\ y \in BOOLEAN
    <3>1. MayUse(c, e)' \in BOOLEAN /\ MayUse(c, Peer(e))' \in BOOLEAN
      BY DEF MayUse
    <3> QED BY <3>1
  <2>1. CASE ~MayUse(c, e)'
    <3>1. Flows(w, t, r, g, FALSE, y)
      <4>1. MayUse(c, e) \in BOOLEAN /\ MayUse(c, Peer(e)) \in BOOLEAN
        BY DEF MayUse
      <4> QED BY <1>3, <2>0, <4>1, FlowsUnread
    <3>2. x = FALSE
      BY <2>0, <2>1
    <3> QED BY <1>1, <2>0, <3>1, <3>2
  <2>2. CASE MayUse(c, e)' /\ MayUse(c, Peer(e))'
    <3>1. Coming(c, e)' = Coming(c, e) /\ g = h
      BY <1>1, <2>0, <2>2 DEF Coming
    <3>2. MayUse(c, e) /\ MayUse(c, Peer(e))
      BY <2>2
    <3> QED BY <1>1, <1>3, <2>0, <2>2, <3>1, <3>2
  <2>3. CASE MayUse(c, e)' /\ ~MayUse(c, Peer(e))'
    <3>1. PICK u : u = (IF MayUse(c, Peer(e)) THEN Unsent(c, Peer(e)) ELSE <<>>)
      OBVIOUS
    <3>2. u \in Seq(Pieces) /\ Coming(c, e) = a \o u
      <4>1. Unsent(c, Peer(e)) \in Seq(Pieces) /\ <<>> \in Seq(Pieces)
        BY StreamTypes, Peers
      <4> QED BY <1>1, <3>1, <4>1 DEF Coming
    <3>3. Flows(w, t, a \o u, h, TRUE, MayUse(c, Peer(e)))
      BY <1>3, <2>3, <3>2
    <3>4. Flows(w, t, a, h, TRUE, FALSE)
      <4>1. Line(a \o u, w, Len(t), Len(h))
        BY <3>3 DEF Flows
      <4>2. Line(a, w, Len(t), Len(h))
        BY <1>2, <3>2, <4>1, LineFront
      <4> QED BY <3>3, <4>2 DEF Flows
    <3>5. r = a /\ g = h /\ x = TRUE /\ y = FALSE
      <4>1. r = a \o <<>>
        BY <1>1, <2>0, <2>3 DEF Coming
      <4> QED BY <1>1, <1>2, <2>0, <2>3, <4>1
    <3> QED BY <1>1, <2>0, <3>4, <3>5
  <2> QED BY <2>1, <2>2, <2>3
<1> QED BY <1>4, <1>5 DEF Streams

LEMMA MayUseBoolean == \A c, e : MayUse(c, e) \in BOOLEAN
BY DEF MayUse

\* An end that is in no call lets its connection go or takes the next one.
LEMMA EndMoves ==
  ASSUME SocketsInv, NEW e \in Ends, op[e] = Idle,
         UNCHANGED <<op, made, reset, wire, told, written, taken>>,
         \A y \in Ends \ {e} : connfd'[y] = connfd[y],
         connfd'[e] = 0 \/ (e = "server" /\ connfd'[e] \in Range(pending)),
         Range(pending)' \subseteq Range(pending), spent' = spent \ {e}
  PROVE  \A c \in Conns, x \in Ends : Streams(c, x)'
<1> SUFFICES ASSUME NEW c \in Conns, NEW x \in Ends PROVE Streams(c, x)'
  OBVIOUS
<1>1. c # 0 /\ told \in Nat /\ made \in Nat
  BY SocketsAssumption DEF Conns, SocketsInv, SocketTypes
<1>2. c \in Range(pending) => connfd["server"] # c
  BY Known1 DEF SocketsInv, Connections
<1>3. op[e].got = <<>> /\ op[e].rest = <<>>
  BY DEF Idle
<1>4. ASSUME NEW y \in Ends, Attached(c, y)'
      PROVE  /\ Attached(c, y) /\ Held(c, y)' = Held(c, y) /\ Unsent(c, y)' = Unsent(c, y)
             /\ (connfd'[y] = c => y \notin spent') => (connfd[y] = c => y \notin spent)
  <2>1. CASE y = e
    <3>1. e = "server" /\ c \in Range(pending)
      BY <1>1, <1>4, <2>1 DEF Attached
    <3>2. connfd[e] # c
      BY <1>2, <3>1
    <3> QED BY <1>3, <2>1, <3>1, <3>2 DEF Attached, Held, Unsent
  <2>2. CASE y # e
    BY <1>4, <2>2 DEF Attached, Held, Unsent
  <2> QED BY <2>1, <2>2
<1>5. ASSUME NEW y \in Ends, MayUse(c, y)' PROVE MayUse(c, y)
  BY <1>4, <1>5 DEF MayUse
<1>6. Peer(x) \in Ends
  BY Peers
<1>7. c \in reset' /\ Attached(c, x)' => wire'[<<c, x>>] = <<>>
  BY <1>4 DEF SocketsInv, Streams, Bounded
<1>8. MayUse(c, x)' => MayUse(c, x) /\ Held(c, x)' = Held(c, x)
  BY <1>4, <1>5 DEF MayUse
<1>9. MayUse(c, Peer(x))' => MayUse(c, Peer(x)) /\ Unsent(c, Peer(x))' = Unsent(c, Peer(x))
  BY <1>4, <1>5, <1>6 DEF MayUse
<1> QED BY <1>1, <1>7, <1>8, <1>9, StreamKept

\* An end begins a Read, goes on in it or ends a call that has left nothing
\* behind; or its call fails, and it uses the connection no further.
LEMMA EndCalls ==
  ASSUME SocketsInv, NEW e \in Ends, \A y \in Ends \ {e} : op'[y] = op[y],
         UNCHANGED <<pending, made, connfd, reset, wire, told, written, taken>>,
         \/ spent' = spent /\ op'[e].got = op[e].got /\ op'[e].rest = op[e].rest
         \/ spent' = spent \cup {e} /\ op'[e] = Idle
  PROVE  \A c \in Conns, x \in Ends : Streams(c, x)'
<1> SUFFICES ASSUME NEW c \in Conns, NEW x \in Ends PROVE Streams(c, x)'
  OBVIOUS
<1>1. told \in Nat /\ made \in Nat
  BY SocketsAssumption DEF SocketsInv, SocketTypes
<1>2. ASSUME NEW y \in Ends, MayUse(c, y)'
      PROVE  MayUse(c, y) /\ Held(c, y)' = Held(c, y) /\ Unsent(c, y)' = Unsent(c, y)
  <2>1. MayUse(c, y)
    BY <1>2 DEF MayUse, Attached
  <2>2. CASE connfd[y] = c
    <3>1. y \notin spent'
      BY <1>2, <2>2 DEF MayUse
    <3>2. op'[y].got = op[y].got /\ op'[y].rest = op[y].rest
      BY <3>1
    <3> QED BY <2>1, <3>2 DEF Held, Unsent
  <2>3. CASE connfd[y] # c
    BY <2>1, <2>3 DEF Held, Unsent
  <2> QED BY <2>2, <2>3
<1>3. Peer(x) \in Ends
  BY Peers
<1>4. c \in reset' /\ Attached(c, x)' => wire'[<<c, x>>] = <<>>
  BY DEF SocketsInv, Streams, Bounded, Attached
<1> QED BY <1>1, <1>2, <1>3, <1>4, StreamKept

LEMMA InitServerStreams ==
  ASSUME SocketsInv, NEW ok \in BOOLEAN, InitServer(ok), NEW c \in Conns, NEW x \in Ends
  PROVE  Streams(c, x)'
<1>1. told \in Nat /\ made \in Nat
  BY SocketsAssumption DEF SocketsInv, SocketTypes
<1>2. Range(pending)' = {}
  BY DEF InitServer, Range
<1>3. \A y \in Ends : /\ Attached(c, y)' => connfd[y] = c
                      /\ Held(c, y)' = Held(c, y) /\ Unsent(c, y)' = Unsent(c, y)
                      /\ MayUse(c, y)' => MayUse(c, y)
  BY <1>2 DEF InitServer, MayUse, Attached, Held, Unsent
<1>4. ASSUME c \in reset', Attached(c, x)' PROVE wire'[<<c, x>>] = <<>>
  <2>1. connfd[x] = c /\ wire' = wire
    BY <1>3, <1>4 DEF InitServer
  <2>2. CASE c \in reset
    BY <2>1, <2>2 DEF SocketsInv, Streams, Bounded, Attached
  <2>3. CASE c \in Range(pending)
    <3>1. connfd["server"] # c /\ Fresh(c)
      BY <2>3, Known1 DEF SocketsInv, Connections
    <3>2. x = "client"
      BY <2>1, <3>1 DEF Ends
    <3> QED BY <2>1, <3>1, <3>2 DEF Fresh
  <2> QED BY <1>4, <2>2, <2>3 DEF InitServer
<1> QED BY <1>1, <1>3, <1>4, Peers, StreamKept DEF InitServer

LEMMA ConnectStreams ==
  ASSUME SocketsInv, ConnectToServer, NEW c \in Conns, NEW x \in Ends
  PROVE  Streams(c, x)'
<1>1. told \in Nat /\ made \in Nat /\ c \in Nat
  BY SocketsAssumption DEF SocketsInv, SocketTypes, Conns
<1>2. /\ made' = made + 1 /\ connfd'["client"] = made + 1 /\ connfd'["server"] = connfd["server"]
      /\ op["client"] = Idle /\ spent' = spent \ {"client"}
      /\ UNCHANGED <<reset, wire, op, told, written, taken>>
  BY DEF ConnectToServer, SocketsInv, SocketTypes, Ends, Free
<1>3. Range(pending)' = Range(pending) \cup {made + 1}
  <2>1. /\ pending \in Seq(1 .. made) /\ pending' = Append(pending, made + 1)
    BY DEF ConnectToServer, SocketsInv, SocketTypes
  <2>2. /\ DOMAIN pending' = 1 .. Len(pending) + 1 /\ DOMAIN pending = 1 .. Len(pending)
        /\ Len(pending) \in Nat
        /\ pending'[Len(pending) + 1] = made + 1
        /\ \A i \in 1 .. Len(pending) : pending'[i] = pending[i]
    BY <2>1
  <2>3. Range(pending') = Range(pending) \cup {made + 1}
    BY <2>2 DEF Range
  <2> QED BY <2>3 DEF Range
<1>4. "client" # "server" /\ Ends = {"client", "server"}
  BY DEF Ends
<1>5. CASE c = made + 1
  <2>1. c > made /\ connfd["server"] # c
    BY <1>1, <1>4, <1>5, Known1
  <2>2. wire[<<c, x>>] = <<>> /\ taken[<<c, x>>] = <<>> /\ written[<<c, Peer(x)>>] = <<>>
    BY <2>1 DEF SocketsInv, Streams, Bounded
  <2>3. \A y \in Ends : Held(c, y)' = <<>> /\ Unsent(c, y)' = <<>>
    BY <1>2, <1>4, <2>1 DEF Held, Unsent, Idle
  <2>4. Coming(c, x)' = <<>>
    <3>1. Coming(c, x)' = <<>> \o <<>>
      BY <1>2, <2>2, <2>3, Peers DEF Coming
    <3> QED BY <3>1
  <2>5. Bounded(c, x)'
    BY <1>2, <2>2 DEF Bounded
  <2>6. PICK rd \in BOOLEAN, wr \in BOOLEAN : rd = MayUse(c, x)' /\ wr = MayUse(c, Peer(x))'
    BY DEF MayUse
  <2>7. Flows(<<>>, <<>>, <<>>, <<>>, rd, wr)
    BY FlowsEmpty
  <2> QED BY <1>2, <2>2, <2>3, <2>4, <2>5, <2>6, <2>7 DEF Streams
<1>6. CASE c # made + 1
  <2>1. ~Attached(c, "client")'
    BY <1>2, <1>4, <1>6 DEF Attached
  <2>2. /\ Attached(c, "server")' => Attached(c, "server")
        /\ Held(c, "server")' = Held(c, "server") /\ Unsent(c, "server")' = Unsent(c, "server")
        /\ MayUse(c, "server")' => MayUse(c, "server")
    BY <1>2, <1>3, <1>4, <1>6 DEF Attached, Held, Unsent, MayUse
  <2>3. \A y \in Ends : /\ Attached(c, y)' => Attached(c, y)
                        /\ MayUse(c, y)' => /\ MayUse(c, y) /\ Held(c, y)' = Held(c, y)
                                            /\ Unsent(c, y)' = Unsent(c, y)
    BY <1>4, <2>1, <2>2 DEF MayUse
  <2>4. c \in reset' /\ Attached(c, x)' => wire'[<<c, x>>] = <<>>
    BY <1>2, <2>3 DEF SocketsInv, Streams, Bounded
  <2>5. told' \in Nat /\ told' >= told /\ made' \in Nat /\ made' >= made
    BY <1>1, <1>2
  <2> QED BY <1>2, <2>3, <2>4, <2>5, Peers, StreamKept
<1> QED BY <1>5, <1>6

LEMMA ResetStreams ==
  ASSUME SocketsInv, NEW d \in Conns, Reset(d), NEW c \in Conns, NEW x \in Ends
  PROVE  Streams(c, x)'
<1>1. told \in Nat /\ made \in Nat /\ wire \in [Conns \X Ends -> Seq(Pieces)]
  BY SocketsAssumption DEF SocketsInv, SocketTypes
<1>2. \A y \in Ends : /\ Attached(c, y)' <=> Attached(c, y)
                      /\ Held(c, y)' = Held(c, y) /\ Unsent(c, y)' = Unsent(c, y)
                      /\ MayUse(c, y)' => MayUse(c, y) /\ c # d
  BY DEF Reset, Attached, Held, Unsent, MayUse
<1>3. wire'[<<c, x>>] = IF c = d THEN <<>> ELSE wire[<<c, x>>]
  BY <1>1 DEF Reset
<1>4. c \in reset' /\ Attached(c, x)' => wire'[<<c, x>>] = <<>>
  BY <1>2, <1>3 DEF Reset, SocketsInv, Streams, Bounded
<1>5. UNCHANGED <<told, made, written, taken>>
  BY DEF Reset
<1> QED BY <1>1, <1>2, <1>3, <1>4, <1>5, Peers, StreamKept

LEMMA WriteStreams ==
  ASSUME SocketsInv, NEW e \in Ends, Write(e), NEW c \in Conns, NEW x \in Ends
  PROVE  Streams(c, x)'
<1>1. /\ told \in Nat /\ made \in Nat /\ told + 1 \in Sendable /\ told' = told + 1
      /\ op \in [Ends -> Calls] /\ written \in [Conns \X Ends -> Seq(Sendable)]
  BY SocketsAssumption DEF SocketsInv, SocketTypes, Write, Sendable
<1>2. /\ connfd[e] # 0 /\ op[e] = Idle /\ e \notin spent /\ connfd[e] \in Conns /\ connfd[e] <= made
      /\ UNCHANGED <<pending, made, connfd, reset, wire, spent, taken>>
  BY Known1 DEF Write, Ready
<1>3. op[e].got = <<>> /\ op[e].rest = <<>>
  BY <1>2 DEF Idle
<1>4. op'[e].got = <<>> /\ op'[e].rest = Frame(told + 1)
  BY <1>1 DEF Write, Outgoing, Idle
<1>5. \A y \in Ends \ {e} : op'[y] = op[y]
  BY <1>1 DEF Write
<1>6. \A y \in Ends : /\ Attached(c, y)' = Attached(c, y) /\ MayUse(c, y)' = MayUse(c, y)
                      /\ Held(c, y)' = Held(c, y)
                      /\ ~(y = e /\ connfd[e] = c) => Unsent(c, y)' = Unsent(c, y)
  BY <1>2, <1>3, <1>4, <1>5 DEF Attached, MayUse, Held, Unsent
<1>7. x \in Ends /\ Peer(x) \in Ends /\ Peer(e) \in Ends /\ Peer(Peer(e)) = e
      /\ (x # Peer(e) => Peer(x) # e)
  BY Peers
<1>8. CASE ~(x = Peer(e) /\ c = connfd[e])
  <2>1. ~(Peer(x) = e /\ connfd[e] = c)
    BY <1>7, <1>8
  <2>2. written'[<<c, Peer(x)>>] = written[<<c, Peer(x)>>]
    BY <1>1, <1>7, <2>1 DEF Write, Now
  <2>3. c \in reset' /\ Attached(c, x)' => wire'[<<c, x>>] = <<>>
    BY <1>2, <1>6 DEF SocketsInv, Streams, Bounded
  <2>4. told' \in Nat /\ told' >= told /\ made' \in Nat /\ made' >= made
    BY <1>1, <1>2
  <2> QED BY <1>2, <1>6, <1>7, <2>1, <2>2, <2>3, <2>4, StreamKept
<1>9. CASE x = Peer(e) /\ c = connfd[e]
  <2>1. PICK w, m, v, t, a, h :
          /\ w = written[<<c, e>>] /\ m = told + 1 /\ v = Append(w, m) /\ t = taken[<<c, x>>]
          /\ a = wire[<<c, x>>] /\ h = Held(c, x)
    OBVIOUS
  <2>2. /\ w \in Seq(Sendable) /\ t \in Seq(Seq(Pieces)) /\ a \in Seq(Pieces) /\ h \in Seq(Pieces)
        /\ m \in Sendable /\ Frame(m) \in Seq(Pieces)
    BY <1>1, <1>7, <1>9, <2>1, StreamTypes, FrameShape
  <2>3. written'[<<c, e>>] = v /\ Peer(x) = e
    BY <1>1, <1>2, <1>7, <1>9, <2>1 DEF Write, Now
  <2>4. Bounded(c, x) /\ Flows(w, t, Coming(c, x), h, MayUse(c, x), MayUse(c, e))
    BY <1>7, <1>9, <2>1 DEF SocketsInv, Streams
  <2>5. \A i \in 1 .. Len(w) : w[i] \in Nat /\ w[i] <= told /\ w[i] < m
    <3>1. \A i \in 1 .. Len(w) : w[i] <= told
      BY <1>7, <1>9, <2>1, <2>4 DEF Bounded
    <3>2. \A i \in 1 .. Len(w) : w[i] \in Nat
      BY <2>2 DEF Sendable
    <3>3. ASSUME NEW i \in 1 .. Len(w) PROVE w[i] \in Nat /\ w[i] <= told /\ w[i] < m
      <4>1. w[i] \in Nat /\ w[i] <= told /\ told \in Nat /\ m = told + 1
        BY <1>1, <2>1, <3>1, <3>2
      <4> QED BY <4>1
    <3> QED BY <3>3
  <2>6. /\ Len(v) = Len(w) + 1 /\ v[Len(w) + 1] = m /\ Len(w) \in Nat
        /\ \A i \in 1 .. Len(w) : v[i] = w[i]
    BY <2>1, <2>2
  <2>7. Rising(v)
    <3>1. ASSUME NEW i \in 1 .. Len(w) + 1, NEW j \in 1 .. Len(w) + 1, i < j
          PROVE  v[i] < v[j]
      <4>1. i \in 1 .. Len(w)
        BY <2>6, <3>1
      <4>2. CASE j \in 1 .. Len(w)
        BY <2>4, <2>6, <3>1, <4>1, <4>2 DEF Flows, Rising
      <4>3. CASE j = Len(w) + 1
        BY <2>5, <2>6, <4>1, <4>3
      <4> QED BY <2>6, <4>2, <4>3
    <3> QED BY <2>6, <3>1 DEF Rising
  <2>8. Bounded(c, x)'
    <3>1. ASSUME NEW i \in 1 .. Len(w) + 1 PROVE v[i] <= told'
      <4>1. CASE i \in 1 .. Len(w)
        <5>1. w[i] \in Nat /\ w[i] <= told
          BY <2>5, <4>1
        <5> QED BY <1>1, <2>6, <4>1, <5>1
      <4>2. CASE i = Len(w) + 1
        BY <1>1, <2>1, <2>6, <4>2
      <4> QED BY <2>6, <4>1, <4>2
    <3>2. ~(c > made')
      BY <1>1, <1>2, <1>9, SocketsAssumption DEF Conns
    <3>3. c \in reset' /\ Attached(c, x)' => wire'[<<c, x>>] = <<>>
      BY <1>2, <1>6, <2>4 DEF Bounded
    <3> QED BY <2>3, <2>6, <3>1, <3>2, <3>3 DEF Bounded
  <2>9. Len(t) <= Len(v) /\ \A i \in 1 .. Len(t) : t[i] = Frame(v[i])
    <3>1. Len(t) \in Nat /\ Len(t) <= Len(w) /\ \A i \in 1 .. Len(t) : t[i] = Frame(w[i])
      BY <2>2, <2>4 DEF Flows
    <3>2. \A i \in 1 .. Len(t) : i \in 1 .. Len(w)
      BY <2>6, <3>1
    <3> QED BY <2>6, <3>1, <3>2
  <2>10. ASSUME MayUse(c, x)
         PROVE  /\ h # <<>> => Len(t) < Len(v)
                /\ \A i \in 1 .. Len(h) : h[i] = <<v[Len(t) + 1], i>>
                /\ Line(Coming(c, x)', v, Len(t), Len(h))
                /\ ToTheEnd(Coming(c, x)', v, Len(t), Len(h))
    <3>1. MayUse(c, e)
      BY <1>2, <1>9, <2>10 DEF MayUse, Attached
    <3>2. Coming(c, x) = a
      <4>1. Unsent(c, e) = <<>>
        BY <1>3 DEF Unsent
      <4>2. Coming(c, x) = a \o <<>>
        BY <2>1, <2>3, <4>1 DEF Coming
      <4> QED BY <2>2, <4>2
    <3>3. Coming(c, x)' = a \o Frame(m)
      <4>1. Unsent(c, e)' = Frame(m) /\ MayUse(c, e)'
        BY <1>2, <1>4, <1>6, <1>9, <2>1, <3>1 DEF Unsent
      <4> QED BY <1>2, <2>1, <2>3, <4>1 DEF Coming
    <3>4. /\ Line(a, w, Len(t), Len(h)) /\ ToTheEnd(a, w, Len(t), Len(h)) /\ Rising(w)
          /\ h # <<>> => Len(t) < Len(w)
          /\ \A i \in 1 .. Len(h) : h[i] = <<w[Len(t) + 1], i>>
      BY <2>4, <2>10, <3>1, <3>2 DEF Flows
    <3>5. Len(t) \in Nat /\ Len(h) \in Nat
      BY <2>2
    <3>6. Line(a \o Frame(m), v, Len(t), Len(h)) /\ ToTheEnd(a \o Frame(m), v, Len(t), Len(h))
      BY <2>1, <2>2, <2>5, <3>4, <3>5, LineWritten
    <3>7. h # <<>> => Len(t) < Len(v)
      BY <2>6, <3>4, <3>5
    <3>8. ASSUME NEW i \in 1 .. Len(h) PROVE h[i] = <<v[Len(t) + 1], i>>
      <4>1. h # <<>>
        BY <3>8, <2>2
      <4>2. Len(t) + 1 \in 1 .. Len(w)
        BY <2>6, <3>4, <3>5, <4>1
      <4> QED BY <2>6, <3>4, <4>2
    <3> QED BY <3>3, <3>6, <3>7, <3>8
  <2>11. Flows(v, t, Coming(c, x)', h, MayUse(c, x), MayUse(c, e))
    BY <2>7, <2>9, <2>10 DEF Flows
  <2> QED BY <1>2, <1>6, <1>7, <1>9, <2>1, <2>3, <2>8, <2>11 DEF Streams
<1> QED BY <1>8, <1>9

LEMMA WritenStreams ==
  ASSUME SocketsInv, NEW e \in Ends, NEW k \in Nat, Writen(e, k), NEW c \in Conns, NEW x \in Ends
  PROVE  Streams(c, x)'
<1>1. /\ told \in Nat /\ made \in Nat /\ op \in [Ends -> Calls]
      /\ wire \in [Conns \X Ends -> Seq(Pieces)] /\ InCall(e)
  BY SocketsAssumption DEF SocketsInv, SocketTypes
<1>2. /\ connfd[e] # 0 /\ e \notin spent /\ connfd[e] \in Conns /\ connfd[e] <= made
      /\ connfd[e] \notin reset /\ op[e].got = <<>>
      /\ op[e].rest \in Seq(Pieces) /\ k \in 0 .. Len(op[e].rest)
  <2>1. op[e].kind = "write" /\ connfd[e] \notin reset /\ k \in 1 .. Len(op[e].rest)
    BY DEF Writen
  <2>2. op[e].rest \in Seq(Pieces)
    BY <1>1 DEF Calls
  <2> QED BY <1>1, <2>1, <2>2, Known1 DEF InCall
<1>3. UNCHANGED <<pending, made, connfd, reset, told, written, taken>> /\ spent' = spent
  BY DEF Writen, Returns
<1>4. PICK r, l : r = SubSeq(op[e].rest, 1, k) /\ l = SubSeq(op[e].rest, k + 1, Len(op[e].rest))
  OBVIOUS
<1>5. /\ r \in Seq(Pieces) /\ l \in Seq(Pieces) /\ r \o l = op[e].rest
      /\ Len(l) = Len(op[e].rest) - k
  BY <1>2, <1>4, Sequel
<1>6. op'[e].got = <<>> /\ op'[e].rest = l
  <2>1. CASE k = Len(op[e].rest)
    <3>1. op'[e] = Idle
      BY <1>1, <2>1 DEF Writen, Returns
    <3>2. l = <<>>
      BY <1>2, <1>5, <2>1
    <3> QED BY <3>1, <3>2 DEF Idle
  <2>2. CASE k # Len(op[e].rest)
    <3>1. op'[e] = [op[e] EXCEPT !.rest = l]
      BY <1>1, <1>4, <2>2 DEF Writen
    <3> QED BY <1>1, <1>2, <3>1 DEF Calls
  <2> QED BY <2>1, <2>2
<1>7. \A y \in Ends \ {e} : op'[y] = op[y]
  BY <1>1 DEF Writen, Returns
<1>8. \A y \in Ends : /\ Attached(c, y)' = Attached(c, y) /\ MayUse(c, y)' = MayUse(c, y)
                      /\ Held(c, y)' = Held(c, y)
                      /\ ~(y = e /\ connfd[e] = c) => Unsent(c, y)' = Unsent(c, y)
  BY <1>2, <1>3, <1>6, <1>7 DEF Attached, MayUse, Held, Unsent
<1>9. x \in Ends /\ Peer(x) \in Ends /\ Peer(e) \in Ends /\ Peer(Peer(e)) = e
      /\ (x # Peer(e) => Peer(x) # e)
  BY Peers
<1>10. told' \in Nat /\ told' >= told /\ made' \in Nat /\ made' >= made
  BY <1>1, <1>3
<1>11. CASE ~(x = Peer(e) /\ c = connfd[e])
  <2>1. ~(Peer(x) = e /\ connfd[e] = c)
    BY <1>9, <1>11
  <2>2. wire'[<<c, x>>] = wire[<<c, x>>]
    BY <1>1, <1>11 DEF Writen
  <2>3. c \in reset' /\ Attached(c, x)' => wire'[<<c, x>>] = <<>>
    BY <1>3, <1>8, <2>2 DEF SocketsInv, Streams, Bounded
  <2> QED BY <1>3, <1>8, <1>9, <1>10, <2>1, <2>2, <2>3, StreamKept
<1>12. CASE x = Peer(e) /\ c = connfd[e] /\ PeerClosed(e)
  <2>1. ~MayUse(c, x)
    <3>1. <<c, x>> \notin open /\ c \notin Range(pending)
      BY <1>12 DEF PeerClosed
    <3>2. connfd[x] # c
      BY <1>2, <1>9, <1>12, <3>1 DEF SocketsInv, Connections, Now
    <3> QED BY <3>1, <3>2 DEF MayUse, Attached
  <2>2. wire' = wire
    BY <1>12 DEF Writen
  <2>3. c \in reset' /\ Attached(c, x)' => wire'[<<c, x>>] = <<>>
    BY <1>2, <1>3, <1>12
  <2> QED BY <1>3, <1>8, <1>9, <1>10, <2>1, <2>2, <2>3, StreamKept
<1>13. CASE x = Peer(e) /\ c = connfd[e] /\ ~PeerClosed(e)
  <2>1. wire'[<<c, x>>] = wire[<<c, x>>] \o r
    BY <1>1, <1>2, <1>4, <1>9, <1>13 DEF Writen
  <2>2. MayUse(c, e) /\ Peer(x) = e
    BY <1>2, <1>9, <1>13 DEF MayUse, Attached
  <2>3. Coming(c, x)' = Coming(c, x)
    <3>1. PICK a : a = wire[<<c, x>>] /\ a \in Seq(Pieces)
      BY <1>1
    <3>2. Coming(c, x) = a \o (r \o l)
      BY <1>5, <1>13, <2>2, <3>1 DEF Coming, Unsent
    <3>3. Coming(c, x)' = (a \o r) \o l
      BY <1>3, <1>6, <1>8, <1>13, <2>1, <2>2, <3>1 DEF Coming, Unsent
    <3>4. (a \o r) \o l = a \o (r \o l)
      <4>1. a \in Seq(Pieces) /\ r \in Seq(Pieces) /\ l \in Seq(Pieces)
        BY <1>5, <3>1
      <4> QED BY <4>1, ConcatAssociative
    <3> QED BY <3>2, <3>3, <3>4
  <2>4. Bounded(c, x)'
    <3>1. ~(c > made')
      BY <1>1, <1>2, <1>3, <1>13, SocketsAssumption DEF Conns
    <3>2. c \notin reset'
      BY <1>2, <1>3, <1>13
    <3>3. \A i \in 1 .. Len(written[<<c, Peer(x)>>]) : written[<<c, Peer(x)>>][i] <= told
      BY DEF SocketsInv, Streams, Bounded
    <3> QED BY <1>3, <3>1, <3>2, <3>3 DEF Bounded
  <2>5. Streams(c, x)
    BY DEF SocketsInv
  <2> QED BY <1>3, <1>8, <1>9, <2>2, <2>3, <2>4, <2>5 DEF Streams
<1> QED BY <1>11, <1>12, <1>13

LEMMA ReadnStreams ==
  ASSUME SocketsInv, NEW e \in Ends, NEW k \in Nat, Readn(e, k), NEW c \in Conns, NEW x \in Ends
  PROVE  Streams(c, x)'
<1>1. /\ told \in Nat /\ made \in Nat /\ op \in [Ends -> Calls]
      /\ wire \in [Conns \X Ends -> Seq(Pieces)]
      /\ taken \in [Conns \X Ends -> Seq(Seq(Pieces))] /\ InCall(e)
  BY SocketsAssumption DEF SocketsInv, SocketTypes
<1>2. /\ connfd[e] # 0 /\ e \notin spent /\ connfd[e] \in Conns /\ connfd[e] <= made
      /\ connfd[e] \notin reset /\ op[e].rest = <<>> /\ op[e] \in Calls
      /\ Now(e) = <<connfd[e], e>>
  <2>1. op[e].kind \in {"head", "body"} /\ connfd[e] \notin reset
    BY DEF Readn
  <2>2. connfd[e] # 0 /\ e \notin spent /\ op[e].rest = <<>>
    BY <1>1, <2>1 DEF InCall
  <2>3. connfd[e] \in Conns /\ connfd[e] <= made
    BY <2>2, Known1
  <2> QED BY <1>1, <2>1, <2>2, <2>3 DEF Now
<1>3. UNCHANGED <<pending, made, connfd, reset, told, written>> /\ spent' = spent
  BY DEF Readn, ReadnDone, Returns
<1>4. PICK got, m, n, w, t, a, u, r, n1, g1 :
        /\ got = op[e].got \o SubSeq(Arrived(e), 1, k) /\ m = Current(e)
        /\ t = taken[Now(e)] /\ n = Len(t) /\ w = written[<<connfd[e], Peer(e)>>]
        /\ a = SubSeq(Arrived(e), k + 1, Len(Arrived(e)))
        /\ u = (IF MayUse(connfd[e], Peer(e)) THEN Unsent(connfd[e], Peer(e)) ELSE <<>>)
        /\ r = a \o u
        /\ n1 = (IF Len(got) = FrameLen(m) THEN n + 1 ELSE n)
        /\ g1 = (IF Len(got) = FrameLen(m) THEN 0 ELSE Len(got))
  OBVIOUS
<1>5. /\ m = w[n + 1] /\ m \in Sendable /\ n + 1 \in 1 .. Len(w)
      /\ got \in Seq(Pieces) /\ Len(got) = Len(op[e].got) + k /\ Len(got) <= FrameLen(m)
      /\ \A i \in 1 .. Len(got) : got[i] = <<m, i>>
      /\ Line(r, w, n1, g1)
      /\ MayUse(connfd[e], Peer(e)) => ToTheEnd(r, w, n1, g1)
  <2>1. /\ op[e].kind \in {"head", "body"} /\ k \in 1 .. op[e].left /\ k <= Len(Arrived(e))
    BY DEF Readn
  <2> QED BY <1>2, <1>4, <2>1, Reading
<1>6. /\ FrameLen(m) = Lengths[m] + 2 /\ Lengths[m] \in Nat /\ Len(got) \in Nat
      /\ op[e].left \in Nat /\ Len(op[e].got) \in Nat /\ k \in 1 .. op[e].left
  <2>1. Lengths[m] \in Nat
    BY <1>5, SocketsAssumption DEF Sendable
  <2>2. op[e].left \in Nat /\ Len(op[e].got) \in Nat
    BY <1>2 DEF Calls
  <2>3. k \in 1 .. op[e].left
    BY DEF Readn
  <2> QED BY <1>5, <2>1, <2>2, <2>3 DEF FrameLen, HeaderPieces
<1>7. /\ wire' = [wire EXCEPT ![Now(e)] = a]
      /\ \/ /\ Len(got) # FrameLen(m) /\ taken' = taken
            /\ op'[e].got = got /\ op'[e].rest = <<>>
            /\ \A y \in Ends \ {e} : op'[y] = op[y]
         \/ /\ Len(got) = FrameLen(m) /\ taken' = [taken EXCEPT ![Now(e)] = Append(t, got)]
            /\ op'[e].got = <<>> /\ op'[e].rest = <<>>
            /\ \A y \in Ends \ {e} : op'[y] = op[y]
  <2>1. wire' = [wire EXCEPT ![Now(e)] = a]
    BY <1>4 DEF Readn, Arrived
  <2>2. op[e].kind = "head" => Len(op[e].got) + op[e].left = 2
    BY <1>1 DEF InCall, HeaderPieces
  <2>3. op[e].kind = "body" => Len(op[e].got) + op[e].left = FrameLen(m)
    BY <1>1, <1>2, <1>4 DEF InCall
  <2>4. CASE k # op[e].left
    <3>1. op' = [op EXCEPT ![e].left = op[e].left - k, ![e].got = got] /\ taken' = taken
      BY <1>4, <2>4 DEF Readn
    <3>2. op'[e].got = got /\ op'[e].rest = op[e].rest /\ \A y \in Ends \ {e} : op'[y] = op[y]
      <4>1. op'[e] = [op[e] EXCEPT !.left = op[e].left - k, !.got = got]
        BY <1>1, <3>1
      <4> QED BY <1>1, <1>2, <3>1, <4>1 DEF Calls
    <3>3. Len(got) # FrameLen(m)
      <4>1. op[e].kind = "head" \/ op[e].kind = "body"
        BY DEF Readn
      <4>2. Len(got) = Len(op[e].got) + k
        BY <1>5
      <4> QED BY <1>6, <2>2, <2>3, <2>4, <4>1, <4>2
    <3> QED BY <1>2, <2>1, <3>1, <3>2, <3>3
  <2>5. CASE k = op[e].left
    <3>1. PICK z : ReadnDone(e, got, z) /\ (op[e].kind = "head" => z \in LengthsOf(got))
      BY <1>4, <2>5 DEF Readn
    <3>2. Len(got) = Len(op[e].got) + op[e].left
      BY <1>5, <2>5
    <3>3. op[e].kind = "head" => z = Lengths[m] /\ Len(got) = 2
      <4> SUFFICES ASSUME op[e].kind = "head" PROVE z = Lengths[m] /\ Len(got) = 2
        OBVIOUS
      <4>1. Len(got) = 2
        BY <2>2, <3>2
      <4>2. LengthsOf(got) = {Lengths[m]}
        BY <1>5, <4>1, HeaderLength DEF HeaderPieces
      <4> QED BY <3>1, <4>1, <4>2
    <3>4. CASE op[e].kind = "head" /\ z > 0
      <4>1. op' = [op EXCEPT ![e] = [op[e] EXCEPT !.kind = "body", !.left = z, !.got = got]]
            /\ taken' = taken
        BY <3>1, <3>4 DEF ReadnDone
      <4>2. op'[e].got = got /\ op'[e].rest = op[e].rest /\ \A y \in Ends \ {e} : op'[y] = op[y]
        <5>1. op'[e] = [op[e] EXCEPT !.kind = "body", !.left = z, !.got = got]
          BY <1>1, <4>1
        <5> QED BY <1>1, <1>2, <4>1, <5>1 DEF Calls
      <4>3. Len(got) # FrameLen(m)
        BY <1>6, <3>3, <3>4
      <4> QED BY <1>2, <2>1, <4>1, <4>2, <4>3
    <3>5. CASE ~(op[e].kind = "head" /\ z > 0)
      <4>1. Returns(e, TRUE) /\ taken' = [taken EXCEPT ![Now(e)] = Append(t, got)]
        BY <1>4, <3>1, <3>5 DEF ReadnDone
      <4>2. op'[e] = Idle /\ \A y \in Ends \ {e} : op'[y] = op[y]
        BY <1>1, <4>1 DEF Returns
      <4>3. Len(got) = FrameLen(m)
        <5>1. op[e].kind = "head" \/ op[e].kind = "body"
          BY DEF Readn
        <5>2. CASE op[e].kind = "body"
          BY <2>3, <3>2, <5>2
        <5>3. CASE op[e].kind = "head"
          BY <1>6, <3>3, <3>5, <5>3
        <5> QED BY <5>1, <5>2, <5>3
      <4> QED BY <2>1, <4>1, <4>2, <4>3 DEF Idle
    <3> QED BY <3>4, <3>5
  <2> QED BY <2>4, <2>5
<1>8. \A y \in Ends : /\ Attached(c, y)' = Attached(c, y) /\ MayUse(c, y)' = MayUse(c, y)
                      /\ Unsent(c, y)' = Unsent(c, y)
                      /\ ~(y = e /\ connfd[e] = c) => Held(c, y)' = Held(c, y)
  BY <1>2, <1>3, <1>7 DEF Attached, MayUse, Held, Unsent
<1>9. Peer(x) \in Ends
  BY Peers
<1>10. told' \in Nat /\ told' >= told /\ made' \in Nat /\ made' >= made
  BY <1>1, <1>3
<1>11. CASE ~(x = e /\ c = connfd[e])
  <2>1. wire'[<<c, x>>] = wire[<<c, x>>] /\ taken'[<<c, x>>] = taken[<<c, x>>]
    BY <1>1, <1>2, <1>7, <1>11
  <2>2. c \in reset' /\ Attached(c, x)' => wire'[<<c, x>>] = <<>>
    BY <1>3, <1>8, <2>1 DEF SocketsInv, Streams, Bounded
  <2>3. Held(c, x)' = Held(c, x)
    BY <1>8, <1>11
  <2> QED BY <1>3, <1>8, <1>9, <1>10, <2>1, <2>2, <2>3, StreamKept
<1>12. CASE x = e /\ c = connfd[e]
  <2>1. MayUse(c, x) /\ wire'[<<c, x>>] = a /\ w = written[<<c, Peer(x)>>] /\ t = taken[<<c, x>>]
    BY <1>1, <1>2, <1>4, <1>7, <1>12 DEF MayUse, Attached
  <2>2. Coming(c, x)' = r
    BY <1>4, <1>8, <1>9, <1>12, <2>1 DEF Coming
  <2>3. Bounded(c, x)'
    <3>1. ~(c > made')
      BY <1>1, <1>2, <1>3, <1>12, SocketsAssumption DEF Conns
    <3>2. c \notin reset'
      BY <1>2, <1>3, <1>12
    <3>3. \A i \in 1 .. Len(w) : w[i] <= told
      BY <2>1 DEF SocketsInv, Streams, Bounded
    <3> QED BY <1>3, <2>1, <3>1, <3>2, <3>3 DEF Bounded
  <2>4. /\ Rising(w) /\ Len(t) <= Len(w) /\ \A i \in 1 .. Len(t) : t[i] = Frame(w[i])
    BY <2>1 DEF SocketsInv, Streams, Flows
  <2>5. t \in Seq(Seq(Pieces)) /\ n \in Nat /\ w \in Seq(Sendable)
    BY <1>4, <2>1, StreamTypes
  <2>6. PICK f, h, wr : f = taken'[<<c, x>>] /\ h = Held(c, x)' /\ wr = MayUse(c, Peer(x)) /\ wr \in BOOLEAN
    BY DEF MayUse
  <2>7. ASSUME Len(got) # FrameLen(m) PROVE Flows(w, f, r, h, TRUE, wr)
    <3>1. f = t /\ h = got
      BY <1>3, <1>7, <1>12, <2>1, <2>6, <2>7 DEF Held
    <3>2. n1 = n /\ g1 = Len(got)
      BY <1>4, <2>7
    <3>3. n < Len(w)
      BY <1>5, <2>5
    <3>4. wr => ToTheEnd(r, w, n, Len(got))
      BY <1>5, <1>12, <2>6, <3>2
    <3>5. Line(r, w, n, Len(got)) /\ \A i \in 1 .. Len(got) : got[i] = <<w[n + 1], i>>
      BY <1>5, <3>2
    <3> QED BY <1>4, <2>4, <3>1, <3>3, <3>4, <3>5 DEF Flows
  <2>8. ASSUME Len(got) = FrameLen(m) PROVE Flows(w, f, r, h, TRUE, wr)
    <3>1. f = Append(t, got) /\ h = <<>>
      BY <1>1, <1>2, <1>3, <1>7, <1>12, <2>6, <2>8 DEF Held
    <3>2. n1 = n + 1 /\ g1 = 0
      BY <1>4, <2>8
    <3>3. got = Frame(m)
      <4>1. /\ Frame(m) \in Seq(Pieces) /\ Len(Frame(m)) = FrameLen(m)
            /\ \A i \in 1 .. FrameLen(m) : Frame(m)[i] = <<m, i>>
        BY <1>5, FrameShape
      <4>2. got \in Seq(Pieces) /\ Len(got) = Len(Frame(m))
            /\ \A i \in 1 .. Len(got) : got[i] = Frame(m)[i]
        BY <1>5, <2>8, <4>1
      <4> QED BY <4>1, <4>2, SeqEqual
    <3>4. /\ Len(f) = n + 1 /\ f[n + 1] = got /\ \A i \in 1 .. n : f[i] = t[i]
      <4>1. t \in Seq(Seq(Pieces)) /\ f = Append(t, got) /\ n = Len(t)
        BY <1>4, <2>5, <3>1
      <4> QED BY <4>1
    <3>5. \A i \in 1 .. n + 1 : f[i] = Frame(w[i])
      <4> TAKE i \in 1 .. n + 1
      <4>1. CASE i = n + 1
        BY <1>5, <3>3, <3>4, <4>1
      <4>2. CASE i # n + 1
        <5>1. i \in 1 .. n
          BY <2>5, <4>2
        <5> QED BY <1>4, <2>4, <3>4, <5>1
      <4> QED BY <4>1, <4>2
    <3>6. n + 1 <= Len(w)
      BY <1>5, <2>5
    <3>7. Line(r, w, n + 1, 0) /\ (wr => ToTheEnd(r, w, n + 1, 0))
      BY <1>5, <1>12, <2>6, <3>2
    <3>8. Len(h) = 0 /\ h = <<>>
      BY <3>1
    <3>9. Line(r, w, Len(f), Len(h)) /\ (wr => ToTheEnd(r, w, Len(f), Len(h)))
      BY <3>4, <3>7, <3>8
    <3>10. Len(f) <= Len(w) /\ \A i \in 1 .. Len(f) : f[i] = Frame(w[i])
      BY <3>4, <3>5, <3>6
    <3>11. \A i \in 1 .. Len(h) : h[i] = <<w[Len(f) + 1], i>>
      BY <3>8
    <3> QED BY <2>4, <3>8, <3>9, <3>10, <3>11 DEF Flows
  <2>9. Flows(w, f, r, h, TRUE, wr)
    BY <2>7, <2>8
  <2>10. MayUse(c, x)' = TRUE /\ MayUse(c, Peer(x))' = wr /\ written' = written
    BY <1>3, <1>8, <1>9, <2>1, <2>6, MayUseBoolean
  <2> QED BY <2>1, <2>2, <2>3, <2>6, <2>9, <2>10 DEF Streams
<1> QED BY <1>11, <1>12

LEMMA StreamsStep == SocketsInv /\ [SocketsNext]_svars => \A c \in Conns, x \in Ends : Streams(c, x)'
<1> SUFFICES ASSUME SocketsInv, [SocketsNext]_svars
             PROVE  \A c \in Conns, x \in Ends : Streams(c, x)'
  OBVIOUS
<1>0. SocketTypes /\ \A e \in Ends : InCall(e)
  BY DEF SocketsInv
<1>t. op \in [Ends -> Calls] /\ connfd \in [Ends -> 0 .. made] /\ Ends = {"client", "server"}
      /\ pending \in Seq(1 .. made)
  BY <1>0 DEF SocketTypes, Ends
<1>1. ASSUME NEW ok \in BOOLEAN, InitServer(ok) PROVE \A c \in Conns, x \in Ends : Streams(c, x)'
  BY <1>1, InitServerStreams
<1>2. CASE ConnectToServer
  BY <1>2, ConnectStreams
<1>3. CASE ConnectFails
  <2>1. /\ op["client"] = Idle /\ spent' = spent \ {"client"} /\ "client" \in Ends
        /\ UNCHANGED <<op, made, reset, wire, told, written, taken>>
        /\ connfd'["client"] = 0 /\ \A y \in Ends \ {"client"} : connfd'[y] = connfd[y]
        /\ Range(pending)' \subseteq Range(pending)
    BY <1>3, <1>t DEF ConnectFails, Free, Range
  <2> QED BY <2>1, EndMoves
<1>4. CASE Accept
  <2>1. /\ op["server"] = Idle /\ spent' = spent \ {"server"} /\ "server" \in Ends
        /\ UNCHANGED <<op, made, reset, wire, told, written, taken>>
        /\ connfd'["server"] = pending[1] /\ \A y \in Ends \ {"server"} : connfd'[y] = connfd[y]
    BY <1>4, <1>t DEF Accept, Free
  <2>2. /\ pending # <<>> /\ pending' = Tail(pending)
    BY <1>4 DEF Accept
  <2>3. /\ DOMAIN pending = 1 .. Len(pending) /\ 1 \in 1 .. Len(pending)
        /\ DOMAIN pending' = 1 .. Len(pending) - 1
        /\ \A i \in 1 .. Len(pending) - 1 : pending'[i] = pending[i + 1] /\ i + 1 \in 1 .. Len(pending)
    BY <1>t, <2>2
  <2>4. pending[1] \in Range(pending) /\ Range(pending)' \subseteq Range(pending)
    BY <2>3 DEF Range
  <2> QED BY <2>1, <2>4, EndMoves
<1>5. CASE AcceptFails
  <2>1. /\ op["server"] = Idle /\ spent' = spent \ {"server"} /\ "server" \in Ends
        /\ UNCHANGED <<op, made, reset, wire, told, written, taken>>
        /\ connfd'["server"] = 0 /\ \A y \in Ends \ {"server"} : connfd'[y] = connfd[y]
        /\ Range(pending)' \subseteq Range(pending)
    BY <1>5, <1>t DEF AcceptFails, Free, Range
  <2> QED BY <2>1, EndMoves
<1>6. ASSUME NEW e \in Ends, Close(e) PROVE \A c \in Conns, x \in Ends : Streams(c, x)'
  <2>1. /\ op[e] = Idle /\ spent' = spent \ {e}
        /\ UNCHANGED <<op, made, reset, wire, told, written, taken>>
        /\ connfd'[e] = 0 /\ \A y \in Ends \ {e} : connfd'[y] = connfd[y]
        /\ Range(pending)' \subseteq Range(pending)
    BY <1>6, <1>t DEF Close, Free, Range
  <2> QED BY <2>1, EndMoves
<1>7. ASSUME NEW e \in Ends, Write(e) PROVE \A c \in Conns, x \in Ends : Streams(c, x)'
  BY <1>7, WriteStreams
<1>8. ASSUME NEW e \in Ends, NEW k \in Nat, Writen(e, k)
      PROVE  \A c \in Conns, x \in Ends : Streams(c, x)'
  BY <1>8, WritenStreams
<1>9. ASSUME NEW e \in Ends, WritenFails(e) \/ ReadnFails(e) \/ Interrupt(e)
      PROVE  \A c \in Conns, x \in Ends : Streams(c, x)'
  <2>1. /\ op'[e] = Idle /\ spent' = spent \cup {e} /\ \A y \in Ends \ {e} : op'[y] = op[y]
        /\ UNCHANGED <<pending, made, connfd, reset, wire, told, written, taken>>
    BY <1>9, <1>t DEF WritenFails, ReadnFails, Interrupt, Returns
  <2> QED BY <2>1, EndCalls
<1>10. ASSUME NEW e \in Ends, Read(e) \/ TimesOut(e) \/ Poll(e)
       PROVE  \A c \in Conns, x \in Ends : Streams(c, x)'
  <2>1. op[e].got = <<>> /\ op[e].rest = <<>>
    <3>1. InCall(e)
      BY <1>0
    <3>2. op[e] = Idle \/ op[e].kind = "poll"
      BY <1>10 DEF Read, Ready, TimesOut, Poll
    <3> QED BY <3>1, <3>2 DEF InCall, Idle
  <2>2. /\ \A y \in Ends \ {e} : op'[y] = op[y]
        /\ UNCHANGED <<pending, made, connfd, reset, wire, told, written, taken, spent>>
    BY <1>10, <1>t DEF Read, TimesOut, Poll, Returns
  <2>3. op'[e].got = <<>> /\ op'[e].rest = <<>>
    <3>1. CASE Read(e)
      BY <1>t, <3>1 DEF Read, Idle
    <3>2. CASE TimesOut(e)
      BY <1>t, <3>2 DEF TimesOut, Returns, Idle
    <3>3. CASE Poll(e)
      <4>1. op'[e] = [op[e] EXCEPT !.kind = "head"]
        BY <1>t, <3>3 DEF Poll
      <4> QED BY <1>t, <2>1, <4>1 DEF Calls
    <3> QED BY <1>10, <3>1, <3>2, <3>3
  <2> QED BY <2>1, <2>2, <2>3, EndCalls
<1>11. ASSUME NEW e \in Ends, NEW k \in Nat, Readn(e, k)
       PROVE  \A c \in Conns, x \in Ends : Streams(c, x)'
  BY <1>11, ReadnStreams
<1>12. ASSUME NEW d \in Conns, Reset(d) PROVE \A c \in Conns, x \in Ends : Streams(c, x)'
  BY <1>12, ResetStreams
<1>13. CASE UNCHANGED svars
  <2>1. /\ "client" \in Ends /\ \A y \in Ends \ {"client"} : op'[y] = op[y]
        /\ op'["client"] = op["client"]
        /\ UNCHANGED <<pending, made, connfd, reset, wire, told, written, taken, spent>>
    BY <1>13, <1>t DEF svars
  <2> QED BY <2>1, EndCalls
<1>14. 1 .. 4 \subseteq Nat
  OBVIOUS
<1> QED BY <1>1, <1>2, <1>3, <1>4, <1>5, <1>6, <1>7, <1>8, <1>9, <1>10, <1>11, <1>12, <1>13,
           <1>14 DEF SocketsNext, CloseListen, Proceed

-----------------------------------------------------------------------------
(* The property *)

LEMMA SocketsInvHolds == SocketsSpec => []SocketsInv
<1>1. SocketsInv /\ [SocketsNext]_svars => SocketsInv'
  <2> SUFFICES ASSUME SocketsInv, [SocketsNext]_svars PROVE SocketsInv'
    OBVIOUS
  <2>1. SocketTypes'
    BY TypesStep
  <2>2. Connections' /\ ClientHoldsOneDescriptor'
    BY ConnectionsStep
  <2>3. \A e \in Ends : InCall(e)'
    BY InCallStep
  <2>4. \A c \in Conns, e \in Ends : Streams(c, e)'
    BY StreamsStep
  <2> QED BY <2>1, <2>2, <2>3, <2>4 DEF SocketsInv, Ends, Conns
<1> QED BY <1>1, SocketsStart, PTL DEF SocketsSpec

\* Reads return the messages of the peer's Writes, whole and from the first, in
\* whatever pieces send() and recv() move them; a stream that may be used again
\* stands at the start of a frame; a client holds one descriptor: for every
\* number of messages and connections and every length of a body.
THEOREM FramesSurvive == SocketsSpec => []StreamsStayFramed
<1>1. SocketsInv => StreamsStayFramed
  <2> SUFFICES ASSUME SocketsInv PROVE StreamsStayFramed
    OBVIOUS
  <2>1. SocketTypes /\ Connections /\ \A e \in Ends : InCall(e)
    BY DEF SocketsInv
  <2>2. SocketsTypeOK
    <3>1. Range(pending) \subseteq 1 .. made
      BY <2>1 DEF SocketTypes, Range
    <3>2. made <= MaxConns
      BY <2>1, SocketsAssumption DEF SocketTypes
    <3>3. \A e \in Ends : op[e].kind # "idle" => Now(e) \in open
      BY <2>1 DEF InCall, Connections
    <3> QED BY <2>1, <3>1, <3>2, <3>3 DEF SocketTypes, SocketsTypeOK
  <2>3. ReadsAreTheWrites
    BY DEF ReadsAreTheWrites, SocketsInv, Streams, Flows
  <2>4. AtFrameStart
    <3> SUFFICES ASSUME NEW e \in Ends, Ready(e), wire[Now(e)] # <<>>
                 PROVE  wire[Now(e)][1][2] = 1
      BY DEF AtFrameStart
    <3>1. connfd[e] # 0 /\ e \notin spent /\ op[e].got = <<>> /\ connfd[e] \in Conns
          /\ Now(e) = <<connfd[e], e>>
      BY Known1 DEF Ready, Idle, Now
    <3>2. connfd[e] \notin reset
      <4>1. Bounded(connfd[e], e)
        BY <3>1 DEF SocketsInv, Streams
      <4> QED BY <3>1, <4>1 DEF Bounded, Attached
    <3>3. PICK a, u, w, n : /\ a = wire[Now(e)] /\ w = written[<<connfd[e], Peer(e)>>]
                            /\ u = (IF MayUse(connfd[e], Peer(e)) THEN Unsent(connfd[e], Peer(e))
                                                                  ELSE <<>>)
                            /\ n = Len(taken[Now(e)])
      OBVIOUS
    <3>4. a \in Seq(Pieces) /\ u \in Seq(Pieces) /\ a # <<>>
      <4>1. wire[<<connfd[e], e>>] \in Seq(Pieces)
        BY <3>1, StreamTypes
      <4>2. Unsent(connfd[e], Peer(e)) \in Seq(Pieces) /\ <<>> \in Seq(Pieces)
        BY <3>1, StreamTypes, Peers
      <4> QED BY <3>1, <3>3, <4>1, <4>2
    <3>5. Flows(w, taken[Now(e)], Coming(connfd[e], e), <<>>, TRUE, MayUse(connfd[e], Peer(e)))
      BY <3>1, <3>2, <3>3, BodyOfMessage
    <3>6. Coming(connfd[e], e) = a \o u
      BY <3>1, <3>3 DEF Coming
    <3>7. Begins(a \o u, w, n, 0)
      <4>1. Len(<<>>) = 0
        OBVIOUS
      <4> QED BY <3>3, <3>5, <3>6, <4>1 DEF Flows, Line
    <3>8. (a \o u) # <<>> /\ (a \o u)[1] = a[1]
      BY <3>4
    <3>9. a[1] = <<w[n + 1], 0 + 1>>
      BY <3>7, <3>8 DEF Begins
    <3> QED BY <3>3, <3>9
  <2> QED BY <2>2, <2>3, <2>4 DEF StreamsStayFramed, SocketsInv
<1> QED BY <1>1, SocketsInvHolds, PTL

-----------------------------------------------------------------------------
(* The inductive invariant of the files *)

\* The first k chunks of a document.
FirstChunks(d, k) == [i \in 1 .. k |-> <<d, i>>]

Contents == Seq(Docs \X Nat)

\* The inode i is under no other path than p.
OnlyAt(i, p) == \A q \in Paths : dir[q] = i => q = p

DiskTypes ==
  /\ inodes \in 0 .. MaxFiles /\ dir \in [Paths -> 0 .. inodes] /\ data \in [1 .. MaxFiles -> Contents]

ProgramTypes ==
  /\ file \in [fp : 0 .. inodes, name : {"", "a", "c"}, tmp : {"", "a.tmp", "c.tmp"}, doc : Nat, at : Nat]
  /\ saving \in [pc : {"idle", "write", "rename"}, fp : 0 .. inodes, doc : Nat]
  /\ copy \in [pc : {"idle", "open", "loop", "rename"}, size : Int, src : 0 .. inodes,
               dst : 0 .. inodes, total : Int, tries : Int]
  /\ load \in [fp : 0 .. inodes, got : Contents]

FaultsCounted ==
  /\ refused \in Nat /\ full \in Nat /\ crashes \in Nat /\ refused + full + crashes <= MaxFaults

\* A file has one name.
Linked == \A p \in Paths : dir[p] # 0 => OnlyAt(dir[p], p)

\* The CFile writes what is under its temporary name, or c; its program does not
\* call buftofile meanwhile.
Writer ==
  file.fp # 0 =>
    /\ file.doc \in Docs /\ file.at <= Sizes[file.doc] /\ saving.pc = "idle"
    /\ \/ file.name = "c" /\ dir["c"] = file.fp
       \/ file.name # "" /\ file.tmp = Tmp(file.name) /\ dir[file.tmp] = file.fp
    /\ full = 0 => data[file.fp] = FirstChunks(file.doc, file.at)

TmpKept ==
  refused = 0 =>
    /\ file.fp = 0 => file.tmp = ""
    /\ file.fp # 0 /\ file.tmp # "" => dir[file.tmp] = file.fp

\* buftofile writes what is under a.tmp.
Saver ==
  saving.pc # "idle" =>
    /\ file.fp = 0 /\ saving.doc \in Docs /\ saving.fp # 0 /\ dir["a.tmp"] = saving.fp
    /\ full = 0 /\ saving.pc = "rename" => data[saving.fp] = Whole(saving.doc)

\* COPY writes what is under b.tmp, and what it reads has at most the name a; the
\* chunks it has counted are those it has written.
Copier ==
  /\ copy.size >= 0 => copy.total <= copy.size
  /\ copy.pc = "open" => copy.total = 0
  /\ copy.pc \in {"loop", "rename"} =>
       /\ copy.src # 0 /\ OnlyAt(copy.src, "a") /\ copy.dst # 0 /\ dir["b.tmp"] = copy.dst
       /\ copy.pc = "loop" => copy.total >= 0 /\ (copy.size = -1 => copy.total = 0)
       /\ copy.pc = "rename" => copy.total = copy.size
       /\ full = 0 => /\ copy.total <= Len(data[copy.src])
                      /\ data[copy.dst] = SubSeq(data[copy.src], 1, copy.total)

\* What is read has at most the name a, and a is a whole document.
Reader ==
  /\ full = 0 /\ dir["a"] # 0 => \E d \in Docs : data[dir["a"]] = Whole(d)
  /\ load.fp # 0 =>
       /\ OnlyAt(load.fp, "a")
       /\ full = 0 => \E d \in Docs : \E k \in 0 .. Sizes[d] :
                        data[load.fp] = Whole(d) /\ load.got = FirstChunks(d, k)

FilesInv ==
  DiskTypes /\ ProgramTypes /\ FaultsCounted /\ Linked /\ Writer /\ TmpKept /\ Saver /\ Copier /\ Reader

\* What a reader or COPY may have open stays what it is, and gets no other name
\* than a.
Calm ==
  /\ full' = 0 => full = 0
  /\ inodes <= inodes'
  /\ \A i \in 1 .. inodes : OnlyAt(i, "a") => OnlyAt(i, "a")' /\ data'[i] = data[i]

-----------------------------------------------------------------------------
(* FileStore: paths, chunks, and the calls of the file system *)

LEMMA PathFacts ==
  /\ Paths = {"a", "b", "c", "a.tmp", "b.tmp", "c.tmp"}
  /\ Tmp("a") = "a.tmp" /\ Tmp("b") = "b.tmp" /\ Tmp("c") = "c.tmp"
<1>1. Tmp("a") = "a.tmp" /\ Tmp("b") = "b.tmp" /\ Tmp("c") = "c.tmp"
  BY DEF Tmp
<1> QED BY <1>1 DEF Paths, Names

LEMMA DocFacts ==
  /\ \A d \in Docs : Sizes[d] \in Nat /\ d \in Nat
  /\ MaxFiles \in Nat /\ MaxFaults \in Nat
BY FilesAssumption DEF Docs

LEMMA ChunkFacts ==
  ASSUME NEW d \in Docs, NEW k \in Nat
  PROVE  /\ FirstChunks(d, k) \in Contents /\ Len(FirstChunks(d, k)) = k
         /\ \A i \in 1 .. k : FirstChunks(d, k)[i] = <<d, i>>
         /\ Append(FirstChunks(d, k), <<d, k + 1>>) = FirstChunks(d, k + 1)
         /\ FirstChunks(d, Sizes[d]) = Whole(d) /\ FirstChunks(d, 0) = <<>>
<1>1. \A i \in 1 .. k : <<d, i>> \in Docs \X Nat
  OBVIOUS
<1>2. FirstChunks(d, k) \in Contents /\ Len(FirstChunks(d, k)) = k
  BY <1>1 DEF FirstChunks, Contents
<1>3. \A i \in 1 .. k : FirstChunks(d, k)[i] = <<d, i>>
  BY DEF FirstChunks
<1>4. Append(FirstChunks(d, k), <<d, k + 1>>) = FirstChunks(d, k + 1)
  <2>1. PICK s : s = FirstChunks(d, k) /\ s \in Seq(Docs \X Nat) /\ Len(s) = k
    BY <1>2 DEF Contents
  <2>2. PICK t : t = FirstChunks(d, k + 1)
    OBVIOUS
  <2>3. \A i \in 1 .. k + 1 : <<d, i>> \in Docs \X Nat
    OBVIOUS
  <2>4. t \in Seq(Docs \X Nat) /\ Len(t) = k + 1 /\ \A i \in 1 .. k + 1 : t[i] = <<d, i>>
    BY <2>2, <2>3 DEF FirstChunks
  <2>5. PICK c : c = <<d, k + 1>> /\ c \in Docs \X Nat
    <3>1. k + 1 \in 1 .. k + 1
      OBVIOUS
    <3> QED BY <2>3, <3>1
  <2>6. PICK u : u = Append(s, c)
    OBVIOUS
  <2>7. u \in Seq(Docs \X Nat) /\ Len(u) = k + 1 /\ u[k + 1] = c /\ \A i \in 1 .. k : u[i] = s[i]
    BY <2>1, <2>5, <2>6
  <2>8. ASSUME NEW i \in 1 .. k + 1 PROVE u[i] = t[i]
    <3>1. CASE i = k + 1
      BY <2>4, <2>5, <2>7, <3>1
    <3>2. CASE i # k + 1
      <4>1. i \in 1 .. k
        BY <3>2
      <4> QED BY <1>3, <2>1, <2>4, <2>7, <4>1
    <3> QED BY <3>1, <3>2
  <2>9. u = t
    BY <2>4, <2>7, <2>8, SeqEqual
  <2> QED BY <2>1, <2>2, <2>5, <2>6, <2>9
<1>5. FirstChunks(d, Sizes[d]) = Whole(d)
  BY DEF FirstChunks, Whole
<1>6. FirstChunks(d, 0) = <<>>
  BY DEF FirstChunks
<1> QED BY <1>2, <1>3, <1>4, <1>5, <1>6

\* remove: nothing gets another name.
LEMMA RemovedFacts ==
  ASSUME DiskTypes, Linked, NEW p, dir' = Removed(p), inodes' = inodes
  PROVE  /\ dir' \in [Paths -> 0 .. inodes'] /\ Linked'
         /\ \A q \in Paths : dir'[q] = IF q = p THEN 0 ELSE dir[q]
         /\ \A i \in 1 .. inodes : OnlyAt(i, "a") => OnlyAt(i, "a")'
<1>1. inodes \in Nat /\ dir \in [Paths -> 0 .. inodes]
  BY DocFacts DEF DiskTypes
<1>2. \A q \in Paths : dir'[q] = IF q = p THEN 0 ELSE dir[q]
  BY DEF Removed
<1>3. dir' \in [Paths -> 0 .. inodes']
  BY <1>1 DEF Removed
<1>4. \A q, r \in Paths : dir'[q] # 0 /\ dir'[r] = dir'[q] => dir[r] = dir[q] /\ dir[q] # 0
  BY <1>2
<1>5. Linked'
  BY <1>4 DEF Linked, OnlyAt
<1>6. ASSUME NEW i \in 1 .. inodes, OnlyAt(i, "a") PROVE OnlyAt(i, "a")'
  <2>1. i # 0
    BY <1>1
  <2> QED BY <1>2, <1>6, <2>1 DEF OnlyAt
<1> QED BY <1>2, <1>3, <1>5, <1>6

\* rename, of a temporary file.
LEMMA RenamedFacts ==
  ASSUME DiskTypes, Linked, NEW from \in Paths, NEW to \in Paths, from # to, from # "a",
         dir' = Renamed(from, to), inodes' = inodes
  PROVE  /\ dir' \in [Paths -> 0 .. inodes'] /\ Linked'
         /\ dir'[from] = 0 /\ dir'[to] = dir[from]
         /\ \A q \in Paths : q # from /\ q # to => dir'[q] = dir[q]
         /\ \A i \in 1 .. inodes : OnlyAt(i, "a") => OnlyAt(i, "a")'
<1>1. inodes \in Nat /\ dir \in [Paths -> 0 .. inodes]
  BY DocFacts DEF DiskTypes
<1>2. /\ dir'[from] = 0 /\ dir'[to] = dir[from]
      /\ \A q \in Paths : q # from /\ q # to => dir'[q] = dir[q]
  BY DEF Renamed
<1>3. dir' \in [Paths -> 0 .. inodes']
  <2>1. \A q \in Paths : dir'[q] \in 0 .. inodes
    BY <1>1, <1>2
  <2>2. dir' = [q \in Paths |-> dir'[q]]
    BY DEF Renamed
  <2> QED BY <2>1, <2>2
<1>4. Linked'
  <2> SUFFICES ASSUME NEW q \in Paths, NEW r \in Paths, dir'[q] # 0, dir'[r] = dir'[q] PROVE r = q
    BY DEF Linked, OnlyAt
  <2>1. q # from /\ r # from
    BY <1>2
  <2> QED BY <1>2, <2>1 DEF Linked, OnlyAt
<1>5. ASSUME NEW i \in 1 .. inodes, OnlyAt(i, "a") PROVE OnlyAt(i, "a")'
  <2>1. i # 0
    BY <1>1
  <2>2. ASSUME NEW q \in Paths, dir'[q] = i PROVE q = "a"
    BY <1>2, <1>5, <2>1, <2>2 DEF OnlyAt
  <2> QED BY <2>2 DEF OnlyAt
<1> QED BY <1>2, <1>3, <1>4, <1>5

\* A write, or the emptying of a file, under another name than a.
LEMMA WrittenFacts ==
  ASSUME DiskTypes, Linked, NEW p \in Paths, p # "a", dir[p] # 0, NEW z \in Contents,
         data' = [data EXCEPT ![dir[p]] = z]
  PROVE  /\ data' \in [1 .. MaxFiles -> Contents] /\ data'[dir[p]] = z
         /\ \A i \in 1 .. MaxFiles : i # dir[p] => data'[i] = data[i]
         /\ \A i \in 1 .. inodes : OnlyAt(i, "a") => data'[i] = data[i]
         /\ \A q \in Paths : q # p /\ dir[q] # 0 => data'[dir[q]] = data[dir[q]]
<1>1. /\ inodes \in 0 .. MaxFiles /\ dir \in [Paths -> 0 .. inodes]
      /\ data \in [1 .. MaxFiles -> Contents] /\ MaxFiles \in Nat
  BY DocFacts DEF DiskTypes
<1>2. PICK w : w = dir[p]
  OBVIOUS
<1>3. w \in 1 .. MaxFiles /\ \A i \in 1 .. inodes : i \in 1 .. MaxFiles
  BY <1>1, <1>2
<1>4. /\ data' \in [1 .. MaxFiles -> Contents] /\ data'[w] = z
      /\ \A i \in 1 .. MaxFiles : i # w => data'[i] = data[i]
  BY <1>1, <1>2, <1>3
<1>5. ASSUME NEW i \in 1 .. inodes, OnlyAt(i, "a") PROVE data'[i] = data[i]
  <2>1. i # w
    BY <1>2, <1>5 DEF OnlyAt
  <2> QED BY <1>3, <1>4, <2>1
<1>6. ASSUME NEW q \in Paths, q # p, dir[q] # 0 PROVE data'[dir[q]] = data[dir[q]]
  <2>1. dir[q] # w
    BY <1>2, <1>6 DEF Linked, OnlyAt
  <2>2. dir[q] \in 1 .. MaxFiles
    BY <1>1, <1>6
  <2> QED BY <1>4, <2>1, <2>2
<1> QED BY <1>2, <1>4, <1>5, <1>6

\* fopen for writing: an empty file under its path.
LEMMA OpensFacts ==
  ASSUME DiskTypes, Linked, NEW p \in Paths, p # "a", Opens(p)
  PROVE  /\ inodes' \in 0 .. MaxFiles /\ inodes <= inodes' /\ dir' \in [Paths -> 0 .. inodes']
         /\ data' \in [1 .. MaxFiles -> Contents] /\ Linked'
         /\ Handle(p) \in 1 .. inodes' /\ dir'[p] = Handle(p) /\ data'[Handle(p)] = <<>>
         /\ \A q \in Paths : q # p => dir'[q] = dir[q] /\ (dir[q] # 0 => data'[dir[q]] = data[dir[q]])
         /\ \A i \in 1 .. inodes : OnlyAt(i, "a") => OnlyAt(i, "a")' /\ data'[i] = data[i]
<1>1. /\ inodes \in 0 .. MaxFiles /\ dir \in [Paths -> 0 .. inodes]
      /\ data \in [1 .. MaxFiles -> Contents] /\ MaxFiles \in Nat
  BY DocFacts DEF DiskTypes
<1>2. <<>> \in Contents
  BY DEF Contents
<1>3. CASE dir[p] # 0
  <2>1. data' = [data EXCEPT ![dir[p]] = <<>>] /\ dir' = dir /\ inodes' = inodes /\ Handle(p) = dir[p]
    BY <1>3 DEF Opens, Handle
  <2>2. /\ data' \in [1 .. MaxFiles -> Contents] /\ data'[dir[p]] = <<>>
        /\ \A i \in 1 .. inodes : OnlyAt(i, "a") => data'[i] = data[i]
        /\ \A q \in Paths : q # p /\ dir[q] # 0 => data'[dir[q]] = data[dir[q]]
    BY <1>2, <1>3, <2>1, WrittenFacts
  <2>3. Linked' /\ \A i \in 1 .. inodes : OnlyAt(i, "a") => OnlyAt(i, "a")'
    BY <2>1 DEF Linked, OnlyAt
  <2>4. dir[p] \in 1 .. inodes'
    BY <1>1, <1>3, <2>1
  <2>5. inodes' \in 0 .. MaxFiles /\ inodes <= inodes' /\ dir' \in [Paths -> 0 .. inodes']
    BY <1>1, <2>1
  <2> QED BY <2>1, <2>2, <2>3, <2>4, <2>5
<1>4. CASE dir[p] = 0
  <2>1. PICK h : h = inodes + 1
    OBVIOUS
  <2>2. /\ inodes < MaxFiles - Reserved(p) /\ inodes' = h /\ Handle(p) = h
        /\ dir' = [dir EXCEPT ![p] = h] /\ data' = [data EXCEPT ![h] = <<>>]
    BY <1>4, <2>1 DEF Opens, Handle
  <2>3. Reserved(p) \in {0, 1}
    BY DEF Reserved
  <2>4. h \in 1 .. MaxFiles /\ inodes' \in 0 .. MaxFiles /\ inodes <= inodes' /\ h \in 1 .. inodes'
    BY <1>1, <2>1, <2>2, <2>3
  <2>5. /\ data' \in [1 .. MaxFiles -> Contents] /\ data'[h] = <<>>
        /\ \A i \in 1 .. MaxFiles : i # h => data'[i] = data[i]
    BY <1>1, <1>2, <2>2, <2>4
  <2>6. dir'[p] = h /\ \A q \in Paths : q # p => dir'[q] = dir[q]
    BY <1>1, <2>2
  <2>7. dir' \in [Paths -> 0 .. inodes']
    BY <1>1, <2>1, <2>2
  <2>8. \A i \in 1 .. inodes : i # h /\ i # 0 /\ i \in 1 .. MaxFiles
    BY <1>1, <2>1
  <2>9. \A q \in Paths : dir[q] # h /\ (dir[q] # 0 => dir[q] \in 1 .. inodes)
    BY <1>1, <2>1
  <2>10. Linked'
    <3> SUFFICES ASSUME NEW q \in Paths, NEW r \in Paths, dir'[q] # 0, dir'[r] = dir'[q] PROVE r = q
      BY DEF Linked, OnlyAt
    <3> QED BY <2>6, <2>9 DEF Linked, OnlyAt
  <2>11. ASSUME NEW i \in 1 .. inodes, OnlyAt(i, "a") PROVE OnlyAt(i, "a")' /\ data'[i] = data[i]
    <3>1. ASSUME NEW q \in Paths, dir'[q] = i PROVE q = "a"
      BY <2>6, <2>8, <2>11, <3>1 DEF OnlyAt
    <3>2. OnlyAt(i, "a")'
      BY <3>1 DEF OnlyAt
    <3> QED BY <2>5, <2>8, <3>2
  <2>12. \A q \in Paths : q # p => dir'[q] = dir[q] /\ (dir[q] # 0 => data'[dir[q]] = data[dir[q]])
    BY <2>5, <2>6, <2>8, <2>9
  <2> QED BY <2>2, <2>4, <2>5, <2>6, <2>7, <2>10, <2>11, <2>12
<1> QED BY <1>3, <1>4

-----------------------------------------------------------------------------
(* Who does nothing keeps what is his *)

LEMMA Handles ==
  ASSUME DiskTypes, ProgramTypes
  PROVE  /\ inodes \in Nat /\ inodes <= MaxFiles /\ MaxFiles \in Nat
         /\ 0 \in 0 .. inodes /\ inodes <= inodes
         /\ file.fp \in 0 .. inodes /\ saving.fp \in 0 .. inodes /\ load.fp \in 0 .. inodes
         /\ copy.src \in 0 .. inodes /\ copy.dst \in 0 .. inodes
         /\ \A i \in 0 .. inodes : i # 0 => i \in 1 .. inodes /\ i \in 1 .. MaxFiles
<1>1. inodes \in Nat /\ inodes <= MaxFiles /\ MaxFiles \in Nat
  BY DocFacts DEF DiskTypes
<1>2. file.fp \in 0 .. inodes /\ saving.fp \in 0 .. inodes
  BY DEF ProgramTypes
<1>3. load.fp \in 0 .. inodes
  BY DEF ProgramTypes
<1>4. copy.src \in 0 .. inodes /\ copy.dst \in 0 .. inodes
  BY DEF ProgramTypes
<1>5. \A i \in 0 .. inodes : i # 0 => i \in 1 .. inodes /\ i \in 1 .. MaxFiles
  BY <1>1
<1>6. 0 \in 0 .. inodes /\ inodes <= inodes
  BY <1>1
<1> QED BY <1>1, <1>2, <1>3, <1>4, <1>5, <1>6

LEMMA WriterKept ==
  ASSUME ProgramTypes, Writer, TmpKept, file' = file, full' = 0 => full = 0, refused' = 0 => refused = 0,
         file.fp # 0 =>
           /\ saving'.pc = "idle"
           /\ \A q \in {"c", "a.tmp", "c.tmp"} :
                dir'[q] = dir[q] /\ (dir[q] # 0 => data'[dir[q]] = data[dir[q]])
  PROVE  Writer' /\ TmpKept'
<1>1. file.name \in {"", "a", "c"} /\ file.tmp \in {"", "a.tmp", "c.tmp"}
  BY DEF ProgramTypes
<1>2. CASE file.fp = 0
  BY <1>2 DEF Writer, TmpKept
<1>3. CASE file.fp # 0
  <2>1. PICK q \in {"c", "a.tmp", "c.tmp"} :
          /\ dir[q] = file.fp
          /\ \/ file.name = "c" /\ q = "c"
             \/ file.name # "" /\ file.tmp = Tmp(file.name) /\ q = file.tmp
    BY <1>1, <1>3, PathFacts DEF Writer
  <2>2. dir'[q] = file.fp /\ data'[file.fp] = data[file.fp]
    BY <1>3, <2>1
  <2>3. Writer'
    BY <1>3, <2>1, <2>2 DEF Writer
  <2>4. TmpKept'
    BY <1>1, <1>3 DEF TmpKept
  <2> QED BY <2>3, <2>4
<1> QED BY <1>2, <1>3

LEMMA SaverKept ==
  ASSUME Saver, saving' = saving, full' = 0 => full = 0,
         saving.pc # "idle" =>
           /\ file'.fp = 0 /\ dir'["a.tmp"] = dir["a.tmp"]
           /\ dir["a.tmp"] # 0 => data'[dir["a.tmp"]] = data[dir["a.tmp"]]
  PROVE  Saver'
BY DEF Saver

LEMMA CopierKept ==
  ASSUME DiskTypes, ProgramTypes, Copier, Calm, copy' = copy,
         copy.pc \in {"loop", "rename"} =>
           /\ dir'["b.tmp"] = dir["b.tmp"]
           /\ dir["b.tmp"] # 0 => data'[dir["b.tmp"]] = data[dir["b.tmp"]]
  PROVE  Copier'
<1>1. copy.pc \in {"loop", "rename"} => copy.src \in 1 .. inodes
  BY Handles DEF Copier
<1>2. copy.pc \in {"loop", "rename"} =>
        /\ OnlyAt(copy.src, "a")' /\ data'[copy.src] = data[copy.src]
        /\ dir'["b.tmp"] = copy.dst /\ data'[copy.dst] = data[copy.dst]
  BY <1>1 DEF Copier, Calm
<1> QED BY <1>2 DEF Copier, Calm

LEMMA ReaderKept ==
  ASSUME DiskTypes, Linked, ProgramTypes, Reader, Calm, load' = load,
         \/ dir'["a"] = dir["a"]
         \/ dir'["a"] = 0
         \/ full = 0 => \E d \in Docs : data'[dir'["a"]] = Whole(d)
  PROVE  Reader'
<1>1. load.fp # 0 => load.fp \in 1 .. inodes
  BY Handles
<1>2. load.fp # 0 => OnlyAt(load.fp, "a")' /\ data'[load.fp] = data[load.fp]
  BY <1>1 DEF Reader, Calm
<1>3. dir["a"] # 0 => dir["a"] \in 1 .. inodes /\ OnlyAt(dir["a"], "a")
  BY PathFacts, DocFacts DEF DiskTypes, Linked
<1>4. dir["a"] # 0 => data'[dir["a"]] = data[dir["a"]]
  BY <1>3 DEF Calm
<1>5. full' = 0 /\ dir'["a"] # 0 => \E d \in Docs : data'[dir'["a"]] = Whole(d)
  BY <1>4 DEF Reader, Calm
<1> QED BY <1>2, <1>5 DEF Reader, Calm

LEMMA FaultFacts ==
  ASSUME FaultsCounted
  PROVE  /\ Refuse /\ UNCHANGED <<full, crashes>> => FaultsCounted' /\ refused' # 0
         /\ Granted /\ UNCHANGED <<full, crashes>> => FaultsCounted' /\ refused' = refused
         /\ Fault /\ full' = full + 1 /\ UNCHANGED <<refused, crashes>> => FaultsCounted' /\ full' # 0
         /\ Fault /\ crashes' = crashes + 1 /\ UNCHANGED <<refused, full>> => FaultsCounted'
BY DocFacts DEF FaultsCounted, Refuse, Granted, Fault

-----------------------------------------------------------------------------
(* The CFile *)

\* The CFile is closed and at most one path is removed.
LEMMA FileEnds ==
  ASSUME FilesInv, file.fp # 0,
         file' \in [fp : {0}, name : {"", "a", "c"}, tmp : {"", "a.tmp", "c.tmp"}, doc : Nat, at : Nat],
         refused' = 0 => refused = 0 /\ file'.tmp = "",
         NEW p \in {"", "a", "c", "a.tmp", "c.tmp"}, dir' = Removed(p), FaultsCounted',
         UNCHANGED <<data, inodes, saving, copy, load, full, crashes>>
  PROVE  FilesInv'
<1>1. DiskTypes /\ ProgramTypes /\ Linked /\ Writer /\ TmpKept /\ Saver /\ Copier /\ Reader
  BY DEF FilesInv
<1>2. /\ dir' \in [Paths -> 0 .. inodes'] /\ Linked'
      /\ \A q \in Paths : dir'[q] = IF q = p THEN 0 ELSE dir[q]
      /\ \A i \in 1 .. inodes : OnlyAt(i, "a") => OnlyAt(i, "a")'
  BY <1>1, RemovedFacts
<1>3. DiskTypes'
  BY <1>1, <1>2 DEF DiskTypes
<1>4. ProgramTypes'
  <2>1. 0 \in 0 .. inodes
    BY <1>1, Handles
  <2>2. file' \in [fp : 0 .. inodes, name : {"", "a", "c"}, tmp : {"", "a.tmp", "c.tmp"}, doc : Nat, at : Nat]
    BY <2>1
  <2>3. UNCHANGED <<inodes, saving, copy, load>>
    OBVIOUS
  <2> QED BY <1>1, <2>2, <2>3 DEF ProgramTypes
<1>5. Calm
  <2>1. inodes' = inodes /\ data' = data /\ full' = full /\ inodes <= inodes
    BY <1>1, Handles
  <2> QED BY <1>2, <2>1 DEF Calm
<1>6. file'.fp = 0 /\ Writer' /\ TmpKept'
  BY DEF Writer, TmpKept
<1>7. saving.pc = "idle"
  BY <1>1 DEF Writer
<1>8. Saver'
  BY <1>7 DEF Saver
<1>9. dir'["b.tmp"] = dir["b.tmp"] /\ (dir'["a"] = dir["a"] \/ dir'["a"] = 0)
  BY <1>2, PathFacts
<1>10. Copier' /\ Reader'
  BY <1>1, <1>5, <1>9, CopierKept, ReaderKept
<1> QED BY <1>2, <1>3, <1>4, <1>6, <1>8, <1>10 DEF FilesInv

LEMMA NothingRemoved == DiskTypes => dir = Removed("")
BY PathFacts DEF DiskTypes, Removed

LEMMA StepCloseFile ==
  ASSUME FilesInv, CloseFile PROVE FilesInv'
<1>1. ProgramTypes /\ FaultsCounted
  BY DEF FilesInv
<1>2. /\ file.fp # 0 /\ dir' = Removed(file.tmp) /\ file' = NoFile
      /\ UNCHANGED <<data, inodes, saving, copy, load, refused, full, crashes>>
  BY DEF CloseFile
<1>3. file.tmp \in {"", "a.tmp", "c.tmp"}
  BY <1>1 DEF ProgramTypes
<1>4. FaultsCounted'
  BY <1>1, <1>2 DEF FaultsCounted
<1>5. file' \in [fp : {0}, name : {"", "a", "c"}, tmp : {"", "a.tmp", "c.tmp"}, doc : Nat, at : Nat]
      /\ file'.tmp = ""
  BY <1>2 DEF NoFile
<1> QED BY <1>2, <1>3, <1>4, <1>5, FileEnds

LEMMA StepCloseAndRemove ==
  ASSUME FilesInv, CloseAndRemove PROVE FilesInv'
<1>1. DiskTypes /\ ProgramTypes /\ FaultsCounted
  BY DEF FilesInv
<1>2. file.fp # 0 /\ UNCHANGED <<data, inodes, saving, copy, load, full, crashes>>
  BY DEF CloseAndRemove
<1>3. file.name \in {"", "a", "c"} /\ file.tmp \in {"", "a.tmp", "c.tmp"}
  BY <1>1 DEF ProgramTypes
<1>4. CASE Granted /\ dir' = Removed(file.name) /\ file' = NoFile
  <2>1. FaultsCounted' /\ refused' = refused
    BY <1>1, <1>2, <1>4, FaultFacts
  <2>2. file' \in [fp : {0}, name : {"", "a", "c"}, tmp : {"", "a.tmp", "c.tmp"}, doc : Nat, at : Nat]
        /\ file'.tmp = ""
    BY <1>4 DEF NoFile
  <2> QED BY <1>2, <1>3, <1>4, <2>1, <2>2, FileEnds
<1>5. CASE Refuse /\ dir' = dir /\ file' = [NoFile EXCEPT !.tmp = file.tmp]
  <2>1. FaultsCounted' /\ refused' # 0
    BY <1>1, <1>2, <1>5, FaultFacts
  <2>2. file' \in [fp : {0}, name : {"", "a", "c"}, tmp : {"", "a.tmp", "c.tmp"}, doc : Nat, at : Nat]
    BY <1>3, <1>5 DEF NoFile
  <2>3. dir' = Removed("")
    BY <1>1, <1>5, NothingRemoved
  <2> QED BY <1>2, <2>1, <2>2, <2>3, FileEnds
<1> QED BY <1>4, <1>5 DEF CloseAndRemove

\* A file that is published under a is complete.
LEMMA StepCloseAndRename ==
  ASSUME FilesInv, CloseAndRename PROVE FilesInv'
<1>1. /\ DiskTypes /\ ProgramTypes /\ FaultsCounted
      /\ Linked /\ Writer /\ TmpKept /\ Saver /\ Copier /\ Reader
  BY DEF FilesInv
<1>2. /\ file.fp # 0 /\ file.at = Sizes[file.doc] /\ file' = NoFile
      /\ UNCHANGED <<data, inodes, saving, copy, load, full, crashes>>
  BY DEF CloseAndRename
<1>3. file.name \in {"", "a", "c"} /\ file.tmp \in {"", "a.tmp", "c.tmp"}
  BY <1>1 DEF ProgramTypes
<1>4. file' \in [fp : {0}, name : {"", "a", "c"}, tmp : {"", "a.tmp", "c.tmp"}, doc : Nat, at : Nat]
      /\ file'.fp = 0 /\ file'.tmp = ""
  BY <1>2 DEF NoFile
<1>5. CASE ~Exists(file.tmp) /\ dir' = dir /\ Granted
  <2>1. FaultsCounted' /\ refused' = refused
    BY <1>1, <1>2, <1>5, FaultFacts
  <2>2. dir' = Removed("")
    BY <1>1, <1>5, NothingRemoved
  <2> QED BY <1>2, <1>4, <2>1, <2>2, FileEnds
<1>6. CASE dir' = Removed(file.tmp) /\ Refuse
  <2>1. FaultsCounted' /\ refused' # 0
    BY <1>1, <1>2, <1>6, FaultFacts
  <2> QED BY <1>2, <1>3, <1>4, <1>6, <2>1, FileEnds
<1>7. CASE Exists(file.tmp) /\ dir' = Renamed(file.tmp, file.name) /\ Granted
  <2>1. PICK from, to : from = file.tmp /\ to = file.name
    OBVIOUS
  <2>2. /\ from \in Paths /\ to \in Paths /\ from # to /\ from # "a" /\ from # "b.tmp" /\ to # "b.tmp"
        /\ to \in {"a", "c"}
    BY <1>1, <1>2, <1>3, <1>7, <2>1, PathFacts DEF Exists, Writer
  <2>3. /\ dir' \in [Paths -> 0 .. inodes'] /\ Linked'
        /\ dir'[from] = 0 /\ dir'[to] = dir[from]
        /\ \A q \in Paths : q # from /\ q # to => dir'[q] = dir[q]
        /\ \A i \in 1 .. inodes : OnlyAt(i, "a") => OnlyAt(i, "a")'
    BY <1>1, <1>2, <1>7, <2>1, <2>2, RenamedFacts
  <2>4. FaultsCounted' /\ refused' = refused
    BY <1>1, <1>2, <1>7, FaultFacts
  <2>5. DiskTypes'
    BY <1>1, <1>2, <2>3 DEF DiskTypes
  <2>6. ProgramTypes'
    <3>1. 0 \in 0 .. inodes
      BY <1>1, Handles
    <3> QED BY <1>1, <1>2, <1>4, <3>1 DEF ProgramTypes
  <2>7. Calm
    BY <1>1, <1>2, <2>3, Handles DEF Calm
  <2>8. Writer' /\ TmpKept'
    BY <1>4 DEF Writer, TmpKept
  <2>9. Saver'
    BY <1>1, <1>2 DEF Writer, Saver
  <2>10. dir'["b.tmp"] = dir["b.tmp"]
    BY <2>2, <2>3, PathFacts
  <2>11. Copier'
    BY <1>1, <1>2, <2>7, <2>10, CopierKept
  <2>12. Reader'
    <3>1. CASE to = "c"
      <4>1. dir'["a"] = dir["a"]
        BY <2>2, <2>3, <3>1, PathFacts
      <4> QED BY <1>1, <1>2, <2>7, <4>1, ReaderKept
    <3>2. CASE to = "a"
      <4>1. dir[from] = file.fp /\ file.doc \in Docs
        BY <1>1, <1>2, <2>1, <3>2 DEF Writer
      <4>2. full = 0 => data[file.fp] = FirstChunks(file.doc, file.at)
        BY <1>1, <1>2 DEF Writer
      <4>3. FirstChunks(file.doc, file.at) = Whole(file.doc)
        BY <1>2, <4>1, DocFacts, ChunkFacts
      <4>4. full = 0 => \E d \in Docs : data'[dir'["a"]] = Whole(d)
        BY <1>2, <2>3, <3>2, <4>1, <4>2, <4>3
      <4> QED BY <1>1, <1>2, <2>7, <4>4, ReaderKept
    <3> QED BY <2>2, <3>1, <3>2
  <2> QED BY <2>3, <2>4, <2>5, <2>6, <2>8, <2>9, <2>11, <2>12 DEF FilesInv
<1> QED BY <1>5, <1>6, <1>7 DEF CloseAndRename

-----------------------------------------------------------------------------
(* Opening *)

\* More inodes are no harm to the handles.
LEMMA HandlesGrow ==
  ASSUME DiskTypes, ProgramTypes, inodes' \in Nat, inodes <= inodes'
  PROVE  /\ file \in [fp : 0 .. inodes', name : {"", "a", "c"}, tmp : {"", "a.tmp", "c.tmp"}, doc : Nat, at : Nat]
         /\ saving \in [pc : {"idle", "write", "rename"}, fp : 0 .. inodes', doc : Nat]
         /\ copy \in [pc : {"idle", "open", "loop", "rename"}, size : Int, src : 0 .. inodes',
                      dst : 0 .. inodes', total : Int, tries : Int]
         /\ load \in [fp : 0 .. inodes', got : Contents]
<1>1. PICK n \in Nat : n = inodes' /\ inodes <= n /\ inodes \in Nat
  BY Handles
<1>2. \A i \in 0 .. inodes : i \in 0 .. n
  BY <1>1
<1>3. file \in [fp : 0 .. n, name : {"", "a", "c"}, tmp : {"", "a.tmp", "c.tmp"}, doc : Nat, at : Nat]
  BY <1>2 DEF ProgramTypes
<1>4. saving \in [pc : {"idle", "write", "rename"}, fp : 0 .. n, doc : Nat]
  BY <1>2 DEF ProgramTypes
<1>5. copy \in [pc : {"idle", "open", "loop", "rename"}, size : Int, src : 0 .. n,
                dst : 0 .. n, total : Int, tries : Int]
  BY <1>2 DEF ProgramTypes
<1>6. load \in [fp : 0 .. n, got : Contents]
  BY <1>2 DEF ProgramTypes
<1> QED BY <1>1, <1>3, <1>4, <1>5, <1>6

\* The writer opens a file: COPY and the reader do not notice.
LEMMA OpeningKept ==
  ASSUME FilesInv, NEW p \in {"c", "a.tmp", "c.tmp"}, Opens(p), Granted,
         UNCHANGED <<copy, load, full, crashes>>
  PROVE  /\ DiskTypes' /\ FaultsCounted' /\ Linked' /\ Copier' /\ Reader'
         /\ inodes' \in Nat /\ inodes <= inodes'
         /\ Handle(p) \in 1 .. inodes' /\ dir'[p] = Handle(p) /\ data'[Handle(p)] = <<>>
         /\ refused' = refused
<1>1. DiskTypes /\ ProgramTypes /\ FaultsCounted /\ Linked /\ Copier /\ Reader
  BY DEF FilesInv
<1>2. p \in Paths /\ p # "a" /\ p # "b.tmp" /\ {"a", "b.tmp"} \subseteq Paths
  BY PathFacts
<1>3. /\ inodes' \in 0 .. MaxFiles /\ inodes <= inodes' /\ dir' \in [Paths -> 0 .. inodes']
      /\ data' \in [1 .. MaxFiles -> Contents] /\ Linked'
      /\ Handle(p) \in 1 .. inodes' /\ dir'[p] = Handle(p) /\ data'[Handle(p)] = <<>>
      /\ \A q \in Paths : q # p => dir'[q] = dir[q] /\ (dir[q] # 0 => data'[dir[q]] = data[dir[q]])
      /\ \A i \in 1 .. inodes : OnlyAt(i, "a") => OnlyAt(i, "a")' /\ data'[i] = data[i]
  BY <1>1, <1>2, OpensFacts
<1>4. DiskTypes' /\ inodes' \in Nat
  BY <1>3 DEF DiskTypes
<1>5. FaultsCounted' /\ refused' = refused
  BY <1>1, FaultFacts
<1>6. Calm
  BY <1>3 DEF Calm
<1>7. Copier'
  BY <1>1, <1>2, <1>3, <1>6, CopierKept
<1>8. Reader'
  BY <1>1, <1>2, <1>3, <1>6, ReaderKept
<1> QED BY <1>3, <1>4, <1>5, <1>7, <1>8

LEMMA StepOpenFile ==
  ASSUME FilesInv, NEW n \in Names, NEW d \in Docs, OpenFile(n, d) \/ OpenForRename(n, d)
  PROVE  FilesInv'
<1>1. DiskTypes /\ ProgramTypes /\ FaultsCounted /\ TmpKept /\ Saver
  BY DEF FilesInv
<1>2. PICK p \in {"c", "a.tmp", "c.tmp"} :
        /\ Opens(p) /\ Granted /\ ~Busy /\ file.fp = 0 /\ UNCHANGED <<saving, copy, load, full, crashes>>
        /\ \/ n = "c" /\ p = "c" /\ file' = [fp |-> Handle(p), name |-> n, tmp |-> file.tmp, doc |-> d, at |-> 0]
           \/ n \in {"a", "c"} /\ p = Tmp(n) /\ file' = [fp |-> Handle(p), name |-> n, tmp |-> p, doc |-> d, at |-> 0]
  <2>1. CASE OpenFile(n, d)
    BY <2>1 DEF OpenFile
  <2>2. CASE OpenForRename(n, d)
    <3>1. n \in {"a", "c"}
      BY <2>2 DEF OpenForRename, Names
    <3>2. Tmp(n) \in {"c", "a.tmp", "c.tmp"}
      BY <3>1, PathFacts
    <3> QED BY <2>2, <3>1, <3>2 DEF OpenForRename
  <2> QED BY <2>1, <2>2
<1>3. /\ DiskTypes' /\ FaultsCounted' /\ Linked' /\ Copier' /\ Reader'
      /\ inodes' \in Nat /\ inodes <= inodes'
      /\ Handle(p) \in 1 .. inodes' /\ dir'[p] = Handle(p) /\ data'[Handle(p)] = <<>>
      /\ refused' = refused
  BY <1>2, OpeningKept
<1>4. PICK h : h = Handle(p)
  OBVIOUS
<1>5. h \in 0 .. inodes' /\ h # 0
  BY <1>3, <1>4
<1>6. /\ file'.fp = h /\ file'.name = n /\ file'.doc = d /\ file'.at = 0
      /\ \/ n = "c" /\ p = "c" /\ file'.tmp = file.tmp
         \/ n \in {"a", "c"} /\ p = Tmp(n) /\ file'.tmp = p
  BY <1>2, <1>4
<1>7. saving.pc = "idle"
  BY <1>2 DEF Busy
<1>8. d \in Nat /\ Sizes[d] \in Nat
  BY DocFacts
<1>9. ProgramTypes'
  <2>1. n \in {"a", "c"} /\ file.tmp \in {"", "a.tmp", "c.tmp"} /\ file'.tmp \in {"", "a.tmp", "c.tmp"}
    BY <1>1, <1>6, PathFacts DEF ProgramTypes
  <2>2. file' \in [fp : 0 .. inodes', name : {"", "a", "c"}, tmp : {"", "a.tmp", "c.tmp"}, doc : Nat, at : Nat]
    <3>1. PICK t \in {"", "a.tmp", "c.tmp"} : file' = [fp |-> h, name |-> n, tmp |-> t, doc |-> d, at |-> 0]
      <4>1. CASE file' = [fp |-> Handle(p), name |-> n, tmp |-> file.tmp, doc |-> d, at |-> 0]
        BY <1>4, <2>1, <4>1
      <4>2. CASE /\ n \in {"a", "c"} /\ p = Tmp(n)
                 /\ file' = [fp |-> Handle(p), name |-> n, tmp |-> p, doc |-> d, at |-> 0]
        <5>1. p \in {"", "a.tmp", "c.tmp"}
          BY <4>2, PathFacts
        <5> QED BY <1>4, <4>2, <5>1
      <4> QED BY <1>2, <4>1, <4>2
    <3> QED BY <1>5, <1>8, <2>1, <3>1
  <2>3. /\ saving' \in [pc : {"idle", "write", "rename"}, fp : 0 .. inodes', doc : Nat]
        /\ copy' \in [pc : {"idle", "open", "loop", "rename"}, size : Int, src : 0 .. inodes',
                      dst : 0 .. inodes', total : Int, tries : Int]
        /\ load' \in [fp : 0 .. inodes', got : Contents]
    BY <1>1, <1>2, <1>3, HandlesGrow
  <2> QED BY <2>2, <2>3 DEF ProgramTypes
<1>10. Writer'
  <2>1. data'[h] = FirstChunks(d, 0)
    BY <1>3, <1>4, ChunkFacts
  <2>2. file'.at <= Sizes[file'.doc]
    BY <1>6, <1>8
  <2>3. \/ file'.name = "c" /\ dir'["c"] = file'.fp
        \/ file'.name # "" /\ file'.tmp = Tmp(file'.name) /\ dir'[file'.tmp] = file'.fp
    BY <1>3, <1>4, <1>6
  <2> QED BY <1>2, <1>6, <1>7, <2>1, <2>2, <2>3 DEF Writer
<1>11. TmpKept'
  BY <1>1, <1>2, <1>3, <1>4, <1>5, <1>6 DEF TmpKept
<1>12. Saver'
  BY <1>2, <1>7 DEF Saver
<1> QED BY <1>3, <1>9, <1>10, <1>11, <1>12 DEF FilesInv

LEMMA StepSaveOpen ==
  ASSUME FilesInv, NEW d \in Docs, SaveOpen(d) PROVE FilesInv'
<1>1. DiskTypes /\ ProgramTypes /\ FaultsCounted /\ TmpKept /\ Saver
  BY DEF FilesInv
<1>2. PICK p \in {"c", "a.tmp", "c.tmp"} :
        /\ p = "a.tmp" /\ Opens(p) /\ Granted /\ file.fp = 0 /\ UNCHANGED <<file, copy, load, full, crashes>>
        /\ saving' = [pc |-> "write", fp |-> Handle(p), doc |-> d]
  BY DEF SaveOpen
<1>3. /\ DiskTypes' /\ FaultsCounted' /\ Linked' /\ Copier' /\ Reader'
      /\ inodes' \in Nat /\ inodes <= inodes'
      /\ Handle(p) \in 1 .. inodes' /\ dir'[p] = Handle(p) /\ data'[Handle(p)] = <<>>
      /\ refused' = refused
  BY <1>2, OpeningKept
<1>4. PICK h : h = Handle(p)
  OBVIOUS
<1>5. h \in 0 .. inodes' /\ h # 0 /\ d \in Nat
  BY <1>3, <1>4, DocFacts
<1>6. ProgramTypes'
  <2>1. saving' \in [pc : {"idle", "write", "rename"}, fp : 0 .. inodes', doc : Nat]
    BY <1>2, <1>4, <1>5
  <2>2. /\ file' \in [fp : 0 .. inodes', name : {"", "a", "c"}, tmp : {"", "a.tmp", "c.tmp"}, doc : Nat, at : Nat]
        /\ copy' \in [pc : {"idle", "open", "loop", "rename"}, size : Int, src : 0 .. inodes',
                      dst : 0 .. inodes', total : Int, tries : Int]
        /\ load' \in [fp : 0 .. inodes', got : Contents]
    BY <1>1, <1>2, <1>3, HandlesGrow
  <2> QED BY <2>1, <2>2 DEF ProgramTypes
<1>7. Writer' /\ TmpKept'
  BY <1>1, <1>2, <1>3 DEF Writer, TmpKept
<1>8. Saver'
  <2>1. saving'.pc = "write" /\ saving'.fp = h /\ saving'.doc = d /\ file'.fp = 0 /\ dir'["a.tmp"] = h
    BY <1>2, <1>3, <1>4
  <2> QED BY <1>5, <2>1 DEF Saver
<1> QED BY <1>3, <1>6, <1>7, <1>8 DEF FilesInv

LEMMA StepOpenForRenameFails ==
  ASSUME FilesInv, NEW n \in Names, OpenForRenameFails(n) PROVE FilesInv'
<1>1. /\ DiskTypes /\ ProgramTypes /\ FaultsCounted
      /\ Linked /\ Saver /\ Copier /\ Reader
  BY DEF FilesInv
<1>2. /\ ~Busy /\ Refuse /\ n \in {"a", "c"} /\ file' = [NoFile EXCEPT !.name = n, !.tmp = Tmp(n)]
      /\ UNCHANGED <<dir, data, inodes, saving, copy, load, full, crashes>>
  BY DEF OpenForRenameFails, Names
<1>3. FaultsCounted' /\ refused' # 0
  BY <1>1, <1>2, FaultFacts
<1>4. file'.fp = 0 /\ Tmp(n) \in {"a.tmp", "c.tmp"}
  BY <1>2, PathFacts DEF NoFile
<1>5. ProgramTypes'
  <2>1. 0 \in 0 .. inodes
    BY <1>1, Handles
  <2>2. file' \in [fp : 0 .. inodes, name : {"", "a", "c"}, tmp : {"", "a.tmp", "c.tmp"}, doc : Nat, at : Nat]
    BY <1>2, <1>4, <2>1 DEF NoFile
  <2>3. UNCHANGED <<inodes, saving, copy, load>>
    BY <1>2
  <2> QED BY <1>1, <2>2, <2>3 DEF ProgramTypes
<1>6. DiskTypes' /\ Linked'
  BY <1>1, <1>2 DEF DiskTypes, Linked, OnlyAt
<1>7. Writer' /\ TmpKept'
  BY <1>3, <1>4 DEF Writer, TmpKept
<1>8. Saver'
  BY <1>2 DEF Saver, Busy
<1>9. Calm
  BY <1>1, <1>2, Handles DEF Calm, OnlyAt
<1>10. Copier' /\ Reader'
  BY <1>1, <1>2, <1>9, CopierKept, ReaderKept
<1> QED BY <1>3, <1>5, <1>6, <1>7, <1>8, <1>10 DEF FilesInv

-----------------------------------------------------------------------------
(* Writing *)

\* A write to a file under p: COPY, unless it is its own, and the reader do not
\* notice.
LEMMA WritingKept ==
  ASSUME FilesInv, NEW p \in {"c", "a.tmp", "b.tmp", "c.tmp"}, dir[p] # 0, NEW z \in Contents,
         data' = [data EXCEPT ![dir[p]] = z], full' = 0 => full = 0, UNCHANGED <<dir, inodes, load>>
  PROVE  /\ DiskTypes' /\ Linked' /\ Reader' /\ Calm /\ data'[dir[p]] = z
         /\ \A q \in Paths : q # p /\ dir[q] # 0 => data'[dir[q]] = data[dir[q]]
<1>1. DiskTypes /\ ProgramTypes /\ Linked /\ Reader
  BY DEF FilesInv
<1>2. p \in Paths /\ p # "a"
  BY PathFacts
<1>3. /\ data' \in [1 .. MaxFiles -> Contents] /\ data'[dir[p]] = z
      /\ \A i \in 1 .. inodes : OnlyAt(i, "a") => data'[i] = data[i]
      /\ \A q \in Paths : q # p /\ dir[q] # 0 => data'[dir[q]] = data[dir[q]]
  BY <1>1, <1>2, WrittenFacts
<1>4. DiskTypes' /\ Linked'
  BY <1>1, <1>3 DEF DiskTypes, Linked, OnlyAt
<1>5. Calm
  BY <1>1, <1>3, Handles DEF Calm, OnlyAt
<1>6. Reader'
  BY <1>1, <1>5, ReaderKept
<1> QED BY <1>3, <1>4, <1>5, <1>6

\* Nothing is written at all.
LEMMA NothingKept ==
  ASSUME FilesInv, full' = 0 => full = 0, UNCHANGED <<dir, data, inodes>>
  PROVE  DiskTypes' /\ Linked' /\ Calm
<1>1. DiskTypes /\ ProgramTypes /\ Linked
  BY DEF FilesInv
<1>2. DiskTypes' /\ Linked'
  BY <1>1 DEF DiskTypes, Linked, OnlyAt
<1> QED BY <1>1, <1>2, Handles DEF Calm, OnlyAt

LEMMA StepFwrite ==
  ASSUME FilesInv, Fwrite PROVE FilesInv'
<1>1. /\ DiskTypes /\ ProgramTypes /\ FaultsCounted
      /\ Linked /\ Writer /\ TmpKept /\ Saver /\ Copier /\ Reader
  BY DEF FilesInv
<1>2. /\ file.fp # 0 /\ file.at < Sizes[file.doc] /\ file' = [file EXCEPT !.at = file.at + 1]
      /\ Writes(file.fp, <<file.doc, file.at + 1>>)
      /\ UNCHANGED <<dir, inodes, saving, copy, load, refused, crashes>>
  BY DEF Fwrite
<1>3. PICK d \in Docs, k \in Nat : d = file.doc /\ k = file.at
  BY <1>1, <1>2 DEF ProgramTypes, Writer
<1>4. PICK f : f = file.fp /\ f \in 1 .. MaxFiles
  BY <1>1, <1>2, Handles
<1>5. PICK p \in {"c", "a.tmp", "c.tmp"} :
        /\ dir[p] = f
        /\ \/ file.name = "c" /\ p = "c"
           \/ file.name # "" /\ file.tmp = Tmp(file.name) /\ p = file.tmp
  <2>1. file.name \in {"", "a", "c"}
    BY <1>1 DEF ProgramTypes
  <2> QED BY <1>1, <1>2, <1>4, <2>1, PathFacts DEF Writer
<1>6. /\ file'.fp = f /\ file'.name = file.name /\ file'.tmp = file.tmp /\ file'.doc = d /\ file'.at = k + 1
      /\ k + 1 <= Sizes[d] /\ saving.pc = "idle"
  <2>1. file' = [file EXCEPT !.at = k + 1] /\ k < Sizes[d]
    BY <1>2, <1>3
  <2>2. file \in [fp : 0 .. inodes, name : {"", "a", "c"}, tmp : {"", "a.tmp", "c.tmp"}, doc : Nat, at : Nat]
    BY <1>1 DEF ProgramTypes
  <2>3. /\ file'.fp = f /\ file'.name = file.name /\ file'.tmp = file.tmp /\ file'.doc = d
        /\ file'.at = k + 1
    BY <1>3, <1>4, <2>1, <2>2
  <2>4. k + 1 <= Sizes[d]
    BY <2>1, DocFacts
  <2>5. saving.pc = "idle"
    BY <1>1, <1>2 DEF Writer
  <2> QED BY <2>3, <2>4, <2>5
<1>7. ProgramTypes'
  <2>1. file' \in [fp : 0 .. inodes, name : {"", "a", "c"}, tmp : {"", "a.tmp", "c.tmp"}, doc : Nat, at : Nat]
    <3>1. file' = [file EXCEPT !.at = k + 1] /\ k + 1 \in Nat
      BY <1>2, <1>3
    <3>2. file \in [fp : 0 .. inodes, name : {"", "a", "c"}, tmp : {"", "a.tmp", "c.tmp"}, doc : Nat, at : Nat]
      BY <1>1 DEF ProgramTypes
    <3> QED BY <3>1, <3>2
  <2>2. UNCHANGED <<inodes, saving, copy, load>>
    BY <1>2
  <2> QED BY <1>1, <2>1, <2>2 DEF ProgramTypes
<1>8. Saver'
  BY <1>2, <1>6 DEF Saver
<1>9. TmpKept'
  BY <1>1, <1>2, <1>4, <1>6 DEF TmpKept
<1>10. \/ file'.name = "c" /\ dir'["c"] = file'.fp
       \/ file'.name # "" /\ file'.tmp = Tmp(file'.name) /\ dir'[file'.tmp] = file'.fp
  BY <1>2, <1>5, <1>6
<1>11. CASE full' = full /\ data' = [data EXCEPT ![f] = Append(data[f], <<d, k + 1>>)]
  <2>1. data[f] \in Contents /\ <<d, k + 1>> \in Docs \X Nat
    BY <1>1, <1>4 DEF DiskTypes
  <2>2. Append(data[f], <<d, k + 1>>) \in Contents
    BY <2>1 DEF Contents
  <2>3. f # 0 /\ p \in Paths /\ p # "b.tmp" /\ "b.tmp" \in Paths
    BY <1>4, PathFacts
  <2>a. PICK z \in Contents : z = Append(data[f], <<d, k + 1>>)
    BY <2>2
  <2>b. /\ p \in {"c", "a.tmp", "b.tmp", "c.tmp"} /\ dir[p] = f /\ dir[p] # 0
        /\ data' = [data EXCEPT ![dir[p]] = z] /\ full' = full /\ UNCHANGED <<dir, inodes, load>>
    BY <1>2, <1>5, <1>11, <2>3, <2>a
  <2>c. /\ DiskTypes' /\ Linked' /\ Reader' /\ Calm /\ data'[dir[p]] = z
        /\ \A q \in Paths : q # p /\ dir[q] # 0 => data'[dir[q]] = data[dir[q]]
    BY <2>b, WritingKept
  <2>4. /\ DiskTypes' /\ Linked' /\ Reader' /\ Calm /\ data'[f] = Append(data[f], <<d, k + 1>>)
        /\ \A q \in Paths : q # p /\ dir[q] # 0 => data'[dir[q]] = data[dir[q]]
    BY <2>a, <2>b, <2>c
  <2>5. full = 0 => data'[f] = FirstChunks(d, k + 1)
    <3>1. full = 0 => data[f] = FirstChunks(d, k)
      BY <1>1, <1>2, <1>3, <1>4 DEF Writer
    <3> QED BY <2>4, <3>1, ChunkFacts
  <2>6. Writer'
    BY <1>2, <1>6, <1>10, <1>11, <2>5 DEF Writer
  <2>7. FaultsCounted'
    BY <1>1, <1>2, <1>11 DEF FaultsCounted
  <2>8. Copier'
    BY <1>1, <1>2, <2>3, <2>4, CopierKept
  <2> QED BY <1>7, <1>8, <1>9, <2>4, <2>6, <2>7, <2>8 DEF FilesInv
<1>12. CASE Fault /\ full' = full + 1 /\ data' = data
  <2>1. FaultsCounted' /\ full' # 0
    BY <1>1, <1>2, <1>12, FaultFacts
  <2>2. DiskTypes' /\ Linked' /\ Calm
    BY <1>2, <1>12, <2>1, NothingKept
  <2>3. Copier' /\ Reader'
    BY <1>1, <1>2, <1>12, <2>2, CopierKept, ReaderKept
  <2>4. Writer'
    BY <1>2, <1>6, <1>10, <2>1 DEF Writer
  <2> QED BY <1>7, <1>8, <1>9, <2>1, <2>2, <2>3, <2>4 DEF FilesInv
<1> QED BY <1>2, <1>3, <1>4, <1>11, <1>12 DEF Writes

LEMMA StepSaveWrite ==
  ASSUME FilesInv, SaveWrite PROVE FilesInv'
<1>1. /\ DiskTypes /\ ProgramTypes /\ FaultsCounted
      /\ Linked /\ Writer /\ TmpKept /\ Saver /\ Copier /\ Reader
  BY DEF FilesInv
<1>2. saving.pc = "write" /\ UNCHANGED <<inodes, file, copy, load, refused, crashes>>
  BY DEF SaveWrite
<1>a. PICK d \in Docs : d = saving.doc /\ saving.fp # 0 /\ dir["a.tmp"] = saving.fp /\ file.fp = 0
  BY <1>1, <1>2 DEF Saver
<1>b. saving.fp \in 0 .. inodes
  BY <1>1 DEF ProgramTypes
<1>3. PICK f \in 0 .. inodes : d = saving.doc /\ f = saving.fp /\ f # 0 /\ dir["a.tmp"] = f /\ file.fp = 0
  BY <1>a, <1>b
<1>4. PICK p \in {"c", "a.tmp", "b.tmp", "c.tmp"} : p = "a.tmp" /\ p \in Paths
  BY PathFacts
<1>5. ASSUME DiskTypes', saving' = NoSave \/ saving' = [saving EXCEPT !.pc = "rename"]
      PROVE  ProgramTypes'
  <2>1. 0 \in 0 .. inodes /\ saving \in [pc : {"idle", "write", "rename"}, fp : 0 .. inodes, doc : Nat]
    BY <1>1, Handles DEF ProgramTypes
  <2>2. saving' \in [pc : {"idle", "write", "rename"}, fp : 0 .. inodes, doc : Nat]
    BY <1>5, <2>1 DEF NoSave
  <2>3. UNCHANGED <<inodes, file, copy, load>>
    BY <1>2
  <2> QED BY <1>1, <2>2, <2>3 DEF ProgramTypes
<1>6. CASE /\ data' = [data EXCEPT ![f] = Whole(d)] /\ saving' = [saving EXCEPT !.pc = "rename"]
           /\ UNCHANGED <<dir, full>>
  <2>1. Whole(d) \in Contents
    BY DocFacts, ChunkFacts
  <2>2. "b.tmp" \in Paths /\ "b.tmp" # p
    BY <1>4, PathFacts
  <2>3. /\ DiskTypes' /\ Linked' /\ Reader' /\ Calm /\ data'[f] = Whole(d)
        /\ \A q \in Paths : q # p /\ dir[q] # 0 => data'[dir[q]] = data[dir[q]]
    BY <1>2, <1>3, <1>4, <1>6, <2>1, WritingKept
  <2>4. Copier'
    BY <1>1, <1>2, <1>6, <2>2, <2>3, CopierKept
  <2>5. Writer' /\ TmpKept'
    BY <1>1, <1>2, <1>3, <1>6 DEF Writer, TmpKept
  <2>6. saving'.pc = "rename" /\ saving'.fp = f /\ saving'.doc = d
    BY <1>1, <1>3, <1>6 DEF ProgramTypes
  <2>7. Saver'
    BY <1>2, <1>3, <1>6, <2>3, <2>6 DEF Saver
  <2>8. FaultsCounted'
    BY <1>1, <1>2, <1>6 DEF FaultsCounted
  <2> QED BY <1>5, <1>6, <2>3, <2>4, <2>5, <2>7, <2>8 DEF FilesInv
<1>7. CASE /\ Fault /\ full' = full + 1 /\ data' = data
           /\ saving' = [saving EXCEPT !.pc = "rename"] /\ dir' = dir
  <2>1. FaultsCounted' /\ full' # 0
    BY <1>1, <1>2, <1>7, FaultFacts
  <2>2. DiskTypes' /\ Linked' /\ Calm
    BY <1>2, <1>7, <2>1, NothingKept
  <2>3. Copier' /\ Reader'
    BY <1>1, <1>2, <1>7, <2>2, CopierKept, ReaderKept
  <2>4. Writer' /\ TmpKept'
    BY <1>1, <1>2, <1>3, <1>7 DEF Writer, TmpKept
  <2>5. saving'.pc = "rename" /\ saving'.fp = f /\ saving'.doc = d
    BY <1>1, <1>3, <1>7 DEF ProgramTypes
  <2>6. Saver'
    BY <1>2, <1>3, <1>7, <2>1, <2>5 DEF Saver
  <2> QED BY <1>5, <1>7, <2>1, <2>2, <2>3, <2>4, <2>6 DEF FilesInv
<1>8. CASE /\ Fault /\ full' = full + 1 /\ data' = data
           /\ saving' = NoSave /\ dir' = Removed("a.tmp")
  <2>1. FaultsCounted' /\ full' # 0
    BY <1>1, <1>2, <1>8, FaultFacts
  <2>2. /\ dir' \in [Paths -> 0 .. inodes'] /\ Linked'
        /\ \A q \in Paths : dir'[q] = IF q = "a.tmp" THEN 0 ELSE dir[q]
        /\ \A i \in 1 .. inodes : OnlyAt(i, "a") => OnlyAt(i, "a")'
    BY <1>1, <1>2, <1>8, RemovedFacts
  <2>3. DiskTypes'
    BY <1>1, <1>2, <1>8, <2>2 DEF DiskTypes
  <2>4. Calm
    BY <1>1, <1>2, <1>8, <2>1, <2>2, Handles DEF Calm
  <2>5. dir'["a"] = dir["a"] /\ dir'["b.tmp"] = dir["b.tmp"]
    BY <2>2, PathFacts
  <2>6. Copier' /\ Reader'
    BY <1>1, <1>2, <1>8, <2>4, <2>5, CopierKept, ReaderKept
  <2>7. Writer' /\ TmpKept'
    BY <1>1, <1>2, <1>3, <1>8 DEF Writer, TmpKept
  <2>8. Saver'
    BY <1>8 DEF Saver, NoSave
  <2> QED BY <1>5, <1>8, <2>1, <2>2, <2>3, <2>6, <2>7, <2>8 DEF FilesInv
<1> QED BY <1>3, <1>6, <1>7, <1>8 DEF SaveWrite

\* What buftofile publishes is complete.
LEMMA StepSaveRename ==
  ASSUME FilesInv, SaveRename PROVE FilesInv'
<1>1. /\ DiskTypes /\ ProgramTypes /\ FaultsCounted
      /\ Linked /\ Writer /\ TmpKept /\ Saver /\ Copier /\ Reader
  BY DEF FilesInv
<1>2. /\ saving.pc = "rename" /\ saving' = NoSave
      /\ UNCHANGED <<data, inodes, file, copy, load, full, crashes>>
  BY DEF SaveRename
<1>a. PICK d \in Docs : /\ d = saving.doc /\ saving.fp # 0 /\ dir["a.tmp"] = saving.fp /\ file.fp = 0
                        /\ full = 0 => data[saving.fp] = Whole(d)
  BY <1>1, <1>2 DEF Saver
<1>b. saving.fp \in 0 .. inodes
  BY <1>1 DEF ProgramTypes
<1>3. PICK f \in 0 .. inodes : /\ d = saving.doc /\ f = saving.fp /\ f # 0 /\ dir["a.tmp"] = f /\ file.fp = 0
                               /\ full = 0 => data[f] = Whole(d)
  BY <1>a, <1>b
<1>4. ProgramTypes'
  <2>1. 0 \in 0 .. inodes
    BY <1>1, Handles
  <2>2. saving' \in [pc : {"idle", "write", "rename"}, fp : 0 .. inodes, doc : Nat]
    BY <1>2, <2>1 DEF NoSave
  <2>3. UNCHANGED <<inodes, file, copy, load>>
    BY <1>2
  <2> QED BY <1>1, <2>2, <2>3 DEF ProgramTypes
<1>5. Saver'
  BY <1>2 DEF Saver, NoSave
<1>6. CASE dir' = dir /\ Refuse
  <2>1. FaultsCounted' /\ refused' # 0
    BY <1>1, <1>2, <1>6, FaultFacts
  <2>2. DiskTypes' /\ Linked' /\ Calm
    BY <1>2, <1>6, NothingKept
  <2>3. Copier' /\ Reader'
    BY <1>1, <1>2, <1>6, <2>2, CopierKept, ReaderKept
  <2>4. Writer' /\ TmpKept'
    BY <1>2, <1>3, <2>1 DEF Writer, TmpKept
  <2> QED BY <1>4, <1>5, <2>1, <2>2, <2>3, <2>4 DEF FilesInv
<1>7. CASE dir' = Renamed("a.tmp", "a") /\ Granted
  <2>1. FaultsCounted' /\ refused' = refused
    BY <1>1, <1>2, <1>7, FaultFacts
  <2>2. /\ dir' \in [Paths -> 0 .. inodes'] /\ Linked'
        /\ dir'["a.tmp"] = 0 /\ dir'["a"] = dir["a.tmp"]
        /\ \A q \in Paths : q # "a.tmp" /\ q # "a" => dir'[q] = dir[q]
        /\ \A i \in 1 .. inodes : OnlyAt(i, "a") => OnlyAt(i, "a")'
    BY <1>1, <1>2, <1>7, PathFacts, RenamedFacts
  <2>3. DiskTypes'
    BY <1>1, <1>2, <2>2 DEF DiskTypes
  <2>4. Calm
    BY <1>1, <1>2, <2>2, Handles DEF Calm
  <2>5. dir'["b.tmp"] = dir["b.tmp"]
    BY <2>2, PathFacts
  <2>6. full = 0 => \E e \in Docs : data'[dir'["a"]] = Whole(e)
    BY <1>2, <1>3, <2>2
  <2>7. Copier' /\ Reader'
    BY <1>1, <1>2, <2>4, <2>5, <2>6, CopierKept, ReaderKept
  <2>8. Writer' /\ TmpKept'
    BY <1>1, <1>2, <1>3, <2>1 DEF Writer, TmpKept
  <2> QED BY <1>4, <1>5, <2>1, <2>2, <2>3, <2>7, <2>8 DEF FilesInv
<1> QED BY <1>6, <1>7 DEF SaveRename

-----------------------------------------------------------------------------
(* Reading *)

\* Only the reader does something.
LEMMA OthersKept ==
  ASSUME FilesInv, UNCHANGED <<dir, data, inodes, file, saving, refused, full, crashes>>
  PROVE  DiskTypes' /\ Linked' /\ Calm /\ FaultsCounted' /\ Writer' /\ TmpKept' /\ Saver'
<1>1. DiskTypes /\ ProgramTypes /\ FaultsCounted /\ Linked /\ Writer /\ TmpKept /\ Saver
  BY DEF FilesInv
<1>2. DiskTypes' /\ Linked' /\ Calm
  BY NothingKept
<1>3. FaultsCounted'
  BY <1>1 DEF FaultsCounted
<1>4. Writer' /\ TmpKept' /\ Saver'
  BY <1>1 DEF Writer, TmpKept, Saver
<1> QED BY <1>2, <1>3, <1>4

LEMMA StepLoadOpen ==
  ASSUME FilesInv, LoadOpen PROVE FilesInv'
<1>1. DiskTypes /\ ProgramTypes /\ Linked /\ Copier /\ Reader
  BY DEF FilesInv
<1>2. /\ dir["a"] # 0 /\ load' = [fp |-> dir["a"], got |-> <<>>]
      /\ UNCHANGED <<dir, data, inodes, file, saving, copy, refused, full, crashes>>
  BY DEF LoadOpen
<1>3. DiskTypes' /\ Linked' /\ Calm /\ FaultsCounted' /\ Writer' /\ TmpKept' /\ Saver'
  BY <1>2, OthersKept
<1>4. Copier'
  BY <1>1, <1>2, <1>3, CopierKept
<1>5. PICK i \in 0 .. inodes : i = dir["a"] /\ i # 0 /\ OnlyAt(i, "a")
  BY <1>1, <1>2, PathFacts DEF DiskTypes, Linked
<1>6. load'.fp = i /\ load'.got = <<>>
  BY <1>2, <1>5
<1>7. ProgramTypes'
  <2>1. load' \in [fp : 0 .. inodes, got : Contents]
    BY <1>2, <1>5 DEF Contents
  <2>2. UNCHANGED <<inodes, file, saving, copy>>
    BY <1>2
  <2> QED BY <1>1, <2>1, <2>2 DEF ProgramTypes
<1>8. Reader'
  <2>1. OnlyAt(i, "a")'
    BY <1>2, <1>5 DEF OnlyAt
  <2>2. full = 0 => \E d \in Docs : \E k \in 0 .. Sizes[d] : data[i] = Whole(d) /\ <<>> = FirstChunks(d, k)
    <3>1. full = 0 => \E d \in Docs : data[i] = Whole(d)
      BY <1>1, <1>2, <1>5 DEF Reader
    <3>2. \A d \in Docs : 0 \in 0 .. Sizes[d] /\ <<>> = FirstChunks(d, 0)
      <4>1. \A d \in Docs : Sizes[d] \in Nat
        BY DocFacts
      <4>2. \A d \in Docs : 0 \in 0 .. Sizes[d]
        BY <4>1
      <4>3. \A d \in Docs : <<>> = FirstChunks(d, 0)
        BY DEF FirstChunks
      <4> QED BY <4>2, <4>3
    <3> QED BY <3>1, <3>2
  <2> QED BY <1>1, <1>2, <1>6, <2>1, <2>2 DEF Reader
<1> QED BY <1>3, <1>4, <1>7, <1>8 DEF FilesInv

LEMMA StepLoad ==
  ASSUME FilesInv, Load PROVE FilesInv'
<1>1. DiskTypes /\ ProgramTypes /\ Linked /\ Copier /\ Reader
  BY DEF FilesInv
<1>2. /\ load.fp # 0
      /\ UNCHANGED <<dir, data, inodes, file, saving, copy, refused, full, crashes>>
  BY DEF Load
<1>3. DiskTypes' /\ Linked' /\ Calm /\ FaultsCounted' /\ Writer' /\ TmpKept' /\ Saver'
  BY <1>2, OthersKept
<1>4. Copier'
  BY <1>1, <1>2, <1>3, CopierKept
<1>5. PICK i, g : /\ i = load.fp /\ g = load.got /\ i # 0 /\ i \in 0 .. inodes /\ i \in 1 .. MaxFiles
                  /\ g \in Contents /\ load = [fp |-> i, got |-> g]
  BY <1>1, <1>2, Handles DEF ProgramTypes
<1>6. PICK z : z = data[i] /\ z \in Contents
  BY <1>1, <1>5 DEF DiskTypes
<1>7. OnlyAt(i, "a")' /\ (full = 0 => \E d \in Docs : data[i] = Whole(d))
  BY <1>1, <1>2, <1>5 DEF Reader, OnlyAt
<1>8. ASSUME NEW fp \in {0, i}, NEW got \in Contents, load' = [fp |-> fp, got |-> got],
             fp # 0 /\ full = 0 => \E d \in Docs : \E k \in 0 .. Sizes[d] : z = Whole(d) /\ got = FirstChunks(d, k)
      PROVE  FilesInv'
  <2>1. load'.fp = fp /\ load'.got = got /\ fp \in 0 .. inodes
    BY <1>1, <1>5, <1>8, Handles
  <2>2. ProgramTypes'
    <3>1. load' \in [fp : 0 .. inodes, got : Contents]
      BY <1>8, <2>1
    <3>2. UNCHANGED <<inodes, file, saving, copy>>
      BY <1>2
    <3> QED BY <1>1, <3>1, <3>2 DEF ProgramTypes
  <2>3. Reader'
    BY <1>1, <1>2, <1>6, <1>7, <1>8, <2>1 DEF Reader
  <2> QED BY <1>3, <1>4, <2>2, <2>3 DEF FilesInv
<1>9. CASE Len(g) < Len(z)
  <2>1. g \in Seq(Docs \X Nat) /\ z \in Seq(Docs \X Nat) /\ Len(g) \in Nat /\ Len(z) \in Nat
    BY <1>5, <1>6 DEF Contents
  <2>2. z[Len(g) + 1] \in Docs \X Nat
    <3>1. Len(g) + 1 \in 1 .. Len(z)
      BY <1>9, <2>1
    <3> QED BY <2>1, <3>1
  <2>3. PICK got : got = Append(g, z[Len(g) + 1]) /\ got \in Contents
    <3>1. PICK c \in Docs \X Nat : c = z[Len(g) + 1]
      BY <2>2
    <3>2. Append(g, c) \in Seq(Docs \X Nat)
      BY <2>1
    <3> QED BY <3>1, <3>2 DEF Contents
  <2>4. load' = [fp |-> i, got |-> got]
    BY <1>5, <1>6, <1>9, <2>3 DEF Load
  <2>5. full = 0 => \E d \in Docs : \E k \in 0 .. Sizes[d] : z = Whole(d) /\ got = FirstChunks(d, k)
    <3> SUFFICES ASSUME full = 0
                 PROVE  \E d \in Docs : \E k \in 0 .. Sizes[d] : z = Whole(d) /\ got = FirstChunks(d, k)
      OBVIOUS
    <3>1. PICK d \in Docs : \E k \in 0 .. Sizes[d] : z = Whole(d) /\ g = FirstChunks(d, k)
      BY <1>1, <1>2, <1>5, <1>6 DEF Reader
    <3>2. PICK k \in 0 .. Sizes[d] : z = Whole(d) /\ g = FirstChunks(d, k)
      BY <3>1
    <3>3. Sizes[d] \in Nat /\ k \in Nat
      BY <3>2, DocFacts
    <3>4. Len(g) = k /\ Len(z) = Sizes[d] /\ \A j \in 1 .. Sizes[d] : z[j] = <<d, j>>
      BY <3>2, <3>3, ChunkFacts
    <3>5. k + 1 \in 1 .. Sizes[d] /\ k + 1 \in 0 .. Sizes[d]
      BY <1>9, <3>3, <3>4
    <3>6. got = Append(FirstChunks(d, k), <<d, k + 1>>)
      BY <2>3, <3>2, <3>4, <3>5
    <3>7. got = FirstChunks(d, k + 1)
      BY <3>3, <3>6, ChunkFacts
    <3> QED BY <3>2, <3>5, <3>7
  <2> QED BY <1>8, <2>3, <2>4, <2>5
<1>10. CASE ~(Len(g) < Len(z))
  <2>1. load' = [fp |-> 0, got |-> <<>>]
    BY <1>5, <1>6, <1>10 DEF Load
  <2>2. <<>> \in Contents
    BY DEF Contents
  <2> QED BY <1>8, <2>1, <2>2
<1> QED BY <1>9, <1>10

-----------------------------------------------------------------------------
(* COPY *)

LEMMA TakeNone == \A s, k : k \in Int /\ k <= 0 => SubSeq(s, 1, k) = <<>>
BY SubSeqEmpty

LEMMA TakeMore ==
  ASSUME NEW s \in Contents, NEW k \in Nat, k < Len(s)
  PROVE  s[k + 1] \in Docs \X Nat /\ Append(SubSeq(s, 1, k), s[k + 1]) = SubSeq(s, 1, k + 1)
<1>1. s \in Seq(Docs \X Nat) /\ Len(s) \in Nat
  BY DEF Contents
<1>2. PICK t, u : t = SubSeq(s, 1, k) /\ u = SubSeq(s, 1, k + 1)
  OBVIOUS
<1>3. t \in Seq(Docs \X Nat) /\ Len(t) = k /\ \A i \in 1 .. k : t[i] = s[i]
  BY <1>1, <1>2
<1>4. u \in Seq(Docs \X Nat) /\ Len(u) = k + 1 /\ \A i \in 1 .. k + 1 : u[i] = s[i]
  BY <1>1, <1>2
<1>5. k + 1 \in 1 .. Len(s)
  BY <1>1
<1>6. PICK c \in Docs \X Nat : c = s[k + 1]
  BY <1>1, <1>5
<1>7. PICK w : w = Append(t, c)
  OBVIOUS
<1>8. w \in Seq(Docs \X Nat) /\ Len(w) = k + 1 /\ w[k + 1] = c /\ \A i \in 1 .. k : w[i] = t[i]
  BY <1>3, <1>6, <1>7
<1>9. \A i \in 1 .. k + 1 : w[i] = u[i]
  <2>1. k + 1 \in 1 .. k + 1 /\ \A i \in 1 .. k + 1 : i = k + 1 \/ i \in 1 .. k
    OBVIOUS
  <2> QED BY <1>3, <1>4, <1>6, <1>8, <2>1
<1>10. w = u
  BY <1>4, <1>8, <1>9, SeqEqual
<1> QED BY <1>2, <1>6, <1>7, <1>10

\* COPY does something that no file notices.
LEMMA CopyOnly ==
  ASSUME FilesInv, UNCHANGED <<dir, data, inodes, file, saving, load, full, crashes>>,
         Granted \/ Refuse \/ refused' = refused,
         copy' \in [pc : {"idle", "open", "loop", "rename"}, size : Int, src : 0 .. inodes,
                    dst : 0 .. inodes, total : Int, tries : Int],
         Copier'
  PROVE  FilesInv'
<1>1. /\ DiskTypes /\ ProgramTypes /\ FaultsCounted
      /\ Linked /\ Writer /\ TmpKept /\ Saver /\ Reader
  BY DEF FilesInv
<1>2. DiskTypes' /\ Linked' /\ Calm
  BY NothingKept
<1>3. FaultsCounted' /\ (refused' = 0 => refused = 0)
  <2>1. CASE Granted \/ refused' = refused
    BY <1>1, <2>1, FaultFacts DEF Granted
  <2>2. CASE Refuse
    BY <1>1, <2>2, FaultFacts
  <2> QED BY <2>1, <2>2
<1>4. Writer' /\ TmpKept' /\ Saver'
  BY <1>1, <1>3 DEF Writer, TmpKept, Saver
<1>5. Reader'
  BY <1>1, <1>2, ReaderKept
<1>6. ProgramTypes'
  BY <1>1 DEF ProgramTypes
<1> QED BY <1>2, <1>3, <1>4, <1>5, <1>6 DEF FilesInv

LEMMA NoCopyFacts ==
  ASSUME FilesInv, copy' = NoCopy
  PROVE  /\ copy' \in [pc : {"idle", "open", "loop", "rename"}, size : Int, src : 0 .. inodes,
                       dst : 0 .. inodes, total : Int, tries : Int]
         /\ Copier' /\ copy'.pc = "idle"
<1>1. 0 \in 0 .. inodes
  BY Handles DEF FilesInv
<1> QED BY <1>1 DEF NoCopy, Copier

LEMMA StepCopySize ==
  ASSUME FilesInv, CopySize PROVE FilesInv'
<1>1. DiskTypes /\ ProgramTypes
  BY DEF FilesInv
<1>2. PICK z : /\ z = IF dir["a"] = 0 THEN -1 ELSE Len(data[dir["a"]])
               /\ copy' = [NoCopy EXCEPT !.pc = "open", !.size = z]
               /\ UNCHANGED <<dir, data, inodes, file, saving, load, refused, full, crashes>>
  BY DEF CopySize
<1>3. z \in Int
  <2>1. CASE dir["a"] = 0
    BY <1>2, <2>1
  <2>2. CASE dir["a"] # 0
    <3>1. dir["a"] \in 0 .. inodes
      BY <1>1, PathFacts DEF DiskTypes
    <3>2. dir["a"] \in 1 .. MaxFiles
      BY <1>1, <2>2, <3>1, Handles
    <3>3. data[dir["a"]] \in Seq(Docs \X Nat)
      BY <1>1, <3>2 DEF DiskTypes, Contents
    <3>4. Len(data[dir["a"]]) \in Int
      BY <3>3
    <3> QED BY <1>2, <2>2, <3>4
  <2> QED BY <2>1, <2>2
<1>4. 0 \in 0 .. inodes
  BY <1>1, Handles
<1>5. copy' = [pc |-> "open", size |-> z, src |-> 0, dst |-> 0, total |-> 0, tries |-> 0]
  BY <1>2 DEF NoCopy
<1>6. copy' \in [pc : {"idle", "open", "loop", "rename"}, size : Int, src : 0 .. inodes,
                 dst : 0 .. inodes, total : Int, tries : Int]
  BY <1>3, <1>4, <1>5
<1>7. Copier'
  BY <1>3, <1>5 DEF Copier
<1> QED BY <1>2, <1>6, <1>7, CopyOnly

LEMMA StepCopyOpenFails ==
  ASSUME FilesInv, CopyOpenFails PROVE FilesInv'
<1>1. /\ copy' = NoCopy /\ (Granted \/ Refuse)
      /\ UNCHANGED <<dir, data, inodes, file, saving, load, full, crashes>>
  BY DEF CopyOpenFails
<1>2. /\ copy' \in [pc : {"idle", "open", "loop", "rename"}, size : Int, src : 0 .. inodes,
                    dst : 0 .. inodes, total : Int, tries : Int]
      /\ Copier'
  BY <1>1, NoCopyFacts
<1> QED BY <1>1, <1>2, CopyOnly

LEMMA StepCopyOpen ==
  ASSUME FilesInv, CopyOpen PROVE FilesInv'
<1>1. /\ DiskTypes /\ ProgramTypes /\ FaultsCounted
      /\ Linked /\ Writer /\ TmpKept /\ Saver /\ Copier /\ Reader
  BY DEF FilesInv
<1>2. PICK i, h :
        /\ i = dir["a"] /\ i # 0 /\ h = Handle("b.tmp") /\ copy.pc = "open"
        /\ Opens("b.tmp") /\ Granted /\ copy' = [copy EXCEPT !.pc = "loop", !.src = i, !.dst = h]
        /\ UNCHANGED <<file, saving, load, full, crashes>>
  BY DEF CopyOpen
<1>3. "b.tmp" \in Paths /\ "b.tmp" # "a" /\ {"a", "c", "a.tmp", "c.tmp"} \subseteq Paths \ {"b.tmp"}
  BY PathFacts
<1>4. /\ inodes' \in 0 .. MaxFiles /\ inodes <= inodes' /\ dir' \in [Paths -> 0 .. inodes']
      /\ data' \in [1 .. MaxFiles -> Contents] /\ Linked'
      /\ h \in 1 .. inodes' /\ dir'["b.tmp"] = h /\ data'[h] = <<>>
      /\ \A q \in Paths : q # "b.tmp" => dir'[q] = dir[q] /\ (dir[q] # 0 => data'[dir[q]] = data[dir[q]])
      /\ \A j \in 1 .. inodes : OnlyAt(j, "a") => OnlyAt(j, "a")' /\ data'[j] = data[j]
  BY <1>1, <1>2, <1>3, OpensFacts
<1>5. DiskTypes' /\ inodes' \in Nat
  BY <1>4 DEF DiskTypes
<1>6. FaultsCounted' /\ refused' = refused
  BY <1>1, <1>2, FaultFacts
<1>7. Calm
  BY <1>2, <1>4 DEF Calm
<1>8. Writer' /\ TmpKept'
  BY <1>1, <1>2, <1>3, <1>4, <1>6, WriterKept DEF Writer
<1>9. Saver'
  BY <1>1, <1>2, <1>3, <1>4, SaverKept DEF Saver
<1>10. Reader'
  BY <1>1, <1>2, <1>3, <1>4, <1>7, ReaderKept
<1>11. i \in 1 .. inodes /\ i \in 0 .. inodes' /\ i \in 1 .. MaxFiles /\ OnlyAt(i, "a")
  <2>1. i \in 0 .. inodes /\ OnlyAt(i, "a")
    BY <1>1, <1>2, <1>3 DEF DiskTypes, Linked
  <2>2. i \in 1 .. inodes /\ i \in 1 .. MaxFiles
    BY <1>1, <1>2, <2>1, Handles
  <2>3. i \in 0 .. inodes'
    <3>1. inodes \in Nat /\ inodes <= inodes' /\ inodes' \in Nat
      BY <1>1, <1>4, <1>5, Handles
    <3> QED BY <2>2, <3>1
  <2> QED BY <2>1, <2>2, <2>3
<1>12. copy \in [pc : {"idle", "open", "loop", "rename"}, size : Int, src : 0 .. inodes',
                 dst : 0 .. inodes', total : Int, tries : Int]
       /\ saving' \in [pc : {"idle", "write", "rename"}, fp : 0 .. inodes', doc : Nat]
       /\ file' \in [fp : 0 .. inodes', name : {"", "a", "c"}, tmp : {"", "a.tmp", "c.tmp"}, doc : Nat, at : Nat]
       /\ load' \in [fp : 0 .. inodes', got : Contents]
  BY <1>1, <1>2, <1>4, <1>5, HandlesGrow
<1>13. h \in 0 .. inodes' /\ h # 0
  BY <1>4, <1>5
<1>14. ProgramTypes'
  <2>1. copy' \in [pc : {"idle", "open", "loop", "rename"}, size : Int, src : 0 .. inodes',
                   dst : 0 .. inodes', total : Int, tries : Int]
    <3>1. copy' = [copy EXCEPT !.pc = "loop", !.src = i, !.dst = h]
      BY <1>2
    <3> QED BY <1>11, <1>12, <1>13, <3>1
  <2> QED BY <1>12, <2>1 DEF ProgramTypes
<1>15. Copier'
  <2>1. /\ copy'.pc = "loop" /\ copy'.src = i /\ copy'.dst = h
        /\ copy'.size = copy.size /\ copy'.total = copy.total
    BY <1>2, <1>12
  <2>2. copy.total = 0 /\ (copy.size >= 0 => copy.total <= copy.size)
    BY <1>1, <1>2 DEF Copier
  <2>3. OnlyAt(i, "a")'
    BY <1>11, <1>4
  <2>4. PICK z : z = data'[i] /\ z \in Seq(Docs \X Nat)
    BY <1>4, <1>11 DEF Contents
  <2>5. Len(z) \in Nat /\ 0 <= Len(z) /\ SubSeq(z, 1, 0) = <<>>
    BY <2>4, TakeNone
  <2>6. \A q \in Paths : dir'[q] = copy'.src => q = "a"
    BY <2>1, <2>3 DEF OnlyAt
  <2>7. data'[copy'.dst] = SubSeq(data'[copy'.src], 1, copy'.total) /\ copy'.total <= Len(data'[copy'.src])
    BY <1>4, <2>1, <2>2, <2>4, <2>5
  <2>8. copy'.src # 0 /\ copy'.dst # 0 /\ dir'["b.tmp"] = copy'.dst
    BY <1>2, <1>4, <1>13, <2>1
  <2> QED BY <2>1, <2>2, <2>6, <2>7, <2>8 DEF Copier, OnlyAt
<1> QED BY <1>4, <1>5, <1>6, <1>8, <1>9, <1>10, <1>14, <1>15 DEF FilesInv

LEMMA StepCopyChunk ==
  ASSUME FilesInv, CopyChunk PROVE FilesInv'
<1>1. /\ DiskTypes /\ ProgramTypes /\ FaultsCounted
      /\ Linked /\ Writer /\ TmpKept /\ Saver /\ Copier /\ Reader
  BY DEF FilesInv
<1>2. copy.pc = "loop" /\ UNCHANGED <<dir, inodes, file, saving, load, refused, crashes>>
  BY DEF CopyChunk
<1>3. copy \in [pc : {"idle", "open", "loop", "rename"}, size : Int, src : 0 .. inodes,
                dst : 0 .. inodes, total : Int, tries : Int]
  BY <1>1 DEF ProgramTypes
<1>4. PICK i, h, k, n :
        /\ i = copy.src /\ h = copy.dst /\ k = copy.total /\ n = copy.size
        /\ i \in 0 .. inodes /\ i # 0 /\ OnlyAt(i, "a") /\ h \in 0 .. inodes /\ h # 0 /\ dir["b.tmp"] = h
        /\ k \in Nat /\ n \in Int /\ (n >= 0 => k <= n) /\ (n = -1 => k = 0)
        /\ full = 0 => k <= Len(data[i]) /\ data[h] = SubSeq(data[i], 1, k)
  <2>1. /\ copy.src \in 0 .. inodes /\ copy.dst \in 0 .. inodes /\ copy.total \in Int /\ copy.size \in Int
    BY <1>3
  <2>2. /\ copy.src # 0 /\ OnlyAt(copy.src, "a") /\ copy.dst # 0 /\ dir["b.tmp"] = copy.dst
        /\ copy.total >= 0 /\ (copy.size = -1 => copy.total = 0)
        /\ copy.size >= 0 => copy.total <= copy.size
        /\ full = 0 => /\ copy.total <= Len(data[copy.src])
                       /\ data[copy.dst] = SubSeq(data[copy.src], 1, copy.total)
    BY <1>1, <1>2 DEF Copier
  <2>3. copy.total \in Nat
    BY <2>1, <2>2
  <2> QED BY <2>1, <2>2, <2>3
<1>5. i \in 1 .. inodes /\ i \in 1 .. MaxFiles /\ h \in 1 .. MaxFiles
  BY <1>1, <1>4, Handles
<1>6. PICK z : z = data[i] /\ z \in Contents /\ Len(z) \in Nat
  <2>1. data[i] \in Contents
    BY <1>1, <1>5 DEF DiskTypes
  <2>2. Len(data[i]) \in Nat
    BY <2>1 DEF Contents
  <2> QED BY <2>1, <2>2
<1>7. data[h] \in Contents
  BY <1>1, <1>5 DEF DiskTypes
<1>8. CASE n = -1 \/ k = n
  <2>1. /\ copy' = [copy EXCEPT !.pc = "rename", !.total = n, !.tries = Times]
        /\ UNCHANGED <<data, full>>
    <3>1. CASE n = -1
      BY <1>2, <1>3, <1>4, <3>1 DEF CopyChunk
    <3>2. CASE n # -1 /\ k = n
      <4>1. copy' = [copy EXCEPT !.pc = "rename", !.tries = Times] /\ UNCHANGED <<data, full>>
        BY <1>2, <1>4, <3>2 DEF CopyChunk
      <4>2. copy.total = n
        BY <1>4, <3>2
      <4> QED BY <1>3, <4>1, <4>2
    <3> QED BY <1>8, <3>1, <3>2
  <2>2. Times \in Int
    BY FilesAssumption
  <2>3. copy' \in [pc : {"idle", "open", "loop", "rename"}, size : Int, src : 0 .. inodes,
                   dst : 0 .. inodes, total : Int, tries : Int]
    BY <1>3, <1>4, <2>1, <2>2
  <2>4. /\ copy'.pc = "rename" /\ copy'.src = i /\ copy'.dst = h
        /\ copy'.size = n /\ copy'.total = n
    BY <1>3, <1>4, <2>1
  <2>5. full = 0 => n <= Len(z) /\ data[h] = SubSeq(z, 1, n)
    <3>1. CASE n = -1
      <4>1. SubSeq(z, 1, n) = <<>> /\ SubSeq(z, 1, 0) = <<>> /\ n <= Len(z)
        BY <1>6, <3>1, TakeNone
      <4> QED BY <1>4, <1>6, <3>1, <4>1
    <3>2. CASE k = n
      BY <1>4, <1>6, <3>2
    <3> QED BY <1>8, <3>1, <3>2
  <2>6. \A q \in Paths : dir'[q] = i => q = "a"
    BY <1>2, <1>4 DEF OnlyAt
  <2>7. full' = 0 => copy'.total <= Len(data'[copy'.src])
                     /\ data'[copy'.dst] = SubSeq(data'[copy'.src], 1, copy'.total)
    BY <1>6, <2>1, <2>4, <2>5
  <2>8. copy'.size >= 0 => copy'.total <= copy'.size
    BY <1>4, <2>4
  <2>9. copy'.src # 0 /\ copy'.dst # 0 /\ dir'["b.tmp"] = copy'.dst
    BY <1>2, <1>4, <2>4
  <2>10. Copier'
    BY <2>4, <2>6, <2>7, <2>8, <2>9 DEF Copier, OnlyAt
  <2> QED BY <1>2, <2>1, <2>3, <2>10, CopyOnly
<1>9. CASE ~(n = -1 \/ k = n)
  <2>1. /\ k < Len(z) /\ copy' = [copy EXCEPT !.total = k + 1] /\ Writes(h, z[k + 1])
    BY <1>2, <1>4, <1>6, <1>9 DEF CopyChunk
  <2>2. copy' \in [pc : {"idle", "open", "loop", "rename"}, size : Int, src : 0 .. inodes,
                   dst : 0 .. inodes, total : Int, tries : Int]
    BY <1>3, <1>4, <2>1
  <2>3. /\ copy'.pc = "loop" /\ copy'.src = i /\ copy'.dst = h
        /\ copy'.size = n /\ copy'.total = k + 1
    BY <1>2, <1>3, <1>4, <2>1
  <2>4. /\ n >= 0 => k + 1 <= n
        /\ k + 1 >= 0 /\ k + 1 <= Len(z)
    BY <1>4, <1>6, <1>9, <2>1
  <2>5. z[k + 1] \in Docs \X Nat /\ Append(SubSeq(z, 1, k), z[k + 1]) = SubSeq(z, 1, k + 1)
    BY <1>4, <1>6, <2>1, TakeMore
  <2>6. \A q \in Paths : dir'[q] = i => q = "a"
    BY <1>2, <1>4 DEF OnlyAt
  <2>7. ProgramTypes'
    <3>1. UNCHANGED <<inodes, file, saving, load>>
      BY <1>2
    <3> QED BY <1>1, <2>2, <3>1 DEF ProgramTypes
  <2>8. /\ copy'.src # 0 /\ copy'.dst # 0 /\ dir'["b.tmp"] = copy'.dst
        /\ copy'.total >= 0 /\ copy'.size # -1 /\ (copy'.size >= 0 => copy'.total <= copy'.size)
    BY <1>2, <1>4, <1>9, <2>3, <2>4
  <2>9. CASE full' = full /\ data' = [data EXCEPT ![h] = Append(data[h], z[k + 1])]
    <3>1. Append(data[h], z[k + 1]) \in Contents
      <4>1. PICK c \in Docs \X Nat : c = z[k + 1]
        BY <2>5
      <4>2. PICK y \in Seq(Docs \X Nat) : y = data[h]
        BY <1>7 DEF Contents
      <4>3. Append(y, c) \in Seq(Docs \X Nat)
        OBVIOUS
      <4> QED BY <4>1, <4>2, <4>3 DEF Contents
    <3>2. /\ DiskTypes' /\ Linked' /\ Reader' /\ Calm /\ data'[h] = Append(data[h], z[k + 1])
          /\ \A q \in Paths : q # "b.tmp" /\ dir[q] # 0 => data'[dir[q]] = data[dir[q]]
      BY <1>2, <1>4, <2>9, <3>1, WritingKept
    <3>3. {"c", "a.tmp", "c.tmp"} \subseteq Paths \ {"b.tmp"}
      BY PathFacts
    <3>4. Writer' /\ TmpKept'
      BY <1>1, <1>2, <2>9, <3>2, <3>3, WriterKept DEF Writer
    <3>5. Saver'
      BY <1>1, <1>2, <2>9, <3>2, <3>3, SaverKept DEF Saver
    <3>6. FaultsCounted'
      BY <1>1, <1>2, <2>9 DEF FaultsCounted
    <3>7. data'[i] = z
      BY <1>4, <1>5, <1>6, <3>2 DEF Calm
    <3>8. full' = 0 => data'[h] = SubSeq(z, 1, k + 1)
      BY <1>4, <1>6, <2>5, <2>9, <3>2
    <3>9. full' = 0 => copy'.total <= Len(data'[copy'.src])
                       /\ data'[copy'.dst] = SubSeq(data'[copy'.src], 1, copy'.total)
      BY <2>3, <2>4, <3>7, <3>8
    <3>10. Copier'
      BY <2>3, <2>6, <2>8, <3>9 DEF Copier, OnlyAt
    <3> QED BY <2>7, <3>2, <3>4, <3>5, <3>6, <3>10 DEF FilesInv
  <2>10. CASE Fault /\ full' = full + 1 /\ data' = data
    <3>1. FaultsCounted' /\ full' # 0
      BY <1>1, <1>2, <2>10, FaultFacts
    <3>2. DiskTypes' /\ Linked' /\ Calm
      BY <1>2, <2>10, <3>1, NothingKept
    <3>3. Reader'
      BY <1>1, <1>2, <2>10, <3>2, ReaderKept
    <3>4. Writer' /\ TmpKept' /\ Saver'
      BY <1>1, <1>2, <2>10, <3>1 DEF Writer, TmpKept, Saver
    <3>5. Copier'
      BY <2>3, <2>6, <2>8, <3>1 DEF Copier, OnlyAt
    <3> QED BY <2>7, <3>1, <3>2, <3>3, <3>4, <3>5 DEF FilesInv
  <2> QED BY <2>1, <2>9, <2>10 DEF Writes
<1> QED BY <1>8, <1>9

LEMMA StepCopyRename ==
  ASSUME FilesInv, CopyRename PROVE FilesInv'
<1>1. /\ DiskTypes /\ ProgramTypes /\ FaultsCounted
      /\ Linked /\ Writer /\ TmpKept /\ Saver /\ Copier /\ Reader
  BY DEF FilesInv
<1>2. copy.pc = "rename" /\ UNCHANGED <<data, inodes, file, saving, load, full, crashes>>
  BY DEF CopyRename
<1>3. CASE /\ copy' = NoCopy
           /\ \/ dir' = Renamed("b.tmp", "b") /\ Granted
              \/ dir' = Removed("b.tmp") /\ Refuse
  <2>1. /\ copy' \in [pc : {"idle", "open", "loop", "rename"}, size : Int, src : 0 .. inodes,
                      dst : 0 .. inodes, total : Int, tries : Int]
        /\ Copier'
    BY <1>3, NoCopyFacts
  <2>2. FaultsCounted' /\ (refused' = 0 => refused = 0)
    BY <1>1, <1>2, <1>3, FaultFacts
  <2>3. /\ dir' \in [Paths -> 0 .. inodes'] /\ Linked'
        /\ \A q \in {"a", "c", "a.tmp", "c.tmp"} : dir'[q] = dir[q]
        /\ \A j \in 1 .. inodes : OnlyAt(j, "a") => OnlyAt(j, "a")'
    <3>1. {"a", "c", "a.tmp", "c.tmp"} \subseteq Paths \ {"b", "b.tmp"} /\ "b" \in Paths /\ "b.tmp" \in Paths
      BY PathFacts
    <3>2. CASE dir' = Renamed("b.tmp", "b")
      BY <1>1, <1>2, <3>1, <3>2, RenamedFacts
    <3>3. CASE dir' = Removed("b.tmp")
      BY <1>1, <1>2, <3>1, <3>3, RemovedFacts
    <3> QED BY <1>3, <3>2, <3>3
  <2>4. DiskTypes'
    BY <1>1, <1>2, <2>3 DEF DiskTypes
  <2>5. Calm
    BY <1>1, <1>2, <2>3, Handles DEF Calm
  <2>6. Writer' /\ TmpKept'
    BY <1>1, <1>2, <2>2, <2>3, WriterKept DEF Writer
  <2>7. Saver'
    BY <1>1, <1>2, <2>3, SaverKept DEF Saver
  <2>8. Reader'
    BY <1>1, <1>2, <2>3, <2>5, ReaderKept
  <2>9. ProgramTypes'
    <3>1. UNCHANGED <<inodes, file, saving, load>>
      BY <1>2
    <3> QED BY <1>1, <2>1, <3>1 DEF ProgramTypes
  <2> QED BY <2>1, <2>2, <2>3, <2>4, <2>6, <2>7, <2>8, <2>9 DEF FilesInv
<1>4. CASE Refuse /\ copy' = [copy EXCEPT !.tries = copy.tries - 1] /\ dir' = dir
  <2>1. copy \in [pc : {"idle", "open", "loop", "rename"}, size : Int, src : 0 .. inodes,
                  dst : 0 .. inodes, total : Int, tries : Int]
    BY <1>1 DEF ProgramTypes
  <2>2. copy' \in [pc : {"idle", "open", "loop", "rename"}, size : Int, src : 0 .. inodes,
                   dst : 0 .. inodes, total : Int, tries : Int]
    BY <1>4, <2>1
  <2>3. /\ copy'.pc = copy.pc /\ copy'.src = copy.src /\ copy'.dst = copy.dst
        /\ copy'.size = copy.size /\ copy'.total = copy.total
    BY <1>4, <2>1
  <2>4. Copier'
    BY <1>1, <1>2, <1>4, <2>3 DEF Copier, OnlyAt
  <2> QED BY <1>2, <1>4, <2>2, <2>4, CopyOnly
<1> QED BY <1>2, <1>3, <1>4 DEF CopyRename

-----------------------------------------------------------------------------
(* A program dies; all steps together *)

LEMMA StepProgramDies ==
  ASSUME FilesInv, ProgramDies PROVE FilesInv'
<1>1. /\ DiskTypes /\ ProgramTypes /\ FaultsCounted
      /\ Linked /\ Writer /\ TmpKept /\ Saver /\ Copier /\ Reader
  BY DEF FilesInv
<1>2. Fault /\ crashes' = crashes + 1 /\ UNCHANGED <<dir, data, inodes, load, refused, full>>
  BY DEF ProgramDies
<1>3. FaultsCounted'
  BY <1>1, <1>2, FaultFacts
<1>4. DiskTypes' /\ Linked' /\ Calm
  BY <1>2, NothingKept
<1>5. Reader'
  BY <1>1, <1>2, <1>4, ReaderKept
<1>6. 0 \in 0 .. inodes
  BY <1>1, Handles
<1>7. CASE file.fp # 0 /\ file' = NoFile /\ UNCHANGED <<saving, copy>>
  <2>1. file' \in [fp : 0 .. inodes, name : {"", "a", "c"}, tmp : {"", "a.tmp", "c.tmp"}, doc : Nat, at : Nat]
        /\ file'.fp = 0 /\ file'.tmp = ""
    BY <1>6, <1>7 DEF NoFile
  <2>2. ProgramTypes'
    <3>1. UNCHANGED <<inodes, saving, copy, load>>
      BY <1>2, <1>7
    <3> QED BY <1>1, <2>1, <3>1 DEF ProgramTypes
  <2>3. Writer' /\ TmpKept'
    BY <2>1 DEF Writer, TmpKept
  <2>4. Saver'
    BY <1>1, <1>7 DEF Writer, Saver
  <2>5. Copier'
    BY <1>1, <1>2, <1>4, <1>7, CopierKept
  <2> QED BY <1>3, <1>4, <1>5, <2>2, <2>3, <2>4, <2>5 DEF FilesInv
<1>8. CASE Busy /\ saving' = NoSave /\ UNCHANGED <<file, copy>>
  <2>1. saving' \in [pc : {"idle", "write", "rename"}, fp : 0 .. inodes, doc : Nat] /\ saving'.pc = "idle"
    BY <1>6, <1>8 DEF NoSave
  <2>2. ProgramTypes'
    <3>1. UNCHANGED <<inodes, file, copy, load>>
      BY <1>2, <1>8
    <3> QED BY <1>1, <2>1, <3>1 DEF ProgramTypes
  <2>3. file.fp = 0
    BY <1>1, <1>8 DEF Saver, Busy
  <2>4. Writer' /\ TmpKept' /\ Saver'
    BY <1>1, <1>2, <1>8, <2>1, <2>3 DEF Writer, TmpKept, Saver
  <2>5. Copier'
    BY <1>1, <1>2, <1>4, <1>8, CopierKept
  <2> QED BY <1>3, <1>4, <1>5, <2>2, <2>4, <2>5 DEF FilesInv
<1>9. CASE copy' = NoCopy /\ UNCHANGED <<file, saving>>
  <2>1. /\ copy' \in [pc : {"idle", "open", "loop", "rename"}, size : Int, src : 0 .. inodes,
                      dst : 0 .. inodes, total : Int, tries : Int]
        /\ Copier'
    BY <1>9, NoCopyFacts
  <2>2. ProgramTypes'
    <3>1. UNCHANGED <<inodes, file, saving, load>>
      BY <1>2, <1>9
    <3> QED BY <1>1, <2>1, <3>1 DEF ProgramTypes
  <2>3. Writer' /\ TmpKept' /\ Saver'
    BY <1>1, <1>2, <1>9 DEF Writer, TmpKept, Saver
  <2> QED BY <1>3, <1>4, <1>5, <2>1, <2>2, <2>3 DEF FilesInv
<1> QED BY <1>7, <1>8, <1>9 DEF ProgramDies

LEMMA FilesStart == FilesInit => FilesInv
<1> SUFFICES ASSUME FilesInit PROVE FilesInv
  OBVIOUS
<1>1. /\ dir = [n \in Paths |-> 0] /\ data = [i \in 1 .. MaxFiles |-> <<>>] /\ inodes = 0
      /\ file = NoFile /\ saving = NoSave /\ copy = NoCopy
      /\ load = [fp |-> 0, got |-> <<>>]
      /\ refused = 0 /\ full = 0 /\ crashes = 0
  BY DEF FilesInit
<1>2. <<>> \in Contents /\ 0 \in 0 .. 0
  BY DEF Contents
<1>3. DiskTypes
  BY <1>1, <1>2, DocFacts DEF DiskTypes
<1>4. ProgramTypes
  <2>1. 0 \in 0 .. inodes /\ 1 \in Nat /\ 0 \in Nat /\ 0 \in Int
    BY <1>1
  <2>2. file \in [fp : 0 .. inodes, name : {"", "a", "c"}, tmp : {"", "a.tmp", "c.tmp"}, doc : Nat, at : Nat]
    <3>1. file = [fp |-> 0, name |-> "", tmp |-> "", doc |-> 1, at |-> 0]
      BY <1>1 DEF NoFile
    <3> QED BY <2>1, <3>1
  <2>3. saving \in [pc : {"idle", "write", "rename"}, fp : 0 .. inodes, doc : Nat]
    <3>1. saving = [pc |-> "idle", fp |-> 0, doc |-> 1]
      BY <1>1 DEF NoSave
    <3> QED BY <2>1, <3>1
  <2>5. copy \in [pc : {"idle", "open", "loop", "rename"}, size : Int, src : 0 .. inodes,
                  dst : 0 .. inodes, total : Int, tries : Int]
    <3>1. copy = [pc |-> "idle", size |-> 0, src |-> 0, dst |-> 0, total |-> 0, tries |-> 0]
      BY <1>1 DEF NoCopy
    <3> QED BY <2>1, <3>1
  <2>4. load \in [fp : 0 .. inodes, got : Contents]
    BY <1>1, <1>2
  <2> QED BY <2>2, <2>3, <2>4, <2>5 DEF ProgramTypes
<1>5. FaultsCounted
  BY <1>1, DocFacts DEF FaultsCounted
<1>6. Linked
  BY <1>1 DEF Linked
<1>7. Writer /\ TmpKept /\ Saver
  BY <1>1 DEF Writer, TmpKept, Saver, NoFile, NoSave
<1>8. Copier
  BY <1>1 DEF Copier, NoCopy
<1>9. Reader
  BY <1>1, PathFacts DEF Reader
<1> QED BY <1>3, <1>4, <1>5, <1>6, <1>7, <1>8, <1>9 DEF FilesInv

LEMMA FilesStep == FilesInv /\ [FilesNext]_fvars => FilesInv'
<1> SUFFICES ASSUME FilesInv, [FilesNext]_fvars PROVE FilesInv'
  OBVIOUS
<1>1. CASE CloseFile \/ CloseAndRename \/ CloseAndRemove \/ Fwrite
  BY <1>1, StepCloseFile, StepCloseAndRename, StepCloseAndRemove, StepFwrite
<1>2. CASE \E d \in Docs : SaveOpen(d) \/ \E n \in Names : OpenFile(n, d) \/ OpenForRename(n, d)
  BY <1>2, StepSaveOpen, StepOpenFile
<1>3. CASE \E n \in Names : OpenForRenameFails(n)
  BY <1>3, StepOpenForRenameFails
<1>4. CASE SaveWrite \/ SaveRename \/ LoadOpen \/ Load
  BY <1>4, StepSaveWrite, StepSaveRename, StepLoadOpen, StepLoad
<1>5. CASE CopySize \/ Copying
  BY <1>5, StepCopySize, StepCopyOpen, StepCopyOpenFails, StepCopyChunk, StepCopyRename DEF Copying
<1>6. CASE ProgramDies
  BY <1>6, StepProgramDies
<1>7. CASE UNCHANGED fvars
  <2>1. UNCHANGED <<dir, data, inodes, file, saving, copy, load, refused, full, crashes>>
    BY <1>7 DEF fvars
  <2>2. DiskTypes' /\ Linked' /\ Calm /\ FaultsCounted' /\ Writer' /\ TmpKept' /\ Saver'
    BY <2>1, OthersKept
  <2>3. ProgramTypes' /\ Copier' /\ Reader'
    BY <2>1, <2>2, CopierKept, ReaderKept DEF FilesInv, ProgramTypes
  <2> QED BY <2>2, <2>3 DEF FilesInv
<1> QED BY <1>1, <1>2, <1>3, <1>4, <1>5, <1>6, <1>7 DEF FilesNext

LEMMA PrefixOf ==
  ASSUME NEW S, NEW s \in Seq(S), NEW k \in Int, k <= Len(s)
  PROVE  IsPrefix(SubSeq(s, 1, k), s) /\ (k = Len(s) => SubSeq(s, 1, k) = s)
<1>1. Len(s) \in Nat
  OBVIOUS
<1>2. k = Len(s) => SubSeq(s, 1, k) = s
  BY SubSeqFull
<1>3. PICK t : t = SubSeq(s, 1, k)
  OBVIOUS
<1>4. CASE k <= 0
  <2>1. t = <<>> /\ Len(t) = 0 /\ SubSeq(t, 1, 0) = <<>> /\ SubSeq(s, 1, 0) = <<>>
    BY <1>3, <1>4, TakeNone
  <2>2. Len(t) <= Len(s) /\ SubSeq(t, 1, Len(t)) = SubSeq(s, 1, Len(t))
    BY <1>1, <2>1
  <2> QED BY <1>2, <1>3, <2>2 DEF IsPrefix
<1>5. CASE k > 0
  <2>1. k \in Nat
    BY <1>5
  <2>2. t \in Seq(S) /\ Len(t) = k
    BY <1>3, <2>1
  <2>3. SubSeq(t, 1, Len(t)) = t
    BY <2>2, SubSeqFull
  <2>4. Len(t) <= Len(s) /\ SubSeq(t, 1, Len(t)) = SubSeq(s, 1, Len(t))
    BY <1>3, <2>2, <2>3
  <2> QED BY <1>2, <1>3, <2>4 DEF IsPrefix
<1> QED BY <1>4, <1>5

LEMMA WholeIsPublished == FilesInv => PublishedWhole
<1> SUFFICES ASSUME FilesInv PROVE PublishedWhole
  OBVIOUS
<1>1. /\ DiskTypes /\ ProgramTypes /\ FaultsCounted
      /\ Linked /\ Writer /\ TmpKept /\ Saver /\ Copier /\ Reader
  BY DEF FilesInv
<1>2. FilesTypeOK
  <2>1. dir \in [Paths -> 0 .. inodes] /\ inodes \in 0 .. MaxFiles
    BY <1>1 DEF DiskTypes
  <2>2. file.fp \in 0 .. inodes /\ load.fp \in 0 .. inodes
    BY <1>1, Handles
  <2>3. file.tmp \in Paths \cup {""} /\ file.name \in Names \cup {""}
    <3>1. file.tmp \in {"", "a.tmp", "c.tmp"} /\ file.name \in {"", "a", "c"}
      BY <1>1 DEF ProgramTypes
    <3> QED BY <3>1, PathFacts DEF Names
  <2>4. copy.pc \in {"idle", "open", "loop", "rename"} /\ (copy.size >= 0 => copy.total <= copy.size)
    BY <1>1 DEF ProgramTypes, Copier
  <2>5. refused + full + crashes <= MaxFaults
    BY <1>1 DEF FaultsCounted
  <2> QED BY <2>1, <2>2, <2>3, <2>4, <2>5 DEF FilesTypeOK
<1>3. ReaderGetsWhole
  <2> SUFFICES ASSUME full = 0, load.fp # 0
               PROVE  \E d \in Docs : data[load.fp] = Whole(d) /\ IsPrefix(load.got, Whole(d))
    BY DEF ReaderGetsWhole
  <2>1. PICK d \in Docs : \E k \in 0 .. Sizes[d] : data[load.fp] = Whole(d) /\ load.got = FirstChunks(d, k)
    BY <1>1 DEF Reader
  <2>2. PICK k \in 0 .. Sizes[d] : data[load.fp] = Whole(d) /\ load.got = FirstChunks(d, k)
    BY <2>1
  <2>3. Sizes[d] \in Nat /\ k \in Nat /\ k <= Sizes[d]
    BY <2>2, DocFacts
  <2>4. PICK s, t : s = Whole(d) /\ t = FirstChunks(d, k)
    OBVIOUS
  <2>5. /\ s \in Seq(Docs \X Nat) /\ Len(s) = Sizes[d] /\ \A i \in 1 .. Sizes[d] : s[i] = <<d, i>>
        /\ t \in Seq(Docs \X Nat) /\ Len(t) = k /\ \A i \in 1 .. k : t[i] = <<d, i>>
    BY <2>3, <2>4, ChunkFacts DEF Contents
  <2>6. PICK u : u = SubSeq(s, 1, k)
    OBVIOUS
  <2>7. u \in Seq(Docs \X Nat) /\ Len(u) = k /\ \A i \in 1 .. k : u[i] = s[i]
    BY <2>3, <2>5, <2>6
  <2>8. \A i \in 1 .. k : u[i] = t[i]
    <3>1. \A i \in 1 .. k : i \in 1 .. Sizes[d]
      BY <2>3
    <3> QED BY <2>5, <2>7, <3>1
  <2>9. u = t
    BY <2>5, <2>7, <2>8, SeqEqual
  <2>10. IsPrefix(u, s)
    BY <2>3, <2>5, <2>6, PrefixOf
  <2> QED BY <2>2, <2>4, <2>9, <2>10
<1>4. TmpIsOwn
  BY <1>1 DEF TmpKept, TmpIsOwn
<1>5. CopyIsExact
  <2> SUFFICES ASSUME copy.pc = "rename", full = 0
               PROVE  /\ IsPrefix(data[copy.dst], data[copy.src])
                      /\ copy.size = Len(data[copy.src]) => data[copy.dst] = data[copy.src]
    BY DEF CopyIsExact
  <2>1. /\ copy.src # 0 /\ copy.total = copy.size /\ copy.total <= Len(data[copy.src])
        /\ data[copy.dst] = SubSeq(data[copy.src], 1, copy.total)
    BY <1>1 DEF Copier
  <2>2. copy.total \in Int
    BY <1>1 DEF ProgramTypes
  <2>3. copy.src \in 1 .. MaxFiles
    BY <1>1, <2>1, Handles
  <2>4. data[copy.src] \in Seq(Docs \X Nat)
    BY <1>1, <2>3 DEF DiskTypes, Contents
  <2>5. /\ IsPrefix(SubSeq(data[copy.src], 1, copy.total), data[copy.src])
        /\ copy.total = Len(data[copy.src]) => SubSeq(data[copy.src], 1, copy.total) = data[copy.src]
    <3>1. PICK z \in Seq(Docs \X Nat), k \in Int : z = data[copy.src] /\ k = copy.total /\ k <= Len(z)
      BY <2>1, <2>2, <2>4
    <3>2. IsPrefix(SubSeq(z, 1, k), z) /\ (k = Len(z) => SubSeq(z, 1, k) = z)
      BY <3>1, PrefixOf
    <3> QED BY <3>1, <3>2
  <2> QED BY <2>1, <2>5
<1> QED BY <1>2, <1>3, <1>4, <1>5 DEF PublishedWhole

\* Whoever reads a file that is published by rename gets one whole document,
\* wherever a writer was refused or died, the name that a CFile removes or
\* renames when it is closed is its own, and COPY publishes the chunks of the
\* file it opened.
THEOREM FilesStayWhole == FilesSpec => []PublishedWhole
<1>1. FilesInit => FilesInv
  BY FilesStart
<1>2. FilesInv /\ [FilesNext]_fvars => FilesInv'
  BY FilesStep
<1>3. FilesInv => PublishedWhole
  BY WholeIsPublished
<1> QED BY <1>1, <1>2, <1>3, PTL DEF FilesSpec

-----------------------------------------------------------------------------
(* LogFile: the lines of backups and log *)

LogPlace == MaxSeconds + 1
LinesOf(K) == UNION {Range(K[s]) : s \in Places}
InOrder(K) ==
  \A s, r \in Places : \A i \in 1 .. Len(K[s]), j \in 1 .. Len(K[r]) :
    s < r \/ (s = r /\ i < j) => K[s][i] < K[r][j]

LEMMA LineIn ==
  ASSUME NEW K \in [Places -> Seq(Nat)], NEW n
  PROVE  n \in LinesOf(K) <=> \E s \in Places : \E i \in 1 .. Len(K[s]) : K[s][i] = n
<1>1. \A s \in Places : DOMAIN K[s] = 1 .. Len(K[s])
  OBVIOUS
<1> QED BY <1>1 DEF LinesOf, Range

LEMMA PlaceFacts == /\ MaxSeconds \in Nat /\ LogPlace \in Places /\ LogPlace \in Nat
                    /\ \A s \in Places : s \in Nat /\ s <= LogPlace
                    /\ \A s \in Places : s # LogPlace => s \in Seconds /\ s < LogPlace
                    /\ \A s \in Seconds : s \in Places /\ s # LogPlace
BY LogAssumption DEF Places, LogPlace, Seconds

\* A line that is written next goes behind all the others.
LEMMA LinePut ==
  ASSUME NEW K \in [Places -> Seq(Nat)], NEW n \in Nat, InOrder(K),
         \A k \in LinesOf(K) : k <= n,
         NEW M, M = [K EXCEPT ![LogPlace] = Append(K[LogPlace], n + 1)]
  PROVE  M \in [Places -> Seq(Nat)] /\ InOrder(M) /\ LinesOf(M) = LinesOf(K) \cup {n + 1}
<1>1. M \in [Places -> Seq(Nat)]
  BY PlaceFacts
<1>2. PICK l : l = Len(K[LogPlace]) /\ l \in Nat
  BY PlaceFacts
<1>3. /\ \A s \in Places : s # LogPlace => M[s] = K[s]
      /\ Len(M[LogPlace]) = l + 1 /\ M[LogPlace][l + 1] = n + 1
      /\ \A i \in 1 .. l : M[LogPlace][i] = K[LogPlace][i]
  BY <1>2, PlaceFacts
<1>4. ASSUME NEW s \in Places, NEW i \in 1 .. Len(M[s])
      PROVE  \/ i \in 1 .. Len(K[s]) /\ M[s][i] = K[s][i]
             \/ s = LogPlace /\ i = l + 1 /\ M[s][i] = n + 1
  <2>1. CASE s # LogPlace
    BY <1>3, <2>1
  <2>2. CASE s = LogPlace
    <3>1. i \in 1 .. l \/ i = l + 1
      BY <1>2, <1>3, <2>2
    <3> QED BY <1>2, <1>3, <2>2, <3>1
  <2> QED BY <2>1, <2>2
<1>5. ASSUME NEW s \in Places, NEW i \in 1 .. Len(K[s])
      PROVE  i \in 1 .. Len(M[s]) /\ M[s][i] = K[s][i] /\ K[s][i] \in Nat /\ K[s][i] <= n
  <2>1. K[s][i] \in Nat
    OBVIOUS
  <2>2. K[s][i] <= n
    BY LineIn
  <2>3. CASE s # LogPlace
    BY <1>3, <2>1, <2>2, <2>3
  <2>4. CASE s = LogPlace
    BY <1>2, <1>3, <2>1, <2>2, <2>4
  <2> QED BY <2>3, <2>4
<1>6. InOrder(M)
  <2> SUFFICES ASSUME NEW s \in Places, NEW r \in Places, NEW i \in 1 .. Len(M[s]), NEW j \in 1 .. Len(M[r]),
                      s < r \/ (s = r /\ i < j)
               PROVE  M[s][i] < M[r][j]
    BY DEF InOrder
  <2>1. i \in 1 .. Len(K[s]) /\ M[s][i] = K[s][i]
    <3>1. CASE s = LogPlace /\ i = l + 1
      <4>1. s = r /\ i < j
        BY <3>1, PlaceFacts
      <4>2. j \in 1 .. l + 1 /\ l + 1 < j
        BY <1>3, <3>1, <4>1
      <4> QED BY <1>2, <4>2
    <3> QED BY <1>4, <3>1
  <2>2. CASE j \in 1 .. Len(K[r]) /\ M[r][j] = K[r][j]
    BY <2>1, <2>2 DEF InOrder
  <2>3. CASE M[r][j] = n + 1
    <3>1. K[s][i] \in Nat /\ K[s][i] <= n
      BY <1>5, <2>1
    <3> QED BY <2>1, <2>3, <3>1
  <2> QED BY <1>4, <2>2, <2>3
<1>7. LinesOf(M) = LinesOf(K) \cup {n + 1}
  <2>1. ASSUME NEW k \in LinesOf(M) PROVE k \in LinesOf(K) \cup {n + 1}
    <3>1a. PICK s \in Places : \E i \in 1 .. Len(M[s]) : M[s][i] = k
      BY <1>1, LineIn
    <3>1. PICK i \in 1 .. Len(M[s]) : M[s][i] = k
      BY <3>1a
    <3> QED BY <1>4, <3>1, LineIn
  <2>2. ASSUME NEW k \in LinesOf(K) PROVE k \in LinesOf(M)
    <3>1a. PICK s \in Places : \E i \in 1 .. Len(K[s]) : K[s][i] = k
      BY LineIn
    <3>1. PICK i \in 1 .. Len(K[s]) : K[s][i] = k
      BY <3>1a
    <3> QED BY <1>1, <1>5, <3>1, LineIn
  <2>3. n + 1 \in LinesOf(M)
    <3>1. l + 1 \in 1 .. Len(M[LogPlace])
      BY <1>2, <1>3
    <3> QED BY <1>1, <1>3, <3>1, PlaceFacts, LineIn
  <2> QED BY <2>1, <2>2, <2>3
<1> QED BY <1>1, <1>6, <1>7

\* The log is emptied.
LEMMA LinesDropped ==
  ASSUME NEW K \in [Places -> Seq(Nat)], InOrder(K), NEW M, M = [K EXCEPT ![LogPlace] = <<>>]
  PROVE  M \in [Places -> Seq(Nat)] /\ InOrder(M) /\ LinesOf(M) = LinesOf(K) \ Range(K[LogPlace])
<1>1. M \in [Places -> Seq(Nat)]
  BY PlaceFacts
<1>2. M[LogPlace] = <<>> /\ Len(M[LogPlace]) = 0 /\ \A s \in Places : s # LogPlace => M[s] = K[s]
  BY PlaceFacts
<1>3. ASSUME NEW s \in Places, NEW i \in 1 .. Len(M[s])
      PROVE  s # LogPlace /\ s < LogPlace /\ i \in 1 .. Len(K[s]) /\ M[s][i] = K[s][i]
  BY <1>2, PlaceFacts
<1>4. InOrder(M)
  BY <1>3 DEF InOrder
<1>5. ASSUME NEW k \in LinesOf(M) PROVE k \in LinesOf(K) \ Range(K[LogPlace])
  <2>1a. PICK s \in Places : \E i \in 1 .. Len(M[s]) : M[s][i] = k
    BY <1>1, LineIn
  <2>1. PICK i \in 1 .. Len(M[s]) : M[s][i] = k
    BY <2>1a
  <2>2. s < LogPlace /\ i \in 1 .. Len(K[s]) /\ K[s][i] = k
    BY <1>3, <2>1
  <2>3. ASSUME k \in Range(K[LogPlace]) PROVE FALSE
    <3>1. DOMAIN K[LogPlace] = 1 .. Len(K[LogPlace])
      BY PlaceFacts
    <3>2. PICK j \in 1 .. Len(K[LogPlace]) : K[LogPlace][j] = k
      BY <2>3, <3>1 DEF Range
    <3>3. K[s][i] < K[LogPlace][j]
      BY <2>2, <3>2, PlaceFacts DEF InOrder
    <3>4. K[s][i] \in Nat
      BY <2>2
    <3> QED BY <2>2, <3>2, <3>3, <3>4
  <2> QED BY <2>2, <2>3, LineIn
<1>6. ASSUME NEW k \in LinesOf(K) \ Range(K[LogPlace]) PROVE k \in LinesOf(M)
  <2>1a. PICK s \in Places : \E i \in 1 .. Len(K[s]) : K[s][i] = k
    BY LineIn
  <2>1. PICK i \in 1 .. Len(K[s]) : K[s][i] = k
    BY <2>1a
  <2>2. s # LogPlace
    <3>1. DOMAIN K[LogPlace] = 1 .. Len(K[LogPlace])
      BY PlaceFacts
    <3> QED BY <2>1, <3>1 DEF Range
  <2>3. M[s] = K[s]
    BY <1>2, <2>2
  <2>4. i \in 1 .. Len(M[s]) /\ M[s][i] = k
    BY <2>1, <2>3
  <2> QED BY <1>1, <2>4, LineIn
<1> QED BY <1>1, <1>4, <1>5, <1>6

\* The log becomes the backup of a second: all later ones have none, nor has it.
LEMMA LinesMoved ==
  ASSUME NEW K \in [Places -> Seq(Nat)], InOrder(K), NEW z \in Seconds,
         \A s \in Seconds : s >= z => K[s] = <<>>,
         NEW M, M = [K EXCEPT ![z] = K[LogPlace], ![LogPlace] = <<>>]
  PROVE  M \in [Places -> Seq(Nat)] /\ InOrder(M) /\ LinesOf(M) = LinesOf(K)
<1>1. M \in [Places -> Seq(Nat)]
  BY PlaceFacts
<1>2. /\ z \in Places /\ z # LogPlace /\ M[z] = K[LogPlace] /\ M[LogPlace] = <<>> /\ K[z] = <<>>
      /\ \A s \in Places : s # z /\ s # LogPlace => M[s] = K[s]
      /\ z \in Nat /\ Len(<<>>) = 0
  BY PlaceFacts DEF Seconds
<1>3. ASSUME NEW s \in Places, NEW i \in 1 .. Len(M[s])
      PROVE  \/ s < z /\ i \in 1 .. Len(K[s]) /\ M[s][i] = K[s][i]
             \/ s = z /\ i \in 1 .. Len(K[LogPlace]) /\ M[s][i] = K[LogPlace][i]
  <2>1. s # LogPlace
    BY <1>2
  <2>2. CASE s = z
    BY <1>2, <2>2
  <2>3. CASE s # z
    <3>1. M[s] = K[s] /\ s \in Seconds
      BY <1>2, <2>1, <2>3, PlaceFacts
    <3>2. ~(s >= z)
      BY <1>2, <3>1
    <3> QED BY <1>2, <2>3, <3>1, <3>2, PlaceFacts
  <2> QED BY <2>2, <2>3
<1>4. InOrder(M)
  <2> SUFFICES ASSUME NEW s \in Places, NEW r \in Places, NEW i \in 1 .. Len(M[s]), NEW j \in 1 .. Len(M[r]),
                      s < r \/ (s = r /\ i < j)
               PROVE  M[s][i] < M[r][j]
    BY DEF InOrder
  <2>1. CASE s < z
    <3>0. s \in Nat /\ z \in Nat /\ s # z /\ s < LogPlace
      BY <1>2, <2>1, PlaceFacts
    <3>1. i \in 1 .. Len(K[s]) /\ M[s][i] = K[s][i] /\ s < LogPlace
      BY <1>3, <3>0
    <3>2. CASE r < z
      <4>1. r \in Nat /\ r # z
        BY <3>0, <3>2, PlaceFacts
      <4>2. j \in 1 .. Len(K[r]) /\ M[r][j] = K[r][j]
        BY <1>3, <4>1
      <4> QED BY <3>1, <4>2 DEF InOrder
    <3>3. CASE r = z
      <4>1. j \in 1 .. Len(K[LogPlace]) /\ M[r][j] = K[LogPlace][j]
        BY <1>2, <1>3, <3>3
      <4> QED BY <3>1, <4>1, PlaceFacts DEF InOrder
    <3> QED BY <1>3, <3>2, <3>3
  <2>2. CASE s = z
    <3>1. s = r /\ i < j
      <4>1. r = z \/ r < z
        BY <1>3
      <4> QED BY <1>2, <2>2, <4>1, PlaceFacts
    <3> QED BY <1>2, <2>2, <3>1, PlaceFacts DEF InOrder
  <2> QED BY <1>3, <2>1, <2>2
<1>5. ASSUME NEW k \in LinesOf(M) PROVE k \in LinesOf(K)
  <2>1a. PICK s \in Places : \E i \in 1 .. Len(M[s]) : M[s][i] = k
    BY <1>1, LineIn
  <2>1. PICK i \in 1 .. Len(M[s]) : M[s][i] = k
    BY <2>1a
  <2>2. CASE s < z /\ i \in 1 .. Len(K[s]) /\ M[s][i] = K[s][i]
    BY <2>1, <2>2, LineIn
  <2>3. CASE i \in 1 .. Len(K[LogPlace]) /\ M[s][i] = K[LogPlace][i]
    <3>1. LogPlace \in Places
      BY PlaceFacts
    <3> QED BY <2>1, <2>3, <3>1, LineIn
  <2> QED BY <1>3, <2>2, <2>3
<1>6. ASSUME NEW k \in LinesOf(K) PROVE k \in LinesOf(M)
  <2>1a. PICK s \in Places : \E i \in 1 .. Len(K[s]) : K[s][i] = k
    BY LineIn
  <2>1. PICK i \in 1 .. Len(K[s]) : K[s][i] = k
    BY <2>1a
  <2>2. CASE s = LogPlace
    BY <1>1, <1>2, <2>1, <2>2, LineIn
  <2>3. CASE s # LogPlace
    <3>1. s # z
      BY <1>2, <2>1
    <3> QED BY <1>1, <1>2, <2>1, <2>3, <3>1, LineIn
  <2> QED BY <2>2, <2>3
<1> QED BY <1>1, <1>4, <1>5, <1>6

-----------------------------------------------------------------------------
(* The same of a log c with the backups b *)

KeptOf(c, b) == [s \in Places |-> IF s = LogPlace THEN c ELSE b[s]]

\* The lines of 1 .. n that are not in e, in their order.
Complete(c, b, n, e) == InOrder(KeptOf(c, b)) /\ LinesOf(KeptOf(c, b)) = (1 .. n) \ e

LEMMA KeptFacts ==
  ASSUME NEW c \in Seq(Nat), NEW b \in [Seconds -> Seq(Nat)]
  PROVE  /\ KeptOf(c, b) \in [Places -> Seq(Nat)] /\ KeptOf(c, b)[LogPlace] = c
         /\ \A s \in Seconds : KeptOf(c, b)[s] = b[s]
<1>1. \A s \in Places : KeptOf(c, b)[s] \in Seq(Nat)
  BY PlaceFacts DEF KeptOf
<1> QED BY <1>1, PlaceFacts DEF KeptOf

LEMMA CompletePut ==
  ASSUME NEW c \in Seq(Nat), NEW b \in [Seconds -> Seq(Nat)], NEW n \in Nat, NEW e \in SUBSET (1 .. n),
         Complete(c, b, n, e)
  PROVE  Complete(Append(c, n + 1), b, n + 1, e)
<1>1. PICK K : K = KeptOf(c, b)
  OBVIOUS
<1>2. PICK M : M = [K EXCEPT ![LogPlace] = Append(K[LogPlace], n + 1)]
  OBVIOUS
<1>3. K \in [Places -> Seq(Nat)] /\ K[LogPlace] = c
  BY <1>1, KeptFacts
<1>4. InOrder(K) /\ LinesOf(K) = (1 .. n) \ e
  BY <1>1 DEF Complete
<1>5. \A k \in LinesOf(K) : k <= n
  BY <1>4
<1>6. InOrder(M) /\ LinesOf(M) = LinesOf(K) \cup {n + 1}
  BY <1>2, <1>3, <1>4, <1>5, LinePut
<1>7. KeptOf(Append(c, n + 1), b) = M
  BY <1>1, <1>2, <1>3, PlaceFacts DEF KeptOf
<1>8. ((1 .. n) \ e) \cup {n + 1} = (1 .. n + 1) \ e
  OBVIOUS
<1> QED BY <1>4, <1>6, <1>7, <1>8 DEF Complete

LEMMA CompleteDropped ==
  ASSUME NEW c \in Seq(Nat), NEW b \in [Seconds -> Seq(Nat)], NEW n \in Nat, NEW e \in SUBSET (1 .. n),
         Complete(c, b, n, e)
  PROVE  Complete(<<>>, b, n, e \cup Range(c))
<1>1. PICK K : K = KeptOf(c, b)
  OBVIOUS
<1>2. PICK M : M = [K EXCEPT ![LogPlace] = <<>>]
  OBVIOUS
<1>3. K \in [Places -> Seq(Nat)] /\ K[LogPlace] = c
  BY <1>1, KeptFacts
<1>4. InOrder(K) /\ LinesOf(K) = (1 .. n) \ e
  BY <1>1 DEF Complete
<1>5. InOrder(M) /\ LinesOf(M) = LinesOf(K) \ Range(c)
  BY <1>2, <1>3, <1>4, LinesDropped
<1>6. KeptOf(<<>>, b) = M
  BY <1>1, <1>2, <1>3, PlaceFacts DEF KeptOf
<1> QED BY <1>4, <1>5, <1>6 DEF Complete

LEMMA CompleteMoved ==
  ASSUME NEW c \in Seq(Nat), NEW b \in [Seconds -> Seq(Nat)], NEW n \in Nat, NEW e \in SUBSET (1 .. n),
         Complete(c, b, n, e), NEW z \in Seconds, \A s \in Seconds : s >= z => b[s] = <<>>
  PROVE  Complete(<<>>, [b EXCEPT ![z] = c], n, e)
<1>1. PICK K : K = KeptOf(c, b)
  OBVIOUS
<1>2. PICK M : M = [K EXCEPT ![z] = K[LogPlace], ![LogPlace] = <<>>]
  OBVIOUS
<1>3. K \in [Places -> Seq(Nat)] /\ K[LogPlace] = c /\ \A s \in Seconds : K[s] = b[s]
  BY <1>1, KeptFacts
<1>4. InOrder(K) /\ LinesOf(K) = (1 .. n) \ e
  BY <1>1 DEF Complete
<1>5. M \in [Places -> Seq(Nat)] /\ InOrder(M) /\ LinesOf(M) = LinesOf(K)
  BY <1>2, <1>3, <1>4, LinesMoved
<1>6. KeptOf(<<>>, [b EXCEPT ![z] = c]) = M
  <2>1. PICK d : d = [b EXCEPT ![z] = c]
    OBVIOUS
  <2>2. ASSUME NEW s \in Places PROVE KeptOf(<<>>, d)[s] = M[s]
    <3>1. CASE s = LogPlace
      BY <1>2, <1>3, <3>1, PlaceFacts DEF KeptOf
    <3>2. CASE s = z
      BY <1>2, <1>3, <2>1, <3>2, PlaceFacts DEF KeptOf
    <3>3. CASE s # z /\ s # LogPlace
      BY <1>2, <1>3, <2>1, <3>3, PlaceFacts DEF KeptOf
    <3> QED BY <3>1, <3>2, <3>3
  <2>4. KeptOf(<<>>, d) = [s \in Places |-> KeptOf(<<>>, d)[s]]
    BY DEF KeptOf
  <2>5. M = [s \in Places |-> M[s]]
    BY <1>5
  <2> QED BY <2>1, <2>2, <2>4, <2>5
<1> QED BY <1>4, <1>5, <1>6 DEF Complete

-----------------------------------------------------------------------------
(* The inductive invariant of the log *)

LogFlags ==
  /\ backup \in BOOLEAN /\ tracefp \in BOOLEAN
  /\ openmode \in Modes \cup {""} /\ (tracefp => openmode # "")

LogTypes ==
  /\ second \in Seconds /\ accepted \in 0 .. MaxLines
  /\ tell \in 0 .. MaxLines /\ unrotated \in Nat
  /\ current \in Seq(Nat) /\ Len(current) <= accepted
  /\ backups \in [Seconds -> Seq(Nat)] /\ rotations \in Seq(Seconds)

\* What is not long enough to be rotated is short enough: ftell() knows the end
\* of the log, or the Open has been counted after which it does not.
LogLength ==
  /\ Len(current) <= MaxLogSize + 1 + unrotated
  /\ tracefp /\ tell # Len(current) => Len(current) <= MaxLogSize + unrotated

\* Backups are of the seconds of rotations, and these are not in the future.
BackupsKnown ==
  /\ \A i \in 1 .. Len(rotations) : rotations[i] <= second
  /\ \A s \in Seconds : backups[s] # <<>> => \E i \in 1 .. Len(rotations) : rotations[i] = s

LinesKnown ==
  /\ emptied \subseteq 1 .. accepted /\ Range(current) \subseteq 1 .. accepted
  /\ IsInjective(rotations) => Complete(current, backups, accepted, emptied)

LogInv == LogFlags /\ LogTypes /\ LogLength /\ BackupsKnown /\ LinesKnown

LEMMA LogStart == LogInit => LogInv
<1> SUFFICES ASSUME LogInit PROVE LogInv
  OBVIOUS
<1>0. tracefp = FALSE /\ openmode = "" /\ backup = TRUE
  BY DEF LogInit
<1>1. /\ second = 0 /\ tell = 0 /\ accepted = 0 /\ unrotated = 0 /\ emptied = {}
      /\ current = <<>> /\ rotations = <<>> /\ backups = [s \in Seconds |-> <<>>]
  BY DEF LogInit
<1>2. /\ Len(<<>>) = 0 /\ <<>> \in Seq(Nat) /\ <<>> \in Seq(Seconds)
      /\ MaxLogSize \in Nat /\ MaxLines \in Nat /\ 0 \in Seconds
  BY LogAssumption DEF Seconds
<1>3a. LogFlags
  BY <1>0 DEF LogFlags
<1>3. LogTypes
  <2>2. /\ second \in Seconds /\ accepted \in 0 .. MaxLines /\ tell \in 0 .. MaxLines
        /\ unrotated \in Nat
    BY <1>1, <1>2 DEF Seconds
  <2>3. /\ current \in Seq(Nat) /\ Len(current) <= accepted
        /\ backups \in [Seconds -> Seq(Nat)] /\ rotations \in Seq(Seconds)
    BY <1>1, <1>2
  <2> QED BY <2>2, <2>3 DEF LogTypes
<1>4. LogLength
  <2>1. Len(current) = 0 /\ tell = Len(current)
    BY <1>1, <1>2
  <2>2. Len(current) <= MaxLogSize + 1 + unrotated
    BY <1>1, <1>2, <2>1
  <2> QED BY <2>1, <2>2 DEF LogLength
<1>5. BackupsKnown
  <2>1. Len(rotations) = 0 /\ \A s \in Seconds : backups[s] = <<>>
    BY <1>1, <1>2
  <2> QED BY <2>1 DEF BackupsKnown
<1>6. LinesKnown
  <2>1. PICK K : K = KeptOf(current, backups)
    OBVIOUS
  <2>2. \A s \in Places : K[s] = <<>> /\ Len(K[s]) = 0
    BY <1>1, <1>2, <2>1, PlaceFacts DEF KeptOf
  <2>3. InOrder(K)
    BY <2>2 DEF InOrder
  <2>4. LinesOf(K) = {}
    <3>1. ASSUME NEW k \in LinesOf(K) PROVE FALSE
      <4>1. PICK s \in Places : k \in Range(K[s])
        BY DEF LinesOf
      <4> QED BY <2>2, <4>1 DEF Range
    <3> QED BY <3>1
  <2>5. 1 .. accepted = {} /\ emptied = {} /\ Range(current) = {}
    BY <1>1 DEF Range
  <2> QED BY <2>1, <2>3, <2>4, <2>5 DEF LinesKnown, Complete
<1> QED BY <1>3a, <1>3, <1>4, <1>5, <1>6 DEF LogInv

\* No two rotations in a second: the backup that is made is the only one of its
\* second, and the last one.
LEMMA BackupIsNew ==
  ASSUME LogTypes, BackupsKnown, IsInjective(Append(rotations, second))
  PROVE  IsInjective(rotations) /\ \A s \in Seconds : s >= second => backups[s] = <<>>
<1>1. PICK R : R = rotations /\ R \in Seq(Seconds)
  BY DEF LogTypes
<1>2. PICK l : l = Len(R) /\ l \in Nat
  BY <1>1
<1>3. PICK S : S = Append(R, second)
  OBVIOUS
<1>4. second \in Seconds
  BY DEF LogTypes
<1>5. /\ DOMAIN S = 1 .. l + 1 /\ DOMAIN R = 1 .. l /\ S[l + 1] = second
      /\ \A i \in 1 .. l : S[i] = R[i] /\ i \in 1 .. l + 1
  BY <1>1, <1>2, <1>3, <1>4
<1>6. \A i, j \in 1 .. l + 1 : S[i] = S[j] => i = j
  BY <1>1, <1>3, <1>5 DEF IsInjective
<1>7. IsInjective(R)
  BY <1>5, <1>6 DEF IsInjective
<1>8. ASSUME NEW s \in Seconds, s >= second, backups[s] # <<>> PROVE FALSE
  <2>1. PICK i \in 1 .. l : R[i] = s /\ R[i] <= second
    BY <1>1, <1>2, <1>8 DEF BackupsKnown
  <2>2. s = second
    BY <1>4, <1>8, <2>1 DEF Seconds
  <2>3. S[i] = S[l + 1] /\ i \in 1 .. l + 1 /\ l + 1 \in 1 .. l + 1
    BY <1>2, <1>5, <2>1, <2>2
  <2>4. i = l + 1
    BY <1>6, <2>3
  <2> QED BY <1>2, <2>1, <2>4
<1> QED BY <1>1, <1>7, <1>8

\* A line is put at the end of the log: c is the log, or the one that was
\* emptied or begun for it.
LEMMA PutTypes ==
  ASSUME LogTypes, accepted < MaxLines, NEW c \in Seq(Nat), Len(c) <= accepted, Puts(c)
  PROVE  /\ accepted' \in 0 .. MaxLines /\ tell' \in 0 .. MaxLines
         /\ current' \in Seq(Nat) /\ Len(current') = Len(c) + 1 /\ tell' = Len(current')
         /\ Len(current') <= accepted' /\ Range(current') = Range(c) \cup {accepted + 1}
<1>1. accepted \in Nat /\ MaxLines \in Nat /\ Len(c) \in Nat
  BY LogAssumption DEF LogTypes
<1>2. accepted' = accepted + 1 /\ current' = Append(c, accepted + 1) /\ tell' = Len(c) + 1
  BY DEF Puts
<1>3. current' \in Seq(Nat) /\ Len(current') = Len(c) + 1
  BY <1>1, <1>2
<1>4. Range(current') = Range(c) \cup {accepted + 1}
  <2>1. PICK z : z = current' /\ z = Append(c, accepted + 1)
    BY <1>2
  <2>2. PICK l : l = Len(c) /\ l \in Nat
    BY <1>1
  <2>3. /\ DOMAIN z = 1 .. l + 1 /\ DOMAIN c = 1 .. l
        /\ z[l + 1] = accepted + 1 /\ \A i \in 1 .. l : z[i] = c[i]
    BY <1>1, <2>1, <2>2
  <2>4. \A i \in 1 .. l + 1 : i \in 1 .. l \/ i = l + 1
    BY <2>2
  <2>5. (1 .. l) \subseteq 1 .. l + 1 /\ l + 1 \in 1 .. l + 1
    BY <2>2
  <2> QED BY <2>1, <2>3, <2>4, <2>5 DEF Range
<1> QED BY <1>1, <1>2, <1>3, <1>4

LEMMA CurrentLength == LogTypes => Len(current) \in Nat
BY DEF LogTypes

\* Write without a rotation, and WriteEx.
LEMMA StepWrite ==
  ASSUME LogInv, accepted < MaxLines, tracefp, Puts(current),
         \/ unrotated' = unrotated + 1
         \/ unrotated' = unrotated /\ tell <= MaxLogSize,
         UNCHANGED <<second, tracefp, openmode, backup, backups, rotations, emptied>>
  PROVE  LogInv'
<1>1. LogFlags /\ LogTypes /\ LogLength /\ BackupsKnown /\ LinesKnown
  BY DEF LogInv
<1>2. current \in Seq(Nat) /\ Len(current) <= accepted
  BY <1>1 DEF LogTypes
<1>3. /\ accepted' \in 0 .. MaxLines /\ tell' \in 0 .. MaxLines
      /\ current' \in Seq(Nat) /\ Len(current') = Len(current) + 1 /\ tell' = Len(current')
      /\ Len(current') <= accepted' /\ Range(current') = Range(current) \cup {accepted + 1}
  BY <1>1, <1>2, PutTypes
<1>4. unrotated \in Nat /\ tell \in Nat /\ Len(current) \in Nat /\ MaxLogSize \in Nat
  BY <1>1, CurrentLength, LogAssumption DEF LogTypes
<1>5. LogTypes'
  <2>1. unrotated' \in Nat
    BY <1>4
  <2> QED BY <1>1, <1>3, <2>1 DEF LogTypes
<1>6. LogLength'
  <2>1. Len(current) <= MaxLogSize + 1 + unrotated
    BY <1>1 DEF LogLength
  <2>2. tell # Len(current) => Len(current) <= MaxLogSize + unrotated
    BY <1>1 DEF LogLength
  <2>3. Len(current') <= MaxLogSize + 1 + unrotated'
    BY <1>3, <1>4, <2>1, <2>2
  <2> QED BY <1>3, <2>3 DEF LogLength
<1>6a. LogFlags'
  BY <1>1 DEF LogFlags
<1>7. BackupsKnown'
  BY <1>1 DEF BackupsKnown
<1>8. LinesKnown'
  <2>1. accepted \in Nat /\ backups \in [Seconds -> Seq(Nat)]
    BY <1>1 DEF LogTypes
  <2>2. emptied \in SUBSET (1 .. accepted) /\ Range(current) \subseteq 1 .. accepted
    BY <1>1 DEF LinesKnown
  <2>3. accepted' = accepted + 1 /\ current' = Append(current, accepted + 1)
    BY DEF Puts
  <2>4. emptied' \subseteq 1 .. accepted' /\ Range(current') \subseteq 1 .. accepted'
    BY <1>3, <2>1, <2>2, <2>3
  <2>5. ASSUME IsInjective(rotations)' PROVE Complete(current, backups, accepted, emptied)'
    <3>1. Complete(current, backups, accepted, emptied)
      BY <1>1, <2>5 DEF LinesKnown
    <3>2. Complete(Append(current, accepted + 1), backups, accepted + 1, emptied)
      BY <1>2, <2>1, <2>2, <3>1, CompletePut
    <3> QED BY <2>3, <3>2
  <2> QED BY <2>4, <2>5 DEF LinesKnown
<1> QED BY <1>5, <1>6, <1>6a, <1>7, <1>8 DEF LogInv

LEMMA StepTick == LogInv /\ Tick => LogInv'
<1> SUFFICES ASSUME LogInv, Tick PROVE LogInv'
  OBVIOUS
<1>1. LogFlags /\ LogTypes /\ LogLength /\ BackupsKnown /\ LinesKnown
  BY DEF LogInv
<1>2. /\ second < MaxSeconds /\ second' = second + 1
      /\ UNCHANGED <<tracefp, openmode, backup, tell, current, backups, accepted,
                     unrotated, rotations, emptied>>
  BY DEF Tick
<1>3. second' \in Seconds /\ second \in Nat
  BY <1>1, <1>2, LogAssumption DEF LogTypes, Seconds
<1>4. LogFlags' /\ LogLength' /\ LinesKnown'
  BY <1>1, <1>2 DEF LogFlags, LogLength, LinesKnown
<1>5. LogTypes'
  BY <1>1, <1>2, <1>3 DEF LogTypes
<1>6. BackupsKnown'
  <2>1. rotations \in Seq(Seconds)
    BY <1>1 DEF LogTypes
  <2>2. ASSUME NEW i \in 1 .. Len(rotations) PROVE rotations[i] <= second'
    <3>1. rotations[i] \in Seconds
      BY <2>1
    <3>2. rotations[i] <= second
      BY <1>1 DEF BackupsKnown
    <3>3. PICK r : r = rotations[i]
      OBVIOUS
    <3>4. r \in Nat /\ r <= second
      BY <3>1, <3>2, <3>3 DEF Seconds
    <3>5. r <= second + 1
      BY <1>3, <3>4
    <3> QED BY <1>2, <3>3, <3>5
  <2> QED BY <1>1, <1>2, <2>2 DEF BackupsKnown
<1> QED BY <1>1, <1>4, <1>5, <1>6 DEF LogInv

LEMMA StepCloseLog == LogInv /\ CloseLog => LogInv'
<1> SUFFICES ASSUME LogInv, CloseLog PROVE LogInv'
  OBVIOUS
<1>1. LogFlags /\ LogTypes /\ LogLength /\ BackupsKnown /\ LinesKnown
  BY DEF LogInv
<1>2. /\ tracefp' = FALSE /\ openmode' = "" /\ backup' = TRUE
      /\ UNCHANGED <<second, tell, current, backups, accepted, unrotated, rotations, emptied>>
  BY DEF CloseLog
<1>3. LogFlags'
  BY <1>2 DEF LogFlags
<1>4. LogTypes'
  BY <1>1, <1>2 DEF LogTypes
<1>5. LogLength' /\ BackupsKnown' /\ LinesKnown'
  BY <1>1, <1>2 DEF LogLength, BackupsKnown, LinesKnown
<1> QED BY <1>3, <1>4, <1>5 DEF LogInv

\* What fopen leaves in the log: all of it or nothing, and nothing is lost but
\* what it is said to throw away.
LEMMA OpenedFacts ==
  ASSUME LogInv, NEW mode
  PROVE  /\ Opened(mode) \in Seq(Nat) /\ Len(Opened(mode)) <= Len(current)
         /\ Emptied(mode) \in SUBSET (1 .. accepted) /\ Range(Opened(mode)) \subseteq 1 .. accepted
         /\ IsInjective(rotations) => Complete(Opened(mode), backups, accepted, Emptied(mode))
<1>1. LogTypes /\ LinesKnown
  BY DEF LogInv
<1>2. /\ accepted \in Nat /\ backups \in [Seconds -> Seq(Nat)] /\ current \in Seq(Nat)
      /\ Len(current) \in Nat /\ Len(<<>>) = 0 /\ <<>> \in Seq(Nat)
  BY <1>1 DEF LogTypes
<1>3. emptied \in SUBSET (1 .. accepted) /\ Range(current) \subseteq 1 .. accepted
  BY <1>1 DEF LinesKnown
<1>4. IsInjective(rotations) => Complete(current, backups, accepted, emptied)
  BY <1>1 DEF LinesKnown
<1>5. Range(<<>>) = {}
  BY DEF Range
<1>6. CASE mode = "w"
  <2>1. Opened(mode) = <<>> /\ Emptied(mode) = emptied \cup Range(current)
    BY <1>6 DEF Opened, Emptied
  <2>2. IsInjective(rotations) => Complete(<<>>, backups, accepted, emptied \cup Range(current))
    BY <1>2, <1>3, <1>4, CompleteDropped
  <2>3. Len(<<>>) <= Len(current)
    BY <1>2
  <2>4. emptied \cup Range(current) \in SUBSET (1 .. accepted) /\ Range(<<>>) \subseteq 1 .. accepted
    BY <1>3, <1>5
  <2>5. <<>> \in Seq(Nat)
    BY <1>2
  <2> QED BY <2>1, <2>2, <2>3, <2>4, <2>5
<1>7. CASE mode # "w"
  <2>1. Opened(mode) = current /\ Emptied(mode) = emptied
    BY <1>7 DEF Opened, Emptied
  <2> QED BY <1>2, <1>3, <1>4, <2>1
<1> QED BY <1>6, <1>7

LEMMA StepOpenLog ==
  ASSUME LogInv, NEW mode \in Modes, NEW rotates \in BOOLEAN, OpenLog(mode, rotates)
  PROVE  LogInv'
<1>1. LogFlags /\ LogTypes /\ LogLength /\ BackupsKnown /\ LinesKnown
  BY DEF LogInv
<1>2. /\ openmode' = mode /\ backup' = rotates
      /\ UNCHANGED <<second, backups, accepted, rotations>>
  BY DEF OpenLog
<1>3. mode # ""
  BY LogAssumption
<1>4. CASE /\ tracefp' = TRUE /\ current' = Opened(mode) /\ emptied' = Emptied(mode)
           /\ tell' \in Positions(current') /\ unrotated' = unrotated + 1
  <2>1. /\ Opened(mode) \in Seq(Nat) /\ Len(Opened(mode)) <= Len(current)
        /\ Emptied(mode) \in SUBSET (1 .. accepted) /\ Range(Opened(mode)) \subseteq 1 .. accepted
        /\ IsInjective(rotations) => Complete(Opened(mode), backups, accepted, Emptied(mode))
    BY OpenedFacts
  <2>2. PICK n : n = Len(Opened(mode)) /\ n \in Nat /\ Len(current') = n
    BY <1>4, <2>1
  <2>3. /\ accepted \in Nat /\ accepted <= MaxLines /\ MaxLines \in Nat /\ Len(current) <= accepted
        /\ unrotated \in Nat /\ Len(current) \in Nat /\ MaxLogSize \in Nat
    BY <1>1, LogAssumption DEF LogTypes
  <2>4. n <= accepted /\ n <= Len(current) /\ unrotated' \in Nat
    BY <1>4, <2>1, <2>2, <2>3
  <2>5. tell' \in 0 .. MaxLines
    BY <1>4, <2>2, <2>3, <2>4 DEF Positions
  <2>6. LogFlags'
    BY <1>2, <1>3, <1>4 DEF LogFlags
  <2>7. LogTypes'
    BY <1>1, <1>2, <1>4, <2>1, <2>2, <2>4, <2>5 DEF LogTypes
  <2>8. LogLength'
    <3>1. Len(current) <= MaxLogSize + 1 + unrotated
      BY <1>1 DEF LogLength
    <3>2. Len(current') <= MaxLogSize + unrotated'
      BY <1>4, <2>2, <2>3, <2>4, <3>1
    <3>3. Len(current') <= MaxLogSize + 1 + unrotated'
      BY <1>4, <2>2, <2>3, <2>4, <3>1
    <3> QED BY <3>2, <3>3 DEF LogLength
  <2>9. BackupsKnown' /\ LinesKnown'
    BY <1>1, <1>2, <1>4, <2>1 DEF BackupsKnown, LinesKnown
  <2> QED BY <2>6, <2>7, <2>8, <2>9 DEF LogInv
<1>5. CASE tracefp' = FALSE /\ UNCHANGED <<current, tell, unrotated, emptied>>
  <2>1. LogFlags'
    BY <1>2, <1>5 DEF LogFlags
  <2>2. LogTypes'
    BY <1>1, <1>2, <1>5 DEF LogTypes
  <2>3. LogLength' /\ BackupsKnown' /\ LinesKnown'
    BY <1>1, <1>2, <1>5 DEF LogLength, BackupsKnown, LinesKnown
  <2> QED BY <2>1, <2>2, <2>3 DEF LogInv
<1> QED BY <1>4, <1>5 DEF OpenLog

\* The log is moved away: it is the backup of this second, and an empty one
\* takes its place.
LEMMA MovedFacts ==
  ASSUME LogInv, MoveAway, second' = second
  PROVE  /\ backups' \in [Seconds -> Seq(Nat)] /\ rotations' \in Seq(Seconds) /\ BackupsKnown'
         /\ IsInjective(rotations') => Complete(<<>>, backups', accepted, emptied)
<1>1. LogTypes /\ BackupsKnown /\ LinesKnown
  BY DEF LogInv
<1>2. /\ second \in Seconds /\ accepted \in Nat /\ current \in Seq(Nat)
      /\ backups \in [Seconds -> Seq(Nat)] /\ rotations \in Seq(Seconds)
  BY <1>1 DEF LogTypes
<1>3. backups' = [backups EXCEPT ![second] = current] /\ rotations' = Append(rotations, second)
  BY DEF MoveAway
<1>4. backups' \in [Seconds -> Seq(Nat)] /\ rotations' \in Seq(Seconds)
  BY <1>2, <1>3
<1>5. PICK R, S : R = rotations /\ S = rotations' /\ S = Append(R, second) /\ R \in Seq(Seconds)
  BY <1>2, <1>3
<1>6. PICK l : l = Len(R) /\ l \in Nat
  BY <1>5
<1>7. /\ Len(S) = l + 1 /\ S[l + 1] = second /\ l + 1 \in 1 .. l + 1
      /\ \A i \in 1 .. l : S[i] = R[i] /\ i \in 1 .. l + 1
      /\ \A i \in 1 .. l + 1 : i \in 1 .. l \/ i = l + 1
  BY <1>2, <1>5, <1>6
<1>8. BackupsKnown'
  <2>1. second <= second
    BY <1>2 DEF Seconds
  <2>2. \A i \in 1 .. l : R[i] <= second
    BY <1>1, <1>5, <1>6 DEF BackupsKnown
  <2>3. \A i \in 1 .. l + 1 : S[i] <= second
    BY <1>7, <2>1, <2>2
  <2>4. ASSUME NEW s \in Seconds, backups'[s] # <<>> PROVE \E i \in 1 .. l + 1 : S[i] = s
    <3>1. CASE s = second
      BY <1>7, <3>1
    <3>2. CASE s # second
      <4>1. backups[s] # <<>>
        BY <1>2, <1>3, <2>4, <3>2
      <4>2. PICK i \in 1 .. l : R[i] = s
        BY <1>1, <1>5, <1>6, <4>1 DEF BackupsKnown
      <4> QED BY <1>7, <4>2
    <3> QED BY <3>1, <3>2
  <2> QED BY <1>5, <1>7, <2>3, <2>4 DEF BackupsKnown
<1>9. ASSUME IsInjective(rotations') PROVE Complete(<<>>, backups', accepted, emptied)
  <2>1. IsInjective(rotations) /\ \A s \in Seconds : s >= second => backups[s] = <<>>
    BY <1>1, <1>3, <1>9, BackupIsNew
  <2>2. Complete(current, backups, accepted, emptied) /\ emptied \in SUBSET (1 .. accepted)
    BY <1>1, <2>1 DEF LinesKnown
  <2> QED BY <1>2, <1>3, <2>1, <2>2, CompleteMoved
<1> QED BY <1>4, <1>8, <1>9

LEMMA StepWriteRotates == LogInv /\ WriteRotates => LogInv'
<1> SUFFICES ASSUME LogInv, WriteRotates PROVE LogInv'
  OBVIOUS
<1>1. LogFlags /\ LogTypes /\ LogLength /\ BackupsKnown /\ LinesKnown
  BY DEF LogInv
<1>2. /\ accepted < MaxLines /\ MoveAway /\ Puts(<<>>) /\ unrotated' = 0
      /\ UNCHANGED <<second, tracefp, openmode, backup, emptied>>
  BY DEF WriteRotates
<1>3. /\ backups' \in [Seconds -> Seq(Nat)] /\ rotations' \in Seq(Seconds) /\ BackupsKnown'
      /\ IsInjective(rotations') => Complete(<<>>, backups', accepted, emptied)
  BY <1>2, MovedFacts
<1>4. <<>> \in Seq(Nat) /\ Len(<<>>) = 0 /\ accepted \in Nat /\ Len(<<>>) <= accepted
  BY <1>1 DEF LogTypes
<1>5. /\ accepted' \in 0 .. MaxLines /\ tell' \in 0 .. MaxLines
      /\ current' \in Seq(Nat) /\ Len(current') = Len(<<>>) + 1 /\ tell' = Len(current')
      /\ Len(current') <= accepted' /\ Range(current') = Range(<<>>) \cup {accepted + 1}
  BY <1>1, <1>2, <1>4, PutTypes
<1>6. LogFlags'
  BY <1>1, <1>2 DEF LogFlags
<1>7. LogTypes'
  BY <1>1, <1>2, <1>3, <1>5 DEF LogTypes
<1>8. LogLength'
  <2>1. Len(current') = 1 /\ unrotated' = 0 /\ MaxLogSize \in Nat
    BY <1>2, <1>4, <1>5, LogAssumption
  <2>2. Len(current') <= MaxLogSize + 1 + unrotated'
    BY <2>1
  <2> QED BY <1>5, <2>2 DEF LogLength
<1>9. LinesKnown'
  <2>1. accepted' = accepted + 1 /\ current' = Append(<<>>, accepted + 1)
    BY <1>2 DEF Puts
  <2>2. emptied \in SUBSET (1 .. accepted) /\ Range(<<>>) = {}
    BY <1>1 DEF LinesKnown, Range
  <2>3. emptied' \subseteq 1 .. accepted' /\ Range(current') \subseteq 1 .. accepted'
    BY <1>2, <1>4, <1>5, <2>1, <2>2
  <2>4. ASSUME IsInjective(rotations') PROVE Complete(Append(<<>>, accepted + 1), backups', accepted + 1, emptied)
    <3>1. Complete(<<>>, backups', accepted, emptied)
      BY <1>3, <2>4
    <3> QED BY <1>3, <1>4, <2>2, <3>1, CompletePut
  <2> QED BY <1>2, <2>1, <2>3, <2>4 DEF LinesKnown
<1> QED BY <1>3, <1>6, <1>7, <1>8, <1>9 DEF LogInv

LEMMA StepWriteReopenFails == LogInv /\ WriteReopenFails => LogInv'
<1> SUFFICES ASSUME LogInv, WriteReopenFails PROVE LogInv'
  OBVIOUS
<1>1. LogFlags /\ LogTypes /\ LogLength /\ BackupsKnown /\ LinesKnown
  BY DEF LogInv
<1>2. /\ MoveAway /\ current' = <<>> /\ tracefp' = FALSE
      /\ UNCHANGED <<second, openmode, backup, tell, accepted, unrotated, emptied>>
  BY DEF WriteReopenFails
<1>3. /\ backups' \in [Seconds -> Seq(Nat)] /\ rotations' \in Seq(Seconds) /\ BackupsKnown'
      /\ IsInjective(rotations') => Complete(<<>>, backups', accepted, emptied)
  BY <1>2, MovedFacts
<1>4. <<>> \in Seq(Nat) /\ Len(<<>>) = 0 /\ accepted \in Nat /\ unrotated \in Nat /\ MaxLogSize \in Nat
  BY <1>1, LogAssumption DEF LogTypes
<1>5. LogFlags'
  BY <1>1, <1>2 DEF LogFlags
<1>6. LogTypes'
  BY <1>1, <1>2, <1>3, <1>4 DEF LogTypes
<1>7. LogLength'
  <2>1. Len(current') <= MaxLogSize + 1 + unrotated'
    BY <1>2, <1>4
  <2> QED BY <1>2, <2>1 DEF LogLength
<1>8. LinesKnown'
  <2>1. emptied' \subseteq 1 .. accepted' /\ Range(current') \subseteq 1 .. accepted'
    BY <1>1, <1>2 DEF LinesKnown, Range
  <2> QED BY <1>2, <1>3, <2>1 DEF LinesKnown
<1> QED BY <1>3, <1>5, <1>6, <1>7, <1>8 DEF LogInv

LEMMA StepWriteRenameFails == LogInv /\ WriteRenameFails => LogInv'
<1> SUFFICES ASSUME LogInv, WriteRenameFails PROVE LogInv'
  OBVIOUS
<1>1. LogFlags /\ LogTypes /\ LogLength /\ BackupsKnown /\ LinesKnown
  BY DEF LogInv
<1>2. PICK c : c = Opened(openmode)
  OBVIOUS
<1>3. /\ accepted < MaxLines /\ Puts(c) /\ emptied' = Emptied(openmode) /\ unrotated' = unrotated + 1
      /\ UNCHANGED <<second, tracefp, openmode, backup, backups, rotations>>
  BY <1>2 DEF WriteRenameFails
<1>4. /\ c \in Seq(Nat) /\ Len(c) <= Len(current)
      /\ Emptied(openmode) \in SUBSET (1 .. accepted) /\ Range(c) \subseteq 1 .. accepted
      /\ IsInjective(rotations) => Complete(c, backups, accepted, Emptied(openmode))
  BY <1>2, OpenedFacts
<1>5. /\ accepted \in Nat /\ Len(current) \in Nat /\ Len(current) <= accepted /\ Len(c) \in Nat
      /\ unrotated \in Nat /\ MaxLogSize \in Nat /\ backups \in [Seconds -> Seq(Nat)]
  BY <1>1, <1>4, LogAssumption DEF LogTypes
<1>6. Len(c) <= accepted
  BY <1>4, <1>5
<1>7. /\ accepted' \in 0 .. MaxLines /\ tell' \in 0 .. MaxLines
      /\ current' \in Seq(Nat) /\ Len(current') = Len(c) + 1 /\ tell' = Len(current')
      /\ Len(current') <= accepted' /\ Range(current') = Range(c) \cup {accepted + 1}
  BY <1>1, <1>3, <1>4, <1>6, PutTypes
<1>8. LogFlags'
  BY <1>1, <1>3 DEF LogFlags
<1>9. LogTypes'
  BY <1>1, <1>3, <1>5, <1>7 DEF LogTypes
<1>10. LogLength'
  <2>1. Len(current) <= MaxLogSize + 1 + unrotated
    BY <1>1 DEF LogLength
  <2>2. Len(current') <= MaxLogSize + 1 + unrotated'
    BY <1>3, <1>4, <1>5, <1>7, <2>1
  <2> QED BY <1>7, <2>2 DEF LogLength
<1>11. BackupsKnown'
  BY <1>1, <1>3 DEF BackupsKnown
<1>12. LinesKnown'
  <2>1. accepted' = accepted + 1 /\ current' = Append(c, accepted + 1)
    BY <1>3 DEF Puts
  <2>2. emptied' \subseteq 1 .. accepted' /\ Range(current') \subseteq 1 .. accepted'
    BY <1>3, <1>4, <1>5, <1>7, <2>1
  <2>3. ASSUME IsInjective(rotations)
        PROVE  Complete(Append(c, accepted + 1), backups, accepted + 1, Emptied(openmode))
    BY <1>4, <1>5, <2>3, CompletePut
  <2> QED BY <1>3, <2>1, <2>2, <2>3 DEF LinesKnown
<1> QED BY <1>8, <1>9, <1>10, <1>11, <1>12 DEF LogInv

LEMMA LogStep == LogInv /\ [LogNext]_lvars => LogInv'
<1> SUFFICES ASSUME LogInv, [LogNext]_lvars PROVE LogInv'
  OBVIOUS
<1>1. CASE Tick
  BY <1>1, StepTick
<1>2. CASE CloseLog
  BY <1>2, StepCloseLog
<1>3. CASE WriteLog \/ WriteEx
  <2>1. PICK n : n = unrotated
    OBVIOUS
  <2>2. /\ accepted < MaxLines /\ tracefp /\ Puts(current)
        /\ UNCHANGED <<second, tracefp, openmode, backup, backups, rotations, emptied>>
    BY <1>3 DEF WriteLog, WriteEx
  <2>3. \/ unrotated' = unrotated + 1
        \/ unrotated' = unrotated /\ tell <= MaxLogSize
    BY <1>3 DEF WriteLog, WriteEx
  <2> QED BY <2>2, <2>3, StepWrite
<1>4. CASE WriteRotates
  BY <1>4, StepWriteRotates
<1>5. CASE WriteRenameFails
  BY <1>5, StepWriteRenameFails
<1>6. CASE WriteReopenFails
  BY <1>6, StepWriteReopenFails
<1>7. CASE \E mode \in Modes, rotates \in BOOLEAN : OpenLog(mode, rotates)
  BY <1>7, StepOpenLog
<1>8. CASE UNCHANGED lvars
  <2>1. LogFlags' /\ LogTypes'
    BY <1>8 DEF lvars, LogInv, LogFlags, LogTypes
  <2>2. LogLength' /\ BackupsKnown' /\ LinesKnown'
    BY <1>8 DEF lvars, LogInv, LogLength, BackupsKnown, LinesKnown
  <2> QED BY <2>1, <2>2 DEF LogInv
<1> QED BY <1>1, <1>2, <1>3, <1>4, <1>5, <1>6, <1>7, <1>8 DEF LogNext

LEMMA KeptLines == LogInv => LinesAreKept
<1> SUFFICES ASSUME LogInv PROVE LinesAreKept
  OBVIOUS
<1>1. LogFlags /\ LogTypes /\ LogLength /\ LinesKnown
  BY DEF LogInv
<1>2. LogTypeOK
  BY <1>1 DEF LogFlags, LogTypes, LogTypeOK
<1>3. LogIsBounded
  BY <1>1 DEF LogLength, LogIsBounded
<1>4. NoLineLost
  <2>1. KeptOf(current, backups) = Kept
    BY DEF KeptOf, Kept, LogPlace
  <2> QED BY <1>1, <2>1 DEF LinesKnown, Complete, InOrder, LinesOf, NoLineLost
<1> QED BY <1>2, <1>3, <1>4 DEF LinesAreKept

\* Backups and log hold, once and in order, every line that Write and WriteEx
\* reported as written, whatever fails and whenever the log is closed and opened
\* again, and the log is moved away before it is much longer than its limit.
THEOREM LinesSurvive == LogSpec => []LinesAreKept
<1>1. LogInit => LogInv
  BY LogStart
<1>2. LogInv /\ [LogNext]_lvars => LogInv'
  BY LogStep
<1>3. LogInv => LinesAreKept
  BY KeptLines
<1> QED BY <1>1, <1>2, <1>3, PTL DEF LogSpec

-----------------------------------------------------------------------------
(* MKDIR: several programs make one path *)

\* The levels that exist begin at the first one, and those that a maker has
\* passed are among them.
LevelsInOrder ==
  /\ \E n \in 0 .. Depth : levels = 1 .. n
  /\ \A p \in Makers : doing[p] \in {"access", "mkdir"} => 1 .. level[p] - 1 \subseteq levels
  /\ \A p \in Makers : doing[p] = "true" => levels = 1 .. Depth

\* One maker is ahead of all others: what it has still to make nobody has made,
\* so mkdir fails for it only if it is refused.
IsAhead(p) == \/ doing[p] = "true"
              \/ doing[p] \in {"access", "mkdir"} /\ level[p] \notin levels

OneIsAhead == refusals = 0 => \E p \in Makers : IsAhead(p)

MakeInv == MakeTypeOK /\ LevelsInOrder /\ OneIsAhead

LEMMA MakeStart == MakeInit => MakeInv
<1> SUFFICES ASSUME MakeInit PROVE MakeInv
  OBVIOUS
<1> USE MakersAssumption DEF MakeInit
<1>1. MakeTypeOK
  BY DEF MakeTypeOK
<1>2. levels = 1 .. 0 /\ \A p \in Makers : 1 .. level[p] - 1 = {}
  OBVIOUS
<1>3. LevelsInOrder
  BY <1>2 DEF LevelsInOrder
<1>4. OneIsAhead
  BY DEF OneIsAhead, IsAhead
<1> QED BY <1>1, <1>3, <1>4 DEF MakeInv

\* What a maker knows when it goes on to the next level.
LEMMA DeeperInOrder ==
  ASSUME MakeInv, NEW p \in Makers, doing[p] \in {"access", "mkdir"}, Deeper(p),
         NEW n \in 0 .. Depth, levels' = 1 .. n, levels \subseteq levels',
         level[p] \in levels', refusals' \in 0 .. MaxRefusals
  PROVE  MakeTypeOK' /\ LevelsInOrder'
<1> USE MakersAssumption
<1>1. MakeTypeOK /\ LevelsInOrder
  BY DEF MakeInv
<1>2. MakeTypeOK'
  BY <1>1 DEF MakeTypeOK, Deeper
<1>3. 1 .. level[p] \subseteq levels' /\ level[p] \in 1 .. Depth
  BY <1>1 DEF MakeTypeOK
<1>4. ASSUME NEW q \in Makers, doing'[q] \in {"access", "mkdir"}
      PROVE  1 .. level'[q] - 1 \subseteq levels'
  <2>1. CASE q = p
    BY <1>1, <1>3, <1>4, <2>1 DEF MakeTypeOK, Deeper
  <2>2. CASE q # p
    BY <1>1, <1>4, <2>2 DEF MakeTypeOK, Deeper, LevelsInOrder
  <2> QED BY <2>1, <2>2
<1>5. ASSUME NEW q \in Makers, doing'[q] = "true"
      PROVE  levels' = 1 .. Depth
  <2>1. CASE q = p
    BY <1>1, <1>3, <1>5, <2>1 DEF MakeTypeOK, Deeper
  <2>2. CASE q # p
    <3>1. levels = 1 .. Depth
      BY <1>1, <1>5, <2>2 DEF MakeTypeOK, Deeper, LevelsInOrder
    <3> QED BY <3>1
  <2> QED BY <2>1, <2>2
<1> QED BY <1>2, <1>4, <1>5 DEF LevelsInOrder

LEMMA StepAccess ==
  ASSUME MakeInv, NEW p \in Makers, Access(p)
  PROVE  MakeInv'
<1> USE MakersAssumption
<1>1. MakeTypeOK /\ LevelsInOrder /\ OneIsAhead
  BY DEF MakeInv
<1>2. doing[p] = "access" /\ levels' = levels /\ refusals' = refusals
  BY DEF Access
<1>3. CASE level[p] \in levels
  <2>1. Deeper(p)
    BY <1>3 DEF Access
  <2>2. PICK n \in 0 .. Depth : levels = 1 .. n
    BY <1>1 DEF LevelsInOrder
  <2>3. MakeTypeOK' /\ LevelsInOrder'
    <3>1. refusals' \in 0 .. MaxRefusals
      BY <1>1, <1>2 DEF MakeTypeOK
    <3> QED BY <1>2, <1>3, <2>1, <2>2, <3>1, DeeperInOrder
  <2>4. ASSUME NEW q \in Makers, IsAhead(q) PROVE IsAhead(q)'
    <3>1. q # p
      BY <1>2, <1>3, <2>4 DEF IsAhead
    <3> QED BY <1>1, <1>2, <2>1, <2>4, <3>1 DEF MakeTypeOK, Deeper, IsAhead
  <2> QED BY <1>1, <1>2, <2>3, <2>4 DEF OneIsAhead, MakeInv
<1>4. CASE level[p] \notin levels
  <2>1. doing' = [doing EXCEPT ![p] = "mkdir"] /\ level' = level
    BY <1>4 DEF Access
  <2>2. MakeTypeOK'
    BY <1>1, <1>2, <2>1 DEF MakeTypeOK
  <2>3. LevelsInOrder'
    BY <1>1, <1>2, <2>1 DEF MakeTypeOK, LevelsInOrder
  <2>4. ASSUME NEW q \in Makers, IsAhead(q) PROVE IsAhead(q)'
    BY <1>1, <1>2, <1>4, <2>1, <2>4 DEF MakeTypeOK, IsAhead
  <2> QED BY <1>1, <1>2, <2>2, <2>3, <2>4 DEF OneIsAhead, MakeInv
<1> QED BY <1>3, <1>4

\* A level that is made was the next one, and its maker is ahead from now on.
LEMMA StepMade ==
  ASSUME MakeInv, NEW p \in Makers, doing[p] = "mkdir", level[p] \notin levels,
         levels' = levels \cup {level[p]}, Deeper(p), refusals' = refusals
  PROVE  MakeInv'
<1> USE MakersAssumption
<1>1. MakeTypeOK /\ LevelsInOrder
  BY DEF MakeInv
<1>2. PICK n \in 0 .. Depth : levels = 1 .. n
  BY <1>1 DEF LevelsInOrder
<1>3. level[p] \in 1 .. Depth /\ 1 .. level[p] - 1 \subseteq 1 .. n /\ level[p] \notin 1 .. n
  BY <1>1, <1>2 DEF MakeTypeOK, LevelsInOrder
<1>4. level[p] = n + 1
  <2>1. CASE level[p] = 1
    BY <1>3, <2>1
  <2>2. CASE level[p] # 1
    <3>1. level[p] - 1 \in 1 .. level[p] - 1
      BY <1>3, <2>2
    <3> QED BY <1>3, <3>1
  <2> QED BY <2>1, <2>2
<1>5. n + 1 \in 0 .. Depth /\ levels' = 1 .. n + 1
  BY <1>2, <1>3, <1>4
<1>6. MakeTypeOK' /\ LevelsInOrder'
  <2>1. levels \subseteq levels' /\ level[p] \in levels' /\ refusals' \in 0 .. MaxRefusals
    BY <1>1 DEF MakeTypeOK
  <2> QED BY <1>5, <2>1, DeeperInOrder
<1>7. IsAhead(p)'
  BY <1>1, <1>3, <1>4, <1>5 DEF MakeTypeOK, Deeper, IsAhead
<1> QED BY <1>6, <1>7 DEF OneIsAhead, MakeInv

\* EEXIST meets only a maker that is not ahead; a refusal may meet any.
LEMMA StepNotMade ==
  ASSUME MakeInv, NEW p \in Makers, doing[p] = "mkdir",
         \/ level[p] \in levels /\ refusals' = refusals
         \/ refusals < MaxRefusals /\ refusals' = refusals + 1,
         doing' = [doing EXCEPT ![p] = "false"], UNCHANGED <<level, levels>>
  PROVE  MakeInv'
<1> USE MakersAssumption
<1>1. MakeTypeOK /\ LevelsInOrder /\ OneIsAhead
  BY DEF MakeInv
<1>2. MakeTypeOK'
  BY <1>1 DEF MakeTypeOK
<1>3. LevelsInOrder'
  BY <1>1 DEF MakeTypeOK, LevelsInOrder
<1>4. OneIsAhead'
  <2> SUFFICES ASSUME refusals' = 0 PROVE \E q \in Makers : IsAhead(q)'
    BY DEF OneIsAhead
  <2>1. level[p] \in levels /\ refusals = 0
    BY <1>1 DEF MakeTypeOK
  <2>2. PICK q \in Makers : IsAhead(q)
    BY <1>1, <2>1 DEF OneIsAhead
  <2>3. q # p
    BY <2>1, <2>2 DEF IsAhead
  <2> QED BY <1>1, <2>2, <2>3 DEF MakeTypeOK, IsAhead
<1> QED BY <1>2, <1>3, <1>4 DEF MakeInv

\* However the steps of several MKDIR interleave, one that returned true left the
\* whole path, and when all have returned one of them is true, unless the system
\* has refused a directory.
THEOREM SomeMakerSucceeds == MakeSpec => []OneMakerSucceeds
<1>1. MakeInv /\ [MakeNext]_mvars => MakeInv'
  <2> SUFFICES ASSUME MakeInv, [MakeNext]_mvars PROVE MakeInv'
    OBVIOUS
  <2>1. ASSUME NEW p \in Makers, Access(p) PROVE MakeInv'
    BY <2>1, StepAccess
  <2>2. ASSUME NEW p \in Makers, Mkdir(p) PROVE MakeInv'
    <3>1. CASE level[p] \notin levels /\ levels' = levels \cup {level[p]}
               /\ Deeper(p) /\ refusals' = refusals
      BY <2>2, <3>1, StepMade DEF Mkdir
    <3>2. CASE /\ \/ level[p] \in levels /\ refusals' = refusals
                  \/ refusals < MaxRefusals /\ refusals' = refusals + 1
               /\ doing' = [doing EXCEPT ![p] = "false"] /\ UNCHANGED <<level, levels>>
      BY <2>2, <3>2, StepNotMade DEF Mkdir
    <3> QED BY <2>2, <3>1, <3>2 DEF Mkdir
  <2>3. CASE UNCHANGED mvars
    BY <2>3 DEF mvars, MakeInv, MakeTypeOK, LevelsInOrder, OneIsAhead, IsAhead
  <2> QED BY <2>1, <2>2, <2>3 DEF MakeNext
<1>2. MakeInv => OneMakerSucceeds
  BY DEF MakeInv, LevelsInOrder, OneIsAhead, IsAhead, OneMakerSucceeds
<1> QED BY <1>1, <1>2, MakeStart, PTL DEF MakeSpec

-----------------------------------------------------------------------------
(* CDir: the list of files *)

\* While there is a list it is what was collected, returned up to the position;
\* when there is none any more, all of it was returned.
ListInv ==
  /\ list \in Seq(Int) /\ listed \in Seq(Int) /\ seen \in Seq(Int)
  /\ DirectoriesTypeOK
  /\ IF list = <<>> THEN seen = listed
     ELSE list = listed /\ seen = SubSeq(listed, 1, position)

LEMMA ListInvInit == ListInit => ListInv
BY DEF ListInit, ListInv, DirectoriesTypeOK

LEMMA NextFileKeepsListInv == ListInv /\ NextFile => ListInv'
<1> SUFFICES ASSUME ListInv, NextFile PROVE ListInv'
  OBVIOUS
<1>1. /\ list \in Seq(Int) /\ listed \in Seq(Int) /\ seen \in Seq(Int)
      /\ position \in 0 .. Len(list) /\ listed' = listed
  BY DEF ListInv, DirectoriesTypeOK, NextFile
<1>2. CASE position >= Len(list)
  <2>1. list' = <<>> /\ position' = 0 /\ seen' = seen
    BY <1>2 DEF NextFile
  <2>2. seen = listed
    <3>1. CASE list = <<>>
      BY <3>1 DEF ListInv
    <3>2. CASE list # <<>>
      <4>1. list = listed /\ seen = SubSeq(listed, 1, position)
        BY <3>2 DEF ListInv
      <4>2. position = Len(listed)
        BY <1>1, <1>2, <4>1
      <4> QED BY <1>1, <4>1, <4>2
    <3> QED BY <3>1, <3>2
  <2> QED BY <1>1, <2>1, <2>2 DEF ListInv, DirectoriesTypeOK
<1>3. CASE position < Len(list)
  <2>1. list' = list /\ position' = position + 1 /\ seen' = Append(seen, list[position + 1])
    BY <1>1, <1>3 DEF NextFile
  <2>2. list # <<>>
    BY <1>1, <1>3
  <2>3. list = listed /\ seen = SubSeq(listed, 1, position)
    BY <2>2 DEF ListInv
  <2>4. position + 1 \in 1 .. Len(listed)
    BY <1>1, <1>3, <2>3
  <2>5. seen' = SubSeq(listed, 1, position + 1)
    BY <1>1, <2>1, <2>3, <2>4
  <2>6. seen' \in Seq(Int)
    BY <1>1, <2>4, <2>5
  <2> QED BY <1>1, <2>1, <2>2, <2>3, <2>4, <2>5, <2>6 DEF ListInv, DirectoriesTypeOK
<1> QED BY <1>1, <1>2, <1>3

LEMMA FillsKeepsListInv == ASSUME NEW found \in Seq(Int), Fills(found) PROVE ListInv'
<1>1. list' = found /\ position' = 0 /\ listed' = found /\ seen' = <<>>
  BY DEF Fills
<1>2. SubSeq(found, 1, 0) = <<>>
  OBVIOUS
<1> QED BY <1>1, <1>2 DEF ListInv, DirectoriesTypeOK

LEMMA ListInvGives == ListInv => ReadsWholeList
<1> SUFFICES ASSUME ListInv PROVE ReadsWholeList
  OBVIOUS
<1>1. CASE list = <<>>
  <2>1. seen = listed /\ seen \in Seq(Int)
    BY <1>1 DEF ListInv
  <2> QED BY <1>1, <2>1 DEF ReadsWholeList, IsPrefix
<1>2. CASE list # <<>>
  <2>1. /\ listed \in Seq(Int) /\ seen = SubSeq(listed, 1, position)
        /\ position \in 0 .. Len(listed)
    BY <1>2 DEF ListInv, DirectoriesTypeOK
  <2>2. Len(seen) = position /\ SubSeq(seen, 1, position) = seen
    BY <2>1
  <2> QED BY <1>2, <2>1, <2>2 DEF ReadsWholeList, IsPrefix
<1> QED BY <1>1, <1>2

\* ReadDir returns what OpenDir collected, once, in its order and to the end,
\* for lists of any length and an OpenDir at any time.
THEOREM ListIsReadOnce == ListSpec => [](DirectoriesTypeOK /\ ReadsWholeList)
<1>1. ListInv /\ [ListNext]_listVars => ListInv'
  <2> SUFFICES ASSUME ListInv, [ListNext]_listVars PROVE ListInv'
    OBVIOUS
  <2>1. CASE NextFile
    BY <2>1, NextFileKeepsListInv
  <2>2. CASE \E found \in Seq(Int) : Fills(found)
    BY <2>2, FillsKeepsListInv
  <2>3. CASE UNCHANGED listVars
    BY <2>3 DEF ListInv, DirectoriesTypeOK, listVars
  <2> QED BY <2>1, <2>2, <2>3 DEF ListNext
<1>2. ListInv => DirectoriesTypeOK /\ ReadsWholeList
  BY ListInvGives DEF ListInv
<1> QED BY ListInvInit, <1>1, <1>2, PTL DEF ListSpec

-----------------------------------------------------------------------------
(* Texts in buffers *)

\* A text is over characters that are no NUL; a buffer may hold any of them.
Texts(Char) == {s \in Seq(Char) : \A i \in 1 .. Len(s) : s[i] # NUL}

\* strlen: the first NUL is where the text ends.
LEMMA FirstNulEndsText ==
  ASSUME NEW Char, NEW m \in Seq(Char), NEW k \in 0 .. Len(m) - 1,
         m[k + 1] = NUL, \A i \in 1 .. k : m[i] # NUL
  PROVE  TextLen(m) = k /\ TextOf(m) = SubSeq(m, 1, k)
<1> DEFINE IsFirst(i) == m[i] = NUL /\ \A j \in 1 .. i - 1 : m[j] # NUL
           c == CHOOSE i \in 1 .. Len(m) : IsFirst(i)
<1>1. k + 1 \in 1 .. Len(m) /\ IsFirst(k + 1)
  OBVIOUS
<1>2. c \in 1 .. Len(m) /\ IsFirst(c)
  BY <1>1
<1>3. c = k + 1
  <2> HIDE DEF c
  <2> QED BY <1>1, <1>2
<1>4. TextLen(m) = c - 1
  BY <1>1 DEF TextLen, Contains
<1> HIDE DEF c
<1> QED BY <1>3, <1>4 DEF TextOf

LEMMA CutIsText ==
  ASSUME NEW Char, NEW s \in Seq(Char), NEW n \in Nat
  PROVE  /\ Cut(s, n) \in Seq(Char)
         /\ Len(Cut(s, n)) = Least(n, Len(s))
         /\ \A i \in 1 .. Least(n, Len(s)) : Cut(s, n)[i] = s[i]
BY DEF Cut, Least

LEMMA CutOfCut ==
  ASSUME NEW Char, NEW s \in Seq(Char), NEW a \in Nat, NEW b \in Nat
  PROVE  Cut(Cut(s, a), b) = Cut(s, Least(a, b))
<1> DEFINE t == Cut(s, a)
           u == Cut(t, b)
           v == Cut(s, Least(a, b))
<1>1. Least(a, b) \in Nat
  BY DEF Least
<1>2. /\ t \in Seq(Char) /\ Len(t) = Least(a, Len(s))
      /\ \A i \in 1 .. Len(t) : t[i] = s[i]
  BY CutIsText
<1>3. /\ v \in Seq(Char) /\ Len(v) = Least(Least(a, b), Len(s))
      /\ \A i \in 1 .. Len(v) : v[i] = s[i]
  BY <1>1, CutIsText
<1> HIDE DEF t, v
<1>4. /\ u \in Seq(Char) /\ Len(u) = Least(b, Len(t))
      /\ \A i \in 1 .. Len(u) : u[i] = t[i]
  BY <1>2, CutIsText
<1> HIDE DEF u
<1>5. Len(u) = Len(v) /\ \A i \in 1 .. Len(v) : u[i] = v[i]
  BY <1>2, <1>3, <1>4 DEF Least
<1>6. u = v
  BY <1>3, <1>4, <1>5, SeqEqual
<1> QED BY <1>6 DEF u, v, t

\* A copy into cleared cells of which at least one is left.
LEMMA CopyIntoCells ==
  ASSUME NEW Char, NUL \in Char, NEW size \in Nat, NEW n \in Nat, n <= size,
         NEW src \in Texts(Char), Least(n, Len(src)) < size
  PROVE  LET m == Strncpy(Cells(size), 1, src, n)
         IN /\ m \in Seq(Char) /\ Len(m) = size
            /\ TextLen(m) = Least(n, Len(src)) /\ TextOf(m) = Cut(src, n)
            /\ \A i \in 1 .. TextLen(m) : m[i] = src[i]
<1> DEFINE m == Strncpy(Cells(size), 1, src, n)
           k == Least(n, Len(src))
<1>0. src \in Seq(Char) /\ \A i \in 1 .. Len(src) : src[i] # NUL
  BY DEF Texts
<1>1. m = [c \in 1 .. size |-> IF c < 1 \/ c >= 1 + n THEN Cells(size)[c]
                               ELSE IF c - 1 + 1 <= Len(src) THEN src[c - 1 + 1] ELSE NUL]
  BY DEF Strncpy, Cells
<1>2. m \in Seq(Char) /\ Len(m) = size
  <2>1. \A c \in 1 .. size : Cells(size)[c] \in Char
    BY DEF Cells
  <2>2. \A c \in 1 .. size : m[c] \in Char
    BY <1>0, <1>1, <2>1
  <2>3. m \in [1 .. size -> Char]
    BY <1>1, <2>2
  <2> QED BY <2>3
<1>3. k \in 0 .. size - 1 /\ k <= n /\ k <= Len(src)
  BY <1>0 DEF Least
<1>4. \A i \in 1 .. k : m[i] = src[i]
  BY <1>0, <1>1, <1>3
<1>5. m[k + 1] = NUL
  BY <1>0, <1>1, <1>3 DEF Cells, Least
<1>6. TextLen(m) = k /\ TextOf(m) = SubSeq(m, 1, k)
  <2> HIDE DEF m
  <2>1. \A i \in 1 .. k : m[i] # NUL
    BY <1>0, <1>3, <1>4
  <2> QED BY <1>2, <1>3, <1>5, <2>1, FirstNulEndsText
<1>7. SubSeq(m, 1, k) = Cut(src, n)
  <2> HIDE DEF m
  <2>1. SubSeq(m, 1, k) \in Seq(Char) /\ Len(SubSeq(m, 1, k)) = k
    BY <1>2, <1>3
  <2>2. Cut(src, n) \in Seq(Char) /\ Len(Cut(src, n)) = k
    BY <1>0, CutIsText
  <2>3. \A i \in 1 .. k : SubSeq(m, 1, k)[i] = m[i]
    BY <1>2, <1>3
  <2>4. \A i \in 1 .. k : Cut(src, n)[i] = src[i]
    BY <1>0, CutIsText
  <2> HIDE DEF k
  <2>5. \A i \in 1 .. k : SubSeq(m, 1, k)[i] = Cut(src, n)[i]
    BY <2>3, <2>4, <1>4
  <2> QED BY <2>1, <2>2, <2>5, SeqEqual
<1> QED BY <1>2, <1>4, <1>6, <1>7

LEMMA CutOfLonger ==
  ASSUME NEW Char, NEW s \in Seq(Char), NEW t \in Seq(Char), NEW l \in Nat
  PROVE  Cut(s \o t, l) = IF Len(s) >= l THEN Cut(s, l) ELSE s \o Cut(t, l - Len(s))
<1>1. /\ s \o t \in Seq(Char) /\ Len(s \o t) = Len(s) + Len(t)
      /\ \A i \in 1 .. Len(s) : (s \o t)[i] = s[i]
  OBVIOUS
<1>2. CASE Len(s) >= l
  <2> DEFINE u == Cut(s \o t, l)
             v == Cut(s, l)
  <2>0. Least(l, Len(s \o t)) = l /\ Least(l, Len(s)) = l
    BY <1>1, <1>2 DEF Least
  <2>1. u \in Seq(Char) /\ Len(u) = l /\ \A i \in 1 .. l : u[i] = (s \o t)[i]
    BY <1>1, <2>0, CutIsText
  <2>2. v \in Seq(Char) /\ Len(v) = l /\ \A i \in 1 .. l : v[i] = s[i]
    BY <2>0, CutIsText
  <2> HIDE DEF u, v
  <2>3. \A i \in 1 .. l : u[i] = v[i]
    BY <1>1, <1>2, <2>1, <2>2
  <2>4. u = v
    BY <2>1, <2>2, <2>3, SeqEqual
  <2> QED BY <1>2, <2>4 DEF u, v
<1>3. CASE Len(s) < l
  <2> DEFINE r == l - Len(s)
             k == Least(r, Len(t))
  <2>1. r \in Nat /\ k \in Nat /\ k <= Len(t) /\ Least(l, Len(s \o t)) = Len(s) + k
    BY <1>1, <1>3 DEF Least
  <2>2. /\ Cut(t, r) \in Seq(Char) /\ Len(Cut(t, r)) = k
        /\ \A i \in 1 .. k : Cut(t, r)[i] = t[i]
    BY <2>1, CutIsText
  <2>3. /\ Cut(s \o t, l) \in Seq(Char) /\ Len(Cut(s \o t, l)) = Len(s) + k
        /\ \A i \in 1 .. Len(s) + k : Cut(s \o t, l)[i] = (s \o t)[i]
    BY <1>1, <2>1, CutIsText
  <2>4. s \o Cut(t, r) \in Seq(Char) /\ Len(s \o Cut(t, r)) = Len(s) + k
    BY <2>2
  <2> HIDE DEF r, k
  <2>5. \A i \in 1 .. Len(s) + k : (s \o t)[i] = (s \o Cut(t, r))[i]
    BY <2>1, <2>2
  <2>6. Cut(s \o t, l) = s \o Cut(t, r)
    BY <2>3, <2>4, <2>5, SeqEqual
  <2> QED BY <1>3, <2>6 DEF r
<1> QED BY <1>2, <1>3

\* strncat: what fits is written behind the text, and ended.
LEMMA AddToText ==
  ASSUME NEW Char, NUL \in Char, NEW m \in Seq(Char), NEW more \in Texts(Char), NEW n \in Nat,
         TextLen(m) \in 0 .. Len(m) - 1, \A i \in 1 .. TextLen(m) : m[i] # NUL
  PROVE  /\ Len(STRNCAT(m, more, n)) = Len(m)
         /\ TextOf(STRNCAT(m, more, n))
              = TextOf(m) \o Cut(more, Least(n, Len(m) - 1 - TextLen(m)))
<1> DEFINE size == Len(m)
           k == TextLen(m)
           r == Least(n, size - 1 - k)
           add == Cut(more, r)
           l == Len(add)
           w == STRNCAT(m, more, n)
<1>a. size \in Nat \ {0} /\ k \in 0 .. size - 1 /\ DOMAIN m = 1 .. size
  OBVIOUS
<1>b. TextOf(m) = SubSeq(m, 1, k)
  BY DEF TextOf
<1>0. more \in Seq(Char) /\ \A i \in 1 .. Len(more) : more[i] # NUL
  BY DEF Texts
<1>1. r \in Nat /\ r <= size - 1 - k
  <2> HIDE DEF size, k
  <2> QED BY <1>a DEF Least
<1>2. /\ add \in Seq(Char) /\ l \in Nat /\ l <= r
      /\ \A i \in 1 .. l : add[i] = more[i] /\ add[i] # NUL
  <2>1. /\ add \in Seq(Char) /\ l = Least(r, Len(more))
        /\ \A i \in 1 .. Least(r, Len(more)) : add[i] = more[i]
    <3> HIDE DEF r
    <3> QED BY <1>0, <1>1, CutIsText
  <2>2. Len(more) \in Nat
    BY <1>0
  <2> HIDE DEF add, r
  <2> QED BY <1>0, <1>1, <2>1, <2>2 DEF Least
<1>3. w = [c \in 1 .. size |-> IF c < k + 1 \/ c >= k + 1 + (l + 1) THEN m[c]
                               ELSE IF c - (k + 1) + 1 <= l THEN add[c - (k + 1) + 1] ELSE NUL]
  <2>1. w = Strncpy(m, k + 1, add, l + 1)
    BY DEF STRNCAT
  <2> HIDE DEF w, l, add, size, k
  <2> QED BY <1>a, <2>1 DEF Strncpy, l
<1>c. m \in Seq(Char) /\ Len(m) = size /\ \A i \in 1 .. k : m[i] # NUL
  OBVIOUS
<1> HIDE DEF w, l, add, r, size, k
<1>4. w \in Seq(Char) /\ Len(w) = size
  <2>1. \A c \in 1 .. size : m[c] \in Char
    BY <1>c
  <2>2. \A i \in 1 .. l : add[i] \in Char
    BY <1>2 DEF l
  <2>3. \A c \in 1 .. size : c >= k + 1 /\ c - (k + 1) + 1 <= l => c - (k + 1) + 1 \in 1 .. l
    BY <1>a, <1>2
  <2>4. \A c \in 1 .. size : w[c] \in Char
    <3> SUFFICES ASSUME NEW c \in 1 .. size PROVE w[c] \in Char
      OBVIOUS
    <3>1. CASE c < k + 1 \/ c >= k + 1 + (l + 1)
      BY <1>3, <2>1, <3>1
    <3>2. CASE ~(c < k + 1 \/ c >= k + 1 + (l + 1))
      BY <1>a, <1>2, <1>3, <2>2, <2>3, <3>2
    <3> QED BY <3>1, <3>2
  <2>5. w \in [1 .. size -> Char]
    BY <1>3, <2>4
  <2> QED BY <1>a, <2>5
<1>5. k + l \in 0 .. size - 1 /\ w[k + l + 1] = NUL
  <2> DEFINE j == k + l + 1
  <2>1. /\ k + l \in 0 .. size - 1 /\ j \in 1 .. size
        /\ ~(j < k + 1) /\ ~(j >= k + 1 + (l + 1)) /\ ~(j - (k + 1) + 1 <= l)
    BY <1>a, <1>1, <1>2
  <2> HIDE DEF j
  <2>2. w[j] = NUL
    BY <1>3, <2>1
  <2> QED BY <2>1, <2>2 DEF j
<1>6. \A i \in 1 .. k + l : w[i] = IF i <= k THEN m[i] ELSE add[i - k]
  <2> SUFFICES ASSUME NEW i \in 1 .. k + l PROVE w[i] = IF i <= k THEN m[i] ELSE add[i - k]
    OBVIOUS
  <2>1. i \in 1 .. size /\ i - (k + 1) + 1 = i - k /\ (i < k + 1 <=> i <= k)
    BY <1>a, <1>1, <1>2
  <2>2. ~(i >= k + 1 + (l + 1)) /\ (~(i <= k) => i - k <= l)
    BY <1>a, <1>1, <1>2
  <2> QED BY <1>3, <2>1, <2>2
<1>7. \A i \in 1 .. k + l : w[i] # NUL
  <2> SUFFICES ASSUME NEW i \in 1 .. k + l PROVE w[i] # NUL
    OBVIOUS
  <2>1. CASE i <= k
    <3>1. i \in 1 .. k
      BY <1>a, <1>2, <2>1
    <3> QED BY <1>c, <1>6, <2>1, <3>1
  <2>2. CASE ~(i <= k)
    <3>1. i - k \in 1 .. l
      BY <1>a, <1>2, <2>2
    <3> QED BY <1>2, <1>6, <2>2, <3>1
  <2> QED BY <2>1, <2>2
<1>8. TextOf(w) = SubSeq(w, 1, k + l)
  BY <1>4, <1>5, <1>7, FirstNulEndsText
<1>9. SubSeq(w, 1, k + l) = SubSeq(m, 1, k) \o add
  <2>1. /\ SubSeq(w, 1, k + l) \in Seq(Char) /\ Len(SubSeq(w, 1, k + l)) = k + l
        /\ \A i \in 1 .. k + l : SubSeq(w, 1, k + l)[i] = w[i]
    BY <1>a, <1>2, <1>4, <1>5
  <2>2. /\ SubSeq(m, 1, k) \in Seq(Char) /\ Len(SubSeq(m, 1, k)) = k
        /\ \A i \in 1 .. k : SubSeq(m, 1, k)[i] = m[i]
    BY <1>a, <1>c
  <2> DEFINE t == SubSeq(m, 1, k)
  <2> HIDE DEF t
  <2>3. /\ t \o add \in Seq(Char) /\ Len(t \o add) = k + l
        /\ \A i \in 1 .. k + l : (t \o add)[i] = IF i <= k THEN m[i] ELSE add[i - k]
    BY <1>a, <1>2, <2>2 DEF t, l
  <2>4. SubSeq(w, 1, k + l) = t \o add
    BY <1>6, <2>1, <2>3, SeqEqual
  <2> QED BY <2>4 DEF t
<1> QED BY <1>b, <1>4, <1>8, <1>9 DEF w, add, r, size, k

LEMMA CopiesOfText ==
  ASSUME NEW Char, NUL \in Char, NEW old \in Seq(Char), old # <<>>, NEW src \in Texts(Char), NEW n \in Nat
  PROVE  /\ Fits(STRCPY(old, src), Len(old), src)
         /\ STRCPY(old, src) \in Seq(Char)
         /\ TextLen(STRCPY(old, src)) = Least(Len(old) - 1, Len(src))
         /\ \A i \in 1 .. TextLen(STRCPY(old, src)) : STRCPY(old, src)[i] = src[i]
         /\ Fits(STRNCPY(old, src, n), Len(old), Cut(src, n))
         /\ n > 0 => Fits(SNPRINTF(old, n, src), Len(old), Cut(src, n - 1))
<1> DEFINE size == Len(old)
<1>0. size \in Nat \ {0} /\ src \in Seq(Char) /\ Len(src) \in Nat
  BY DEF Texts
<1> HIDE DEF size
<1>1. \A k \in Nat : Cut(src, k) \in Texts(Char)
  <2> SUFFICES ASSUME NEW k \in Nat PROVE Cut(src, k) \in Texts(Char)
    OBVIOUS
  <2>1. /\ Cut(src, k) \in Seq(Char) /\ Len(Cut(src, k)) = Least(k, Len(src))
        /\ \A i \in 1 .. Least(k, Len(src)) : Cut(src, k)[i] = src[i]
    BY <1>0, CutIsText
  <2>2. Least(k, Len(src)) <= Len(src) /\ Least(k, Len(src)) \in Nat
    BY <1>0 DEF Least
  <2> QED BY <2>1, <2>2 DEF Texts
<1>2. /\ Fits(STRCPY(old, src), size, src)
      /\ STRCPY(old, src) \in Seq(Char)
      /\ TextLen(STRCPY(old, src)) = Least(size - 1, Len(src))
      /\ \A i \in 1 .. TextLen(STRCPY(old, src)) : STRCPY(old, src)[i] = src[i]
  <2>1. CASE Len(src) > size - 1
    <3>1. STRCPY(old, src) = Strncpy(Cells(size), 1, src, size - 1)
      BY <2>1 DEF STRCPY, size
    <3>2. Least(size - 1, Len(src)) = size - 1 /\ size - 1 \in Nat /\ size - 1 <= size
      BY <1>0, <2>1 DEF Least
    <3> QED BY <1>0, <3>1, <3>2, CopyIntoCells DEF Fits
  <2>2. CASE Len(src) <= size - 1
    <3>1. STRCPY(old, src) = Strncpy(Cells(size), 1, src, Len(src) + 1)
      BY <1>0, <2>2 DEF STRCPY, size
    <3>2. /\ Least(size - 1, Len(src)) = Len(src) /\ Least(Len(src) + 1, Len(src)) = Len(src)
          /\ Len(src) + 1 \in Nat /\ Len(src) + 1 <= size
      BY <1>0, <2>2 DEF Least
    <3>3. Cut(src, Len(src) + 1) = Cut(src, size - 1)
      BY <3>2 DEF Cut
    <3> QED BY <1>0, <2>2, <3>1, <3>2, <3>3, CopyIntoCells DEF Fits
  <2> QED BY <1>0, <2>1, <2>2
<1>3. Fits(STRNCPY(old, src, n), size, Cut(src, n))
  <2> DEFINE k == Least(n, size - 1)
  <2>1. STRNCPY(old, src, n) = Strncpy(Cells(size), 1, src, k)
    BY DEF STRNCPY, size
  <2>2. k \in Nat /\ k <= size /\ Least(k, Len(src)) < size
    BY <1>0 DEF Least
  <2>3. Cut(Cut(src, n), size - 1) = Cut(src, k)
    BY <1>0, CutOfCut
  <2> HIDE DEF k
  <2> QED BY <1>0, <2>1, <2>2, <2>3, CopyIntoCells DEF Fits
<1>4. ASSUME n > 0 PROVE Fits(SNPRINTF(old, n, src), size, Cut(src, n - 1))
  <2> DEFINE k == Least(n, size)
             t == Cut(src, k - 1)
  <2>1. /\ k \in Nat \ {0} /\ k <= size /\ k - 1 \in Nat
        /\ Least(k - 1, k) = k - 1 /\ Least(n - 1, size - 1) = k - 1 /\ n - 1 \in Nat /\ size - 1 \in Nat
    BY <1>0, <1>4 DEF Least
  <2>2. SNPRINTF(old, n, src) = Strncpy(Cells(size), 1, t, k)
    BY <2>1 DEF SNPRINTF, size
  <2>3. t \in Texts(Char) /\ Len(t) = Least(k - 1, Len(src))
    BY <1>0, <1>1, <2>1, CutIsText
  <2>4. Cut(t, k) = Cut(src, k - 1) /\ Cut(Cut(src, n - 1), size - 1) = Cut(src, k - 1)
    BY <1>0, <2>1, CutOfCut
  <2> HIDE DEF k, t
  <2>5. Least(k, Len(t)) < size
    BY <1>0, <2>1, <2>3 DEF Least
  <2> QED BY <1>0, <2>1, <2>2, <2>3, <2>4, <2>5, CopyIntoCells DEF Fits
<1> QED BY <1>2, <1>3, <1>4 DEF size

LEMMA AddToCopy ==
  ASSUME NEW Char, NUL \in Char, NEW old \in Seq(Char), old # <<>>, NEW src \in Texts(Char), NEW more \in Texts(Char), NEW n \in Nat
  PROVE  Fits(STRNCAT(STRCPY(old, src), more, n), Len(old), src \o Cut(more, n))
<1> DEFINE size == Len(old)
           m == STRCPY(old, src)
           k == Least(size - 1, Len(src))
           add == Cut(more, n)
<1>0. /\ size \in Nat \ {0} /\ src \in Seq(Char) /\ more \in Seq(Char)
      /\ Len(src) \in Nat /\ \A i \in 1 .. Len(src) : src[i] # NUL
  BY DEF Texts
<1>1. /\ m \in Seq(Char) /\ Len(m) = size /\ TextLen(m) = k
      /\ \A i \in 1 .. k : m[i] = src[i]
      /\ SubSeq(m, 1, k) = Cut(src, size - 1)
  BY CopiesOfText DEF Fits, TextOf
<1> HIDE DEF size, m
<1>2. k \in 0 .. size - 1 /\ k <= Len(src)
  BY <1>0 DEF Least
<1>3. \A i \in 1 .. k : m[i] # NUL
  <2> HIDE DEF k
  <2> QED BY <1>0, <1>1, <1>2
<1>4. /\ Len(STRNCAT(m, more, n)) = size
      /\ TextOf(STRNCAT(m, more, n)) = Cut(src, size - 1) \o Cut(more, Least(n, size - 1 - k))
  <2> HIDE DEF k
  <2>1. TextLen(m) \in 0 .. Len(m) - 1 /\ \A i \in 1 .. TextLen(m) : m[i] # NUL
    BY <1>1, <1>2, <1>3
  <2>2. TextOf(m) = Cut(src, size - 1)
    BY <1>1 DEF TextOf
  <2>3. /\ Len(STRNCAT(m, more, n)) = Len(m)
        /\ TextOf(STRNCAT(m, more, n))
             = TextOf(m) \o Cut(more, Least(n, Len(m) - 1 - TextLen(m)))
    BY <1>1, <2>1, AddToText
  <2> QED BY <1>1, <2>2, <2>3
<1>5. add \in Seq(Char)
  BY <1>0, CutIsText
<1>6. Cut(src \o add, size - 1) = Cut(src, size - 1) \o Cut(more, Least(n, size - 1 - k))
  <2>1. CASE Len(src) >= size - 1
    <3>0. k = size - 1
      <4>1. size - 1 \in Int /\ Len(src) \in Int
        BY <1>0
      <4> QED BY <2>1, <4>1 DEF Least
    <3>1. k = size - 1 /\ Least(n, size - 1 - k) = 0
      <4> HIDE DEF k, size
      <4> QED BY <1>0, <3>0 DEF Least
    <3>2. Cut(more, 0) = <<>>
      BY <1>0 DEF Cut, Least
    <3>3. Cut(src, size - 1) \o <<>> = Cut(src, size - 1)
      BY <1>0, CutIsText, ConcatEmptySeq
    <3>4. Cut(src \o add, size - 1) = Cut(src, size - 1)
      <4> HIDE DEF add
      <4> QED BY <1>0, <1>5, <2>1, CutOfLonger
    <3> HIDE DEF k, add
    <3> QED BY <3>1, <3>2, <3>3, <3>4
  <2>2. CASE Len(src) < size - 1
    <3>1. k = Len(src) /\ size - 1 \in Nat /\ size - 1 - Len(src) \in Nat
      BY <1>0, <2>2 DEF Least
    <3>2. Cut(src, size - 1) = src
      BY <1>0, <2>2 DEF Cut, Least
    <3>3. Cut(add, size - 1 - k) = Cut(more, Least(n, size - 1 - k))
      BY <1>0, <3>1, CutOfCut
    <3> HIDE DEF k, add
    <3>4. Cut(src \o add, size - 1) = src \o Cut(add, size - 1 - Len(src))
      BY <1>0, <1>5, <2>2, <3>1, CutOfLonger
    <3> QED BY <3>1, <3>2, <3>3, <3>4
  <2> QED BY <1>0, <2>1, <2>2
<1> QED BY <1>4, <1>6 DEF Fits, size, m

\* All that _public.cpp copies into a buffer of any size but 0, from texts of
\* any length: the buffer keeps its size, has an end, and holds as much as fits.
THEOREM CopiesFitAnyBuffer ==
  ASSUME NEW Char, NUL \in Char,
         NEW old \in Seq(Char) \ {<<>>}, NEW src \in Texts(Char), NEW more \in Texts(Char),
         NEW n \in Nat
  PROVE  CopiesAreCut(old, src, more, n)
<1> DEFINE size == Len(old)
<1>0. size \in Nat \ {0} /\ src \in Seq(Char) /\ more \in Seq(Char) /\ Len(more) \in Nat
  BY DEF Texts
<1>1. /\ Fits(STRCPY(old, src), size, src)
      /\ Fits(STRNCPY(old, src, n), size, Cut(src, n))
      /\ n > 0 => Fits(SNPRINTF(old, n, src), size, Cut(src, n - 1))
  BY CopiesOfText
<1>2. Fits(SPRINTF(old, src), size, src)
  <2>1. Fits(SNPRINTF(old, size, src), size, Cut(src, size - 1))
    BY <1>0, CopiesOfText
  <2>2. Cut(Cut(src, size - 1), size - 1) = Cut(src, size - 1)
    <3>1. size - 1 \in Nat /\ Least(size - 1, size - 1) = size - 1
      BY <1>0 DEF Least
    <3> HIDE DEF size
    <3> QED BY <1>0, <3>1, CutOfCut
  <2> QED BY <2>1, <2>2 DEF SPRINTF, Fits
<1>3. Fits(STRNCAT(STRCPY(old, src), more, n), size, src \o Cut(more, n))
  BY AddToCopy
<1>4. Fits(STRCAT(STRCPY(old, src), more), size, src \o more)
  <2>1. Fits(STRNCAT(STRCPY(old, src), more, Len(more)), size, src \o Cut(more, Len(more)))
    BY <1>0, AddToCopy
  <2>2. Cut(more, Len(more)) = more
    BY <1>0 DEF Cut, Least
  <2> QED BY <2>1, <2>2 DEF STRCAT
<1> QED BY <1>1, <1>2, <1>3, <1>4 DEF CopiesAreCut

-----------------------------------------------------------------------------
(* Fields of XML, and trimming *)

\* find returns the first occurrence.
LEMMA FindsFirst ==
  ASSUME NEW s, NEW t, NEW i \in Int, NEW j \in i .. Len(s) + 1, Len(s) \in Nat,
         Occurs(s, t, j), \A k \in i .. j - 1 : ~Occurs(s, t, k)
  PROVE  Find(s, t, i) = j
<1> DEFINE IsFirst(k) == Occurs(s, t, k) /\ \A h \in i .. k - 1 : ~Occurs(s, t, h)
           c == CHOOSE k \in i .. Len(s) + 1 : IsFirst(k)
<1>1. IsFirst(j)
  OBVIOUS
<1>2. c \in i .. Len(s) + 1 /\ IsFirst(c)
  BY <1>1
<1>3. Find(s, t, i) = c
  BY DEF Find
<1> HIDE DEF c
<1>4. c = j
  BY <1>1, <1>2
<1> QED BY <1>3, <1>4

\* A text occurs where all its characters do.
LEMMA OccursByCharacters ==
  ASSUME NEW Char, NEW s \in Seq(Char), NEW t \in Seq(Char), NEW i \in Nat \ {0}
  PROVE  Occurs(s, t, i) <=> /\ i + Len(t) - 1 <= Len(s)
                             /\ \A k \in 1 .. Len(t) : s[i + k - 1] = t[k]
<1>1. Len(s) \in Nat /\ Len(t) \in Nat
  OBVIOUS
<1>2. CASE i + Len(t) - 1 <= Len(s)
  <2> DEFINE p == SubSeq(s, i, i + Len(t) - 1)
  <2>1. p \in Seq(Char) /\ Len(p) = Len(t) /\ \A k \in 1 .. Len(t) : p[k] = s[i + k - 1]
    <3>0. i \in Int /\ i + Len(t) - 1 \in Int
      BY <1>1
    <3>1. \A k \in i .. i + Len(t) - 1 : s[k] \in Char
      BY <1>1, <1>2
    <3>2. /\ p \in Seq(Char)
          /\ Len(p) = IF i <= i + Len(t) - 1 THEN (i + Len(t) - 1) - i + 1 ELSE 0
          /\ \A k \in 1 .. (i + Len(t) - 1) - i + 1 : p[k] = s[i + k - 1]
      BY <3>0, <3>1, SubSeqProperties
    <3> HIDE DEF p
    <3> QED BY <1>1, <3>2
  <2> HIDE DEF p
  <2>2. p = t <=> \A k \in 1 .. Len(t) : s[i + k - 1] = t[k]
    <3>1. ASSUME \A k \in 1 .. Len(t) : s[i + k - 1] = t[k] PROVE p = t
      <4>1. \A k \in 1 .. Len(p) : p[k] = t[k]
        BY <2>1, <3>1
      <4> QED BY <2>1, <4>1, SeqEqual
    <3> QED BY <2>1, <3>1
  <2> QED BY <1>2, <2>2 DEF Occurs, p
<1>3. CASE ~(i + Len(t) - 1 <= Len(s))
  BY <1>3 DEF Occurs
<1> QED BY <1>2, <1>3

XMLChars(Char) == {"<", ">", "/"} \subseteq Char

LEMMA TagCharacters ==
  ASSUME NEW Char, XMLChars(Char), NEW name \in Seq(Char)
  PROVE  /\ Tag(name) \in Seq(Char) /\ Len(Tag(name)) = Len(name) + 2
         /\ Tag(name)[1] = "<" /\ Tag(name)[Len(name) + 2] = ">"
         /\ \A i \in 1 .. Len(name) : Tag(name)[i + 1] = name[i]
         /\ EndTag(name) \in Seq(Char) /\ Len(EndTag(name)) = Len(name) + 3
         /\ EndTag(name)[1] = "<" /\ EndTag(name)[2] = "/" /\ EndTag(name)[Len(name) + 3] = ">"
         /\ \A i \in 1 .. Len(name) : EndTag(name)[i + 2] = name[i]
<1>0. "<" \in Char /\ ">" \in Char /\ "/" \in Char
  BY DEF XMLChars
<1>1. /\ <<"<">> \o name \in Seq(Char) /\ Len(<<"<">> \o name) = Len(name) + 1
      /\ (<<"<">> \o name)[1] = "<"
      /\ \A i \in 1 .. Len(name) : (<<"<">> \o name)[i + 1] = name[i]
  BY <1>0
<1>2. /\ <<"<", "/">> \o name \in Seq(Char) /\ Len(<<"<", "/">> \o name) = Len(name) + 2
      /\ (<<"<", "/">> \o name)[1] = "<" /\ (<<"<", "/">> \o name)[2] = "/"
      /\ \A i \in 1 .. Len(name) : (<<"<", "/">> \o name)[i + 2] = name[i]
  BY <1>0
<1> DEFINE t == <<"<">> \o name
           e == <<"<", "/">> \o name
<1>3. Tag(name) = t \o <<">">> /\ EndTag(name) = e \o <<">">>
  BY DEF Tag, EndTag
<1>4. Len(name) \in Nat
  OBVIOUS
<1> HIDE DEF t, e
<1>5. /\ t \o <<">">> \in Seq(Char) /\ Len(t \o <<">">>) = Len(name) + 2
      /\ (t \o <<">">>)[1] = "<" /\ (t \o <<">">>)[Len(name) + 2] = ">"
      /\ \A i \in 1 .. Len(name) : (t \o <<">">>)[i + 1] = name[i]
  BY <1>0, <1>1, <1>4 DEF t
<1>6. /\ e \o <<">">> \in Seq(Char) /\ Len(e \o <<">">>) = Len(name) + 3
      /\ (e \o <<">">>)[1] = "<" /\ (e \o <<">">>)[2] = "/" /\ (e \o <<">">>)[Len(name) + 3] = ">"
      /\ \A i \in 1 .. Len(name) : (e \o <<">">>)[i + 2] = name[i]
  BY <1>0, <1>2, <1>4 DEF e
<1> QED BY <1>3, <1>5, <1>6

\* A field as it is written, and what stands where in a document with it.
Field(name, value) == Tag(name) \o value \o EndTag(name)

LEMMA ConcatCharacters ==
  ASSUME NEW Char, NEW s \in Seq(Char), NEW t \in Seq(Char)
  PROVE  /\ s \o t \in Seq(Char) /\ Len(s \o t) = Len(s) + Len(t)
         /\ \A i \in 1 .. Len(s) : (s \o t)[i] = s[i]
         /\ \A i \in 1 .. Len(t) : (s \o t)[Len(s) + i] = t[i]
<1>1. s \o t \in Seq(Char) /\ Len(s \o t) = Len(s) + Len(t)
  OBVIOUS
<1>2. \A i \in 1 .. Len(s) : (s \o t)[i] = s[i]
  OBVIOUS
<1>3. \A i \in 1 .. Len(t) : (s \o t)[Len(s) + i] = t[i]
  OBVIOUS
<1> QED BY <1>1, <1>2, <1>3

LEMMA ThreePieces ==
  ASSUME NEW Char, NEW s \in Seq(Char), NEW t \in Seq(Char), NEW u \in Seq(Char)
  PROVE  LET w == s \o t \o u
         IN /\ w \in Seq(Char) /\ Len(w) = Len(s) + Len(t) + Len(u)
            /\ \A i \in 1 .. Len(s) : w[i] = s[i]
            /\ \A i \in 1 .. Len(t) : w[Len(s) + i] = t[i]
            /\ \A i \in 1 .. Len(u) : w[Len(s) + Len(t) + i] = u[i]
<1> DEFINE x == s \o t
           w == x \o u
           a == Len(s)
           b == Len(t)
<1>1. /\ x \in Seq(Char) /\ Len(x) = a + b
      /\ \A i \in 1 .. a : x[i] = s[i]
      /\ \A i \in 1 .. b : x[a + i] = t[i]
  BY ConcatCharacters
<1>2. a \in Nat /\ b \in Nat
  OBVIOUS
<1>3. w = s \o t \o u
  BY DEF w, x
<1> HIDE DEF x
<1>4. /\ w \in Seq(Char) /\ Len(w) = Len(x) + Len(u)
      /\ \A i \in 1 .. Len(x) : w[i] = x[i]
      /\ \A i \in 1 .. Len(u) : w[Len(x) + i] = u[i]
  <2>1. x \in Seq(Char)
    BY <1>1
  <2> QED BY <2>1, ConcatCharacters
<1> HIDE DEF w, a, b
<1>5. \A i \in 1 .. a : w[i] = s[i]
  <2> SUFFICES ASSUME NEW i \in 1 .. a PROVE w[i] = s[i]
    OBVIOUS
  <2>1. i \in 1 .. Len(x)
    BY <1>1, <1>2
  <2> QED BY <1>1, <1>4, <2>1
<1>6. \A i \in 1 .. b : w[a + i] = t[i]
  <2> SUFFICES ASSUME NEW i \in 1 .. b PROVE w[a + i] = t[i]
    OBVIOUS
  <2>1. a + i \in 1 .. Len(x)
    BY <1>1, <1>2
  <2> QED BY <1>1, <1>4, <2>1
<1>7. \A i \in 1 .. Len(u) : w[a + b + i] = u[i]
  BY <1>1, <1>4
<1>8. Len(w) = a + b + Len(u)
  BY <1>1, <1>4
<1> QED BY <1>3, <1>4, <1>5, <1>6, <1>7, <1>8 DEF a, b

LEMMA FieldCharacters ==
  ASSUME NEW Char, XMLChars(Char), NEW name \in Seq(Char), NEW value \in Seq(Char)
  PROVE  LET f == Field(name, value)
             n == Len(name)
             l == Len(value)
         IN /\ f \in Seq(Char) /\ Len(f) = n + l + n + 5
            /\ \A i \in 1 .. n + 2 : f[i] = Tag(name)[i]
            /\ \A i \in 1 .. l : f[n + 2 + i] = value[i]
            /\ \A i \in 1 .. n + 3 : f[n + 2 + l + i] = EndTag(name)[i]
<1> DEFINE n == Len(name)
           l == Len(value)
           t == Tag(name)
           e == EndTag(name)
           f == t \o value \o e
<1>0. n \in Nat /\ l \in Nat
  OBVIOUS
<1>1. t \in Seq(Char) /\ Len(t) = n + 2 /\ e \in Seq(Char) /\ Len(e) = n + 3
  BY TagCharacters
<1> HIDE DEF t, e
<1>2. /\ f \in Seq(Char) /\ Len(f) = Len(t) + l + Len(e)
      /\ \A i \in 1 .. Len(t) : f[i] = t[i]
      /\ \A i \in 1 .. l : f[Len(t) + i] = value[i]
      /\ \A i \in 1 .. Len(e) : f[Len(t) + l + i] = e[i]
  <2>1. t \in Seq(Char) /\ e \in Seq(Char)
    BY <1>1
  <2>2. LET w == t \o value \o e
        IN /\ w \in Seq(Char) /\ Len(w) = Len(t) + Len(value) + Len(e)
           /\ \A i \in 1 .. Len(t) : w[i] = t[i]
           /\ \A i \in 1 .. Len(value) : w[Len(t) + i] = value[i]
           /\ \A i \in 1 .. Len(e) : w[Len(t) + Len(value) + i] = e[i]
    BY <2>1, ThreePieces
  <2> QED BY <2>2
<1>3. f = Field(name, value)
  BY DEF Field, t, e
<1> HIDE DEF f, n, l
<1>4. Len(f) = n + l + n + 5
  BY <1>0, <1>1, <1>2
<1>5. /\ \A i \in 1 .. n + 2 : f[i] = t[i]
      /\ \A i \in 1 .. l : f[n + 2 + i] = value[i]
      /\ \A i \in 1 .. n + 3 : f[n + 2 + l + i] = e[i]
  BY <1>1, <1>2
<1> QED BY <1>2, <1>3, <1>4, <1>5 DEF t, e, n, l

\* What GetXMLBuffer looks for is the beginning of the tags that are written.
LEMMA TagsLookedFor ==
  ASSUME NEW Char, XMLChars(Char), NEW name \in Seq(Char), TagCells \in Nat, TagCells >= 3
  PROVE  /\ m_SFieldName(name) \in Seq(Char)
         /\ Len(m_SFieldName(name)) = Least(TagCells - 1, Len(name) + 2)
         /\ Len(m_SFieldName(name)) \in 2 .. Len(name) + 2
         /\ \A i \in 1 .. Len(m_SFieldName(name)) : m_SFieldName(name)[i] = Tag(name)[i]
         /\ m_EFieldName(name) \in Seq(Char)
         /\ Len(m_EFieldName(name)) \in 2 .. Len(name) + 3
         /\ \A i \in 1 .. Len(m_EFieldName(name)) : m_EFieldName(name)[i] = EndTag(name)[i]
<1>1. /\ Tag(name) \in Seq(Char) /\ Len(Tag(name)) = Len(name) + 2
      /\ EndTag(name) \in Seq(Char) /\ Len(EndTag(name)) = Len(name) + 3
  BY TagCharacters
<1>2. Len(name) \in Nat /\ TagCells - 1 \in Nat /\ TagCells - 1 >= 2
  OBVIOUS
<1>3. /\ m_SFieldName(name) \in Seq(Char)
      /\ Len(m_SFieldName(name)) = Least(TagCells - 1, Len(Tag(name)))
      /\ \A i \in 1 .. Least(TagCells - 1, Len(Tag(name))) : m_SFieldName(name)[i] = Tag(name)[i]
  BY <1>1, <1>2, CutIsText DEF m_SFieldName
<1>4. /\ m_EFieldName(name) \in Seq(Char)
      /\ Len(m_EFieldName(name)) = Least(TagCells - 1, Len(EndTag(name)))
      /\ \A i \in 1 .. Least(TagCells - 1, Len(EndTag(name))) : m_EFieldName(name)[i] = EndTag(name)[i]
  BY <1>1, <1>2, CutIsText DEF m_EFieldName
<1>5. /\ Least(TagCells - 1, Len(name) + 2) \in 2 .. Len(name) + 2
      /\ Least(TagCells - 1, Len(name) + 3) \in 2 .. Len(name) + 3
  BY <1>2 DEF Least
<1> QED BY <1>1, <1>3, <1>4, <1>5

\* What is written as a field is read back, trimmed and cut to the size asked
\* for, from a document of any length in which what GetXMLBuffer looks for, the
\* first 49 characters of the tag in the code, does not occur before: it finds
\* the first tag, the end tag behind it, and takes what is between them.  A
\* value may have any characters but "</" in a row, a name, of any length, any
\* but "<" and "/".
Plain(s, c) == \A i \in 1 .. Len(s) : s[i] # c
ClosesNothing(s) == \A i \in 1 .. Len(s) - 1 : ~(s[i] = "<" /\ s[i + 1] = "/")

THEOREM FieldsAreReadBack ==
  ASSUME NEW Char, XMLChars(Char), NEW name \in Seq(Char), NEW value \in Seq(Char),
         Plain(name, "<"), Plain(name, "/"), ClosesNothing(value),
         NEW before \in Seq(Char), NEW after \in Seq(Char), NEW ilen \in Nat,
         TagCells \in Nat, TagCells >= 3,
         \A k \in 1 .. Len(before) :
           ~Occurs(before \o Field(name, value) \o after, m_SFieldName(name), k)
  PROVE  GetXMLBuffer(before \o Field(name, value) \o after, name, ilen)
           = [ok |-> TRUE,
              value |-> DeleteLRChar(IF ilen = 0 THEN value ELSE Cut(value, ilen), SP)]
<1> DEFINE f == Field(name, value)
           xml == before \o f \o after
           a == Len(before)
           n == Len(name)
           l == Len(value)
           stag == m_SFieldName(name)
           etag == m_EFieldName(name)
           start == a + 1
           end == a + n + l + 3
           first == a + n + 3
<1>0. a \in Nat /\ n \in Nat /\ l \in Nat /\ Len(after) \in Nat
  OBVIOUS
<1>1. /\ f \in Seq(Char) /\ Len(f) = n + l + n + 5
      /\ \A i \in 1 .. n + 2 : f[i] = Tag(name)[i]
      /\ \A i \in 1 .. l : f[n + 2 + i] = value[i]
      /\ \A i \in 1 .. n + 3 : f[n + 2 + l + i] = EndTag(name)[i]
  BY FieldCharacters
<1>2. /\ xml \in Seq(Char) /\ Len(xml) = a + Len(f) + Len(after)
      /\ \A i \in 1 .. Len(f) : xml[a + i] = f[i]
  <2>1. f \in Seq(Char)
    BY <1>1
  <2> HIDE DEF f
  <2>2. LET s == before \o f \o after
        IN /\ s \in Seq(Char) /\ Len(s) = Len(before) + Len(f) + Len(after)
           /\ \A i \in 1 .. Len(f) : s[Len(before) + i] = f[i]
    BY <2>1, ThreePieces
  <2> QED BY <2>2
<1>3. /\ Tag(name) \in Seq(Char) /\ Len(Tag(name)) = n + 2
      /\ Tag(name)[1] = "<" /\ Tag(name)[n + 2] = ">"
      /\ \A i \in 1 .. n : Tag(name)[i + 1] = name[i]
      /\ EndTag(name) \in Seq(Char) /\ Len(EndTag(name)) = n + 3
      /\ EndTag(name)[1] = "<" /\ EndTag(name)[2] = "/"
  BY TagCharacters
<1>4. \A k \in 1 .. a : ~Occurs(xml, stag, k)
  OBVIOUS
<1> HIDE DEF xml, f, a, n, l
<1>5. /\ \A i \in 1 .. n + 2 : xml[a + i] = Tag(name)[i]
      /\ \A i \in 1 .. l : xml[a + n + 2 + i] = value[i]
      /\ \A i \in 1 .. n + 3 : xml[a + n + l + 2 + i] = EndTag(name)[i]
  <2>1. \A i \in 1 .. n + 2 : xml[a + i] = Tag(name)[i]
    <3> SUFFICES ASSUME NEW i \in 1 .. n + 2 PROVE xml[a + i] = Tag(name)[i]
      OBVIOUS
    <3>0. Len(f) = n + l + n + 5
      BY <1>1
    <3>1. i \in 1 .. Len(f)
      BY <1>0, <3>0
    <3> QED BY <1>1, <1>2, <3>1
  <2>2. \A i \in 1 .. l : xml[a + n + 2 + i] = value[i]
    <3> SUFFICES ASSUME NEW i \in 1 .. l PROVE xml[a + n + 2 + i] = value[i]
      OBVIOUS
    <3>1. n + 2 + i \in 1 .. Len(f) /\ a + (n + 2 + i) = a + n + 2 + i
      BY <1>0, <1>1
    <3> QED BY <1>1, <1>2, <3>1
  <2>3. \A i \in 1 .. n + 3 : xml[a + n + l + 2 + i] = EndTag(name)[i]
    <3> SUFFICES ASSUME NEW i \in 1 .. n + 3 PROVE xml[a + n + l + 2 + i] = EndTag(name)[i]
      OBVIOUS
    <3>0. Len(f) = n + l + n + 5
      BY <1>1
    <3>1. n + 2 + l + i \in 1 .. Len(f) /\ a + (n + 2 + l + i) = a + n + l + 2 + i
      BY <1>0, <3>0
    <3> QED BY <1>1, <1>2, <3>1
  <2> QED BY <2>1, <2>2, <2>3
<1>14. /\ stag \in Seq(Char) /\ Len(stag) \in 2 .. n + 2
       /\ \A i \in 1 .. Len(stag) : stag[i] = Tag(name)[i]
       /\ etag \in Seq(Char) /\ Len(etag) \in 2 .. n + 3
       /\ \A i \in 1 .. Len(etag) : etag[i] = EndTag(name)[i]
  BY TagsLookedFor DEF n
<1> HIDE DEF stag, etag
<1>15. /\ Len(stag) \in Nat /\ 2 <= Len(stag) /\ Len(stag) <= n + 2
       /\ Len(etag) \in Nat /\ 2 <= Len(etag) /\ Len(etag) <= n + 3
       /\ Len(xml) = a + (n + l + n + 5) + Len(after)
  BY <1>0, <1>1, <1>2, <1>14
<1>6. Find(xml, stag, 1) = start
  <2>1. Occurs(xml, stag, start)
    <3>1. start \in Nat \ {0} /\ start + Len(stag) - 1 <= Len(xml)
      BY <1>0, <1>15
    <3>2. \A k \in 1 .. Len(stag) : xml[start + k - 1] = stag[k]
      <4> SUFFICES ASSUME NEW k \in 1 .. Len(stag) PROVE xml[start + k - 1] = stag[k]
        OBVIOUS
      <4>1. start + k - 1 = a + k /\ k \in 1 .. n + 2
        BY <1>0, <1>15
      <4> QED BY <1>5, <1>14, <4>1
    <3> QED BY <1>2, <1>14, <3>1, <3>2, OccursByCharacters
  <2>2. start \in 1 .. Len(xml) + 1 /\ Len(xml) \in Nat
    BY <1>0, <1>1, <1>2
  <2>3. \A k \in 1 .. start - 1 : ~Occurs(xml, stag, k)
    BY <1>0, <1>4
  <2> HIDE DEF start
  <2> QED BY <2>1, <2>2, <2>3, FindsFirst
<1>7. Find(xml, etag, start) = end
  <2>1. Occurs(xml, etag, end)
    <3>1. end \in Nat \ {0} /\ end + Len(etag) - 1 <= Len(xml)
      BY <1>0, <1>15
    <3>2. \A k \in 1 .. Len(etag) : xml[end + k - 1] = etag[k]
      <4> SUFFICES ASSUME NEW k \in 1 .. Len(etag) PROVE xml[end + k - 1] = etag[k]
        OBVIOUS
      <4>1. end + k - 1 = a + n + l + 2 + k /\ k \in 1 .. n + 3
        BY <1>0, <1>15
      <4> QED BY <1>5, <1>14, <4>1
    <3> QED BY <1>2, <1>14, <3>1, <3>2, OccursByCharacters
  <2>2. \A k \in start .. end - 1 : ~Occurs(xml, etag, k)
    <3> SUFFICES ASSUME NEW k \in start .. end - 1, Occurs(xml, etag, k) PROVE FALSE
      OBVIOUS
    <3>1. k \in Nat \ {0}
      BY <1>0
    <3>2. \A i \in 1 .. Len(etag) : xml[k + i - 1] = etag[i]
      <4>1. xml \in Seq(Char) /\ etag \in Seq(Char) /\ Occurs(xml, etag, k)
        BY <1>2, <1>14
      <4> HIDE DEF start, end
      <4> QED BY <3>1, <4>1, OccursByCharacters
    <3>3. xml[k] = "<" /\ xml[k + 1] = "/"
      <4>1. /\ 1 \in 1 .. Len(etag) /\ 2 \in 1 .. Len(etag)
            /\ k + 1 - 1 = k /\ k + 2 - 1 = k + 1
        BY <1>0, <1>15, <3>1
      <4> QED BY <1>3, <1>14, <3>2, <4>1
    <3>4. CASE k = a + 1
      <4>1. k + 1 = a + 2 /\ 2 \in 1 .. n + 2
        BY <1>0, <3>4
      <4>2. Tag(name)[2] = "/"
        BY <1>5, <3>3, <4>1
      <4>3. CASE n = 0
        BY <1>3, <4>2, <4>3
      <4>4. CASE n > 0
        <5>1. 1 \in 1 .. n /\ name[1] = "/"
          BY <1>0, <1>3, <4>2, <4>4
        <5> QED BY <5>1 DEF Plain, n
      <4> QED BY <1>0, <4>3, <4>4
    <3>5. CASE k \in a + 2 .. a + n + 1
      <4>1. k - a \in 1 .. n + 2 /\ k - a - 1 \in 1 .. n /\ a + (k - a) = k /\ (k - a - 1) + 1 = k - a
        BY <1>0, <3>5
      <4>2. name[k - a - 1] = "<"
        BY <1>3, <1>5, <3>3, <4>1
      <4> QED BY <4>1, <4>2 DEF Plain, n
    <3>6. CASE k = a + n + 2
      <4>1. n + 2 \in 1 .. n + 2 /\ a + (n + 2) = k
        BY <1>0, <3>6
      <4> QED BY <1>3, <1>5, <3>3, <4>1
    <3>7. CASE k \in a + n + 3 .. a + n + l + 2
      <4>1. k - (a + n + 2) \in 1 .. l /\ a + n + 2 + (k - (a + n + 2)) = k
        BY <1>0, <3>7
      <4> DEFINE j == k - (a + n + 2)
      <4>2. j \in 1 .. l /\ a + n + 2 + j = k /\ value[j] = "<"
        BY <1>5, <3>3, <4>1
      <4> HIDE DEF j
      <4>3. CASE j = l
        <5>1. k + 1 = a + n + l + 2 + 1 /\ 1 \in 1 .. n + 3
          BY <1>0, <4>2, <4>3
        <5> QED BY <1>3, <1>5, <3>3, <5>1
      <4>4. CASE j # l
        <5>1. j + 1 \in 1 .. l /\ a + n + 2 + (j + 1) = k + 1 /\ j \in 1 .. l - 1
          BY <1>0, <4>2, <4>4
        <5>2. value[j + 1] = "/"
          BY <1>5, <3>3, <5>1
        <5> QED BY <4>2, <5>1, <5>2 DEF ClosesNothing, l
      <4> QED BY <4>3, <4>4
    <3> QED BY <1>0, <3>4, <3>5, <3>6, <3>7
  <2>3. end \in start .. Len(xml) + 1 /\ Len(xml) \in Nat /\ start \in Int
    <3>1. Len(xml) = a + (n + l + n + 5) + Len(after)
      BY <1>1, <1>2
    <3> QED BY <1>0, <3>1
  <2> HIDE DEF start, end
  <2> QED BY <2>1, <2>2, <2>3, FindsFirst
<1>8. \A k \in 0 .. l : SubSeq(xml, first, first - 1 + k) = SubSeq(value, 1, k)
  <2> SUFFICES ASSUME NEW k \in 0 .. l
               PROVE  SubSeq(xml, first, first - 1 + k) = SubSeq(value, 1, k)
    OBVIOUS
  <2> DEFINE p == SubSeq(xml, first, first - 1 + k)
             q == SubSeq(value, 1, k)
  <2>0. value \in Seq(Char) /\ Len(value) = l /\ k \in Nat /\ first \in Nat /\ first - 1 + k \in Nat
    BY <1>0 DEF l
  <2>1. \A i \in first .. first - 1 + k : xml[i] \in Char
    <3> SUFFICES ASSUME NEW i \in first .. first - 1 + k PROVE xml[i] \in Char
      OBVIOUS
    <3>1. Len(f) = n + l + n + 5 /\ Len(xml) = a + Len(f) + Len(after)
      BY <1>1, <1>2
    <3>2. i \in 1 .. Len(xml)
      BY <1>0, <3>1
    <3>3. xml \in Seq(Char)
      BY <1>2
    <3> QED BY <3>2, <3>3
  <2>2. /\ p \in Seq(Char)
        /\ Len(p) = IF first <= first - 1 + k THEN (first - 1 + k) - first + 1 ELSE 0
        /\ \A i \in 1 .. (first - 1 + k) - first + 1 : p[i] = xml[first + i - 1]
    <3> DEFINE last == first - 1 + k
    <3>1. first \in Int /\ last \in Int /\ \A i \in first .. last : xml[i] \in Char
      BY <2>0, <2>1
    <3> HIDE DEF first, last, xml
    <3>2. /\ SubSeq(xml, first, last) \in Seq(Char)
          /\ Len(SubSeq(xml, first, last)) = IF first <= last THEN last - first + 1 ELSE 0
          /\ \A i \in 1 .. last - first + 1 : SubSeq(xml, first, last)[i] = xml[first + i - 1]
      BY <3>1, SubSeqProperties
    <3> QED BY <3>2 DEF last
  <2>3. /\ q \in Seq(Char) /\ Len(q) = k
        /\ \A i \in 1 .. k : q[i] = value[i]
    <3> HIDE DEF first
    <3>1. k \in 0 .. Len(value) /\ value \in Seq(Char)
      BY <2>0
    <3> QED BY <3>1
  <2> HIDE DEF p, q
  <2>4. Len(p) = k /\ \A i \in 1 .. k : p[i] = xml[first + i - 1]
    <3>1. (first - 1 + k) - first + 1 = k /\ (k = 0 => ~(first <= first - 1 + k))
      BY <1>0, <2>0
    <3>2. k > 0 => first <= first - 1 + k
      BY <1>0, <2>0
    <3> HIDE DEF first
    <3> QED BY <2>0, <2>2, <3>1, <3>2
  <2>5. \A i \in 1 .. k : p[i] = q[i]
    <3> SUFFICES ASSUME NEW i \in 1 .. k PROVE p[i] = q[i]
      OBVIOUS
    <3>1. first + i - 1 = a + n + 2 + i /\ i \in 1 .. l
      BY <1>0
    <3> QED BY <1>5, <2>3, <2>4, <3>1
  <2>6. p = q
    BY <2>2, <2>3, <2>4, <2>5, SeqEqual
  <2> QED BY <2>6 DEF p, q
<1>9. SubSeq(xml, first, first - 1 + (IF ilen = 0 THEN l ELSE Least(l, ilen)))
        = IF ilen = 0 THEN value ELSE Cut(value, ilen)
  <2>1. CASE ilen = 0
    <3>1. SubSeq(value, 1, l) = value
      BY <1>0 DEF l
    <3>2. l \in 0 .. l
      BY <1>0
    <3>3. SubSeq(xml, first, first - 1 + l) = SubSeq(value, 1, l)
      BY <1>8, <3>2
    <3> QED BY <2>1, <3>1, <3>3
  <2>2. CASE ilen # 0
    <3>1. Least(l, ilen) = Least(ilen, Len(value)) /\ Least(l, ilen) \in 0 .. l
      BY <1>0 DEF Least, l
    <3> QED BY <1>8, <2>2, <3>1 DEF Cut
  <2> QED BY <2>1, <2>2
<1>10. /\ start # 0 /\ end # 0 /\ end - start - n - 2 = l /\ start + n + 2 = first
       /\ ~(l < 0)
  BY <1>0
<1>11. GetXMLBuffer(xml, name, ilen)
         = [ok |-> TRUE,
            value |-> DeleteLRChar(SubSeq(xml, first, first - 1 +
                        (IF ilen = 0 THEN l ELSE Least(l, ilen))), SP)]
  <2> HIDE DEF start, end, first
  <2> QED BY <1>6, <1>7, <1>10 DEF GetXMLBuffer, stag, etag, n
<1> QED BY <1>9, <1>11 DEF xml, f

\* What is looked for does not occur in a field of another name, unless in its
\* value.
LEMMA TagNotInOtherField ==
  ASSUME NEW Char, XMLChars(Char), NEW t \in Seq(Char), NEW u \in Seq(Char),
         TagCells \in Nat, TagCells >= 3, ~Same(t, u),
         Plain(t, "<"), Plain(t, "/"), Plain(t, ">"),
         Plain(u, "<"), Plain(u, "/"), Plain(u, ">"),
         NEW v \in Seq(Char), \A i \in 1 .. Len(v) : ~Occurs(v, m_SFieldName(u), i), NEW after \in Seq(Char),
         NEW k \in 1 .. Len(Field(t, v))
  PROVE  ~Occurs(Field(t, v) \o after, m_SFieldName(u), k)
<1> SUFFICES ASSUME Occurs(Field(t, v) \o after, m_SFieldName(u), k) PROVE FALSE
  OBVIOUS
<1> DEFINE f == Field(t, v)
           xml == f \o after
           n == Len(t)
           m == Len(u)
           tag == m_SFieldName(u)
           p == Len(tag)
           l == Len(v)
<1>0. n \in Nat /\ m \in Nat /\ l \in Nat /\ Len(after) \in Nat
  OBVIOUS
<1>1. /\ f \in Seq(Char) /\ Len(f) = n + l + n + 5
      /\ \A i \in 1 .. n + 2 : f[i] = Tag(t)[i]
      /\ \A i \in 1 .. l : f[n + 2 + i] = v[i]
      /\ \A i \in 1 .. n + 3 : f[n + 2 + l + i] = EndTag(t)[i]
  BY FieldCharacters
<1>2. /\ Tag(t)[1] = "<" /\ Tag(t)[n + 2] = ">"
      /\ \A i \in 1 .. n : Tag(t)[i + 1] = t[i]
      /\ EndTag(t)[1] = "<" /\ EndTag(t)[2] = "/" /\ EndTag(t)[n + 3] = ">"
      /\ \A i \in 1 .. n : EndTag(t)[i + 2] = t[i]
  BY TagCharacters
<1>3. /\ Tag(u) \in Seq(Char) /\ Len(Tag(u)) = m + 2
      /\ Tag(u)[1] = "<" /\ Tag(u)[m + 2] = ">"
      /\ \A i \in 1 .. m : Tag(u)[i + 1] = u[i]
  BY TagCharacters
<1>4. k \in 1 .. Len(f) /\ Occurs(xml, tag, k)
  OBVIOUS
<1> HIDE DEF f
<1>5. xml \in Seq(Char) /\ \A i \in 1 .. Len(f) : xml[i] = f[i]
  BY <1>1
<1>14. /\ tag \in Seq(Char) /\ p = Least(TagCells - 1, m + 2) /\ p \in 2 .. m + 2
       /\ \A i \in 1 .. p : tag[i] = Tag(u)[i]
  BY TagsLookedFor
<1> HIDE DEF xml, n, m, l, tag
<1>6. \A i \in 1 .. p : xml[k + i - 1] = Tag(u)[i]
  <2>1. k \in Nat \ {0}
    BY <1>0, <1>1, <1>4
  <2>2. \A i \in 1 .. p : xml[k + i - 1] = tag[i]
    BY <1>4, <1>5, <1>14, <2>1, OccursByCharacters
  <2> QED BY <1>14, <2>2
<1> HIDE DEF p
<1>15. p \in Nat /\ 2 <= p /\ p <= m + 2
  BY <1>0, <1>14
<1>16. Len(f) = n + l + n + 5
  BY <1>1
<1>7. f[k] = "<"
  <2>1. 1 \in 1 .. p /\ k + 1 - 1 = k
    BY <1>0, <1>1, <1>4, <1>14
  <2> QED BY <1>3, <1>4, <1>5, <1>6, <2>1
<1>8. CASE k = 1
  <2>1. \A i \in 1 .. p : i <= n + 2 => Tag(t)[i] = Tag(u)[i]
    <3> SUFFICES ASSUME NEW i \in 1 .. p, i <= n + 2 PROVE Tag(t)[i] = Tag(u)[i]
      OBVIOUS
    <3>1. i \in 1 .. n + 2 /\ i \in 1 .. Len(f) /\ k + i - 1 = i
      BY <1>0, <1>8, <1>15, <1>16
    <3> QED BY <1>1, <1>5, <1>6, <3>1
  <2>2. CASE m < n /\ p = m + 2
    <3>1. m + 2 \in 1 .. p /\ m + 2 <= n + 2 /\ m + 1 \in 1 .. n /\ (m + 1) + 1 = m + 2
      BY <1>0, <2>2
    <3>2. t[m + 1] = ">"
      BY <1>2, <1>3, <2>1, <3>1
    <3> QED BY <3>1, <3>2 DEF Plain, n
  <2>3. CASE n + 2 <= p /\ m > n
    <3>1. n + 2 \in 1 .. p /\ n + 1 \in 1 .. m /\ (n + 1) + 1 = n + 2
      BY <1>0, <2>3
    <3>2. u[n + 1] = ">"
      <4>1. Tag(t)[n + 2] = Tag(u)[n + 2]
        BY <1>0, <2>1, <3>1
      <4> QED BY <1>2, <1>3, <3>1, <4>1
    <3> QED BY <3>1, <3>2 DEF Plain, m
  <2>4. CASE m = n /\ p = m + 2
    <3>1. \A i \in 1 .. n : t[i] = u[i]
      <4> SUFFICES ASSUME NEW i \in 1 .. n PROVE t[i] = u[i]
        OBVIOUS
      <4>1. i + 1 \in 1 .. p /\ i + 1 <= n + 2 /\ i \in 1 .. m
        BY <1>0, <2>4
      <4> QED BY <1>2, <1>3, <2>1, <4>1
    <3>2. t = u
      BY <2>4, <3>1, SeqEqual DEF n, m
    <3> QED BY <3>2 DEF Same
  <2>5. CASE p = TagCells - 1 /\ p < n + 2 /\ p < m + 2
    <3> DEFINE c == TagCells - 2
    <3>0. c \in Nat /\ c <= n /\ c <= m /\ p = c + 1
      BY <1>0, <2>5
    <3> HIDE DEF c
    <3>1. \A i \in 1 .. c : t[i] = u[i]
      <4> SUFFICES ASSUME NEW i \in 1 .. c PROVE t[i] = u[i]
        OBVIOUS
      <4>1. i + 1 \in 1 .. p /\ i + 1 <= n + 2 /\ i \in 1 .. m /\ i \in 1 .. n
        BY <1>0, <2>5, <3>0
      <4> QED BY <1>2, <1>3, <2>1, <4>1
    <3>2. Least(c, n) = c /\ Least(c, m) = c
      BY <1>0, <3>0 DEF Least
    <3>3. /\ Cut(t, c) \in Seq(Char) /\ Len(Cut(t, c)) = c
          /\ \A i \in 1 .. c : Cut(t, c)[i] = t[i]
      BY <3>0, <3>2, CutIsText DEF n
    <3>4. /\ Cut(u, c) \in Seq(Char) /\ Len(Cut(u, c)) = c
          /\ \A i \in 1 .. c : Cut(u, c)[i] = u[i]
      BY <3>0, <3>2, CutIsText DEF m
    <3>5. Cut(t, c) = Cut(u, c)
      BY <3>1, <3>3, <3>4, SeqEqual
    <3> QED BY <3>5 DEF Same, c
  <2>6. \/ m < n /\ p = m + 2
        \/ n + 2 <= p /\ m > n
        \/ m = n /\ p = m + 2
        \/ p = TagCells - 1 /\ p < n + 2 /\ p < m + 2
    BY <1>0, <1>14 DEF Least
  <2> QED BY <2>2, <2>3, <2>4, <2>5, <2>6
<1>9. CASE k \in 2 .. n + 1
  <2>1. k - 1 \in 1 .. n /\ (k - 1) + 1 = k /\ k \in 1 .. n + 2
    BY <1>0, <1>9
  <2>2. t[k - 1] = "<"
    BY <1>1, <1>2, <1>7, <2>1
  <2> QED BY <2>1, <2>2 DEF Plain, n
<1>10. CASE k = n + 2
  <2>1. n + 2 \in 1 .. n + 2
    BY <1>0
  <2> QED BY <1>1, <1>2, <1>7, <1>10, <2>1
<1>11. CASE k \in n + 3 .. n + 2 + l
  <2> DEFINE j == k - (n + 2)
  <2>1. j \in 1 .. l /\ n + 2 + j = k
    BY <1>0, <1>11
  <2> HIDE DEF j
  <2>2. CASE j + p - 1 <= l
    <3>1. \A i \in 1 .. p : v[j + i - 1] = Tag(u)[i]
      <4> SUFFICES ASSUME NEW i \in 1 .. p PROVE v[j + i - 1] = Tag(u)[i]
        OBVIOUS
      <4>1. /\ j + i - 1 \in 1 .. l /\ n + 2 + (j + i - 1) = k + i - 1
            /\ k + i - 1 \in 1 .. Len(f)
        BY <1>0, <1>15, <1>16, <2>1, <2>2
      <4>2. xml[k + i - 1] = Tag(u)[i]
        BY <1>6
      <4>3. xml[k + i - 1] = f[k + i - 1]
        BY <1>5, <4>1
      <4>4. f[n + 2 + (j + i - 1)] = v[j + i - 1]
        BY <1>1, <4>1
      <4> QED BY <4>1, <4>2, <4>3, <4>4
    <3>2. j \in Nat \ {0} /\ j \in 1 .. Len(v) /\ j + Len(tag) - 1 <= Len(v)
      BY <1>0, <1>15, <2>1, <2>2 DEF l, p
    <3>3. Occurs(v, tag, j)
      <4>1. /\ tag \in Seq(Char) /\ j \in Nat \ {0} /\ j + Len(tag) - 1 <= Len(v)
            /\ \A i \in 1 .. Len(tag) : v[j + i - 1] = tag[i]
        <5>1. \A i \in 1 .. p : tag[i] = Tag(u)[i]
          BY <1>14
        <5>2. \A i \in 1 .. p : v[j + i - 1] = tag[i]
          BY <3>1, <5>1
        <5> QED BY <1>14, <3>2, <5>2 DEF p
      <4> QED BY <4>1, OccursByCharacters
    <3> QED BY <3>2, <3>3 DEF tag
  <2>3. CASE j + p - 1 > l
    <3> DEFINE i == l - j + 2
    <3>1. /\ i \in 2 .. p /\ k + i - 1 = n + 2 + l + 1 /\ n + 2 + l + 1 \in 1 .. Len(f)
          /\ 1 \in 1 .. n + 3
      BY <1>0, <1>15, <1>16, <2>1, <2>3
    <3> HIDE DEF i
    <3>2. Tag(u)[i] = "<"
      <4>1. f[n + 2 + l + 1] = "<"
        BY <1>1, <1>2, <3>1
      <4>2. xml[k + i - 1] = "<"
        BY <1>5, <3>1, <4>1
      <4>3. i \in 1 .. p
        BY <1>15, <3>1
      <4> QED BY <1>6, <4>2, <4>3
    <3>3. CASE i = m + 2
      BY <1>3, <3>2, <3>3
    <3>4. CASE i # m + 2
      <4>1. i - 1 \in 1 .. m /\ (i - 1) + 1 = i
        BY <1>0, <1>15, <3>1, <3>4
      <4>2. u[i - 1] = "<"
        BY <1>3, <3>2, <4>1
      <4> QED BY <4>1, <4>2 DEF Plain, m
    <3> QED BY <3>3, <3>4
  <2> QED BY <1>0, <1>15, <2>1, <2>2, <2>3
<1>12. CASE k = n + 2 + l + 1
  <2>1. /\ 2 \in 1 .. p /\ k + 2 - 1 = n + 2 + l + 2 /\ n + 2 + l + 2 \in 1 .. Len(f)
        /\ 2 \in 1 .. n + 3
    BY <1>0, <1>12, <1>15, <1>16
  <2>2. Tag(u)[2] = "/"
    <3>1. xml[k + 2 - 1] = Tag(u)[2]
      BY <1>6, <2>1
    <3>2. f[n + 2 + l + 2] = EndTag(t)[2]
      BY <1>1, <2>1
    <3> QED BY <1>2, <1>5, <2>1, <3>1, <3>2
  <2>3. CASE m = 0
    BY <1>3, <2>2, <2>3
  <2>4. CASE m > 0
    <3>1. 1 \in 1 .. m /\ u[1] = "/"
      BY <1>0, <1>3, <2>2, <2>4
    <3> QED BY <3>1 DEF Plain, m
  <2> QED BY <1>0, <2>3, <2>4
<1>13. CASE k \in n + 2 + l + 2 .. n + 2 + l + n + 3
  <2> DEFINE i == k - (n + 2 + l)
  <2>1. i \in 2 .. n + 3 /\ n + 2 + l + i = k
    BY <1>0, <1>13
  <2> HIDE DEF i
  <2>2. EndTag(t)[i] = "<"
    BY <1>1, <1>7, <2>1
  <2>3. CASE i = 2 \/ i = n + 3
    BY <1>2, <2>2, <2>3
  <2>4. CASE i \in 3 .. n + 2
    <3>1. i - 2 \in 1 .. n /\ (i - 2) + 2 = i
      BY <1>0, <2>4
    <3>2. t[i - 2] = "<"
      BY <1>2, <2>2, <3>1
    <3> QED BY <3>1, <3>2 DEF Plain, n
  <2> QED BY <1>0, <2>1, <2>3, <2>4
<1> QED
  <2>1. k \in 1 .. n + l + n + 5
    BY <1>1, <1>4
  <2> QED BY <1>0, <2>1, <1>8, <1>9, <1>10, <1>11, <1>12, <1>13

\* A name, as it can stand in a tag.
IsName(s) == Plain(s, "<") /\ Plain(s, "/") /\ Plain(s, ">")

\* Of two fields whose names differ in as much as is looked for, 48 characters
\* in the code, each is read back whatever the other one holds, also when one
\* name is the beginning of the other, as long as the first value does not hold
\* what is looked for of the second tag.  (Of names that do not differ there the
\* second field is never found.)
THEOREM FieldsAreKeptApart ==
  ASSUME NEW Char, XMLChars(Char), NEW t \in Seq(Char), NEW u \in Seq(Char),
         TagCells \in Nat, TagCells >= 3, ~Same(t, u), IsName(t), IsName(u), NEW v \in Seq(Char), NEW w \in Seq(Char),
         ClosesNothing(v), ClosesNothing(w),
         \A i \in 1 .. Len(v) : ~Occurs(v, m_SFieldName(u), i),
         NEW ilen \in Nat
  PROVE  LET xml == Field(t, v) \o Field(u, w)
             Want(s) == [ok |-> TRUE,
                         value |-> DeleteLRChar(IF ilen = 0 THEN s ELSE Cut(s, ilen), SP)]
         IN GetXMLBuffer(xml, t, ilen) = Want(v) /\ GetXMLBuffer(xml, u, ilen) = Want(w)
<1> DEFINE f == Field(t, v)
           g == Field(u, w)
<1>1. /\ Plain(t, "<") /\ Plain(t, "/") /\ Plain(t, ">")
      /\ Plain(u, "<") /\ Plain(u, "/") /\ Plain(u, ">")
  BY DEF IsName
<1>2. f \in Seq(Char) /\ g \in Seq(Char)
  BY FieldCharacters
<1>3. \A k \in 1 .. Len(f) : ~Occurs(f \o g, m_SFieldName(u), k)
  BY <1>1, <1>2, TagNotInOtherField
<1> DEFINE none == SubSeq(t, 1, 0)
<1>4. none \in Seq(Char) /\ Len(none) = 0 /\ none \o f \o g = f \o g /\ f \o g \o none = f \o g
  <2> HIDE DEF f, g
  <2>1. none = <<>> /\ none \in Seq(Char) /\ Len(none) = 0
    OBVIOUS
  <2>2. <<>> \o f = f
    BY <1>2, ConcatEmptySeq
  <2>3. f \o g \in Seq(Char)
    BY <1>2, ConcatProperties
  <2>4. (f \o g) \o <<>> = f \o g
    BY <2>3, ConcatEmptySeq
  <2> HIDE DEF none
  <2>5. none \o f \o g = f \o g
    BY <2>1, <2>2, Zenon
  <2>6. f \o g \o none = f \o g
    BY <2>1, <2>4, Zenon
  <2> QED BY <2>1, <2>5, <2>6
<1> HIDE DEF none
<1>5. GetXMLBuffer(none \o f \o g, t, ilen)
        = [ok |-> TRUE, value |-> DeleteLRChar(IF ilen = 0 THEN v ELSE Cut(v, ilen), SP)]
  <2>1. \A x, y \in Seq(Char) :
          (\A k \in 1 .. Len(x) : ~Occurs(x \o Field(t, v) \o y, m_SFieldName(t), k))
            => GetXMLBuffer(x \o Field(t, v) \o y, t, ilen)
                 = [ok |-> TRUE, value |-> DeleteLRChar(IF ilen = 0 THEN v ELSE Cut(v, ilen), SP)]
    BY <1>1, FieldsAreReadBack
  <2>2. \A k \in 1 .. Len(none) : ~Occurs(none \o Field(t, v) \o g, m_SFieldName(t), k)
    BY <1>4
  <2> HIDE DEF g
  <2> QED BY <1>2, <1>4, <2>1, <2>2
<1>6. GetXMLBuffer(f \o g \o none, u, ilen)
        = [ok |-> TRUE, value |-> DeleteLRChar(IF ilen = 0 THEN w ELSE Cut(w, ilen), SP)]
  <2>1. \A x, y \in Seq(Char) :
          (\A k \in 1 .. Len(x) : ~Occurs(x \o Field(u, w) \o y, m_SFieldName(u), k))
            => GetXMLBuffer(x \o Field(u, w) \o y, u, ilen)
                 = [ok |-> TRUE, value |-> DeleteLRChar(IF ilen = 0 THEN w ELSE Cut(w, ilen), SP)]
    BY <1>1, FieldsAreReadBack
  <2> HIDE DEF f
  <2>2. \A k \in 1 .. Len(f) : ~Occurs(f \o g \o none, m_SFieldName(u), k)
    BY <1>3, <1>4
  <2> QED BY <1>2, <1>4, <2>1, <2>2
<1> QED BY <1>4, <1>5, <1>6

\* Trimming takes away all of a character at both ends, and nothing else.
LEMMA FirstOfMany ==
  ASSUME NEW T \in SUBSET Nat, T # {}
  PROVE  \E x \in T : \A y \in T : x <= y
<1> DEFINE R == OpToRel(<, Nat)
<1>1. IsWellFoundedOn(R, Nat)
  BY NatLessThanWellFounded, Zenon
<1>2. R = {ss \in Nat \X Nat : ss[1] < ss[2]}
  BY DEF OpToRel
<1> HIDE DEF R
<1>3. PICK x \in T : \A y \in T : ~ (<<y, x>> \in R)
  BY <1>1, WFMin
<1>4. \A y \in T : x <= y
  <2> SUFFICES ASSUME NEW y \in T PROVE x <= y
    OBVIOUS
  <2>1. x \in Nat /\ y \in Nat
    BY <1>3
  <2>2. ~(<<y, x>> \in R)
    BY <1>3
  <2>3. ~(y < x)
    BY <1>2, <2>1, <2>2
  <2> QED BY <2>1, <2>3
<1> QED BY <1>3, <1>4

LEMMA TrimmedLeft ==
  ASSUME NEW Char, NEW s \in Seq(Char), NEW c
  PROVE  \E k \in 0 .. Len(s) :
           /\ DeleteLChar(s, c) = SubSeq(s, k + 1, Len(s))
           /\ \A i \in 1 .. k : s[i] = c
           /\ k < Len(s) => s[k + 1] # c
<1>1. CASE \A i \in DOMAIN s : s[i] = c
  <2>1. DeleteLChar(s, c) = <<>>
    BY <1>1 DEF DeleteLChar
  <2>2. SubSeq(s, Len(s) + 1, Len(s)) = <<>>
    OBVIOUS
  <2> QED BY <1>1, <2>1, <2>2
<1>2. CASE ~ \A i \in DOMAIN s : s[i] = c
  <2> DEFINE T == {i \in DOMAIN s : s[i] # c}
             IsFirst(i) == s[i] # c /\ \A j \in 1 .. i - 1 : s[j] = c
             h == CHOOSE i \in DOMAIN s : IsFirst(i)
  <2>1. PICK x \in T : \A y \in T : x <= y
    <3>1. T \in SUBSET Nat /\ T # {}
      BY <1>2
    <3> HIDE DEF T
    <3> QED BY <3>1, FirstOfMany
  <2>2. x \in DOMAIN s /\ IsFirst(x)
    BY <2>1
  <2>3. h \in DOMAIN s /\ IsFirst(h)
    BY <2>2
  <2>4. DeleteLChar(s, c) = SubSeq(s, h, Len(s))
    BY <1>2 DEF DeleteLChar, From
  <2> HIDE DEF h
  <2>5. h - 1 \in 0 .. Len(s) /\ (h - 1) + 1 = h
    BY <2>3
  <2> QED BY <2>3, <2>4, <2>5
<1> QED BY <1>1, <1>2

LEMMA ReverseByCharacters ==
  ASSUME NEW Char, NEW s \in Seq(Char)
  PROVE  /\ Reverse(s) \in Seq(Char) /\ Len(Reverse(s)) = Len(s)
         /\ \A i \in 1 .. Len(s) : Reverse(s)[i] = s[Len(s) - i + 1]
<1>1. \A i \in 1 .. Len(s) : s[Len(s) - i + 1] \in Char
  OBVIOUS
<1>2. Reverse(s) \in [1 .. Len(s) -> Char]
  BY <1>1 DEF Reverse
<1> QED BY <1>2 DEF Reverse

THEOREM TrimmingTakesTheEnds ==
  ASSUME NEW Char, NEW s \in Seq(Char), NEW c
  PROVE  \E k \in 0 .. Len(s) : \E l \in k .. Len(s) :
           /\ DeleteLRChar(s, c) = SubSeq(s, k + 1, l)
           /\ \A i \in 1 .. k : s[i] = c
           /\ \A i \in l + 1 .. Len(s) : s[i] = c
           /\ k < l => s[k + 1] # c /\ s[l] # c
<1> DEFINE t == DeleteLChar(s, c)
<1>1. PICK k \in 0 .. Len(s) :
        /\ t = SubSeq(s, k + 1, Len(s))
        /\ \A i \in 1 .. k : s[i] = c
        /\ k < Len(s) => s[k + 1] # c
  BY TrimmedLeft
<1> HIDE DEF t
<1> DEFINE n == Len(s) - k
<1>2. /\ t \in Seq(Char) /\ Len(t) = n /\ n \in Nat
      /\ \A i \in 1 .. n : t[i] = s[k + i]
  BY <1>1
<1> DEFINE r == Reverse(t)
<1>3. /\ r \in Seq(Char) /\ Len(r) = n
      /\ \A i \in 1 .. n : r[i] = t[n - i + 1]
  <2> HIDE DEF n
  <2> QED BY <1>2, ReverseByCharacters
<1> HIDE DEF r
<1>4. PICK h \in 0 .. n :
        /\ DeleteLChar(r, c) = SubSeq(r, h + 1, n)
        /\ \A i \in 1 .. h : r[i] = c
        /\ h < n => r[h + 1] # c
  <2> HIDE DEF n
  <2>1. \E h \in 0 .. Len(r) :
          /\ DeleteLChar(r, c) = SubSeq(r, h + 1, Len(r))
          /\ \A i \in 1 .. h : r[i] = c
          /\ h < Len(r) => r[h + 1] # c
    <3>1. r \in Seq(Char)
      BY <1>3
    <3> QED BY <3>1, TrimmedLeft
  <2> QED BY <1>3, <2>1
<1> DEFINE q == SubSeq(r, h + 1, n)
           l == Len(s) - h
<1> HIDE DEF n
<1>5. /\ q \in Seq(Char) /\ Len(q) = n - h
      /\ \A i \in 1 .. n - h : q[i] = r[h + i]
  BY <1>2, <1>3
<1> HIDE DEF q
<1>6. /\ Reverse(q) \in Seq(Char) /\ Len(Reverse(q)) = n - h
      /\ \A i \in 1 .. n - h : Reverse(q)[i] = q[n - h - i + 1]
  <2>1. /\ Reverse(q) \in Seq(Char) /\ Len(Reverse(q)) = Len(q)
        /\ \A i \in 1 .. Len(q) : Reverse(q)[i] = q[Len(q) - i + 1]
    BY <1>5, ReverseByCharacters
  <2> QED BY <1>5, <2>1
<1>7. Len(s) \in Nat /\ n = Len(s) - k /\ l \in k .. Len(s) /\ l - k = n - h
  BY <1>1, <1>2 DEF n
<1> HIDE DEF l
<1>8. /\ SubSeq(s, k + 1, l) \in Seq(Char) /\ Len(SubSeq(s, k + 1, l)) = n - h
      /\ \A i \in 1 .. n - h : SubSeq(s, k + 1, l)[i] = s[k + i]
  <2>1. /\ k \in Nat /\ l \in Nat /\ k <= l /\ k + 1 \in Int /\ n \in Nat /\ h \in Nat
        /\ l - (k + 1) + 1 = n - h /\ Len(s) \in Nat /\ l <= Len(s)
    <3>1. n \in Nat
      BY <1>2
    <3>2. k \in Nat /\ h \in Nat /\ Len(s) \in Nat
      BY <1>7, <3>1
    <3>3. l \in Nat /\ k <= l /\ l <= Len(s) /\ l - k = n - h
      BY <1>7, <3>2
    <3> QED BY <3>1, <3>2, <3>3
  <2>2. \A i \in k + 1 .. l : s[i] \in Char
    BY <2>1
  <2>3. /\ SubSeq(s, k + 1, l) \in Seq(Char)
        /\ Len(SubSeq(s, k + 1, l)) = IF k + 1 <= l THEN l - (k + 1) + 1 ELSE 0
        /\ \A i \in 1 .. l - (k + 1) + 1 : SubSeq(s, k + 1, l)[i] = s[(k + 1) + i - 1]
    BY <2>1, <2>2, SubSeqProperties
  <2> HIDE DEF n
  <2> QED
    <3>1. Len(SubSeq(s, k + 1, l)) = n - h
      BY <2>1, <2>3
    <3>2. \A i \in 1 .. n - h : SubSeq(s, k + 1, l)[i] = s[k + i]
      <4> SUFFICES ASSUME NEW i \in 1 .. n - h PROVE SubSeq(s, k + 1, l)[i] = s[k + i]
        OBVIOUS
      <4>1. i \in 1 .. l - (k + 1) + 1 /\ (k + 1) + i - 1 = k + i
        BY <2>1
      <4> QED BY <2>3, <4>1
    <3> QED BY <2>3, <3>1, <3>2
<1>9. \A i \in 1 .. n - h : Reverse(q)[i] = s[k + i]
  <2> SUFFICES ASSUME NEW i \in 1 .. n - h PROVE Reverse(q)[i] = s[k + i]
    OBVIOUS
  <2>1. /\ n - h - i + 1 \in 1 .. n - h /\ h + (n - h - i + 1) = n - i + 1
        /\ n - i + 1 \in 1 .. n /\ n - (n - i + 1) + 1 = i /\ i \in 1 .. n
    <3>1. n \in Nat
      BY <1>2
    <3>2. h \in Nat /\ h <= n /\ i \in Nat /\ 1 <= i /\ i <= n - h
      BY <3>1
    <3> QED BY <3>1, <3>2
  <2>2. Reverse(q)[i] = q[n - h - i + 1]
    BY <1>6
  <2>3. q[n - h - i + 1] = r[n - i + 1]
    BY <1>5, <2>1
  <2>4. r[n - i + 1] = t[i]
    BY <1>3, <2>1
  <2> QED BY <1>2, <2>1, <2>2, <2>3, <2>4
<1>10. Reverse(q) = SubSeq(s, k + 1, l)
  BY <1>6, <1>8, <1>9, SeqEqual
<1>11. DeleteLRChar(s, c) = SubSeq(s, k + 1, l)
  BY <1>4, <1>10 DEF DeleteLRChar, DeleteRChar, t, r, q
<1>12. \A i \in l + 1 .. Len(s) : s[i] = c
  <2> SUFFICES ASSUME NEW i \in l + 1 .. Len(s) PROVE s[i] = c
    OBVIOUS
  <2> DEFINE j == Len(s) - i + 1
  <2>1. /\ j \in 1 .. h /\ j \in 1 .. n /\ n - j + 1 \in 1 .. n /\ k + (n - j + 1) = i
    <3>1. n \in Nat
      BY <1>2
    <3>2. h \in Nat /\ h <= n /\ k \in Nat /\ Len(s) \in Nat
      BY <1>7, <3>1
    <3>3. l \in Nat /\ l - k = n - h /\ n = Len(s) - k
      BY <1>7, <3>2
    <3>4. i \in Nat /\ l + 1 <= i /\ i <= Len(s)
      BY <3>2, <3>3
    <3> QED BY <3>1, <3>2, <3>3, <3>4
  <2> HIDE DEF j
  <2> QED BY <1>2, <1>3, <1>4, <2>1
<1>13. ASSUME k < l PROVE s[k + 1] # c /\ s[l] # c
  <2>1. /\ h < n /\ h + 1 \in 1 .. n /\ n - (h + 1) + 1 \in 1 .. n
        /\ k + (n - (h + 1) + 1) = l /\ k < Len(s)
    <3>1. k \in Nat /\ h \in Nat /\ n \in Nat /\ l \in Nat /\ Len(s) \in Nat
      BY <1>2, <1>7
    <3>2. l - k = n - h /\ n = Len(s) - k
      BY <1>7
    <3> QED BY <1>13, <3>1, <3>2
  <2> QED BY <1>1, <1>2, <1>3, <1>4, <2>1
<1> QED BY <1>1, <1>7, <1>11, <1>12, <1>13
=============================================================================
