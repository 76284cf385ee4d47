---------------------------- MODULE ProcessTable ----------------------------
(***************************************************************************)
(* The table of heartbeats that processes share (CPActive) and the         *)
(* semaphore that is to guard it (CSEM), src/public/_public.cpp.           *)
(*                                                                         *)
(* A process is named by its pid.  A pid that ended is used again for a    *)
(* later process, so a restart is a second Start of the same pid.  The     *)
(* semaphore and the table are kernel objects that outlive every process.  *)
(* Removing a record is a memset outside the lock: its fields fall one by  *)
(* one, in any order.  semop may be interrupted by a signal: P() then      *)
(* reports false, and AddPInfo does not look at what P() reports.          *)
(***************************************************************************)
EXTENDS Integers, FiniteSets

CONSTANTS Pids,          \* the process ids
          NoPid,         \* the zero of an empty record
          MAXNUMP,       \* the records of the table
          MaxStarts,     \* bound: processes started
          MaxInterrupts  \* bound: semop calls that a signal interrupts

ASSUME NoPidAssumption == NoPid \notin Pids
ASSUME NumberAssumption == MAXNUMP \in Nat \ {0}

Slots == 1 .. MAXNUMP
Fields == {"pid", "atime"}   \* name and timeout share the fate of atime in a memset
Empty == [f \in Fields |-> NoPid]

VARIABLES
  stage,      \* where each process is in AddPInfo and in the destructor
  semid,      \* the processes whose CSEM holds a semaphore (m_semid # -1)
  pos,        \* m_pos of each process, 0 for the -1 of the code
  at,         \* the counter of the loop that looks for an empty record
  sem,        \* the value of the semaphore, -1 while there is none
  undo,       \* what the kernel adds to the semaphore when a process ends
  table,      \* whose pid and heartbeat time each record holds
  wiping,     \* the fields that the memset of a process has still to clear
  starts, interrupts

pvars == <<stage, semid, pos, at, sem, undo, table, wiping, starts, interrupts>>

Stages == {"absent", "out", "create", "setval", "get", "scan", "lock",
           "search", "store", "full", "unlock", "member", "wipe"}

TableInit ==
  /\ stage = [p \in Pids |-> "absent"]
  /\ semid = {}
  /\ pos = [p \in Pids |-> 0]
  /\ at = [p \in Pids |-> 1]
  /\ sem = -1
  /\ undo = [p \in Pids |-> 0]
  /\ table = [s \in Slots |-> Empty]
  /\ wiping = [p \in Pids |-> {}]
  /\ starts = 0
  /\ interrupts = 0

Go(p, from, to) == stage[p] = from /\ stage' = [stage EXCEPT ![p] = to]

\* A process starts: its CPActive holds neither a semaphore nor a record.
Start(p) ==
  /\ starts < MaxStarts
  /\ Go(p, "absent", "out")
  /\ starts' = starts + 1
  /\ UNCHANGED <<semid, pos, at, sem, undo, table, wiping, interrupts>>

-----------------------------------------------------------------------------
(* CSEM::init *)

\* The first semget: it finds the semaphore, or there is none to be found.
Init1(p) ==
  /\ p \notin semid
  /\ Go(p, "out", IF sem = -1 THEN "create" ELSE "scan")
  /\ semid' = IF sem = -1 THEN semid ELSE semid \cup {p}
  /\ UNCHANGED <<pos, at, sem, undo, table, wiping, starts, interrupts>>

\* IPC_EXCL: one process creates the semaphore, with the value 0.
Create(p) ==
  /\ Go(p, "create", IF sem = -1 THEN "setval" ELSE "get")
  /\ sem' = IF sem = -1 THEN 0 ELSE sem
  /\ semid' = IF sem = -1 THEN semid \cup {p} ELSE semid
  /\ UNCHANGED <<pos, at, undo, table, wiping, starts, interrupts>>

\* A mutated form: the semaphore counts the records, not the processes.
SetTwo(p) ==
  /\ Go(p, "setval", "scan")
  /\ sem' = 2
  /\ undo' = [q \in Pids |-> 0]
  /\ UNCHANGED <<semid, pos, at, table, wiping, starts, interrupts>>

\* The creator sets the value; SETVAL forgets what the kernel was to undo.
SetVal(p) ==
  /\ Go(p, "setval", "scan")
  /\ sem' = 1
  /\ undo' = [q \in Pids |-> 0]
  /\ UNCHANGED <<semid, pos, at, table, wiping, starts, interrupts>>

Get(p) ==
  /\ Go(p, "get", "scan")
  /\ semid' = semid \cup {p}
  /\ UNCHANGED <<pos, at, sem, undo, table, wiping, starts, interrupts>>

-----------------------------------------------------------------------------
(* CPActive::AddPInfo *)

\* shmget fails: AddPInfo reports false, and m_semid stays set, so that every
\* later AddPInfo of this object is refused by CSEM::init.
NoMemory(p) ==
  /\ Go(p, "scan", "out")
  /\ UNCHANGED <<semid, pos, at, sem, undo, table, wiping, starts, interrupts>>

OwnSlots(p) == {s \in Slots : table[s]["pid"] = p}

\* A mutated form: the empty record is looked for before the lock.
ScanForEmpty(p) ==
  /\ Go(p, "scan", "lock")
  /\ \E s \in Slots :
       /\ table[s]["pid"] \in {p, NoPid}
       /\ pos' = [pos EXCEPT ![p] = s]
  /\ UNCHANGED <<semid, at, sem, undo, table, wiping, starts, interrupts>>

\* A mutated form: the record that an earlier process left is not looked for.
ScanNothing(p) ==
  /\ Go(p, "scan", "lock")
  /\ UNCHANGED <<semid, pos, at, sem, undo, table, wiping, starts, interrupts>>

\* Before the lock: a record with the own pid was left by another process.
Scan(p) ==
  /\ Go(p, "scan", "lock")
  /\ pos' = [pos EXCEPT ![p] =
       IF OwnSlots(p) = {} THEN 0
       ELSE CHOOSE s \in OwnSlots(p) : \A t \in OwnSlots(p) : s <= t]
  /\ UNCHANGED <<semid, at, sem, undo, table, wiping, starts, interrupts>>

Add(p, n) == [undo EXCEPT ![p] = @ - n]

\* The semaphore is taken, and with SEM_UNDO the kernel notes it.
P(p) ==
  /\ sem > 0
  /\ Go(p, "lock", IF pos[p] = 0 THEN "search" ELSE "store")
  /\ sem' = sem - 1
  /\ undo' = Add(p, -1)
  /\ at' = [at EXCEPT ![p] = 1]
  /\ UNCHANGED <<semid, pos, table, wiping, starts, interrupts>>

\* semop is interrupted: P() is false, and AddPInfo goes on without the lock.
Interrupted(p) ==
  /\ interrupts < MaxInterrupts
  /\ Go(p, "lock", IF pos[p] = 0 THEN "search" ELSE "store")
  /\ interrupts' = interrupts + 1
  /\ at' = [at EXCEPT ![p] = 1]
  /\ UNCHANGED <<semid, pos, sem, undo, table, wiping, starts>>

\* The loop looks at one record after the other for one whose pid is 0.
Search(p) ==
  /\ IF table[at[p]]["pid"] = NoPid
     THEN /\ Go(p, "search", "store")
          /\ pos' = [pos EXCEPT ![p] = at[p]]
          /\ at' = at
     ELSE IF at[p] < MAXNUMP
     THEN /\ Go(p, "search", "search")
          /\ at' = [at EXCEPT ![p] = @ + 1]
          /\ pos' = pos
     ELSE /\ Go(p, "search", "full")
          /\ UNCHANGED <<pos, at>>
  /\ UNCHANGED <<semid, sem, undo, table, wiping, starts, interrupts>>

Store(p) ==
  /\ Go(p, "store", "unlock")
  /\ table' = [table EXCEPT ![pos[p]] = [f \in Fields |-> p]]
  /\ UNCHANGED <<semid, pos, at, sem, undo, wiping, starts, interrupts>>

\* V() on both ways out, with a record and with the table full.
V(p) ==
  /\ \/ Go(p, "unlock", "member")
     \/ Go(p, "full", "out")
  /\ sem' = sem + 1
  /\ undo' = Add(p, 1)
  /\ UNCHANGED <<semid, pos, at, table, wiping, starts, interrupts>>

-----------------------------------------------------------------------------
(* UptATime, the destructor, and the end of a process *)

UptATime(p) ==
  /\ stage[p] = "member"
  /\ table' = [table EXCEPT ![pos[p]]["atime"] = p]
  /\ UNCHANGED <<stage, semid, pos, at, sem, undo, wiping, starts, interrupts>>

Destroy(p) ==
  /\ Go(p, "member", "wipe")
  /\ wiping' = [wiping EXCEPT ![p] = Fields]
  /\ UNCHANGED <<semid, pos, at, sem, undo, table, starts, interrupts>>

\* One store of the memset.
Wipe(p) ==
  /\ stage[p] = "wipe"
  /\ \E f \in wiping[p] :
       /\ table' = [table EXCEPT ![pos[p]][f] = NoPid]
       /\ wiping' = [wiping EXCEPT ![p] = @ \ {f}]
  /\ UNCHANGED <<stage, semid, pos, at, sem, undo, starts, interrupts>>

\* A mutated form: sem_flg is 0, and nothing is undone.
EndsWithoutUndo(p) ==
  /\ stage' = [stage EXCEPT ![p] = "absent"]
  /\ semid' = semid \ {p}
  /\ pos' = [pos EXCEPT ![p] = 0]
  /\ at' = [at EXCEPT ![p] = 1]
  /\ wiping' = [wiping EXCEPT ![p] = {}]
  /\ UNCHANGED <<sem, undo, table, starts, interrupts>>

\* The process is gone: its semaphore adjustment is undone, its record stays.
ProcessEnds(p) ==
  /\ sem' = IF sem + undo[p] < 0 /\ sem >= 0 THEN 0 ELSE sem + undo[p]
  /\ undo' = [undo EXCEPT ![p] = 0]
  /\ stage' = [stage EXCEPT ![p] = "absent"]
  /\ semid' = semid \ {p}
  /\ pos' = [pos EXCEPT ![p] = 0]
  /\ at' = [at EXCEPT ![p] = 1]
  /\ wiping' = [wiping EXCEPT ![p] = {}]
  /\ UNCHANGED <<table, starts, interrupts>>

Exit(p) ==
  /\ \/ stage[p] = "out"
     \/ stage[p] = "wipe" /\ wiping[p] = {}
  /\ ProcessEnds(p)

Crash(p) == stage[p] \notin {"absent", "out"} /\ ProcessEnds(p)

Own(p) ==
  \/ Create(p) \/ SetVal(p) \/ Get(p) \/ Scan(p) \/ P(p)
  \/ Search(p) \/ Store(p) \/ V(p) \/ Wipe(p) \/ Exit(p)

TableNext == \E p \in Pids :
  \/ Own(p) \/ Start(p) \/ Init1(p) \/ NoMemory(p) \/ Interrupted(p)
  \/ UptATime(p) \/ Destroy(p) \/ Crash(p)

TableSpec == TableInit /\ [][TableNext]_pvars

-----------------------------------------------------------------------------
(* Properties *)

TableTypeOK ==
  /\ stage \in [Pids -> Stages]
  /\ semid \subseteq Pids
  /\ pos \in [Pids -> Slots \cup {0}]
  /\ at \in [Pids -> Slots]
  /\ sem \in Int
  /\ undo \in [Pids -> Int]
  /\ table \in [Slots -> [Fields -> Pids \cup {NoPid}]]
  /\ wiping \in [Pids -> SUBSET Fields]
  /\ starts \in Nat
  /\ interrupts \in Nat

Inside(p) == stage[p] \in {"search", "store", "full", "unlock"}

\* While no signal interrupts semop, one process at a time is between P() and
\* V(), whoever created the semaphore and whoever died holding it.
OneInside ==
  interrupts = 0 => \A p, q \in Pids : Inside(p) /\ Inside(q) => p = q

\* A pid has one record at most, whatever its earlier processes left behind:
\* the comment at _public.cpp:2267 fears a second one, whose stale heartbeat
\* would have the new process killed.
OneRecordPerPid ==
  \A s, t \in Slots : table[s]["pid"] \in Pids
                      /\ table[s]["pid"] = table[t]["pid"] => s = t

\* While no signal interrupts semop, a registered process keeps its record: no
\* other process takes it or beats in it, although records are removed and
\* heartbeats written without the lock.  The fields behind the pid may be
\* lost to a process that was still clearing the record when it was taken.
MemberKeepsRecord ==
  interrupts = 0 =>
    \A p \in Pids : stage[p] \in {"unlock", "member"} =>
      /\ table[pos[p]]["pid"] = p
      /\ \A f \in Fields : table[pos[p]][f] \in {p, NoPid}

\* A semaphore whose creator died before SETVAL stays at 0 for ever.
Stillborn == sem = 0 /\ \A p \in Pids : stage[p] # "setval" /\ undo[p] = 0

\* A process that waits for the lock gets it, whoever dies holding it, unless
\* the semaphore is stillborn.
LockComes == \A p \in Pids : stage[p] = "lock" ~> stage[p] # "lock" \/ Stillborn
=============================================================================
