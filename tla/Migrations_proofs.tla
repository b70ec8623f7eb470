-------------------------- MODULE Migrations_proofs --------------------------
(***************************************************************************)
(* Proofs about Migrations, for any number of runners and versions, any     *)
(* files and any faults.                                                    *)
(***************************************************************************)
EXTENDS Migrations, FiniteSetTheorems, WellFoundedInduction, TLAPS

-----------------------------------------------------------------------------
(* What a runner is, and how it moves.                                      *)

RunnerRecord ==
    [pc : {"idle", "status", "execute", "record", "drop"}, script : BOOLEAN,
     target : Version, loaded : [Version -> Nat], todo : SUBSET Version, stmt : Nat,
     ok : BOOLEAN, drops : SUBSET Object]

AtWork(r) == runner[r].pc \in {"execute", "record"}

RunnerType ==
    /\ runner \in [Runner -> RunnerRecord]
    /\ \A r \in Runner : AtWork(r) <=> runner[r].todo # {}

\* What changes when only runner r moves.
OnlyMoves(r) ==
    /\ runner' \in [Runner -> RunnerRecord]
    /\ \A q \in Runner \ {r} : runner'[q] = runner[q]

\* Some versions have a first one.
LEMMA FirstExists ==
    ASSUME NEW T \in SUBSET Version, T # {}
    PROVE  \E v \in T : \A u \in T : v <= u
<1>1. T \subseteq Nat
    BY MigrationsAssumption DEF MigrationsAssumption, Version
<1>2. PICK v \in T : \A u \in T : ~(<<u, v>> \in OpToRel(<, Nat))
    BY <1>1, NatLessThanWellFounded, WFMin
<1>3. \A u \in T : ~(u < v)
    BY <1>1, <1>2 DEF OpToRel
<1>4. \A u \in T : v <= u
    BY <1>1, <1>3
<1> QED
    BY <1>4

\* A runner which has something to apply is at the first of it.
LEMMA CurrentIsFirst ==
    ASSUME NEW r \in Runner, runner[r].todo \subseteq Version, runner[r].todo # {}
    PROVE  Current(r) \in runner[r].todo /\ \A u \in runner[r].todo : Current(r) <= u
<1>1. \E v \in runner[r].todo : \A u \in runner[r].todo : v <= u
    BY FirstExists
<1> QED
    BY <1>1 DEF Current

LEMMA IdleIsRunner == Idle \in RunnerRecord /\ Idle.pc = "idle" /\ Idle.todo = {}
BY MigrationsAssumption DEF Idle, RunnerRecord, Version, MigrationsAssumption

LEMMA FinishMoves ==
    ASSUME RunnerType, NEW r \in Runner, Finish(r)
    PROVE  OnlyMoves(r) /\ runner'[r] = Idle
BY IdleIsRunner DEF Finish, OnlyMoves, RunnerType

\* After NextFile the runner is through, or has one version less.
LEMMA NextFileMoves ==
    ASSUME RunnerType, NEW r \in Runner, AtWork(r), NextFile(r)
    PROVE  /\ OnlyMoves(r)
           /\ \/ runner'[r] = Idle
              \/ /\ runner'[r].pc = "execute" /\ runner'[r].stmt = 1
                 /\ runner'[r].script = runner[r].script
                 /\ runner'[r].todo = runner[r].todo \ {Current(r)}
                 /\ runner'[r].todo # {}
<1>1. CASE runner[r].todo = {Current(r)}
    BY <1>1, FinishMoves DEF NextFile
<1>2. CASE runner[r].todo # {Current(r)}
    <2> PICK c : c = Current(r)
        OBVIOUS
    <2>1. runner[r] \in RunnerRecord /\ runner[r].todo # {}
        BY DEF RunnerType
    <2>x. PICK x : x = [runner[r] EXCEPT !.pc = "execute", !.stmt = 1, !.todo = @ \ {c}]
        OBVIOUS
    <2>2. runner' = [runner EXCEPT ![r] = x]
        BY <1>2, <2>x DEF NextFile
    <2>3. /\ x \in RunnerRecord /\ x.pc = "execute" /\ x.stmt = 1
          /\ x.script = runner[r].script /\ x.todo = runner[r].todo \ {c}
        BY <2>1, <2>x DEF RunnerRecord
    <2>4. x.todo # {}
        BY <1>2, <2>1, <2>3
    <2>5. runner'[r] = x /\ OnlyMoves(r)
        BY <2>2, <2>3 DEF OnlyMoves, RunnerType
    <2> QED
        BY <2>3, <2>4, <2>5
<1> QED
    BY <1>1, <1>2

\* A failed statement leads a runner to the record, and start.sh to the next file.
LEMMA FailureMoves ==
    ASSUME RunnerType, NEW r \in Runner, AtWork(r), StatementFailed(r)
    PROVE  /\ OnlyMoves(r)
           /\ ~runner[r].script =>
                 /\ runner'[r].pc = "record" /\ ~runner'[r].ok
                 /\ runner'[r].todo = runner[r].todo
           /\ \/ runner[r].script /\ NextFile(r)
              \/ /\ ~runner[r].script /\ ~runner'[r].script
                 /\ runner'[r].stmt = runner[r].stmt
<1>1. CASE runner[r].script
    BY <1>1, NextFileMoves DEF StatementFailed
<1>2. CASE ~runner[r].script
    <2>x. PICK x : x = [runner[r] EXCEPT !.pc = "record", !.ok = FALSE]
        OBVIOUS
    <2>1. runner' = [runner EXCEPT ![r] = x]
        BY <1>2, <2>x DEF StatementFailed
    <2>2. /\ x \in RunnerRecord /\ x.pc = "record" /\ ~x.ok /\ ~x.script
          /\ x.todo = runner[r].todo /\ x.stmt = runner[r].stmt
        BY <1>2, <2>x DEF RunnerRecord, RunnerType
    <2>3. runner'[r] = x /\ OnlyMoves(r)
        BY <2>1, <2>2 DEF OnlyMoves, RunnerType
    <2> QED
        BY <1>2, <2>2, <2>3
<1> QED
    BY <1>1, <1>2

\* A statement that went through leads to the next one, to the record, or, in
\* start.sh, to the next file.
LEMMA SuccessMoves ==
    ASSUME RunnerType, NEW r \in Runner, AtWork(r), StatementDone(r)
    PROVE  /\ OnlyMoves(r)
           /\ \/ runner[r].script /\ NextFile(r)
              \/ /\ runner[r].stmt < Len(Creates[Current(r)])
                 /\ runner'[r].pc = runner[r].pc
                 /\ runner'[r].stmt = runner[r].stmt + 1
                 /\ runner'[r].todo = runner[r].todo
                 /\ runner'[r].script = runner[r].script
              \/ /\ ~(runner[r].stmt < Len(Creates[Current(r)]))
                 /\ ~runner[r].script /\ ~runner'[r].script
                 /\ runner'[r].pc = "record"
                 /\ runner'[r].stmt = runner[r].stmt
                 /\ runner'[r].todo = runner[r].todo
<1>r. runner[r] \in RunnerRecord
    BY DEF RunnerType
<1>1. CASE runner[r].stmt < Len(Creates[Current(r)])
    <2>s. PICK s : s = runner[r].stmt + 1
        OBVIOUS
    <2>n. s \in Nat
        BY <1>r, <2>s DEF RunnerRecord
    <2>x. PICK x : x = [runner[r] EXCEPT !.stmt = s]
        OBVIOUS
    <2>1. runner' = [runner EXCEPT ![r] = x]
        BY <1>1, <2>s, <2>x DEF StatementDone
    <2>2. /\ x \in RunnerRecord /\ x.pc = runner[r].pc /\ x.stmt = s
          /\ x.todo = runner[r].todo /\ x.script = runner[r].script
        BY <1>r, <2>n, <2>x DEF RunnerRecord
    <2>3. runner'[r] = x /\ OnlyMoves(r)
        BY <2>1, <2>2 DEF OnlyMoves, RunnerType
    <2> QED
        BY <1>1, <2>s, <2>2, <2>3
<1>2. CASE ~(runner[r].stmt < Len(Creates[Current(r)])) /\ runner[r].script
    BY <1>2, NextFileMoves DEF StatementDone
<1>3. CASE ~(runner[r].stmt < Len(Creates[Current(r)])) /\ ~runner[r].script
    <2>x. PICK x : x = [runner[r] EXCEPT !.pc = "record", !.ok = TRUE]
        OBVIOUS
    <2>1. runner' = [runner EXCEPT ![r] = x]
        BY <1>3, <2>x DEF StatementDone
    <2>2. /\ x \in RunnerRecord /\ x.pc = "record" /\ ~x.script
          /\ x.todo = runner[r].todo /\ x.stmt = runner[r].stmt
        BY <1>r, <1>3, <2>x DEF RunnerRecord
    <2>3. runner'[r] = x /\ OnlyMoves(r)
        BY <2>1, <2>2 DEF OnlyMoves, RunnerType
    <2> QED
        BY <1>3, <2>2, <2>3
<1> QED
    BY <1>1, <1>2, <1>3

LEMMA StartMoves ==
    ASSUME RunnerType, NEW r \in Runner, NEW target \in Version, file \in [Version -> Nat],
           Start(r, target)
    PROVE  /\ OnlyMoves(r) /\ runner'[r].pc = "status" /\ runner'[r].todo = {}
           /\ ~runner'[r].script
<1>x. PICK x : x = [Idle EXCEPT !.pc = "status", !.target = target, !.loaded = file]
    OBVIOUS
<1>1. runner' = [runner EXCEPT ![r] = x]
    BY <1>x DEF Start
<1>2. x \in RunnerRecord /\ x.pc = "status" /\ x.todo = {} /\ ~x.script
    BY <1>x, IdleIsRunner DEF RunnerRecord, Idle
<1> QED
    BY <1>1, <1>2 DEF OnlyMoves, RunnerType

LEMMA GetStatusMoves ==
    ASSUME RunnerType, NEW r \in Runner, GetStatus(r)
    PROVE  /\ OnlyMoves(r)
           /\ \/ runner'[r] = Idle
              \/ /\ runner'[r].pc = "execute" /\ runner'[r].stmt = runner[r].stmt
                 /\ runner'[r].todo = ToApply(r) /\ ToApply(r) # {}
                 /\ runner'[r].script = runner[r].script
<1>1. CASE Verified(r) /\ ToApply(r) # {}
    <2>t. PICK t : t = ToApply(r)
        OBVIOUS
    <2>n. t \in SUBSET Version
        BY <2>t DEF ToApply, Pending
    <2>x. PICK x : x = [runner[r] EXCEPT !.pc = "execute", !.todo = t]
        OBVIOUS
    <2>1. runner' = [runner EXCEPT ![r] = x]
        BY <1>1, <2>t, <2>x DEF GetStatus
    <2>2. /\ x \in RunnerRecord /\ x.pc = "execute" /\ x.stmt = runner[r].stmt
          /\ x.todo = t /\ x.script = runner[r].script
        BY <2>n, <2>x DEF RunnerRecord, RunnerType
    <2>3. runner'[r] = x /\ OnlyMoves(r)
        BY <2>1, <2>2 DEF OnlyMoves, RunnerType
    <2> QED
        BY <1>1, <2>t, <2>2, <2>3
<1>2. CASE ~(Verified(r) /\ ToApply(r) # {})
    BY <1>2, FinishMoves DEF GetStatus
<1> QED
    BY <1>1, <1>2

LEMMA MissMoves ==
    ASSUME RunnerType, NEW r \in Runner, MissRecords(r)
    PROVE  /\ OnlyMoves(r) /\ runner'[r].pc = "execute" /\ runner'[r].stmt = runner[r].stmt
           /\ runner'[r].todo = {v \in Version : v <= runner[r].target}
           /\ runner'[r].todo # {} /\ runner'[r].todo \subseteq Version
<1>t. PICK t : t = {v \in Version : v <= runner[r].target}
    OBVIOUS
<1>n. t \in SUBSET Version /\ t # {}
    <2>1. runner[r] \in RunnerRecord
        BY DEF RunnerType
    <2>2. PICK n : n = runner[r].target /\ n \in Version
        BY <2>1 DEF RunnerRecord
    <2>3. n <= n
        BY <2>2 DEF Version
    <2> QED
        BY <1>t, <2>2, <2>3
<1>x. PICK x : x = [runner[r] EXCEPT !.pc = "execute", !.todo = t]
    OBVIOUS
<1>1. runner' = [runner EXCEPT ![r] = x]
    BY <1>t, <1>x DEF MissRecords
<1>2. x \in RunnerRecord /\ x.pc = "execute" /\ x.stmt = runner[r].stmt /\ x.todo = t
    BY <1>n, <1>x DEF RunnerRecord, RunnerType
<1>3. runner'[r] = x /\ OnlyMoves(r)
    BY <1>1, <1>2 DEF OnlyMoves, RunnerType
<1> QED
    BY <1>t, <1>n, <1>2, <1>3

LEMMA ScriptMoves ==
    ASSUME RunnerType, NEW r \in Runner, StartScript(r)
    PROVE  /\ OnlyMoves(r) /\ runner'[r].pc = "execute" /\ runner'[r].script
           /\ runner'[r].todo # {} /\ runner'[r].stmt = 1
<1>x. PICK x : x = [Idle EXCEPT !.pc = "execute", !.script = TRUE, !.todo = Version]
    OBVIOUS
<1>1. runner' = [runner EXCEPT ![r] = x]
    BY <1>x DEF StartScript
<1>2. x \in RunnerRecord /\ x.pc = "execute" /\ x.todo = Version /\ x.script /\ x.stmt = 1
    BY <1>x, IdleIsRunner DEF RunnerRecord, Idle
<1>3. 0 \in Version
    BY MigrationsAssumption DEF MigrationsAssumption, Version
<1> QED
    BY <1>1, <1>2, <1>3 DEF OnlyMoves, RunnerType

\* A reset is never at work on migrations.
LEMMA ResetMoves ==
    ASSUME RunnerType, NEW r \in Runner, StartReset(r) \/ DropTable(r), objects \subseteq Object
    PROVE  OnlyMoves(r) /\ runner'[r].pc \in {"drop", "idle"} /\ runner'[r].todo = {}
<1>1. CASE StartReset(r)
    <2>o. PICK o : o = objects
        OBVIOUS
    <2>x. PICK x : x = [Idle EXCEPT !.pc = "drop", !.drops = o]
        OBVIOUS
    <2>1. runner' = [runner EXCEPT ![r] = x]
        BY <1>1, <2>o, <2>x DEF StartReset
    <2>2. x \in RunnerRecord /\ x.pc = "drop" /\ x.todo = {}
        BY <2>o, <2>x, IdleIsRunner DEF RunnerRecord, Idle
    <2> QED
        BY <2>1, <2>2 DEF OnlyMoves, RunnerType
<1>2. ASSUME DropTable(r), ~Finish(r)
      PROVE  OnlyMoves(r) /\ runner'[r].pc = "drop" /\ runner'[r].todo = {}
    <2>1. PICK o : runner' = [runner EXCEPT ![r].drops = @ \ {o}]
        BY <1>2 DEF DropTable
    <2>2. runner[r] \in RunnerRecord /\ runner[r].pc = "drop" /\ runner[r].todo = {}
        BY <1>2 DEF RunnerType, DropTable, AtWork
    <2>x. PICK x : x = [runner[r] EXCEPT !.drops = @ \ {o}]
        OBVIOUS
    <2>3. runner' = [runner EXCEPT ![r] = x]
        BY <2>1, <2>x
    <2>4. x \in RunnerRecord /\ x.pc = "drop" /\ x.todo = {}
        BY <2>2, <2>x DEF RunnerRecord
    <2> QED
        BY <2>3, <2>4 DEF OnlyMoves, RunnerType
<1>3. CASE Finish(r)
    BY <1>3, FinishMoves, IdleIsRunner
<1> QED
    BY <1>1, <1>2, <1>3


-----------------------------------------------------------------------------
(* Type correctness.                                                       *)

StmtType ==
    \A r \in Runner :
        /\ runner[r].pc = "status" => runner[r].stmt = 1
        /\ runner[r].todo # {} => runner[r].stmt \in 1..Len(Creates[Current(r)])

Row == [version : Version, checksum : Nat, status : {"success", "failed"}]

StoreType ==
    /\ objects \subseteq Object /\ dropped \subseteq Object
    /\ records \in Seq(Row)
    /\ file \in [Version -> Nat]
    /\ faults \in 0..MaxFaults

TypeInv == RunnerType /\ StmtType /\ StoreType

LEMMA FilesHaveStatements ==
    ASSUME NEW v \in Version
    PROVE  /\ Creates[v] \in Seq(Object) /\ Len(Creates[v]) \in Nat \ {0}
           /\ DOMAIN Creates[v] = 1..Len(Creates[v])
<1>1. Creates[v] \in Seq(Object) /\ Creates[v] # <<>>
    BY MigrationsAssumption DEF MigrationsAssumption
<1> QED
    BY <1>1

\* A runner at work is at a version, and at a statement of it.
LEMMA StatementExists ==
    ASSUME RunnerType, StmtType, NEW r \in Runner, AtWork(r)
    PROVE  /\ Current(r) \in runner[r].todo /\ Current(r) \in Version
           /\ \A u \in runner[r].todo : Current(r) <= u
           /\ runner[r].stmt \in DOMAIN Creates[Current(r)]
           /\ Statement(r) \in Object
<1>1. runner[r].todo \subseteq Version /\ runner[r].todo # {}
    BY DEF RunnerType, RunnerRecord
<1>2. Current(r) \in runner[r].todo /\ \A u \in runner[r].todo : Current(r) <= u
    BY <1>1, CurrentIsFirst
<1>3. runner[r].stmt \in DOMAIN Creates[Current(r)]
    BY <1>1, <1>2, FilesHaveStatements DEF StmtType
<1>4. Creates[Current(r)][runner[r].stmt] \in Object
    BY <1>1, <1>2, <1>3, FilesHaveStatements
<1> QED
    BY <1>1, <1>2, <1>3, <1>4 DEF Statement

LEMMA OneMoves ==
    ASSUME RunnerType, StmtType, NEW r \in Runner, OnlyMoves(r),
           runner'[r].pc \in {"execute", "record"} <=> runner'[r].todo # {},
           runner'[r].pc = "status" => runner'[r].stmt = 1,
           runner'[r].todo # {} => runner'[r].stmt \in 1..Len(Creates[Current(r)'])
    PROVE  RunnerType' /\ StmtType'
<1>1. RunnerType'
    BY DEF RunnerType, OnlyMoves, AtWork
<1>2. \A q \in Runner \ {r} : Current(q)' = Current(q)
    BY DEF OnlyMoves, Current
<1>3. StmtType'
    BY <1>2 DEF StmtType, OnlyMoves
<1> QED
    BY <1>1, <1>3

LEMMA IdleMoves ==
    ASSUME RunnerType, StmtType, NEW r \in Runner, OnlyMoves(r), runner'[r] = Idle
    PROVE  RunnerType' /\ StmtType'
BY OneMoves, IdleIsRunner

LEMMA NextFileTypes ==
    ASSUME RunnerType, StmtType, NEW r \in Runner, AtWork(r), NextFile(r)
    PROVE  RunnerType' /\ StmtType'
<1>1. CASE runner'[r] = Idle
    BY <1>1, NextFileMoves, IdleMoves
<1>2. CASE runner'[r] # Idle
    <2>1. /\ OnlyMoves(r) /\ runner'[r].pc = "execute" /\ runner'[r].stmt = 1
          /\ runner'[r].todo = runner[r].todo \ {Current(r)} /\ runner'[r].todo # {}
        BY <1>2, NextFileMoves
    <2>2. runner'[r].todo \subseteq Version
        BY <2>1 DEF OnlyMoves, RunnerRecord
    <2>f. \E v \in runner'[r].todo : \A u \in runner'[r].todo : v <= u
        BY <2>1, <2>2, FirstExists
    <2>3. Current(r)' \in Version
        BY <2>2, <2>f DEF Current
    <2>4. 1 \in 1..Len(Creates[Current(r)'])
        BY <2>3, FilesHaveStatements
    <2> QED
        BY <2>1, <2>4, OneMoves
<1> QED
    BY <1>1, <1>2

\* A runner keeps its version while what it has to apply stays the same.
LEMMA SameVersion ==
    ASSUME NEW r \in Runner, runner'[r].todo = runner[r].todo
    PROVE  Current(r)' = Current(r)
BY DEF Current

LEMMA FailureTypes ==
    ASSUME RunnerType, StmtType, NEW r \in Runner, AtWork(r), StatementFailed(r)
    PROVE  RunnerType' /\ StmtType'
<1>1. CASE runner[r].script
    BY <1>1, FailureMoves, NextFileTypes
<1>2. CASE ~runner[r].script
    <2>1. /\ OnlyMoves(r) /\ runner'[r].pc = "record" /\ runner'[r].stmt = runner[r].stmt
          /\ runner'[r].todo = runner[r].todo
        BY <1>2, FailureMoves
    <2>2. runner[r].todo # {} /\ runner[r].stmt \in 1..Len(Creates[Current(r)])
        BY DEF RunnerType, StmtType
    <2> QED
        BY <2>1, <2>2, SameVersion, OneMoves
<1> QED
    BY <1>1, <1>2

LEMMA SuccessTypes ==
    ASSUME RunnerType, StmtType, NEW r \in Runner, AtWork(r), StatementDone(r)
    PROVE  RunnerType' /\ StmtType'
<1>1. runner[r].todo # {} /\ runner[r].stmt \in 1..Len(Creates[Current(r)])
    BY DEF RunnerType, StmtType
<1>2. Len(Creates[Current(r)]) \in Nat
    BY StatementExists, FilesHaveStatements
<1>3. CASE runner[r].script /\ NextFile(r)
    BY <1>3, NextFileTypes
<1>4. CASE /\ runner[r].stmt < Len(Creates[Current(r)])
           /\ runner'[r].pc = runner[r].pc /\ runner'[r].stmt = runner[r].stmt + 1
           /\ runner'[r].todo = runner[r].todo
    <2>1. Current(r)' = Current(r) /\ OnlyMoves(r)
        BY <1>4, SameVersion, SuccessMoves
    <2>2. runner'[r].stmt \in 1..Len(Creates[Current(r)])
        BY <1>1, <1>2, <1>4
    <2> QED
        BY <1>1, <1>4, <2>1, <2>2, OneMoves DEF AtWork
<1>5. CASE /\ runner'[r].pc = "record" /\ runner'[r].stmt = runner[r].stmt
           /\ runner'[r].todo = runner[r].todo
    BY <1>1, <1>5, SameVersion, SuccessMoves, OneMoves
<1> QED
    BY <1>3, <1>4, <1>5, SuccessMoves


LEMMA RunnersStep == TypeInv /\ [Next]_vars => RunnerType' /\ StmtType'
<1> SUFFICES ASSUME TypeInv, [Next]_vars PROVE RunnerType' /\ StmtType'
    OBVIOUS
<1> USE DEF TypeInv
<1>1. CASE UNCHANGED runner
    BY <1>1 DEF RunnerType, StmtType, AtWork, Current
<1>2. ASSUME NEW r \in Runner, NEW target \in Version, Start(r, target)
      PROVE  RunnerType' /\ StmtType'
    <2>1. runner'[r].stmt = 1
        BY <1>2 DEF Start, Idle, RunnerType
    <2> QED
        BY <1>2, <2>1, StartMoves, OneMoves DEF StoreType
<1>3. ASSUME NEW r \in Runner, GetStatus(r) PROVE RunnerType' /\ StmtType'
    <2>1. CASE runner'[r] = Idle
        BY <1>3, <2>1, GetStatusMoves, IdleMoves
    <2>2. CASE runner'[r] # Idle
        <3>1. /\ OnlyMoves(r) /\ runner'[r].pc = "execute" /\ runner'[r].todo # {}
              /\ runner'[r].stmt = 1
            BY <1>3, <2>2, GetStatusMoves DEF GetStatus, StmtType
        <3>2. runner'[r].todo \subseteq Version
            BY <3>1 DEF OnlyMoves, RunnerRecord
        <3>f. \E v \in runner'[r].todo : \A u \in runner'[r].todo : v <= u
            BY <3>1, <3>2, FirstExists
        <3>3. Current(r)' \in Version
            BY <3>2, <3>f DEF Current
        <3>4. 1 \in 1..Len(Creates[Current(r)'])
            BY <3>3, FilesHaveStatements
        <3> QED
            BY <3>1, <3>4, OneMoves
    <2> QED
        BY <2>1, <2>2
<1>4. ASSUME NEW r \in Runner, Execute(r) PROVE RunnerType' /\ StmtType'
    BY <1>4, SuccessTypes, FailureTypes DEF Execute, AtWork
<1>5. ASSUME NEW r \in Runner, NEW applied \in BOOLEAN, ExecuteFails(r, applied)
      PROVE  RunnerType' /\ StmtType'
    BY <1>5, FailureTypes DEF ExecuteFails, AtWork
<1>6. ASSUME NEW r \in Runner, Record(r) PROVE RunnerType' /\ StmtType'
    BY <1>6, NextFileTypes, FinishMoves, IdleMoves DEF Record, AtWork
<1>7. ASSUME NEW r \in Runner, StartScript(r) PROVE RunnerType' /\ StmtType'
    <2>1. runner'[r].todo = Version /\ Version # {}
        BY <1>7, ScriptMoves DEF StartScript, RunnerType, Idle
    <2>2. \E v \in Version : \A u \in Version : v <= u
        BY <2>1, FirstExists
    <2>3. Current(r)' \in Version
        BY <2>1, <2>2 DEF Current
    <2>4. 1 \in 1..Len(Creates[Current(r)'])
        BY <2>3, FilesHaveStatements
    <2> QED
        BY <1>7, <2>4, ScriptMoves, OneMoves
<1>8. ASSUME NEW r \in Runner, StartReset(r) \/ DropTable(r) PROVE RunnerType' /\ StmtType'
    BY <1>8, ResetMoves, OneMoves DEF StoreType
<1>9. ASSUME NEW r \in Runner, Crash(r) PROVE RunnerType' /\ StmtType'
    BY <1>9, FinishMoves, IdleMoves DEF Crash
<1>10. ASSUME NEW r \in Runner, MissRecords(r) PROVE RunnerType' /\ StmtType'
    <2>1. /\ OnlyMoves(r) /\ runner'[r].pc = "execute" /\ runner'[r].stmt = 1
          /\ runner'[r].todo # {} /\ runner'[r].todo \subseteq Version
        BY <1>10, MissMoves DEF MissRecords, StmtType
    <2>2. \E v \in runner'[r].todo : \A u \in runner'[r].todo : v <= u
        BY <2>1, FirstExists
    <2>3. Current(r)' \in Version
        BY <2>1, <2>2 DEF Current
    <2>4. 1 \in 1..Len(Creates[Current(r)'])
        BY <2>3, FilesHaveStatements
    <2> QED
        BY <2>1, <2>4, OneMoves
<1> QED
    BY <1>1, <1>2, <1>3, <1>4, <1>5, <1>6, <1>7, <1>8, <1>9, <1>10
       DEF Next, Step, EditFile, vars

LEMMA StoreStep == TypeInv /\ [Next]_vars => StoreType'
<1> SUFFICES ASSUME TypeInv, [Next]_vars PROVE StoreType'
    OBVIOUS
<1>1. objects' \subseteq Object /\ dropped' \subseteq Object
    <2>1. CASE UNCHANGED <<objects, dropped>>
        BY <2>1 DEF TypeInv, StoreType
    <2>2. ASSUME NEW r \in Runner, NEW applied \in BOOLEAN, Execute(r) \/ ExecuteFails(r, applied)
          PROVE  objects' \subseteq Object /\ dropped' \subseteq Object
        <3>1. Statement(r) \in Object
            BY <2>2, StatementExists DEF TypeInv, Execute, ExecuteFails, AtWork
        <3> QED
            BY <2>2, <3>1 DEF Execute, ExecuteFails, Create, TypeInv, StoreType
    <2>3. ASSUME NEW r \in Runner, DropTable(r)
          PROVE  objects' \subseteq Object /\ dropped' \subseteq Object
        BY <2>3 DEF DropTable, TypeInv, StoreType
    <2> QED
        BY <2>1, <2>2, <2>3
           DEF Next, Step, Start, GetStatus, MissRecords, Record, StartScript, StartReset, Crash, EditFile, vars
<1>2. records' \in Seq(Row)
    <2>0. records \in Seq(Row)
        BY DEF TypeInv, StoreType
    <2>e. <<>> \in Seq(Row)
        OBVIOUS
    <2>1. CASE UNCHANGED records \/ records' = <<>>
        BY <2>0, <2>e, <2>1
    <2>2. ASSUME NEW r \in Runner, Record(r), ~UNCHANGED records
          PROVE  records' \in Seq(Row)
        <3>1. Current(r) \in Version
            BY <2>2, StatementExists DEF Record, AtWork, TypeInv
        <3>2. runner[r].loaded[Current(r)] \in Nat
            BY <3>1 DEF TypeInv, RunnerType, RunnerRecord
        <3>3. PICK row \in Row : records' = Append(records, row)
            BY <2>2, <3>1, <3>2 DEF Record, Row
        <3> QED
            BY <2>0, <3>3
    <2>3. ASSUME NEW r \in Runner, DropTable(r) PROVE UNCHANGED records \/ records' = <<>>
        BY <2>3 DEF DropTable
    <2> QED
        BY <2>1, <2>2, <2>3
           DEF Next, Step, Start, GetStatus, MissRecords, Execute, ExecuteFails, StartScript, StartReset,
               Crash, EditFile, vars
<1>3. file' \in [Version -> Nat]
    <2>1. UNCHANGED file \/ \E v \in Version : EditFile(v)
        BY DEF Next, Step, Start, GetStatus, MissRecords, Execute, ExecuteFails, Record, StartScript,
               StartReset, DropTable, Crash, vars
    <2>2. ASSUME NEW v \in Version, EditFile(v) PROVE file' \in [Version -> Nat]
        BY <2>2 DEF EditFile, TypeInv, StoreType
    <2> QED
        BY <2>1, <2>2 DEF TypeInv, StoreType
<1>4. faults' \in 0..MaxFaults
    <2>1. UNCHANGED faults \/ Fault
        BY DEF Next, Step, Start, GetStatus, MissRecords, Execute, ExecuteFails, Record, StartScript,
               StartReset, DropTable, Crash, EditFile, vars
    <2> QED
        BY <2>1, MigrationsAssumption DEF MigrationsAssumption, Fault, TypeInv, StoreType
<1> QED
    BY <1>1, <1>2, <1>3, <1>4 DEF StoreType

LEMMA TypesHold == Spec => []TypeInv
<1>1. Init => TypeInv
    BY IdleIsRunner, MigrationsAssumption
       DEF Init, TypeInv, RunnerType, StmtType, StoreType, AtWork, MigrationsAssumption
<1> QED
    BY <1>1, RunnersStep, StoreStep, PTL DEF Spec, TypeInv

\* Type correctness, with the one relation everything else needs: a runner at work
\* is at a statement of the first version it has still to apply.
THEOREM TypeCorrect == Spec => []TypeOK
<1>1. TypeInv => TypeOK
    <2> SUFFICES ASSUME TypeInv PROVE TypeOK
        OBVIOUS
    <2>1. \A i \in DOMAIN records :
              records[i] \in [version : Version, checksum : Nat, status : {"success", "failed"}]
        <3>1. records \in Seq(Row)
            BY DEF TypeInv, StoreType
        <3>2. \A i \in DOMAIN records : records[i] \in Row
            BY <3>1
        <3> QED
            BY <3>2 DEF Row
    <2>2. ASSUME NEW r \in Runner
          PROVE  /\ runner[r].pc \in {"idle", "status", "execute", "record", "drop"}
                 /\ runner[r].todo \subseteq Version /\ runner[r].drops \subseteq Object
                 /\ runner[r].pc \in {"execute", "record"} <=> runner[r].todo # {}
        BY DEF TypeInv, RunnerType, RunnerRecord, AtWork
    <2>3. ASSUME NEW r \in Runner, runner[r].todo # {}
          PROVE  runner[r].stmt \in DOMAIN Creates[Current(r)]
        BY <2>3, StatementExists DEF TypeInv, RunnerType
    <2> QED
        BY <2>1, <2>2, <2>3 DEF TypeOK, TypeInv, StoreType
<1> QED
    BY <1>1, TypesHold, PTL


-----------------------------------------------------------------------------
(* Versions are recorded in order.                                         *)

\* What a runner has still to apply has no gap: a lower version is in it, too, or
\* has been recorded.
MigratesTo(r) == runner[r].pc = "record" \/ (runner[r].pc = "execute" /\ ~runner[r].script)

NoGap(r) ==
    MigratesTo(r) =>
        \A v \in runner[r].todo : \A u \in 0..v : Recorded(u) \/ u \in runner[r].todo

TodoHasNoGap == \A r \in Runner : NoGap(r)

RecordsHaveNoGap == \A v \in Version : Recorded(v) => \A u \in 0..v : Recorded(u)

OnlyResetsDrop == \A r \in Runner : runner[r].pc = "drop" => hasReset

OrderInv == OnlyResetsDrop /\ (~hasReset => TodoHasNoGap /\ RecordsHaveNoGap)

\* Rows are only ever added, but for a reset.
LEMMA RecordsGrow ==
    ASSUME TypeInv, [Next]_vars, ~hasReset, OnlyResetsDrop
    PROVE  \A v : Recorded(v) => Recorded(v)'
<1>1. CASE UNCHANGED records
    BY <1>1 DEF Recorded, Rows
<1>2. ASSUME NEW r \in Runner, NEW row, records' = Append(records, row)
      PROVE  \A v : Recorded(v) => Recorded(v)'
    <2>1. records \in Seq(Row)
        BY DEF TypeInv, StoreType
    <2>2. \A i \in DOMAIN records : i \in DOMAIN records' /\ records'[i] = records[i]
        BY <1>2, <2>1
    <2> QED
        BY <2>2 DEF Recorded, Rows
<1> QED
    BY <1>1, <1>2
       DEF Next, Step, Start, GetStatus, MissRecords, Execute, ExecuteFails, Record, StartScript, StartReset,
           DropTable, Crash, EditFile, vars, OnlyResetsDrop

\* The step that records, and what it adds.
LEMMA RecordAdds ==
    ASSUME TypeInv, NEW r \in Runner, Record(r)
    PROVE  \/ UNCHANGED records /\ OnlyMoves(r) /\ runner'[r] = Idle
           \/ /\ \A v : Recorded(v)' <=> Recorded(v) \/ v = Current(r)
              /\ ~runner[r].ok => OnlyMoves(r) /\ runner'[r] = Idle
              /\ runner[r].ok => NextFile(r)
<1>1. CASE Tracking \notin objects
    BY <1>1, FinishMoves DEF Record, TypeInv
<1>2. CASE Tracking \in objects
    <2>1. PICK row : row.version = Current(r) /\ records' = Append(records, row)
        BY <1>2 DEF Record
    <2>2. records \in Seq(Row)
        BY DEF TypeInv, StoreType
    <2>3. /\ \A i \in DOMAIN records : i \in DOMAIN records' /\ records'[i] = records[i]
          /\ \A i \in DOMAIN records' : i \in DOMAIN records \/ records'[i] = row
          /\ \E i \in DOMAIN records' : records'[i] = row
        BY <2>1, <2>2
    <2>4. \A v : Recorded(v)' <=> Recorded(v) \/ v = Current(r)
        BY <2>1, <2>3 DEF Recorded, Rows
    <2> QED
        BY <1>2, <2>4, FinishMoves DEF Record, TypeInv
<1> QED
    BY <1>1, <1>2

\* What the others have to apply keeps no gap while rows are only added.
LEMMA OthersHaveNoGap ==
    ASSUME TodoHasNoGap, NEW r \in Runner, OnlyMoves(r), \A v : Recorded(v) => Recorded(v)',
           NoGap(r)'
    PROVE  TodoHasNoGap'
<1> SUFFICES ASSUME NEW q \in Runner PROVE NoGap(q)'
    BY DEF TodoHasNoGap
<1>1. CASE q = r
    BY <1>1
<1>2. CASE q # r
    <2>1. runner'[q] = runner[q] /\ NoGap(q)
        BY <1>2 DEF OnlyMoves, TodoHasNoGap
    <2> QED
        BY <2>1 DEF NoGap, MigratesTo
<1> QED
    BY <1>1, <1>2

\* A runner that goes on with what it had to apply, or with nothing, keeps no gap.
LEMMA SameTodoNoGap ==
    ASSUME NEW r \in Runner, NoGap(r), \A v : Recorded(v) => Recorded(v)',
           runner'[r].todo = runner[r].todo, MigratesTo(r)' => MigratesTo(r)
    PROVE  NoGap(r)'
BY DEF NoGap

LEMMA IdleNoGap ==
    ASSUME NEW r \in Runner, ~MigratesTo(r)'
    PROVE  NoGap(r)'
BY DEF NoGap

\* start.sh stays start.sh, or ends.
LEMMA ScriptNoGap ==
    ASSUME RunnerType, NEW r \in Runner, AtWork(r), runner[r].script, NextFile(r)
    PROVE  NoGap(r)'
BY NextFileMoves, IdleNoGap, IdleIsRunner DEF MigratesTo

\* Recording the first version it had to apply, a runner leaves no gap behind.
LEMMA RecordedNoGap ==
    ASSUME RunnerType, NEW r \in Runner, runner[r].pc = "record", NoGap(r), NextFile(r),
           \A v : Recorded(v)' <=> Recorded(v) \/ v = Current(r)
    PROVE  NoGap(r)'
<1>1. CASE runner'[r] = Idle
    BY <1>1, IdleNoGap, IdleIsRunner DEF MigratesTo
<1>2. CASE runner'[r].todo = runner[r].todo \ {Current(r)}
    BY <1>2 DEF NoGap, MigratesTo
<1> QED
    BY <1>1, <1>2, NextFileMoves DEF AtWork

LEMMA OrderStep == TypeInv /\ OrderInv /\ [Next]_vars => OrderInv'
<1> SUFFICES ASSUME TypeInv, OrderInv, [Next]_vars PROVE OrderInv'
    OBVIOUS
<1> USE DEF TypeInv
<1>1. OnlyResetsDrop'
    <2>1. CASE UNCHANGED <<runner, hasReset>>
        BY <2>1 DEF OrderInv, OnlyResetsDrop
    <2>2. hasReset => hasReset'
        BY DEF Next, Step, Start, GetStatus, MissRecords, Execute, ExecuteFails, Record, StartScript,
               StartReset, DropTable, Crash, EditFile, vars
    <2>3. ASSUME NEW r \in Runner, OnlyMoves(r), runner'[r].pc = "drop" => hasReset'
          PROVE  OnlyResetsDrop'
        BY <2>2, <2>3 DEF OrderInv, OnlyResetsDrop, OnlyMoves
    <2>4. ASSUME NEW r \in Runner, NEW target \in Version, Start(r, target)
          PROVE  OnlyResetsDrop'
        BY <2>3, <2>4, StartMoves DEF StoreType
    <2>5. ASSUME NEW r \in Runner, GetStatus(r) PROVE OnlyResetsDrop'
        BY <2>3, <2>5, GetStatusMoves, IdleIsRunner
    <2>6. ASSUME NEW r \in Runner, AtWork(r),
                 StatementDone(r) \/ StatementFailed(r) \/ NextFile(r)
          PROVE  OnlyResetsDrop'
        <3>1. OnlyMoves(r) /\ runner'[r].pc # "drop"
            BY <2>6, NextFileMoves, SuccessMoves, FailureMoves, IdleIsRunner DEF AtWork
        <3> QED
            BY <2>3, <3>1
    <2>7. ASSUME NEW r \in Runner, Finish(r) PROVE OnlyResetsDrop'
        BY <2>3, <2>7, FinishMoves, IdleIsRunner
    <2>8. ASSUME NEW r \in Runner, StartScript(r) PROVE OnlyResetsDrop'
        BY <2>3, <2>8, ScriptMoves
    <2>9. ASSUME NEW r \in Runner, StartReset(r) PROVE OnlyResetsDrop'
        BY <2>3, <2>9, ResetMoves DEF StoreType, StartReset
    <2>10. ASSUME NEW r \in Runner, DropTable(r) PROVE OnlyResetsDrop'
        <3>1. hasReset
            BY <2>10 DEF OrderInv, OnlyResetsDrop, DropTable
        <3> QED
            BY <2>2, <2>3, <2>10, <3>1, ResetMoves DEF StoreType
    <2>11. ASSUME NEW r \in Runner, MissRecords(r) PROVE OnlyResetsDrop'
        BY <2>3, <2>11, MissMoves
    <2> QED
        BY <2>1, <2>4, <2>5, <2>6, <2>7, <2>8, <2>9, <2>10, <2>11
           DEF Next, Step, Execute, ExecuteFails, Record, Crash, EditFile, AtWork, vars
<1>2. ASSUME ~hasReset' PROVE TodoHasNoGap' /\ RecordsHaveNoGap'
    <2>r. hasReset => hasReset'
        BY DEF Next, Step, Start, GetStatus, MissRecords, Execute, ExecuteFails, Record, StartScript,
               StartReset, DropTable, Crash, EditFile, vars
    <2>0. ~hasReset /\ OnlyResetsDrop /\ TodoHasNoGap /\ RecordsHaveNoGap
        BY <1>2, <2>r DEF OrderInv
    <2>g. \A v : Recorded(v) => Recorded(v)'
        BY <2>0, RecordsGrow
    <2>1. TodoHasNoGap'
        <3>1. CASE UNCHANGED runner
            BY <3>1, <2>0, <2>g DEF TodoHasNoGap, NoGap, MigratesTo
        <3>2. ASSUME NEW r \in Runner, NEW target \in Version, Start(r, target)
              PROVE  TodoHasNoGap'
            BY <2>0, <2>g, <3>2, StartMoves, IdleNoGap, OthersHaveNoGap DEF StoreType, MigratesTo
        <3>3. ASSUME NEW r \in Runner, GetStatus(r) PROVE TodoHasNoGap'
            <4>1. CASE runner'[r] = Idle
                BY <2>0, <2>g, <3>3, <4>1, GetStatusMoves, IdleIsRunner, IdleNoGap,
                   OthersHaveNoGap DEF MigratesTo
            <4>2. CASE runner'[r].todo = ToApply(r)
                <5>1. ASSUME NEW v \in ToApply(r), NEW u \in 0..v
                      PROVE  Recorded(u) \/ u \in ToApply(r)
                    <6>r. runner[r] \in RunnerRecord
                        BY DEF RunnerType
                    <6>1. v \in Version /\ v <= runner[r].target /\ runner[r].target \in Version
                        BY <5>1, <6>r DEF ToApply, Pending, RunnerRecord
                    <6>n. Last \in Nat
                        BY MigrationsAssumption DEF MigrationsAssumption
                    <6>2. u \in Version /\ u <= runner[r].target
                        BY <5>1, <6>1, <6>n DEF Version
                    <6> QED
                        BY <6>2 DEF ToApply, Pending
                <5>2. NoGap(r)'
                    BY <2>g, <4>2, <5>1 DEF NoGap
                <5> QED
                    BY <2>0, <2>g, <3>3, <5>2, GetStatusMoves, OthersHaveNoGap
            <4> QED
                BY <3>3, <4>1, <4>2, GetStatusMoves
        <3>4. ASSUME NEW r \in Runner, AtWork(r), StatementDone(r) PROVE TodoHasNoGap'
            <4>1. NoGap(r)
                BY <2>0 DEF TodoHasNoGap
            <4>2. CASE runner[r].script /\ NextFile(r)
                BY <2>0, <2>g, <3>4, <4>2, ScriptNoGap, SuccessMoves, OthersHaveNoGap
            <4>3. CASE ~(runner[r].script /\ NextFile(r))
                <5>1. runner'[r].todo = runner[r].todo /\ (MigratesTo(r)' => MigratesTo(r))
                    BY <3>4, <4>3, SuccessMoves DEF MigratesTo, AtWork
                <5> QED
                    BY <2>0, <2>g, <3>4, <4>1, <5>1, SameTodoNoGap, SuccessMoves,
                       OthersHaveNoGap
            <4> QED
                BY <4>2, <4>3
        <3>5. ASSUME NEW r \in Runner, AtWork(r), StatementFailed(r) PROVE TodoHasNoGap'
            <4>1. NoGap(r)
                BY <2>0 DEF TodoHasNoGap
            <4>2. CASE runner[r].script /\ NextFile(r)
                BY <2>0, <2>g, <3>5, <4>2, ScriptNoGap, FailureMoves, OthersHaveNoGap
            <4>3. CASE ~(runner[r].script /\ NextFile(r))
                <5>1. runner'[r].todo = runner[r].todo /\ (MigratesTo(r)' => MigratesTo(r))
                    BY <3>5, <4>3, FailureMoves DEF MigratesTo, AtWork
                <5> QED
                    BY <2>0, <2>g, <3>5, <4>1, <5>1, SameTodoNoGap, FailureMoves,
                       OthersHaveNoGap
            <4> QED
                BY <4>2, <4>3
        <3>6. ASSUME NEW r \in Runner, Finish(r) PROVE TodoHasNoGap'
            BY <2>0, <2>g, <3>6, FinishMoves, IdleIsRunner, IdleNoGap, OthersHaveNoGap
               DEF MigratesTo
        <3>7. ASSUME NEW r \in Runner, Record(r) PROVE TodoHasNoGap'
            <4>1. AtWork(r) /\ NoGap(r)
                BY <2>0, <3>7 DEF Record, AtWork, TodoHasNoGap
            <4>2. CASE Finish(r)
                BY <3>6, <4>2
            <4>3. CASE NextFile(r) /\ \A v : Recorded(v)' <=> Recorded(v) \/ v = Current(r)
                BY <2>0, <2>g, <4>1, <4>3, <3>7, RecordedNoGap, NextFileMoves, OthersHaveNoGap
                   DEF Record
            <4> QED
                BY <3>7, <4>2, <4>3, RecordAdds DEF Record
        <3>8. ASSUME NEW r \in Runner, StartScript(r) PROVE TodoHasNoGap'
            BY <2>0, <2>g, <3>8, ScriptMoves, IdleNoGap, OthersHaveNoGap DEF MigratesTo
        <3>9. ASSUME NEW r \in Runner, StartReset(r) \/ DropTable(r) PROVE TodoHasNoGap'
            BY <1>2, <2>0, <3>9 DEF StartReset, DropTable, OnlyResetsDrop
        <3>10. ASSUME NEW r \in Runner, MissRecords(r) PROVE TodoHasNoGap'
            <4>1. runner[r].target \in Version /\ Last \in Nat
                BY MigrationsAssumption DEF RunnerType, RunnerRecord, MigrationsAssumption
            <4>2. \A v \in runner'[r].todo : \A u \in 0..v : u \in runner'[r].todo
                BY <3>10, <4>1, MissMoves DEF Version
            <4>3. NoGap(r)'
                BY <4>2 DEF NoGap
            <4> QED
                BY <2>0, <2>g, <3>10, <4>3, MissMoves, OthersHaveNoGap
        <3> QED
            BY <3>1, <3>2, <3>3, <3>4, <3>5, <3>6, <3>7, <3>8, <3>9, <3>10
               DEF Next, Step, Execute, ExecuteFails, Crash, EditFile, AtWork, vars
    <2>2. RecordsHaveNoGap'
        <3>1. CASE UNCHANGED records
            BY <2>0, <3>1 DEF RecordsHaveNoGap, Recorded, Rows
        <3>2. ASSUME NEW r \in Runner, Record(r), ~UNCHANGED records,
                     NEW v \in Version, Recorded(v)', NEW u \in 0..v
              PROVE  Recorded(u)'
            <4>1. \A w : Recorded(w)' <=> Recorded(w) \/ w = Current(r)
                BY <3>2, RecordAdds
            <4>2. CASE Recorded(v)
                BY <2>0, <2>g, <3>2, <4>2 DEF RecordsHaveNoGap
            <4>3. CASE v = Current(r)
                <5>1. MigratesTo(r) /\ NoGap(r) /\ AtWork(r)
                    BY <2>0, <3>2 DEF Record, MigratesTo, TodoHasNoGap, AtWork
                <5>2. /\ v \in runner[r].todo /\ \A w \in runner[r].todo : v <= w
                      /\ v \in Nat /\ u \in Nat /\ u <= v
                    BY <3>2, <4>3, <5>1, StatementExists DEF Version
                <5>3. Recorded(u) \/ u \in runner[r].todo
                    BY <3>2, <5>1, <5>2 DEF NoGap
                <5>4. u \in runner[r].todo => u = v
                    BY <5>2
                <5> QED
                    BY <2>g, <3>2, <5>3, <5>4
            <4> QED
                BY <3>2, <4>1, <4>2, <4>3
        <3>3. ASSUME NEW r \in Runner, DropTable(r) PROVE FALSE
            BY <2>0, <3>3 DEF DropTable, OnlyResetsDrop
        <3>4. \/ UNCHANGED records
              \/ \E r \in Runner : Record(r) \/ DropTable(r)
            BY DEF Next, Step, Start, GetStatus, MissRecords, Execute, ExecuteFails, StartScript,
                   StartReset, Crash, EditFile, vars
        <3>5. ASSUME ~UNCHANGED records PROVE RecordsHaveNoGap'
            <4>1. PICK r \in Runner : Record(r)
                BY <3>3, <3>4, <3>5
            <4> QED
                BY <3>2, <3>5, <4>1 DEF RecordsHaveNoGap
        <3> QED
            BY <3>1, <3>5
    <2> QED
        BY <2>1, <2>2
<1> QED
    BY <1>1, <1>2 DEF OrderInv

\* Whatever runners overlap, die, fail or are told to stop at a version: without a
\* reset the recorded versions are the first ones, with no gap.
THEOREM VersionsInOrder == Spec => []AppliedIsPrefix
<1>1. Init => OrderInv
    BY IdleIsRunner
       DEF Init, OrderInv, OnlyResetsDrop, TodoHasNoGap, NoGap, MigratesTo, RecordsHaveNoGap,
           Recorded, Rows
<1>2. OrderInv => AppliedIsPrefix
    BY DEF OrderInv, RecordsHaveNoGap, AppliedIsPrefix
<1> QED
    BY <1>1, <1>2, OrderStep, TypesHold, PTL DEF Spec

-----------------------------------------------------------------------------
(* What is recorded as a success has been executed.  Objects that exist or  *)
(* were dropped only become more; what a runner has executed of its file is *)
(* among them, and all of it before the runner records a success.           *)

There == objects \cup dropped

Begun(r) == AtWork(r) => \A i \in 1..(runner[r].stmt - 1) : Creates[Current(r)][i] \in There

Through(r) == runner[r].pc = "record" /\ runner[r].ok => Objects(Current(r)) \subseteq There

Progress(r) == Begun(r) /\ Through(r)

ExecutedInv == (\A r \in Runner : Progress(r)) /\ SuccessMeansExecuted

LEMMA ThereGrows ==
    ASSUME [Next]_vars
    PROVE  There \subseteq There'
<1>1. CASE UNCHANGED <<objects, dropped>>
    BY <1>1 DEF There
<1>2. ASSUME NEW o, Create(o) PROVE There \subseteq There'
    BY <1>2 DEF Create, There
<1>3. ASSUME NEW r \in Runner, DropTable(r) PROVE There \subseteq There'
    BY <1>3 DEF DropTable, There
<1> QED
    BY <1>1, <1>2, <1>3
       DEF Next, Step, Start, GetStatus, MissRecords, Execute, ExecuteFails, Record, StartScript, StartReset,
           Crash, EditFile, vars

\* A runner at the head of a file, or without one, has nothing to show.
LEMMA NothingBegun ==
    ASSUME NEW r \in Runner, runner'[r].pc # "record",
           runner'[r].pc = "execute" => runner'[r].stmt = 1
    PROVE  Progress(r)'
BY DEF Progress, Begun, Through, AtWork

LEMMA OthersProgress ==
    ASSUME \A q \in Runner : Progress(q), NEW r \in Runner, OnlyMoves(r), There \subseteq There',
           Progress(r)'
    PROVE  \A q \in Runner : Progress(q)'
<1> SUFFICES ASSUME NEW q \in Runner, q # r PROVE Progress(q)'
    OBVIOUS
<1>1. runner'[q] = runner[q] /\ Current(q)' = Current(q) /\ Progress(q)
    BY DEF OnlyMoves, Current
<1> QED
    BY <1>1 DEF Progress, Begun, Through, AtWork

LEMMA NextFileProgress ==
    ASSUME RunnerType, NEW r \in Runner, AtWork(r), NextFile(r)
    PROVE  OnlyMoves(r) /\ Progress(r)'
BY NextFileMoves, IdleIsRunner, NothingBegun

\* A failed statement leaves behind what was there before it.
LEMMA FailureProgress ==
    ASSUME RunnerType, NEW r \in Runner, AtWork(r), StatementFailed(r), Progress(r),
           There \subseteq There'
    PROVE  OnlyMoves(r) /\ Progress(r)'
<1>1. CASE runner[r].script /\ NextFile(r)
    BY <1>1, NextFileProgress
<1>2. CASE ~runner[r].script
    <2>1. /\ OnlyMoves(r) /\ runner'[r].pc = "record" /\ ~runner'[r].ok
          /\ runner'[r].todo = runner[r].todo /\ runner'[r].stmt = runner[r].stmt
        BY <1>2, FailureMoves
    <2>2. Current(r)' = Current(r)
        BY <2>1, SameVersion
    <2> QED
        BY <2>1, <2>2 DEF Progress, Begun, Through
<1> QED
    BY <1>1, <1>2, FailureMoves

\* A statement that went through has created its object; the last one was all there
\* was left of the file.
LEMMA SuccessProgress ==
    ASSUME RunnerType, StmtType, NEW r \in Runner, runner[r].pc = "execute", StatementDone(r),
           Progress(r), There \subseteq There', Statement(r) \in There'
    PROVE  OnlyMoves(r) /\ Progress(r)'
<1> AtWork(r)
    BY DEF AtWork
<1>1. CASE runner[r].script /\ NextFile(r)
    BY <1>1, NextFileProgress
<1>2. CASE ~(runner[r].script /\ NextFile(r))
    <2>1. /\ OnlyMoves(r) /\ runner'[r].todo = runner[r].todo
          /\ \/ runner'[r].pc = runner[r].pc /\ runner'[r].stmt = runner[r].stmt + 1
             \/ /\ runner'[r].pc = "record" /\ runner'[r].stmt = runner[r].stmt
                /\ ~(runner[r].stmt < Len(Creates[Current(r)]))
        BY <1>2, SuccessMoves
    <2>2. PICK v \in Version : v = Current(r) /\ v = Current(r)'
        BY <2>1, StatementExists, SameVersion
    <2>3. PICK n \in Nat : n = Len(Creates[v])
        BY FilesHaveStatements
    <2>4. PICK k \in 1..n : k = runner[r].stmt
        BY <2>2, <2>3, StatementExists, FilesHaveStatements
    <2>5. \A i \in 1..k : Creates[v][i] \in There'
        <3>1. \A i \in 1..(k - 1) : Creates[v][i] \in There
            BY <2>2, <2>4 DEF Progress, Begun
        <3>2. Creates[v][k] \in There'
            BY <2>2, <2>4 DEF Statement
        <3> QED
            BY <3>1, <3>2
    <2>6. CASE runner'[r].pc = runner[r].pc /\ runner'[r].stmt = k + 1
        <3>1. Begun(r)'
            BY <2>2, <2>5, <2>6 DEF Begun
        <3>2. runner'[r].pc # "record"
            BY <2>6
        <3> QED
            BY <2>1, <3>1, <3>2 DEF Progress, Through
    <2>7. CASE runner'[r].pc = "record" /\ runner'[r].stmt = k /\ ~(k < n)
        <3>1. Begun(r)'
            BY <2>2, <2>5, <2>7 DEF Begun
        <3>2. k = n /\ DOMAIN Creates[v] = 1..n
            BY <2>3, <2>7, FilesHaveStatements
        <3>3. Objects(v) \subseteq There'
            BY <2>5, <3>2 DEF Objects
        <3> QED
            BY <2>1, <2>2, <3>1, <3>3 DEF Progress, Through
    <2> QED
        BY <2>1, <2>2, <2>3, <2>4, <2>6, <2>7
<1> QED
    BY <1>1, <1>2

\* What a record adds to the successes.
LEMMA RecordSucceeds ==
    ASSUME TypeInv, NEW r \in Runner, Record(r), NEW v, Succeeded(v)'
    PROVE  Succeeded(v) \/ (v = Current(r) /\ runner[r].ok)
<1>1. CASE UNCHANGED records
    BY <1>1 DEF Succeeded, Rows
<1>2. CASE ~UNCHANGED records
    <2>1. PICK row : /\ row.version = Current(r) /\ (row.status = "success" => runner[r].ok)
                     /\ records' = Append(records, row)
        BY <1>2 DEF Record
    <2>2. records \in Seq(Row)
        BY DEF TypeInv, StoreType
    <2>3. \A i \in DOMAIN records' :
              (i \in DOMAIN records /\ records'[i] = records[i]) \/ records'[i] = row
        BY <2>1, <2>2
    <2>4. PICK i \in DOMAIN records' : records'[i].version = v /\ records'[i].status = "success"
        BY DEF Succeeded, Rows
    <2> QED
        BY <2>1, <2>3, <2>4 DEF Succeeded, Rows
<1> QED
    BY <1>1, <1>2

LEMMA ExecutedStep == TypeInv /\ ExecutedInv /\ [Next]_vars => ExecutedInv'
<1> SUFFICES ASSUME TypeInv, ExecutedInv, [Next]_vars PROVE ExecutedInv'
    OBVIOUS
<1> USE DEF TypeInv
<1>g. There \subseteq There'
    BY ThereGrows
<1>p. \A q \in Runner : Progress(q)
    BY DEF ExecutedInv
<1>1. \A q \in Runner : Progress(q)'
    <2>1. CASE UNCHANGED runner
        BY <1>g, <1>p, <2>1 DEF Progress, Begun, Through, AtWork, Current
    <2>2. ASSUME NEW r \in Runner, OnlyMoves(r), Progress(r)' PROVE \A q \in Runner : Progress(q)'
        BY <1>g, <1>p, <2>2, OthersProgress
    <2>3. ASSUME NEW r \in Runner, NEW target \in Version, Start(r, target)
          PROVE  \A q \in Runner : Progress(q)'
        BY <2>2, <2>3, StartMoves, NothingBegun DEF StoreType
    <2>4. ASSUME NEW r \in Runner, GetStatus(r) PROVE \A q \in Runner : Progress(q)'
        <3>1. runner[r].stmt = 1
            BY <2>4 DEF GetStatus, StmtType
        <3>2. Progress(r)'
            BY <2>4, <3>1, GetStatusMoves, IdleIsRunner, NothingBegun
        <3> QED
            BY <2>2, <2>4, <3>2, GetStatusMoves
    <2>5. ASSUME NEW r \in Runner, Execute(r) PROVE \A q \in Runner : Progress(q)'
        <3>1. runner[r].pc = "execute" /\ AtWork(r)
            BY <2>5 DEF Execute, AtWork
        <3>2. CASE StatementFailed(r)
            BY <1>g, <1>p, <2>2, <3>1, <3>2, FailureProgress
        <3>3. CASE Create(Statement(r)) /\ StatementDone(r)
            <4>1. Statement(r) \in There'
                BY <3>3 DEF Create, There
            <4> QED
                BY <1>g, <1>p, <2>2, <3>1, <3>3, <4>1, SuccessProgress
        <3> QED
            BY <2>5, <3>2, <3>3 DEF Execute
    <2>6. ASSUME NEW r \in Runner, NEW applied \in BOOLEAN, ExecuteFails(r, applied)
          PROVE  \A q \in Runner : Progress(q)'
        BY <1>g, <1>p, <2>2, <2>6, FailureProgress DEF ExecuteFails, AtWork
    <2>7. ASSUME NEW r \in Runner, Finish(r) PROVE \A q \in Runner : Progress(q)'
        BY <2>2, <2>7, FinishMoves, IdleIsRunner, NothingBegun
    <2>8. ASSUME NEW r \in Runner, Record(r) PROVE \A q \in Runner : Progress(q)'
        BY <2>2, <2>7, <2>8, NextFileProgress DEF Record, AtWork
    <2>9. ASSUME NEW r \in Runner, StartScript(r) PROVE \A q \in Runner : Progress(q)'
        BY <2>2, <2>9, ScriptMoves, NothingBegun
    <2>10. ASSUME NEW r \in Runner, StartReset(r) \/ DropTable(r)
           PROVE  \A q \in Runner : Progress(q)'
        <3>1. OnlyMoves(r) /\ runner'[r].pc \in {"drop", "idle"}
            BY <2>10, ResetMoves DEF StoreType
        <3> QED
            BY <2>2, <3>1, NothingBegun
    <2>11. ASSUME NEW r \in Runner, MissRecords(r) PROVE \A q \in Runner : Progress(q)'
        <3>1. runner[r].stmt = 1
            BY <2>11 DEF MissRecords, StmtType
        <3>2. Progress(r)'
            BY <2>11, <3>1, MissMoves, NothingBegun
        <3> QED
            BY <2>2, <2>11, <3>2, MissMoves
    <2> QED
        BY <2>1, <2>3, <2>4, <2>5, <2>6, <2>7, <2>8, <2>9, <2>10, <2>11
           DEF Next, Step, Crash, EditFile, vars
<1>2. SuccessMeansExecuted'
    <2> SUFFICES ASSUME NEW v \in Version, Succeeded(v)' PROVE Objects(v) \subseteq There'
        BY DEF SuccessMeansExecuted, There, Objects
    <2>1. CASE Succeeded(v)
        BY <1>g, <2>1 DEF ExecutedInv, SuccessMeansExecuted, There
    <2>2. CASE UNCHANGED records
        BY <2>1, <2>2 DEF Succeeded, Rows
    <2>3. ASSUME NEW r \in Runner, Record(r) PROVE Objects(v) \subseteq There'
        <3>1. ASSUME v = Current(r), runner[r].ok PROVE Objects(v) \subseteq There'
            BY <1>g, <1>p, <2>3, <3>1 DEF Progress, Through, Record
        <3> QED
            BY <2>1, <2>3, <3>1, RecordSucceeds
    <2>4. ASSUME NEW r \in Runner, DropTable(r) PROVE Succeeded(v)
        <3>1. CASE UNCHANGED records
            BY <3>1 DEF Succeeded, Rows
        <3>2. CASE records' = <<>>
            BY <3>2 DEF Succeeded, Rows
        <3> QED
            BY <2>4, <3>1, <3>2 DEF DropTable
    <2> QED
        BY <2>1, <2>2, <2>3, <2>4
           DEF Next, Step, Start, GetStatus, MissRecords, Execute, ExecuteFails, StartScript, StartReset,
               Crash, EditFile, vars
<1> QED
    BY <1>1, <1>2 DEF ExecutedInv

\* A version recorded as a success has been executed to its last statement, whoever
\* died, failed, overlapped or reset the schema in between.
THEOREM SuccessIsExecuted == Spec => []SuccessMeansExecuted
<1>1. Init => ExecutedInv
    BY IdleIsRunner
       DEF Init, ExecutedInv, Progress, Begun, Through, AtWork, SuccessMeansExecuted, Succeeded,
           Rows
<1>2. ExecutedInv => SuccessMeansExecuted
    BY DEF ExecutedInv
<1> QED
    BY <1>1, <1>2, ExecutedStep, TypesHold, PTL DEF Spec

-----------------------------------------------------------------------------
(* A version is recorded once, unless runners overlap or there is a reset:   *)
(* then at most one runner is at work on the records, and nothing it has to *)
(* apply is recorded.                                                      *)

Migrating(r) == runner[r].pc \in {"status", "execute", "record"} /\ ~runner[r].script

OneMigrates == \A r, q \in Runner : Migrating(r) /\ Migrating(q) => r = q

TodoIsNew == \A r \in Runner : MigratesTo(r) => \A v \in runner[r].todo : ~Recorded(v)

ScriptsRecordNothing == \A r \in Runner : runner[r].pc = "record" => ~runner[r].script

RowsDiffer == \A i, j \in DOMAIN records : records[i].version = records[j].version => i = j

OnceInv == OneMigrates /\ TodoIsNew /\ ScriptsRecordNothing /\ RowsDiffer

\* A runner that begins nothing new and records nothing disturbs nothing.
LEMMA OnceMoves ==
    ASSUME OnceInv, NEW r \in Runner, OnlyMoves(r), UNCHANGED records,
           Migrating(r)' => Migrating(r) \/ \A q \in Runner : ~Migrating(q),
           MigratesTo(r)' => \A v \in runner'[r].todo : ~Recorded(v),
           runner'[r].pc = "record" => ~runner'[r].script
    PROVE  OnceInv'
<1> USE DEF OnceInv
<1>1. \A q \in Runner : q # r => /\ Migrating(q)' = Migrating(q)
                                 /\ MigratesTo(q)' = MigratesTo(q)
                                 /\ runner'[q] = runner[q]
    BY DEF OnlyMoves, Migrating, MigratesTo
<1>2. \A v : Recorded(v)' = Recorded(v)
    BY DEF Recorded, Rows
<1>3. OneMigrates'
    BY <1>1 DEF OneMigrates
<1>4. TodoIsNew'
    BY <1>1, <1>2 DEF TodoIsNew
<1>5. ScriptsRecordNothing'
    BY <1>1 DEF ScriptsRecordNothing
<1>6. RowsDiffer'
    BY DEF RowsDiffer
<1> QED
    BY <1>3, <1>4, <1>5, <1>6

LEMMA FinishOnce ==
    ASSUME RunnerType, OnceInv, NEW r \in Runner, OnlyMoves(r), runner'[r] = Idle,
           UNCHANGED records
    PROVE  OnceInv'
<1>1. ~Migrating(r)' /\ ~MigratesTo(r)' /\ runner'[r].pc # "record"
    BY IdleIsRunner DEF Migrating, MigratesTo
<1> QED
    BY <1>1, OnceMoves

\* The next file is one of those that were to be applied.
LEMMA NextFileOnce ==
    ASSUME RunnerType, OnceInv, NEW r \in Runner, AtWork(r), NextFile(r), UNCHANGED records
    PROVE  OnceInv'
<1>1. CASE runner'[r] = Idle
    BY <1>1, NextFileMoves, FinishOnce
<1>2. CASE runner'[r] # Idle
    <2>1. /\ OnlyMoves(r) /\ runner'[r].pc = "execute"
          /\ runner'[r].script = runner[r].script
          /\ runner'[r].todo = runner[r].todo \ {Current(r)}
        BY <1>2, NextFileMoves
    <2>2. Migrating(r)' => Migrating(r)
        BY <2>1 DEF Migrating, AtWork
    <2>3. MigratesTo(r)' => MigratesTo(r)
        BY <2>1 DEF MigratesTo, AtWork
    <2>4. MigratesTo(r)' => \A v \in runner'[r].todo : ~Recorded(v)
        BY <2>1, <2>3 DEF OnceInv, TodoIsNew
    <2> QED
        BY <2>1, <2>2, <2>4, OnceMoves
<1> QED
    BY <1>1, <1>2

\* A statement, through or failed, leaves what is to be applied as it is.
LEMMA StatementOnce ==
    ASSUME RunnerType, OnceInv, NEW r \in Runner, AtWork(r), UNCHANGED records,
           StatementDone(r) \/ StatementFailed(r), runner[r].pc = "execute"
    PROVE  OnceInv'
<1>1. CASE runner[r].script /\ NextFile(r)
    BY <1>1, NextFileOnce
<1>2. CASE ~(runner[r].script /\ NextFile(r))
    <2>1. CASE StatementFailed(r)
        <3>1. /\ OnlyMoves(r) /\ runner'[r].pc = "record" /\ ~runner'[r].script
              /\ ~runner[r].script /\ runner'[r].todo = runner[r].todo
            BY <1>2, <2>1, FailureMoves
        <3>2. Migrating(r) /\ MigratesTo(r)
            BY <3>1 DEF Migrating, MigratesTo
        <3>3. \A v \in runner'[r].todo : ~Recorded(v)
            BY <3>1, <3>2 DEF OnceInv, TodoIsNew
        <3> QED
            BY <3>1, <3>2, <3>3, OnceMoves
    <2>2. CASE StatementDone(r)
        <3>1. /\ OnlyMoves(r) /\ runner'[r].todo = runner[r].todo
              /\ runner'[r].script <=> runner[r].script
              /\ runner'[r].pc = "record" => ~runner'[r].script
              /\ runner'[r].pc \in {"execute", "record"}
            BY <1>2, <2>2, SuccessMoves
        <3>2. (Migrating(r)' => Migrating(r)) /\ (MigratesTo(r)' => MigratesTo(r))
            BY <3>1 DEF Migrating, MigratesTo
        <3>3. MigratesTo(r)' => \A v \in runner'[r].todo : ~Recorded(v)
            BY <3>1, <3>2 DEF OnceInv, TodoIsNew
        <3> QED
            BY <3>1, <3>2, <3>3, OnceMoves
    <2> QED
        BY <2>1, <2>2
<1> QED
    BY <1>1, <1>2

\* The version that is recorded is new, and nobody else has it to apply.
LEMMA RecordOnce ==
    ASSUME TypeInv, OnceInv, NEW r \in Runner, Record(r), ~UNCHANGED records
    PROVE  OnceInv'
<1> USE DEF TypeInv
<1>1. /\ \A v : Recorded(v)' <=> Recorded(v) \/ v = Current(r)
      /\ ~runner[r].ok => OnlyMoves(r) /\ runner'[r] = Idle
      /\ runner[r].ok => NextFile(r)
    BY RecordAdds
<1>2. AtWork(r) /\ Migrating(r) /\ MigratesTo(r)
    BY DEF Record, AtWork, Migrating, MigratesTo, OnceInv, ScriptsRecordNothing
<1>3. Current(r) \in runner[r].todo /\ ~Recorded(Current(r))
    BY <1>2, StatementExists DEF OnceInv, TodoIsNew
<1>4. /\ OnlyMoves(r)
      /\ \/ runner'[r] = Idle
         \/ /\ runner'[r].pc = "execute" /\ runner'[r].script = runner[r].script
            /\ runner'[r].todo = runner[r].todo \ {Current(r)}
    BY <1>1, <1>2, NextFileMoves
<1>5. OneMigrates'
    <2> SUFFICES ASSUME NEW q \in Runner, q # r, Migrating(q)' PROVE FALSE
        BY DEF OneMigrates
    <2>1. Migrating(q)
        BY <1>4 DEF OnlyMoves, Migrating
    <2> QED
        BY <1>2, <2>1 DEF OnceInv, OneMigrates
<1>6. TodoIsNew'
    <2> SUFFICES ASSUME NEW q \in Runner, MigratesTo(q)', NEW v \in runner'[q].todo
                 PROVE  ~Recorded(v)'
        BY DEF TodoIsNew
    <2>1. CASE q # r
        <3>1. MigratesTo(q) /\ runner'[q] = runner[q]
            BY <1>4, <2>1 DEF OnlyMoves, MigratesTo
        <3>2. Migrating(q)
            BY <3>1 DEF MigratesTo, Migrating, OnceInv, ScriptsRecordNothing
        <3> QED
            BY <1>2, <2>1, <3>2 DEF OnceInv, OneMigrates
    <2>2. CASE q = r
        <3>1. runner'[r].todo = runner[r].todo \ {Current(r)}
            BY <1>4, <2>2, IdleIsRunner DEF MigratesTo
        <3> QED
            BY <1>1, <1>2, <2>2, <3>1 DEF OnceInv, TodoIsNew
    <2> QED
        BY <2>1, <2>2
<1>7. ScriptsRecordNothing'
    BY <1>4, IdleIsRunner DEF OnceInv, ScriptsRecordNothing, OnlyMoves
<1>8. RowsDiffer'
    <2>1. PICK row : row.version = Current(r) /\ records' = Append(records, row)
        BY DEF Record
    <2>2. records \in Seq(Row)
        BY DEF StoreType
    <2>3. /\ \A i \in DOMAIN records' : \/ i \in DOMAIN records /\ records'[i] = records[i]
                                        \/ i = Len(records) + 1 /\ records'[i] = row
        BY <2>1, <2>2
    <2>4. \A i \in DOMAIN records : records[i].version # Current(r)
        BY <1>3 DEF Recorded, Rows
    <2> QED
        BY <2>1, <2>3, <2>4 DEF OnceInv, RowsDiffer
<1> QED
    BY <1>5, <1>6, <1>7, <1>8 DEF OnceInv

Alone == ~unaware /\ ~hasReset

LEMMA OnceStep ==
    ASSUME TypeInv, OrderInv, OnceInv, [Next]_vars, Alone, Alone'
    PROVE  OnceInv'
<1> USE DEF TypeInv
<1>1. CASE UNCHANGED <<runner, records>>
    BY <1>1 DEF OnceInv, OneMigrates, TodoIsNew, ScriptsRecordNothing, RowsDiffer, Migrating,
                MigratesTo, Recorded, Rows
<1>2. ASSUME NEW r \in Runner, NEW target \in Version, Start(r, target) PROVE OnceInv'
    <2>1. /\ OnlyMoves(r) /\ runner'[r].pc = "status" /\ UNCHANGED records
        BY <1>2, StartMoves DEF StoreType, Start
    <2>2. \A q \in Runner : ~Migrating(q)
        BY <1>2 DEF Start, Alone, Migrating
    <2>3. ~MigratesTo(r)'
        BY <2>1 DEF MigratesTo
    <2> QED
        BY <2>1, <2>2, <2>3, OnceMoves
<1>3. ASSUME NEW r \in Runner, GetStatus(r) PROVE OnceInv'
    <2>1. UNCHANGED records /\ runner[r].pc = "status"
        BY <1>3 DEF GetStatus
    <2>2. CASE runner'[r] = Idle
        BY <1>3, <2>1, <2>2, GetStatusMoves, FinishOnce
    <2>3. CASE runner'[r] # Idle
        <3>1. /\ OnlyMoves(r) /\ runner'[r].pc = "execute" /\ runner'[r].todo = ToApply(r)
              /\ runner'[r].script = runner[r].script
            BY <1>3, <2>3, GetStatusMoves
        <3>2. Migrating(r)' => Migrating(r)
            BY <2>1, <3>1 DEF Migrating
        <3>3. \A v \in runner'[r].todo : ~Recorded(v)
            BY <3>1 DEF ToApply, Pending
        <3> QED
            BY <2>1, <3>1, <3>2, <3>3, OnceMoves
    <2> QED
        BY <2>2, <2>3
<1>4. ASSUME NEW r \in Runner, Execute(r) \/ \E applied \in BOOLEAN : ExecuteFails(r, applied)
      PROVE  OnceInv'
    <2>1. /\ runner[r].pc = "execute" /\ AtWork(r) /\ UNCHANGED records
          /\ StatementDone(r) \/ StatementFailed(r)
        BY <1>4 DEF Execute, ExecuteFails, AtWork
    <2> QED
        BY <2>1, StatementOnce
<1>5. ASSUME NEW r \in Runner, Record(r) PROVE OnceInv'
    <2>1. CASE UNCHANGED records
        <3>1. AtWork(r) /\ (Finish(r) \/ NextFile(r))
            BY <1>5 DEF Record, AtWork
        <3> QED
            BY <2>1, <3>1, FinishMoves, FinishOnce, NextFileOnce
    <2> QED
        BY <1>5, <2>1, RecordOnce
<1>6. ASSUME NEW r \in Runner, StartScript(r) PROVE OnceInv'
    <2>1. /\ OnlyMoves(r) /\ runner'[r].pc = "execute" /\ runner'[r].script
          /\ UNCHANGED records
        BY <1>6, ScriptMoves DEF StartScript
    <2>2. ~Migrating(r)' /\ ~MigratesTo(r)'
        BY <2>1 DEF Migrating, MigratesTo
    <2> QED
        BY <2>1, <2>2, OnceMoves
<1>7. ASSUME NEW r \in Runner, Crash(r) PROVE OnceInv'
    BY <1>7, FinishMoves, FinishOnce DEF Crash
<1>8. ASSUME NEW r \in Runner, StartReset(r) \/ DropTable(r) PROVE FALSE
    BY <1>8 DEF StartReset, DropTable, Alone, OrderInv, OnlyResetsDrop
<1>9. ASSUME NEW r \in Runner, MissRecords(r) PROVE FALSE
    BY <1>9 DEF MissRecords, Alone
<1> QED
    BY <1>1, <1>2, <1>3, <1>4, <1>5, <1>6, <1>7, <1>8, <1>9 DEF Next, Step, EditFile, vars

\* Only runs that overlap or do not get to read the records, or a reset, record a
\* version twice; a crash between
\* executing a version and recording it does not, nor does a run after a failure.
THEOREM VersionsRecordedOnce == Spec => []RecordedOnce
<1> DEFINE IInv == Alone => OnceInv
<1>1. Init => IInv
    BY IdleIsRunner
       DEF Init, OnceInv, OneMigrates, TodoIsNew, ScriptsRecordNothing, RowsDiffer, Migrating,
           MigratesTo
<1>2. TypeInv /\ OrderInv /\ IInv /\ [Next]_vars => IInv'
    <2>1. [Next]_vars /\ Alone' => Alone
        <3> SUFFICES ASSUME [Next]_vars PROVE (unaware => unaware') /\ (hasReset => hasReset')
            BY DEF Alone
        <3>1. \/ UNCHANGED unaware \/ unaware' = TRUE
              \/ \E r \in Runner, target \in Version : Start(r, target)
            BY DEF Next, Step, GetStatus, MissRecords, Execute, ExecuteFails, Record, StartScript, StartReset,
                   DropTable, Crash, EditFile, vars
        <3>2. UNCHANGED hasReset \/ hasReset' = TRUE
            BY DEF Next, Step, Start, GetStatus, MissRecords, Execute, ExecuteFails, Record, StartScript,
                   StartReset, DropTable, Crash, EditFile, vars
        <3>3. ASSUME NEW r \in Runner, NEW target \in Version, Start(r, target), unaware
              PROVE  unaware'
            BY <3>3, Zenon DEF Start
        <3> QED
            BY <3>1, <3>2, <3>3
    <2> SUFFICES ASSUME TypeInv, OrderInv, IInv, [Next]_vars, Alone' PROVE OnceInv'
        OBVIOUS
    <2>2. Alone /\ OnceInv
        BY <2>1
    <2> QED
        BY <2>2, OnceStep
<1>3. IInv => RecordedOnce
    <2> SUFFICES ASSUME OnceInv, NEW v \in Version PROVE Cardinality(Rows(v)) <= 1
        BY DEF RecordedOnce, Alone
    <2>1. CASE Rows(v) = {}
        BY <2>1, FS_EmptySet
    <2>2. CASE Rows(v) # {}
        <3>1. PICK i : i \in Rows(v)
            BY <2>2
        <3>2. \A j \in Rows(v) : j = i
            BY <3>1 DEF OnceInv, RowsDiffer, Rows
        <3>3. Rows(v) = {i}
            BY <3>1, <3>2
        <3>4. Cardinality({i}) = 1
            BY FS_Singleton
        <3> QED
            BY <3>3, <3>4
    <2> QED
        BY <2>1, <2>2
<1>4. Init => OrderInv
    BY IdleIsRunner
       DEF Init, OrderInv, OnlyResetsDrop, TodoHasNoGap, NoGap, MigratesTo, RecordsHaveNoGap,
           Recorded, Rows
<1> QED
    BY <1>1, <1>2, <1>3, <1>4, OrderStep, TypesHold, PTL DEF Spec

=============================================================================
