-------------------------- MODULE MigrationProofs ---------------------------
(***************************************************************************)
(* Proofs about SchemaMigrations, for any number of workers, any number of *)
(* attempts and actions and any revisions that operators migrate to.       *)
(***************************************************************************)
EXTENDS SchemaMigrations, FiniteSetTheorems, TLAPS

Entries(s) == {s[i] : i \in DOMAIN s}

AlterLock == Lock("recovery_actions", "alter")
WriteLock == Lock("recovery_actions", "write")
ReadLock == Lock("recovery_actions", "read")

-----------------------------------------------------------------------------
(* The invariant.                                                          *)

Jobs == [kind : Kinds \cup {"idle"}, todo : Seq(Locks), held : SUBSET Locks,
         action : Nat, method : Methods, answer : Answers]

Runs == [target : Revisions, at : Revisions, todo : Seq(Locks), held : SUBSET Locks,
         queued : BOOLEAN]

Types ==
  /\ rev \in Revisions
  /\ received \in Seq(Revisions) /\ recorded \in Seq(Revisions)
  /\ attempts \subseteq DOMAIN received /\ DOMAIN journal \subseteq DOMAIN recorded
  /\ \A a \in DOMAIN journal : journal[a] \in Rows
  /\ phase \in {"down", "starting", "serving"}
  /\ job \in [Workers -> Jobs]
  /\ alembic \in Runs
  /\ vouched \in BOOLEAN

\* A request under way has its place among the rows.
RoomOK ==
  /\ Len(received) + Doing("ingest") <= MaxAttempts
  /\ Len(recorded) + Doing("create") <= MaxActions

\* A statement holds or will ask for each of its locks; a lock of the journal
\* is held at head only, and keeps migrations of the journal out.
WorkerOK(w) ==
  /\ job[w].kind # "idle" =>
       Entries(Statements(job[w].kind)) \subseteq job[w].held \cup Entries(job[w].todo)
  /\ \A l \in job[w].held : l.table = "recovery_actions" =>
       rev = Latest /\ AlterLock \notin alembic.held
  /\ job[w].kind = "start" =>
       phase = "starting" /\ \A v \in Workers \ {w} : job[v].kind = "idle"
  /\ job[w].kind \notin {"start", "idle"} => phase = "serving"

NoOidcRows == \A a \in DOMAIN journal : journal[a].method # "oidc_jwt"

\* A run goes from the committed revision to its target, and holds the lock of
\* the journal from the time it undoes 0005 or 0004. Below 0004 the rows that
\* have no place there are excluded until it ends.
RunOK ==
  /\ alembic.queued => alembic.todo # << >>
  /\ Migrating =>
       /\ alembic.target \in Targets
       /\ \/ alembic.target <= alembic.at /\ alembic.at <= rev
          \/ rev <= alembic.at /\ alembic.at <= alembic.target
       /\ alembic.target < alembic.at /\ alembic.at \in {4, 5} =>
            \/ alembic.todo = AlterJournal
            \/ alembic.todo = << >> /\ AlterLock \in alembic.held
       /\ rev = 5 /\ alembic.at < 5 => AlterLock \in alembic.held
       /\ rev >= 4 /\ alembic.at <= 3 => AlterLock \in alembic.held /\ NoOidcRows

RowsOK ==
  /\ HistoryIsKept
  /\ rev <= 3 => NoOidcRows

\* A ready answer stands for the head revision with no migration under way.
VouchedOK == vouched => rev = Latest /\ ~Migrating

Inv ==
  /\ Types
  /\ RoomOK
  /\ \A w \in Workers : WorkerOK(w)
  /\ RunOK
  /\ RowsOK
  /\ VouchedOK
  /\ rev \in Targets \cup {0}

LEMMA LocksAreLocks ==
  ASSUME NEW table \in Tables, NEW mode \in {"read", "write", "index", "alter"}
  PROVE  Lock(table, mode) \in Locks
  BY DEF Lock, Locks

LEMMA ScriptType ==
  ASSUME NEW target \in Revisions, NEW at \in Revisions
  PROVE  /\ Script(target, at) \in Seq(Locks)
         /\ target # at => Towards(target, at) \in Revisions
         /\ target < at /\ at \in {4, 5} => Script(target, at) = AlterJournal
<1>1. /\ Lock("delivery_attempts", "index") \in Locks
      /\ Lock("delivery_attempts", "alter") \in Locks
      /\ Lock("recovery_actions", "alter") \in Locks
      /\ Lock("github_deliveries", "alter") \in Locks
  BY DEF Lock, Locks, Tables
<1>2. /\ CreateIndex \in Seq(Locks) /\ DropIndex \in Seq(Locks)
      /\ AlterJournal \in Seq(Locks) /\ DropLedger \in Seq(Locks) /\ << >> \in Seq(Locks)
  BY <1>1 DEF CreateIndex, DropIndex, AlterJournal, DropLedger
<1>3. \A r : Upgrade(r) \in Seq(Locks) /\ Downgrade(r) \in Seq(Locks)
  BY <1>2 DEF Upgrade, Downgrade
<1>4. Script(target, at) \in Seq(Locks)
  BY <1>3 DEF Script
<1>5. target # at => Towards(target, at) \in Revisions
  BY DEF Towards, Revisions, Latest
<1>6. target < at /\ at \in {4, 5} => Script(target, at) = AlterJournal
  BY DEF Script, Downgrade, Revisions, Latest
<1> QED
  BY <1>4, <1>5, <1>6

LEMMA StatementsType ==
  ASSUME NEW kind
  PROVE  /\ Statements(kind) \in Seq(Locks)
         /\ kind \in {"create", "finalize"} => WriteLock \in Entries(Statements(kind))
         /\ kind \in {"start", "ready"} => ReadLock \in Entries(Statements(kind))
<1>1. /\ Lock("github_deliveries", "write") \in Locks /\ Lock("github_deliveries", "read") \in Locks
      /\ Lock("delivery_attempts", "write") \in Locks /\ Lock("delivery_attempts", "read") \in Locks
      /\ Lock("recovery_actions", "write") \in Locks /\ Lock("recovery_actions", "read") \in Locks
  BY DEF Lock, Locks, Tables
<1>2. Statements(kind) \in Seq(Locks)
  BY <1>1 DEF Statements
<1>3. kind \in {"create", "finalize"} => WriteLock \in Entries(Statements(kind))
  <2> SUFFICES ASSUME kind \in {"create", "finalize"}
               PROVE  WriteLock \in Entries(Statements(kind))
    OBVIOUS
  <2>1. Statements(kind) = << WriteLock >>
    BY DEF Statements, WriteLock
  <2> QED
    BY <2>1 DEF Entries
<1>4. kind \in {"start", "ready"} => ReadLock \in Entries(Statements(kind))
  <2> SUFFICES ASSUME kind \in {"start", "ready"}
               PROVE  ReadLock \in Entries(Statements(kind))
    OBVIOUS
  <2>1. Statements(kind) = << Lock("delivery_attempts", "read"),
                              Lock("github_deliveries", "read"), ReadLock >>
    BY DEF Statements, ReadLock
  <2>2. 3 \in DOMAIN Statements(kind) /\ Statements(kind)[3] = ReadLock
    BY <2>1
  <2> QED
    BY <2>2 DEF Entries
<1> QED
  BY <1>2, <1>3, <1>4

LEMMA HeadAndTail ==
  ASSUME NEW S, NEW s \in Seq(S), s # << >>
  PROVE  /\ Head(s) \in S /\ Tail(s) \in Seq(S)
         /\ Entries(s) \subseteq {Head(s)} \cup Entries(Tail(s))
<1>1. /\ Head(s) \in S /\ Tail(s) \in Seq(S) /\ Head(s) = s[1]
      /\ Len(s) \in Nat \ {0} /\ DOMAIN s = 1 .. Len(s)
      /\ DOMAIN Tail(s) = 1 .. Len(s) - 1
      /\ \A i \in 1 .. Len(s) - 1 : Tail(s)[i] = s[i + 1]
  OBVIOUS
<1>2. ASSUME NEW i \in DOMAIN s, i # 1 PROVE s[i] \in Entries(Tail(s))
  <2>1. i - 1 \in DOMAIN Tail(s) /\ Tail(s)[i - 1] = s[i]
    BY <1>1, <1>2
  <2> QED
    BY <2>1 DEF Entries
<1> QED
  BY <1>1, <1>2 DEF Entries

\* Who does what, when one worker's job changes.
LEMMA DoingAfter ==
  ASSUME Types, NEW w \in Workers, NEW j \in Jobs, job' = [job EXCEPT ![w] = j], NEW kind
  PROVE  /\ Doing(kind) \in Nat /\ Doing(kind)' \in Nat
         /\ j.kind # kind => Doing(kind)' <= Doing(kind)
         /\ j.kind # kind /\ job[w].kind = kind => Doing(kind)' = Doing(kind) - 1
         /\ Doing(kind)' <= Doing(kind) + 1
<1> DEFINE D == {v \in Workers : job[v].kind = kind}
           E == {v \in Workers : job'[v].kind = kind}
<1>1. D \in SUBSET Workers /\ E \in SUBSET Workers
  OBVIOUS
<1>2. /\ IsFiniteSet(D) /\ Cardinality(D) \in Nat
      /\ IsFiniteSet(E) /\ Cardinality(E) \in Nat
  BY <1>1, ConstantsAssumption, FS_Subset, FS_CardinalityType
<1>3. E \subseteq D \cup {w} /\ (j.kind # kind => E = D \ {w})
  BY DEF Types
<1>4. job[w].kind = kind => w \in D
  OBVIOUS
<1>0. Doing(kind) = Cardinality(D) /\ Doing(kind)' = Cardinality(E)
  BY DEF Doing
<1> HIDE DEF D, E
<1>5. /\ IsFiniteSet(D \cup {w}) /\ Cardinality(D \cup {w}) <= Cardinality(D) + 1
      /\ Cardinality(D \cup {w}) \in Nat
  <2>1. /\ IsFiniteSet(D \cup {w})
        /\ Cardinality(D \cup {w}) = IF w \in D THEN Cardinality(D) ELSE Cardinality(D) + 1
    BY <1>2, FS_AddElement
  <2> QED
    BY <1>2, <2>1
<1>6. Cardinality(E) <= Cardinality(D) + 1
  BY <1>2, <1>3, <1>5, FS_Subset
<1>7. Cardinality(D \ {w}) = IF w \in D THEN Cardinality(D) - 1 ELSE Cardinality(D)
  BY <1>2, FS_RemoveElement
<1>8. j.kind # kind =>
        /\ Cardinality(E) <= Cardinality(D)
        /\ job[w].kind = kind => Cardinality(E) = Cardinality(D) - 1
  BY <1>2, <1>3, <1>4, <1>7
<1> QED
  BY <1>2, <1>6, <1>8, <1>0

LEMMA NobodyDoes ==
  ASSUME NEW kind, \A w \in Workers : job[w].kind # kind
  PROVE  Doing(kind) = 0
<1>1. {w \in Workers : job[w].kind = kind} = {}
  OBVIOUS
<1> QED
  BY <1>1, FS_EmptySet DEF Doing

LEMMA NoneIsMigration == NoMigration \in Runs /\ AlterLock \in Locks
  BY DEF NoMigration, Runs, Revisions, Latest, AlterLock, Lock, Locks, Tables

LEMMA IdleType ==
  ASSUME NEW answer \in Answers
  PROVE  /\ Idle(answer) \in Jobs /\ Idle(answer).kind = "idle" /\ Idle(answer).held = {}
         /\ Idle(answer).answer = answer
  BY DEF Idle, Jobs, Methods

LEMMA InitInv == Init => Inv
<1> SUFFICES ASSUME Init PROVE Inv
  OBVIOUS
<1>1. /\ received = << >> /\ recorded = << >> /\ journal = << >>
      /\ Len(received) = 0 /\ Len(recorded) = 0 /\ DOMAIN journal = {}
      /\ DOMAIN received = {} /\ DOMAIN recorded = {}
      /\ received \in Seq(Revisions) /\ recorded \in Seq(Revisions)
  BY DEF Init
<1>2. Idle("none") \in Jobs /\ Idle("none").kind = "idle" /\ Idle("none").held = {}
  BY IdleType DEF Answers
<1>3. Types
  <2>1. job \in [Workers -> Jobs] /\ alembic \in Runs /\ rev \in Revisions
    BY <1>2, NoneIsMigration DEF Init, Revisions, Latest
  <2>2. attempts = {} /\ phase = "down" /\ vouched = FALSE
    BY DEF Init
  <2> QED
    BY <1>1, <2>1, <2>2 DEF Types
<1>4. ASSUME NEW w \in Workers PROVE WorkerOK(w) /\ job[w].kind = "idle"
  BY <1>2 DEF Init, WorkerOK
<1>5. RoomOK
  BY <1>1, <1>4, NobodyDoes, ConstantsAssumption DEF RoomOK
<1>6. RunOK /\ RowsOK /\ VouchedOK
  BY <1>1 DEF Init, RunOK, RowsOK, VouchedOK, Migrating, NoMigration, HistoryIsKept, NoOidcRows
<1> QED
  BY <1>3, <1>4, <1>5, <1>6 DEF Init, Inv

-----------------------------------------------------------------------------
(* The steps of a migration.                                               *)

LEMMA Revision == \A r \in Revisions : r \in Nat /\ r <= 5
  BY DEF Revisions, Latest

\* What is known of the run under way.
LEMMA RunFacts ==
  ASSUME Inv, Migrating
  PROVE  /\ alembic.target \in Nat /\ alembic.at \in Nat /\ rev \in Nat
         /\ alembic.target <= 5 /\ alembic.at <= 5 /\ rev <= 5
         /\ \/ alembic.target <= alembic.at /\ alembic.at <= rev
            \/ rev <= alembic.at /\ alembic.at <= alembic.target
         /\ alembic.target < alembic.at /\ alembic.at \in {4, 5} =>
              \/ alembic.todo = AlterJournal
              \/ alembic.todo = << >> /\ AlterLock \in alembic.held
         /\ rev = 5 /\ alembic.at < 5 => AlterLock \in alembic.held
         /\ rev >= 4 /\ alembic.at <= 3 => AlterLock \in alembic.held /\ NoOidcRows
<1>1. alembic.target \in Revisions /\ alembic.at \in Revisions /\ rev \in Revisions
  BY DEF Inv, Types, Runs
<1>2. /\ alembic.target \in Nat /\ alembic.at \in Nat /\ rev \in Nat
      /\ alembic.target <= 5 /\ alembic.at <= 5 /\ rev <= 5
  BY <1>1, Revision
<1> QED
  BY <1>2 DEF Inv, RunOK

\* The run moves on; what is committed and what the program does stay.
LEMMA RunMoves ==
  ASSUME Inv, UNCHANGED <<rev, attempts, journal, phase, job, received, recorded>>,
         alembic' \in Runs, RunOK', vouched' \in BOOLEAN,
         vouched' => rev = Latest /\ ~Migrating',
         AlterLock \in alembic'.held =>
           \/ AlterLock \in alembic.held
           \/ \A w \in Workers : \A l \in job[w].held : l.table # "recovery_actions"
  PROVE  Inv'
<1>1. Types'
  BY DEF Inv, Types
<1>2. RoomOK'
  BY DEF Inv, RoomOK, Doing
<1>3. ASSUME NEW w \in Workers PROVE WorkerOK(w)'
  BY DEF Inv, WorkerOK
<1>4. RowsOK' /\ VouchedOK' /\ rev' \in Targets \cup {0}
  BY DEF Inv, RowsOK, VouchedOK, HistoryIsKept, NoOidcRows
<1> QED
  BY <1>1, <1>2, <1>3, <1>4 DEF Inv

LEMMA BeginKeepsInv == ASSUME Inv, NEW target \in Targets, Begin(target) PROVE Inv'
<1>1. /\ alembic' = [target |-> target, at |-> rev, todo |-> Script(target, rev),
                     held |-> {}, queued |-> FALSE]
      /\ vouched' = FALSE
      /\ UNCHANGED <<rev, attempts, journal, phase, job, received, recorded>>
  BY DEF Begin, database
<1>2. target \in Revisions /\ rev \in Revisions
  BY ConstantsAssumption DEF Inv, Types
<1>3. /\ Script(target, rev) \in Seq(Locks)
      /\ target < rev /\ rev \in {4, 5} => Script(target, rev) = AlterJournal
  BY <1>2, ScriptType
<1>4. alembic' \in Runs
  BY <1>1, <1>2, <1>3 DEF Runs
<1>5. RunOK'
  BY <1>1, <1>2, <1>3 DEF RunOK, Revisions, Latest
<1> QED
  BY <1>1, <1>4, <1>5, RunMoves

LEMMA EndedRun ==
  ASSUME Inv, Migrating, EndRun,
         UNCHANGED <<rev, attempts, journal, phase, job, received, recorded, vouched>>
  PROVE  Inv'
<1>1. alembic' = NoMigration /\ alembic'.held = {} /\ alembic'.queued = FALSE /\ ~Migrating'
  BY DEF EndRun, NoMigration, Migrating
<1>2. RunOK' /\ alembic' \in Runs
  BY <1>1, NoneIsMigration DEF RunOK
<1>3. vouched \in BOOLEAN /\ ~vouched
  BY DEF Inv, VouchedOK, Types
<1> QED
  BY <1>1, <1>2, <1>3, RunMoves

LEMMA AskKeepsInv == ASSUME Inv, Ask PROVE Inv'
<1>1. /\ alembic.todo # << >> /\ alembic' = [alembic EXCEPT !.queued = TRUE]
      /\ UNCHANGED <<rev, attempts, journal, phase, job, received, recorded, vouched>>
  BY DEF Ask, database, history
<1>2. alembic \in Runs /\ Migrating
  BY <1>1 DEF Inv, Types, Migrating, NoMigration
<1>3. /\ alembic' \in Runs /\ alembic'.todo = alembic.todo /\ alembic'.held = alembic.held
      /\ alembic'.target = alembic.target /\ alembic'.at = alembic.at
  BY <1>1, <1>2 DEF Runs
<1>4. RunOK'
  BY <1>1, <1>2, <1>3 DEF Inv, RunOK, NoOidcRows
<1> QED
  BY <1>1, <1>2, <1>3, <1>4, RunMoves DEF Inv, VouchedOK, Types

LEMMA GrantedKeepsInv == ASSUME Inv, Granted PROVE Inv'
<1>1. /\ alembic.queued /\ \A w \in Workers : ~AlembicWaitsFor(w)
      /\ alembic' = [alembic EXCEPT !.held = @ \cup {Head(alembic.todo)},
                                    !.todo = Tail(@), !.queued = FALSE]
      /\ UNCHANGED <<rev, attempts, journal, phase, job, received, recorded, vouched>>
  BY DEF Granted, database, history
<1>2. alembic \in Runs /\ alembic.todo \in Seq(Locks) /\ alembic.todo # << >> /\ Migrating
  BY <1>1 DEF Inv, Types, RunOK, Migrating, NoMigration, Runs
<1>3. Head(alembic.todo) \in Locks /\ Tail(alembic.todo) \in Seq(Locks)
  BY <1>2, HeadAndTail
<1>4. /\ alembic' \in Runs /\ alembic'.todo = Tail(alembic.todo) /\ alembic'.queued = FALSE
      /\ alembic'.held = alembic.held \cup {Head(alembic.todo)}
      /\ alembic'.target = alembic.target /\ alembic'.at = alembic.at
  BY <1>1, <1>2, <1>3 DEF Runs
<1>5. alembic.todo = AlterJournal =>
        Head(alembic.todo) = AlterLock /\ Tail(alembic.todo) = << >>
  BY DEF AlterJournal, AlterLock
<1>6. RunOK'
  BY <1>1, <1>2, <1>4, <1>5 DEF Inv, RunOK, NoOidcRows
<1>7. ASSUME Head(alembic.todo) = AlterLock, NEW w \in Workers, NEW l \in job[w].held
      PROVE  l.table # "recovery_actions"
  <2>1. ~Conflict(l, AlterLock)
    BY <1>1, <1>7 DEF AlembicWaitsFor
  <2>2. AlterLock.table = "recovery_actions" /\ AlterLock.mode = "alter"
    BY DEF AlterLock, Lock
  <2> QED
    BY <2>1, <2>2 DEF Conflict
<1> QED
  BY <1>1, <1>2, <1>4, <1>6, <1>7, RunMoves DEF Inv, VouchedOK, Types

LEMMA AdvanceKeepsInv == ASSUME Inv, Advance PROVE Inv'
<1> DEFINE at == Towards(alembic.target, alembic.at)
           todo == IF at = alembic.target THEN << >> ELSE Script(alembic.target, at)
<1>1. /\ Migrating /\ alembic.todo = << >> /\ alembic.at # alembic.target
      /\ ~Refuses(alembic.target, alembic.at)
      /\ alembic' = [alembic EXCEPT !.at = at, !.todo = todo]
      /\ UNCHANGED <<rev, attempts, journal, phase, job, received, recorded, vouched>>
  BY DEF Advance, database, history
<1>2. alembic \in Runs /\ alembic.target \in Revisions /\ alembic.at \in Revisions
      /\ rev \in Revisions
  BY DEF Inv, Types, Runs
<1>3. at \in Revisions /\ (at = alembic.at + 1 \/ at = alembic.at - 1)
      /\ (alembic.target > alembic.at => at = alembic.at + 1)
      /\ (alembic.target < alembic.at => at = alembic.at - 1)
  BY <1>1, <1>2 DEF Towards, Revisions, Latest
<1>4. /\ todo \in Seq(Locks)
      /\ alembic.target < at /\ at \in {4, 5} => todo = AlterJournal
  <2>1. Script(alembic.target, at) \in Seq(Locks)
        /\ (alembic.target < at /\ at \in {4, 5} => Script(alembic.target, at) = AlterJournal)
    BY <1>2, <1>3, ScriptType
  <2>2. alembic.target \in Nat /\ at \in Nat
    BY <1>2, <1>3, Revision
  <2> HIDE DEF at
  <2> QED
    BY <2>1, <2>2
<1> HIDE DEF at, todo
<1>5. /\ alembic' \in Runs /\ alembic'.todo = todo /\ alembic'.held = alembic.held
      /\ alembic'.target = alembic.target /\ alembic'.at = at /\ alembic'.queued = alembic.queued
  BY <1>1, <1>2, <1>3, <1>4 DEF Runs
<1>6. ~alembic.queued
  BY <1>1 DEF Inv, RunOK
<1>7. alembic.target < alembic.at /\ alembic.at = 4 => NoOidcRows
  BY <1>1 DEF Refuses, NoOidcRows
<1>8. RunOK'
  <2>0. /\ alembic.target \in Nat /\ alembic.at \in Nat /\ rev \in Nat
        /\ alembic.target <= 5 /\ alembic.at <= 5 /\ rev <= 5
        /\ \/ alembic.target <= alembic.at /\ alembic.at <= rev
           \/ rev <= alembic.at /\ alembic.at <= alembic.target
        /\ alembic.target < alembic.at /\ alembic.at \in {4, 5} =>
             \/ alembic.todo = AlterJournal
             \/ alembic.todo = << >> /\ AlterLock \in alembic.held
        /\ rev = 5 /\ alembic.at < 5 => AlterLock \in alembic.held
        /\ rev >= 4 /\ alembic.at <= 3 => AlterLock \in alembic.held /\ NoOidcRows
    BY <1>1, RunFacts
  <2>1. alembic'.target \in Targets
    BY <1>1, <1>5 DEF Inv, RunOK
  <2>2. \/ alembic'.target <= alembic'.at /\ alembic'.at <= rev
        \/ rev <= alembic'.at /\ alembic'.at <= alembic'.target
    BY <1>1, <1>3, <1>5, <2>0
  <2>3. rev = 5 /\ at < 5 => AlterLock \in alembic.held
    <3>1. AlterJournal # << >>
      BY DEF AlterJournal
    <3>2. alembic.at # alembic.target /\ alembic.todo = << >>
      BY <1>1
    <3> QED
      BY <1>3, <2>0, <3>1, <3>2
  <2>4. rev >= 4 /\ at <= 3 => AlterLock \in alembic.held /\ NoOidcRows
    <3>1. AlterJournal # << >>
      BY DEF AlterJournal
    <3>2. alembic.at # alembic.target /\ alembic.todo = << >>
      BY <1>1
    <3> QED
      BY <1>3, <1>7, <2>0, <3>1, <3>2
  <2>5. NoOidcRows' = NoOidcRows
    BY <1>1 DEF NoOidcRows
  <2> QED
    BY <1>1, <1>4, <1>5, <1>6, <2>1, <2>2, <2>3, <2>4, <2>5 DEF RunOK
<1>9. ~vouched
  BY <1>1 DEF Inv, VouchedOK
<1> QED
  BY <1>1, <1>5, <1>8, <1>9, RunMoves DEF Inv, Types

LEMMA CommitKeepsInv == ASSUME Inv, CommitRun PROVE Inv'
<1>1. /\ Migrating /\ alembic.at = alembic.target /\ rev' = alembic.target
      /\ attempts' = IF rev' = 0 THEN {} ELSE attempts
      /\ journal' = [a \in Keeps(rev') |->
                       [journal[a] EXCEPT !.principal = @ /\ rev' >= 4,
                                          !.evidence = @ /\ rev' >= 5]]
      /\ received' = [a \in DOMAIN received |-> Lower(received[a], rev')]
      /\ recorded' = [a \in DOMAIN recorded |-> Lower(recorded[a], rev')]
      /\ alembic' = NoMigration
      /\ UNCHANGED <<phase, job, vouched>>
  BY DEF CommitRun, EndRun
<1>2. Types /\ rev' \in Revisions /\ rev \in Revisions /\ rev' \in Targets
  BY <1>1 DEF Inv, Types, Runs, RunOK
<1>3. /\ received \in Seq(Revisions) /\ recorded \in Seq(Revisions)
      /\ Len(received) \in Nat /\ DOMAIN received = 1 .. Len(received)
      /\ Len(recorded) \in Nat /\ DOMAIN recorded = 1 .. Len(recorded)
  BY <1>2 DEF Types
<1>4. \A r \in Revisions : Lower(r, rev') \in Revisions /\ Lower(r, rev') <= r /\ Lower(r, rev') <= rev'
  BY <1>2 DEF Lower, Revisions, Latest
<1>5. /\ received' \in Seq(Revisions) /\ DOMAIN received' = DOMAIN received
      /\ recorded' \in Seq(Revisions) /\ DOMAIN recorded' = DOMAIN recorded
      /\ Len(received') = Len(received) /\ Len(recorded') = Len(recorded)
  <2>1. ASSUME NEW s \in Seq(Revisions)
        PROVE  /\ [a \in DOMAIN s |-> Lower(s[a], rev')] \in Seq(Revisions)
               /\ Len([a \in DOMAIN s |-> Lower(s[a], rev')]) = Len(s)
    <3>1. \A a \in DOMAIN s : Lower(s[a], rev') \in Revisions
      BY <1>4
    <3> QED
      BY <3>1
  <2> QED
    BY <1>1, <1>3, <2>1
<1>14. \A a \in DOMAIN received : received[a] \in Revisions /\ received'[a] = Lower(received[a], rev')
  <2>1. \A a \in DOMAIN received : received[a] \in Revisions
    BY <1>3
  <2> QED
    BY <1>1, <2>1
<1>15. \A a \in DOMAIN recorded : recorded[a] \in Revisions /\ recorded'[a] = Lower(recorded[a], rev')
  <2>1. \A a \in DOMAIN recorded : recorded[a] \in Revisions
    BY <1>3
  <2> QED
    BY <1>1, <2>1
<1>6. /\ DOMAIN journal' \subseteq DOMAIN journal
      /\ rev' < 3 => DOMAIN journal' = {}
      /\ rev' >= 3 => DOMAIN journal' = DOMAIN journal
  <2>1. DOMAIN journal' = Keeps(rev')
    BY <1>1
  <2>2. rev' \in Nat
    BY <1>2, Revision
  <2> QED
    BY <2>1, <2>2 DEF Keeps
<1>7. \A a \in DOMAIN journal' :
        /\ journal'[a] \in Rows /\ journal'[a].method = journal[a].method
        /\ journal'[a].principal = (journal[a].principal /\ rev' >= 4)
        /\ journal'[a].evidence = (journal[a].evidence /\ rev' >= 5)
  <2> SUFFICES ASSUME NEW a \in DOMAIN journal'
               PROVE  /\ journal'[a] \in Rows /\ journal'[a].method = journal[a].method
                      /\ journal'[a].principal = (journal[a].principal /\ rev' >= 4)
                      /\ journal'[a].evidence = (journal[a].evidence /\ rev' >= 5)
    OBVIOUS
  <2>1. journal[a] \in Rows
    BY <1>2, <1>6 DEF Types
  <2>2. journal'[a] = [journal[a] EXCEPT !.principal = @ /\ rev' >= 4,
                                         !.evidence = @ /\ rev' >= 5]
    BY <1>1
  <2> QED
    BY <2>1, <2>2 DEF Rows
<1>8. NoMigration \in Runs /\ NoMigration.held = {} /\ NoMigration.queued = FALSE
  BY NoneIsMigration DEF NoMigration
<1>9. Types'
  <2>1. attempts' \subseteq DOMAIN received'
    BY <1>1, <1>2, <1>5 DEF Types
  <2>2. DOMAIN journal' \subseteq DOMAIN recorded'
    BY <1>2, <1>5, <1>6 DEF Types
  <2> QED
    BY <1>1, <1>2, <1>5, <1>7, <1>8, <2>1, <2>2 DEF Types
<1>10. RoomOK'
  BY <1>1, <1>5 DEF Inv, RoomOK, Doing
<1>11. ASSUME NEW w \in Workers PROVE WorkerOK(w)'
  <2>1. ASSUME NEW l \in job[w].held, l.table = "recovery_actions" PROVE rev' = Latest
    <3>1. rev = 5 /\ AlterLock \notin alembic.held
      BY <2>1 DEF Inv, WorkerOK, Latest
    <3>2. alembic.at \in Nat /\ alembic.at <= 5
          /\ (rev = 5 /\ alembic.at < 5 => AlterLock \in alembic.held)
      BY <1>1, RunFacts
    <3>3. rev' = alembic.at
      BY <1>1
    <3> QED
      BY <3>1, <3>2, <3>3 DEF Latest
  <2> QED
    BY <1>1, <1>8, <2>1 DEF Inv, WorkerOK
<1>12. RunOK' /\ VouchedOK'
  BY <1>1, <1>8 DEF Inv, RunOK, VouchedOK, Migrating
<1>13. RowsOK'
  <2>1. rev' <= 3 => NoOidcRows'
    <3>1. CASE rev' < 3
      BY <1>6, <3>1 DEF NoOidcRows
    <3>2. CASE rev' = 3
      <4>1. NoOidcRows
        <5>1. /\ rev \in Nat /\ alembic.at = 3
              /\ rev >= 4 /\ alembic.at <= 3 => NoOidcRows
          BY <1>1, <3>2, RunFacts
        <5>2. rev <= 3 => NoOidcRows
          BY DEF Inv, RowsOK
        <5> QED
          BY <5>1, <5>2
      <4> QED
        BY <1>6, <1>7, <4>1 DEF NoOidcRows
    <3> QED
      BY <1>2, <3>1, <3>2 DEF Revisions, Latest
  <2>2. ASSUME NEW a \in DOMAIN received', received'[a] >= 1 PROVE a \in attempts'
    <3>1. /\ received[a] \in Revisions /\ received'[a] = Lower(received[a], rev')
          /\ a \in DOMAIN received
      BY <1>5, <1>14
    <3>2. received[a] >= 1 /\ rev' >= 1
      <4>1. Lower(received[a], rev') <= received[a] /\ Lower(received[a], rev') <= rev'
        BY <1>4, <3>1
      <4>2. received[a] \in Nat /\ rev' \in Nat /\ Lower(received[a], rev') \in Nat
        BY <1>2, <1>4, <3>1, Revision
      <4>3. Lower(received[a], rev') >= 1
        BY <2>2, <3>1
      <4> QED
        BY <4>1, <4>2, <4>3
    <3>3. attempts' = attempts
      <4>1. attempts' = IF rev' = 0 THEN {} ELSE attempts
        BY DEF CommitRun
      <4>2. rev' # 0
        BY <1>2, <3>2
      <4> QED
        BY <4>1, <4>2
    <3> QED
      BY <3>1, <3>2, <3>3 DEF Inv, RowsOK, HistoryIsKept
  <2>3. ASSUME NEW a \in DOMAIN recorded'
        PROVE  /\ recorded'[a] >= 3 => a \in DOMAIN journal'
               /\ recorded'[a] >= 5 => journal'[a].evidence
    <3>1. /\ recorded[a] \in Revisions /\ recorded'[a] = Lower(recorded[a], rev')
          /\ a \in DOMAIN recorded
      BY <1>5, <1>15
    <3>2. /\ recorded'[a] >= 3 => recorded[a] >= 3 /\ rev' >= 3
          /\ recorded'[a] >= 5 => recorded[a] >= 5 /\ rev' >= 5 /\ recorded'[a] >= 3
      BY <1>2, <1>4, <3>1 DEF Revisions, Latest
    <3>3. recorded'[a] >= 3 => a \in DOMAIN journal'
      BY <1>6, <3>1, <3>2 DEF Inv, RowsOK, HistoryIsKept
    <3> QED
      BY <1>7, <3>1, <3>2, <3>3 DEF Inv, RowsOK, HistoryIsKept
  <2>4. ASSUME NEW a \in DOMAIN journal', journal'[a].method = "oidc_jwt"
        PROVE  journal'[a].principal
    <3>1. rev' >= 4
      BY <1>2, <2>1, <2>4 DEF NoOidcRows, Revisions, Latest
    <3> QED
      BY <1>6, <1>7, <2>4, <3>1 DEF Inv, RowsOK, HistoryIsKept
  <2> QED
    BY <2>1, <2>2, <2>3, <2>4 DEF RowsOK, HistoryIsKept
<1> QED
  BY <1>2, <1>9, <1>10, <1>11, <1>12, <1>13 DEF Inv
-----------------------------------------------------------------------------
(* The steps of the program's workers.                                     *)

\* One worker's job changes: what the others rely on stays.
LEMMA WorkersFit ==
  ASSUME Inv, UNCHANGED <<rev, alembic>>,
         NEW w \in Workers, NEW j \in Jobs, job' = [job EXCEPT ![w] = j],
         j.kind # "idle" => Entries(Statements(j.kind)) \subseteq j.held \cup Entries(j.todo),
         \A l \in j.held : l.table = "recovery_actions" =>
           rev = Latest /\ AlterLock \notin alembic.held,
         \/ phase' = phase /\ j.kind \in {"idle", job[w].kind}
         \/ phase' = phase /\ phase = "serving" /\ j.kind # "start"
         \/ /\ \A v \in Workers \ {w} : job[v].kind = "idle"
            /\ j.kind = "idle" \/ (j.kind = "start" /\ phase' = "starting")
  PROVE  job' \in [Workers -> Jobs] /\ \A v \in Workers : WorkerOK(v)'
<1>1. job \in [Workers -> Jobs] /\ \A v \in Workers : WorkerOK(v)
  BY DEF Inv, Types
<1>2. /\ job' \in [Workers -> Jobs] /\ job'[w] = j
      /\ \A v \in Workers \ {w} : job'[v] = job[v]
  BY <1>1
<1>3. WorkerOK(w)'
  <2>1. /\ j.kind # "idle" => Entries(Statements(j.kind)) \subseteq j.held \cup Entries(j.todo)
        /\ \A l \in j.held : l.table = "recovery_actions" =>
             rev' = Latest /\ AlterLock \notin alembic'.held
    OBVIOUS
  <2>2. /\ j.kind = "start" =>
             phase' = "starting" /\ \A v \in Workers \ {w} : job'[v].kind = "idle"
        /\ j.kind \notin {"start", "idle"} => phase' = "serving"
    BY <1>1, <1>2 DEF WorkerOK
  <2> QED
    BY <1>2, <2>1, <2>2 DEF WorkerOK
<1>4. ASSUME NEW v \in Workers \ {w} PROVE WorkerOK(v)'
  <2>1. /\ job[v].kind # "idle" =>
             Entries(Statements(job[v].kind)) \subseteq job[v].held \cup Entries(job[v].todo)
        /\ \A l \in job[v].held : l.table = "recovery_actions" =>
             rev' = Latest /\ AlterLock \notin alembic'.held
    BY <1>1 DEF WorkerOK
  <2>2. /\ job[v].kind = "start" =>
             phase' = "starting" /\ \A u \in Workers \ {v} : job'[u].kind = "idle"
        /\ job[v].kind \notin {"start", "idle"} => phase' = "serving"
    BY <1>1, <1>2 DEF WorkerOK
  <2> QED
    BY <1>2, <2>1, <2>2 DEF WorkerOK
<1> QED
  BY <1>2, <1>3, <1>4

LEMMA RowsStay ==
  ASSUME Inv, UNCHANGED <<rev, attempts, journal, alembic, received, recorded>>
  PROVE  RunOK' /\ RowsOK' /\ rev' \in Targets \cup {0}
  BY DEF Inv, RunOK, RowsOK, HistoryIsKept, NoOidcRows, Migrating

\* A step of one worker that changes no row.
LEMMA StatementStep ==
  ASSUME Inv, UNCHANGED <<rev, attempts, journal, alembic, received, recorded>>,
         NEW w \in Workers, NEW j \in Jobs, job' = [job EXCEPT ![w] = j],
         phase' \in {"down", "starting", "serving"}, vouched' \in BOOLEAN,
         vouched' => rev = Latest /\ ~Migrating,
         j.kind # "idle" => Entries(Statements(j.kind)) \subseteq j.held \cup Entries(j.todo),
         \A l \in j.held : l.table = "recovery_actions" =>
           rev = Latest /\ AlterLock \notin alembic.held,
         \/ phase' = phase /\ j.kind \in {"idle", job[w].kind}
         \/ phase' = phase /\ phase = "serving" /\ j.kind # "start"
         \/ /\ \A v \in Workers \ {w} : job[v].kind = "idle"
            /\ j.kind = "idle" \/ (j.kind = "start" /\ phase' = "starting"),
         RoomOK'
  PROVE  Inv'
<1>1. job' \in [Workers -> Jobs] /\ \A v \in Workers : WorkerOK(v)'
  BY WorkersFit
<1>2. RunOK' /\ RowsOK' /\ rev' \in Targets \cup {0}
  BY RowsStay
<1>3. Types'
  BY <1>1 DEF Inv, Types
<1>4. VouchedOK'
  BY DEF VouchedOK, Migrating
<1> QED
  BY <1>1, <1>2, <1>3, <1>4 DEF Inv

\* Nobody begins to ingest or to create: the room is enough.
LEMMA RoomStays ==
  ASSUME Inv, UNCHANGED <<received, recorded>>,
         NEW w \in Workers, NEW j \in Jobs, job' = [job EXCEPT ![w] = j],
         j.kind = job[w].kind \/ j.kind \notin {"ingest", "create"}
  PROVE  RoomOK'
<1>1. Types /\ RoomOK
  BY DEF Inv
<1>2. ASSUME NEW kind \in {"ingest", "create"}
      PROVE  Doing(kind) \in Nat /\ Doing(kind)' \in Nat /\ Doing(kind)' <= Doing(kind)
  <2>1. Doing(kind) \in Nat /\ Doing(kind)' \in Nat
        /\ (j.kind # kind => Doing(kind)' <= Doing(kind))
    BY <1>1, DoingAfter
  <2>2. ASSUME j.kind = job[w].kind PROVE Doing(kind)' = Doing(kind)
    <3>1. {v \in Workers : job'[v].kind = kind} = {v \in Workers : job[v].kind = kind}
      BY <1>1, <2>2 DEF Types
    <3> QED
      BY <3>1 DEF Doing
  <2> QED
    BY <2>1, <2>2
<1>3. Len(received) \in Nat /\ Len(recorded) \in Nat
  BY <1>1 DEF Types
<1>4. /\ Doing("ingest")' <= Doing("ingest") /\ Doing("ingest") \in Nat /\ Doing("ingest")' \in Nat
      /\ Doing("create")' <= Doing("create") /\ Doing("create") \in Nat /\ Doing("create")' \in Nat
  BY <1>2
<1>5. /\ Len(received) + Doing("ingest")' <= MaxAttempts
      /\ Len(recorded) + Doing("create")' <= MaxActions
  BY <1>1, <1>3, <1>4, ConstantsAssumption DEF RoomOK
<1> QED
  BY <1>5 DEF RoomOK

LEMMA StartKeepsInv == ASSUME Inv, NEW w \in Workers, Start(w) PROVE Inv'
<1> DEFINE j == [Idle("none") EXCEPT !.kind = "start", !.todo = Statements("start"),
                                     !.action = 0, !.method = "management_bearer"]
<1>1. /\ phase = "down" /\ phase' = "starting" /\ job' = [job EXCEPT ![w] = j]
      /\ UNCHANGED <<rev, attempts, journal, alembic, received, recorded, vouched>>
  BY DEF Start, Run, database, history
<1>2. j \in Jobs /\ j.kind = "start" /\ j.held = {} /\ j.todo = Statements("start")
  BY StatementsType DEF Idle, Jobs, Answers, Kinds, Methods
<1>3. \A v \in Workers : job[v].kind = "idle"
  BY <1>1 DEF Inv, WorkerOK
<1> HIDE DEF j
<1>4. RoomOK'
  BY <1>1, <1>2, RoomStays
<1>5. vouched \in BOOLEAN /\ (vouched => rev = Latest /\ ~Migrating)
  BY DEF Inv, Types, VouchedOK
<1>6. Entries(Statements(j.kind)) \subseteq j.held \cup Entries(j.todo)
  BY <1>2
<1> QED
  BY <1>1, <1>2, <1>3, <1>4, <1>5, <1>6, StatementStep

LEMMA RequestKeepsInv ==
  ASSUME Inv, NEW w \in Workers, NEW kind \in {"ready", "ingest", "create"}, Request(w, kind)
  PROVE  Inv'
<1>1. /\ phase = "serving" /\ job[w].kind = "idle"
      /\ UNCHANGED <<rev, attempts, journal, phase, alembic, received, recorded, vouched>>
      /\ kind = "ingest" => Len(received) + Doing("ingest") < MaxAttempts
      /\ kind = "create" => Len(recorded) + Doing("create") < MaxActions
  BY DEF Request, database, history
<1>2. PICK method \in Methods : Run(w, kind, 0, method)
  BY DEF Request, Methods
<1> DEFINE j == [Idle("none") EXCEPT !.kind = kind, !.todo = Statements(kind),
                                     !.action = 0, !.method = method]
<1>3. job' = [job EXCEPT ![w] = j]
  BY <1>2 DEF Run
<1>4. j \in Jobs /\ j.kind = kind /\ j.held = {} /\ j.todo = Statements(kind)
  BY StatementsType DEF Idle, Jobs, Answers, Kinds
<1> HIDE DEF j
<1>5. Types /\ RoomOK /\ Len(received) \in Nat /\ Len(recorded) \in Nat
  BY DEF Inv, Types
<1>6. /\ Doing("ingest") \in Nat /\ Doing("ingest")' \in Nat
      /\ Doing("ingest")' <= Doing("ingest") + 1
      /\ kind # "ingest" => Doing("ingest")' <= Doing("ingest")
      /\ Doing("create") \in Nat /\ Doing("create")' \in Nat
      /\ Doing("create")' <= Doing("create") + 1
      /\ kind # "create" => Doing("create")' <= Doing("create")
  BY <1>3, <1>4, <1>5, DoingAfter
<1>7. /\ Len(received) + Doing("ingest")' <= MaxAttempts
      /\ Len(recorded) + Doing("create")' <= MaxActions
  <2>1. /\ Len(received) + Doing("ingest") <= MaxAttempts
        /\ Len(recorded) + Doing("create") <= MaxActions
    BY <1>5 DEF RoomOK
  <2>2. MaxAttempts \in Nat /\ MaxActions \in Nat
    BY ConstantsAssumption
  <2>3. CASE kind = "ingest"
    BY <1>1, <1>5, <1>6, <2>1, <2>2, <2>3
  <2>4. CASE kind = "create"
    BY <1>1, <1>5, <1>6, <2>1, <2>2, <2>4
  <2>5. CASE kind = "ready"
    BY <1>5, <1>6, <2>1, <2>2, <2>5
  <2> QED
    BY <2>3, <2>4, <2>5
<1>8. RoomOK'
  BY <1>1, <1>7 DEF RoomOK
<1>9. vouched \in BOOLEAN /\ (vouched => rev = Latest /\ ~Migrating)
  BY DEF Inv, Types, VouchedOK
<1>10. Entries(Statements(j.kind)) \subseteq j.held \cup Entries(j.todo)
  BY <1>4
<1> QED
  BY <1>1, <1>3, <1>4, <1>8, <1>9, <1>10, StatementStep

LEMMA OpenKeepsInv == ASSUME Inv, NEW w \in Workers, Open(w) PROVE Inv'
<1> DEFINE head == Head(job[w].todo)
           j == [job[w] EXCEPT !.held = @ \cup {head}, !.todo = Tail(@)]
<1>1. /\ job[w].todo # << >> /\ ~Waits(w) /\ Defined(head.table)
      /\ UNCHANGED <<rev, attempts, journal, phase, alembic, received, recorded, vouched>>
  BY DEF Open, database, history
<1>2. job \in [Workers -> Jobs] /\ job[w] \in Jobs /\ WorkerOK(w)
  BY DEF Inv, Types
<1>3. job' = [job EXCEPT ![w] = j]
  BY <1>2 DEF Open, Jobs
<1>4. /\ head \in Locks /\ Tail(job[w].todo) \in Seq(Locks)
      /\ Entries(job[w].todo) \subseteq {head} \cup Entries(Tail(job[w].todo))
  BY <1>1, <1>2, HeadAndTail DEF Jobs
<1>5. head.table = "recovery_actions" => rev = Latest /\ AlterLock \notin alembic.held
  <2> SUFFICES ASSUME head.table = "recovery_actions"
               PROVE  rev = Latest /\ AlterLock \notin alembic.held
    OBVIOUS
  <2>1. rev \in Nat /\ rev <= 5 /\ rev >= 5
    BY <1>1, Revision DEF Inv, Types, Defined
  <2>2. Exists(head.table)
    BY <2>1 DEF Exists
  <2>3. \A l \in alembic.held : ~Conflict(l, head)
    BY <1>1, <2>2 DEF Waits, AlembicHasOrWants
  <2>4. Conflict(AlterLock, head)
    BY DEF Conflict, AlterLock, Lock
  <2> QED
    BY <2>1, <2>3, <2>4 DEF Latest
<1> HIDE DEF head
<1>6. /\ j \in Jobs /\ j.kind = job[w].kind /\ j.held = job[w].held \cup {head}
      /\ j.todo = Tail(job[w].todo)
  BY <1>2, <1>4 DEF Jobs
<1> HIDE DEF j
<1>7. RoomOK'
  BY <1>1, <1>3, <1>6, RoomStays
<1>8. vouched \in BOOLEAN /\ (vouched => rev = Latest /\ ~Migrating)
      /\ phase \in {"down", "starting", "serving"}
  BY DEF Inv, Types, VouchedOK
<1>9. j.kind # "idle" => Entries(Statements(j.kind)) \subseteq j.held \cup Entries(j.todo)
  BY <1>2, <1>4, <1>6 DEF WorkerOK
<1>10. \A l \in j.held : l.table = "recovery_actions" =>
         rev = Latest /\ AlterLock \notin alembic.held
  BY <1>2, <1>5, <1>6 DEF WorkerOK
<1> QED
  BY <1>1, <1>3, <1>6, <1>7, <1>8, <1>9, <1>10, StatementStep

\* A job that ends, and with the first check perhaps the program.
LEMMA Ends ==
  ASSUME Inv, UNCHANGED <<rev, attempts, journal, alembic, received, recorded>>,
         NEW w \in Workers, NEW answer \in Answers, End(w, answer),
         \/ phase' = phase
         \/ phase' \in {"down", "serving"} /\ job[w].kind = "start",
         vouched' \in BOOLEAN, vouched' => rev = Latest /\ ~Migrating
  PROVE  Inv'
<1>1. job' = [job EXCEPT ![w] = Idle(answer)]
  BY DEF End
<1>2. /\ Idle(answer) \in Jobs /\ Idle(answer).kind = "idle" /\ Idle(answer).held = {}
  BY IdleType
<1>3. RoomOK'
  BY <1>1, <1>2, RoomStays
<1>4. phase' \in {"down", "starting", "serving"}
  BY DEF Inv, Types
<1>5. \/ phase' = phase
      \/ \A v \in Workers \ {w} : job[v].kind = "idle"
  BY DEF Inv, WorkerOK
<1> QED
  BY <1>1, <1>2, <1>3, <1>4, <1>5, StatementStep

LEMMA FailKeepsInv ==
  ASSUME Inv, NEW w \in Workers, NEW answer \in Answers, Fail(w, answer)
  PROVE  Inv'
<1> DEFINE said == IF job[w].kind \in {"start", "ready"} THEN "not_ready" ELSE answer
<1>1. /\ phase' = (IF job[w].kind = "start" THEN "down" ELSE phase) /\ End(w, said)
      /\ UNCHANGED <<rev, attempts, journal, alembic, received, recorded, vouched>>
  BY DEF Fail, database, history
<1>2. said \in Answers
  BY DEF Answers
<1>3. vouched \in BOOLEAN /\ (vouched => rev = Latest /\ ~Migrating)
  BY DEF Inv, Types, VouchedOK
<1> HIDE DEF said
<1> QED
  BY <1>1, <1>2, <1>3, Ends

\* A statement that has opened all of its tables holds all of its locks.
LEMMA DoneHolds ==
  ASSUME Inv, NEW w \in Workers, NEW kind \in Kinds, Done(w, kind)
  PROVE  /\ Entries(Statements(kind)) \subseteq job[w].held
         /\ kind # "ingest" => rev = Latest /\ AlterLock \notin alembic.held
         /\ kind # "start" => phase = "serving"
<1>1. job[w].kind = kind /\ job[w].todo = << >> /\ kind # "idle" /\ WorkerOK(w)
  BY DEF Done, Kinds, Inv
<1>2. Entries(job[w].todo) = {}
  BY <1>1 DEF Entries
<1>3. Entries(Statements(kind)) \subseteq job[w].held
  BY <1>1, <1>2 DEF WorkerOK
<1>4. kind # "ingest" => ReadLock \in job[w].held \/ WriteLock \in job[w].held
  BY <1>3, StatementsType DEF Kinds
<1>5. ReadLock.table = "recovery_actions" /\ WriteLock.table = "recovery_actions"
  BY DEF ReadLock, WriteLock, Lock
<1>6. kind # "ingest" => rev = Latest /\ AlterLock \notin alembic.held
  BY <1>1, <1>4, <1>5 DEF WorkerOK
<1> QED
  BY <1>1, <1>3, <1>6 DEF WorkerOK

LEMMA VerifiedKeepsInv == ASSUME Inv, NEW w \in Workers, Verified(w) PROVE Inv'
<1>1. /\ phase' = "serving" /\ End(w, "ready") /\ vouched' = ~Migrating
      /\ UNCHANGED <<rev, attempts, journal, alembic, received, recorded>>
  BY DEF Verified, database
<1>2. PICK kind \in {"start", "ready"} : Done(w, kind)
  BY DEF Verified
<1>3. rev = Latest /\ (kind # "start" => phase = "serving") /\ job[w].kind = kind
  BY <1>2, DoneHolds DEF Kinds, Done
<1>4. "ready" \in Answers
  BY DEF Answers
<1>5. vouched' \in BOOLEAN /\ (vouched' => rev = Latest /\ ~Migrating)
  BY <1>1, <1>3 DEF Migrating
<1> QED
  BY <1>1, <1>3, <1>4, <1>5, Ends

LEMMA IngestedKeepsInv == ASSUME Inv, NEW w \in Workers, Ingested(w) PROVE Inv'
<1>1. /\ Done(w, "ingest") /\ job[w].kind = "ingest"
      /\ attempts' = attempts \cup {Len(received) + 1}
      /\ received' = Append(received, rev)
      /\ job' = [job EXCEPT ![w] = Idle("received")]
      /\ UNCHANGED <<rev, journal, phase, alembic, recorded, vouched>>
  BY DEF Ingested, Done, End
<1>2. /\ Idle("received") \in Jobs /\ Idle("received").kind = "idle"
      /\ Idle("received").held = {}
  BY IdleType DEF Answers
<1>3. Types /\ RoomOK /\ RowsOK /\ rev \in Revisions
  BY DEF Inv, Types
<1>4. /\ received' \in Seq(Revisions) /\ Len(received) \in Nat
      /\ Len(received') = Len(received) + 1
      /\ DOMAIN received = 1 .. Len(received) /\ DOMAIN received' = 1 .. Len(received) + 1
      /\ \A a \in DOMAIN received : received'[a] = received[a]
  BY <1>1, <1>3 DEF Types
<1>5. job' \in [Workers -> Jobs] /\ \A v \in Workers : WorkerOK(v)'
  BY <1>1, <1>2, WorkersFit
<1>6. RoomOK'
  <2>1. /\ Doing("ingest") \in Nat /\ Doing("ingest")' = Doing("ingest") - 1
        /\ Doing("create") \in Nat /\ Doing("create")' \in Nat
        /\ Doing("create")' <= Doing("create")
    BY <1>1, <1>2, <1>3, DoingAfter
  <2>2. /\ Len(received) + Doing("ingest") <= MaxAttempts
        /\ Len(recorded) + Doing("create") <= MaxActions
        /\ MaxAttempts \in Nat /\ MaxActions \in Nat /\ Len(recorded) \in Nat
    BY <1>3, ConstantsAssumption DEF RoomOK, Types
  <2>3. /\ Len(received') + Doing("ingest")' <= MaxAttempts
        /\ Len(recorded') + Doing("create")' <= MaxActions
    BY <1>1, <1>4, <2>1, <2>2
  <2> QED
    BY <2>3 DEF RoomOK
<1>7. Types'
  <2>1. attempts' \subseteq DOMAIN received'
    BY <1>1, <1>3, <1>4 DEF Types
  <2> QED
    BY <1>1, <1>3, <1>4, <1>5, <2>1 DEF Types
<1>8. RowsOK'
  <2>1. ASSUME NEW a \in DOMAIN received', received'[a] >= 1 PROVE a \in attempts'
    BY <1>1, <1>3, <1>4, <2>1 DEF RowsOK, HistoryIsKept
  <2> QED
    BY <1>1, <1>3, <2>1 DEF RowsOK, HistoryIsKept, NoOidcRows
<1>9. RunOK' /\ VouchedOK' /\ rev' \in Targets \cup {0}
  BY <1>1 DEF Inv, RunOK, VouchedOK, Migrating, NoOidcRows
<1> QED
  BY <1>5, <1>6, <1>7, <1>8, <1>9 DEF Inv

\* A row more in the journal, put there while the lock keeps migrations out.
LEMMA Inserted ==
  ASSUME Inv, NEW method \in Methods, NEW principal \in BOOLEAN, NEW evidence \in BOOLEAN,
         Insert(Len(recorded) + 1, method, principal, evidence),
         UNCHANGED <<rev, attempts, alembic, received>>,
         method = "oidc_jwt" => principal /\ rev >= 4, rev = 5 => evidence,
         AlterLock \notin alembic.held
  PROVE  /\ recorded' \in Seq(Revisions) /\ Len(recorded') = Len(recorded) + 1
         /\ DOMAIN journal' \subseteq DOMAIN recorded'
         /\ \A a \in DOMAIN journal' : journal'[a] \in Rows
         /\ RunOK' /\ RowsOK' /\ rev' \in Targets \cup {0}
<1> DEFINE n == Len(recorded) + 1
           row == [method |-> method, principal |-> principal, evidence |-> evidence,
                   state |-> "initiated"]
<1>1. /\ recorded \in Seq(Revisions) /\ rev \in Revisions /\ rev \in Nat /\ rev <= 5
      /\ DOMAIN journal \subseteq DOMAIN recorded
      /\ \A a \in DOMAIN journal : journal[a] \in Rows
  BY Revision DEF Inv, Types
<1>2. /\ recorded' = Append(recorded, rev)
      /\ journal' = [b \in DOMAIN journal \cup {n} |-> IF b = n THEN row ELSE journal[b]]
  BY DEF Insert
<1>3. /\ recorded' \in Seq(Revisions) /\ Len(recorded) \in Nat /\ Len(recorded') = n
      /\ DOMAIN recorded = 1 .. Len(recorded) /\ DOMAIN recorded' = 1 .. n
      /\ recorded'[n] = rev
      /\ \A a \in DOMAIN recorded : a \in DOMAIN recorded' /\ recorded'[a] = recorded[a]
      /\ DOMAIN recorded' = DOMAIN recorded \cup {n} /\ n \notin DOMAIN recorded
  BY <1>1, <1>2
<1>4. /\ row \in Rows /\ row.method = method /\ row.principal = principal
      /\ row.evidence = evidence
  BY DEF Rows
<1> HIDE DEF n, row
<1>5. /\ DOMAIN journal' = DOMAIN journal \cup {n} /\ journal'[n] = row
      /\ \A a \in DOMAIN journal : a # n /\ journal'[a] = journal[a]
  BY <1>1, <1>2, <1>3
<1>6. \A a \in DOMAIN journal' : journal'[a] \in Rows
  BY <1>1, <1>4, <1>5
<1>7. DOMAIN journal' \subseteq DOMAIN recorded'
  BY <1>1, <1>3, <1>5
<1>8. RunOK'
  <2>1. alembic' = alembic /\ rev' = rev /\ Migrating' = Migrating
    BY DEF Migrating
  <2>2. Migrating => ~(rev >= 4 /\ alembic.at <= 3)
    BY RunFacts
  <2> QED
    BY <2>1, <2>2 DEF Inv, RunOK
<1>9. RowsOK'
  <2>1. \A a \in DOMAIN received' : received'[a] >= 1 => a \in attempts'
    BY DEF Inv, RowsOK, HistoryIsKept
  <2>2. ASSUME NEW a \in DOMAIN recorded'
        PROVE  /\ recorded'[a] >= 3 => a \in DOMAIN journal'
               /\ recorded'[a] >= 5 => journal'[a].evidence
    <3>1. CASE a = n
      BY <1>1, <1>3, <1>4, <1>5, <3>1
    <3>2. CASE a \in DOMAIN recorded
      <4>1. /\ recorded[a] >= 3 => a \in DOMAIN journal
            /\ recorded[a] >= 5 => journal[a].evidence
        BY <3>2 DEF Inv, RowsOK, HistoryIsKept
      <4>2. recorded'[a] = recorded[a] /\ recorded[a] \in Revisions
        BY <1>1, <1>3, <3>2
      <4>3. recorded[a] >= 5 => recorded[a] >= 3
        BY <4>2, Revision
      <4>4. /\ recorded[a] >= 3 => a \in DOMAIN journal'
            /\ recorded[a] >= 5 => journal'[a].evidence
        BY <1>5, <4>1, <4>3
      <4> QED
        BY <4>2, <4>4, Zenon
    <3> QED
      BY <1>3, <3>1, <3>2
  <2>3. ASSUME NEW a \in DOMAIN journal', journal'[a].method = "oidc_jwt"
        PROVE  journal'[a].principal
    BY <1>4, <1>5, <2>3 DEF Inv, RowsOK, HistoryIsKept
  <2>4. rev' <= 3 => NoOidcRows'
    <3>1. rev <= 3 => ~(rev >= 4) /\ NoOidcRows
      BY <1>1 DEF Inv, RowsOK
    <3>2. rev <= 3 => method # "oidc_jwt"
      BY <3>1
    <3> QED
      BY <1>4, <1>5, <3>1, <3>2 DEF NoOidcRows
  <2> QED
    BY <2>1, <2>2, <2>3, <2>4 DEF RowsOK, HistoryIsKept
<1>10. rev' \in Targets \cup {0}
  BY DEF Inv
<1> QED
  BY <1>3, <1>6, <1>7, <1>8, <1>9, <1>10 DEF n

LEMMA CreatedKeepsInv == ASSUME Inv, NEW w \in Workers, Created(w) PROVE Inv'
<1> DEFINE method == job[w].method
           j == [Idle("none") EXCEPT !.kind = "finalize", !.todo = Statements("finalize"),
                                     !.action = Len(recorded) + 1, !.method = method]
<1>1. /\ Done(w, "create") /\ job[w].kind = "create"
      /\ Insert(Len(recorded) + 1, method, method = "oidc_jwt", TRUE)
      /\ job' = [job EXCEPT ![w] = j]
      /\ UNCHANGED <<rev, attempts, phase, alembic, received, vouched>>
  BY DEF Created, Run, Done
<1>2. Types /\ RoomOK /\ job[w] \in Jobs /\ method \in Methods
      /\ Len(recorded) \in Nat /\ Len(received) \in Nat
  BY DEF Inv, Types, Jobs
<1> HIDE DEF method
<1>3. j \in Jobs /\ j.kind = "finalize" /\ j.held = {} /\ j.todo = Statements("finalize")
  <2>1. Len(recorded) + 1 \in Nat
    BY <1>2
  <2>2. "finalize" \in Kinds /\ "none" \in Answers /\ Statements("finalize") \in Seq(Locks)
    BY StatementsType DEF Kinds, Answers
  <2> QED
    BY <1>2, <2>1, <2>2 DEF Idle, Jobs
<1>4. rev = 5 /\ AlterLock \notin alembic.held /\ phase = "serving"
  BY <1>1, DoneHolds DEF Kinds, Latest
<1> HIDE DEF j
<1>5. /\ recorded' \in Seq(Revisions) /\ Len(recorded') = Len(recorded) + 1
      /\ DOMAIN journal' \subseteq DOMAIN recorded'
      /\ \A a \in DOMAIN journal' : journal'[a] \in Rows
      /\ RunOK' /\ RowsOK' /\ rev' \in Targets \cup {0}
  <2>1. method = "oidc_jwt" => rev >= 4
    BY <1>4
  <2> QED
    BY <1>1, <1>2, <1>4, <2>1, Inserted
<1>6. job' \in [Workers -> Jobs] /\ \A v \in Workers : WorkerOK(v)'
  BY <1>1, <1>3, <1>4, WorkersFit
<1>7. RoomOK'
  <2>1. /\ Doing("create") \in Nat /\ Doing("create")' = Doing("create") - 1
        /\ Doing("ingest") \in Nat /\ Doing("ingest")' \in Nat
        /\ Doing("ingest")' <= Doing("ingest")
    BY <1>1, <1>2, <1>3, DoingAfter
  <2>2. /\ Len(received) + Doing("ingest") <= MaxAttempts
        /\ Len(recorded) + Doing("create") <= MaxActions
        /\ MaxAttempts \in Nat /\ MaxActions \in Nat
    BY <1>2, ConstantsAssumption DEF RoomOK
  <2>3. /\ Len(received') + Doing("ingest")' <= MaxAttempts
        /\ Len(recorded') + Doing("create")' <= MaxActions
    BY <1>1, <1>2, <1>5, <2>1, <2>2
  <2> QED
    BY <2>3 DEF RoomOK
<1>8. Types'
  BY <1>1, <1>2, <1>5, <1>6 DEF Types
<1>9. VouchedOK'
  BY <1>1 DEF Inv, VouchedOK, Migrating
<1> QED
  BY <1>5, <1>6, <1>7, <1>8, <1>9 DEF Inv

LEMMA OldReleaseKeepsInv ==
  ASSUME Inv, NEW method \in Methods, OldReleaseRecords(method)
  PROVE  Inv'
<1>1. /\ phase = "down" /\ rev \in {3, 4} /\ Len(recorded) < MaxActions
      /\ \A l \in AlembicHasOrWants : ~Conflict(l, WriteLock)
      /\ method = "oidc_jwt" => rev = 4
      /\ Insert(Len(recorded) + 1, method, method = "oidc_jwt", FALSE)
      /\ UNCHANGED <<rev, attempts, phase, job, alembic, received, vouched>>
  BY DEF OldReleaseRecords, WriteLock
<1>2. Types /\ RoomOK /\ Len(recorded) \in Nat /\ Len(received) \in Nat
      /\ \A w \in Workers : WorkerOK(w)
  BY DEF Inv, Types
<1>3. AlterLock \notin alembic.held
  BY <1>1 DEF AlembicHasOrWants, Conflict, AlterLock, WriteLock, Lock
<1>4. /\ recorded' \in Seq(Revisions) /\ Len(recorded') = Len(recorded) + 1
      /\ DOMAIN journal' \subseteq DOMAIN recorded'
      /\ \A a \in DOMAIN journal' : journal'[a] \in Rows
      /\ RunOK' /\ RowsOK' /\ rev' \in Targets \cup {0}
  <2>1. (method = "oidc_jwt" => rev >= 4) /\ rev # 5
    BY <1>1
  <2> QED
    BY <1>1, <1>3, <2>1, Inserted
<1>5. RoomOK'
  <2>1. \A w \in Workers : job[w].kind = "idle"
    BY <1>1, <1>2 DEF WorkerOK
  <2>2. Doing("create") = 0
    BY <2>1, NobodyDoes
  <2>3. Doing("create")' = Doing("create") /\ Doing("ingest")' = Doing("ingest")
    BY <1>1 DEF Doing
  <2>4. Len(recorded') + 0 <= MaxActions
    BY <1>1, <1>2, <1>4, ConstantsAssumption
  <2> QED
    BY <1>1, <1>2, <2>2, <2>3, <2>4 DEF RoomOK
<1>6. Types'
  BY <1>1, <1>2, <1>4 DEF Types
<1>7. \A w \in Workers : WorkerOK(w)'
  BY <1>1, <1>2 DEF WorkerOK
<1>8. VouchedOK'
  BY <1>1 DEF Inv, VouchedOK, Migrating
<1> QED
  BY <1>4, <1>5, <1>6, <1>7, <1>8 DEF Inv

LEMMA FinalizedKeepsInv == ASSUME Inv, NEW w \in Workers, Finalized(w) PROVE Inv'
<1> DEFINE a == job[w].action
<1>1. PICK answer \in Answers : job' = [job EXCEPT ![w] = Idle(answer)]
  BY DEF Finalized, End, Answers
<1>2. UNCHANGED <<rev, attempts, phase, alembic, received, recorded, vouched>>
  BY DEF Finalized, history
<1>3. Idle(answer) \in Jobs /\ Idle(answer).kind = "idle" /\ Idle(answer).held = {}
  BY IdleType
<1>4. Types /\ RowsOK
  BY DEF Inv
<1>5. \/ journal' = journal
      \/ a \in DOMAIN journal /\ journal' = [journal EXCEPT ![a].state = "accepted"]
  BY DEF Finalized
<1> HIDE DEF a
<1>6. /\ DOMAIN journal' = DOMAIN journal
      /\ \A b \in DOMAIN journal :
           /\ journal'[b] \in Rows /\ journal'[b].method = journal[b].method
           /\ journal'[b].principal = journal[b].principal
           /\ journal'[b].evidence = journal[b].evidence
  <2>1. \A b \in DOMAIN journal : journal[b] \in Rows
    BY <1>4 DEF Types
  <2>2. CASE journal' = journal
    BY <2>1, <2>2
  <2>3. CASE a \in DOMAIN journal /\ journal' = [journal EXCEPT ![a].state = "accepted"]
    <3>1. DOMAIN journal' = DOMAIN journal
      BY <2>3
    <3>2. ASSUME NEW b \in DOMAIN journal
          PROVE  journal'[b] = journal[b] \/ journal'[b] = [journal[b] EXCEPT !.state = "accepted"]
      BY <2>3
    <3> QED
      BY <2>1, <3>1, <3>2 DEF Rows
  <2> QED
    BY <1>5, <2>2, <2>3
<1>7. job' \in [Workers -> Jobs] /\ \A v \in Workers : WorkerOK(v)'
  BY <1>1, <1>2, <1>3, WorkersFit
<1>8. RoomOK'
  BY <1>1, <1>2, <1>3, RoomStays
<1>9. Types'
  BY <1>2, <1>4, <1>6, <1>7 DEF Types
<1>10. NoOidcRows' <=> NoOidcRows
  BY <1>6 DEF NoOidcRows
<1>11. RowsOK'
  <2>1. \A b \in DOMAIN received' : received'[b] >= 1 => b \in attempts'
    BY <1>2, <1>4 DEF RowsOK, HistoryIsKept
  <2>2. DOMAIN recorded' = DOMAIN recorded
        /\ \A b \in DOMAIN recorded : recorded'[b] = recorded[b]
    BY <1>2
  <2>3. ASSUME NEW b \in DOMAIN recorded
        PROVE  /\ recorded[b] >= 3 => b \in DOMAIN journal'
               /\ recorded[b] >= 5 => journal'[b].evidence
    <3>1. /\ recorded[b] >= 3 => b \in DOMAIN journal
          /\ recorded[b] >= 5 => journal[b].evidence
      BY <1>4 DEF RowsOK, HistoryIsKept
    <3>2. recorded[b] >= 5 => recorded[b] >= 3
      BY <1>4, Revision DEF Types
    <3> QED
      BY <1>6, <3>1, <3>2
  <2>4. \A b \in DOMAIN journal' : journal'[b].method = "oidc_jwt" => journal'[b].principal
    BY <1>4, <1>6 DEF RowsOK, HistoryIsKept
  <2>5. rev' <= 3 => NoOidcRows'
    BY <1>2, <1>4, <1>10 DEF RowsOK
  <2> QED
    BY <2>1, <2>2, <2>3, <2>4, <2>5 DEF RowsOK, HistoryIsKept
<1>12. RunOK'
  BY <1>2, <1>10 DEF Inv, RunOK, Migrating
<1>13. VouchedOK' /\ rev' \in Targets \cup {0}
  BY <1>2 DEF Inv, VouchedOK, Migrating
<1> QED
  BY <1>7, <1>8, <1>9, <1>11, <1>12, <1>13 DEF Inv

LEMMA StopKeepsInv == ASSUME Inv, Stop PROVE Inv'
<1>1. /\ phase' = "down" /\ job' = [w \in Workers |-> Idle("none")] /\ vouched' = FALSE
      /\ UNCHANGED <<rev, attempts, journal, alembic, received, recorded>>
  BY DEF Stop, database
<1>2. Idle("none") \in Jobs /\ Idle("none").kind = "idle" /\ Idle("none").held = {}
  BY IdleType DEF Answers
<1>3. \A w \in Workers : job'[w].kind = "idle" /\ WorkerOK(w)'
  BY <1>1, <1>2 DEF WorkerOK
<1>4. Types'
  BY <1>1, <1>2 DEF Inv, Types
<1>5. RoomOK'
  <2>1. \A kind \in {"ingest", "create"} : \A w \in Workers : job'[w].kind # kind
    BY <1>3
  <2>2. \A kind \in {"ingest", "create"} : {w \in Workers : job'[w].kind = kind} = {}
    BY <2>1
  <2>3. Doing("ingest")' = 0 /\ Doing("create")' = 0
    BY <2>2, FS_EmptySet DEF Doing
  <2>4. /\ Doing("ingest") \in Nat /\ Doing("create") \in Nat
    <3>1. /\ IsFiniteSet({v \in Workers : job[v].kind = "ingest"})
          /\ IsFiniteSet({v \in Workers : job[v].kind = "create"})
      BY ConstantsAssumption, FS_Subset
    <3> QED
      BY <3>1, FS_CardinalityType DEF Doing
  <2>5. Len(received) \in Nat /\ Len(recorded) \in Nat
    BY DEF Inv, Types
  <2>6. Len(received) <= MaxAttempts /\ Len(recorded) <= MaxActions
    BY <2>4, <2>5, ConstantsAssumption DEF Inv, RoomOK
  <2> QED
    BY <1>1, <2>3, <2>5, <2>6 DEF RoomOK
<1>6. RunOK' /\ RowsOK' /\ rev' \in Targets \cup {0}
  BY <1>1, RowsStay
<1> QED
  BY <1>1, <1>3, <1>4, <1>5, <1>6 DEF Inv, VouchedOK

-----------------------------------------------------------------------------
(* The theorems.                                                           *)

LEMMA StepInv == Inv /\ [Next]_vars => Inv'
<1> SUFFICES ASSUME Inv, [Next]_vars PROVE Inv'
  OBVIOUS
<1>1. CASE UNCHANGED vars
  BY <1>1 DEF vars, Inv, Types, RoomOK, Doing, WorkerOK, RunOK, RowsOK, HistoryIsKept,
     NoOidcRows, VouchedOK, Migrating
<1>2. ASSUME NEW target \in Targets, Begin(target) PROVE Inv'
  BY <1>2, BeginKeepsInv
<1>3. CASE Ask
  BY <1>3, AskKeepsInv
<1>4. CASE Granted
  BY <1>4, GrantedKeepsInv
<1>5. CASE Raises
  BY <1>5, EndedRun DEF Raises, database, history
<1>6. CASE Advance
  BY <1>6, AdvanceKeepsInv
<1>7. CASE CommitRun
  BY <1>7, CommitKeepsInv
<1>8. CASE Aborts
  BY <1>8, EndedRun DEF Aborts, database, history
<1>9. ASSUME NEW w \in Workers, Start(w) PROVE Inv'
  BY <1>9, StartKeepsInv
<1>10. ASSUME NEW w \in Workers, Open(w) PROVE Inv'
  BY <1>10, OpenKeepsInv
<1>11. ASSUME NEW w \in Workers, Missing(w) PROVE Inv'
  BY <1>11, FailKeepsInv DEF Missing, Answers
<1>12. ASSUME NEW w \in Workers, Verified(w) PROVE Inv'
  BY <1>12, VerifiedKeepsInv
<1>13. ASSUME NEW w \in Workers, Ingested(w) PROVE Inv'
  BY <1>13, IngestedKeepsInv
<1>14. ASSUME NEW w \in Workers, Created(w) PROVE Inv'
  BY <1>14, CreatedKeepsInv
<1>15. ASSUME NEW w \in Workers, Finalized(w) PROVE Inv'
  BY <1>15, FinalizedKeepsInv
<1>16. ASSUME NEW w \in Workers, Victim(w) PROVE Inv'
  BY <1>16, FailKeepsInv DEF Victim, Answers
<1>17. ASSUME NEW w \in Workers, NEW kind \in {"ready", "ingest", "create"}, Request(w, kind)
       PROVE  Inv'
  BY <1>17, RequestKeepsInv
<1>18. ASSUME NEW method \in Methods, OldReleaseRecords(method) PROVE Inv'
  BY <1>18, OldReleaseKeepsInv
<1>19. CASE Stop
  BY <1>19, StopKeepsInv
<1> QED
  BY <1>1, <1>2, <1>3, <1>4, <1>5, <1>6, <1>7, <1>8, <1>9, <1>10, <1>11, <1>12, <1>13, <1>14,
     <1>15, <1>16, <1>17, <1>18, <1>19 DEF Next, AlembicNext, WorkerNext

LEMMA Invariance == Spec => []Inv
<1> QED
  BY InitInv, StepInv, PTL DEF Spec

LEMMA TypesAreTypes == Inv => TypeOK
<1> SUFFICES ASSUME Inv PROVE TypeOK
  OBVIOUS
<1>1. Types /\ RoomOK
  BY DEF Inv
<1>2. Len(received) <= MaxAttempts /\ Len(recorded) <= MaxActions
  <2>1. /\ IsFiniteSet({v \in Workers : job[v].kind = "ingest"})
        /\ IsFiniteSet({v \in Workers : job[v].kind = "create"})
    BY ConstantsAssumption, FS_Subset
  <2>2. Doing("ingest") \in Nat /\ Doing("create") \in Nat
    BY <2>1, FS_CardinalityType DEF Doing
  <2>3. Len(received) \in Nat /\ Len(recorded) \in Nat
    BY <1>1 DEF Types
  <2> QED
    BY <1>1, <2>2, <2>3, ConstantsAssumption DEF RoomOK
<1>3. ASSUME NEW w \in Workers
      PROVE  /\ job[w].kind \in Kinds \cup {"idle"} /\ job[w].answer \in Answers
             /\ job[w].todo \in Seq(Locks) /\ job[w].held \subseteq Locks
  BY <1>1 DEF Types, Jobs
<1>4. /\ alembic.target \in Revisions /\ alembic.at \in Revisions
      /\ alembic.todo \in Seq(Locks) /\ alembic.held \subseteq Locks
  BY <1>1 DEF Types, Runs
<1> QED
  BY <1>1, <1>2, <1>3, <1>4 DEF TypeOK, Types

\* A migration is one transaction: the schema is never seen at a revision that
\* nobody asked for, whatever fails on the way (env.py).
THEOREM RevisionsWereAskedFor == Spec => []RevisionWasAskedFor
<1>1. Inv => RevisionWasAskedFor
  BY TypesAreTypes DEF Inv, RevisionWasAskedFor
<1> QED
  BY <1>1, Invariance, PTL

\* What was committed is lost only to a migration that was carried out and went
\* below the revision that introduced it, and an OIDC row says whose it was.
THEOREM CommittedIsKept == Spec => []HistoryIsKept
<1>1. Inv => HistoryIsKept
  BY DEF Inv, RowsOK
<1> QED
  BY <1>1, Invariance, PTL

\* Who is told that something is missing is told so at another revision than
\* the one that readiness stands for.
LEMMA MissingIsNotVouched ==
  ASSUME Inv, Next, NEW w \in Workers,
         job'[w].answer = "undefined", job[w].answer # "undefined"
  PROVE  ~vouched
<1>1. job \in [Workers -> Jobs]
  BY DEF Inv, Types
<1>2. ASSUME NEW v \in Workers, NEW j, j.answer # "undefined", job' = [job EXCEPT ![v] = j]
      PROVE  FALSE
  BY <1>1, <1>2
<1>3. job' # job
  OBVIOUS
<1>4. \A answer : Idle(answer).answer = answer
  BY DEF Idle
<1>5. ASSUME NEW v \in Workers, NEW kind, NEW action, NEW method, Run(v, kind, action, method)
      PROVE  FALSE
  <2> DEFINE j == [Idle("none") EXCEPT !.kind = kind, !.todo = Statements(kind),
                                       !.action = action, !.method = method]
  <2>1. j.answer = "none"
    BY DEF Idle
  <2>2. job' = [job EXCEPT ![v] = j]
    BY <1>5 DEF Run
  <2> QED
    BY <1>2, <2>1, <2>2
<1>6. ASSUME NEW v \in Workers, NEW answer, answer # "undefined", End(v, answer)
      PROVE  FALSE
  BY <1>2, <1>4, <1>6 DEF End
<1>7. ASSUME NEW v \in Workers, Open(v) PROVE FALSE
  <2> DEFINE j == [job[v] EXCEPT !.held = @ \cup {Head(job[v].todo)}, !.todo = Tail(@)]
  <2>1. job' = [job EXCEPT ![v] = j] /\ j.answer = job[v].answer
    BY <1>1, <1>7 DEF Open, Jobs
  <2> HIDE DEF j
  <2> QED
    BY <1>1, <2>1
<1>8. ASSUME NEW v \in Workers, Missing(v) PROVE ~vouched
  <2>1. ~Defined(Head(job[v].todo).table)
    BY <1>8 DEF Missing
  <2>2. rev # Latest
    BY <2>1 DEF Defined, Latest
  <2> QED
    BY <2>2 DEF Inv, VouchedOK
<1>9. ASSUME NEW v \in Workers, Victim(v) PROVE FALSE
  BY <1>6, <1>9 DEF Victim, Fail
<1>10. ASSUME Stop PROVE FALSE
  BY <1>4, <1>10 DEF Stop
<1>11. CASE AlembicNext \/ Aborts \/ \E target \in Targets : Begin(target)
  BY <1>3, <1>11 DEF AlembicNext, Aborts, Begin, Ask, Granted, Raises, Advance, CommitRun
<1>12. CASE \E method \in Methods : OldReleaseRecords(method)
  BY <1>3, <1>12 DEF OldReleaseRecords
<1>13. ASSUME NEW v \in Workers, Start(v) \/ Created(v) PROVE FALSE
  BY <1>5, <1>13 DEF Start, Created
<1>14. ASSUME NEW v \in Workers, NEW kind, Request(v, kind) PROVE FALSE
  BY <1>5, <1>14 DEF Request
<1>15. ASSUME NEW v \in Workers, Verified(v) \/ Ingested(v) \/ Finalized(v) PROVE FALSE
  BY <1>6, <1>15 DEF Verified, Ingested, Finalized
<1> QED
  BY <1>7, <1>8, <1>9, <1>10, <1>11, <1>12, <1>13, <1>14, <1>15 DEF Next, WorkerNext

\* README.md:312: from a ready answer to the next migration no request finds a
\* table or a column missing.
THEOREM ReadinessIsMeant == Spec => ReadyMeansUsable
<1>1. ASSUME Inv, [Next]_vars
      PROVE  [\A w \in Workers : job'[w].answer = "undefined" /\ job[w].answer # "undefined"
                                   => ~vouched]_vars
  BY <1>1, MissingIsNotVouched
<1> QED
  BY <1>1, Invariance, PTL DEF Spec, ReadyMeansUsable
=============================================================================
