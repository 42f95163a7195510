-------------------------- MODULE SchemaMigrations --------------------------
(***************************************************************************)
(* The revisions of the PostgreSQL schema, and the program at head running *)
(* against them while an operator migrates up or down: alembic's single    *)
(* transaction with its table locks, the statements of requests, the       *)
(* readiness check, and PostgreSQL's queue for a lock and its detection of *)
(* deadlocks. Rows of one table do not get in each other's way here; the   *)
(* waits for index entries are DeliveryLedger's.                           *)
(***************************************************************************)
EXTENDS Integers, Sequences, FiniteSets

CONSTANTS
  Workers,        \* threads that run statements
  MaxAttempts,    \* bound: attempts ever stored
  MaxActions,     \* bound: recovery actions ever recorded
  Targets         \* bound: revisions an operator migrates to

Latest == 5
Revisions == 0 .. Latest

ASSUME ConstantsAssumption ==
  /\ IsFiniteSet(Workers)
  /\ MaxAttempts \in Nat /\ MaxActions \in Nat /\ Targets \subseteq Revisions

VARIABLES
  rev,        \* the committed revision, 0 for base
  attempts,   \* the committed rows of delivery_attempts
  journal,    \* the committed rows of recovery_actions, by action
  phase,      \* of the program: "down", "starting", "serving"
  job,        \* what each worker does
  alembic,    \* the migration under way
  received,   \* attempts answered with 200: the lowest revision since
  recorded,   \* actions whose row was committed: the lowest revision since
  vouched     \* a readiness check has passed since the last migration

database == <<rev, attempts, journal>>
history == <<received, recorded, vouched>>
vars == <<rev, attempts, journal, phase, job, alembic, received, recorded, vouched>>

Tables == {"github_deliveries", "delivery_attempts", "recovery_actions"}

Methods == {"management_bearer", "oidc_jwt"}
Rows == [method : Methods, principal : BOOLEAN, evidence : BOOLEAN,
         state : {"initiated", "accepted"}]

Kinds == {"start", "ready", "ingest", "create", "finalize"}
Answers == {"none", "ready", "not_ready", "received", "accepted", "undefined", "not_found", "deadlock"}

Locks == [table : Tables, mode : {"read", "write", "index", "alter"}]
Idle(answer) == [kind |-> "idle", todo |-> << >>, held |-> {}, action |-> 0,
                 method |-> "management_bearer", answer |-> answer]
NoMigration == [target |-> 0, at |-> 0, todo |-> << >>, held |-> {}, queued |-> FALSE]

Migrating == alembic # NoMigration

Init ==
  /\ rev = 0
  /\ attempts = {}
  /\ journal = << >>
  /\ phase = "down"
  /\ job = [w \in Workers |-> Idle("none")]
  /\ alembic = NoMigration
  /\ received = << >>
  /\ recorded = << >>
  /\ vouched = FALSE

-----------------------------------------------------------------------------
(* Locks.                                                                  *)

Lock(table, mode) == [table |-> table, mode |-> mode]

Conflict(l, k) ==
  l.table = k.table /\ ("alter" \in {l.mode, k.mode} \/ {l.mode, k.mode} = {"write", "index"})

\* Who comes later queues behind a migration that waits.
AlembicHasOrWants ==
  alembic.held \cup (IF alembic.queued THEN {Head(alembic.todo)} ELSE {})

\* A table that is not committed yet is not there for others, nor are its locks.
Exists(table) == rev >= (IF table = "recovery_actions" THEN 3 ELSE 1)

Waits(w) ==
  /\ job[w].todo # << >> /\ Exists(Head(job[w].todo).table)
  /\ \E l \in AlembicHasOrWants : Conflict(l, Head(job[w].todo))

AlembicWaitsFor(w) ==
  alembic.queued /\ \E l \in job[w].held : Conflict(l, Head(alembic.todo))

-----------------------------------------------------------------------------
(* Migrations.                                                             *)

CreateIndex == << Lock("delivery_attempts", "index") >>
DropIndex == << Lock("delivery_attempts", "alter") >>
AlterJournal == << Lock("recovery_actions", "alter") >>

\* The foreign key goes with delivery_attempts, which locks the other table.
DropLedger == << Lock("delivery_attempts", "alter"), Lock("github_deliveries", "alter") >>

\* Tables are created under nobody's eyes: no lock stops anybody.
Upgrade(r) ==
  CASE r = 2 -> CreateIndex
    [] r \in {4, 5} -> AlterJournal
    [] OTHER -> << >>

Downgrade(r) ==
  CASE r = 1 -> DropLedger
    [] r = 2 -> DropIndex
    [] OTHER -> AlterJournal

Towards(target, at) == IF target > at THEN at + 1 ELSE at - 1

Script(target, at) ==
  IF target > at THEN Upgrade(Towards(target, at)) ELSE Downgrade(at)

Begin(target) ==
  /\ ~Migrating
  /\ target # rev
  /\ alembic' = [target |-> target, at |-> rev, todo |-> Script(target, rev),
                 held |-> {}, queued |-> FALSE]
  /\ vouched' = FALSE
  /\ UNCHANGED <<database, phase, job, received, recorded>>

Ask ==
  /\ alembic.todo # << >> /\ ~alembic.queued
  /\ alembic' = [alembic EXCEPT !.queued = TRUE]
  /\ UNCHANGED <<database, phase, job, history>>

Granted ==
  /\ alembic.queued
  /\ \A w \in Workers : ~AlembicWaitsFor(w)
  /\ alembic' = [alembic EXCEPT !.held = @ \cup {Head(alembic.todo)},
                                !.todo = Tail(@), !.queued = FALSE]
  /\ UNCHANGED <<database, phase, job, history>>

\* Mutant: the old constraint is not put back.
RefusesNothing(target, at) == FALSE

\* The constraint that 0004's downgrade puts back admits no OIDC rows.
Refuses(target, at) ==
  target < at /\ at = 4 /\ \E a \in DOMAIN journal : journal[a].method = "oidc_jwt"

EndRun == alembic' = NoMigration

\* An error in any revision takes the whole run back.
Raises ==
  /\ Migrating /\ alembic.todo = << >> /\ alembic.at # alembic.target
  /\ Refuses(alembic.target, alembic.at)
  /\ EndRun
  /\ UNCHANGED <<database, phase, job, history>>

\* Mutant: a transaction for each revision.
AdvanceCommitting ==
  /\ Migrating /\ alembic.todo = << >> /\ alembic.at # alembic.target
  /\ ~Refuses(alembic.target, alembic.at)
  /\ LET at == Towards(alembic.target, alembic.at)
     IN /\ rev' = at
        /\ alembic' = [alembic EXCEPT !.at = at, !.held = {},
                         !.todo = IF at = alembic.target THEN << >> ELSE Script(alembic.target, at)]
  /\ UNCHANGED <<attempts, journal, phase, job, history>>

Advance ==
  /\ Migrating /\ alembic.todo = << >> /\ alembic.at # alembic.target
  /\ ~Refuses(alembic.target, alembic.at)
  /\ LET at == Towards(alembic.target, alembic.at)
     IN alembic' = [alembic EXCEPT !.at = at,
                      !.todo = IF at = alembic.target THEN << >> ELSE Script(alembic.target, at)]
  /\ UNCHANGED <<database, phase, job, history>>

\* The actions whose rows are left below a downgrade to the target.
Keeps(target) == IF target < 3 THEN {} ELSE DOMAIN journal

Lower(r, q) == IF q < r THEN q ELSE r

CommitRun ==
  /\ Migrating /\ alembic.at = alembic.target
  /\ rev' = alembic.target
  /\ attempts' = IF rev' = 0 THEN {} ELSE attempts
  /\ journal' = [a \in Keeps(rev') |->
                   [journal[a] EXCEPT !.principal = @ /\ rev' >= 4,
                                      !.evidence = @ /\ rev' >= 5]]
  /\ received' = [a \in DOMAIN received |-> Lower(received[a], rev')]
  /\ recorded' = [a \in DOMAIN recorded |-> Lower(recorded[a], rev')]
  /\ EndRun
  /\ UNCHANGED <<phase, job, vouched>>

\* alembic is the victim of a deadlock, or is stopped.
Aborts ==
  /\ Migrating
  /\ EndRun
  /\ UNCHANGED <<database, phase, job, history>>

-----------------------------------------------------------------------------
(* Statements of the program, which is the one at head.                    *)

\* Mutant: the check is the one from before there was a journal.
StatementsAsBefore(kind) ==
  CASE kind = "ingest" -> << Lock("github_deliveries", "write"), Lock("delivery_attempts", "write") >>
    [] kind \in {"create", "finalize"} -> << Lock("recovery_actions", "write") >>
    [] OTHER -> << Lock("delivery_attempts", "read"), Lock("github_deliveries", "read") >>

\* The tables in the order in which they are opened.
Statements(kind) ==
  CASE kind = "ingest" -> << Lock("github_deliveries", "write"), Lock("delivery_attempts", "write") >>
    [] kind \in {"create", "finalize"} -> << Lock("recovery_actions", "write") >>
    [] OTHER -> << Lock("delivery_attempts", "read"), Lock("github_deliveries", "read"),
                   Lock("recovery_actions", "read") >>

\* Every statement names all columns of its tables.
Defined(table) == rev >= (IF table = "recovery_actions" THEN 5 ELSE 1)

Run(w, kind, action, method) ==
  job' = [job EXCEPT ![w] = [Idle("none") EXCEPT !.kind = kind, !.todo = Statements(kind),
                                                !.action = action, !.method = method]]

End(w, answer) == job' = [job EXCEPT ![w] = Idle(answer)]

Start(w) ==
  /\ phase = "down"
  /\ phase' = "starting"
  /\ Run(w, "start", 0, "management_bearer")
  /\ UNCHANGED <<database, alembic, history>>

Doing(kind) == Cardinality({v \in Workers : job[v].kind = kind})

Request(w, kind) ==
  /\ phase = "serving" /\ job[w].kind = "idle"
  /\ \/ kind = "ready" /\ Run(w, kind, 0, "management_bearer")
     \/ kind = "ingest" /\ Len(received) + Doing("ingest") < MaxAttempts
          /\ Run(w, kind, 0, "management_bearer")
     \/ kind = "create" /\ Len(recorded) + Doing("create") < MaxActions
          /\ \E method \in Methods : Run(w, kind, 0, method)
  /\ UNCHANGED <<database, phase, alembic, history>>

\* The next table is opened, once no conflicting lock is held or asked for.
Open(w) ==
  /\ job[w].todo # << >>
  /\ ~Waits(w)
  /\ Defined(Head(job[w].todo).table)
  /\ job' = [job EXCEPT ![w].held = @ \cup {Head(job[w].todo)}, ![w].todo = Tail(@)]
  /\ UNCHANGED <<database, phase, alembic, history>>

\* Mutant: the answer is given while the transaction stays open, with its locks.
FailHolding(w, answer) ==
  /\ phase' = IF job[w].kind = "start" THEN "down" ELSE phase
  /\ job' = [job EXCEPT ![w] = [Idle(IF job[w].kind \in {"start", "ready"} THEN "not_ready" ELSE answer)
                                  EXCEPT !.held = job[w].held]]
  /\ UNCHANGED <<database, alembic, history>>

\* An error rolls the transaction back and lets go of its locks. The program ends
\* when its first check fails.
Fail(w, answer) ==
  /\ phase' = IF job[w].kind = "start" THEN "down" ELSE phase
  /\ End(w, IF job[w].kind \in {"start", "ready"} THEN "not_ready" ELSE answer)
  /\ UNCHANGED <<database, alembic, history>>

\* The table or a column is not there: SQLAlchemyError, answered 503.
Missing(w) ==
  /\ job[w].todo # << >>
  /\ ~Waits(w)
  /\ ~Defined(Head(job[w].todo).table)
  /\ Fail(w, "undefined")

\* The deadlock is found in this session.
Deadlocked(w) == Waits(w) /\ AlembicWaitsFor(w)

Victim(w) == Deadlocked(w) /\ Fail(w, "deadlock")

Done(w, kind) == job[w].kind = kind /\ job[w].todo = << >>

Verified(w) ==
  /\ Done(w, "start") \/ Done(w, "ready")
  /\ phase' = "serving"
  /\ End(w, "ready")
  /\ vouched' = ~Migrating
  /\ UNCHANGED <<database, alembic, received, recorded>>

Ingested(w) ==
  /\ Done(w, "ingest")
  /\ attempts' = attempts \cup {Len(received) + 1}
  /\ received' = Append(received, rev)
  /\ End(w, "received")
  /\ UNCHANGED <<rev, journal, phase, alembic, recorded, vouched>>

Insert(a, method, principal, evidence) ==
  /\ journal' = [b \in DOMAIN journal \cup {a} |->
                   IF b = a THEN [method |-> method, principal |-> principal,
                                  evidence |-> evidence, state |-> "initiated"]
                   ELSE journal[b]]
  /\ recorded' = Append(recorded, rev)

\* The intent is committed, GitHub is asked, and then finalize runs.
Created(w) ==
  /\ Done(w, "create")
  /\ LET a == Len(recorded) + 1
     IN /\ Insert(a, job[w].method, job[w].method = "oidc_jwt", TRUE)
        /\ Run(w, "finalize", a, job[w].method)
  /\ UNCHANGED <<rev, attempts, phase, alembic, received, vouched>>

Finalized(w) ==
  /\ Done(w, "finalize")
  /\ LET a == job[w].action
     IN IF a \in DOMAIN journal
        THEN journal' = [journal EXCEPT ![a].state = "accepted"] /\ End(w, "accepted")
        ELSE UNCHANGED journal /\ End(w, "not_found")
  /\ UNCHANGED <<rev, attempts, phase, alembic, history>>

\* The releases that 0003 and 0004 were written for put rows there too.
OldReleaseRecords(method) ==
  /\ phase = "down"
  /\ rev \in {3, 4} /\ Len(recorded) < MaxActions
  /\ \A l \in AlembicHasOrWants : ~Conflict(l, Lock("recovery_actions", "write"))
  /\ method = "oidc_jwt" => rev = 4
  /\ Insert(Len(recorded) + 1, method, method = "oidc_jwt", FALSE)
  /\ UNCHANGED <<rev, attempts, phase, job, alembic, received, vouched>>

Stop ==
  /\ phase # "down"
  /\ phase' = "down"
  /\ job' = [w \in Workers |-> Idle("none")]
  /\ vouched' = FALSE
  /\ UNCHANGED <<database, alembic, received, recorded>>

-----------------------------------------------------------------------------

AlembicNext == Ask \/ Granted \/ Raises \/ Advance \/ CommitRun

WorkerNext(w) ==
  Open(w) \/ Missing(w) \/ Verified(w) \/ Ingested(w) \/ Created(w) \/ Finalized(w)

Next ==
  \/ \E target \in Targets : Begin(target)
  \/ AlembicNext
  \/ Aborts
  \/ \E w \in Workers : Start(w) \/ WorkerNext(w) \/ Victim(w)
  \/ \E w \in Workers, kind \in {"ready", "ingest", "create"} : Request(w, kind)
  \/ \E method \in Methods : OldReleaseRecords(method)
  \/ Stop

Spec == Init /\ [][Next]_vars

\* Statements and migrations go on if nothing blocks them. PostgreSQL is trusted
\* to find a deadlock, and to grant a lock to who waits before it does to the next
\* migration; what the victim leaves behind is the program's affair.
DeadlockFound ==
  \E w \in Workers : Victim(w) \/ (Deadlocked(w) /\ Aborts)

FairSpec ==
  /\ Spec
  /\ WF_vars(AlembicNext)
  /\ WF_vars(DeadlockFound)
  /\ \A w \in Workers : SF_vars(WorkerNext(w))

-----------------------------------------------------------------------------
(* Properties.                                                             *)

TypeOK ==
  /\ rev \in Revisions
  /\ received \in Seq(Revisions) /\ Len(received) <= MaxAttempts
  /\ recorded \in Seq(Revisions) /\ Len(recorded) <= MaxActions
  /\ attempts \subseteq DOMAIN received /\ DOMAIN journal \subseteq DOMAIN recorded
  /\ \A a \in DOMAIN journal : journal[a] \in Rows
  /\ phase \in {"down", "starting", "serving"}
  /\ \A w \in Workers :
       /\ job[w].kind \in Kinds \cup {"idle"} /\ job[w].answer \in Answers
       /\ job[w].todo \in Seq(Locks) /\ job[w].held \subseteq Locks
  /\ alembic.target \in Revisions /\ alembic.at \in Revisions
  /\ alembic.todo \in Seq(Locks) /\ alembic.held \subseteq Locks

\* A run of alembic is one transaction (env.py): also when it fails halfway, the
\* schema is never seen at a revision that nobody asked for.
\* The variables have their types.
RevisionWasAskedFor == TypeOK /\ rev \in Targets \cup {0}

\* What was committed is lost only to a migration that was carried out and went
\* below the revision that introduced it: refused, aborted and deadlocked ones
\* lose nothing, nor do ups and downs above that revision. An action on record
\* under OIDC says whose it was, or the migration is refused (the constraint of
\* 0004).
HistoryIsKept ==
  /\ \A a \in DOMAIN received : received[a] >= 1 => a \in attempts
  /\ \A a \in DOMAIN recorded :
       /\ recorded[a] >= 3 => a \in DOMAIN journal
       /\ recorded[a] >= 5 => journal[a].evidence
  /\ \A a \in DOMAIN journal : journal[a].method = "oidc_jwt" => journal[a].principal

\* README.md:312: readiness verifies that the schema is usable. From a ready
\* answer to the next migration no request finds a table or a column missing.
ReadyMeansUsable ==
  [][\A w \in Workers : job'[w].answer = "undefined" /\ job[w].answer # "undefined"
                          => ~vouched]_vars

\* add() opens the tables in the opposite order of the downgrade of 0001, and one
\* of the two is ended as the victim of a deadlock. Neither it nor a request or a
\* run that failed otherwise leaves locks that others wait for: every request is
\* answered and every migration ends (begin() of the stores and of env.py).
EveryoneEnds ==
  /\ \A w \in Workers : job[w].kind # "idle" ~> job[w].kind = "idle"
  /\ Migrating ~> ~Migrating
=============================================================================
