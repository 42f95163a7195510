--------------------------- MODULE DeliveryLedger ---------------------------
(***************************************************************************)
(* Webhook ingestion into the delivery ledger, and the lookup of an        *)
(* attempt by id: the thread-pool workers that run ingest() and            *)
(* get_attempt(), the connection pool, PostgreSQL's transactions on        *)
(* github_deliveries and delivery_attempts at READ COMMITTED, and the      *)
(* memory store's deque.                                                   *)
(*                                                                         *)
(* A transaction is named by the attempt it inserts, and a row of          *)
(* github_deliveries by the transaction that inserted it: each inserts at  *)
(* most one.                                                               *)
(***************************************************************************)
EXTENDS Integers, Sequences, FiniteSets

CONSTANTS
  Workers,      \* thread-pool threads
  Identities,   \* (X-GitHub-Delivery, X-GitHub-Hook-ID) pairs
  Backend,      \* DELIVERY_STORE_BACKEND
  MaxEvents,    \* MAX_EVENTS, the length of the memory store's deque
  PoolSize,     \* connections the engine may have checked out
  MaxAttempts   \* bound: attempts ever received

ASSUME ConstantsAssumption ==
  /\ Backend \in {"memory", "postgresql"}
  /\ MaxEvents \in Nat \ {0}
  /\ PoolSize \in Nat \ {0}
  /\ MaxAttempts \in Nat

VARIABLES
  pc,          \* where each worker is
  job,         \* the attempt a worker stores, 0 for none
  ref,         \* the github_deliveries row the worker's transaction refers to
  scan,        \* the attempt a lookup wants, its place in the deque, if that changed
  reply,       \* the outcome of a worker's last request
  sent,        \* the identity of every attempt ever built
  txn,         \* what has become of each attempt's transaction
  deliveries,  \* github_deliveries: the identity of each row
  attempts,    \* delivery_attempts: the github_delivery_id of each row
  deque,       \* the memory store's attempts, newest first
  pushed,      \* history: what the memory store took since it was made, in order
  acked        \* attempts answered with a 200

workerVars == <<pc, job, ref, scan, reply>>
tables == <<txn, deliveries, attempts>>
vars == <<pc, job, ref, scan, reply, sent, txn, deliveries, attempts, deque, pushed, acked>>

Ids == 1 .. MaxAttempts
InTransaction == {"insert", "select", "attempt", "commit", "committing"}
Storing == InTransaction \cup {"store"}
Busy(w) == pc[w] \in Storing \cup {"scan"}

Replies == {"none", "refused", "received", "unavailable", "internal_error", "found", "not_found"}
Fates == {"none", "open", "commit", "committed", "aborted"}

NoScan == [want |-> 0, place |-> 0, mutated |-> FALSE]

Init ==
  /\ pc = [w \in Workers |-> "idle"]
  /\ job = [w \in Workers |-> 0]
  /\ ref = [w \in Workers |-> 0]
  /\ scan = [w \in Workers |-> NoScan]
  /\ reply = [w \in Workers |-> "none"]
  /\ sent = << >>
  /\ txn = << >>
  /\ deliveries = << >>
  /\ attempts = << >>
  /\ deque = << >>
  /\ pushed = << >>
  /\ acked = {}

-----------------------------------------------------------------------------
(* The request.                                                            *)

Goto(w, label) == pc' = [pc EXCEPT ![w] = label]

Finish(w, rep) ==
  /\ Goto(w, "idle")
  /\ reply' = [reply EXCEPT ![w] = rep]
  /\ job' = [job EXCEPT ![w] = 0]
  /\ ref' = [ref EXCEPT ![w] = 0]
  /\ scan' = [scan EXCEPT ![w] = NoScan]

Stay(w, label) ==
  /\ Goto(w, label)
  /\ UNCHANGED <<job, scan, reply>>

\* Headers, body size, signature and JSON are all checked before anything is
\* stored. A signed body that is not UTF-8 raises an error nobody catches.
Refuse(w) ==
  /\ ~Busy(w)
  /\ \E rep \in {"refused", "internal_error"} : Finish(w, rep)
  /\ UNCHANGED <<sent, tables, deque, pushed, acked>>

\* An authentic webhook: a new attempt_id, whatever was received before.
Ingest(w) ==
  /\ ~Busy(w)
  /\ Len(sent) < MaxAttempts
  /\ \E i \in Identities : sent' = Append(sent, i)
  /\ txn' = Append(txn, "none")
  /\ job' = [job EXCEPT ![w] = Len(sent) + 1]
  /\ reply' = [reply EXCEPT ![w] = "none"]
  /\ Goto(w, "store")
  /\ UNCHANGED <<ref, scan, deliveries, attempts, deque, pushed, acked>>

-----------------------------------------------------------------------------
(* The memory store.                                                       *)

Front(s) == SubSeq(s, 1, IF Len(s) < MaxEvents THEN Len(s) ELSE MaxEvents)

\* Mutant: room is made at the end where the new attempt goes.
PushOverNewest(a) ==
  deque' = <<a>> \o (IF Len(deque) < MaxEvents THEN deque ELSE Tail(deque))

Push(a) == deque' = Front(<<a>> \o deque)

\* appendleft, and the 200. A lookup under way sees that the deque changed.
AddToMemory(w) ==
  /\ Backend = "memory"
  /\ pc[w] = "store"
  /\ Push(job[w])
  /\ pushed' = Append(pushed, job[w])
  /\ acked' = acked \cup {job[w]}
  /\ pc' = [pc EXCEPT ![w] = "idle"]
  /\ reply' = [reply EXCEPT ![w] = "received"]
  /\ job' = [job EXCEPT ![w] = 0]
  /\ scan' = [v \in Workers |-> IF pc[v] = "scan" THEN [scan[v] EXCEPT !.mutated = TRUE]
                                ELSE scan[v]]
  /\ UNCHANGED <<ref, sent, tables>>

-----------------------------------------------------------------------------
(* The PostgreSQL store: one transaction for the delivery and the attempt. *)

SetFate(a, fate) == txn' = [txn EXCEPT ![a] = fate]

\* Mutant: a savepoint around the second insert, the first one committed.
RollBackAttempt(a) ==
  /\ SetFate(a, "committed")
  /\ attempts' = [b \in DOMAIN attempts \ {a} |-> attempts[b]]
  /\ UNCHANGED deliveries

RollBack(a) ==
  /\ SetFate(a, "aborted")
  /\ deliveries' = [d \in DOMAIN deliveries \ {a} |-> deliveries[d]]
  /\ attempts' = [b \in DOMAIN attempts \ {a} |-> attempts[b]]

\* A connection is free and the transaction begins.
Connect(w) ==
  /\ Backend = "postgresql"
  /\ pc[w] = "store"
  /\ Cardinality({v \in Workers : pc[v] \in InTransaction}) < PoolSize
  /\ SetFate(job[w], "open")
  /\ Stay(w, "insert")
  /\ UNCHANGED <<ref, sent, deliveries, attempts, deque, pushed, acked>>

\* The pool's timeout, or no database.
ConnectFails(w) ==
  /\ Backend = "postgresql"
  /\ pc[w] = "store"
  /\ Finish(w, "unavailable")
  /\ UNCHANGED <<sent, tables, deque, pushed, acked>>

Committed(a) == txn[a] = "committed"
RowsOf(i) == {d \in DOMAIN deliveries : deliveries[d] = i}

InsertRow(w) ==
  /\ deliveries' = [d \in DOMAIN deliveries \cup {job[w]} |->
                      IF d = job[w] THEN sent[d] ELSE deliveries[d]]
  /\ ref' = [ref EXCEPT ![w] = job[w]]
  /\ Stay(w, "attempt")

\* INSERT ... ON CONFLICT DO NOTHING RETURNING id: it waits while another open
\* transaction holds the identity's index entry, and returns no row when a
\* committed one does.
InsertDelivery(w) ==
  /\ pc[w] = "insert"
  /\ \/ /\ RowsOf(sent[job[w]]) = {}
        /\ InsertRow(w)
     \/ /\ \E d \in RowsOf(sent[job[w]]) : Committed(d)
        /\ Stay(w, "select")
        /\ UNCHANGED <<ref, deliveries>>
  /\ UNCHANGED <<sent, txn, attempts, deque, pushed, acked>>

Selected(i) == {d \in RowsOf(i) : Committed(d)}

\* Mutant: the where clause compares the hook only.
SelectAnyOfHook(w) ==
  /\ pc[w] = "select"
  /\ \E d \in {d \in DOMAIN deliveries : Committed(d)} : ref' = [ref EXCEPT ![w] = d]
  /\ Stay(w, "attempt")
  /\ UNCHANGED <<sent, tables, deque, pushed, acked>>

\* SELECT id, with the statement's own snapshot. scalar_one() of no row is an
\* SQLAlchemyError.
SelectDelivery(w) ==
  /\ pc[w] = "select"
  /\ \E d \in Selected(sent[job[w]]) : ref' = [ref EXCEPT ![w] = d]
  /\ Stay(w, "attempt")
  /\ UNCHANGED <<sent, tables, deque, pushed, acked>>

InsertAttempt(w) ==
  /\ pc[w] = "attempt"
  /\ attempts' = [a \in DOMAIN attempts \cup {job[w]} |->
                    IF a = job[w] THEN ref[w] ELSE attempts[a]]
  /\ Stay(w, "commit")
  /\ UNCHANGED <<ref, sent, txn, deliveries, deque, pushed, acked>>

Commit(w) ==
  /\ pc[w] = "commit"
  /\ SetFate(job[w], "commit")
  /\ Stay(w, "committing")
  /\ UNCHANGED <<ref, sent, deliveries, attempts, deque, pushed, acked>>

\* Mutant: the sender gets its 200 while the commit is on its way.
AcknowledgeEarly(w) ==
  /\ pc[w] = "committing"
  /\ acked' = acked \cup {job[w]}
  /\ Finish(w, "received")
  /\ UNCHANGED <<sent, tables, deque, pushed>>

\* The commit is confirmed and the sender gets its 200.
Acknowledge(w) ==
  /\ pc[w] = "committing"
  /\ Committed(job[w])
  /\ acked' = acked \cup {job[w]}
  /\ Finish(w, "received")
  /\ UNCHANGED <<sent, tables, deque, pushed>>

CommitRefused(w) ==
  /\ pc[w] = "committing"
  /\ txn[job[w]] = "aborted"
  /\ Finish(w, "unavailable")
  /\ UNCHANGED <<sent, tables, deque, pushed, acked>>

\* Mutant: after an error the transaction is neither rolled back nor closed.
FailsHolding(w) ==
  /\ pc[w] \in InTransaction
  /\ Goto(w, "idle")
  /\ reply' = [reply EXCEPT ![w] = "unavailable"]
  /\ UNCHANGED <<job, ref, scan, sent, tables, deque, pushed, acked>>

\* A statement raises, select's scalar_one included: begin() rolls back. When
\* the connection is lost the server still has the transaction, or its commit.
Fails(w) ==
  /\ pc[w] \in InTransaction
  /\ Finish(w, "unavailable")
  /\ \/ pc[w] # "committing" /\ RollBack(job[w])
     \/ UNCHANGED tables
  /\ UNCHANGED <<sent, deque, pushed, acked>>

-----------------------------------------------------------------------------
(* The lookup of an attempt by its id.                                     *)

StartLookup(w) ==
  /\ ~Busy(w)
  /\ \E a \in Ids : scan' = [scan EXCEPT ![w] = [want |-> a, place |-> 1, mutated |-> FALSE]]
  /\ reply' = [reply EXCEPT ![w] = "none"]
  /\ Goto(w, "scan")
  /\ UNCHANGED <<job, ref, sent, tables, deque, pushed, acked>>

\* Mutant: the loop goes by index and does not notice an append.
ScanStepByIndex(w) ==
  LET s == scan[w] IN
  \/ s.place > Len(deque) /\ Finish(w, "not_found")
  \/ /\ s.place <= Len(deque)
     /\ \/ deque[s.place] = s.want /\ Finish(w, "found")
        \/ /\ deque[s.place] # s.want
           /\ scan' = [scan EXCEPT ![w].place = s.place + 1]
           /\ UNCHANGED <<pc, job, ref, reply>>

\* One step of the loop over the deque, in which another thread may append:
\* the iterator then raises a RuntimeError.
ScanStep(w) ==
  LET s == scan[w] IN
  \/ s.mutated /\ Finish(w, "internal_error")
  \/ ~s.mutated /\ s.place > Len(deque) /\ Finish(w, "not_found")
  \/ /\ ~s.mutated
     /\ s.place <= Len(deque)
     /\ \/ deque[s.place] = s.want /\ Finish(w, "found")
        \/ /\ deque[s.place] # s.want
           /\ scan' = [scan EXCEPT ![w].place = s.place + 1]
           /\ UNCHANGED <<pc, job, ref, reply>>

Stored(a) == a \in DOMAIN attempts /\ Committed(a)

LookupInPostgres(w) ==
  \/ Stored(scan[w].want) /\ Finish(w, "found")
  \/ ~Stored(scan[w].want) /\ Finish(w, "not_found")
  \/ Finish(w, "unavailable")

Lookup(w) ==
  /\ pc[w] = "scan"
  /\ \/ Backend = "memory" /\ ScanStep(w)
     \/ Backend = "postgresql" /\ LookupInPostgres(w)
  /\ UNCHANGED <<sent, tables, deque, pushed, acked>>

-----------------------------------------------------------------------------
(* The database server and the process.                                    *)

\* A commit that was sent succeeds or not, whether or not anyone still waits.
ServerCommits(a) ==
  /\ txn[a] = "commit"
  /\ \/ SetFate(a, "committed") /\ UNCHANGED <<deliveries, attempts>>
     \/ RollBack(a)
  /\ UNCHANGED <<workerVars, sent, deque, pushed, acked>>

\* The server notices that the client is gone.
ServerDrops(a) ==
  /\ txn[a] = "open"
  /\ \A w \in Workers : job[w] # a
  /\ RollBack(a)
  /\ UNCHANGED <<workerVars, sent, deque, pushed, acked>>

\* The process stops, at any point, and is started again.
Restart ==
  /\ pc' = [w \in Workers |-> "idle"]
  /\ job' = [w \in Workers |-> 0]
  /\ ref' = [w \in Workers |-> 0]
  /\ scan' = [w \in Workers |-> NoScan]
  /\ reply' = [w \in Workers |-> "none"]
  /\ deque' = << >>
  /\ pushed' = << >>
  /\ acked' = IF Backend = "memory" THEN {} ELSE acked
  /\ UNCHANGED <<sent, tables>>

StoreStep(w) ==
  AddToMemory(w) \/ Connect(w) \/ InsertDelivery(w) \/ SelectDelivery(w)
  \/ InsertAttempt(w) \/ Commit(w) \/ Acknowledge(w) \/ CommitRefused(w)

Request(w) == Refuse(w) \/ Ingest(w) \/ StartLookup(w)

Next ==
  \/ \E w \in Workers : Request(w) \/ StoreStep(w) \/ Lookup(w) \/ ConnectFails(w) \/ Fails(w)
  \/ \E a \in DOMAIN txn : ServerCommits(a) \/ ServerDrops(a)
  \/ Restart

\* Threads run, statements that can proceed do, and the server ends the
\* transactions of clients that are gone. No timeout is relied on.
Fairness ==
  /\ \A w \in Workers : WF_vars(StoreStep(w)) /\ WF_vars(Lookup(w))
  /\ \A a \in Ids : WF_vars(a \in DOMAIN txn /\ (ServerCommits(a) \/ ServerDrops(a)))

Spec == Init /\ [][Next]_vars
FairSpec == Spec /\ Fairness

-----------------------------------------------------------------------------
(* Properties.                                                             *)

Rows == {a \in DOMAIN attempts : Committed(a)}
Logical == {d \in DOMAIN deliveries : Committed(d)}

TypeOK ==
  /\ pc \in [Workers -> Storing \cup {"idle", "scan"}]
  /\ job \in [Workers -> 0 .. MaxAttempts]
  /\ ref \in [Workers -> 0 .. Len(sent)]
  /\ scan \in [Workers -> [want : 0 .. MaxAttempts, place : 0 .. MaxEvents + 1, mutated : BOOLEAN]]
  /\ reply \in [Workers -> Replies]
  /\ sent \in Seq(Identities)
  /\ Len(sent) <= MaxAttempts
  /\ txn \in Seq(Fates)
  /\ Len(txn) = Len(sent)
  /\ DOMAIN deliveries \subseteq DOMAIN sent
  /\ \A d \in DOMAIN deliveries : deliveries[d] \in Identities
  /\ DOMAIN attempts \subseteq DOMAIN sent
  /\ \A a \in DOMAIN attempts : attempts[a] \in DOMAIN sent
  /\ deque \in Seq(DOMAIN sent)
  /\ Len(deque) <= MaxEvents
  /\ pushed \in Seq(DOMAIN sent)
  /\ acked \subseteq DOMAIN sent

\* However the transactions of retried and concurrent webhooks interleave,
\* fail or are lost, the committed tables hold one row per delivery identity,
\* none without an attempt, and each attempt refers to the row of the identity
\* its webhook carried (PostgresDeliveryStore.add).
LedgerConsistent ==
  /\ \A d, e \in Logical : deliveries[d] = deliveries[e] => d = e
  /\ \A d \in Logical : \E a \in Rows : attempts[a] = d
  /\ \A a \in Rows : attempts[a] \in Logical /\ deliveries[attempts[a]] = sent[a]

\* After a conflict the row is there to be selected: scalar_one() never raises
\* NoResultFound (the second statement of add).
SelectFindsRow ==
  \A w \in Workers : pc[w] = "select" => Cardinality(Selected(sent[job[w]])) = 1

OnRecord(a) == IF Backend = "postgresql" THEN a \in Rows
               ELSE \E k \in DOMAIN deque : deque[k] = a

\* The attempt came to the memory store before at least MAX_EVENTS others did.
Outlived(a) ==
  \E k \in DOMAIN pushed : pushed[k] = a /\ Len(pushed) >= k + MaxEvents

\* A 200 means that the attempt is on record: with PostgreSQL it is committed,
\* for good; with the memory store it is in the deque until at least MAX_EVENTS
\* others were pushed after it or the process restarts (InMemoryDeliveryStore's
\* deque(maxlen), and PostgresDeliveryStore.add before the 200).
AckedIsRecorded ==
  \A a \in acked : OnRecord(a) \/ (Backend = "memory" /\ Outlived(a))

\* Every webhook and every lookup is answered, also one that waits for the
\* index entry another, perhaps abandoned, transaction holds.
Answered == \A w \in Workers : Busy(w) ~> ~Busy(w)

Contract == INSTANCE LedgerContract WITH
  received <- {<<a, sent[a]>> : a \in DOMAIN sent},
  recorded <- {<<a, deliveries[attempts[a]]>> : a \in Rows},
  logical <- {deliveries[d] : d \in Logical}

\* The two-table transactions, their failures and late commits together record
\* each attempt in one step, with its delivery.
RecordsAtomically == Contract!Spec

\* A lookup may fail, but a 404 means that the attempt is not on record at that
\* moment, and a 200 that it is, whatever was pushed, evicted or committed while
\* the loop ran (get_attempt of both stores).
LookupIsTruthful ==
  [][\A w \in Workers : pc[w] = "scan" /\ pc'[w] = "idle" =>
       /\ reply'[w] = "found" => OnRecord(scan[w].want)
       /\ reply'[w] = "not_found" => ~OnRecord(scan[w].want)]_vars
=============================================================================
