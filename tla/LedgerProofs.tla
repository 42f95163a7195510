---------------------------- MODULE LedgerProofs ----------------------------
(***************************************************************************)
(* Proofs about DeliveryLedger, for any number of workers, attempts and    *)
(* delivery identities, any pool and deque, and either backend.            *)
(***************************************************************************)
EXTENDS DeliveryLedger, TLAPS, FiniteSetTheorems

-----------------------------------------------------------------------------
(* The inductive invariant.                                                *)

\* A worker has an attempt while it stores one, and nobody else has the same. In
\* a transaction it is with PostgreSQL only.
JobsOK ==
  /\ \A w \in Workers : pc[w] \in Storing => job[w] \in DOMAIN sent
  /\ \A w \in Workers : pc[w] \notin Storing => job[w] = 0
  /\ \A v, w \in Workers : job[v] = job[w] /\ job[v] # 0 => v = w
  /\ Backend = "memory" => \A w \in Workers : pc[w] \notin InTransaction

\* How far the transaction of a worker's attempt is.
StageFates(label) ==
  CASE label = "store" -> {"none"}
    [] label = "committing" -> {"commit", "committed", "aborted"}
    [] OTHER -> {"open"}

StagesOK ==
  \A w \in Workers : pc[w] \in Storing => txn[job[w]] \in StageFates(pc[w])

Live(a) == txn[a] \in {"open", "commit", "committed"}

\* The unique index, over rows that are not committed too.
DeliveriesOK ==
  /\ \A d \in DOMAIN deliveries : d \in DOMAIN sent /\ Live(d) /\ deliveries[d] = sent[d]
  /\ \A d, e \in DOMAIN deliveries : deliveries[d] = deliveries[e] => d = e

\* The delivery row that the transaction of attempt a may refer to: its own, or
\* a committed one if it has none.
MayRefer(a, d) ==
  /\ d \in DOMAIN deliveries
  /\ deliveries[d] = sent[a]
  /\ IF a \in DOMAIN deliveries THEN d = a ELSE Committed(d)

AttemptsOK ==
  /\ \A a \in DOMAIN attempts : a \in DOMAIN sent /\ Live(a) /\ MayRefer(a, attempts[a])
  /\ \A a \in DOMAIN sent : txn[a] \in {"commit", "committed"} => a \in DOMAIN attempts

\* What a worker's transaction has inserted so far.
WorkersOK ==
  \A w \in Workers :
    /\ pc[w] \in {"insert", "select"} => job[w] \notin DOMAIN deliveries
    /\ pc[w] \in {"insert", "select", "attempt"} => job[w] \notin DOMAIN attempts
    /\ pc[w] = "select" => \E d \in DOMAIN deliveries : Committed(d) /\ deliveries[d] = sent[job[w]]
    /\ pc[w] = "attempt" => MayRefer(job[w], ref[w])
    /\ pc[w] = "commit" => job[w] \in DOMAIN attempts

TablesOK == JobsOK /\ StagesOK /\ DeliveriesOK /\ AttemptsOK /\ WorkersOK

\* The deque holds the newest of what was pushed, newest first.
NewestFirst ==
  /\ Len(deque) = IF Len(pushed) < MaxEvents THEN Len(pushed) ELSE MaxEvents
  /\ \A k \in DOMAIN deque : deque[k] = pushed[Len(pushed) + 1 - k]

AckedPushed == \A a \in acked : \E k \in DOMAIN pushed : pushed[k] = a

\* Where the acknowledged attempts went.
AckedOK ==
  /\ Backend = "postgresql" => acked \subseteq Rows
  /\ Backend = "memory" => NewestFirst /\ AckedPushed

Inv == TypeOK /\ TablesOK /\ AckedOK

-----------------------------------------------------------------------------
(* Kinds of steps.                                                         *)

\* Workers end or begin to look up; tables and webhooks are as they were.
Quiet ==
  /\ UNCHANGED <<sent, tables>>
  /\ \A w \in Workers :
       \/ pc'[w] = pc[w] /\ job'[w] = job[w] /\ ref'[w] = ref[w]
       \/ pc'[w] \notin Storing /\ job'[w] = 0

\* A transaction is rolled back, and nobody goes on with it.
Aborts(a) ==
  /\ txn[a] \in {"open", "commit"}
  /\ RollBack(a)
  /\ UNCHANGED sent
  /\ \A w \in Workers :
       \/ /\ pc'[w] = pc[w] /\ job'[w] = job[w] /\ ref'[w] = ref[w]
          /\ job[w] = a => pc[w] = "committing"
       \/ pc'[w] \notin Storing /\ job'[w] = 0

LEMMA QuietKeeps ==
  ASSUME TypeOK, TablesOK, Quiet
  PROVE  TablesOK'
<1>1. JobsOK'
  BY DEF TablesOK, JobsOK, Quiet, Storing, InTransaction
<1>2. StagesOK'
  BY DEF TablesOK, StagesOK, Quiet, tables
<1>3. DeliveriesOK' /\ AttemptsOK'
  BY DEF TablesOK, DeliveriesOK, AttemptsOK, Quiet, tables, Live, MayRefer, Committed
<1>4. WorkersOK'
  BY DEF TablesOK, WorkersOK, Quiet, tables, MayRefer, Committed, Storing, InTransaction
<1> QED
  BY <1>1, <1>2, <1>3, <1>4 DEF TablesOK

LEMMA AbortsKeeps ==
  ASSUME TypeOK, TablesOK, NEW a \in DOMAIN txn, Aborts(a)
  PROVE  TablesOK'
<1>1. /\ txn'[a] = "aborted" /\ DOMAIN txn' = DOMAIN txn
      /\ \A b \in DOMAIN txn : b # a => txn'[b] = txn[b]
      /\ DOMAIN deliveries' = DOMAIN deliveries \ {a}
      /\ \A d \in DOMAIN deliveries' : deliveries'[d] = deliveries[d]
      /\ DOMAIN attempts' = DOMAIN attempts \ {a}
      /\ \A b \in DOMAIN attempts' : attempts'[b] = attempts[b]
      /\ DOMAIN txn = DOMAIN sent /\ sent' = sent
  BY DEF Aborts, RollBack, SetFate, TypeOK
<1>2. JobsOK'
  BY DEF TablesOK, JobsOK, Aborts, Storing, InTransaction
<1>3. StagesOK'
  <2> SUFFICES ASSUME NEW w \in Workers, pc'[w] \in Storing
               PROVE  txn'[job'[w]] \in StageFates(pc'[w])
    BY DEF StagesOK
  <2>1. pc'[w] = pc[w] /\ job'[w] = job[w] /\ (job[w] = a => pc[w] = "committing")
    BY DEF Aborts
  <2>2. job[w] \in DOMAIN txn /\ txn[job[w]] \in StageFates(pc[w])
    BY <2>1, <1>1 DEF TablesOK, JobsOK, StagesOK
  <2> QED
    BY <2>1, <2>2, <1>1 DEF StageFates
<1>4. \A b \in DOMAIN sent : \A d : b # a /\ MayRefer(b, d) => MayRefer(b, d)'
  BY <1>1 DEF MayRefer, Committed, Aborts, TablesOK, DeliveriesOK
<1>5. DeliveriesOK'
  BY <1>1 DEF TablesOK, DeliveriesOK, Live
<1>6. AttemptsOK'
  BY <1>1, <1>4 DEF TablesOK, AttemptsOK, Live
<1>7. WorkersOK'
  <2> SUFFICES ASSUME NEW w \in Workers, pc'[w] \in {"insert", "select", "attempt", "commit"}
               PROVE  /\ pc'[w] \in {"insert", "select"} => job'[w] \notin DOMAIN deliveries'
                      /\ pc'[w] \in {"insert", "select", "attempt"} => job'[w] \notin DOMAIN attempts'
                      /\ pc'[w] = "select" =>
                           \E d \in DOMAIN deliveries' : Committed(d)' /\ deliveries'[d] = sent'[job'[w]]
                      /\ pc'[w] = "attempt" => MayRefer(job[w], ref[w])'
                      /\ pc'[w] = "commit" => job'[w] \in DOMAIN attempts'
    BY DEF WorkersOK, Aborts, MayRefer, Storing, InTransaction
  <2>1. pc'[w] = pc[w] /\ job'[w] = job[w] /\ ref'[w] = ref[w] /\ job[w] # a
    BY DEF Aborts, Storing, InTransaction
  <2>2. job[w] \in DOMAIN sent
    BY <2>1 DEF TablesOK, JobsOK, Storing, InTransaction
  <2> QED
    BY <2>1, <2>2, <1>1, <1>4 DEF TablesOK, WorkersOK, Committed, Aborts, DeliveriesOK
<1> QED
  BY <1>2, <1>3, <1>5, <1>6, <1>7 DEF TablesOK

\* The transaction of one worker goes on; the others see it through txn only.
OthersWait(w) ==
  \A v \in Workers \ {w} : pc'[v] = pc[v] /\ job'[v] = job[v] /\ ref'[v] = ref[v]

\* The attempt a worker has is its alone, and its transaction is as far as it is.
LEMMA JobFacts ==
  ASSUME TypeOK, TablesOK, NEW w \in Workers, pc[w] \in Storing
  PROVE  /\ job[w] \in DOMAIN sent /\ DOMAIN txn = DOMAIN sent /\ 0 \notin DOMAIN sent
         /\ \A v \in Workers : v # w => job[v] # job[w]
         /\ pc[w] = "store" => txn[job[w]] = "none"
         /\ pc[w] \in {"insert", "select", "attempt", "commit"} => txn[job[w]] = "open"
         /\ pc[w] = "committing" => txn[job[w]] \in {"commit", "committed", "aborted"}
<1>1. job[w] \in DOMAIN sent /\ DOMAIN txn = DOMAIN sent /\ 0 \notin DOMAIN sent
  BY DEF TablesOK, JobsOK, TypeOK
<1>2. \A v \in Workers : v # w => job[v] # job[w]
  BY <1>1 DEF TablesOK, JobsOK
<1>3. txn[job[w]] \in StageFates(pc[w])
  BY DEF TablesOK, StagesOK
<1> QED
  BY <1>1, <1>2, <1>3 DEF StageFates

LEMMA IngestKeeps ==
  ASSUME TypeOK, TablesOK, NEW w \in Workers, Ingest(w)
  PROVE  TablesOK'
<1>1. /\ Len(sent') = Len(sent) + 1 /\ DOMAIN sent = 1 .. Len(sent)
      /\ DOMAIN sent' = 1 .. Len(sent) + 1
      /\ \A a \in DOMAIN sent : sent'[a] = sent[a]
      /\ DOMAIN txn = DOMAIN sent /\ DOMAIN txn' = DOMAIN sent'
      /\ \A a \in DOMAIN sent : txn'[a] = txn[a]
      /\ txn'[Len(sent) + 1] = "none"
      /\ Len(sent) \in Nat
  BY DEF Ingest, TypeOK
<1>2. /\ pc'[w] = "store" /\ job'[w] = Len(sent) + 1
      /\ OthersWait(w)
  BY DEF Ingest, Goto, TypeOK, OthersWait
<1>3. /\ \A v \in Workers : pc[v] \in Storing => job[v] \in DOMAIN sent
      /\ \A v \in Workers : job[v] # Len(sent) + 1
  BY <1>1 DEF TablesOK, JobsOK
<1>4. JobsOK'
  BY <1>1, <1>2, <1>3 DEF TablesOK, JobsOK, OthersWait, Storing, InTransaction
<1>5. StagesOK'
  BY <1>1, <1>2, <1>3 DEF TablesOK, StagesOK, OthersWait, StageFates
<1>6. DeliveriesOK' /\ AttemptsOK'
  BY <1>1 DEF TablesOK, DeliveriesOK, AttemptsOK, Ingest, Live, MayRefer, Committed
<1>7. WorkersOK'
  BY <1>1, <1>2, <1>3 DEF TablesOK, WorkersOK, DeliveriesOK, OthersWait, MayRefer, Committed, Ingest,
    Storing, InTransaction
<1> QED
  BY <1>4, <1>5, <1>6, <1>7 DEF TablesOK

LEMMA ConnectKeeps ==
  ASSUME TypeOK, TablesOK, NEW w \in Workers, Connect(w)
  PROVE  TablesOK'
<1>1. /\ job[w] \in DOMAIN txn /\ txn[job[w]] = "none"
      /\ DOMAIN txn' = DOMAIN txn /\ txn'[job[w]] = "open"
      /\ \A a \in DOMAIN txn : a # job[w] => txn'[a] = txn[a]
      /\ DOMAIN txn = DOMAIN sent
      /\ \A v \in Workers : v # w => job[v] # job[w]
  BY JobFacts DEF Connect, SetFate, TypeOK, Storing
<1>2. /\ pc'[w] = "insert" /\ job' = job /\ ref' = ref /\ sent' = sent
      /\ deliveries' = deliveries /\ attempts' = attempts
      /\ OthersWait(w)
  BY DEF Connect, Stay, Goto, TypeOK, OthersWait
<1>3. job[w] \notin DOMAIN deliveries /\ job[w] \notin DOMAIN attempts
  BY <1>1 DEF TablesOK, DeliveriesOK, AttemptsOK, Live
<1>4. JobsOK'
  BY <1>1, <1>2 DEF TablesOK, JobsOK, Connect, OthersWait, Storing, InTransaction
<1>5. StagesOK'
  BY <1>1, <1>2 DEF TablesOK, JobsOK, StagesOK, OthersWait, StageFates, Storing
<1>6. DeliveriesOK' /\ AttemptsOK'
  BY <1>1, <1>2, <1>3 DEF TablesOK, DeliveriesOK, AttemptsOK, Live, MayRefer, Committed
<1>7. WorkersOK'
  BY <1>1, <1>2, <1>3 DEF TablesOK, WorkersOK, DeliveriesOK, OthersWait, MayRefer, Committed
<1> QED
  BY <1>4, <1>5, <1>6, <1>7 DEF TablesOK

LEMMA InsertDeliveryKeeps ==
  ASSUME TypeOK, TablesOK, NEW w \in Workers, InsertDelivery(w)
  PROVE  TablesOK'
<1>1. /\ pc[w] = "insert" /\ job[w] \in DOMAIN sent /\ txn[job[w]] = "open"
      /\ job[w] \notin DOMAIN deliveries /\ job[w] \notin DOMAIN attempts
      /\ job' = job /\ sent' = sent /\ txn' = txn /\ attempts' = attempts
      /\ \A v \in Workers : v # w => job[v] # job[w]
  BY JobFacts DEF InsertDelivery, InsertRow, Stay, TablesOK, WorkersOK, Storing, InTransaction
<1>2. CASE RowsOf(sent[job[w]]) = {} /\ InsertRow(w)
  <2>1. /\ pc'[w] = "attempt" /\ ref'[w] = job[w] /\ OthersWait(w)
        /\ DOMAIN deliveries' = DOMAIN deliveries \cup {job[w]}
        /\ deliveries'[job[w]] = sent[job[w]]
        /\ \A d \in DOMAIN deliveries : deliveries'[d] = deliveries[d]
        /\ \A d \in DOMAIN deliveries : deliveries[d] # sent[job[w]]
    BY <1>1, <1>2 DEF InsertRow, Stay, Goto, TypeOK, OthersWait, RowsOf
  <2>2. JobsOK' /\ StagesOK'
    BY <1>1, <2>1 DEF TablesOK, JobsOK, StagesOK, OthersWait, StageFates, Storing, InTransaction
  <2>3. DeliveriesOK'
    BY <1>1, <2>1 DEF TablesOK, DeliveriesOK, Live
  <2>4. AttemptsOK'
    BY <1>1, <2>1 DEF TablesOK, AttemptsOK, Live, MayRefer, Committed
  <2>5. WorkersOK'
    BY <1>1, <2>1 DEF TablesOK, JobsOK, WorkersOK, OthersWait, MayRefer, Committed, Storing, InTransaction
  <2> QED
    BY <2>2, <2>3, <2>4, <2>5 DEF TablesOK
<1>3. CASE /\ \E d \in RowsOf(sent[job[w]]) : Committed(d)
           /\ Stay(w, "select")
           /\ UNCHANGED <<ref, deliveries>>
  <2>1. /\ pc'[w] = "select" /\ ref' = ref /\ deliveries' = deliveries /\ OthersWait(w)
        /\ \E d \in DOMAIN deliveries : Committed(d) /\ deliveries[d] = sent[job[w]]
    BY <1>1, <1>3 DEF Stay, Goto, TypeOK, OthersWait, RowsOf
  <2>2. JobsOK' /\ StagesOK'
    BY <1>1, <2>1 DEF TablesOK, JobsOK, StagesOK, OthersWait, StageFates, Storing, InTransaction
  <2>3. DeliveriesOK' /\ AttemptsOK'
    BY <1>1, <2>1 DEF TablesOK, DeliveriesOK, AttemptsOK, Live, MayRefer, Committed
  <2>4. WorkersOK'
    BY <1>1, <2>1 DEF TablesOK, WorkersOK, OthersWait, MayRefer, Committed
  <2> QED
    BY <2>2, <2>3, <2>4 DEF TablesOK
<1> QED
  BY <1>2, <1>3 DEF InsertDelivery

LEMMA SelectDeliveryKeeps ==
  ASSUME TypeOK, TablesOK, NEW w \in Workers, SelectDelivery(w)
  PROVE  TablesOK'
<1>1. PICK d \in Selected(sent[job[w]]) : ref' = [ref EXCEPT ![w] = d]
  BY DEF SelectDelivery
<1>2. /\ pc[w] = "select" /\ pc'[w] = "attempt" /\ ref'[w] = d /\ OthersWait(w)
      /\ job' = job /\ sent' = sent /\ txn' = txn /\ deliveries' = deliveries /\ attempts' = attempts
  BY <1>1 DEF SelectDelivery, Stay, Goto, TypeOK, OthersWait, tables
<1>3. MayRefer(job[w], d) /\ job[w] \notin DOMAIN attempts
  BY <1>1, <1>2 DEF Selected, RowsOf, MayRefer, TablesOK, WorkersOK
<1>4. JobsOK' /\ StagesOK'
  BY <1>2 DEF TablesOK, JobsOK, StagesOK, OthersWait, StageFates, Storing, InTransaction
<1>5. DeliveriesOK' /\ AttemptsOK'
  BY <1>2 DEF TablesOK, DeliveriesOK, AttemptsOK, Live, MayRefer, Committed
<1>6. WorkersOK'
  BY <1>2, <1>3 DEF TablesOK, WorkersOK, OthersWait, MayRefer, Committed
<1> QED
  BY <1>4, <1>5, <1>6 DEF TablesOK

LEMMA InsertAttemptKeeps ==
  ASSUME TypeOK, TablesOK, NEW w \in Workers, InsertAttempt(w)
  PROVE  TablesOK'
<1>1. /\ pc[w] = "attempt" /\ pc'[w] = "commit" /\ OthersWait(w) /\ ref' = ref
      /\ job' = job /\ sent' = sent /\ txn' = txn /\ deliveries' = deliveries
      /\ DOMAIN attempts' = DOMAIN attempts \cup {job[w]}
      /\ attempts'[job[w]] = ref[w]
      /\ \A a \in DOMAIN attempts : a # job[w] => attempts'[a] = attempts[a]
  BY DEF InsertAttempt, Stay, Goto, TypeOK, OthersWait
<1>2. /\ MayRefer(job[w], ref[w]) /\ txn[job[w]] = "open" /\ job[w] \in DOMAIN sent
      /\ \A v \in Workers : v # w => job[v] # job[w]
  BY <1>1, JobFacts DEF TablesOK, WorkersOK, Storing, InTransaction
<1>3. JobsOK' /\ StagesOK'
  BY <1>1 DEF TablesOK, JobsOK, StagesOK, OthersWait, StageFates, Storing, InTransaction
<1>4. DeliveriesOK' /\ AttemptsOK'
  BY <1>1, <1>2 DEF TablesOK, DeliveriesOK, AttemptsOK, Live, MayRefer, Committed
<1>5. WorkersOK'
  BY <1>1, <1>2 DEF TablesOK, JobsOK, WorkersOK, OthersWait, MayRefer, Committed, Storing, InTransaction
<1> QED
  BY <1>3, <1>4, <1>5 DEF TablesOK

\* A transaction moves on to being committed.
LEMMA CommitKeeps ==
  ASSUME TypeOK, TablesOK, NEW w \in Workers, Commit(w)
  PROVE  TablesOK'
<1>1. /\ pc[w] = "commit" /\ pc'[w] = "committing" /\ OthersWait(w)
      /\ job' = job /\ ref' = ref /\ sent' = sent
      /\ deliveries' = deliveries /\ attempts' = attempts
      /\ job[w] \in DOMAIN attempts /\ txn[job[w]] = "open"
      /\ DOMAIN txn' = DOMAIN txn /\ DOMAIN txn = DOMAIN sent /\ txn'[job[w]] = "commit"
      /\ \A a \in DOMAIN txn : a # job[w] => txn'[a] = txn[a]
      /\ \A v \in Workers : v # w => job[v] # job[w]
  BY JobFacts DEF Commit, SetFate, Stay, Goto, TypeOK, OthersWait, TablesOK, WorkersOK, Storing,
    InTransaction
<1>2. JobsOK' /\ StagesOK'
  BY <1>1 DEF TablesOK, JobsOK, StagesOK, OthersWait, StageFates, Storing, InTransaction
<1>3. DeliveriesOK' /\ AttemptsOK'
  BY <1>1 DEF TablesOK, DeliveriesOK, AttemptsOK, Live, MayRefer, Committed
<1>4. \A d \in DOMAIN deliveries : Committed(d) => Committed(d)'
  BY <1>1 DEF TablesOK, DeliveriesOK, Committed
<1>5. WorkersOK'
  BY <1>1, <1>4 DEF TablesOK, WorkersOK, OthersWait, MayRefer
<1> QED
  BY <1>2, <1>3, <1>5 DEF TablesOK

LEMMA CommittedKeeps ==
  ASSUME TypeOK, TablesOK, NEW a \in DOMAIN txn, txn[a] = "commit", SetFate(a, "committed"),
         UNCHANGED <<deliveries, attempts, workerVars, sent>>
  PROVE  TablesOK'
<1>1. /\ DOMAIN txn' = DOMAIN txn /\ DOMAIN txn = DOMAIN sent /\ txn'[a] = "committed"
      /\ \A b \in DOMAIN txn : b # a => txn'[b] = txn[b]
  BY DEF SetFate, TypeOK
<1>2. JobsOK' /\ StagesOK'
  BY <1>1 DEF TablesOK, JobsOK, StagesOK, StageFates, workerVars
<1>3. DeliveriesOK' /\ AttemptsOK'
  BY <1>1 DEF TablesOK, DeliveriesOK, AttemptsOK, Live, MayRefer, Committed
<1>4. WorkersOK'
  BY <1>1 DEF TablesOK, WorkersOK, DeliveriesOK, MayRefer, Committed, workerVars
<1> QED
  BY <1>2, <1>3, <1>4 DEF TablesOK

-----------------------------------------------------------------------------
(* Type correctness.                                                       *)

LEMMA SeqWider ==
  ASSUME NEW S, NEW T, S \subseteq T, NEW s \in Seq(S)
  PROVE  s \in Seq(T)
  OBVIOUS

LEMMA FrontType ==
  ASSUME NEW S, NEW s \in Seq(S)
  PROVE  /\ Front(s) \in Seq(S)
         /\ Len(Front(s)) <= MaxEvents
         /\ Len(Front(s)) = IF Len(s) < MaxEvents THEN Len(s) ELSE MaxEvents
         /\ \A k \in DOMAIN s : k <= MaxEvents => k \in DOMAIN Front(s) /\ Front(s)[k] = s[k]
<1> DEFINE n == IF Len(s) < MaxEvents THEN Len(s) ELSE MaxEvents
<1>1. n \in 0 .. Len(s) /\ n <= MaxEvents /\ n \in Nat
  BY ConstantsAssumption
<1>2. SubSeq(s, 1, n) \in Seq(S) /\ Len(SubSeq(s, 1, n)) = n
      /\ \A k \in 1 .. n : SubSeq(s, 1, n)[k] = s[k]
  BY <1>1
<1> QED
  BY <1>1, <1>2, ConstantsAssumption DEF Front

LEMMA PushType ==
  ASSUME NEW S, deque \in Seq(S), NEW a \in S, Push(a)
  PROVE  /\ deque' \in Seq(S)
         /\ Len(deque') <= MaxEvents
         /\ deque'[1] = a /\ 1 \in DOMAIN deque'
         /\ Len(deque') = IF Len(deque) < MaxEvents THEN Len(deque) + 1 ELSE MaxEvents
         /\ \A k \in DOMAIN deque' : k # 1 => k - 1 \in DOMAIN deque /\ deque'[k] = deque[k - 1]
<1> DEFINE s == <<a>> \o deque
<1>1. /\ s \in Seq(S) /\ Len(s) = Len(deque) + 1 /\ s[1] = a
      /\ \A k \in DOMAIN deque : s[k + 1] = deque[k]
  OBVIOUS
<1>2. deque' = Front(s)
  BY DEF Push
<1> HIDE DEF s
<1>3. /\ deque' \in Seq(S)
      /\ Len(deque') = IF Len(s) < MaxEvents THEN Len(s) ELSE MaxEvents
      /\ \A k \in DOMAIN s : k <= MaxEvents => k \in DOMAIN deque' /\ deque'[k] = s[k]
  BY <1>1, <1>2, FrontType
<1>4. Len(deque) \in Nat /\ MaxEvents \in Nat /\ MaxEvents >= 1
  BY ConstantsAssumption
<1>5. Len(deque') = IF Len(deque) < MaxEvents THEN Len(deque) + 1 ELSE MaxEvents
  BY <1>1, <1>3, <1>4
<1>6. deque'[1] = a /\ 1 \in DOMAIN deque'
  BY <1>1, <1>3, <1>4
<1>7. ASSUME NEW k \in DOMAIN deque', k # 1
      PROVE  k - 1 \in DOMAIN deque /\ deque'[k] = deque[k - 1]
  <2>1. k \in 1 .. Len(deque') /\ k <= MaxEvents /\ k - 1 \in 1 .. Len(deque)
    BY <1>3, <1>4, <1>5, <1>7
  <2>2. k \in DOMAIN s /\ deque'[k] = s[k] /\ s[(k - 1) + 1] = deque[k - 1] /\ (k - 1) + 1 = k
    BY <1>1, <1>3, <2>1
  <2> QED
    BY <2>1, <2>2
<1> QED
  BY <1>3, <1>4, <1>5, <1>6, <1>7

\* Tables aside: what a worker's step leaves behind.
WorkersType ==
  /\ pc \in [Workers -> Storing \cup {"idle", "scan"}]
  /\ job \in [Workers -> 0 .. MaxAttempts]
  /\ ref \in [Workers -> 0 .. Len(sent)]
  /\ scan \in [Workers -> [want : 0 .. MaxAttempts, place : 0 .. MaxEvents + 1, mutated : BOOLEAN]]
  /\ reply \in [Workers -> Replies]

TablesType ==
  /\ txn \in Seq(Fates)
  /\ Len(txn) = Len(sent)
  /\ DOMAIN deliveries \subseteq DOMAIN sent
  /\ \A d \in DOMAIN deliveries : deliveries[d] \in Identities
  /\ DOMAIN attempts \subseteq DOMAIN sent
  /\ \A a \in DOMAIN attempts : attempts[a] \in DOMAIN sent

RestType ==
  /\ sent \in Seq(Identities)
  /\ Len(sent) <= MaxAttempts
  /\ deque \in Seq(DOMAIN sent)
  /\ Len(deque) <= MaxEvents
  /\ pushed \in Seq(DOMAIN sent)
  /\ acked \subseteq DOMAIN sent

LEMMA TypeParts ==
  /\ TypeOK <=> WorkersType /\ TablesType /\ RestType
  /\ TypeOK' <=> WorkersType' /\ TablesType' /\ RestType'
  BY DEF TypeOK, WorkersType, TablesType, RestType

LEMMA FinishType ==
  ASSUME WorkersType, NEW w \in Workers, NEW rep \in Replies, Finish(w, rep), UNCHANGED sent, Len(sent) \in Nat
  PROVE  WorkersType'
  BY ConstantsAssumption DEF WorkersType, Finish, Goto, NoScan

LEMMA StayType ==
  ASSUME WorkersType, NEW w \in Workers, NEW label \in Storing, Stay(w, label), UNCHANGED sent,
         ref' \in [Workers -> 0 .. Len(sent)]
  PROVE  WorkersType'
  BY DEF WorkersType, Stay, Goto

LEMMA FateType ==
  ASSUME TablesType, NEW a \in DOMAIN txn, NEW fate \in Fates, SetFate(a, fate)
  PROVE  txn' \in Seq(Fates) /\ Len(txn') = Len(txn)
  BY DEF TablesType, SetFate

LEMMA RollBackType ==
  ASSUME TablesType, NEW a \in DOMAIN txn, RollBack(a), UNCHANGED sent
  PROVE  TablesType'
<1>1. txn' \in Seq(Fates) /\ Len(txn') = Len(txn)
  BY FateType DEF RollBack, Fates
<1> QED
  BY <1>1 DEF TablesType, RollBack

\* A step of an open transaction, which stores no webhook and answers none.
LEMMA StoreStepType ==
  ASSUME TypeOK, TablesOK, NEW w \in Workers,
         Connect(w) \/ InsertDelivery(w) \/ SelectDelivery(w) \/ InsertAttempt(w) \/ Commit(w)
  PROVE  TypeOK'
<1> USE TypeParts
<1>1. /\ pc[w] \in Storing /\ UNCHANGED <<sent, deque, pushed, acked>>
      /\ job[w] \in DOMAIN sent /\ DOMAIN txn = DOMAIN sent /\ Len(sent) \in Nat
      /\ DOMAIN sent = 1 .. Len(sent)
  BY JobFacts DEF Connect, InsertDelivery, InsertRow, SelectDelivery, InsertAttempt, Commit, Storing,
    InTransaction, RestType
<1>2. RestType'
  BY <1>1 DEF RestType
<1>3. CASE Connect(w)
  <2>1. WorkersType'
    BY <1>1, <1>3, StayType DEF Connect, WorkersType, Storing, InTransaction
  <2>2. TablesType'
    BY <1>1, <1>3, FateType DEF Connect, TablesType, Fates
  <2> QED
    BY <2>1, <2>2, <1>2
<1>4. CASE InsertDelivery(w)
  <2>1. CASE InsertRow(w)
    <3>1. WorkersType'
      BY <1>1, <2>1, StayType DEF InsertRow, WorkersType, Storing, InTransaction
    <3>2. TablesType'
      <4>1. sent[job[w]] \in Identities
        BY <1>1 DEF RestType
      <4> QED
        BY <1>1, <1>4, <2>1, <4>1 DEF InsertDelivery, InsertRow, TablesType
    <3> QED
      BY <3>1, <3>2, <1>2
  <2>2. CASE Stay(w, "select") /\ UNCHANGED <<ref, deliveries>>
    <3>1. WorkersType'
      BY <1>1, <2>2, StayType DEF WorkersType, Storing, InTransaction
    <3>2. TablesType'
      BY <1>1, <1>4, <2>2 DEF InsertDelivery, TablesType
    <3> QED
      BY <3>1, <3>2, <1>2
  <2> QED
    BY <1>4, <2>1, <2>2 DEF InsertDelivery
<1>5. CASE SelectDelivery(w)
  <2>1. PICK d \in Selected(sent[job[w]]) : ref' = [ref EXCEPT ![w] = d]
    BY <1>5 DEF SelectDelivery
  <2>2. d \in 0 .. Len(sent)
    BY <1>1, <2>1 DEF Selected, RowsOf, TablesType
  <2>3. WorkersType'
    BY <1>1, <1>5, <2>1, <2>2, StayType DEF SelectDelivery, WorkersType, Storing, InTransaction
  <2>4. TablesType'
    BY <1>1, <1>5 DEF SelectDelivery, TablesType, tables
  <2> QED
    BY <2>3, <2>4, <1>2
<1>6. CASE InsertAttempt(w)
  <2>1. ref[w] \in DOMAIN sent
    BY <1>6 DEF InsertAttempt, TablesOK, WorkersOK, MayRefer, TablesType
  <2>2. WorkersType'
    BY <1>1, <1>6, StayType DEF InsertAttempt, WorkersType, Storing, InTransaction
  <2>3. TablesType'
    BY <1>1, <1>6, <2>1 DEF InsertAttempt, TablesType
  <2> QED
    BY <2>2, <2>3, <1>2
<1>7. CASE Commit(w)
  <2>1. WorkersType'
    BY <1>1, <1>7, StayType DEF Commit, WorkersType, Storing, InTransaction
  <2>2. TablesType'
    BY <1>1, <1>7, FateType DEF Commit, TablesType, Fates
  <2> QED
    BY <2>1, <2>2, <1>2
<1> QED
  BY <1>3, <1>4, <1>5, <1>6, <1>7

LEMMA IngestType ==
  ASSUME TypeOK, NEW w \in Workers, Ingest(w)
  PROVE  TypeOK'
<1> USE TypeParts
<1>1. PICK i \in Identities : sent' = Append(sent, i)
  BY DEF Ingest
<1>2. /\ sent' \in Seq(Identities) /\ Len(sent') = Len(sent) + 1 /\ Len(sent) \in Nat
      /\ DOMAIN sent \subseteq DOMAIN sent'
      /\ Len(sent') <= MaxAttempts /\ MaxAttempts \in Nat
  BY <1>1, ConstantsAssumption DEF Ingest, RestType
<1>3. WorkersType'
  BY <1>2 DEF Ingest, Goto, WorkersType, Storing, Replies
<1>4. txn' \in Seq(Fates) /\ Len(txn') = Len(txn) + 1
  BY DEF Ingest, TablesType, Fates
<1>5. TablesType'
  BY <1>2, <1>4 DEF Ingest, TablesType
<1>6. deque' \in Seq(DOMAIN sent')
  BY <1>2, SeqWider DEF Ingest, RestType
<1>7. RestType'
  BY <1>2, <1>6 DEF Ingest, RestType
<1> QED
  BY <1>3, <1>5, <1>7

LEMMA AddToMemoryType ==
  ASSUME TypeOK, TablesOK, NEW w \in Workers, AddToMemory(w)
  PROVE  TypeOK'
<1> USE TypeParts
<1>1. job[w] \in DOMAIN sent /\ UNCHANGED <<sent, tables>>
  BY JobFacts DEF AddToMemory, Storing
<1>2. WorkersType'
  <2> DEFINE Scans == [want : 0 .. MaxAttempts, place : 0 .. MaxEvents + 1, mutated : BOOLEAN]
  <2>1. \A v \in Workers : scan[v] \in Scans /\ [scan[v] EXCEPT !.mutated = TRUE] \in Scans
    BY DEF WorkersType
  <2>2. scan' \in [Workers -> Scans]
    <3> HIDE DEF Scans
    <3> QED
      BY <2>1 DEF AddToMemory
  <2>3. /\ pc' \in [Workers -> Storing \cup {"idle", "scan"}]
        /\ job' \in [Workers -> 0 .. MaxAttempts]
        /\ reply' \in [Workers -> Replies]
    BY ConstantsAssumption DEF AddToMemory, WorkersType, Replies
  <2> QED
    BY <1>1, <2>2, <2>3 DEF AddToMemory, WorkersType
<1>3. TablesType'
  BY <1>1 DEF TablesType, tables
<1>4. deque' \in Seq(DOMAIN sent) /\ Len(deque') <= MaxEvents
  BY <1>1, PushType DEF AddToMemory, RestType
<1>5. RestType'
  BY <1>1, <1>4 DEF AddToMemory, RestType
<1> QED
  BY <1>2, <1>3, <1>5

LEMMA LookupType ==
  ASSUME TypeOK, NEW w \in Workers, StartLookup(w) \/ Lookup(w)
  PROVE  TypeOK'
<1> USE TypeParts
<1>1. /\ TablesType' /\ RestType' /\ UNCHANGED sent /\ Len(sent) \in Nat
  BY DEF StartLookup, Lookup, TablesType, RestType, tables
<1>2. CASE StartLookup(w)
  BY <1>1, <1>2, ConstantsAssumption DEF StartLookup, Goto, WorkersType, Ids, Replies
<1>3. CASE \E rep \in Replies : Finish(w, rep)
  BY <1>1, <1>3, FinishType
<1>4. CASE /\ scan[w].place <= Len(deque)
           /\ scan' = [scan EXCEPT ![w].place = scan[w].place + 1]
           /\ UNCHANGED <<pc, job, ref, reply>>
  <2> DEFINE Scans == [want : 0 .. MaxAttempts, place : 0 .. MaxEvents + 1, mutated : BOOLEAN]
  <2>1. /\ scan[w] \in Scans /\ scan[w].place \in Nat /\ scan[w].place + 1 <= MaxEvents + 1
    BY <1>4, ConstantsAssumption DEF WorkersType, RestType
  <2>2. [scan[w] EXCEPT !.place = scan[w].place + 1] \in Scans
    BY <2>1, ConstantsAssumption
  <2>3. scan' = [scan EXCEPT ![w] = [scan[w] EXCEPT !.place = scan[w].place + 1]]
    BY <1>4
  <2> QED
    BY <1>1, <1>4, <2>2, <2>3 DEF WorkersType
<1> QED
  BY <1>1, <1>2, <1>3, <1>4 DEF Lookup, ScanStep, LookupInPostgres, Replies

LEMMA EndsType ==
  ASSUME TypeOK, TablesOK, NEW w \in Workers,
         Refuse(w) \/ ConnectFails(w) \/ Acknowledge(w) \/ CommitRefused(w) \/ Fails(w)
  PROVE  TypeOK'
<1> USE TypeParts
<1>1. UNCHANGED <<sent, deque, pushed>> /\ Len(sent) \in Nat
  BY DEF Refuse, ConnectFails, Acknowledge, CommitRefused, Fails, RestType
<1>2. \E rep \in Replies : Finish(w, rep)
  BY DEF Refuse, ConnectFails, Acknowledge, CommitRefused, Fails, Replies
<1>3. WorkersType'
  BY <1>1, <1>2, FinishType
<1>4. CASE RollBack(job[w]) /\ pc[w] \in InTransaction /\ UNCHANGED acked
  <2>1. job[w] \in DOMAIN txn
    BY <1>4, JobFacts DEF Storing
  <2> QED
    BY <1>1, <1>3, <1>4, <2>1, RollBackType DEF RestType
<1>5. CASE UNCHANGED tables
  <2>1. acked' = acked \/ (pc[w] = "committing" /\ acked' = acked \cup {job[w]})
    BY DEF Refuse, ConnectFails, Acknowledge, CommitRefused, Fails
  <2>2. RestType'
    BY <1>1, <2>1, JobFacts DEF RestType, Storing, InTransaction
  <2> QED
    BY <1>1, <1>3, <1>5, <2>2 DEF TablesType, tables
<1> QED
  BY <1>4, <1>5 DEF Refuse, ConnectFails, Acknowledge, CommitRefused, Fails

LEMMA ServerType ==
  ASSUME TypeOK, NEW a \in DOMAIN txn, ServerCommits(a) \/ ServerDrops(a)
  PROVE  TypeOK'
<1> USE TypeParts
<1>1. UNCHANGED <<workerVars, sent, deque, pushed, acked>>
  BY DEF ServerCommits, ServerDrops
<1>2. CASE RollBack(a)
  BY <1>1, <1>2, RollBackType DEF WorkersType, RestType, workerVars
<1>3. CASE SetFate(a, "committed") /\ UNCHANGED <<deliveries, attempts>>
  <2>1. txn' \in Seq(Fates) /\ Len(txn') = Len(txn)
    BY <1>3, FateType DEF Fates
  <2> QED
    BY <1>1, <1>3, <2>1 DEF WorkersType, TablesType, RestType, workerVars
<1> QED
  BY <1>2, <1>3 DEF ServerCommits, ServerDrops

LEMMA RestartType ==
  ASSUME TypeOK, Restart
  PROVE  TypeOK'
<1> USE TypeParts
<1>1. WorkersType'
  BY ConstantsAssumption DEF Restart, WorkersType, NoScan, RestType, Replies
<1>2. TablesType' /\ RestType'
  BY ConstantsAssumption DEF Restart, TablesType, RestType, tables
<1> QED
  BY <1>1, <1>2

-----------------------------------------------------------------------------
(* Every step keeps the invariant.                                         *)

\* In which kinds the steps fall.
LEMMA StepKinds ==
  ASSUME TypeOK, TablesOK, Next
  PROVE  \/ Quiet
         \/ \E a \in DOMAIN txn : Aborts(a)
         \/ \E a \in DOMAIN txn : /\ txn[a] = "commit" /\ SetFate(a, "committed")
                                  /\ UNCHANGED <<deliveries, attempts, workerVars, sent>>
         \/ \E w \in Workers : \/ Ingest(w) \/ Connect(w) \/ InsertDelivery(w)
                               \/ SelectDelivery(w) \/ InsertAttempt(w) \/ Commit(w)
<1>1. ASSUME NEW w \in Workers, NEW rep \in Replies, Finish(w, rep), UNCHANGED <<sent, tables>>
      PROVE  Quiet
  BY <1>1 DEF Finish, Goto, Quiet, TypeOK, Storing, InTransaction
<1>2. ASSUME NEW w \in Workers,
             Refuse(w) \/ ConnectFails(w) \/ Acknowledge(w) \/ CommitRefused(w)
      PROVE  Quiet
  BY <1>1, <1>2 DEF Refuse, ConnectFails, Acknowledge, CommitRefused, Replies
<1>3. ASSUME NEW w \in Workers, StartLookup(w) \/ Lookup(w)
      PROVE  Quiet
  <2>1. CASE StartLookup(w)
    <3>1. pc[w] \notin Storing /\ pc' = [pc EXCEPT ![w] = "scan"]
      BY <2>1 DEF StartLookup, Goto, Busy
    <3> QED
      BY <2>1, <3>1 DEF StartLookup, Quiet, TablesOK, JobsOK, TypeOK, Storing, InTransaction
  <2>2. CASE Lookup(w)
    <3>1. \/ \E rep \in Replies : Finish(w, rep)
          \/ UNCHANGED <<pc, job, ref>>
      BY <2>2 DEF Lookup, ScanStep, LookupInPostgres, Replies
    <3> QED
      BY <1>1, <2>2, <3>1 DEF Lookup, Quiet, tables
  <2> QED
    BY <1>3, <2>1, <2>2
<1>4. ASSUME NEW w \in Workers, AddToMemory(w)
      PROVE  Quiet
  BY <1>4 DEF AddToMemory, Quiet, TypeOK, Storing, InTransaction
<1>5. ASSUME NEW w \in Workers, Fails(w)
      PROVE  Quiet \/ \E a \in DOMAIN txn : Aborts(a)
  <2>1. Finish(w, "unavailable") /\ UNCHANGED sent
    BY <1>5 DEF Fails
  <2>2. CASE UNCHANGED tables
    BY <1>1, <2>1, <2>2 DEF Replies
  <2>3. CASE pc[w] # "committing" /\ RollBack(job[w])
    <3>1. /\ job[w] \in DOMAIN txn /\ txn[job[w]] = "open"
          /\ \A v \in Workers : v # w => job[v] # job[w]
      BY <1>5, <2>3, JobFacts DEF Fails, Storing, InTransaction
    <3>2. Aborts(job[w])
      BY <2>1, <2>3, <3>1 DEF Aborts, Finish, Goto, TypeOK, Storing, InTransaction
    <3> QED
      BY <3>1, <3>2
  <2> QED
    BY <1>5, <2>2, <2>3 DEF Fails
<1>6. ASSUME NEW a \in DOMAIN txn, ServerCommits(a) \/ ServerDrops(a)
      PROVE  \/ Aborts(a)
             \/ /\ txn[a] = "commit" /\ SetFate(a, "committed")
                /\ UNCHANGED <<deliveries, attempts, workerVars, sent>>
  <2>1. \A w \in Workers : job[w] = a /\ txn[a] = "commit" => pc[w] = "committing"
    <3> SUFFICES ASSUME NEW w \in Workers, job[w] = a, txn[a] = "commit"
                 PROVE  pc[w] = "committing"
      OBVIOUS
    <3>1. pc[w] \in Storing
      BY DEF TablesOK, JobsOK, TypeOK
    <3> QED
      BY <3>1, JobFacts DEF Storing, InTransaction
  <2> QED
    BY <1>6, <2>1 DEF ServerCommits, ServerDrops, Aborts, workerVars
<1>7. ASSUME Restart
      PROVE  Quiet
  BY <1>7 DEF Restart, Quiet, Storing, InTransaction
<1> QED
  BY <1>2, <1>3, <1>4, <1>5, <1>6, <1>7 DEF Next, Request, StoreStep

LEMMA TablesKept ==
  ASSUME TypeOK, TablesOK, Next
  PROVE  TablesOK'
  BY StepKinds, QuietKeeps, AbortsKeeps, CommittedKeeps, IngestKeeps, ConnectKeeps, InsertDeliveryKeeps,
     SelectDeliveryKeeps, InsertAttemptKeeps, CommitKeeps

LEMMA TypeKept ==
  ASSUME TypeOK, TablesOK, Next
  PROVE  TypeOK'
  BY StoreStepType, IngestType, AddToMemoryType, LookupType, EndsType, ServerType, RestartType
     DEF Next, Request, StoreStep

\* What is committed stays so, with its row.
LEMMA RowsKept ==
  ASSUME TypeOK, TablesOK, Next
  PROVE  Rows \subseteq Rows'
<1>1. \A a \in DOMAIN txn : a \in DOMAIN attempts /\ Committed(a) => a \in DOMAIN attempts' /\ Committed(a)'
  <2>1. CASE Quiet
    BY <2>1 DEF Quiet, tables, Committed
  <2>2. ASSUME NEW a \in DOMAIN txn, Aborts(a)
        PROVE  <1>1!:
    BY <2>2 DEF Aborts, RollBack, SetFate, Committed, TypeOK
  <2>3. ASSUME NEW a \in DOMAIN txn, SetFate(a, "committed"), UNCHANGED attempts
        PROVE  <1>1!:
    BY <2>3 DEF SetFate, Committed, TypeOK
  <2>4. ASSUME NEW w \in Workers, Ingest(w)
        PROVE  <1>1!:
    BY <2>4 DEF Ingest, Committed, TypeOK
  <2>5. ASSUME NEW w \in Workers,
               Connect(w) \/ InsertDelivery(w) \/ SelectDelivery(w) \/ InsertAttempt(w) \/ Commit(w)
        PROVE  <1>1!:
    <3>1. \A a \in DOMAIN txn : Committed(a) => a # job[w] \/ UNCHANGED txn
      BY <2>5, JobFacts DEF Connect, Commit, InsertDelivery, SelectDelivery, InsertAttempt, tables,
        Committed, Storing, InTransaction
    <3>2. UNCHANGED txn \/ (\E fate \in Fates : SetFate(job[w], fate))
      BY <2>5 DEF Connect, Commit, InsertDelivery, SelectDelivery, InsertAttempt, tables, Fates
    <3>3. DOMAIN attempts \subseteq DOMAIN attempts'
      BY <2>5 DEF Connect, Commit, InsertDelivery, SelectDelivery, InsertAttempt, tables
    <3> QED
      BY <3>1, <3>2, <3>3 DEF SetFate, Committed, TypeOK
  <2> QED
    BY StepKinds, <2>1, <2>2, <2>3, <2>4, <2>5
<1> QED
  BY <1>1 DEF Rows, TypeOK

\* A push keeps the newest, and drops the oldest when it drops one.
LEMMA PushNewest ==
  ASSUME TypeOK, NewestFirst, NEW a \in DOMAIN sent, Push(a), pushed' = Append(pushed, a)
  PROVE  NewestFirst'
<1>1. /\ deque \in Seq(DOMAIN sent) /\ pushed \in Seq(DOMAIN sent) /\ MaxEvents \in Nat \ {0}
      /\ Len(deque) \in Nat /\ Len(pushed) \in Nat
  BY ConstantsAssumption DEF TypeOK
<1>2. /\ Len(pushed') = Len(pushed) + 1 /\ pushed'[Len(pushed) + 1] = a
      /\ \A k \in 1 .. Len(pushed) : pushed'[k] = pushed[k]
  BY <1>1
<1>3. /\ deque' \in Seq(DOMAIN sent) /\ deque'[1] = a
      /\ Len(deque') = IF Len(deque) < MaxEvents THEN Len(deque) + 1 ELSE MaxEvents
      /\ \A k \in DOMAIN deque' : k # 1 => k - 1 \in DOMAIN deque /\ deque'[k] = deque[k - 1]
  BY <1>1, PushType
<1>4. Len(deque') = IF Len(pushed') < MaxEvents THEN Len(pushed') ELSE MaxEvents
  BY <1>1, <1>2, <1>3 DEF NewestFirst
<1>5. ASSUME NEW k \in DOMAIN deque'
      PROVE  deque'[k] = pushed'[Len(pushed') + 1 - k]
  <2>1. k \in Nat /\ k >= 1 /\ k <= Len(pushed')
    BY <1>1, <1>2, <1>3, <1>4
  <2>2. CASE k = 1
    BY <1>1, <1>2, <1>3, <2>2
  <2>3. CASE k # 1
    <3>1. k - 1 \in DOMAIN deque /\ deque'[k] = deque[k - 1]
      BY <1>3, <2>3
    <3>2. deque[k - 1] = pushed[Len(pushed) + 1 - (k - 1)]
      BY <3>1 DEF NewestFirst
    <3>3. Len(pushed) + 1 - (k - 1) = Len(pushed') + 1 - k
      BY <1>1, <1>2, <2>1
    <3>4. Len(pushed') + 1 - k \in 1 .. Len(pushed)
      BY <1>1, <1>2, <2>1, <2>3
    <3> QED
      BY <1>2, <3>1, <3>2, <3>3, <3>4
  <2> QED
    BY <2>2, <2>3
<1> QED
  BY <1>4, <1>5 DEF NewestFirst

\* Only an acknowledgement adds to what was acknowledged.
LEMMA AckedKept ==
  ASSUME TypeOK, TablesOK, AckedOK, Next
  PROVE  AckedOK'
<1>1. CASE Backend = "postgresql"
  <2>1. acked' \subseteq acked \cup Rows
    <3>1. ASSUME NEW w \in Workers, Acknowledge(w)
          PROVE  job[w] \in Rows
      <4>1. Committed(job[w]) /\ job[w] \in DOMAIN sent
        BY <3>1, JobFacts DEF Acknowledge, Storing, InTransaction
      <4> QED
        BY <4>1 DEF TablesOK, AttemptsOK, Rows, Committed
    <3>2. \/ acked' = acked
          \/ \E w \in Workers : Acknowledge(w) /\ acked' = acked \cup {job[w]}
      BY <1>1 DEF Next, Request, StoreStep, Refuse, Ingest, StartLookup, AddToMemory, Connect, InsertDelivery,
        SelectDelivery, InsertAttempt, Commit, Acknowledge, CommitRefused, Lookup, ConnectFails, Fails,
        ServerCommits, ServerDrops, Restart
    <3> QED
      BY <3>1, <3>2
  <2> QED
    BY <1>1, <2>1, RowsKept DEF AckedOK
<1>2. CASE Backend = "memory"
  <2>1. NewestFirst /\ AckedPushed
    BY <1>2 DEF AckedOK
  <2>2. \/ UNCHANGED <<acked, deque, pushed>>
        \/ \E w \in Workers : AddToMemory(w)
        \/ Restart
        \/ \E w \in Workers : Acknowledge(w)
    BY DEF Next, Request, StoreStep, Refuse, Ingest, StartLookup, Connect, InsertDelivery,
      SelectDelivery, InsertAttempt, Commit, CommitRefused, Lookup, ConnectFails, Fails,
      ServerCommits, ServerDrops
  <2>3. CASE UNCHANGED <<acked, deque, pushed>>
    BY <1>2, <2>1, <2>3 DEF AckedOK, NewestFirst, AckedPushed
  <2>4. ASSUME NEW w \in Workers, AddToMemory(w)
        PROVE  AckedOK'
    <3>1. /\ Push(job[w]) /\ pushed' = Append(pushed, job[w]) /\ acked' = acked \cup {job[w]}
          /\ job[w] \in DOMAIN sent
      BY <2>4, JobFacts DEF AddToMemory, Storing
    <3>2. NewestFirst'
      BY <2>1, <3>1, PushNewest
    <3>3. /\ pushed \in Seq(DOMAIN sent) /\ Len(pushed) \in Nat
          /\ DOMAIN pushed' = 1 .. Len(pushed) + 1 /\ pushed'[Len(pushed) + 1] = job[w]
          /\ \A k \in DOMAIN pushed : k \in DOMAIN pushed' /\ pushed'[k] = pushed[k]
      BY <3>1 DEF TypeOK
    <3>4. AckedPushed'
      <4>1. ASSUME NEW a \in acked
            PROVE  \E k \in DOMAIN pushed' : pushed'[k] = a
        BY <2>1, <3>3 DEF AckedPushed
      <4>2. \E k \in DOMAIN pushed' : pushed'[k] = job[w]
        BY <3>3
      <4> QED
        BY <3>1, <4>1, <4>2 DEF AckedPushed
    <3> QED
      BY <1>2, <3>2, <3>4 DEF AckedOK
  <2>5. CASE Restart
    <3>1. deque' = << >> /\ pushed' = << >> /\ acked' = {}
      BY <1>2, <2>5 DEF Restart
    <3> QED
      BY <1>2, <3>1, ConstantsAssumption DEF AckedOK, NewestFirst, AckedPushed
  <2>6. ASSUME NEW w \in Workers
        PROVE  ~Acknowledge(w)
    BY <1>2 DEF Acknowledge, TablesOK, JobsOK, InTransaction
  <2> QED
    BY <2>2, <2>3, <2>4, <2>5, <2>6
<1> QED
  BY <1>1, <1>2, ConstantsAssumption

LEMMA InvKept ==
  ASSUME Inv, [Next]_vars
  PROVE  Inv'
<1>1. CASE Next
  BY <1>1, TablesKept, TypeKept, AckedKept DEF Inv
<1>2. CASE UNCHANGED vars
  BY <1>2 DEF vars, Inv, TypeOK, TablesOK, JobsOK, StagesOK, DeliveriesOK, AttemptsOK, WorkersOK,
    AckedOK, NewestFirst, AckedPushed, Rows, Committed, Live, MayRefer
<1> QED
  BY <1>1, <1>2

LEMMA InvInit == Init => Inv
<1> SUFFICES ASSUME Init PROVE Inv
  OBVIOUS
<1>1. TypeOK
  BY ConstantsAssumption DEF Init, TypeOK, NoScan, Storing, InTransaction, Replies
<1>2. TablesOK
  BY DEF Init, TablesOK, JobsOK, StagesOK, DeliveriesOK, AttemptsOK, WorkersOK, Storing, InTransaction
<1>3. AckedOK
  BY ConstantsAssumption DEF Init, AckedOK, NewestFirst, AckedPushed
<1> QED
  BY <1>1, <1>2, <1>3 DEF Inv

\* All that holds of every reachable state, for the theorems below.
THEOREM Invariance == Spec => []Inv
  BY InvInit, InvKept, PTL DEF Spec

-----------------------------------------------------------------------------
(* The theorems.                                                           *)

\* Every reachable state is of the declared types.
THEOREM TypeCorrect == Spec => []TypeOK
<1>1. Inv => TypeOK
  BY DEF Inv
<1> QED
  BY <1>1, Invariance, PTL

\* PostgresDeliveryStore.add: the committed tables hold one row per delivery
\* identity, none without an attempt, and each attempt refers to the row of the
\* identity its webhook carried.
THEOREM LedgerIsConsistent == Spec => []LedgerConsistent
<1>1. Inv => LedgerConsistent
  <2> SUFFICES ASSUME Inv
               PROVE  LedgerConsistent
    OBVIOUS
  <2>1. \A d \in Logical : d \in Rows /\ attempts[d] = d
    BY DEF Inv, TablesOK, DeliveriesOK, AttemptsOK, MayRefer, Logical, Rows, Committed
  <2>2. \A a \in Rows : attempts[a] \in Logical /\ deliveries[attempts[a]] = sent[a]
    BY DEF Inv, TablesOK, AttemptsOK, MayRefer, Logical, Rows
  <2>3. \A d, e \in Logical : deliveries[d] = deliveries[e] => d = e
    BY DEF Inv, TablesOK, DeliveriesOK, Logical
  <2> QED
    BY <2>1, <2>2, <2>3 DEF LedgerConsistent
<1> QED
  BY <1>1, Invariance, PTL

\* The second statement of add finds exactly one row after a conflict, so that
\* scalar_one() does not raise.
THEOREM SelectAlwaysFinds == Spec => []SelectFindsRow
<1>1. Inv => SelectFindsRow
  <2> SUFFICES ASSUME Inv, NEW w \in Workers, pc[w] = "select"
               PROVE  Cardinality(Selected(sent[job[w]])) = 1
    BY DEF SelectFindsRow
  <2>1. PICK d \in DOMAIN deliveries : Committed(d) /\ deliveries[d] = sent[job[w]]
    BY DEF Inv, TablesOK, WorkersOK
  <2>2. Selected(sent[job[w]]) = {d}
    BY <2>1 DEF Selected, RowsOf, Inv, TablesOK, DeliveriesOK
  <2> QED
    BY <2>2, FS_Singleton
<1> QED
  BY <1>1, Invariance, PTL

\* A 200 means that the attempt is on record: committed for good with PostgreSQL,
\* and in the deque until at least MAX_EVENTS others were pushed after it or the
\* process restarted with the memory store (github_webhook, after add).
THEOREM AcknowledgedIsRecorded == Spec => []AckedIsRecorded
<1>1. Inv => AckedIsRecorded
  <2> SUFFICES ASSUME Inv, NEW a \in acked
               PROVE  OnRecord(a) \/ (Backend = "memory" /\ Outlived(a))
    BY DEF AckedIsRecorded
  <2>1. CASE Backend = "postgresql"
    BY <2>1 DEF Inv, AckedOK, OnRecord
  <2>2. CASE Backend = "memory"
    <3>1. NewestFirst /\ AckedPushed
      BY <2>2 DEF Inv, AckedOK
    <3>2. /\ deque \in Seq(DOMAIN sent) /\ pushed \in Seq(DOMAIN sent) /\ MaxEvents \in Nat
          /\ Len(deque) \in Nat /\ Len(pushed) \in Nat
      BY ConstantsAssumption DEF Inv, TypeOK
    <3>3. PICK k \in 1 .. Len(pushed) : pushed[k] = a
      BY <3>1, <3>2 DEF AckedPushed
    <3>4. CASE Len(pushed) >= k + MaxEvents
      BY <2>2, <3>2, <3>3, <3>4 DEF Outlived
    <3>5. CASE Len(pushed) < k + MaxEvents
      <4> DEFINE j == Len(pushed) + 1 - k
      <4>1. j \in 1 .. Len(deque) /\ Len(pushed) + 1 - j = k
        BY <3>1, <3>2, <3>5 DEF NewestFirst
      <4> HIDE DEF j
      <4>2. deque[j] = a
        BY <3>1, <3>2, <3>3, <4>1 DEF NewestFirst
      <4> QED
        BY <2>2, <3>2, <4>1, <4>2 DEF OnRecord
    <3> QED
      BY <3>2, <3>4, <3>5
  <2> QED
    BY <2>1, <2>2, ConstantsAssumption DEF Inv
<1> QED
  BY <1>1, Invariance, PTL

-----------------------------------------------------------------------------
(* DeliveryLedger implements LedgerContract.                               *)

Recorded == {<<a, deliveries[attempts[a]]>> : a \in Rows}

\* What is recorded is what was sent, of the attempts in Rows.
LEMMA RecordedIsSent ==
  ASSUME TypeOK, TablesOK
  PROVE  /\ Recorded = {<<a, sent[a]>> : a \in Rows}
         /\ {deliveries[d] : d \in Logical} = {sent[a] : a \in Rows}
<1>1. \A a \in Rows : attempts[a] \in Logical /\ deliveries[attempts[a]] = sent[a]
  BY DEF TablesOK, AttemptsOK, MayRefer, Logical, Rows
<1>2. \A d \in Logical : d \in Rows /\ deliveries[d] = sent[d]
  BY DEF TablesOK, DeliveriesOK, AttemptsOK, Logical, Rows, Committed
<1> QED
  BY <1>1, <1>2 DEF Recorded

Maps ==
  /\ Recorded = {<<a, sent[a]>> : a \in Rows}
  /\ {deliveries[d] : d \in Logical} = {sent[a] : a \in Rows}

LEMMA InvMaps == Inv' => Maps'
<1>1. Inv => Maps
  BY RecordedIsSent DEF Inv, Maps
<1> QED
  BY <1>1, PTL

LEMMA InitMaps == Init => Contract!Init
  BY DEF Init, Contract!Init, Rows, Logical

\* Which steps change what the contract sees.
LEMMA VisibleSteps ==
  ASSUME TypeOK, TablesOK, Backend = "postgresql", Next
  PROVE  \/ sent' = sent /\ acked' = acked /\ Rows' = Rows
         \/ \E w \in Workers : Ingest(w) /\ Rows' = Rows
         \/ \E w \in Workers : Acknowledge(w) /\ Rows' = Rows
         \/ \E a \in DOMAIN txn : /\ txn[a] = "commit" /\ UNCHANGED <<sent, acked>>
                                  /\ Rows' = Rows \cup {a}
<1>1. ASSUME NEW w \in Workers, Ingest(w)
      PROVE  Rows' = Rows
  <2>1. attempts' = attempts /\ \A a \in DOMAIN txn : txn'[a] = txn[a]
    BY <1>1 DEF Ingest, TypeOK
  <2>2. DOMAIN attempts \subseteq DOMAIN txn
    BY DEF TypeOK
  <2> QED
    BY <2>1, <2>2 DEF Rows, Committed
<1>2. CASE \E w \in Workers : Acknowledge(w)
  BY <1>2 DEF Acknowledge, Rows, Committed, tables
<1>3. ASSUME NEW a \in DOMAIN txn, ServerCommits(a)
      PROVE  \/ sent' = sent /\ acked' = acked /\ Rows' = Rows
             \/ txn[a] = "commit" /\ UNCHANGED <<sent, acked>> /\ Rows' = Rows \cup {a}
  <2>1. CASE SetFate(a, "committed") /\ UNCHANGED <<deliveries, attempts>>
    <3>1. txn[a] = "commit" /\ a \in DOMAIN sent
      BY <1>3 DEF ServerCommits, TypeOK
    <3>2. a \in DOMAIN attempts
      BY <3>1 DEF TablesOK, AttemptsOK
    <3> QED
      BY <1>3, <2>1, <3>1, <3>2 DEF ServerCommits, SetFate, Rows, Committed, TypeOK
  <2>2. CASE RollBack(a)
    BY <1>3, <2>2 DEF ServerCommits, RollBack, SetFate, Rows, Committed, TypeOK
  <2> QED
    BY <1>3, <2>1, <2>2 DEF ServerCommits
<1>4. ASSUME NEW a \in DOMAIN txn, ServerDrops(a)
      PROVE  sent' = sent /\ acked' = acked /\ Rows' = Rows
  BY <1>4 DEF ServerDrops, RollBack, SetFate, Rows, Committed, TypeOK
<1>5. ASSUME NEW w \in Workers, Fails(w)
      PROVE  sent' = sent /\ acked' = acked /\ Rows' = Rows
  <2>1. CASE UNCHANGED tables
    BY <1>5, <2>1 DEF Fails, Rows, Committed, tables
  <2>2. CASE pc[w] # "committing" /\ RollBack(job[w])
    <3>1. job[w] \in DOMAIN txn /\ txn[job[w]] = "open"
      BY <1>5, <2>2, JobFacts DEF Fails, Storing, InTransaction
    <3> QED
      BY <1>5, <2>2, <3>1 DEF Fails, RollBack, SetFate, Rows, Committed, TypeOK
  <2> QED
    BY <1>5, <2>1, <2>2 DEF Fails
<1>6. ASSUME NEW w \in Workers,
             Connect(w) \/ InsertDelivery(w) \/ SelectDelivery(w) \/ InsertAttempt(w) \/ Commit(w)
      PROVE  sent' = sent /\ acked' = acked /\ Rows' = Rows
  <2>1. /\ job[w] \in DOMAIN txn /\ ~Committed(job[w]) /\ UNCHANGED <<sent, acked>>
    BY <1>6, JobFacts DEF Connect, InsertDelivery, InsertRow, SelectDelivery, InsertAttempt, Commit, Committed,
      Storing, InTransaction
  <2>2. \A a \in DOMAIN txn : Committed(a)' <=> Committed(a)
    BY <1>6, <2>1 DEF Connect, InsertDelivery, SelectDelivery, InsertAttempt, Commit, Committed,
      SetFate, tables, TypeOK
  <2>3. DOMAIN attempts' = DOMAIN attempts \/ DOMAIN attempts' = DOMAIN attempts \cup {job[w]}
    BY <1>6 DEF Connect, InsertDelivery, SelectDelivery, InsertAttempt, Commit, tables
  <2> QED
    BY <2>1, <2>2, <2>3 DEF Rows, TypeOK
<1>7. ASSUME NEW w \in Workers,
             Refuse(w) \/ StartLookup(w) \/ Lookup(w) \/ ConnectFails(w) \/ CommitRefused(w)
      PROVE  sent' = sent /\ acked' = acked /\ Rows' = Rows
  BY <1>7 DEF Refuse, StartLookup, Lookup, ConnectFails, CommitRefused, Rows, Committed, tables
<1>8. CASE Restart
  BY <1>8 DEF Restart, Rows, Committed, tables
<1>9. \A w \in Workers : ~AddToMemory(w)
  BY DEF AddToMemory
<1> QED
  BY <1>1, <1>2, <1>3, <1>4, <1>5, <1>6, <1>7, <1>8, <1>9 DEF Next, Request, StoreStep

\* Each step is one of the contract's or changes nothing it sees.
LEMMA StepMaps ==
  ASSUME Backend = "postgresql", Inv, Inv', [Next]_vars
  PROVE  [Contract!Next]_(Contract!contractVars)
<1> DEFINE received == {<<a, sent[a]>> : a \in DOMAIN sent}
           recorded == {<<a, deliveries[attempts[a]]>> : a \in Rows}
           logical == {deliveries[d] : d \in Logical}
<1>1. /\ recorded = {<<a, sent[a]>> : a \in Rows} /\ logical = {sent[a] : a \in Rows}
      /\ recorded' = {<<a, sent'[a]>> : a \in Rows'} /\ logical' = {sent'[a] : a \in Rows'}
  BY RecordedIsSent, InvMaps DEF Inv, Maps, Recorded
<1>2. /\ Rows \subseteq DOMAIN sent /\ DOMAIN sent = 1 .. Len(sent) /\ Len(sent) \in Nat
      /\ DOMAIN sent \subseteq Ids /\ \A a \in DOMAIN sent : sent[a] \in Identities
  BY ConstantsAssumption DEF Inv, TypeOK, Rows, Ids
<1>3. CASE sent' = sent /\ acked' = acked /\ Rows' = Rows
  <2>1. received' = received /\ recorded' = recorded /\ logical' = logical
    BY <1>1, <1>3
  <2> QED
    BY <1>3, <2>1 DEF Contract!contractVars
<1>4. ASSUME NEW w \in Workers, Ingest(w), Rows' = Rows
      PROVE  Contract!Next
  <2>1. PICK i \in Identities : sent' = Append(sent, i)
    BY <1>4 DEF Ingest
  <2>2. /\ DOMAIN sent' = DOMAIN sent \cup {Len(sent) + 1}
        /\ \A a \in DOMAIN sent : sent'[a] = sent[a]
        /\ sent'[Len(sent) + 1] = i /\ Len(sent) + 1 \in Ids /\ acked' = acked
        /\ Len(sent) + 1 \notin DOMAIN sent
    BY <1>2, <1>4, <2>1, ConstantsAssumption DEF Ingest, Ids, Inv, TypeOK
  <2>3. /\ received' = received \cup {<<Len(sent) + 1, i>>}
        /\ recorded' = recorded /\ logical' = logical
        /\ \A p \in received : p[1] # Len(sent) + 1
    <3>1. received' = received \cup {<<Len(sent) + 1, i>>}
      BY <2>2
    <3>2. \A a \in Rows : sent'[a] = sent[a]
      BY <1>2, <2>2
    <3>3. recorded' = recorded
      BY <1>1, <1>4, <3>2
    <3>4. logical' = logical
      BY <1>1, <1>4, <3>2
    <3>5. \A p \in received : p[1] # Len(sent) + 1
      BY <2>2
    <3> QED
      BY <3>1, <3>3, <3>4, <3>5
  <2>4. Contract!Receive(Len(sent) + 1, i)
    BY <2>2, <2>3 DEF Contract!Receive
  <2> QED
    BY <2>2, <2>4 DEF Contract!Next
<1>5. ASSUME NEW w \in Workers, Acknowledge(w), Rows' = Rows
      PROVE  Contract!Next
  <2>1. /\ sent' = sent /\ acked' = acked \cup {job[w]}
        /\ job[w] \in Rows'
    <3>1. sent' = sent /\ acked' = acked \cup {job[w]}
      BY <1>5 DEF Acknowledge
    <3>2. Committed(job[w]) /\ job[w] \in DOMAIN sent
      BY <1>5, JobFacts DEF Acknowledge, Inv, Storing, InTransaction
    <3> QED
      BY <1>5, <3>1, <3>2 DEF Inv, TablesOK, AttemptsOK, Rows, Committed
  <2>2. /\ received' = received /\ recorded' = recorded /\ logical' = logical
        /\ <<job[w], sent[job[w]]>> \in recorded
        /\ job[w] \in Ids /\ sent[job[w]] \in Identities
    BY <1>1, <1>2, <1>5, <2>1
  <2>3. Contract!Acknowledge(job[w])
    BY <2>1, <2>2 DEF Contract!Acknowledge
  <2> QED
    BY <2>2, <2>3 DEF Contract!Next
<1>6. ASSUME NEW a \in DOMAIN txn, txn[a] = "commit", UNCHANGED <<sent, acked>>, Rows' = Rows \cup {a}
      PROVE  Contract!Next
  <2>1. a \in DOMAIN sent /\ a \notin Rows
    BY <1>6 DEF Inv, TypeOK, Rows, Committed
  <2>2. /\ received' = received /\ acked' = acked
        /\ recorded' = recorded \cup {<<a, sent[a]>>}
        /\ logical' = logical \cup {sent[a]}
        /\ <<a, sent[a]>> \in received /\ <<a, sent[a]>> \notin recorded
        /\ a \in Ids /\ sent[a] \in Identities
    BY <1>1, <1>2, <1>6, <2>1
  <2>3. PICK i \in Identities : i = sent[a]
    BY <2>2
  <2>4. Contract!Record(a, i)
    BY <2>2, <2>3 DEF Contract!Record
  <2> QED
    BY <2>2, <2>4 DEF Contract!Next
<1>7. CASE UNCHANGED vars
  BY <1>3, <1>7 DEF vars, Rows, Committed
<1> QED
  BY <1>3, <1>4, <1>5, <1>6, <1>7, VisibleSteps DEF Inv

\* With PostgreSQL the transactions, their failures and their late commits
\* together record each attempt in one step, with its delivery, for good.
THEOREM ImplementsContract ==
  ASSUME Backend = "postgresql"
  PROVE  Spec => RecordsAtomically
<1>1. Init => Contract!Init
  BY InitMaps
<1>2. Inv /\ Inv' /\ [Next]_vars => [Contract!Next]_(Contract!contractVars)
  BY StepMaps
<1> QED
  BY <1>1, <1>2, Invariance, PTL DEF Spec, RecordsAtomically, Contract!Spec

-----------------------------------------------------------------------------
(* The lookups.                                                            *)

\* What a loop that nobody disturbed has passed is not what it looks for.
ScanOK(w) ==
  Backend = "memory" /\ pc[w] = "scan" /\ ~scan[w].mutated =>
    /\ scan[w].place # 0
    /\ \A k \in 1 .. Len(deque) : k < scan[w].place => deque[k] # scan[w].want

\* What a step may do to the loop of w.
Loop(w) ==
  \/ pc'[w] # "scan"
  \/ scan'[w].mutated
  \/ scan'[w].place = 1
  \/ deque' = deque /\ pc[w] = "scan" /\ scan'[w] = scan[w]
  \/ /\ deque' = deque /\ pc[w] = "scan" /\ ~scan[w].mutated
     /\ scan'[w].want = scan[w].want /\ scan'[w].place = scan[w].place + 1
     /\ deque[scan[w].place] # scan[w].want

LEMMA LoopKeeps ==
  ASSUME TypeOK, NEW w \in Workers, ScanOK(w), Loop(w)
  PROVE  ScanOK(w)'
<1>1. Len(deque) \in Nat /\ scan[w].place \in Nat
  BY ConstantsAssumption DEF TypeOK
<1>2. CASE pc'[w] # "scan" \/ scan'[w].mutated
  BY <1>2 DEF ScanOK
<1>3. CASE scan'[w].place = 1
  BY <1>3 DEF ScanOK
<1>4. CASE deque' = deque /\ pc[w] = "scan" /\ scan'[w] = scan[w]
  BY <1>4 DEF ScanOK
<1>5. CASE /\ deque' = deque /\ pc[w] = "scan" /\ ~scan[w].mutated
           /\ scan'[w].want = scan[w].want /\ scan'[w].place = scan[w].place + 1
           /\ deque[scan[w].place] # scan[w].want
  <2>1. \A k \in 1 .. Len(deque) : k < scan[w].place + 1 => k < scan[w].place \/ k = scan[w].place
    BY <1>1
  <2> QED
    BY <1>1, <1>5, <2>1 DEF ScanOK
<1> QED
  BY <1>2, <1>3, <1>4, <1>5 DEF Loop

LEMMA OwnLoop ==
  ASSUME TypeOK, NEW w \in Workers, NEW v \in Workers,
         pc' = [pc EXCEPT ![w] = pc'[w]], scan' = [scan EXCEPT ![w] = scan'[w]],
         deque' = deque, v # w
  PROVE  Loop(v)
  BY DEF TypeOK, Loop

LEMMA StepLoops ==
  ASSUME TypeOK, [Next]_vars, NEW v \in Workers
  PROVE  Loop(v)
<1>1. pc \in [Workers -> Storing \cup {"idle", "scan"}] /\ DOMAIN scan = Workers
  BY DEF TypeOK
<1>2. ASSUME NEW w \in Workers, NEW rep, Finish(w, rep), deque' = deque PROVE Loop(v)
  <2>1. pc' = [pc EXCEPT ![w] = "idle"] /\ scan' = [scan EXCEPT ![w] = NoScan]
    BY <1>2 DEF Finish, Goto
  <2> QED
    BY <1>1, <1>2, <2>1 DEF Loop
<1>3. ASSUME NEW w \in Workers, NEW label \in Storing, Goto(w, label), UNCHANGED <<scan, deque>>
      PROVE  Loop(v)
  <2>1. label # "scan"
    BY DEF Storing, InTransaction
  <2> QED
    BY <1>1, <1>3, <2>1 DEF Loop, Goto
<1>4. CASE UNCHANGED <<pc, scan, deque>>
  BY <1>1, <1>4 DEF Loop
<1>5. ASSUME NEW w \in Workers, AddToMemory(w) PROVE Loop(v)
  <2>1. pc[w] = "store" /\ pc' = [pc EXCEPT ![w] = "idle"]
    BY <1>5 DEF AddToMemory
  <2>2. scan'[v] = IF pc[v] = "scan" THEN [scan[v] EXCEPT !.mutated = TRUE] ELSE scan[v]
    BY <1>5 DEF AddToMemory
  <2>3. [scan[v] EXCEPT !.mutated = TRUE].mutated
    BY DEF TypeOK
  <2> QED
    BY <1>1, <2>1, <2>2, <2>3 DEF Loop
<1>6. ASSUME NEW w \in Workers, StartLookup(w) PROVE Loop(v)
  <2>1. PICK a \in Ids : scan' = [scan EXCEPT ![w] = [want |-> a, place |-> 1, mutated |-> FALSE]]
    BY <1>6 DEF StartLookup
  <2>2. pc' = [pc EXCEPT ![w] = "scan"] /\ deque' = deque
    BY <1>6 DEF StartLookup, Goto
  <2> QED
    BY <1>1, <2>1, <2>2 DEF Loop
<1>7. ASSUME NEW w \in Workers, Lookup(w) PROVE Loop(v)
  <2>1. pc[w] = "scan" /\ deque' = deque
    BY <1>7 DEF Lookup
  <2>2. CASE \E rep \in Replies : Finish(w, rep)
    BY <1>2, <2>1, <2>2
  <2>3. CASE /\ ~scan[w].mutated /\ deque[scan[w].place] # scan[w].want
             /\ scan' = [scan EXCEPT ![w].place = scan[w].place + 1]
             /\ UNCHANGED <<pc, job, ref, reply>>
    <3>1. CASE v = w
      <4>1. scan'[w] = [scan[w] EXCEPT !.place = scan[w].place + 1]
        BY <1>1, <2>3
      <4>2. scan'[w].want = scan[w].want /\ scan'[w].place = scan[w].place + 1
        BY <4>1 DEF TypeOK
      <4> QED
        BY <2>1, <2>3, <3>1, <4>2 DEF Loop
    <3>2. CASE v # w
      BY <1>1, <2>1, <2>3, <3>2 DEF Loop
    <3> QED
      BY <3>1, <3>2
  <2> QED
    BY <1>7, <2>2, <2>3 DEF Lookup, ScanStep, LookupInPostgres, Replies
<1>8. CASE Restart
  BY <1>8 DEF Restart, Loop
<1>9. ASSUME NEW w \in Workers, Request(w) \/ StoreStep(w) \/ ConnectFails(w) \/ Fails(w)
      PROVE  Loop(v)
  <2>1. CASE Refuse(w) \/ Acknowledge(w) \/ CommitRefused(w) \/ ConnectFails(w) \/ Fails(w)
    <3>1. deque' = deque /\ \E rep : Finish(w, rep)
      BY <2>1 DEF Refuse, Acknowledge, CommitRefused, ConnectFails, Fails
    <3> QED
      BY <1>2, <3>1
  <2>2. CASE \/ Ingest(w) \/ Connect(w) \/ InsertDelivery(w) \/ SelectDelivery(w)
             \/ InsertAttempt(w) \/ Commit(w)
    <3>1. UNCHANGED <<scan, deque>> /\ \E label \in Storing : Goto(w, label)
      BY <2>2 DEF Ingest, Connect, InsertDelivery, InsertRow, SelectDelivery, InsertAttempt,
         Commit, Stay, Storing, InTransaction
    <3> QED
      BY <1>3, <3>1
  <2> QED
    BY <1>5, <1>6, <1>9, <2>1, <2>2 DEF Request, StoreStep
<1>10. ASSUME NEW a \in DOMAIN txn, ServerCommits(a) \/ ServerDrops(a) PROVE Loop(v)
  BY <1>4, <1>10 DEF ServerCommits, ServerDrops, workerVars
<1>11. CASE UNCHANGED vars
  BY <1>4, <1>11 DEF vars
<1> QED
  BY <1>7, <1>8, <1>9, <1>10, <1>11 DEF Next

\* Only a lookup ends a lookup, or a restart, after which nobody is answered.
LEMMA OnlyLookupsEnd ==
  ASSUME TypeOK, Next, NEW v \in Workers, pc[v] = "scan", pc'[v] = "idle"
  PROVE  Lookup(v) \/ reply'[v] = "none"
<1>1. pc \in [Workers -> Storing \cup {"idle", "scan"}] /\ "scan" \notin Storing
  BY DEF TypeOK, Storing, InTransaction
<1>2. ASSUME NEW w \in Workers, Request(w) \/ StoreStep(w) \/ ConnectFails(w) \/ Fails(w)
      PROVE  FALSE
  <2>1. pc[w] # "scan"
    BY <1>1, <1>2 DEF Request, Refuse, Ingest, StartLookup, StoreStep, AddToMemory, Connect,
       InsertDelivery, SelectDelivery, InsertAttempt, Commit, Acknowledge, CommitRefused,
       ConnectFails, Fails, Busy, InTransaction
  <2>2. \E label : pc' = [pc EXCEPT ![w] = label]
    BY <1>2 DEF Request, Refuse, Ingest, StartLookup, StoreStep, AddToMemory, Connect,
       InsertDelivery, InsertRow, SelectDelivery, InsertAttempt, Commit, Acknowledge,
       CommitRefused, ConnectFails, Fails, Finish, Stay, Goto
  <2> QED
    BY <1>1, <2>1, <2>2
<1>3. ASSUME NEW w \in Workers, Lookup(w) PROVE w = v
  <2>1. pc' = pc \/ pc' = [pc EXCEPT ![w] = "idle"]
    BY <1>3 DEF Lookup, ScanStep, LookupInPostgres, Finish, Goto
  <2> QED
    BY <1>1, <2>1
<1>4. ASSUME NEW a \in DOMAIN txn, ServerCommits(a) \/ ServerDrops(a) PROVE FALSE
  BY <1>4 DEF ServerCommits, ServerDrops, workerVars
<1>5. CASE Restart
  BY <1>5 DEF Restart
<1> QED
  BY <1>2, <1>3, <1>4, <1>5 DEF Next

LEMMA LookupTells ==
  ASSUME TypeOK, NEW w \in Workers, ScanOK(w), Lookup(w), pc'[w] = "idle"
  PROVE  /\ reply'[w] = "found" => OnRecord(scan[w].want)
         /\ reply'[w] = "not_found" => ~OnRecord(scan[w].want)
<1>1. /\ pc[w] = "scan" /\ DOMAIN reply = Workers /\ DOMAIN deque = 1 .. Len(deque)
      /\ Len(deque) \in Nat /\ scan[w].place \in Nat
  BY ConstantsAssumption DEF Lookup, TypeOK
<1>2. \A rep : Finish(w, rep) => reply'[w] = rep
  BY <1>1 DEF Finish
<1>3. CASE Backend = "memory" /\ ScanStep(w)
  <2>1. CASE scan[w].mutated /\ Finish(w, "internal_error")
    BY <1>2, <2>1
  <2>2. CASE ~scan[w].mutated /\ scan[w].place > Len(deque) /\ Finish(w, "not_found")
    <3>1. \A k \in 1 .. Len(deque) : k < scan[w].place
      BY <1>1, <2>2
    <3>2. \A k \in 1 .. Len(deque) : deque[k] # scan[w].want
      BY <1>1, <1>3, <2>2, <3>1 DEF ScanOK
    <3> QED
      BY <1>1, <1>2, <1>3, <2>2, <3>2 DEF OnRecord
  <2>3. CASE /\ ~scan[w].mutated /\ scan[w].place <= Len(deque)
             /\ deque[scan[w].place] = scan[w].want /\ Finish(w, "found")
    <3>1. scan[w].place \in 1 .. Len(deque)
      BY <1>1, <1>3, <2>3 DEF ScanOK
    <3> QED
      BY <1>1, <1>2, <1>3, <2>3, <3>1 DEF OnRecord
  <2>4. CASE UNCHANGED pc
    BY <1>1, <2>4
  <2> QED
    BY <1>3, <2>1, <2>2, <2>3, <2>4 DEF ScanStep
<1>4. CASE Backend = "postgresql" /\ LookupInPostgres(w)
  <2>1. OnRecord(scan[w].want) <=> Stored(scan[w].want)
    BY <1>4 DEF OnRecord, Rows, Stored
  <2> QED
    BY <1>2, <1>4, <2>1 DEF LookupInPostgres
<1> QED
  BY <1>3, <1>4 DEF Lookup

\* A lookup may fail, but a 404 means that the attempt is not on record at that
\* moment, and a 200 that it is, whatever other threads push, evict or commit.
THEOREM LookupsAreTruthful == Spec => LookupIsTruthful
<1> DEFINE ScansOK == \A w \in Workers : ScanOK(w)
<1>1. Init => ScansOK
  BY DEF Init, ScanOK
<1>2. TypeOK /\ ScansOK /\ [Next]_vars => ScansOK'
  BY StepLoops, LoopKeeps
<1>3. ASSUME TypeOK, ScansOK, [Next]_vars
      PROVE  [\A w \in Workers : pc[w] = "scan" /\ pc'[w] = "idle" =>
                /\ reply'[w] = "found" => OnRecord(scan[w].want)
                /\ reply'[w] = "not_found" => ~OnRecord(scan[w].want)]_vars
  BY <1>3, OnlyLookupsEnd, LookupTells
<1> HIDE DEF ScansOK
<1> QED
  BY <1>1, <1>2, <1>3, TypeCorrect, PTL DEF Spec, LookupIsTruthful
=============================================================================
