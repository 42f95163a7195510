----------------------------- MODULE LoopProofs -----------------------------
(***************************************************************************)
(* Proofs about RedeliveryLoop, for any deliveries, any actions and any    *)
(* length of GitHub's history.                                             *)
(***************************************************************************)
EXTENDS RedeliveryLoop, FiniteSetTheorems, TLAPS

\* What is labelled without repetition is no more than the labels.
LEMMA Labelled ==
  ASSUME NEW S, NEW T, IsFiniteSet(T), NEW f \in [S -> T],
         \A a, b \in S : f[a] = f[b] => a = b
  PROVE  /\ IsFiniteSet(S) /\ Cardinality(S) \in Nat /\ Cardinality(T) \in Nat
         /\ Cardinality(S) <= Cardinality(T)
<1>1. f \in Injection(S, T)
  BY DEF Injection, IsInjective
<1> QED
  BY <1>1, FS_Injection, FS_CardinalityType

LEMMA AtMostTogether ==
  ASSUME NEW S, NEW T, IsFiniteSet(S), IsFiniteSet(T)
  PROVE  /\ IsFiniteSet(S \cup T)
         /\ Cardinality(S) \in Nat /\ Cardinality(T) \in Nat /\ Cardinality(S \cup T) \in Nat
         /\ Cardinality(S \cup T) <= Cardinality(S) + Cardinality(T)
<1>1. /\ IsFiniteSet(S \cup T) /\ IsFiniteSet(S \cap T)
      /\ Cardinality(S \cup T) = Cardinality(S) + Cardinality(T) - Cardinality(S \cap T)
  BY FS_Union, FS_Intersection
<1>2. /\ Cardinality(S) \in Nat /\ Cardinality(T) \in Nat
      /\ Cardinality(S \cup T) \in Nat /\ Cardinality(S \cap T) \in Nat
  BY <1>1, FS_CardinalityType
<1> QED
  BY <1>1, <1>2

-----------------------------------------------------------------------------
(* The invariant.                                                          *)

\* GitHub makes one record of an event and one of an action.
HistoryOK ==
  /\ Len(history) <= MaxRecords
  /\ \A m, n \in DOMAIN history :
       history[m].cause = "event" /\ history[n].cause = "event"
         /\ history[m].guid = history[n].guid => m = n
  /\ \A m, n \in DOMAIN history :
       history[m].cause \in Actions /\ history[m].cause = history[n].cause => m = n

\* A webhook carries the guid of its record, and what was delivered is stored.
LedgerOK ==
  /\ \A p \in received : p[1] \in DOMAIN history /\ p = <<p[1], history[p[1]].guid>>
  /\ \A n \in DOMAIN history : history[n].fate = "ok" => OnRecord(n)

\* An intent names two records of one delivery, and the record an action led to
\* is of that delivery; an action that led to one was not rejected.
JournalOK ==
  /\ IsFiniteSet(intents)
  /\ verdict \in [Actions -> Journal!Verdicts]
  /\ \A id \in intents :
       /\ target[id].attempt \in DOMAIN history /\ target[id].record \in DOMAIN history
       /\ history[target[id].attempt].guid = history[target[id].record].guid
  /\ \A n \in DOMAIN history : history[n].cause \in Actions =>
       /\ history[n].cause \in redelivered
       /\ history[n].guid = history[target[history[n].cause].record].guid
  /\ \A id \in redelivered : verdict[id] # "rejected"

Inv == TypeOK /\ HistoryOK /\ LedgerOK /\ JournalOK

LEMMA InitInv == Init => Inv
<1> SUFFICES ASSUME Init PROVE Inv
  OBVIOUS
<1>1. history = << >> /\ DOMAIN history = {} /\ Len(history) = 0 /\ history \in Seq(Records)
  BY DEF Init
<1>2. TypeOK
  BY <1>1, ConstantsAssumption DEF Init, TypeOK, NoTarget, Ledger!Init, Journal!Init
<1>3. JournalOK
  BY <1>1, FS_EmptySet DEF Init, JournalOK, Journal!Init, Journal!Verdicts
<1> QED
  BY <1>1, <1>2, <1>3, ConstantsAssumption DEF Inv, Init, HistoryOK, LedgerOK, Ledger!Init

LEMMA Appended ==
  ASSUME Inv, NEW guid \in Guids, NEW cause \in Causes, NewRecord(guid, cause)
  PROVE  /\ history' \in Seq(Records)
         /\ Len(history) \in Nat
         /\ DOMAIN history' = DOMAIN history \cup {Len(history) + 1}
         /\ Len(history) + 1 \notin DOMAIN history
         /\ Len(history') <= MaxRecords
         /\ \A n \in DOMAIN history : history'[n] = history[n]
         /\ history'[Len(history) + 1] = [guid |-> guid, cause |-> cause, fate |-> "queued"]
<1> DEFINE new == [guid |-> guid, cause |-> cause, fate |-> "queued"]
<1>1. new \in Records
  BY DEF Records, Fates
<1> HIDE DEF new
<1>2. history' = Append(history, new) /\ history \in Seq(Records) /\ Len(history) < MaxRecords
  BY DEF NewRecord, new, Inv, TypeOK
<1>3. /\ history' \in Seq(Records)
      /\ Len(history) \in Nat /\ Len(history') = Len(history) + 1
      /\ DOMAIN history' = DOMAIN history \cup {Len(history) + 1}
      /\ Len(history) + 1 \notin DOMAIN history
      /\ \A n \in DOMAIN history : history'[n] = history[n]
      /\ history'[Len(history) + 1] = new
  BY <1>1, <1>2
<1> QED
  BY <1>2, <1>3, ConstantsAssumption DEF new

LEMMA FateSet ==
  ASSUME Inv, NEW n \in DOMAIN history, NEW fate \in Fates, SetFate(n, fate)
  PROVE  /\ history' \in Seq(Records)
         /\ DOMAIN history' = DOMAIN history /\ Len(history') = Len(history)
         /\ \A m \in DOMAIN history :
              /\ history'[m].guid = history[m].guid /\ history'[m].cause = history[m].cause
              /\ history'[m].fate = IF m = n THEN fate ELSE history[m].fate
<1>1. history \in Seq(Records)
  BY DEF Inv, TypeOK
<1>2. \A m \in DOMAIN history : history[m] \in Records
  BY <1>1
<1>3. history' = [history EXCEPT ![n].fate = fate]
  BY DEF SetFate
<1>4. /\ DOMAIN history' = DOMAIN history
      /\ \A m \in DOMAIN history : history'[m] =
           IF m = n THEN [history[m] EXCEPT !.fate = fate] ELSE history[m]
  BY <1>3
<1>5. \A m \in DOMAIN history :
        /\ history'[m] \in Records
        /\ history'[m].guid = history[m].guid /\ history'[m].cause = history[m].cause
        /\ history'[m].fate = IF m = n THEN fate ELSE history[m].fate
  BY <1>2, <1>4 DEF Records
<1>6. history' \in Seq(Records) /\ Len(history') = Len(history)
  BY <1>1, <1>3, <1>5
<1> QED
  BY <1>4, <1>5, <1>6

\* A record more is queued and not yet received.
LEMMA LedgerOfMore ==
  ASSUME Inv, NEW guid \in Guids, NEW cause \in Causes, NewRecord(guid, cause),
         UNCHANGED ledgerVars
  PROVE  LedgerOK'
<1>1. /\ DOMAIN history' = DOMAIN history \cup {Len(history) + 1}
      /\ \A n \in DOMAIN history : history'[n] = history[n]
      /\ history'[Len(history) + 1].fate = "queued"
  <2>1. history'[Len(history) + 1] = [guid |-> guid, cause |-> cause, fate |-> "queued"]
    BY Appended
  <2>2. /\ DOMAIN history' = DOMAIN history \cup {Len(history) + 1}
        /\ \A n \in DOMAIN history : history'[n] = history[n]
    BY Appended
  <2> QED
    BY <2>1, <2>2
<1>2. received' = received /\ recorded' = recorded
  BY DEF ledgerVars
<1> QED
  BY <1>1, <1>2 DEF Inv, LedgerOK, OnRecord

\* What changes is the fate of a record, and it is stored if that is "ok".
LEMMA FateKeepsInv ==
  ASSUME Inv, NEW n \in DOMAIN history, NEW fate \in Fates, SetFate(n, fate),
         fate = "ok" => OnRecord(n),
         UNCHANGED <<recorded, logical, journalVars, target>>,
         acked' \subseteq Attempts,
         received' = received \/ received' = received \cup {<<n, history[n].guid>>}
  PROVE  Inv'
<1>1. /\ history' \in Seq(Records)
      /\ DOMAIN history' = DOMAIN history /\ Len(history') = Len(history)
      /\ \A m \in DOMAIN history :
           /\ history'[m].guid = history[m].guid /\ history'[m].cause = history[m].cause
           /\ history'[m].fate = IF m = n THEN fate ELSE history[m].fate
  BY FateSet
<1>2. n \in Attempts /\ history[n] \in Records
  BY ConstantsAssumption DEF Inv, TypeOK, HistoryOK, Attempts
<1>3. TypeOK'
  BY <1>1, <1>2 DEF Inv, TypeOK, journalVars, Records
<1>4. HistoryOK'
  BY <1>1 DEF Inv, HistoryOK
<1>5. LedgerOK'
  BY <1>1 DEF Inv, LedgerOK, OnRecord
<1>6. JournalOK'
  BY <1>1 DEF Inv, JournalOK, journalVars, TypeOK
<1> QED
  BY <1>3, <1>4, <1>5, <1>6 DEF Inv

LEMMA SendKeepsInv ==
  ASSUME Inv, NEW n \in DOMAIN history, Send(n) \/ GiveUp(n)
  PROVE  Inv'
<1>1. CASE Send(n)
  BY <1>1, FateKeepsInv DEF Send, Ledger!Receive, Fates, Inv, TypeOK
<1>2. CASE GiveUp(n)
  BY <1>2, FateKeepsInv DEF GiveUp, ledgerVars, Fates, Inv, TypeOK
<1> QED
  BY <1>1, <1>2

LEMMA AcknowledgeKeepsInv ==
  ASSUME Inv, NEW n \in DOMAIN history, Acknowledge(n)
  PROVE  Inv'
<1>1. PICK g \in Guids : <<n, g>> \in recorded
  BY DEF Acknowledge, Ledger!Acknowledge
<1>2. OnRecord(n)
  BY <1>1 DEF Inv, TypeOK, LedgerOK, OnRecord
<1>3. acked' \subseteq Attempts
  BY ConstantsAssumption DEF Acknowledge, Ledger!Acknowledge, Inv, TypeOK, HistoryOK, Attempts
<1> QED
  BY <1>2, <1>3, FateKeepsInv DEF Acknowledge, Ledger!Acknowledge, Fates

LEMMA StoreKeepsInv ==
  ASSUME Inv, NEW n \in DOMAIN history, Store(n)
  PROVE  Inv'
<1>1. /\ recorded' = recorded \cup {<<n, history[n].guid>>}
      /\ logical' = logical \cup {history[n].guid}
      /\ <<n, history[n].guid>> \in received
      /\ UNCHANGED <<received, acked, journalVars, target, history>>
  BY DEF Store, Ledger!Record
<1>2. history[n] \in Records
  BY DEF Inv, TypeOK
<1>3. TypeOK'
  BY <1>1, <1>2 DEF Inv, TypeOK, journalVars, Records
<1> QED
  BY <1>1, <1>3 DEF Inv, HistoryOK, LedgerOK, JournalOK, OnRecord, journalVars

LEMMA NewDeliveryKeepsInv ==
  ASSUME Inv, NEW guid \in Guids, Happens(guid) \/ RedeliveredElsewhere(guid)
  PROVE  Inv'
<1>1. PICK cause \in {"event", "elsewhere"} :
        /\ NewRecord(guid, cause)
        /\ cause = "event" => ~Known(guid)
  BY DEF Happens, RedeliveredElsewhere
<1>2. UNCHANGED <<received, recorded, logical, acked, intents, redelivered, verdict, target>>
  BY DEF Happens, RedeliveredElsewhere, ledgerVars, journalVars
<1>3. cause \in Causes /\ cause \notin Actions
  BY ConstantsAssumption DEF Causes
<1>4. /\ history' \in Seq(Records)
      /\ DOMAIN history' = DOMAIN history \cup {Len(history) + 1}
      /\ Len(history') <= MaxRecords
      /\ \A n \in DOMAIN history : history'[n] = history[n]
      /\ history'[Len(history) + 1] = [guid |-> guid, cause |-> cause, fate |-> "queued"]
  BY <1>1, <1>3, Appended
<1>5. TypeOK'
  BY <1>2, <1>4 DEF Inv, TypeOK
<1>6. HistoryOK'
  BY <1>1, <1>3, <1>4 DEF Inv, HistoryOK, Known
<1>7. LedgerOK'
  BY <1>1, <1>2, <1>3, LedgerOfMore DEF ledgerVars
<1>8. JournalOK'
  <2>1. \A id \in redelivered : id \in intents
    BY DEF Inv, TypeOK
  <2> QED
    BY <1>2, <1>3, <1>4, <2>1 DEF Inv, JournalOK
<1> QED
  BY <1>5, <1>6, <1>7, <1>8 DEF Inv

LEMMA TakeOnKeepsInv ==
  ASSUME Inv, NEW id \in Actions, TakeOn(id)
  PROVE  Inv'
<1> DEFINE guid == history[target[id].record].guid
<1>1. /\ id \in intents /\ id \notin redelivered /\ verdict[id] # "rejected"
      /\ redelivered' = redelivered \cup {id}
      /\ UNCHANGED <<intents, verdict, received, recorded, logical, acked, target>>
      /\ NewRecord(guid, id)
  BY DEF TakeOn, Journal!TakeOn, ledgerVars
<1>2. /\ target[id].record \in DOMAIN history /\ guid \in Guids /\ id \in Causes
      /\ id # "event"
  <2>1. target[id].record \in DOMAIN history
    BY <1>1 DEF Inv, JournalOK
  <2>2. history[target[id].record] \in Records
    BY <2>1 DEF Inv, TypeOK
  <2> QED
    BY <2>1, <2>2, ConstantsAssumption DEF Records, Causes
<1> HIDE DEF guid
<1>3. /\ history' \in Seq(Records)
      /\ DOMAIN history' = DOMAIN history \cup {Len(history) + 1}
      /\ Len(history') <= MaxRecords
      /\ \A n \in DOMAIN history : history'[n] = history[n]
      /\ history'[Len(history) + 1] = [guid |-> guid, cause |-> id, fate |-> "queued"]
  BY <1>1, <1>2, Appended
<1>4. TypeOK'
  BY <1>1, <1>3 DEF Inv, TypeOK
<1>5. HistoryOK'
  BY <1>1, <1>2, <1>3 DEF Inv, HistoryOK, JournalOK
<1>6. LedgerOK'
  BY <1>1, <1>2, LedgerOfMore DEF ledgerVars
<1>7. JournalOK'
  <2>1. \A i \in redelivered : i \in intents
    BY DEF Inv, TypeOK
  <2> QED
    BY <1>1, <1>2, <1>3, <2>1 DEF Inv, JournalOK, guid
<1> QED
  BY <1>4, <1>5, <1>6, <1>7 DEF Inv

LEMMA AskKeepsInv ==
  ASSUME Inv, NEW id \in Actions, NEW a \in DOMAIN history, NEW n \in DOMAIN history,
         Ask(id, a, n)
  PROVE  Inv'
<1>1. /\ id \notin intents /\ intents' = intents \cup {id}
      /\ target' = [target EXCEPT ![id] = [attempt |-> a, record |-> n]]
      /\ history[n].guid = history[a].guid
      /\ UNCHANGED <<redelivered, verdict, received, recorded, logical, acked, history>>
  BY DEF Ask, Verified, Journal!Intend, ledgerVars
<1>2. a \in 0 .. MaxRecords /\ n \in 0 .. MaxRecords
  BY ConstantsAssumption DEF Inv, TypeOK, HistoryOK
<1>3. /\ target' \in [Actions -> [attempt : 0 .. MaxRecords, record : 0 .. MaxRecords]]
      /\ target'[id] = [attempt |-> a, record |-> n]
      /\ \A i \in Actions : i # id => target'[i] = target[i]
  BY <1>1, <1>2 DEF Inv, TypeOK
<1>4. TypeOK'
  BY <1>1, <1>3 DEF Inv, TypeOK
<1>5. JournalOK'
  <2>1. IsFiniteSet(intents')
    BY <1>1, FS_AddElement DEF Inv, JournalOK
  <2>2. redelivered \subseteq intents /\ intents \subseteq Actions
    BY DEF Inv, TypeOK
  <2> QED
    BY <1>1, <1>3, <2>1, <2>2 DEF Inv, JournalOK
<1> QED
  BY <1>1, <1>4, <1>5 DEF Inv, HistoryOK, LedgerOK, OnRecord

LEMMA ConcludeKeepsInv ==
  ASSUME Inv, NEW id \in Actions, Conclude(id)
  PROVE  Inv'
<1>1. /\ \E v \in Journal!Verdicts : verdict' = [verdict EXCEPT ![id] = v]
      /\ id \in redelivered => verdict'[id] # "rejected"
      /\ UNCHANGED <<intents, redelivered, received, recorded, logical, acked, target, history>>
  BY DEF Conclude, Journal!Conclude, Journal!Verdicts, ledgerVars, Inv, JournalOK
<1>2. TypeOK'
  BY <1>1 DEF Inv, TypeOK
<1>3. JournalOK'
  BY <1>1 DEF Inv, JournalOK
<1> QED
  BY <1>1, <1>2, <1>3 DEF Inv, HistoryOK, LedgerOK, OnRecord

LEMMA StepInv == Inv /\ [Next]_vars => Inv'
<1> SUFFICES ASSUME Inv, [Next]_vars PROVE Inv'
  OBVIOUS
<1>1. CASE UNCHANGED vars
  BY <1>1 DEF vars, Inv, TypeOK, HistoryOK, LedgerOK, JournalOK, OnRecord
<1> QED
  BY <1>1, NewDeliveryKeepsInv, SendKeepsInv, StoreKeepsInv, AcknowledgeKeepsInv,
     TakeOnKeepsInv, ConcludeKeepsInv, AskKeepsInv DEF Next, GitHubSends

LEMMA Invariance == Spec => []Inv
  BY InitInv, StepInv, PTL DEF Spec

-----------------------------------------------------------------------------
(* What follows from it.                                                   *)

\* What GitHub's history calls delivered the ledger has (README.md:312), and
\* GitHub redelivers for no action that is not in the journal.
THEOREM DeliveredIsStored == Spec => []DeliveredIsOnRecord
<1>1. Inv => DeliveredIsOnRecord
  BY DEF Inv, LedgerOK, DeliveredIsOnRecord
<1> QED
  BY <1>1, Invariance, PTL

\* The records of a delivery: at most one of an event, those redelivered from
\* elsewhere, and those of its actions, which are at most one for each.
LEMMA RecordsAreExplained ==
  ASSUME Inv, NEW guid \in Guids
  PROVE  /\ IsFiniteSet({n \in DOMAIN history : history[n].guid = guid})
         /\ Cardinality({n \in DOMAIN history : history[n].guid = guid})
              <= 1 + Cardinality(MayHaveRepeated(guid)) + Cardinality(Elsewhere(guid))
<1> DEFINE N == {n \in DOMAIN history : history[n].guid = guid}
           E == {n \in N : history[n].cause = "event"}
           W == {n \in N : history[n].cause \in Actions}
           X == Elsewhere(guid)
           M == MayHaveRepeated(guid)
<1>1. IsFiniteSet(N)
  <2>1. DOMAIN history = 1 .. Len(history) /\ Len(history) \in Nat
    BY DEF Inv, TypeOK
  <2>2. IsFiniteSet(DOMAIN history)
    BY <2>1, FS_Interval
  <2>3. N \in SUBSET DOMAIN history
    OBVIOUS
  <2> QED
    BY <2>2, <2>3, FS_Subset
<1>2. E \in SUBSET N /\ W \in SUBSET N /\ X \in SUBSET N
  BY DEF Elsewhere
<1>3. N = (E \cup W) \cup X
  <2>1. \A n \in DOMAIN history : history[n] \in Records
    BY DEF Inv, TypeOK
  <2>2. \A n \in DOMAIN history :
          history[n].cause = "event" \/ history[n].cause = "elsewhere" \/ history[n].cause \in Actions
    BY <2>1 DEF Records, Causes
  <2> QED
    BY <2>2 DEF Elsewhere
<1>4. IsFiniteSet(E) /\ IsFiniteSet(W) /\ IsFiniteSet(X)
  BY <1>1, <1>2, FS_Subset
<1>5. Cardinality(E) <= 1 /\ Cardinality(E) \in Nat
  <2>1. CASE E = {}
    BY <2>1, FS_EmptySet
  <2>2. CASE E # {}
    <3>1. PICK m \in E : TRUE
      BY <2>2
    <3>2. E = {m}
      BY <3>1 DEF Inv, HistoryOK
    <3>3. Cardinality(E) = 1
      BY <3>2, FS_Singleton
    <3> QED
      BY <3>3
  <2> QED
    BY <2>1, <2>2
<1>6. Cardinality(W) <= Cardinality(M) /\ Cardinality(W) \in Nat /\ Cardinality(M) \in Nat
  <2> DEFINE f == [n \in W |-> history[n].cause]
  <2>1. IsFiniteSet(M)
    <3>1. M \in SUBSET intents
      BY DEF MayHaveRepeated
    <3> QED
      BY <3>1, FS_Subset DEF Inv, JournalOK
  <2>2. f \in [W -> M]
    <3> SUFFICES ASSUME NEW n \in W PROVE history[n].cause \in M
      OBVIOUS
    <3>1. history[n].cause \in redelivered /\ redelivered \subseteq intents
      BY DEF Inv, TypeOK, JournalOK
    <3> QED
      BY <3>1 DEF Inv, JournalOK, MayHaveRepeated
  <2>3. \A m, n \in W : f[m] = f[n] => m = n
    BY DEF Inv, HistoryOK
  <2> HIDE DEF f, W, M
  <2> QED
    BY <2>1, <2>2, <2>3, Labelled
<1>7. /\ IsFiniteSet(E \cup W)
      /\ Cardinality(E \cup W) <= Cardinality(E) + Cardinality(W) /\ Cardinality(E \cup W) \in Nat
  BY <1>4, AtMostTogether
<1>8. /\ Cardinality(N) <= Cardinality(E \cup W) + Cardinality(X)
      /\ Cardinality(N) \in Nat /\ Cardinality(X) \in Nat
  BY <1>3, <1>4, <1>7, AtMostTogether
<1> HIDE DEF N, E, W, X, M
<1>9. Cardinality(N) <= 1 + Cardinality(M) + Cardinality(X)
  BY <1>5, <1>6, <1>7, <1>8
<1> QED
  BY <1>1, <1>9 DEF N, M, X

\* No replays and no automatic retries (README.md:462): a delivery has at most
\* one attempt on record for its event, one for each action on record that
\* names it and did not fail for certain, and one for each redelivery asked for
\* elsewhere, whatever was lost or came late.
THEOREM RepeatsAreExplained == Spec => []AttemptsAreExplained
<1>1. ASSUME Inv, NEW guid \in Guids
      PROVE  Cardinality(AttemptsOf(guid))
               <= 1 + Cardinality(MayHaveRepeated(guid)) + Cardinality(Elsewhere(guid))
  <2> DEFINE N == {n \in DOMAIN history : history[n].guid = guid}
             f == [p \in AttemptsOf(guid) |-> p[1]]
  <2>1. /\ IsFiniteSet(N)
        /\ Cardinality(N) <= 1 + Cardinality(MayHaveRepeated(guid)) + Cardinality(Elsewhere(guid))
    BY <1>1, RecordsAreExplained
  <2>2. \A p \in AttemptsOf(guid) : p[1] \in N /\ p = <<p[1], guid>>
    BY <1>1 DEF Inv, TypeOK, LedgerOK, AttemptsOf
  <2>3. f \in [AttemptsOf(guid) -> N] /\ \A p, q \in AttemptsOf(guid) : f[p] = f[q] => p = q
    BY <2>2
  <2>4. IsFiniteSet(MayHaveRepeated(guid)) /\ IsFiniteSet(Elsewhere(guid))
    <3>1. MayHaveRepeated(guid) \in SUBSET intents /\ Elsewhere(guid) \in SUBSET N
      BY DEF MayHaveRepeated, Elsewhere
    <3> QED
      BY <1>1, <2>1, <3>1, FS_Subset DEF Inv, JournalOK
  <2>5. Cardinality(MayHaveRepeated(guid)) \in Nat /\ Cardinality(Elsewhere(guid)) \in Nat
    BY <2>4, FS_CardinalityType
  <2> HIDE DEF N, f
  <2>6. /\ Cardinality(AttemptsOf(guid)) <= Cardinality(N)
        /\ Cardinality(AttemptsOf(guid)) \in Nat /\ Cardinality(N) \in Nat
    BY <2>1, <2>3, Labelled
  <2> QED
    BY <2>1, <2>5, <2>6
<1>2. Inv => AttemptsAreExplained
  BY <1>1 DEF AttemptsAreExplained
<1> QED
  BY <1>2, Invariance, PTL
=============================================================================
