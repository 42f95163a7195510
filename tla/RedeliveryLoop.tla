--------------------------- MODULE RedeliveryLoop ---------------------------
(***************************************************************************)
(* The whole round: GitHub sends webhooks, the ledger stores them as       *)
(* attempts, an operator asks for a redelivery on behalf of an attempt,    *)
(* GitHub takes it on as a new record of its history and sends that as     *)
(* another webhook. The ledger and the journal are their contracts, which  *)
(* DeliveryLedger and Redelivery are shown to implement over PostgreSQL;   *)
(* what joins them is here.                                                *)
(***************************************************************************)
EXTENDS Naturals, Sequences, FiniteSets

CONSTANTS
  Guids,       \* logical deliveries
  Actions,     \* action ids
  MaxRecords,  \* bound: records of GitHub's delivery history
  MaxWithout   \* bound: redeliveries asked for elsewhere

ASSUME ConstantsAssumption ==
  /\ MaxRecords \in Nat /\ MaxWithout \in Nat
  /\ Actions \cap {"event", "elsewhere"} = {}

VARIABLES
  received, recorded, logical, acked,  \* the ledger, see LedgerContract
  intents, redelivered, verdict,       \* the journal, see RedeliveryContract
  target,   \* the attempt and the record an action names
  history   \* GitHub's records, oldest first

ledgerVars == <<received, recorded, logical, acked>>
journalVars == <<intents, redelivered, verdict>>
vars == <<received, recorded, logical, acked, intents, redelivered, verdict,
          target, history>>

\* An attempt is named by the record it came with: GitHub sends each once.
Attempts == 1 .. MaxRecords

Ledger == INSTANCE LedgerContract WITH Ids <- Attempts, Identities <- Guids
Journal == INSTANCE RedeliveryContract

\* cause: an event, the action of a redelivery, or an operator at GitHub.
Causes == {"event", "elsewhere"} \cup Actions
Fates == {"queued", "sent", "ok", "failed"}
Records == [guid : Guids, cause : Causes, fate : Fates]
NoTarget == [attempt |-> 0, record |-> 0]

Init ==
  /\ Ledger!Init
  /\ Journal!Init
  /\ target = [id \in Actions |-> NoTarget]
  /\ history = << >>

-----------------------------------------------------------------------------
(* GitHub.                                                                 *)

NewRecord(guid, cause) ==
  /\ Len(history) < MaxRecords
  /\ history' = Append(history, [guid |-> guid, cause |-> cause, fate |-> "queued"])

Known(guid) == \E n \in DOMAIN history : history[n].guid = guid

Happens(guid) ==
  /\ ~Known(guid)
  /\ NewRecord(guid, "event")
  /\ UNCHANGED <<ledgerVars, journalVars, target>>

RedeliveredElsewhere(guid) ==
  /\ Known(guid)
  /\ Cardinality({n \in DOMAIN history : history[n].cause = "elsewhere"}) < MaxWithout
  /\ NewRecord(guid, "elsewhere")
  /\ UNCHANGED <<ledgerVars, journalVars, target>>

SetFate(n, fate) == history' = [history EXCEPT ![n].fate = fate]

\* The webhook reaches the receiver, or GitHub gives up: nobody there, no answer
\* in time, or another status than 200; what was received may yet be recorded.
Send(n) ==
  /\ history[n].fate = "queued"
  /\ SetFate(n, "sent")
  /\ Ledger!Receive(n, history[n].guid)
  /\ UNCHANGED <<journalVars, target>>

GiveUp(n) ==
  /\ history[n].fate \in {"queued", "sent"}
  /\ SetFate(n, "failed")
  /\ UNCHANGED <<ledgerVars, journalVars, target>>

-----------------------------------------------------------------------------
(* The receiver.                                                           *)

Store(n) ==
  /\ Ledger!Record(n, history[n].guid)
  /\ UNCHANGED <<journalVars, target, history>>

\* Mutant: the webhook is answered before it is stored.
AcknowledgeFirst(n) ==
  /\ history[n].fate = "sent"
  /\ SetFate(n, "ok")
  /\ UNCHANGED <<ledgerVars, journalVars, target>>

Acknowledge(n) ==
  /\ history[n].fate = "sent"
  /\ Ledger!Acknowledge(n)
  /\ SetFate(n, "ok")
  /\ UNCHANGED <<journalVars, target>>

OnRecord(n) == <<n, history[n].guid>> \in recorded

\* Mutant: any record of the hook will do.
VerifiedOnHook(a, n) == OnRecord(a)

\* The record is one the search finds under the guid of the attempt.
Verified(a, n) == OnRecord(a) /\ history[n].guid = history[a].guid

Ask(id, a, n) ==
  /\ Verified(a, n)
  /\ Journal!Intend(id)
  /\ target' = [target EXCEPT ![id] = [attempt |-> a, record |-> n]]
  /\ UNCHANGED <<ledgerVars, history>>

\* GitHub handles the POST, perhaps after the receiver stopped waiting for it.
TakeOn(id) ==
  /\ Journal!TakeOn(id)
  /\ NewRecord(history[target[id].record].guid, id)
  /\ UNCHANGED <<ledgerVars, target>>

\* Mutant: an answer that is lost counts as acceptance.
ConcludeHopefully(id) ==
  /\ id \in intents
  /\ verdict[id] = "open"
  /\ verdict' = [verdict EXCEPT ![id] = "accepted"]
  /\ UNCHANGED <<intents, redelivered, ledgerVars, target, history>>

Conclude(id) ==
  /\ Journal!Conclude(id)
  /\ UNCHANGED <<ledgerVars, target, history>>

-----------------------------------------------------------------------------

GitHubSends == \E n \in DOMAIN history : Send(n) \/ GiveUp(n)

Next ==
  \/ \E guid \in Guids : Happens(guid) \/ RedeliveredElsewhere(guid)
  \/ GitHubSends
  \/ \E n \in DOMAIN history : Store(n) \/ Acknowledge(n)
  \/ \E id \in Actions : TakeOn(id) \/ Conclude(id)
  \/ \E id \in Actions, a, n \in DOMAIN history : Ask(id, a, n)

Spec == Init /\ [][Next]_vars

\* GitHub sends what it has taken on, and does not wait for an answer for ever.
FairSpec == Spec /\ \A n \in Attempts : WF_vars(n \in DOMAIN history /\ (Send(n) \/ GiveUp(n)))

-----------------------------------------------------------------------------
(* Properties.                                                             *)

TypeOK ==
  /\ received \subseteq Attempts \X Guids /\ recorded \subseteq received
  /\ logical \subseteq Guids /\ acked \subseteq Attempts
  /\ intents \subseteq Actions /\ redelivered \subseteq intents
  /\ target \in [Actions -> [attempt : 0 .. MaxRecords, record : 0 .. MaxRecords]]
  /\ history \in Seq(Records)

AttemptsOf(guid) == {p \in recorded : p[2] = guid}

\* An action that may have led to another webhook of the delivery: one that names
\* an attempt of it and did not fail for certain.
MayHaveRepeated(guid) ==
  {id \in intents : history[target[id].attempt].guid = guid /\ verdict[id] # "rejected"}

Elsewhere(guid) ==
  {n \in DOMAIN history : history[n].guid = guid /\ history[n].cause = "elsewhere"}

\* README.md:462, no replays and no automatic retries: a delivery has no more
\* attempts in the ledger than one, and one for each action in the journal that
\* names it, and one for each redelivery from elsewhere. Whoever reads both can
\* explain every repeated attempt, whatever was lost or came late.
AttemptsAreExplained ==
  \A guid \in Guids :
    Cardinality(AttemptsOf(guid))
      <= 1 + Cardinality(MayHaveRepeated(guid)) + Cardinality(Elsewhere(guid))

\* What GitHub's history calls delivered, the ledger has (README.md:312); and
\* the variables have their types, so that GitHub redelivers for no action that
\* is not in the journal.
DeliveredIsOnRecord ==
  /\ TypeOK
  /\ \A n \in DOMAIN history : history[n].fate = "ok" => OnRecord(n)

\* README.md:460: accepted does not mean delivered, but it does mean that GitHub
\* sends: in the end its history has a record of the action that went well, and
\* is then in the ledger, or one that failed, for the next search to find.
AcceptedIsSettled ==
  \A id \in Actions :
    verdict[id] = "accepted" ~>
      \E n \in DOMAIN history :
        history[n].cause = id /\ (history[n].fate = "failed" \/ (history[n].fate = "ok" /\ OnRecord(n)))
=============================================================================
