----------------------------- MODULE Redelivery -----------------------------
(***************************************************************************)
(* Controlled redelivery of one repository webhook's deliveries: the       *)
(* management handler that looks up a local attempt, searches GitHub's     *)
(* delivery history for the requested record, journals the intent, sends   *)
(* the redelivery POST once and records its outcome; the recovery-action   *)
(* journal it writes to (memory or PostgreSQL); and, as the environment,   *)
(* GitHub's history and what GitHub does with each POST.                   *)
(*                                                                         *)
(* A handler runs on the event loop, so the code between two awaits is one *)
(* step: the thread-pool lookup, each page and the POST are the awaits.    *)
(***************************************************************************)
EXTENDS Integers, Sequences, FiniteSets

CONSTANTS
  Requests,     \* the management POST handlers that may be in flight at once
  Attempts,     \* local attempts of this hook
  Guids,        \* X-GitHub-Delivery values
  GuidOf,       \* the delivery_guid of each local attempt
  Eligible,     \* attempts whose repository coordinates are usable
  Targets,      \* github_delivery_id values operators ask for
  Backend,      \* DELIVERY_STORE_BACKEND
  MaxActions,   \* MAX_EVENTS, the length of the memory journal's deque
  MaxPages,     \* GITHUB_RECONCILIATION_MAX_PAGES
  PerPage,      \* REPOSITORY_DELIVERIES_PER_PAGE
  MaxHistory,   \* bound: deliveries GitHub makes of its own accord
  MaxCreated    \* bound: journal rows ever created

ASSUME ConstantsAssumption ==
  /\ IsFiniteSet(Requests)
  /\ Attempts # {} /\ Targets # {}
  /\ GuidOf \in [Attempts -> Guids]
  /\ Eligible \subseteq Attempts
  /\ Targets \subseteq Nat \ {0}
  /\ Backend \in {"memory", "postgresql"}
  /\ MaxActions \in Nat \ {0}
  /\ MaxPages \in Nat \ {0}
  /\ PerPage \in Nat \ {0}
  /\ MaxHistory \in Nat
  /\ MaxCreated \in Nat

VARIABLES
  pc,       \* where each handler is waiting
  ask,      \* the attempt and the target each request names
  search,   \* the reconciliation loop's locals
  action,   \* the action_id a handler holds, 0 before it has one
  reply,    \* the response of a finished request
  journal,  \* the rows the recovery-action store holds
  created,  \* how many action ids were ever generated
  post,     \* what has become of the POST of each action that sent one
  owed,     \* actions whose redelivery GitHub took on and has not made yet
  history   \* GitHub's delivery history; the id of a record is its place

handlerVars == <<pc, ask, search, action, reply>>
githubVars == <<post, owed, history>>
vars == <<pc, ask, search, action, reply, journal, created, post, owed, history>>

Waits == {"lookup", "search", "post"}
Live(r) == pc[r] \in Waits

Terminal == {"accepted", "failed", "outcome_unknown"}
States == {"initiated"} \cup Terminal

\* The answers to a redelivery POST, by how the client tells them apart.
Refusals == {"throttled", "unauthorized_401", "forbidden_403", "other_status"}
Statuses == Refusals \cup {"accepted_202", "error_5xx"}
Answers == Statuses \cup {"pending", "unreached"}

Categories == {"none", "outcome_unknown", "upstream_throttled", "upstream_unavailable",
               "upstream_auth", "upstream_permission", "upstream_protocol"}

\* "service_unavailable", "journal_unavailable" and "upstream_unavailable" are
\* the same 503 to the client; the model keeps the cause.
Replies == {"none", "refused", "service_unavailable", "internal_error", "not_found",
            "not_eligible", "unverified", "journal_unavailable", "upstream_unavailable",
            "bad_gateway", "outcome_unknown", "accepted"}

Entry == [attempt : Attempts, target : Targets, state : States,
          status : Statuses \cup {"none"}, category : Categories]

Asks == [attempt : Attempts, target : Targets]
NoAsk == CHOOSE a \in Asks : TRUE
NoSearch == [cursor |-> 0, pages |-> 0, matches |-> {}]

Init ==
  /\ pc = [r \in Requests |-> "idle"]
  /\ ask = [r \in Requests |-> NoAsk]
  /\ search = [r \in Requests |-> NoSearch]
  /\ action = [r \in Requests |-> 0]
  /\ reply = [r \in Requests |-> "none"]
  /\ journal = << >>
  /\ created = 0
  /\ post = << >>
  /\ owed = {}
  /\ history = << >>

-----------------------------------------------------------------------------
(* The request.                                                            *)

\* The handler answers and its locals are gone; the action_id is kept.
Finish(r, rep) ==
  /\ pc' = [pc EXCEPT ![r] = "done"]
  /\ reply' = [reply EXCEPT ![r] = rep]
  /\ ask' = [ask EXCEPT ![r] = NoAsk]
  /\ search' = [search EXCEPT ![r] = NoSearch]

\* Every live handler may still create one row.
RoomForAnother == created + Cardinality({r \in Requests : Live(r)}) < MaxCreated

\* The client posts; the authorization dependency, the feature switch and the
\* checks of the path parameters come before the handler's first await.
Submit(r) ==
  /\ ~Live(r)
  /\ RoomForAnother
  /\ action' = [action EXCEPT ![r] = 0]
  /\ \/ Finish(r, "refused")
     \/ \E a \in Attempts, t \in Targets :
          /\ pc' = [pc EXCEPT ![r] = "lookup"]
          /\ ask' = [ask EXCEPT ![r] = [attempt |-> a, target |-> t]]
          /\ reply' = [reply EXCEPT ![r] = "none"]
          /\ UNCHANGED search
  /\ UNCHANGED <<journal, created, githubVars>>

\* A PostgreSQL lookup that fails is a DeliveryStoreError; a memory lookup
\* iterates the deque in a worker thread, and a webhook added meanwhile makes
\* that raise a RuntimeError nobody catches.
LookupFailure == IF Backend = "memory" THEN "internal_error" ELSE "service_unavailable"

\* The thread-pool lookup returns and the handler runs on to its next await.
Lookup(r) ==
  /\ pc[r] = "lookup"
  /\ \/ Finish(r, LookupFailure)
     \/ Finish(r, "not_found")
     \/ ask[r].attempt \notin Eligible /\ Finish(r, "not_eligible")
     \/ /\ ask[r].attempt \in Eligible
        /\ pc' = [pc EXCEPT ![r] = "search"]
        /\ search' = [search EXCEPT ![r] = NoSearch]
        /\ UNCHANGED <<ask, reply>>
  /\ UNCHANGED <<action, journal, created, githubVars>>

-----------------------------------------------------------------------------
(* The search of GitHub's history.                                         *)

\* GitHub's cursor is the id below which the page starts; 0 is no cursor.
Top(c) == IF c = 0 THEN Len(history) ELSE c - 1
Page(c) == {i \in 1 .. Top(c) : i > Top(c) - PerPage}
Older(c) == Top(c) > PerPage
CursorAfter(c) == Top(c) - PerPage + 1

\* Mutant: a target is verified by its id alone.
MatchesOnAnyGuid(page, guid) == page

MatchesOn(page, guid) == {i \in page : history[i].guid = guid}

\* The rows the store still holds once the n-th is in: the deque of the
\* memory store drops its oldest.
Retained(n) == {i \in 1 .. n : Backend = "postgresql" \/ i > n - MaxActions}

NewEntry(a, t) == [attempt |-> a, target |-> t, state |-> "initiated",
                   status |-> "none", category |-> "none"]

AddRow(a, t) ==
  /\ created' = created + 1
  /\ journal' = [i \in (DOMAIN journal \cup {created + 1}) \cap Retained(created + 1) |->
                   IF i = created + 1 THEN NewEntry(a, t) ELSE journal[i]]

PostsWith(id, t) ==
  [i \in DOMAIN post \cup {id} |->
     IF i = id THEN [target |-> t, answer |-> "pending"] ELSE post[i]]

\* The row is in: the POST goes out under its action_id.
CreateAndPost(r) ==
  /\ AddRow(ask[r].attempt, ask[r].target)
  /\ action' = [action EXCEPT ![r] = created + 1]
  /\ post' = PostsWith(created + 1, ask[r].target)
  /\ pc' = [pc EXCEPT ![r] = "post"]
  /\ search' = [search EXCEPT ![r] = NoSearch]
  /\ UNCHANGED <<ask, reply>>

\* Mutant: the journal is best effort.
CreateFailsPostsAnyway(r) ==
  /\ Backend = "postgresql"
  /\ created' = created + 1
  /\ action' = [action EXCEPT ![r] = created + 1]
  /\ post' = PostsWith(created + 1, ask[r].target)
  /\ pc' = [pc EXCEPT ![r] = "post"]
  /\ UNCHANGED <<ask, search, reply, journal>>

\* The insert raises: nothing was written, or the commit's answer was lost and
\* the row is there. No POST is sent.
CreateFails(r) ==
  /\ Backend = "postgresql"
  /\ \/ AddRow(ask[r].attempt, ask[r].target)
     \/ UNCHANGED <<journal, created>>
  /\ Finish(r, "journal_unavailable")
  /\ UNCHANGED <<action, post>>

\* The search is over, with these matches.
Verify(r, matches) ==
  \/ /\ ask[r].target \in matches
     /\ CreateAndPost(r) \/ CreateFails(r)
  \/ /\ ask[r].target \notin matches
     /\ Finish(r, "unverified")
     /\ UNCHANGED <<action, journal, created, post>>

NextPage(r, matches) ==
  /\ search' = [search EXCEPT ![r] = [cursor |-> CursorAfter(@.cursor),
                                      pages |-> @.pages + 1,
                                      matches |-> matches]]
  /\ UNCHANGED <<pc, ask, action, reply, journal, created, post>>

\* A page arrives. A rel="next" link to another host or path than the one
\* expected is taken for no link.
PageArrives(r) ==
  \E linked \in BOOLEAN :
    LET s == search[r]
        matches == s.matches \cup MatchesOn(Page(s.cursor), GuidOf[ask[r].attempt])
        more == linked /\ Older(s.cursor)
    IN IF more /\ s.pages + 1 < MaxPages
       THEN NextPage(r, matches)
       ELSE Verify(r, matches)

SearchFails(r) ==
  /\ \E rep \in {"upstream_unavailable", "bad_gateway"} : Finish(r, rep)
  /\ UNCHANGED <<action, journal, created, post>>

ReceivePage(r) ==
  /\ pc[r] = "search"
  /\ PageArrives(r) \/ SearchFails(r)
  /\ UNCHANGED <<owed, history>>

-----------------------------------------------------------------------------
(* The outcome of the POST.                                                *)

Outcome(state, status, category) ==
  [state |-> state, status |-> status, category |-> category]

\* Mutant: the update selects by target, not by action_id.
MarkTarget(id, o) ==
  journal' = [i \in DOMAIN journal |->
                IF journal[i].target # journal[id].target THEN journal[i]
                ELSE [journal[i] EXCEPT !.state = o.state,
                                        !.status = o.status,
                                        !.category = o.category]]

\* finalize(): only an initiated row becomes terminal; a row that is gone, or
\* terminal already, raises an error the handler does not catch.
MarkTerminal(id, o) ==
  journal' = [journal EXCEPT ![id] = [@ EXCEPT !.state = o.state,
                                               !.status = o.status,
                                               !.category = o.category]]

CanFinalize(id) == id \in DOMAIN journal /\ journal[id].state = "initiated"

Finalize(r, o, rep) ==
  /\ \/ /\ CanFinalize(action[r])
        /\ MarkTerminal(action[r], o)
        /\ Finish(r, rep)
     \/ /\ ~CanFinalize(action[r])
        /\ Finish(r, "internal_error")
        /\ UNCHANGED journal
     \/ /\ Backend = "postgresql"
        /\ \/ CanFinalize(action[r]) /\ MarkTerminal(action[r], o)
           \/ UNCHANGED journal
        /\ Finish(r, "journal_unavailable")
  /\ UNCHANGED <<action, created, owed, history>>

CategoryOf(answer) ==
  CASE answer = "throttled" -> "upstream_throttled"
    [] answer = "error_5xx" -> "upstream_unavailable"
    [] answer = "unauthorized_401" -> "upstream_auth"
    [] answer = "forbidden_403" -> "upstream_permission"
    [] OTHER -> "upstream_protocol"

OutcomeOf(answer) ==
  IF answer = "accepted_202"
  THEN Outcome("accepted", "accepted_202", "none")
  ELSE Outcome("failed", answer, CategoryOf(answer))

\* Mutant: every error status is a definite refusal.
ReplyToStatus(answer) == IF answer = "accepted_202" THEN "accepted" ELSE "bad_gateway"

ReplyTo(answer) ==
  CASE answer = "accepted_202" -> "accepted"
    [] answer \in {"throttled", "error_5xx"} -> "upstream_unavailable"
    [] OTHER -> "bad_gateway"

Answer(r) == post[action[r]].answer

\* Mutant: a 5xx is retried at once.
AnsweredRetrying(r) ==
  /\ pc[r] = "post"
  /\ Answer(r) \in Statuses
  /\ \/ /\ Answer(r) # "error_5xx"
        /\ Finalize(r, OutcomeOf(Answer(r)), ReplyTo(Answer(r)))
        /\ UNCHANGED post
     \/ /\ Answer(r) = "error_5xx"
        /\ post' = [post EXCEPT ![action[r]].answer = "pending"]
        /\ UNCHANGED <<handlerVars, journal, created, owed, history>>

\* GitHub's answer to the POST reaches the handler.
Answered(r) ==
  /\ pc[r] = "post"
  /\ Answer(r) \in Statuses
  /\ Finalize(r, OutcomeOf(Answer(r)), ReplyTo(Answer(r)))
  /\ UNCHANGED post

\* ConnectError or ConnectTimeout: nothing was sent.
ConnectFails(r) ==
  /\ pc[r] = "post"
  /\ Answer(r) = "pending"
  /\ post' = [post EXCEPT ![action[r]].answer = "unreached"]
  /\ Finalize(r, Outcome("failed", "none", "upstream_unavailable"), "upstream_unavailable")

\* Mutant: a timeout is a failure like any other.
TimesOutAsFailed(r) ==
  /\ pc[r] = "post"
  /\ Finalize(r, Outcome("failed", "none", "upstream_unavailable"), "upstream_unavailable")
  /\ UNCHANGED post

\* Mutant: the except branch of the timeout does not finalize.
TimesOutUnrecorded(r) ==
  /\ pc[r] = "post"
  /\ Finish(r, "outcome_unknown")
  /\ UNCHANGED <<action, journal, created, githubVars>>

\* Any other timeout or transport error, before or after GitHub has acted.
TimesOut(r) ==
  /\ pc[r] = "post"
  /\ Finalize(r, Outcome("outcome_unknown", "none", "outcome_unknown"), "outcome_unknown")
  /\ UNCHANGED post

HandlerStep(r) ==
  Lookup(r) \/ ReceivePage(r) \/ Answered(r) \/ ConnectFails(r) \/ TimesOut(r)

-----------------------------------------------------------------------------
(* The environment: GitHub and the process.                                *)

\* GitHub takes the request up, perhaps long after the handler gave up. A 202
\* means a redelivery, a refusal means none, a 5xx may be either.
GitHubHandles(id) ==
  /\ post[id].answer = "pending"
  /\ \E answer \in Statuses :
       /\ post' = [post EXCEPT ![id].answer = answer]
       /\ \/ answer \in {"accepted_202", "error_5xx"} /\ owed' = owed \cup {id}
          \/ answer # "accepted_202" /\ UNCHANGED owed
  /\ UNCHANGED <<handlerVars, journal, created, history>>

\* A record of the history: by = 0 for a delivery GitHub makes of its own
\* accord, else the action that asked for it.
Record(guid, by) == [guid |-> guid, by |-> by]

Deliver(guid) ==
  /\ Len(history) < MaxHistory
  /\ history' = Append(history, Record(guid, 0))
  /\ UNCHANGED <<handlerVars, journal, created, post, owed>>

\* The redelivery happens: a new record with the guid of the one it repeats.
Redeliver(id) ==
  /\ id \in owed
  /\ owed' = owed \ {id}
  /\ history' = Append(history, Record(history[post[id].target].guid, id))
  /\ UNCHANGED <<handlerVars, journal, created, post>>

\* The process stops at any point and starts again: its handlers are gone, and
\* with them the memory journal.
Restart ==
  /\ pc' = [r \in Requests |-> IF Live(r) THEN "idle" ELSE pc[r]]
  /\ ask' = [r \in Requests |-> NoAsk]
  /\ search' = [r \in Requests |-> NoSearch]
  /\ action' = [r \in Requests |-> IF Live(r) THEN 0 ELSE action[r]]
  /\ journal' = IF Backend = "memory" THEN << >> ELSE journal
  /\ UNCHANGED <<reply, created, githubVars>>

Environment ==
  \/ \E id \in DOMAIN post : GitHubHandles(id) \/ Redeliver(id)
  \/ \E guid \in Guids : Deliver(guid)
  \/ Restart

Next ==
  \/ \E r \in Requests : Submit(r) \/ HandlerStep(r)
  \/ Environment

\* A thread-pool call returns and every HTTP call answers or times out, so a
\* handler that waits goes on. Nothing is assumed of operators or of GitHub.
Fairness == \A r \in Requests : WF_vars(HandlerStep(r))

Spec == Init /\ [][Next]_vars
FairSpec == Spec /\ Fairness

-----------------------------------------------------------------------------
(* Properties.                                                             *)

Replied(r) == pc[r] = "done"

RedeliveredBy(id) == {i \in DOMAIN history : history[i].by = id}
Effect(id) == id \in owed \/ RedeliveredBy(id) # {}

TypeOK ==
  /\ pc \in [Requests -> Waits \cup {"idle", "done"}]
  /\ ask \in [Requests -> Asks]
  /\ search \in [Requests -> [cursor : Nat, pages : Nat, matches : SUBSET Nat]]
  /\ action \in [Requests -> 0 .. created]
  /\ reply \in [Requests -> Replies]
  /\ created \in Nat
  /\ DOMAIN journal \subseteq 1 .. created
  /\ \A id \in DOMAIN journal : journal[id] \in Entry
  /\ DOMAIN post \subseteq 1 .. created
  /\ \A id \in DOMAIN post : post[id] \in [target : Targets, answer : Answers]
  /\ owed \subseteq DOMAIN post
  /\ history \in Seq([guid : Guids, by : Nat])

\* What was posted is a record of the history, and the one the journal row names.
PostsVerified ==
  \A id \in DOMAIN post :
    /\ post[id].target \in DOMAIN history
    /\ id \in DOMAIN journal =>
         /\ journal[id].target = post[id].target
         /\ history[post[id].target].guid = GuidOf[journal[id].attempt]

\* Every POST ever sent named a record of this hook's history with the guid of
\* the local attempt its journal row names, however the history grew between
\* the pages and whoever else was searching (request_redelivery, the match on
\* delivery_guid and the verified_match). The variables have their types.
VerifiedTarget == TypeOK /\ PostsVerified

\* With PostgreSQL no POST, answered or lost, is ever without its journal row:
\* not after a failed insert, a lost commit or a restart.
IntentOnRecord == Backend = "postgresql" => DOMAIN post \subseteq DOMAIN journal

\* What the journal says of an action agrees with what GitHub did and will do
\* with its POST: accepted means a redelivery, failed means none now or later
\* unless the status is a 5xx, and only a timeout leaves it open (the except
\* branches of request_redelivery). A 5xx is left out because the journal calls
\* it failed although GitHub may have taken the request on.
OutcomeIsTruthful ==
  \A id \in DOMAIN journal :
    LET e == journal[id]
    IN /\ e.state \in Terminal => id \in DOMAIN post
       /\ e.state = "accepted" => Effect(id)
       /\ e.state = "failed" /\ e.status # "error_5xx" =>
            post[id].answer # "pending" /\ ~Effect(id)

\* What the client is told agrees with GitHub and with the journal: a 202
\* means a redelivery; a 502 after a POST means none, now or later; a 202 or an
\* unknown outcome is what the row says, as long as the store holds it
\* (routes of request_github_redelivery).
ReplyIsTruthful ==
  \A r \in Requests : Replied(r) =>
    LET id == action[r]
    IN /\ reply[r] = "accepted" => Effect(id)
       /\ reply[r] \in {"accepted", "outcome_unknown"} /\ id \in DOMAIN journal =>
            journal[id].state = reply[r]
       /\ reply[r] = "bad_gateway" /\ id # 0 =>
            post[id].answer # "pending" /\ ~Effect(id)
       /\ id = 0 => reply[r] \notin {"accepted", "outcome_unknown"}

\* An action causes at most one redelivery: the POST is never repeated.
OneRedeliveryPerAction ==
  \A id \in DOMAIN post :
    /\ Cardinality(RedeliveredBy(id)) <= 1
    /\ id \in owed => RedeliveredBy(id) = {}

\* Handlers that wait for GitHub hold different actions, and the rows of these
\* are still initiated: InvalidRecoveryActionTransitionError is never raised.
HandlersOwnTheirRows ==
  \A r \in Requests : pc[r] = "post" =>
    /\ action[r] \in DOMAIN post
    /\ action[r] \in DOMAIN journal => journal[action[r]].state = "initiated"
    /\ \A q \in Requests \ {r} : pc[q] = "post" => action[q] # action[r]

\* In the memory journal an initiated action is one whose handler still waits:
\* none is left behind, since a crash takes the journal with it.
NoStrandedIntent ==
  Backend = "memory" =>
    \A id \in DOMAIN journal : journal[id].state = "initiated" =>
      \E r \in Requests : pc[r] = "post" /\ action[r] = id

\* A row's snapshot never changes, a terminal row is final, and PostgreSQL
\* never loses a row.
JournalIsFinal ==
  [][\A id \in DOMAIN journal :
       /\ Backend = "postgresql" => id \in DOMAIN journal'
       /\ id \in DOMAIN journal' =>
            /\ journal'[id].attempt = journal[id].attempt
            /\ journal'[id].target = journal[id].target
            /\ journal[id].state \in Terminal => journal'[id] = journal[id]]_vars

\* Every management POST is answered unless the process restarts: no handler
\* waits for ever on the ledger, on GitHub's history or on the redelivery.
Responds == \A r \in Requests : Live(r) ~> ~Live(r)

\* The contract's view of a journal row.
VerdictOf(e) ==
  CASE e.state = "initiated" -> "open"
    [] e.state = "accepted" -> "accepted"
    [] e.state = "failed" /\ e.status # "error_5xx" -> "rejected"
    [] OTHER -> "uncertain"

Contract == INSTANCE RedeliveryContract WITH
  Actions <- 1 .. MaxCreated,
  intents <- DOMAIN journal,
  redelivered <- {id \in DOMAIN post : Effect(id)},
  verdict <- [id \in 1 .. MaxCreated |->
                IF id \in DOMAIN journal THEN VerdictOf(journal[id]) ELSE "open"]

\* With the PostgreSQL journal, handlers, GitHub, lost commits and restarts
\* together keep the contract: intent, then at most one effect, one verdict.
KeepsContract == Contract!Spec

\* README.md:470 "After the single POST attempt, the action is finalized as
\* accepted, failed, or outcome_unknown": a handler that sent its POST answers
\* with the outcome it recorded, or with the 503 of an unavailable journal.
PostEndsFinalized ==
  \A r \in Requests : Replied(r) /\ action[r] # 0 => reply[r] # "internal_error"
=============================================================================
