-------------------------- MODULE RedeliveryProofs --------------------------
(***************************************************************************)
(* Proofs about Redelivery, for any number of requests, any history, any   *)
(* page size and bound and either backend.                                 *)
(***************************************************************************)
EXTENDS JournalLookup, FiniteSetTheorems, WellFoundedInduction, TLAPS

LEMMA AppendGrows ==
  ASSUME NEW S, NEW s \in Seq(S), NEW e \in S
  PROVE  /\ Append(s, e) \in Seq(S)
         /\ Len(Append(s, e)) = Len(s) + 1
         /\ \A i \in DOMAIN s : i \in DOMAIN Append(s, e) /\ Append(s, e)[i] = s[i]
         /\ \A i \in DOMAIN Append(s, e) : i \in DOMAIN s \/ Append(s, e)[i] = e
  OBVIOUS

LEMMA ElementOfSeq ==
  ASSUME NEW S, NEW s \in Seq(S), NEW i \in DOMAIN s
  PROVE  s[i] \in S
  OBVIOUS

LEMMA NoAskIsAsk == NoAsk \in Asks
<1>1. PICK a \in Attempts, t \in Targets : TRUE
  BY ConstantsAssumption
<1>2. [attempt |-> a, target |-> t] \in Asks
  BY DEF Asks
<1> QED
  BY <1>2 DEF NoAsk

\* What the handler's last statement leaves behind is of the right type.
LEMMA FinishType ==
  ASSUME TypeOK, NEW r \in Requests, NEW rep \in Replies, Finish(r, rep)
  PROVE  /\ pc' \in [Requests -> Waits \cup {"idle", "done"}]
         /\ ask' \in [Requests -> Asks]
         /\ search' \in [Requests -> [cursor : Nat, pages : Nat, matches : SUBSET Nat]]
         /\ reply' \in [Requests -> Replies]
  BY NoAskIsAsk DEF TypeOK, Finish, NoSearch

\* A new row and a new POST have the id nobody had.
LEMMA AddRowType ==
  ASSUME TypeOK, NEW a \in Attempts, NEW t \in Targets, AddRow(a, t)
  PROVE  /\ created' = created + 1
         /\ DOMAIN journal' \subseteq 1 .. created'
         /\ \A id \in DOMAIN journal' : journal'[id] \in Entry
         /\ \A id \in DOMAIN journal' : id # created + 1 =>
              id \in DOMAIN journal /\ journal'[id] = journal[id]
         /\ created + 1 \in DOMAIN journal' => journal'[created + 1] = NewEntry(a, t)
         /\ Backend = "postgresql" => DOMAIN journal' = DOMAIN journal \cup {created + 1}
<1>1. NewEntry(a, t) \in Entry
  BY DEF NewEntry, Entry, States, Categories
<1> QED
  BY <1>1 DEF AddRow, Retained, TypeOK

LEMMA PostsWithType ==
  ASSUME TypeOK, NEW t \in Targets, created' = created + 1,
         post' = PostsWith(created + 1, t)
  PROVE  /\ DOMAIN post' = DOMAIN post \cup {created + 1}
         /\ DOMAIN post' \subseteq 1 .. created'
         /\ \A id \in DOMAIN post' : post'[id] \in [target : Targets, answer : Answers]
         /\ \A id \in DOMAIN post : post'[id] = post[id]
         /\ post'[created + 1] = [target |-> t, answer |-> "pending"]
  BY DEF PostsWith, TypeOK, Answers

LEMMA OutcomeType ==
  ASSUME NEW answer \in Statuses
  PROVE  /\ OutcomeOf(answer) \in [state : Terminal, status : Statuses, category : Categories]
         /\ ReplyTo(answer) \in Replies
  BY DEF OutcomeOf, Outcome, CategoryOf, ReplyTo, Statuses, Refusals, Terminal, Categories,
         Replies

LEMMA FinalizeType ==
  ASSUME TypeOK, NEW r \in Requests, NEW rep \in Replies,
         NEW o \in [state : Terminal, status : Statuses \cup {"none"}, category : Categories],
         Finalize(r, o, rep)
  PROVE  /\ pc' \in [Requests -> Waits \cup {"idle", "done"}]
         /\ ask' \in [Requests -> Asks]
         /\ search' \in [Requests -> [cursor : Nat, pages : Nat, matches : SUBSET Nat]]
         /\ reply' \in [Requests -> Replies]
         /\ DOMAIN journal' = DOMAIN journal
         /\ \A id \in DOMAIN journal' : journal'[id] \in Entry
<1>1. PICK other \in Replies : Finish(r, other)
  BY DEF Finalize, Replies
<1>2. /\ DOMAIN journal' = DOMAIN journal
      /\ \A id \in DOMAIN journal' : journal'[id] \in Entry
  <2>1. CASE UNCHANGED journal
    BY <2>1 DEF TypeOK
  <2>2. CASE CanFinalize(action[r]) /\ MarkTerminal(action[r], o)
    <3>1. journal[action[r]] \in Entry
      BY <2>2 DEF CanFinalize, TypeOK
    <3>2. [journal[action[r]] EXCEPT !.state = o.state, !.status = o.status,
                                     !.category = o.category] \in Entry
      BY <3>1 DEF Entry, States
    <3> QED
      BY <2>2, <3>2 DEF CanFinalize, MarkTerminal, TypeOK
  <2> QED
    BY <2>1, <2>2 DEF Finalize
<1> QED
  BY <1>1, <1>2, FinishType

-----------------------------------------------------------------------------
(* Type correctness.                                                       *)

\* The cursor a search holds never runs past the history it came from, its
\* matches are records with the attempt's guid, and a handler that is not
\* searching holds no search.
Verified(i, a) == i \in DOMAIN history /\ history[i].guid = GuidOf[a]

SearchOK ==
  \A r \in Requests :
    /\ search[r].cursor <= Len(history) + 1
    /\ \A i \in search[r].matches : Verified(i, ask[r].attempt)
    /\ pc[r] # "search" => search[r] = NoSearch

\* A handler that waits for GitHub's answer has a POST under way.
ActionOK ==
  \A r \in Requests :
    /\ pc[r] = "post" => action[r] \in DOMAIN post
    /\ pc[r] \in {"lookup", "search"} => action[r] = 0

\* A POST names a record of the history.
TargetOK == \A id \in DOMAIN post : post[id].target \in DOMAIN history

TypeInv == TypeOK /\ SearchOK /\ ActionOK /\ TargetOK

\* A search that goes on goes on alone: the others, and those that end, are
\* untouched or gone, and the history only grows.
LEMMA SearchKept ==
  ASSUME TypeOK, SearchOK,
         \A q \in Requests :
           \/ search'[q] = NoSearch
           \/ /\ pc[q] = "search" /\ pc'[q] = "search"
              /\ search'[q] = search[q] /\ ask'[q] = ask[q],
         \/ UNCHANGED history
         \/ \E e \in [guid : Guids, by : Nat] : history' = Append(history, e)
  PROVE  SearchOK'
<1>1. /\ Len(history') >= Len(history) /\ Len(history) \in Nat /\ Len(history') \in Nat
      /\ \A i \in DOMAIN history : i \in DOMAIN history' /\ history'[i] = history[i]
  <2>1. CASE UNCHANGED history
    BY <2>1 DEF TypeOK
  <2>2. ASSUME NEW e \in [guid : Guids, by : Nat], history' = Append(history, e)
        PROVE  <1>1!:
    BY <2>2, AppendGrows DEF TypeOK
  <2> QED
    BY <2>1, <2>2
<1> SUFFICES ASSUME NEW q \in Requests
             PROVE  /\ search'[q].cursor <= Len(history') + 1
                    /\ \A i \in search'[q].matches :
                         /\ i \in DOMAIN history'
                         /\ history'[i].guid = GuidOf[ask'[q].attempt]
                    /\ pc'[q] # "search" => search'[q] = NoSearch
  BY DEF SearchOK, Verified
<1>2. CASE search'[q] = NoSearch
  <2>1. search'[q].cursor = 0 /\ search'[q].matches = {}
    BY <1>2 DEF NoSearch
  <2> QED
    BY <1>1, <1>2, <2>1
<1>3. CASE pc[q] = "search" /\ pc'[q] = "search" /\ search'[q] = search[q] /\ ask'[q] = ask[q]
  <2>1. /\ search[q].cursor <= Len(history) + 1
        /\ \A i \in search[q].matches :
             i \in DOMAIN history /\ history[i].guid = GuidOf[ask[q].attempt]
    BY DEF SearchOK, Verified
  <2>2. search[q].cursor \in Nat
    BY DEF TypeOK
  <2> QED
    BY <1>1, <1>3, <2>1, <2>2
<1> QED
  BY <1>2, <1>3

LEMMA InitType == Init => TypeInv
  BY NoAskIsAsk
  DEF Init, TypeInv, TypeOK, SearchOK, ActionOK, TargetOK, NoSearch, Replies

LEMMA SubmitType ==
  ASSUME TypeInv, NEW r \in Requests, Submit(r)
  PROVE  TypeInv'
<1> USE DEF TypeInv
<1>1. CASE Finish(r, "refused")
  <2>1. "refused" \in Replies
    BY DEF Replies
  <2>2. TypeOK'
    BY <1>1, <2>1, FinishType DEF Submit, TypeOK, githubVars
  <2>3. SearchOK'
    BY <1>1, SearchKept DEF Submit, Finish, SearchOK, TypeOK, githubVars
  <2> QED
    BY <1>1, <2>2, <2>3 DEF Submit, Finish, TypeOK, ActionOK, TargetOK, githubVars
<1>2. ASSUME NEW a \in Attempts, NEW t \in Targets,
             pc' = [pc EXCEPT ![r] = "lookup"],
             ask' = [ask EXCEPT ![r] = [attempt |-> a, target |-> t]],
             reply' = [reply EXCEPT ![r] = "none"],
             UNCHANGED search
      PROVE  TypeInv'
  <2>1. TypeOK'
    BY <1>2 DEF Submit, Waits, TypeOK, Asks, Replies, githubVars
  <2>2. search[r] = NoSearch
    BY DEF Submit, Live, Waits, SearchOK
  <2>3. SearchOK'
    BY <1>2, <2>2, SearchKept DEF Submit, SearchOK, TypeOK, githubVars
  <2> QED
    BY <1>2, <2>1, <2>3 DEF Submit, TypeOK, ActionOK, TargetOK, githubVars
<1> QED
  BY <1>1, <1>2 DEF Submit

LEMMA LookupType ==
  ASSUME TypeInv, NEW r \in Requests, Lookup(r)
  PROVE  TypeInv'
<1> USE DEF TypeInv
<1>1. CASE \E rep \in Replies : Finish(r, rep)
  <2>1. TypeOK'
    BY <1>1, FinishType DEF Lookup, TypeOK, githubVars
  <2>2. SearchOK'
    BY <1>1, SearchKept DEF Lookup, Finish, SearchOK, TypeOK, githubVars
  <2> QED
    BY <1>1, <2>1, <2>2 DEF Lookup, Finish, TypeOK, ActionOK, TargetOK, githubVars
<1>2. CASE /\ pc' = [pc EXCEPT ![r] = "search"]
           /\ search' = [search EXCEPT ![r] = NoSearch]
           /\ UNCHANGED <<ask, reply>>
  <2>1. TypeOK'
    BY <1>2 DEF Lookup, NoSearch, Waits, TypeOK, githubVars
  <2>2. SearchOK'
    BY <1>2, SearchKept DEF Lookup, SearchOK, TypeOK, githubVars
  <2> QED
    BY <1>2, <2>1, <2>2 DEF Lookup, TypeOK, ActionOK, TargetOK, githubVars
<1> QED
  BY <1>1, <1>2 DEF Lookup, LookupFailure, Replies

LEMMA ReceivePageType ==
  ASSUME TypeInv, NEW r \in Requests, ReceivePage(r)
  PROVE  TypeInv'
<1> USE DEF TypeInv
<1>t. ask[r] \in Asks /\ ask[r].attempt \in Attempts /\ ask[r].target \in Targets
  BY DEF TypeOK, Asks
<1>1. CASE SearchFails(r)
  <2>1. PICK rep \in Replies : Finish(r, rep)
    BY <1>1 DEF SearchFails, Replies
  <2>2. TypeOK'
    BY <1>1, <2>1, FinishType DEF SearchFails, ReceivePage, TypeOK
  <2>3. SearchOK'
    BY <2>1, SearchKept DEF ReceivePage, Finish, SearchOK, TypeOK
  <2> QED
    BY <1>1, <2>1, <2>2, <2>3
    DEF SearchFails, ReceivePage, Finish, TypeOK, ActionOK, TargetOK
<1>m. ASSUME NEW i \in MatchesOn(Page(search[r].cursor), GuidOf[ask[r].attempt])
      PROVE  i \in Nat /\ Verified(i, ask[r].attempt)
  BY ConstantsAssumption
  DEF MatchesOn, Page, Top, Verified, TypeOK, SearchOK
<1> DEFINE found == search[r].matches
                      \cup MatchesOn(Page(search[r].cursor), GuidOf[ask[r].attempt])
<1>f. found \in SUBSET Nat /\ \A i \in found : Verified(i, ask[r].attempt)
  BY <1>m DEF TypeOK, SearchOK
<1> HIDE DEF found
<1>2. ASSUME NextPage(r, found), Older(search[r].cursor)
      PROVE  TypeInv'
  <2>1. /\ CursorAfter(search[r].cursor) \in Nat
        /\ CursorAfter(search[r].cursor) <= Len(history) + 1
    BY <1>2, ConstantsAssumption DEF CursorAfter, Older, Top, TypeOK, SearchOK
  <2>2. TypeOK'
    BY <1>2, <1>f, <2>1 DEF NextPage, ReceivePage, TypeOK
  <2>3. /\ search'[r].cursor <= Len(history') + 1
        /\ search'[r].matches = found
        /\ UNCHANGED <<history, ask, pc>>
        /\ \A q \in Requests \ {r} : search'[q] = search[q]
    BY <1>2, <2>1 DEF NextPage, ReceivePage, TypeOK
  <2>4. SearchOK'
    <3>1. pc[r] = "search"
      BY DEF ReceivePage
    <3>2. ASSUME NEW q \in Requests, q = r PROVE SearchOK!(q)'
      BY <1>f, <2>3, <3>1, <3>2 DEF Verified
    <3>3. ASSUME NEW q \in Requests, q # r PROVE SearchOK!(q)'
      BY <2>3, <3>3 DEF SearchOK, Verified
    <3> QED
      BY <3>2, <3>3 DEF SearchOK
  <2> QED
    BY <1>2, <2>2, <2>4 DEF NextPage, ReceivePage, ActionOK, TargetOK
<1>3. CASE ask[r].target \in found /\ CreateAndPost(r)
  <2>1. /\ created' = created + 1
        /\ DOMAIN journal' \subseteq 1 .. created'
        /\ \A id \in DOMAIN journal' : journal'[id] \in Entry
    BY <1>t, <1>3, AddRowType DEF CreateAndPost
  <2>2. /\ DOMAIN post' = DOMAIN post \cup {created + 1}
        /\ DOMAIN post' \subseteq 1 .. created'
        /\ \A id \in DOMAIN post' : post'[id] \in [target : Targets, answer : Answers]
        /\ \A id \in DOMAIN post : post'[id] = post[id]
        /\ post'[created + 1].target = ask[r].target
    <3>1. post' = PostsWith(created + 1, ask[r].target)
      BY <1>3 DEF CreateAndPost
    <3>2. post'[created + 1] = [target |-> ask[r].target, answer |-> "pending"]
      BY <1>t, <2>1, <3>1, PostsWithType
    <3>3. post'[created + 1].target = ask[r].target
      BY <3>2
    <3> QED
      BY <1>t, <2>1, <3>1, <3>3, PostsWithType
  <2>3. TypeOK'
    BY <1>3, <2>1, <2>2 DEF CreateAndPost, ReceivePage, NoSearch, Waits, TypeOK
  <2>4. SearchOK'
    BY <1>3, SearchKept DEF CreateAndPost, ReceivePage, SearchOK, TypeOK
  <2>5. ask[r].target \in DOMAIN history
    BY <1>3, <1>f DEF Verified
  <2> QED
    BY <1>3, <2>2, <2>3, <2>4, <2>5
    DEF CreateAndPost, ReceivePage, TypeOK, ActionOK, TargetOK
<1>4. CASE CreateFails(r)
  <2>1. \/ AddRow(ask[r].attempt, ask[r].target)
        \/ UNCHANGED <<journal, created>>
    BY <1>4 DEF CreateFails
  <2>2. /\ created' \in Nat /\ created' >= created
        /\ DOMAIN journal' \subseteq 1 .. created'
        /\ \A id \in DOMAIN journal' : journal'[id] \in Entry
    BY <1>t, <2>1, AddRowType DEF TypeOK
  <2>3. "journal_unavailable" \in Replies
    BY DEF Replies
  <2>4. TypeOK'
    BY <1>4, <2>2, <2>3, FinishType DEF CreateFails, ReceivePage, TypeOK
  <2>5. SearchOK'
    BY <1>4, SearchKept DEF CreateFails, ReceivePage, Finish, SearchOK, TypeOK
  <2> QED
    BY <1>4, <2>4, <2>5
    DEF CreateFails, ReceivePage, Finish, TypeOK, ActionOK, TargetOK
<1>5. CASE Finish(r, "unverified") /\ UNCHANGED <<action, journal, created, post>>
  <2>1. "unverified" \in Replies
    BY DEF Replies
  <2>2. TypeOK'
    BY <1>5, <2>1, FinishType DEF ReceivePage, TypeOK
  <2>3. SearchOK'
    BY <1>5, SearchKept DEF ReceivePage, Finish, SearchOK, TypeOK
  <2> QED
    BY <1>5, <2>2, <2>3 DEF ReceivePage, Finish, TypeOK, ActionOK, TargetOK
<1> QED
  BY <1>1, <1>2, <1>3, <1>4, <1>5 DEF ReceivePage, PageArrives, Verify, found

\* Any of the handler's ways to end the POST.
LEMMA FinalizeKeepsType ==
  ASSUME TypeInv, NEW r \in Requests, NEW rep \in Replies,
         NEW o \in [state : Terminal, status : Statuses \cup {"none"}, category : Categories],
         Finalize(r, o, rep),
         DOMAIN post' = DOMAIN post,
         \A id \in DOMAIN post' : /\ post'[id] \in [target : Targets, answer : Answers]
                                  /\ post'[id].target = post[id].target
  PROVE  TypeInv'
<1> USE DEF TypeInv
<1>1. PICK other : Finish(r, other)
  BY DEF Finalize
<1>2. TypeOK'
  BY FinalizeType DEF Finalize, TypeOK
<1>3. SearchOK'
  BY <1>1, SearchKept DEF Finalize, Finish, SearchOK, TypeOK
<1> QED
  BY <1>1, <1>2, <1>3 DEF Finalize, Finish, TypeOK, ActionOK, TargetOK

LEMMA AnsweredType ==
  ASSUME TypeInv, NEW r \in Requests, Answered(r)
  PROVE  TypeInv'
<1>1. /\ OutcomeOf(Answer(r)) \in
           [state : Terminal, status : Statuses \cup {"none"}, category : Categories]
      /\ ReplyTo(Answer(r)) \in Replies
  BY OutcomeType DEF Answered
<1> QED
  BY <1>1, FinalizeKeepsType DEF Answered, TypeInv, TypeOK

LEMMA ConnectFailsType ==
  ASSUME TypeInv, NEW r \in Requests, ConnectFails(r)
  PROVE  TypeInv'
<1> DEFINE o == Outcome("failed", "none", "upstream_unavailable")
<1>1. o \in [state : Terminal, status : Statuses \cup {"none"}, category : Categories]
  BY DEF Outcome, Terminal, Categories
<1>2. "upstream_unavailable" \in Replies
  BY DEF Replies
<1>3. /\ DOMAIN post' = DOMAIN post
      /\ \A id \in DOMAIN post' : /\ post'[id] \in [target : Targets, answer : Answers]
                                  /\ post'[id].target = post[id].target
  BY DEF ConnectFails, TypeInv, TypeOK, Answers
<1>4. Finalize(r, o, "upstream_unavailable")
  BY DEF ConnectFails
<1> HIDE DEF o
<1> QED
  BY <1>1, <1>2, <1>3, <1>4, FinalizeKeepsType

LEMMA TimesOutType ==
  ASSUME TypeInv, NEW r \in Requests, TimesOut(r)
  PROVE  TypeInv'
<1> DEFINE o == Outcome("outcome_unknown", "none", "outcome_unknown")
<1>1. o \in [state : Terminal, status : Statuses \cup {"none"}, category : Categories]
  BY DEF Outcome, Terminal, Categories
<1>2. "outcome_unknown" \in Replies
  BY DEF Replies
<1>3. Finalize(r, o, "outcome_unknown") /\ UNCHANGED post
  BY DEF TimesOut
<1> HIDE DEF o
<1> QED
  BY <1>1, <1>2, <1>3, FinalizeKeepsType DEF TypeInv, TypeOK

LEMMA EnvironmentType ==
  ASSUME TypeInv, Environment
  PROVE  TypeInv'
<1> USE DEF TypeInv
<1>1. ASSUME NEW id \in DOMAIN post, GitHubHandles(id) PROVE TypeInv'
  <2>1. PICK answer \in Statuses : post' = [post EXCEPT ![id].answer = answer]
    BY <1>1 DEF GitHubHandles
  <2>2. /\ DOMAIN post' = DOMAIN post
        /\ \A other \in DOMAIN post' :
             /\ post'[other] \in [target : Targets, answer : Answers]
             /\ post'[other].target = post[other].target
    BY <2>1 DEF TypeOK, Answers
  <2>3. TypeOK'
    BY <1>1, <2>2 DEF GitHubHandles, TypeOK, handlerVars
  <2>4. SearchOK'
    BY <1>1 DEF GitHubHandles, SearchOK, Verified, handlerVars
  <2> QED
    BY <1>1, <2>2, <2>3, <2>4 DEF GitHubHandles, ActionOK, TargetOK, handlerVars
<1>2. ASSUME NEW e \in [guid : Guids, by : Nat], history' = Append(history, e),
             owed' \in SUBSET owed, UNCHANGED <<handlerVars, journal, created, post>>
      PROVE  TypeInv'
  <2>1. TypeOK'
    BY <1>2 DEF TypeOK, handlerVars
  <2>2. SearchOK'
    BY <1>2, SearchKept DEF SearchOK, TypeOK, handlerVars
  <2>3. \A i \in DOMAIN history : i \in DOMAIN history'
    BY <1>2, AppendGrows DEF TypeOK
  <2>4. TargetOK'
    BY <1>2, <2>3 DEF TargetOK, handlerVars
  <2>5. ActionOK'
    BY <1>2 DEF ActionOK, handlerVars
  <2> QED
    BY <2>1, <2>2, <2>4, <2>5
<1>3. ASSUME NEW id \in DOMAIN post, Redeliver(id) PROVE TypeInv'
  <2>1. history[post[id].target].guid \in Guids /\ id \in Nat
    <3>1. post[id].target \in DOMAIN history
      BY DEF TargetOK
    <3>2. history[post[id].target] \in [guid : Guids, by : Nat]
      BY <3>1, ElementOfSeq DEF TypeOK
    <3> QED
      BY <3>2 DEF TypeOK
  <2>2. Record(history[post[id].target].guid, id) \in [guid : Guids, by : Nat]
    BY <2>1 DEF Record
  <2> QED
    BY <1>2, <1>3, <2>2 DEF Redeliver
<1>4. ASSUME NEW guid \in Guids, Deliver(guid) PROVE TypeInv'
  <2>1. Record(guid, 0) \in [guid : Guids, by : Nat]
    BY DEF Record
  <2> QED
    BY <1>2, <1>4, <2>1 DEF Deliver
<1>5. CASE Restart
  <2>1. TypeOK'
    BY <1>5, NoAskIsAsk DEF Restart, Live, Waits, NoSearch, TypeOK, githubVars
  <2>2. SearchOK'
    BY <1>5, SearchKept DEF Restart, githubVars
  <2> QED
    BY <1>5, <2>1, <2>2 DEF Restart, Live, Waits, TypeOK, ActionOK, TargetOK, githubVars
<1> QED
  BY <1>1, <1>3, <1>4, <1>5 DEF Environment

LEMMA StutterType ==
  ASSUME TypeInv, UNCHANGED vars
  PROVE  TypeInv'
  BY DEF vars, TypeInv, TypeOK, SearchOK, ActionOK, TargetOK, Verified, Finish

LEMMA NextType == TypeInv /\ [Next]_vars => TypeInv'
  BY SubmitType, LookupType, ReceivePageType, AnsweredType, ConnectFailsType, TimesOutType,
     EnvironmentType, StutterType
  DEF Next, HandlerStep

\* The variables stay of their types in every behaviour.
THEOREM TypeCorrect == Spec => []TypeOK
<1>1. TypeInv => TypeOK
  BY DEF TypeInv
<1> QED
  BY <1>1, InitType, NextType, PTL DEF Spec

-----------------------------------------------------------------------------
(* The kinds of steps, by what they do to journal, POSTs and history.       *)

Outcomes == [state : Terminal, status : Statuses \cup {"none"}, category : Categories]

\* No handler starts to wait for an answer, and none takes another id.
NoNewPost ==
  \A q \in Requests :
    /\ pc'[q] = "post" => pc[q] = "post" /\ action'[q] = action[q]
    /\ action'[q] \in {action[q], 0}

\* The replies that say something of a POST; no handler gives one about an
\* action of its own.
Claims == {"accepted", "outcome_unknown", "bad_gateway"}

NoNewClaim ==
  \A q \in Requests : pc'[q] = "done" /\ reply'[q] \in Claims =>
    \/ pc[q] = "done" /\ reply'[q] = reply[q] /\ action'[q] = action[q]
    \/ reply'[q] = "bad_gateway" /\ action'[q] = 0

\* Handlers but r stay as they are.
OthersStay(r) ==
  \A q \in Requests \ {r} :
    pc'[q] = pc[q] /\ reply'[q] = reply[q] /\ action'[q] = action[q]

WaitersStay ==
  \A q \in Requests : pc[q] = "post" => pc'[q] = "post" /\ action'[q] = action[q]

\* Nothing but, with the memory journal, a loss of rows.
Quiet ==
  /\ NoNewPost
  /\ NoNewClaim
  /\ Backend = "memory" => WaitersStay \/ DOMAIN journal' = {}
  /\ DOMAIN journal' \subseteq DOMAIN journal
  /\ \A id \in DOMAIN journal' : journal'[id] = journal[id]
  /\ Backend = "postgresql" => journal' = journal
  /\ UNCHANGED githubVars

\* r posts a verified target.
Posts(r) ==
  /\ pc[r] = "search" /\ OthersStay(r)
  /\ Verified(ask[r].target, ask[r].attempt)
  /\ AddRow(ask[r].attempt, ask[r].target)
  /\ post' = PostsWith(created + 1, ask[r].target)
  /\ pc' = [pc EXCEPT ![r] = "post"]
  /\ action' = [action EXCEPT ![r] = created + 1]
  /\ UNCHANGED <<owed, history>>

\* A row whose commit was not confirmed.
RowOnly(a, t) ==
  /\ NoNewPost
  /\ NoNewClaim
  /\ Backend = "postgresql"
  /\ AddRow(a, t)
  /\ UNCHANGED githubVars

\* r stops waiting; its row takes an outcome that fits the answer, and so does
\* the reply.
Settles(r, o) ==
  /\ pc[r] = "post" /\ pc'[r] # "post"
  /\ NoNewPost /\ OthersStay(r) /\ action'[r] = action[r]
  /\ \/ CanFinalize(action[r]) /\ MarkTerminal(action[r], o)
     \/ /\ UNCHANGED journal
        /\ CanFinalize(action[r]) => Backend = "postgresql"
        /\ reply'[r] \notin Claims
  /\ reply'[r] \in {"accepted", "outcome_unknown"} => o.state = reply'[r]
  /\ reply'[r] = "bad_gateway" => Answer(r) \in Refusals
  /\ \/ UNCHANGED post
     \/ /\ Answer(r) = "pending"
        /\ post' = [post EXCEPT ![action[r]].answer = "unreached"]
  /\ UNCHANGED <<owed, history>>
  /\ o.state = "accepted" => Answer(r) = "accepted_202"
  /\ o.state = "failed" /\ o.status # "error_5xx" =>
       post'[action[r]].answer \in Refusals \cup {"unreached"}

FitsSome ==
  \/ Quiet
  \/ \E r \in Requests : Posts(r)
  \/ \E a \in Attempts, t \in Targets : RowOnly(a, t)
  \/ \E r \in Requests, o \in Outcomes : Settles(r, o)
  \/ \E id \in DOMAIN post : GitHubHandles(id) \/ Redeliver(id)
  \/ \E guid \in Guids : Deliver(guid)

\* A handler that finishes is not one that starts to wait, and says no more
\* than its reply.
LEMMA FinishIsNoPost ==
  ASSUME TypeOK, NEW r \in Requests, NEW rep, Finish(r, rep), UNCHANGED action
  PROVE  /\ NoNewPost /\ OthersStay(r)
         /\ pc'[r] = "done" /\ reply'[r] = rep
         /\ rep \notin Claims \/ (rep = "bad_gateway" /\ action[r] = 0) => NoNewClaim
         /\ pc[r] # "post" => WaitersStay
<1>1. /\ pc'[r] = "done" /\ reply'[r] = rep /\ action' = action
      /\ OthersStay(r)
  BY DEF Finish, OthersStay, TypeOK
<1> QED
  BY <1>1 DEF NoNewPost, NoNewClaim, OthersStay, WaitersStay

LEMMA ReceivePageKind ==
  ASSUME TypeInv, NEW r \in Requests, ReceivePage(r)
  PROVE  FitsSome
<1> DEFINE found == search[r].matches
                      \cup MatchesOn(Page(search[r].cursor), GuidOf[ask[r].attempt])
<1>1. \A i \in found : Verified(i, ask[r].attempt)
  BY ConstantsAssumption
  DEF MatchesOn, Page, Top, Verified, TypeInv, TypeOK, SearchOK
<1>2. /\ ask[r].attempt \in Attempts /\ ask[r].target \in Targets
      /\ pc[r] = "search" /\ action[r] = 0 /\ UNCHANGED <<owed, history>>
  BY DEF TypeInv, TypeOK, ActionOK, Asks, ReceivePage
<1> HIDE DEF found
<1>e. ASSUME NEW rep, rep \notin {"accepted", "outcome_unknown"}, Finish(r, rep),
             UNCHANGED action
      PROVE  NoNewPost /\ NoNewClaim /\ WaitersStay
  BY <1>2, <1>e, FinishIsNoPost DEF TypeInv, Claims
<1>3. CASE SearchFails(r)
  <2>1. NoNewPost /\ NoNewClaim /\ WaitersStay
    BY <1>3, <1>e DEF SearchFails
  <2> QED
    BY <1>2, <1>3, <2>1 DEF FitsSome, Quiet, SearchFails, githubVars
<1>4. CASE NextPage(r, found)
  BY <1>2, <1>4
  DEF FitsSome, Quiet, NoNewPost, NoNewClaim, WaitersStay, NextPage, githubVars
<1>5. CASE ask[r].target \in found /\ CreateAndPost(r)
  <2>1. OthersStay(r)
    BY <1>5 DEF CreateAndPost, OthersStay, TypeInv, TypeOK
  <2> QED
    BY <1>1, <1>2, <1>5, <2>1 DEF FitsSome, Posts, CreateAndPost
<1>6. CASE CreateFails(r)
  <2>1. NoNewPost /\ NoNewClaim /\ WaitersStay
    BY <1>6, <1>e DEF CreateFails
  <2>2. CASE AddRow(ask[r].attempt, ask[r].target)
    BY <1>2, <1>6, <2>1, <2>2 DEF FitsSome, RowOnly, CreateFails, githubVars
  <2>3. CASE UNCHANGED <<journal, created>>
    BY <1>2, <1>6, <2>1, <2>3 DEF FitsSome, Quiet, CreateFails, githubVars
  <2> QED
    BY <1>6, <2>2, <2>3 DEF CreateFails
<1>7. CASE Finish(r, "unverified") /\ UNCHANGED <<action, journal, created, post>>
  <2>1. NoNewPost /\ NoNewClaim /\ WaitersStay
    BY <1>7, <1>e
  <2> QED
    BY <1>2, <1>7, <2>1 DEF FitsSome, Quiet, githubVars
<1> QED
  BY <1>3, <1>4, <1>5, <1>6, <1>7 DEF ReceivePage, PageArrives, Verify, found

\* What finalize and the reply after it leave behind.
LEMMA FinalizeEffects ==
  ASSUME TypeOK, NEW r \in Requests, NEW o \in Outcomes, NEW rep, Finalize(r, o, rep)
  PROVE  /\ pc'[r] # "post" /\ NoNewPost /\ OthersStay(r) /\ action'[r] = action[r]
         /\ \/ /\ CanFinalize(action[r]) /\ MarkTerminal(action[r], o)
               /\ reply'[r] \in {rep, "journal_unavailable"}
            \/ /\ UNCHANGED journal
               /\ CanFinalize(action[r]) => Backend = "postgresql"
               /\ reply'[r] \in {"internal_error", "journal_unavailable"}
         /\ UNCHANGED <<owed, history>>
<1>1. UNCHANGED <<action, owed, history>>
  BY DEF Finalize
<1>2. CASE CanFinalize(action[r]) /\ MarkTerminal(action[r], o) /\ Finish(r, rep)
  BY <1>1, <1>2, FinishIsNoPost
<1>3. CASE ~CanFinalize(action[r]) /\ Finish(r, "internal_error") /\ UNCHANGED journal
  BY <1>1, <1>3, FinishIsNoPost
<1>4. CASE /\ Backend = "postgresql"
           /\ \/ CanFinalize(action[r]) /\ MarkTerminal(action[r], o)
              \/ UNCHANGED journal
           /\ Finish(r, "journal_unavailable")
  BY <1>1, <1>4, FinishIsNoPost
<1> QED
  BY <1>2, <1>3, <1>4 DEF Finalize

\* The three ways a wait for GitHub ends.
LEMMA EndOfPostKind ==
  ASSUME TypeInv, NEW r \in Requests, Answered(r) \/ ConnectFails(r) \/ TimesOut(r)
  PROVE  FitsSome
<1> USE DEF TypeInv
<1>1. CASE Answered(r)
  <2> DEFINE o == OutcomeOf(Answer(r))
             rep == ReplyTo(Answer(r))
  <2>1. /\ o \in Outcomes
        /\ o.state = "accepted" => Answer(r) = "accepted_202"
        /\ o.state = "failed" /\ o.status # "error_5xx" => Answer(r) \in Refusals
        /\ rep \in {"accepted", "outcome_unknown"} => o.state = rep
    BY <1>1, OutcomeType DEF Answered, OutcomeOf, Outcome, Outcomes, Statuses, ReplyTo
  <2>2. rep = "bad_gateway" => Answer(r) \in Refusals
    BY <1>1 DEF Answered, ReplyTo, Statuses
  <2>3. Finalize(r, o, rep) /\ UNCHANGED post /\ pc[r] = "post"
    BY <1>1 DEF Answered
  <2> HIDE DEF o, rep
  <2>4. Settles(r, o)
    BY <2>1, <2>2, <2>3, FinalizeEffects DEF Settles, Answer, Claims
  <2> QED
    BY <2>1, <2>4 DEF FitsSome
<1>2. CASE ConnectFails(r)
  <2> DEFINE o == Outcome("failed", "none", "upstream_unavailable")
  <2>1. o \in Outcomes /\ o.state = "failed"
    BY DEF Outcome, Outcomes, Terminal, Categories
  <2>2. /\ Finalize(r, o, "upstream_unavailable") /\ pc[r] = "post" /\ Answer(r) = "pending"
        /\ post' = [post EXCEPT ![action[r]].answer = "unreached"]
    BY <1>2 DEF ConnectFails
  <2> HIDE DEF o
  <2>3. post'[action[r]].answer = "unreached"
    BY <2>2 DEF ActionOK, TypeOK
  <2>4. Settles(r, o)
    BY <2>1, <2>2, <2>3, FinalizeEffects DEF Settles, Claims
  <2> QED
    BY <2>1, <2>4 DEF FitsSome
<1>3. CASE TimesOut(r)
  <2> DEFINE o == Outcome("outcome_unknown", "none", "outcome_unknown")
  <2>1. o \in Outcomes /\ o.state = "outcome_unknown"
    BY DEF Outcome, Outcomes, Terminal, Categories
  <2>2. Finalize(r, o, "outcome_unknown") /\ UNCHANGED post /\ pc[r] = "post"
    BY <1>3 DEF TimesOut
  <2> HIDE DEF o
  <2>3. Settles(r, o)
    BY <2>1, <2>2, FinalizeEffects DEF Settles, Claims
  <2> QED
    BY <2>1, <2>3 DEF FitsSome
<1> QED
  BY <1>1, <1>2, <1>3

LEMMA StepKinds == TypeInv /\ [Next]_vars => FitsSome
<1> SUFFICES ASSUME TypeInv, [Next]_vars PROVE FitsSome
  OBVIOUS
<1> USE DEF TypeInv
<1>1. ASSUME NEW r \in Requests, Submit(r) PROVE FitsSome
  <2>1. pc[r] \notin Waits /\ UNCHANGED <<journal, githubVars>>
    BY <1>1 DEF Submit, Live
  <2>2. NoNewPost /\ NoNewClaim /\ WaitersStay
    BY <1>1, <2>1
    DEF Submit, Waits, Finish, NoNewPost, NoNewClaim, Claims, WaitersStay, TypeOK
  <2> QED
    BY <2>1, <2>2 DEF FitsSome, Quiet
<1>2. ASSUME NEW r \in Requests, Lookup(r) PROVE FitsSome
  <2>1. pc[r] = "lookup" /\ UNCHANGED <<action, journal, githubVars>>
    BY <1>2 DEF Lookup
  <2>2. NoNewPost /\ NoNewClaim /\ WaitersStay
    BY <1>2, <2>1
    DEF Lookup, LookupFailure, Finish, NoNewPost, NoNewClaim, Claims, WaitersStay, TypeOK
  <2> QED
    BY <2>1, <2>2 DEF FitsSome, Quiet
<1>3. CASE Restart
  <2>1. NoNewPost /\ NoNewClaim
    BY <1>3 DEF Restart, Live, Waits, NoNewPost, NoNewClaim, TypeOK
  <2>2. Backend = "memory" => DOMAIN journal' = {}
    BY <1>3 DEF Restart
  <2> QED
    BY <1>3, <2>1, <2>2, ConstantsAssumption DEF Restart, FitsSome, Quiet, githubVars
<1>4. CASE UNCHANGED vars
  BY <1>4 DEF vars, FitsSome, Quiet, NoNewPost, NoNewClaim, WaitersStay, githubVars
<1>5. CASE \/ \E id \in DOMAIN post : GitHubHandles(id) \/ Redeliver(id)
           \/ \E guid \in Guids : Deliver(guid)
  BY <1>5 DEF FitsSome
<1> QED
  BY <1>1, <1>2, <1>3, <1>4, <1>5, ReceivePageKind, EndOfPostKind
  DEF Next, HandlerStep, Environment

-----------------------------------------------------------------------------
(* The safety invariants. Each is inductive together with TypeInv and       *)
(* EffectOK; the steps are taken kind by kind.                              *)

\* GitHub has taken on a redelivery, or not, as its answer says.
EffectOK ==
  /\ \A i \in DOMAIN history : history[i].by # 0 => history[i].by \in DOMAIN post
  /\ \A id \in DOMAIN post :
       /\ post[id].answer \in Refusals \cup {"pending", "unreached"} => ~Effect(id)
       /\ post[id].answer = "accepted_202" => Effect(id)

SafetyInv ==
  /\ TypeInv
  /\ EffectOK
  /\ PostsVerified
  /\ IntentOnRecord
  /\ HandlersOwnTheirRows
  /\ OutcomeIsTruthful

LEMMA SafetyInit == Init => SafetyInv
  BY InitType
  DEF Init, SafetyInv, EffectOK, PostsVerified, IntentOnRecord, HandlersOwnTheirRows,
      OutcomeIsTruthful

\* What GitHub owes and has delivered, when neither changes.
LEMMA EffectSame ==
  ASSUME UNCHANGED <<owed, history>>
  PROVE  \A id : Effect(id)' = Effect(id)
  BY DEF Effect, RedeliveredBy

LEMMA NoEffectOfOthers ==
  ASSUME TypeInv, EffectOK, NEW id \in Nat \ {0}, id \notin DOMAIN post
  PROVE  ~Effect(id)
<1>1. id \notin owed
  BY DEF TypeInv, TypeOK
<1>2. \A i \in DOMAIN history : history[i].by # id
  BY DEF EffectOK
<1> QED
  BY <1>1, <1>2 DEF Effect, RedeliveredBy

LEMMA QuietSafe ==
  ASSUME SafetyInv, TypeInv', Quiet
  PROVE  SafetyInv'
<1> USE DEF SafetyInv, Quiet, githubVars
<1>1. EffectOK'
  BY EffectSame DEF EffectOK
<1>2. PostsVerified' /\ IntentOnRecord'
  BY DEF PostsVerified, IntentOnRecord
<1>3. HandlersOwnTheirRows'
  BY DEF NoNewPost, HandlersOwnTheirRows
<1>4. OutcomeIsTruthful'
  BY EffectSame DEF OutcomeIsTruthful
<1> QED
  BY <1>1, <1>2, <1>3, <1>4

LEMMA PostsSafe ==
  ASSUME SafetyInv, TypeInv', NEW r \in Requests, Posts(r)
  PROVE  SafetyInv'
<1> USE DEF SafetyInv
<1> DEFINE new == created + 1
<1>1. ask[r].attempt \in Attempts /\ ask[r].target \in Targets
  BY DEF TypeInv, TypeOK, Asks
<1>2. /\ created' = new
      /\ \A id \in DOMAIN journal' : id # new => id \in DOMAIN journal /\ journal'[id] = journal[id]
      /\ new \in DOMAIN journal' => journal'[new] = NewEntry(ask[r].attempt, ask[r].target)
      /\ Backend = "postgresql" => DOMAIN journal' = DOMAIN journal \cup {new}
  BY <1>1, AddRowType DEF TypeInv, Posts
<1>3. /\ DOMAIN post' = DOMAIN post \cup {new}
      /\ \A id \in DOMAIN post : post'[id] = post[id]
      /\ post'[new] = [target |-> ask[r].target, answer |-> "pending"]
  BY <1>1, <1>2, PostsWithType DEF TypeInv, Posts
<1>4. /\ new \in Nat \ {0} /\ new \notin DOMAIN post /\ new \notin DOMAIN journal
      /\ \A q \in Requests : action[q] # new
  BY DEF TypeInv, TypeOK
<1>5. UNCHANGED <<owed, history>> /\ pc' = [pc EXCEPT ![r] = "post"]
      /\ action' = [action EXCEPT ![r] = new]
  BY DEF Posts
<1>6. ~Effect(new)
  BY <1>4, NoEffectOfOthers
<1>7. NewEntry(ask[r].attempt, ask[r].target).state = "initiated"
      /\ NewEntry(ask[r].attempt, ask[r].target).attempt = ask[r].attempt
      /\ NewEntry(ask[r].attempt, ask[r].target).target = ask[r].target
  BY DEF NewEntry
<1>8. Verified(ask[r].target, ask[r].attempt)
  BY DEF Posts
<1> HIDE DEF new
<1>9. EffectOK'
  BY <1>3, <1>4, <1>5, <1>6, EffectSame DEF EffectOK
<1>10. PostsVerified'
  BY <1>2, <1>3, <1>4, <1>5, <1>7, <1>8 DEF PostsVerified, Verified
<1>11. IntentOnRecord'
  BY <1>2, <1>3 DEF IntentOnRecord
<1>12. HandlersOwnTheirRows'
  BY <1>2, <1>3, <1>4, <1>5, <1>7 DEF HandlersOwnTheirRows, TypeInv, TypeOK
<1>13. OutcomeIsTruthful'
  BY <1>2, <1>3, <1>4, <1>5, <1>7, EffectSame DEF OutcomeIsTruthful, Terminal
<1> QED
  BY <1>9, <1>10, <1>11, <1>12, <1>13

LEMMA RowOnlySafe ==
  ASSUME SafetyInv, TypeInv', NEW a \in Attempts, NEW t \in Targets, RowOnly(a, t)
  PROVE  SafetyInv'
<1> USE DEF SafetyInv
<1> DEFINE new == created + 1
<1>1. /\ \A id \in DOMAIN journal' : id # new => id \in DOMAIN journal /\ journal'[id] = journal[id]
      /\ new \in DOMAIN journal' => journal'[new] = NewEntry(a, t)
      /\ DOMAIN journal' = DOMAIN journal \cup {new}
  BY AddRowType DEF TypeInv, RowOnly
<1>2. new \notin DOMAIN post /\ \A q \in Requests : action[q] # new
  BY DEF TypeInv, TypeOK
<1>3. UNCHANGED githubVars /\ NoNewPost /\ NewEntry(a, t).state = "initiated"
  BY DEF RowOnly, NewEntry
<1> HIDE DEF new
<1>4. EffectOK'
  BY <1>3, EffectSame DEF EffectOK, githubVars
<1>5. PostsVerified' /\ IntentOnRecord'
  BY <1>1, <1>2, <1>3 DEF PostsVerified, IntentOnRecord, githubVars
<1>6. HandlersOwnTheirRows'
  BY <1>1, <1>2, <1>3 DEF HandlersOwnTheirRows, NoNewPost, githubVars
<1>7. OutcomeIsTruthful'
  BY <1>1, <1>2, <1>3, EffectSame DEF OutcomeIsTruthful, Terminal, githubVars
<1> QED
  BY <1>4, <1>5, <1>6, <1>7

LEMMA SettlesSafe ==
  ASSUME SafetyInv, TypeInv', NEW r \in Requests, NEW o \in Outcomes, Settles(r, o)
  PROVE  SafetyInv'
<1> USE DEF SafetyInv
<1>0. PICK me \in DOMAIN post : me = action[r]
  BY DEF Settles, HandlersOwnTheirRows
<1>1. me \in DOMAIN post /\ UNCHANGED <<owed, history>>
  BY DEF Settles
<1>2. /\ DOMAIN post' = DOMAIN post
      /\ \A id \in DOMAIN post : /\ post'[id].target = post[id].target
                                 /\ id # me => post'[id] = post[id]
      /\ \/ post'[me] = post[me]
         \/ post[me].answer = "pending" /\ post'[me].answer = "unreached"
  <2>1. \/ post' = post
        \/ post[me].answer = "pending" /\ post' = [post EXCEPT ![me].answer = "unreached"]
    BY <1>0 DEF Settles, Answer
  <2>2. post[me] \in [target : Targets, answer : Answers]
    BY <1>1 DEF TypeInv, TypeOK
  <2>3. CASE post' = post
    BY <2>3
  <2>4. CASE /\ post[me].answer = "pending"
             /\ post' = [post EXCEPT ![me].answer = "unreached"]
    BY <1>1, <2>2, <2>4
  <2> QED
    BY <2>1, <2>3, <2>4
<1>3. /\ DOMAIN journal' = DOMAIN journal
      /\ \A id \in DOMAIN journal :
           /\ id # me => journal'[id] = journal[id]
           /\ journal'[id].attempt = journal[id].attempt
           /\ journal'[id].target = journal[id].target
      /\ me \in DOMAIN journal =>
           \/ journal'[me] = journal[me]
           \/ journal'[me].state = o.state /\ journal'[me].status = o.status
  <2>1. CASE UNCHANGED journal
    BY <2>1
  <2>2. CASE CanFinalize(me) /\ MarkTerminal(me, o)
    <3>1. journal[me] \in Entry
      BY <2>2 DEF CanFinalize, TypeInv, TypeOK
    <3>2. journal' = [journal EXCEPT ![me] = [journal[me] EXCEPT !.state = o.state,
                                        !.status = o.status, !.category = o.category]]
      BY <2>2 DEF MarkTerminal
    <3> QED
      BY <3>1, <3>2 DEF Entry
  <2> QED
    BY <1>0, <2>1, <2>2 DEF Settles
<1>4. /\ pc[r] = "post" /\ pc'[r] # "post" /\ NoNewPost
      /\ o.state = "accepted" => post[me].answer = "accepted_202"
      /\ o.state = "failed" /\ o.status # "error_5xx" =>
           post'[me].answer \in Refusals \cup {"unreached"}
  BY <1>0 DEF Settles, Answer
<1>5. EffectOK'
  BY <1>1, <1>2, EffectSame DEF EffectOK
<1>6. PostsVerified' /\ IntentOnRecord'
  BY <1>1, <1>2, <1>3 DEF PostsVerified, IntentOnRecord
<1>7. HandlersOwnTheirRows'
  BY <1>0, <1>2, <1>3, <1>4 DEF HandlersOwnTheirRows, NoNewPost
<1>8. OutcomeIsTruthful'
  <2> SUFFICES ASSUME NEW id \in DOMAIN journal
               PROVE  /\ journal'[id].state \in Terminal => id \in DOMAIN post'
                      /\ journal'[id].state = "accepted" => Effect(id)'
                      /\ journal'[id].state = "failed" /\ journal'[id].status # "error_5xx" =>
                           post'[id].answer # "pending" /\ ~Effect(id)'
    BY <1>3 DEF OutcomeIsTruthful
  <2>1. CASE id # me
    <3>1. journal'[id] = journal[id] /\ Effect(id)' = Effect(id)
      BY <1>1, <1>3, <2>1, EffectSame
    <3>2. id \in DOMAIN post => post'[id] = post[id]
      BY <1>2, <2>1
    <3>3. /\ journal[id].state \in Terminal => id \in DOMAIN post
          /\ journal[id].state = "accepted" => Effect(id)
          /\ journal[id].state = "failed" /\ journal[id].status # "error_5xx" =>
               post[id].answer # "pending" /\ ~Effect(id)
      BY DEF OutcomeIsTruthful
    <3> QED
      BY <1>2, <3>1, <3>2, <3>3 DEF Terminal
  <2>2. CASE id = me /\ journal'[me] = journal[me]
    <3>1. journal[me].state = "initiated"
      BY <1>0, <1>4, <2>2 DEF HandlersOwnTheirRows
    <3> QED
      BY <2>2, <3>1 DEF Terminal
  <2>3. CASE id = me /\ journal'[me].state = o.state /\ journal'[me].status = o.status
    <3>1. post'[me].answer \in Refusals \cup {"unreached"} => ~Effect(me)'
      BY <1>1, <1>2, <1>5 DEF EffectOK
    <3>2. post[me].answer = "accepted_202" => Effect(me)'
      BY <1>1, EffectSame DEF EffectOK
    <3> QED
      BY <1>1, <1>2, <1>4, <2>3, <3>1, <3>2 DEF Refusals
  <2> QED
    BY <1>3, <2>1, <2>2, <2>3
<1> QED
  BY <1>5, <1>6, <1>7, <1>8

LEMMA GitHubSafe ==
  ASSUME SafetyInv, TypeInv', NEW id \in DOMAIN post, GitHubHandles(id)
  PROVE  SafetyInv'
<1> USE DEF SafetyInv
<1>1. PICK answer \in Statuses :
        /\ post' = [post EXCEPT ![id].answer = answer]
        /\ \/ answer \in {"accepted_202", "error_5xx"} /\ owed' = owed \cup {id}
           \/ answer # "accepted_202" /\ UNCHANGED owed
  BY DEF GitHubHandles
<1>2. /\ post[id].answer = "pending"
      /\ UNCHANGED <<handlerVars, journal, history>>
  BY DEF GitHubHandles
<1>3. /\ DOMAIN post' = DOMAIN post
      /\ post'[id].answer = answer
      /\ \A other \in DOMAIN post : /\ post'[other].target = post[other].target
                                    /\ other # id => post'[other] = post[other]
  <2>1. post[id] \in [target : Targets, answer : Answers]
    BY DEF TypeInv, TypeOK
  <2> QED
    BY <1>1, <2>1
<1>4. /\ \A other : other # id => Effect(other)' = Effect(other)
      /\ Effect(id)' <=> (Effect(id) \/ id \in owed')
      /\ ~Effect(id)
  BY <1>1, <1>2 DEF Effect, RedeliveredBy, EffectOK
<1>5. EffectOK'
  BY <1>1, <1>2, <1>3, <1>4 DEF EffectOK, Effect, RedeliveredBy, Statuses, Refusals
<1>6. PostsVerified' /\ IntentOnRecord'
  BY <1>2, <1>3 DEF PostsVerified, IntentOnRecord
<1>7. HandlersOwnTheirRows'
  BY <1>2, <1>3 DEF HandlersOwnTheirRows, handlerVars
<1>8. OutcomeIsTruthful'
  <2> SUFFICES ASSUME NEW row \in DOMAIN journal
               PROVE  OutcomeIsTruthful!(row)'
    BY <1>2 DEF OutcomeIsTruthful
  <2>1. OutcomeIsTruthful!(row) /\ journal'[row] = journal[row]
    BY <1>2 DEF OutcomeIsTruthful
  <2>2. CASE row = id
    BY <1>2, <1>3, <1>4, <2>1, <2>2
  <2>3. CASE row # id
    BY <1>3, <1>4, <2>1, <2>3 DEF Terminal
  <2> QED
    BY <2>2, <2>3
<1> QED
  BY <1>5, <1>6, <1>7, <1>8

LEMMA HistoryGrowsSafe ==
  ASSUME SafetyInv, TypeInv',
         NEW e \in [guid : Guids, by : Nat], history' = Append(history, e),
         UNCHANGED <<handlerVars, journal, created, post>>,
         \/ e.by = 0 /\ UNCHANGED owed
         \/ e.by \in owed /\ owed' = owed \ {e.by}
  PROVE  SafetyInv'
<1> USE DEF SafetyInv
<1>1. /\ \A i \in DOMAIN history : i \in DOMAIN history' /\ history'[i] = history[i]
      /\ \A i \in DOMAIN history' : i \in DOMAIN history \/ history'[i] = e
      /\ \E i \in DOMAIN history' : history'[i] = e
  <2>1. history'[Len(history) + 1] = e /\ Len(history) + 1 \in DOMAIN history'
    BY DEF TypeInv, TypeOK
  <2>2. history \in Seq([guid : Guids, by : Nat])
    BY DEF TypeInv, TypeOK
  <2>3. /\ \A i \in DOMAIN history : i \in DOMAIN history' /\ history'[i] = history[i]
        /\ \A i \in DOMAIN history' : i \in DOMAIN history \/ history'[i] = e
    BY <2>2, AppendGrows
  <2> QED
    BY <2>1, <2>3
<1>2. \A id \in Nat \ {0} : Effect(id)' = Effect(id)
  BY <1>1 DEF Effect, RedeliveredBy
<1>3. DOMAIN post \subseteq Nat \ {0} /\ DOMAIN journal \subseteq Nat \ {0}
      /\ owed \subseteq DOMAIN post /\ UNCHANGED <<pc, action, journal, post>>
  BY DEF TypeInv, TypeOK, handlerVars
<1>4. EffectOK'
  BY <1>1, <1>2, <1>3 DEF EffectOK
<1>5. PostsVerified' /\ IntentOnRecord'
  BY <1>1, <1>3 DEF PostsVerified, IntentOnRecord
<1>6. HandlersOwnTheirRows'
  BY <1>3 DEF HandlersOwnTheirRows
<1>7. OutcomeIsTruthful'
  BY <1>2, <1>3 DEF OutcomeIsTruthful
<1> QED
  BY <1>4, <1>5, <1>6, <1>7

LEMMA SafetyNext == SafetyInv /\ [Next]_vars => SafetyInv'
<1> SUFFICES ASSUME SafetyInv, [Next]_vars PROVE SafetyInv'
  OBVIOUS
<1>1. TypeInv'
  BY NextType DEF SafetyInv
<1>2. FitsSome
  BY StepKinds DEF SafetyInv
<1>3. ASSUME NEW id \in DOMAIN post, Redeliver(id) PROVE SafetyInv'
  <2>1. PICK e : e = Record(history[post[id].target].guid, id)
    OBVIOUS
  <2>2. post[id].target \in DOMAIN history /\ id \in Nat
    BY DEF SafetyInv, PostsVerified, TypeInv, TypeOK
  <2>3. history[post[id].target] \in [guid : Guids, by : Nat]
    BY <2>2, ElementOfSeq DEF SafetyInv, TypeInv, TypeOK
  <2>4. e \in [guid : Guids, by : Nat] /\ e.by = id
    BY <2>1, <2>2, <2>3 DEF Record
  <2> QED
    BY <1>1, <1>3, <2>1, <2>4, HistoryGrowsSafe DEF Redeliver
<1>4. ASSUME NEW guid \in Guids, Deliver(guid) PROVE SafetyInv'
  <2>1. Record(guid, 0) \in [guid : Guids, by : Nat] /\ Record(guid, 0).by = 0
    BY DEF Record
  <2> QED
    BY <1>1, <1>4, <2>1, HistoryGrowsSafe DEF Deliver
<1> QED
  BY <1>1, <1>2, <1>3, <1>4, QuietSafe, PostsSafe, RowOnlySafe, SettlesSafe, GitHubSafe
  DEF FitsSome

LEMMA SafetyHolds == Spec => []SafetyInv
  BY SafetyInit, SafetyNext, PTL DEF Spec

\* Whatever the history does between the pages, every POST names a record
\* with the guid of the attempt on its journal row.
THEOREM OnlyVerifiedTargets == Spec => []VerifiedTarget
<1>1. SafetyInv /\ TypeOK => VerifiedTarget
  BY DEF SafetyInv, VerifiedTarget
<1> QED
  BY <1>1, SafetyHolds, TypeCorrect, PTL

\* With PostgreSQL there is no POST without its row.
THEOREM IntentBeforeMutation == Spec => []IntentOnRecord
<1>1. SafetyInv => IntentOnRecord
  BY DEF SafetyInv
<1> QED
  BY <1>1, SafetyHolds, PTL

\* The journal's outcomes agree with what GitHub did and will do.
THEOREM TruthfulOutcomes == Spec => []OutcomeIsTruthful
<1>1. SafetyInv => OutcomeIsTruthful
  BY DEF SafetyInv
<1> QED
  BY <1>1, SafetyHolds, PTL

\* No two handlers wait on one action, and none waits on a terminal one.
THEOREM RowsHaveOneOwner == Spec => []HandlersOwnTheirRows
<1>1. SafetyInv => HandlersOwnTheirRows
  BY DEF SafetyInv
<1> QED
  BY <1>1, SafetyHolds, PTL

\* A row keeps its attempt and target; once terminal it stays as it is, and
\* PostgreSQL loses none.
THEOREM TerminalRowsAreFinal == Spec => JournalIsFinal
<1> DEFINE Stays(id) ==
             /\ Backend = "postgresql" => id \in DOMAIN journal'
             /\ id \in DOMAIN journal' =>
                  /\ journal'[id].attempt = journal[id].attempt
                  /\ journal'[id].target = journal[id].target
                  /\ journal[id].state \in Terminal => journal'[id] = journal[id]
<1>1. SafetyInv /\ [Next]_vars => [\A id \in DOMAIN journal : Stays(id)]_vars
  <2> SUFFICES ASSUME SafetyInv, [Next]_vars, NEW id \in DOMAIN journal PROVE Stays(id)
    OBVIOUS
  <2>1. TypeInv /\ FitsSome /\ id \in 1 .. created /\ created \in Nat
    BY StepKinds DEF SafetyInv, TypeInv, TypeOK
  <2>2. CASE Quiet
    BY <2>2 DEF Quiet
  <2>3. ASSUME NEW a, NEW t, AddRow(a, t) PROVE Stays(id)
    <3>1. /\ DOMAIN journal' = (DOMAIN journal \cup {created + 1}) \cap Retained(created + 1)
          /\ id \in DOMAIN journal' => journal'[id] = journal[id]
      BY <2>1, <2>3 DEF AddRow
    <3>2. Backend = "postgresql" => id \in DOMAIN journal'
      BY <2>1, <3>1 DEF Retained
    <3> QED
      BY <3>1, <3>2
  <2>4. ASSUME NEW r \in Requests, NEW o \in Outcomes, Settles(r, o) PROVE Stays(id)
    <3>1. CASE UNCHANGED journal
      BY <3>1
    <3>2. CASE CanFinalize(action[r]) /\ MarkTerminal(action[r], o)
      BY <3>2 DEF CanFinalize, MarkTerminal, Terminal
    <3> QED
      BY <2>4, <3>1, <3>2 DEF Settles
  <2>5. CASE \/ \E i \in DOMAIN post : GitHubHandles(i) \/ Redeliver(i)
             \/ \E guid \in Guids : Deliver(guid)
    BY <2>5 DEF GitHubHandles, Redeliver, Deliver
  <2> QED
    BY <2>1, <2>2, <2>3, <2>4, <2>5 DEF FitsSome, Posts, RowOnly
<1> QED
  BY <1>1, SafetyHolds, PTL DEF Spec, JournalIsFinal

-----------------------------------------------------------------------------
(* What clients are told, and how often GitHub acts. The invariant adds to  *)
(* SafetyInv that an id belongs to one handler and has one record.          *)

\* The id of a request, waiting or answered, is of a POST that no other
\* request waits for.
IdsAreOwn ==
  \A r \in Requests :
    /\ action[r] # 0 => action[r] \in DOMAIN post
    /\ \A q \in Requests \ {r} : pc[q] = "post" => action[r] # action[q]

\* An action has one record in the history, and none while GitHub owes it.
RecordsAreSingle ==
  \A i \in DOMAIN history : history[i].by # 0 =>
    /\ history[i].by \notin owed
    /\ \A j \in DOMAIN history : history[j].by = history[i].by => i = j

ReplyOK(r) ==
  LET id == action[r]
  IN /\ reply[r] = "accepted" => Effect(id)
     /\ reply[r] \in {"accepted", "outcome_unknown"} /\ id \in DOMAIN journal =>
          journal[id].state = reply[r]
     /\ reply[r] = "bad_gateway" /\ id # 0 =>
          post[id].answer # "pending" /\ ~Effect(id)
     /\ id = 0 => reply[r] \notin {"accepted", "outcome_unknown"}

ReplyInv ==
  /\ SafetyInv
  /\ IdsAreOwn
  /\ RecordsAreSingle
  /\ ReplyIsTruthful

LEMMA ReplyInit == Init => ReplyInv
<1> SUFFICES ASSUME Init PROVE ReplyInv
  OBVIOUS
<1>1. SafetyInv
  BY SafetyInit
<1> QED
  BY <1>1 DEF Init, ReplyInv, IdsAreOwn, RecordsAreSingle, ReplyIsTruthful, Replied

\* Where ids, POSTs and history stay, so does what an id owns.
LEMMA IdsKept ==
  ASSUME IdsAreOwn, ActionOK, NoNewPost, DOMAIN post \subseteq DOMAIN post', 0 \notin DOMAIN post
  PROVE  IdsAreOwn'
  BY DEF IdsAreOwn, ActionOK, NoNewPost

\* A reply that was given stays true while the row, the POST and the effect it
\* speaks of stay as they are, or the row goes.
LEMMA ReplyKept ==
  ASSUME TypeInv, NEW q \in Requests, ReplyOK(q), IdsAreOwn,
         reply'[q] = reply[q], action'[q] = action[q],
         action[q] # 0 =>
           /\ Effect(action[q])' = Effect(action[q])
           /\ post'[action[q]].answer # "pending" \/ post[action[q]].answer = "pending"
           /\ action[q] \in DOMAIN journal' =>
                /\ action[q] \in DOMAIN journal
                /\ journal'[action[q]].state = journal[action[q]].state
  PROVE  ReplyOK(q)'
  BY DEF ReplyOK

\* Without new claims the replies to look at are those given before.
LEMMA NoNewClaimIsTruthful ==
  ASSUME TypeInv, IdsAreOwn, ReplyIsTruthful, NoNewClaim,
         UNCHANGED <<post, owed, history>>,
         \A q \in Requests : action[q] # 0 /\ action[q] \in DOMAIN journal' =>
           action[q] \in DOMAIN journal /\ journal'[action[q]] = journal[action[q]]
  PROVE  ReplyIsTruthful'
<1> SUFFICES ASSUME NEW q \in Requests, pc'[q] = "done" PROVE ReplyOK(q)'
  BY DEF ReplyIsTruthful, Replied, ReplyOK
<1>1. CASE reply'[q] \notin Claims
  BY <1>1 DEF ReplyOK, Claims
<1>2. CASE reply'[q] = "bad_gateway" /\ action'[q] = 0
  BY <1>2 DEF ReplyOK
<1>3. CASE pc[q] = "done" /\ reply'[q] = reply[q] /\ action'[q] = action[q]
  <2>1. ReplyOK(q)
    BY <1>3 DEF ReplyIsTruthful, Replied, ReplyOK
  <2> QED
    BY <1>3, <2>1, EffectSame, ReplyKept
<1> QED
  BY <1>1, <1>2, <1>3 DEF NoNewClaim

LEMMA QuietReply ==
  ASSUME ReplyInv, Quiet
  PROVE  IdsAreOwn' /\ RecordsAreSingle' /\ ReplyIsTruthful'
<1> USE DEF ReplyInv, SafetyInv, Quiet, githubVars
<1>1. IdsAreOwn'
  BY IdsKept DEF TypeInv, TypeOK
<1>2. RecordsAreSingle'
  BY DEF RecordsAreSingle
<1>3. ReplyIsTruthful'
  BY NoNewClaimIsTruthful
<1> QED
  BY <1>1, <1>2, <1>3

LEMMA RowOnlyReply ==
  ASSUME ReplyInv, NEW a \in Attempts, NEW t \in Targets, RowOnly(a, t)
  PROVE  IdsAreOwn' /\ RecordsAreSingle' /\ ReplyIsTruthful'
<1> USE DEF ReplyInv, SafetyInv, RowOnly, githubVars
<1>1. IdsAreOwn'
  BY IdsKept DEF TypeInv, TypeOK
<1>2. RecordsAreSingle'
  BY DEF RecordsAreSingle
<1>3. \A id \in DOMAIN journal' : id # created + 1 =>
        id \in DOMAIN journal /\ journal'[id] = journal[id]
  BY AddRowType DEF TypeInv
<1>4. \A q \in Requests : action[q] # created + 1
  BY DEF TypeInv, TypeOK
<1>5. ReplyIsTruthful'
  BY <1>3, <1>4, NoNewClaimIsTruthful
<1> QED
  BY <1>1, <1>2, <1>5

LEMMA PostsReply ==
  ASSUME ReplyInv, NEW r \in Requests, Posts(r)
  PROVE  IdsAreOwn' /\ RecordsAreSingle' /\ ReplyIsTruthful'
<1> USE DEF ReplyInv, SafetyInv
<1> DEFINE new == created + 1
<1>1. ask[r].attempt \in Attempts /\ ask[r].target \in Targets
  BY DEF TypeInv, TypeOK, Asks
<1>2. /\ created' = new
      /\ \A id \in DOMAIN journal' : id # new => id \in DOMAIN journal /\ journal'[id] = journal[id]
  BY <1>1, AddRowType DEF TypeInv, Posts
<1>3. /\ DOMAIN post' = DOMAIN post \cup {new}
      /\ \A id \in DOMAIN post : post'[id] = post[id]
  BY <1>1, <1>2, PostsWithType DEF TypeInv, Posts
<1>4. /\ new \in Nat \ {0} /\ new \notin DOMAIN post /\ 0 \notin DOMAIN post
      /\ \A q \in Requests : action[q] # new
  BY DEF TypeInv, TypeOK
<1>5. /\ UNCHANGED <<owed, history>>
      /\ pc'[r] = "post" /\ action'[r] = new
      /\ OthersStay(r)
  BY DEF Posts, TypeInv, TypeOK
<1> HIDE DEF new
<1>6. IdsAreOwn'
  BY <1>3, <1>4, <1>5 DEF IdsAreOwn, OthersStay
<1>7. RecordsAreSingle'
  BY <1>5 DEF RecordsAreSingle
<1>8. ASSUME NEW q \in Requests, pc'[q] = "done" PROVE ReplyOK(q)'
  <2>1. q # r /\ pc[q] = "done" /\ reply'[q] = reply[q] /\ action'[q] = action[q]
    BY <1>5, <1>8 DEF OthersStay
  <2>2. ReplyOK(q)
    BY <2>1 DEF ReplyIsTruthful, Replied, ReplyOK
  <2>3. action[q] # 0 => action[q] \in DOMAIN post /\ post'[action[q]] = post[action[q]]
    BY <1>3 DEF IdsAreOwn
  <2> QED
    BY <1>2, <1>4, <1>5, <2>1, <2>2, <2>3, EffectSame, ReplyKept
<1>9. ReplyIsTruthful'
  BY <1>8 DEF ReplyIsTruthful, Replied, ReplyOK
<1> QED
  BY <1>6, <1>7, <1>9

LEMMA SettlesReply ==
  ASSUME ReplyInv, NEW r \in Requests, NEW o \in Outcomes, Settles(r, o)
  PROVE  IdsAreOwn' /\ RecordsAreSingle' /\ ReplyIsTruthful'
<1> USE DEF ReplyInv, SafetyInv
<1>0. PICK me \in DOMAIN post : me = action[r]
  BY DEF Settles, HandlersOwnTheirRows
<1>1. /\ pc[r] = "post" /\ NoNewPost /\ OthersStay(r) /\ action'[r] = me
      /\ UNCHANGED <<owed, history>> /\ me # 0
  BY <1>0 DEF Settles, TypeInv, TypeOK
<1>2. /\ DOMAIN post' = DOMAIN post
      /\ \A id \in DOMAIN post : id # me => post'[id] = post[id]
  BY <1>0 DEF Settles
<1>3. /\ DOMAIN journal' = DOMAIN journal
      /\ \A id \in DOMAIN journal : id # me => journal'[id] = journal[id]
  <2>1. CASE CanFinalize(me) /\ MarkTerminal(me, o)
    BY <2>1 DEF CanFinalize, MarkTerminal
  <2> QED
    BY <1>0, <2>1 DEF Settles
<1>4. IdsAreOwn'
  BY <1>1, <1>2, IdsKept DEF TypeInv, TypeOK
<1>5. RecordsAreSingle'
  BY <1>1 DEF RecordsAreSingle
<1>6. ASSUME NEW q \in Requests \ {r}, pc'[q] = "done" PROVE ReplyOK(q)'
  <2>1. pc[q] = "done" /\ reply'[q] = reply[q] /\ action'[q] = action[q]
    BY <1>1, <1>6 DEF OthersStay
  <2>2. ReplyOK(q)
    BY <2>1 DEF ReplyIsTruthful, Replied, ReplyOK
  <2>3. action[q] # me /\ (action[q] # 0 => action[q] \in DOMAIN post)
    BY <1>0, <1>1 DEF IdsAreOwn
  <2> QED
    BY <1>1, <1>2, <1>3, <2>1, <2>2, <2>3, EffectSame, ReplyKept
<1>7. ReplyOK(r)'
  <2>1. CASE reply'[r] \notin Claims
    BY <1>1, <2>1 DEF ReplyOK, Claims
  <2>2. CASE reply'[r] = "bad_gateway"
    <3>1. post[me].answer \in Refusals /\ UNCHANGED post
      BY <1>0, <2>2 DEF Settles, Answer, Refusals
    <3>2. ~Effect(me)'
      BY <1>0, <1>1, <3>1, EffectSame DEF EffectOK
    <3> QED
      BY <1>1, <2>2, <3>1, <3>2 DEF ReplyOK, Refusals
  <2>3. CASE reply'[r] \in {"accepted", "outcome_unknown"}
    <3>1. /\ CanFinalize(me) /\ MarkTerminal(me, o) /\ o.state = reply'[r]
          /\ reply'[r] = "accepted" => post[me].answer = "accepted_202"
      BY <1>0, <2>3 DEF Settles, Answer, Claims
    <3>2. journal[me] \in Entry
      BY <3>1 DEF CanFinalize, TypeInv, TypeOK
    <3>3. journal'[me].state = reply'[r]
      BY <3>1, <3>2 DEF CanFinalize, MarkTerminal, Entry
    <3>4. reply'[r] = "accepted" => Effect(me)'
      BY <1>0, <1>1, <3>1, EffectSame DEF EffectOK
    <3> QED
      BY <1>1, <2>3, <3>3, <3>4 DEF ReplyOK
  <2> QED
    BY <2>1, <2>2, <2>3 DEF Claims
<1>8. ReplyIsTruthful'
  BY <1>6, <1>7 DEF ReplyIsTruthful, Replied, ReplyOK
<1> QED
  BY <1>4, <1>5, <1>8

LEMMA GitHubReply ==
  ASSUME ReplyInv, NEW id \in DOMAIN post, GitHubHandles(id)
  PROVE  IdsAreOwn' /\ RecordsAreSingle' /\ ReplyIsTruthful'
<1> USE DEF ReplyInv, SafetyInv
<1>1. /\ post[id].answer = "pending"
      /\ owed' = owed \/ owed' = owed \cup {id}
      /\ DOMAIN post' = DOMAIN post
      /\ \A other \in DOMAIN post : other # id => post'[other] = post[other]
      /\ UNCHANGED <<pc, action, reply, journal, history>>
  BY DEF GitHubHandles, handlerVars
<1>2. post'[id].answer # "pending"
  <2>1. PICK answer \in Statuses : post' = [post EXCEPT ![id].answer = answer]
    BY DEF GitHubHandles
  <2>2. post[id] \in [target : Targets, answer : Answers]
    BY DEF TypeInv, TypeOK
  <2> QED
    BY <2>1, <2>2 DEF Statuses, Refusals
<1>3. ~Effect(id) /\ id # 0
  BY <1>1 DEF EffectOK, TypeInv, TypeOK
<1>4. \A other : other # id => Effect(other)' = Effect(other)
  BY <1>1 DEF Effect, RedeliveredBy
<1>5. IdsAreOwn'
  BY <1>1 DEF IdsAreOwn
<1>6. RecordsAreSingle'
  BY <1>1, <1>3 DEF RecordsAreSingle, Effect, RedeliveredBy
<1>7. ASSUME NEW q \in Requests, pc'[q] = "done" PROVE ReplyOK(q)'
  <2>1. ReplyOK(q)
    BY <1>1, <1>7 DEF ReplyIsTruthful, Replied, ReplyOK
  <2>2. action[q] # 0 => action[q] \in DOMAIN post
    BY DEF IdsAreOwn
  <2>3. CASE action[q] # id
    BY <1>1, <1>4, <2>1, <2>2, <2>3, ReplyKept
  <2>4. CASE action[q] = id
    <3>1. reply[q] # "accepted" /\ reply[q] # "bad_gateway"
      BY <1>1, <1>3, <2>1, <2>4 DEF ReplyOK
    <3> QED
      BY <1>1, <1>3, <2>1, <2>4, <3>1 DEF ReplyOK
  <2> QED
    BY <2>3, <2>4
<1>8. ReplyIsTruthful'
  BY <1>7 DEF ReplyIsTruthful, Replied, ReplyOK
<1> QED
  BY <1>5, <1>6, <1>8

LEMMA HistoryGrowsReply ==
  ASSUME ReplyInv, NEW e \in [guid : Guids, by : Nat], history' = Append(history, e),
         UNCHANGED <<handlerVars, journal, created, post>>,
         \/ e.by = 0 /\ UNCHANGED owed
         \/ e.by \in owed /\ owed' = owed \ {e.by}
  PROVE  IdsAreOwn' /\ RecordsAreSingle' /\ ReplyIsTruthful'
<1> USE DEF ReplyInv, SafetyInv
<1> DEFINE new == Len(history) + 1
<1>1. /\ DOMAIN history' = DOMAIN history \cup {new} /\ new \notin DOMAIN history
      /\ history'[new] = e
      /\ \A i \in DOMAIN history : history'[i] = history[i]
  BY DEF TypeInv, TypeOK
<1> HIDE DEF new
<1>2. \A id \in Nat \ {0} : Effect(id)' = Effect(id)
  BY <1>1 DEF Effect, RedeliveredBy
<1>3. UNCHANGED <<pc, action, reply, journal, post>> /\ owed \subseteq Nat \ {0}
      /\ \A q \in Requests : action[q] \in Nat
  BY DEF handlerVars, TypeInv, TypeOK
<1>4. IdsAreOwn'
  BY <1>3 DEF IdsAreOwn
<1>5. RecordsAreSingle'
  BY <1>1, <1>3 DEF RecordsAreSingle
<1>6. ASSUME NEW q \in Requests, pc'[q] = "done" PROVE ReplyOK(q)'
  <2>1. ReplyOK(q)
    BY <1>3, <1>6 DEF ReplyIsTruthful, Replied, ReplyOK
  <2> QED
    BY <1>2, <1>3, <2>1, ReplyKept
<1>7. ReplyIsTruthful'
  BY <1>6 DEF ReplyIsTruthful, Replied, ReplyOK
<1> QED
  BY <1>4, <1>5, <1>7

LEMMA ReplyNext == ReplyInv /\ [Next]_vars => ReplyInv'
<1> SUFFICES ASSUME ReplyInv, [Next]_vars PROVE ReplyInv'
  OBVIOUS
<1>1. SafetyInv' /\ FitsSome
  BY SafetyNext, StepKinds DEF ReplyInv, SafetyInv
<1>2. ASSUME NEW id \in DOMAIN post, Redeliver(id)
      PROVE  IdsAreOwn' /\ RecordsAreSingle' /\ ReplyIsTruthful'
  <2>1. PICK e : e = Record(history[post[id].target].guid, id)
    OBVIOUS
  <2>2. post[id].target \in DOMAIN history /\ id \in Nat
    BY DEF ReplyInv, SafetyInv, PostsVerified, TypeInv, TypeOK
  <2>3. history[post[id].target] \in [guid : Guids, by : Nat]
    BY <2>2, ElementOfSeq DEF ReplyInv, SafetyInv, TypeInv, TypeOK
  <2>4. e \in [guid : Guids, by : Nat] /\ e.by = id
    BY <2>1, <2>2, <2>3 DEF Record
  <2> QED
    BY <1>2, <2>1, <2>4, HistoryGrowsReply DEF Redeliver
<1>3. ASSUME NEW guid \in Guids, Deliver(guid)
      PROVE  IdsAreOwn' /\ RecordsAreSingle' /\ ReplyIsTruthful'
  <2>1. Record(guid, 0) \in [guid : Guids, by : Nat] /\ Record(guid, 0).by = 0
    BY DEF Record
  <2> QED
    BY <1>3, <2>1, HistoryGrowsReply DEF Deliver
<1> QED
  BY <1>1, <1>2, <1>3, QuietReply, PostsReply, RowOnlyReply, SettlesReply, GitHubReply
  DEF FitsSome, ReplyInv

LEMMA ReplyHolds == Spec => []ReplyInv
  BY ReplyInit, ReplyNext, PTL DEF Spec

\* What a client was told stays true for good: of GitHub, whatever it does
\* later, and of the row, as long as there is one.
THEOREM TruthfulReplies == Spec => []ReplyIsTruthful
<1>1. ReplyInv => ReplyIsTruthful
  BY DEF ReplyInv
<1> QED
  BY <1>1, ReplyHolds, PTL

\* No action is redelivered twice, for any number of handlers and whatever
\* times out or restarts.
THEOREM OneEffectPerAction == Spec => []OneRedeliveryPerAction
<1>1. ReplyInv => OneRedeliveryPerAction
  <2> SUFFICES ASSUME ReplyInv, NEW id \in DOMAIN post
               PROVE  /\ Cardinality(RedeliveredBy(id)) <= 1
                      /\ id \in owed => RedeliveredBy(id) = {}
    BY DEF OneRedeliveryPerAction
  <2>1. id # 0
    BY DEF ReplyInv, SafetyInv, TypeInv, TypeOK
  <2>2. CASE RedeliveredBy(id) = {}
    BY <2>2, FS_EmptySet
  <2>3. CASE RedeliveredBy(id) # {}
    <3>1. PICK i : i \in RedeliveredBy(id)
      BY <2>3
    <3>2. RedeliveredBy(id) = {i} /\ id \notin owed
      BY <2>1, <3>1 DEF RedeliveredBy, ReplyInv, RecordsAreSingle
    <3> QED
      BY <3>2, FS_Singleton
  <2> QED
    BY <2>2, <2>3
<1> QED
  BY <1>1, ReplyHolds, PTL

-----------------------------------------------------------------------------
(* The memory journal.                                                      *)

LEMMA StrandedNext ==
  ASSUME SafetyInv, NoStrandedIntent, [Next]_vars
  PROVE  NoStrandedIntent'
<1> DEFINE Held(id) == \E r \in Requests : pc[r] = "post" /\ action[r] = id
<1> SUFFICES ASSUME Backend = "memory", NEW id \in DOMAIN journal',
                    journal'[id].state = "initiated"
             PROVE  Held(id)'
  BY DEF NoStrandedIntent
<1>1. /\ FitsSome /\ TypeInv
      /\ id \in DOMAIN journal /\ journal[id].state = "initiated" => Held(id)
  BY StepKinds DEF SafetyInv, NoStrandedIntent
<1>2. CASE Quiet
  BY <1>1, <1>2 DEF Quiet, WaitersStay
<1>3. ASSUME NEW r \in Requests, Posts(r) PROVE Held(id)'
  <2>1. /\ pc[r] = "search" /\ OthersStay(r)
        /\ pc'[r] = "post" /\ action'[r] = created + 1
        /\ id # created + 1 => id \in DOMAIN journal /\ journal'[id] = journal[id]
    BY <1>1, <1>3 DEF Posts, AddRow, TypeInv, TypeOK
  <2> QED
    BY <1>1, <2>1 DEF OthersStay
<1>4. ASSUME NEW a \in Attempts, NEW t \in Targets, RowOnly(a, t) PROVE Held(id)'
  BY <1>4 DEF RowOnly
<1>5. ASSUME NEW r \in Requests, NEW o \in Outcomes, Settles(r, o) PROVE Held(id)'
  <2>1. id \in DOMAIN journal /\ id # action[r] /\ journal'[id] = journal[id]
    <3>1. CASE CanFinalize(action[r]) /\ MarkTerminal(action[r], o)
      <4>1. o.state # "initiated" /\ journal[action[r]] \in Entry
        BY <1>1, <3>1 DEF Outcomes, Terminal, CanFinalize, TypeInv, TypeOK
      <4> QED
        BY <3>1, <4>1 DEF CanFinalize, MarkTerminal, Entry
    <3>2. CASE UNCHANGED journal /\ ~CanFinalize(action[r])
      BY <3>2 DEF CanFinalize
    <3> QED
      BY <1>5, <3>1, <3>2 DEF Settles
  <2> QED
    BY <1>1, <1>5, <2>1 DEF Settles, OthersStay
<1>6. CASE \/ \E i \in DOMAIN post : GitHubHandles(i) \/ Redeliver(i)
           \/ \E guid \in Guids : Deliver(guid)
  BY <1>1, <1>6 DEF GitHubHandles, Redeliver, Deliver, handlerVars
<1> QED
  BY <1>1, <1>2, <1>3, <1>4, <1>5, <1>6 DEF FitsSome

\* With the memory journal an initiated row is one somebody still waits on.
THEOREM NoIntentIsStranded == Spec => []NoStrandedIntent
<1>1. Init => NoStrandedIntent
  BY DEF Init, NoStrandedIntent
<1> QED
  BY <1>1, SafetyHolds, StrandedNext, PTL DEF Spec

-----------------------------------------------------------------------------
(* The contract. Its actions are the ids up to MaxCreated: there is always  *)
(* one left for each handler that may still create a row.                   *)

Seekers == {r \in Requests : pc[r] \in {"lookup", "search"}}
RoomOK == created + Cardinality(Seekers) <= MaxCreated

SeekersStart(r) ==
  /\ RoomForAnother /\ ~Live(r)
  /\ created' = created
  /\ Seekers' \subseteq Seekers \cup {r}

SeekersEnd(r) ==
  /\ created' = created + 1
  /\ r \in Seekers /\ Seekers' \subseteq Seekers \ {r}

LEMMA SeekersMove ==
  ASSUME TypeInv, [Next]_vars
  PROVE  \/ created' = created /\ Seekers' \subseteq Seekers
         \/ \E r \in Requests : SeekersStart(r) \/ SeekersEnd(r)
<1> USE DEF TypeInv
<1>1. ASSUME NEW r \in Requests, Submit(r) PROVE SeekersStart(r)
  BY <1>1 DEF Submit, Finish, SeekersStart, Seekers, TypeOK
<1>2. ASSUME NEW r \in Requests, Lookup(r)
      PROVE  created' = created /\ Seekers' \subseteq Seekers
  BY <1>2 DEF Lookup, Finish, Seekers, TypeOK
<1>3. ASSUME NEW r \in Requests, ReceivePage(r)
      PROVE  \/ created' = created /\ Seekers' \subseteq Seekers
             \/ SeekersEnd(r)
  <2>1. pc[r] = "search"
    BY <1>3 DEF ReceivePage
  <2>2. ASSUME NEW rep, Finish(r, rep) PROVE r \in Seekers /\ Seekers' \subseteq Seekers \ {r}
    BY <2>1, <2>2 DEF Finish, Seekers, TypeOK
  <2>3. CASE SearchFails(r)
    BY <2>2, <2>3 DEF SearchFails
  <2>4. CASE \E m : NextPage(r, m)
    BY <2>4 DEF NextPage, Seekers
  <2>5. CASE CreateAndPost(r)
    BY <2>1, <2>5 DEF CreateAndPost, AddRow, SeekersEnd, Seekers, TypeOK
  <2>6. CASE CreateFails(r)
    BY <2>2, <2>6 DEF CreateFails, AddRow, SeekersEnd
  <2>7. CASE Finish(r, "unverified") /\ UNCHANGED <<action, journal, created, post>>
    BY <2>2, <2>7
  <2> QED
    BY <1>3, <2>3, <2>4, <2>5, <2>6, <2>7 DEF ReceivePage, PageArrives, Verify
<1>4. ASSUME NEW r \in Requests, NEW o, NEW rep, Finalize(r, o, rep)
      PROVE  created' = created /\ Seekers' \subseteq Seekers
  BY <1>4 DEF Finalize, Finish, Seekers, TypeOK
<1>5. CASE Environment
  BY <1>5
  DEF Environment, GitHubHandles, Redeliver, Deliver, Restart, Live, Waits, Seekers,
      handlerVars
<1>6. CASE UNCHANGED vars
  BY <1>6 DEF vars, Seekers
<1> QED
  BY <1>1, <1>2, <1>3, <1>4, <1>5, <1>6
  DEF Next, HandlerStep, Answered, ConnectFails, TimesOut

LEMMA RoomNext ==
  ASSUME TypeInv, RoomOK, [Next]_vars
  PROVE  RoomOK'
<1>1. ASSUME NEW S \in SUBSET Requests
      PROVE  IsFiniteSet(S) /\ Cardinality(S) \in Nat
  BY ConstantsAssumption, FS_Subset, FS_CardinalityType
<1>2. /\ Seekers \in SUBSET Requests /\ Seekers' \in SUBSET Requests
      /\ created \in Nat /\ created' \in Nat /\ MaxCreated \in Nat
  BY ConstantsAssumption, SeekersMove DEF Seekers, TypeInv, TypeOK, SeekersStart, SeekersEnd
<1>3. IsFiniteSet(Seekers) /\ Cardinality(Seekers) \in Nat /\ Cardinality(Seekers') \in Nat
  BY <1>1, <1>2
<1>4. CASE created' = created /\ Seekers' \subseteq Seekers
  <2>1. Cardinality(Seekers') <= Cardinality(Seekers)
    BY <1>3, <1>4, FS_Subset
  <2> QED
    BY <1>2, <1>3, <1>4, <2>1 DEF RoomOK
<1>5. ASSUME NEW r \in Requests, SeekersStart(r) PROVE RoomOK'
  <2> DEFINE live == {q \in Requests : Live(q)}
  <2>1. IsFiniteSet(live) /\ Cardinality(live) \in Nat /\ created + Cardinality(live) < MaxCreated
    BY <1>1, <1>5 DEF SeekersStart, RoomForAnother
  <2>2. Seekers' \subseteq live \cup {r} /\ r \notin live
    BY <1>5 DEF SeekersStart, Seekers, Live, Waits
  <2>3. IsFiniteSet(live \cup {r}) /\ Cardinality(live \cup {r}) = Cardinality(live) + 1
    BY <2>1, <2>2, FS_AddElement
  <2>4. Cardinality(Seekers') <= Cardinality(live) + 1
    BY <2>2, <2>3, FS_Subset
  <2> HIDE DEF live
  <2> QED
    BY <1>2, <1>3, <1>5, <2>1, <2>4 DEF RoomOK, SeekersStart
<1>6. ASSUME NEW r \in Requests, SeekersEnd(r) PROVE RoomOK'
  <2>1. IsFiniteSet(Seekers \ {r}) /\ Cardinality(Seekers \ {r}) = Cardinality(Seekers) - 1
    BY <1>3, <1>6, FS_RemoveElement DEF SeekersEnd
  <2>2. Cardinality(Seekers') <= Cardinality(Seekers) - 1
    BY <1>6, <2>1, FS_Subset DEF SeekersEnd
  <2> QED
    BY <1>2, <1>3, <1>6, <2>2 DEF RoomOK, SeekersEnd
<1> QED
  BY <1>4, <1>5, <1>6, SeekersMove

LEMMA RoomInit == Init => RoomOK
<1> SUFFICES ASSUME Init PROVE RoomOK
  OBVIOUS
<1>1. Seekers = {}
  BY DEF Init, Seekers
<1> QED
  BY <1>1, FS_EmptySet, ConstantsAssumption DEF Init, RoomOK

\* Rows have ids the contract knows.
IdsAreKnown == created <= MaxCreated

LEMMA RoomBounds == TypeInv /\ RoomOK => IdsAreKnown
<1> SUFFICES ASSUME TypeInv, RoomOK PROVE created <= MaxCreated
  BY DEF IdsAreKnown
<1>1. Seekers \in SUBSET Requests
  BY DEF Seekers
<1>2. Cardinality(Seekers) \in Nat
  BY <1>1, ConstantsAssumption, FS_Subset, FS_CardinalityType
<1> QED
  BY <1>2, ConstantsAssumption DEF RoomOK, TypeInv, TypeOK

\* The contract's state, and what a row adds to it.
Taken == {id \in DOMAIN post : Effect(id)}
VerdictOn(id) == IF id \in DOMAIN journal THEN VerdictOf(journal[id]) ELSE "open"
VerdictsNow == [id \in 1 .. MaxCreated |-> VerdictOn(id)]

LEMMA InitMaps == Init => Contract!Init
  BY DEF Init, Contract!Init

\* A step that leaves rows and effects alone is a stutter.
LEMMA NothingMoves ==
  ASSUME journal' = journal, Taken' = Taken
  PROVE  UNCHANGED Contract!contractVars
  BY DEF Contract!contractVars, Taken

LEMMA RowIsIntent ==
  ASSUME TypeInv, TypeInv', IdsAreKnown', Backend = "postgresql", Taken' = Taken,
         NEW a \in Attempts, NEW t \in Targets, AddRow(a, t)
  PROVE  Contract!Next
<1> DEFINE new == created + 1
<1>1. /\ DOMAIN journal' = DOMAIN journal \cup {new} /\ created' = new
      /\ \A id \in DOMAIN journal : journal'[id] = journal[id]
      /\ VerdictOf(journal'[new]) = "open"
  <2>1. /\ \A id \in DOMAIN journal' : id # new => journal'[id] = journal[id]
        /\ journal'[new] = NewEntry(a, t)
        /\ DOMAIN journal' = DOMAIN journal \cup {new} /\ created' = new
    BY AddRowType DEF TypeInv
  <2>2. new \notin DOMAIN journal
    BY DEF TypeInv, TypeOK
  <2> QED
    BY <2>1, <2>2 DEF VerdictOf, NewEntry
<1>2. new \in 1 .. MaxCreated /\ new \notin DOMAIN journal
  BY <1>1, ConstantsAssumption DEF IdsAreKnown, TypeInv, TypeOK
<1>3. \A id : VerdictOn(id)' = VerdictOn(id)
  BY <1>1, <1>2 DEF VerdictOn
<1> HIDE DEF new
<1>4. Contract!Intend(new)
  BY <1>1, <1>2, <1>3 DEF Contract!Intend, Taken, VerdictOn
<1> QED
  BY <1>2, <1>4 DEF Contract!Next

LEMMA SettlingConcludes ==
  ASSUME SafetyInv, SafetyInv', IdsAreKnown, Backend = "postgresql",
         NEW r \in Requests, NEW o \in Outcomes, Settles(r, o)
  PROVE  Contract!Next \/ UNCHANGED Contract!contractVars
<1> USE DEF SafetyInv
<1>0. PICK me \in DOMAIN post : me = action[r]
  BY DEF Settles, HandlersOwnTheirRows
<1>1. DOMAIN post' = DOMAIN post /\ Taken' = Taken
  <2>1. DOMAIN post' = DOMAIN post /\ UNCHANGED <<owed, history>>
    BY DEF Settles
  <2> QED
    BY <2>1, EffectSame DEF Taken
<1>2. CASE UNCHANGED journal
  BY <1>1, <1>2, NothingMoves
<1>3. CASE CanFinalize(me) /\ MarkTerminal(me, o)
  <2>1. /\ me \in 1 .. MaxCreated /\ me \in DOMAIN journal
        /\ journal[me] \in Entry /\ journal[me].state = "initiated"
    BY <1>3, ConstantsAssumption DEF CanFinalize, IdsAreKnown, TypeInv, TypeOK
  <2>2. /\ DOMAIN journal' = DOMAIN journal
        /\ \A id \in DOMAIN journal : id # me => journal'[id] = journal[id]
        /\ journal'[me].state = o.state /\ journal'[me].status = o.status
    BY <1>3, <2>1 DEF MarkTerminal, Entry
  <2>3. VerdictOn(me) = "open" /\ \A id : id # me => VerdictOn(id)' = VerdictOn(id)
    BY <2>1, <2>2 DEF VerdictOn, VerdictOf
  <2>4. /\ VerdictOn(me)' \in {"accepted", "rejected", "uncertain"}
        /\ VerdictOn(me)' = "accepted" => me \in Taken
        /\ VerdictOn(me)' = "rejected" => me \notin Taken
    <3>1. /\ journal'[me].state = "accepted" => Effect(me)'
          /\ journal'[me].state = "failed" /\ journal'[me].status # "error_5xx" => ~Effect(me)'
      BY <2>1, <2>2 DEF OutcomeIsTruthful
    <3>2. o.state \in Terminal
      BY DEF Outcomes
    <3> QED
      BY <1>0, <1>1, <2>1, <2>2, <3>1, <3>2 DEF VerdictOn, VerdictOf, Terminal, Taken
  <2>5. VerdictsNow' = [VerdictsNow EXCEPT ![me] = VerdictOn(me)']
    BY <2>3 DEF VerdictsNow
  <2>6. Contract!Conclude(me)
    BY <1>1, <2>1, <2>2, <2>3, <2>4, <2>5
    DEF Contract!Conclude, Taken, VerdictsNow, VerdictOn
  <2> QED
    BY <2>1, <2>6 DEF Contract!Next
<1> QED
  BY <1>0, <1>2, <1>3 DEF Settles

LEMMA GitHubTakesOn ==
  ASSUME SafetyInv, IdsAreKnown, Backend = "postgresql", NEW id \in DOMAIN post, GitHubHandles(id)
  PROVE  Contract!Next \/ UNCHANGED Contract!contractVars
<1> USE DEF SafetyInv
<1>1. /\ post[id].answer = "pending" /\ DOMAIN post' = DOMAIN post
      /\ owed' = owed \/ owed' = owed \cup {id}
      /\ UNCHANGED <<journal, history>>
  BY DEF GitHubHandles
<1>2. CASE owed' = owed
  BY <1>1, <1>2, EffectSame, NothingMoves DEF Taken
<1>3. CASE owed' = owed \cup {id}
  <2>1. id \in DOMAIN journal /\ id \in 1 .. MaxCreated /\ journal[id] \in Entry
    BY ConstantsAssumption DEF IdsAreKnown, IntentOnRecord, TypeInv, TypeOK
  <2>2. ~Effect(id)
    BY <1>1 DEF EffectOK
  <2>3. VerdictOn(id) \in {"open", "uncertain"}
    <3>1. /\ journal[id].state # "accepted"
          /\ journal[id].state = "failed" => journal[id].status = "error_5xx"
      BY <1>1, <2>1, <2>2 DEF OutcomeIsTruthful
    <3> QED
      BY <2>1, <3>1 DEF VerdictOn, VerdictOf, Entry, States, Terminal
  <2>4. Taken' = Taken \cup {id}
    BY <1>1, <1>3 DEF Taken, Effect, RedeliveredBy
  <2>5. Contract!TakeOn(id)
    BY <1>1, <2>1, <2>2, <2>3, <2>4 DEF Contract!TakeOn, Taken, VerdictOn
  <2> QED
    BY <2>1, <2>5 DEF Contract!Next
<1> QED
  BY <1>1, <1>2, <1>3

\* What GitHub makes of what it owes is no news to the contract.
LEMMA HistoryGrowsSilently ==
  ASSUME TypeInv, NEW e, history' = Append(history, e), UNCHANGED <<journal, post>>,
         \/ e.by = 0 /\ UNCHANGED owed
         \/ e.by \in owed /\ owed' = owed \ {e.by}
  PROVE  UNCHANGED Contract!contractVars
<1> DEFINE new == Len(history) + 1
<1>1. /\ DOMAIN history' = DOMAIN history \cup {new} /\ new \notin DOMAIN history
      /\ history'[new] = e
      /\ \A i \in DOMAIN history : history'[i] = history[i]
  BY DEF TypeInv, TypeOK
<1> HIDE DEF new
<1>2. \A id \in DOMAIN post : Effect(id)' = Effect(id)
  BY <1>1 DEF Effect, RedeliveredBy, TypeInv, TypeOK
<1> QED
  BY <1>2, NothingMoves DEF Taken

LEMMA StepMaps ==
  ASSUME Backend = "postgresql", SafetyInv, SafetyInv', IdsAreKnown, IdsAreKnown', [Next]_vars
  PROVE  [Contract!Next]_(Contract!contractVars)
<1> USE DEF SafetyInv
<1>1. FitsSome
  BY StepKinds
<1>2. CASE Quiet
  BY <1>2, EffectSame, NothingMoves DEF Quiet, Taken, githubVars
<1>3. ASSUME NEW r \in Requests, Posts(r) PROVE Contract!Next
  <2>1. ask[r].attempt \in Attempts /\ ask[r].target \in Targets
    BY DEF TypeInv, TypeOK, Asks
  <2>2. /\ AddRow(ask[r].attempt, ask[r].target) /\ UNCHANGED <<owed, history>>
        /\ DOMAIN post' = DOMAIN post \cup {created + 1}
    BY <1>3 DEF Posts, PostsWith
  <2>3. ~Effect(created + 1)
    BY NoEffectOfOthers DEF TypeInv, TypeOK
  <2>4. Taken' = Taken
    BY <2>2, <2>3, EffectSame DEF Taken
  <2> QED
    BY <2>1, <2>2, <2>4, RowIsIntent
<1>4. ASSUME NEW a \in Attempts, NEW t \in Targets, RowOnly(a, t) PROVE Contract!Next
  <2>1. AddRow(a, t) /\ Taken' = Taken
    BY <1>4, EffectSame DEF RowOnly, Taken, githubVars
  <2> QED
    BY <2>1, RowIsIntent
<1>5. ASSUME NEW id \in DOMAIN post, Redeliver(id)
      PROVE  UNCHANGED Contract!contractVars
  <2>1. Record(history[post[id].target].guid, id).by = id
    BY DEF Record
  <2> QED
    BY <1>5, <2>1, HistoryGrowsSilently DEF Redeliver
<1>6. ASSUME NEW guid \in Guids, Deliver(guid)
      PROVE  UNCHANGED Contract!contractVars
  <2>1. Record(guid, 0).by = 0
    BY DEF Record
  <2> QED
    BY <1>6, <2>1, HistoryGrowsSilently DEF Deliver
<1> QED
  BY <1>1, <1>2, <1>3, <1>4, <1>5, <1>6, SettlingConcludes, GitHubTakesOn DEF FitsSome

\* With PostgreSQL, whatever fails, is lost or restarts, every step of the
\* handlers and of GitHub is a step of the contract or none.
THEOREM ImplementsContract ==
  ASSUME Backend = "postgresql"
  PROVE  Spec => KeepsContract
<1>1. SafetyInv => TypeInv
  BY DEF SafetyInv
<1>2. Spec => []IdsAreKnown
  BY <1>1, SafetyHolds, RoomInit, RoomNext, RoomBounds, PTL DEF Spec
<1>3. SafetyInv /\ SafetyInv' /\ IdsAreKnown /\ IdsAreKnown' /\ [Next]_vars
        => [Contract!Next]_(Contract!contractVars)
  BY StepMaps
<1> QED
  BY <1>2, <1>3, InitMaps, SafetyHolds, PTL DEF Spec, KeepsContract, Contract!Spec

-----------------------------------------------------------------------------
(* The lookups that loop over the journal (JournalLookup).                 *)

LEMMA LargestOfSome ==
  ASSUME NEW n \in Nat, NEW S \in SUBSET (1 .. n), S # {}
  PROVE  Max(S) \in S
<1> DEFINE Above(x) == {y \in S : y > x}
           F == {Above(x) : x \in S}
<1>1. IsWellFoundedOn(StrictSubsetOrdering(1 .. n), FiniteSubsetsOf(1 .. n))
  BY FS_StrictSubsetOrderingWellFounded
<1>2. \A T \in SUBSET (1 .. n) : IsFiniteSet(T)
  <2>1. IsFiniteSet(1 .. n)
    BY FS_Interval
  <2> QED
    BY <2>1, FS_Subset
<1>3. F \subseteq FiniteSubsetsOf(1 .. n) /\ F # {}
  BY <1>2 DEF FiniteSubsetsOf
<1>4. PICK X \in F : \A Y \in F : ~(<<Y, X>> \in StrictSubsetOrdering(1 .. n))
  BY <1>1, <1>3, WFMin
<1>5. PICK x \in S : X = Above(x)
  OBVIOUS
<1>6. ASSUME NEW y \in S, y > x PROVE FALSE
  <2>1. Above(y) \subseteq Above(x) /\ y \in Above(x) /\ y \notin Above(y)
    <3>1. \A z \in S : z \in Int
      OBVIOUS
    <3>2. y > x /\ y \in Int /\ x \in Int
      BY <1>6, <3>1
    <3>3. ~(y > y)
      BY <3>2
    <3>4. \A z \in S : z > y => z > x
      BY <3>1, <3>2
    <3> QED
      BY <3>2, <3>3, <3>4
  <2>2. Above(y) \in F /\ Above(y) \in SUBSET (1 .. n) /\ Above(x) \in SUBSET (1 .. n)
    OBVIOUS
  <2> HIDE DEF Above, F
  <2> QED
    BY <1>4, <1>5, <2>1, <2>2 DEF StrictSubsetOrdering
<1>7. \A y \in S : x >= y
  BY <1>6
<1> QED
  BY <1>7 DEF Max

Scans == [want : Nat, ahead : SUBSET Nat, mutated : BOOLEAN]

\* A client whose lookup runs has no answer yet. What is true of the wanted
\* action now is among what was true of it during the loop. As long as nothing was pushed, the rows ahead are rows, and the
\* wanted one, if it is there, is ahead.
ScanOK(d) ==
  Scanning(d) =>
    /\ said[d] = "nothing"
    /\ Truth(scan[d].want) \in truths[d]
    /\ ~scan[d].mutated =>
         /\ scan[d].ahead \subseteq DOMAIN journal
         /\ scan[d].want \in DOMAIN journal => scan[d].want \in scan[d].ahead

LookupInv ==
  /\ TypeInv
  /\ scan \in [Readers -> Scans] /\ truths \in [Readers -> SUBSET Said]
  /\ said \in [Readers -> Said]
  /\ \A d \in Readers : ScanOK(d)

LEMMA LookupInitInv == LookupInit => LookupInv
<1> SUFFICES ASSUME LookupInit PROVE LookupInv
  OBVIOUS
<1>1. NoScan \in Scans /\ NoScan.want = 0
  BY DEF NoScan, Scans
<1>2. /\ TypeInv
      /\ scan = [d \in Readers |-> NoScan] /\ truths = [d \in Readers |-> {}]
      /\ said = [d \in Readers |-> "nothing"]
  BY InitType DEF LookupInit, InitReaders
<1> QED
  BY <1>1, <1>2 DEF LookupInv, ScanOK, Scanning, Said

\* Rows come and go only with a new one.
LEMMA RowsMove ==
  ASSUME TypeInv, NEW r \in Requests, Submit(r) \/ HandlerStep(r), created' = created
  PROVE  DOMAIN journal' = DOMAIN journal
<1>1. created \in Nat
  BY DEF TypeInv, TypeOK
<1>2. \A a, t : ~AddRow(a, t)
  BY <1>1 DEF AddRow
<1>3. CASE Submit(r) \/ Lookup(r)
  BY <1>3 DEF Submit, Lookup
<1>4. CASE ReceivePage(r)
  <2>1. journal' = journal
    BY <1>2, <1>4 DEF ReceivePage, PageArrives, NextPage, Verify, CreateAndPost, CreateFails,
       SearchFails
  <2> QED
    BY <2>1
<1>5. ASSUME NEW o, NEW rep, Finalize(r, o, rep) PROVE DOMAIN journal' = DOMAIN journal
  BY <1>5 DEF Finalize, MarkTerminal
<1>6. CASE Answered(r) \/ ConnectFails(r) \/ TimesOut(r)
  BY <1>5, <1>6 DEF Answered, ConnectFails, TimesOut
<1> QED
  BY <1>3, <1>4, <1>6 DEF HandlerStep

LEMMA TruthType == TypeInv => \A id : Truth(id) \in Said
  BY DEF TypeInv, TypeOK, Truth, Said, Entry

LEMMA DisturbedStay ==
  ASSUME LookupInv, TypeInv', NEW r \in Requests, Submit(r) \/ HandlerStep(r), Disturb
  PROVE  LookupInv'
<1>1. /\ scan' = [d \in Readers |-> IF Scanning(d) /\ created' # created
                                  THEN [scan[d] EXCEPT !.ahead = {}, !.mutated = TRUE]
                                  ELSE scan[d]]
      /\ truths' = [d \in Readers |-> IF Scanning(d) THEN truths[d] \cup {Truth(scan[d].want)'}
                                    ELSE truths[d]]
      /\ said' = said
  BY DEF Disturb
<1>2. created' = created => DOMAIN journal' = DOMAIN journal
  BY RowsMove DEF LookupInv
<1>3. ASSUME NEW d \in Readers
      PROVE  /\ scan'[d] \in Scans /\ scan'[d].want = scan[d].want
             /\ created' # created /\ Scanning(d) => scan'[d].mutated
             /\ created' = created \/ ~Scanning(d) => scan'[d] = scan[d]
  <2>1. scan[d] \in Scans
    BY DEF LookupInv
  <2>2. CASE Scanning(d) /\ created' # created
    <3>1. scan'[d] = [scan[d] EXCEPT !.ahead = {}, !.mutated = TRUE]
      BY <1>1, <2>2
    <3> QED
      BY <2>1, <2>2, <3>1 DEF Scans
  <2>3. CASE ~(Scanning(d) /\ created' # created)
    BY <1>1, <2>1, <2>3
  <2> QED
    BY <2>2, <2>3
<1>4. \A d \in Readers : Scanning(d) => truths'[d] = truths[d] \cup {Truth(scan[d].want)'}
  BY <1>1
<1>5. scan' \in [Readers -> Scans] /\ said' \in [Readers -> Said]
  BY <1>1, <1>3 DEF LookupInv
<1>6. \A d \in Readers : Truth(scan[d].want)' \in Said
  BY TruthType DEF TypeInv, TypeOK, Truth, Said, Entry
<1>7. truths' \in [Readers -> SUBSET Said]
  <2>1. \A d \in Readers : truths[d] \in SUBSET Said
    BY DEF LookupInv
  <2>2. \A d \in Readers : truths'[d] = truths[d] \cup {Truth(scan[d].want)'} \/ truths'[d] = truths[d]
    BY <1>1
  <2>3. \A d \in Readers : truths'[d] \in SUBSET Said
    BY <1>6, <2>1, <2>2
  <2>4. truths' = [d \in Readers |-> truths'[d]]
    BY <1>1
  <2> QED
    BY <2>3, <2>4
<1>8. ASSUME NEW d \in Readers, Scanning(d)'
      PROVE  /\ said'[d] = "nothing" /\ Truth(scan[d].want)' \in truths'[d]
             /\ ~scan'[d].mutated =>
                  /\ scan'[d].ahead \subseteq DOMAIN journal'
                  /\ scan'[d].want \in DOMAIN journal' => scan'[d].want \in scan'[d].ahead
  <2>1. Scanning(d)
    BY <1>3, <1>8 DEF Scanning
  <2>2. Truth(scan[d].want)' \in truths'[d]
    BY <1>4, <2>1
  <2>3. ASSUME ~scan'[d].mutated
        PROVE  created' = created /\ scan'[d] = scan[d] /\ ~scan[d].mutated
    BY <1>3, <2>1, <2>3
  <2>4. said'[d] = "nothing" /\ ScanOK(d)
    BY <1>1, <2>1 DEF LookupInv, ScanOK
  <2> QED
    BY <1>2, <2>1, <2>2, <2>3, <2>4 DEF ScanOK
<1> QED
  BY <1>5, <1>7, <1>8 DEF LookupInv, ScanOK

\* What GitHub does changes no row.
LEMMA UnseenStay ==
  ASSUME LookupInv, TypeInv', UNCHANGED <<journal, readerVars>>
  PROVE  LookupInv'
  BY DEF LookupInv, ScanOK, Scanning, Truth, readerVars

LEMMA StoppedStay ==
  ASSUME LookupInv, TypeInv', StopReaders
  PROVE  LookupInv'
<1>1. NoScan \in Scans /\ NoScan.want = 0
  BY DEF NoScan, Scans
<1>2. /\ scan' = [d \in Readers |-> NoScan] /\ truths' = [d \in Readers |-> {}]
      /\ said' = said
  BY DEF StopReaders
<1> QED
  BY <1>1, <1>2 DEF LookupInv, ScanOK, Scanning

LEMMA AskedOK == ASSUME LookupInv, NEW d \in Readers, Ask(d) PROVE LookupInv'
<1>1. PICK id \in 1 .. created :
        /\ scan' = [scan EXCEPT ![d] = [want |-> id, ahead |-> DOMAIN journal, mutated |-> FALSE]]
        /\ truths' = [truths EXCEPT ![d] = {Truth(id)}]
  BY DEF Ask
<1>2. /\ said' = [said EXCEPT ![d] = "nothing"] /\ "nothing" \in Said
      /\ UNCHANGED <<pc, ask, search, action, reply, journal, created, post, owed, history>>
  BY DEF Ask, vars, Said
<1>3. TypeInv'
  BY <1>2 DEF LookupInv, TypeInv, TypeOK, SearchOK, Verified, ActionOK, TargetOK
<1>4. DOMAIN journal \subseteq Nat /\ id \in Nat /\ Truth(id) \in Said
  BY TruthType DEF LookupInv, TypeInv, TypeOK
<1>5. /\ scan' \in [Readers -> Scans] /\ truths' \in [Readers -> SUBSET Said]
      /\ said' \in [Readers -> Said]
  BY <1>1, <1>2, <1>4 DEF LookupInv, Scans
<1>6. \A i : Truth(i)' = Truth(i)
  BY <1>2 DEF Truth
<1>7. ASSUME NEW e \in Readers PROVE ScanOK(e)'
  <2>1. CASE e = d
    <3>1. /\ scan'[e].want = id /\ scan'[e].ahead = DOMAIN journal /\ truths'[e] = {Truth(id)}
          /\ said'[e] = "nothing"
      BY <1>1, <1>2, <2>1 DEF LookupInv
    <3>2. Truth(scan[e].want)' = Truth(id)
      BY <1>2, <3>1 DEF Truth
    <3> QED
      BY <1>2, <3>1, <3>2 DEF ScanOK
  <2>2. CASE e # d
    <3>1. scan'[e] = scan[e] /\ truths'[e] = truths[e] /\ said'[e] = said[e] /\ ScanOK(e)
      BY <1>1, <1>2, <2>2 DEF LookupInv
    <3> QED
      BY <1>2, <3>1 DEF ScanOK, Scanning, Truth
  <2> QED
    BY <2>1, <2>2
<1> QED
  BY <1>3, <1>5, <1>7 DEF LookupInv

\* A turn of the loop goes on, or answers with what was true in its course.
LEMMA TurnedOK ==
  ASSUME LookupInv, NEW d \in Readers, Turn(d)
  PROVE  /\ LookupInv'
         /\ ~Scanning(d)' => said'[d] \in truths[d] \cup {"error"}
         /\ \A e \in Readers \ {d} : scan'[e] = scan[e]
<1> DEFINE next == Max(scan[d].ahead)
<1>1. /\ Scanning(d)
      /\ UNCHANGED <<pc, ask, search, action, reply, journal, created, post, owed, history>>
  BY DEF Turn, vars
<1>2. TypeInv'
  BY <1>1 DEF LookupInv, TypeInv, TypeOK, SearchOK, Verified, ActionOK, TargetOK
<1>3. /\ said[d] = "nothing"
      /\ scan[d] \in Scans /\ Truth(scan[d].want) \in truths[d] /\ truths[d] \subseteq Said
      /\ ~scan[d].mutated =>
           /\ scan[d].ahead \subseteq DOMAIN journal
           /\ scan[d].want \in DOMAIN journal => scan[d].want \in scan[d].ahead
      /\ created \in Nat /\ DOMAIN journal \subseteq 1 .. created
  BY <1>1 DEF LookupInv, ScanOK, TypeInv, TypeOK
<1>4. NoScan \in Scans /\ NoScan.want = 0
  BY DEF NoScan, Scans
<1>5. ASSUME NEW what \in Said, Say(d, what), what \in truths[d] \cup {"error"}
      PROVE  /\ LookupInv' /\ said'[d] \in truths[d] \cup {"error"}
             /\ \A e \in Readers \ {d} : scan'[e] = scan[e]
  <2>1. /\ scan' = [scan EXCEPT ![d] = NoScan] /\ truths' = [truths EXCEPT ![d] = {}]
        /\ said' = [said EXCEPT ![d] = what]
    BY <1>5 DEF Say
  <2>2. /\ scan' \in [Readers -> Scans] /\ truths' \in [Readers -> SUBSET Said]
        /\ said' \in [Readers -> Said]
    BY <1>4, <2>1 DEF LookupInv
  <2>3. ASSUME NEW e \in Readers PROVE ScanOK(e)'
    <3>1. CASE e = d
      BY <1>4, <2>1, <3>1 DEF LookupInv, ScanOK, Scanning
    <3>2. CASE e # d
      <4>1. scan'[e] = scan[e] /\ truths'[e] = truths[e] /\ said'[e] = said[e] /\ ScanOK(e)
        BY <2>1, <3>2 DEF LookupInv
      <4> QED
        BY <1>1, <4>1 DEF ScanOK, Scanning, Truth
    <3> QED
      BY <3>1, <3>2
  <2>4. said'[d] = what /\ \A e \in Readers \ {d} : scan'[e] = scan[e]
    BY <2>1 DEF LookupInv
  <2> QED
    BY <1>2, <1>5, <2>2, <2>3, <2>4 DEF LookupInv
<1>6. CASE scan[d].mutated /\ Say(d, "error")
  BY <1>5, <1>6 DEF Said
<1>7. CASE ~scan[d].mutated /\ scan[d].ahead = {} /\ Say(d, "absent")
  <2>1. Truth(scan[d].want) = "absent"
    BY <1>3, <1>7 DEF Truth
  <2> QED
    BY <1>3, <1>5, <1>7, <2>1 DEF Said
<1>8. CASE ~scan[d].mutated /\ scan[d].ahead # {} /\ Look(d)
  <2>1. next \in scan[d].ahead /\ next \in DOMAIN journal
    <3>1. scan[d].ahead \in SUBSET (1 .. created)
      BY <1>3, <1>8
    <3> QED
      BY <1>3, <1>8, <3>1, LargestOfSome
  <2>2. CASE next = scan[d].want /\ Say(d, journal[next].state)
    <3>1. Truth(scan[d].want) = journal[next].state
      BY <2>1, <2>2 DEF Truth
    <3> QED
      BY <1>3, <1>5, <2>2, <3>1
  <2>3. CASE /\ next # scan[d].want /\ scan' = [scan EXCEPT ![d].ahead = @ \ {next}]
             /\ UNCHANGED <<said, truths>>
    <3> HIDE DEF next
    <3>1. /\ scan'[d] = [scan[d] EXCEPT !.ahead = @ \ {next}]
          /\ \A e \in Readers \ {d} : scan'[e] = scan[e]
          /\ DOMAIN scan' = Readers /\ scan' = [e \in Readers |-> scan'[e]]
      BY <2>3 DEF LookupInv
    <3>2. /\ scan'[d] \in Scans /\ scan'[d].want = scan[d].want
          /\ scan'[d].ahead = scan[d].ahead \ {next} /\ scan'[d].mutated = scan[d].mutated
      BY <1>3, <3>1 DEF Scans
    <3>3. \A e \in Readers : scan'[e] \in Scans
      BY <3>1, <3>2 DEF LookupInv
    <3>4. scan' \in [Readers -> Scans]
      BY <3>1, <3>3
    <3>5. Scanning(d)'
      BY <1>1, <3>2 DEF Scanning
    <3>6. ASSUME NEW e \in Readers PROVE ScanOK(e)'
      <4>1. CASE e = d
        BY <1>1, <1>3, <2>3, <3>2, <4>1 DEF ScanOK, Truth
      <4>2. CASE e # d
        <5>1. scan'[e] = scan[e] /\ truths'[e] = truths[e] /\ said'[e] = said[e] /\ ScanOK(e)
          BY <2>3, <3>1, <4>2 DEF LookupInv
        <5> QED
          BY <1>1, <5>1 DEF ScanOK, Scanning, Truth
      <4> QED
        BY <4>1, <4>2
    <3> QED
      BY <1>2, <2>3, <3>1, <3>4, <3>5, <3>6 DEF LookupInv
  <2> QED
    BY <1>8, <2>2, <2>3 DEF Look
<1> QED
  BY <1>6, <1>7, <1>8 DEF Turn

\* Every step of the lookups' system is one of Redelivery, or none.
LEMMA LookupIsRedelivery == LookupNext => [Next]_vars
  BY DEF LookupNext, Next, Environment, Ask, Turn

LEMMA LookupStep == LookupInv /\ [LookupNext]_<<vars, readerVars>> => LookupInv'
<1> SUFFICES ASSUME LookupInv, [LookupNext]_<<vars, readerVars>> PROVE LookupInv'
  OBVIOUS
<1>1. TypeInv'
  BY NextType, LookupIsRedelivery DEF LookupInv
<1>2. CASE UNCHANGED <<vars, readerVars>>
  BY <1>1, <1>2, UnseenStay DEF vars
<1>3. ASSUME NEW r \in Requests, (Submit(r) \/ HandlerStep(r)) /\ Disturb PROVE LookupInv'
  BY <1>1, <1>3, DisturbedStay
<1>4. ASSUME NEW id \in DOMAIN post, (GitHubHandles(id) \/ Redeliver(id)) /\ UNCHANGED readerVars
      PROVE  LookupInv'
  BY <1>1, <1>4, UnseenStay DEF GitHubHandles, Redeliver
<1>5. ASSUME NEW guid \in Guids, Deliver(guid) /\ UNCHANGED readerVars PROVE LookupInv'
  BY <1>1, <1>5, UnseenStay DEF Deliver
<1>6. CASE Restart /\ StopReaders
  BY <1>1, <1>6, StoppedStay
<1>7. ASSUME NEW d \in Readers, Ask(d) \/ Turn(d) PROVE LookupInv'
  BY <1>7, AskedOK, TurnedOK
<1> QED
  BY <1>2, <1>3, <1>4, <1>5, <1>6, <1>7 DEF LookupNext

\* The loop of a lookup takes no lock: it may fail when a row is pushed under it,
\* but what it answers was true of the action at some time while it ran.
THEOREM LookupsAreCurrent == LookupSpec => LookupIsCurrent
<1>1. LookupSpec => []LookupInv
  BY LookupInitInv, LookupStep, PTL DEF LookupSpec
<1>2. ASSUME LookupInv, LookupNext, NEW d \in Readers,
             Scanning(d), ~Scanning(d)', said'[d] \notin {"nothing", "error"}
      PROVE  said'[d] \in truths[d]
  <2>1. ASSUME NEW r \in Requests, Disturb PROVE FALSE
    <3>1. scan[d] \in Scans
      BY <1>2 DEF LookupInv
    <3>2. scan' = [e \in Readers |-> IF Scanning(e) /\ created' # created
                                     THEN [scan[e] EXCEPT !.ahead = {}, !.mutated = TRUE]
                                     ELSE scan[e]]
      BY <2>1 DEF Disturb
    <3>3. scan'[d] = IF Scanning(d) /\ created' # created
                     THEN [scan[d] EXCEPT !.ahead = {}, !.mutated = TRUE] ELSE scan[d]
      BY <3>2
    <3>4. [scan[d] EXCEPT !.ahead = {}, !.mutated = TRUE].want = scan[d].want
      BY <3>1 DEF Scans
    <3>5. scan'[d].want = scan[d].want
      BY <3>3, <3>4
    <3>6. scan[d].want # 0 /\ ~(scan'[d].want # 0)
      BY <1>2 DEF Scanning
    <3> QED
      BY <3>5, <3>6
  <2>2. ASSUME UNCHANGED readerVars PROVE FALSE
    <3>1. scan' = scan
      BY <2>2 DEF readerVars
    <3>2. scan[d].want # 0 /\ ~(scan'[d].want # 0)
      BY <1>2 DEF Scanning
    <3> QED
      BY <3>1, <3>2
  <2>3. ASSUME StopReaders PROVE FALSE
    <3>1. said'[d] = said[d]
      BY <2>3 DEF StopReaders
    <3>2. said[d] = "nothing"
      BY <1>2 DEF LookupInv, ScanOK
    <3> QED
      BY <1>2, <3>1, <3>2
  <2>4. ASSUME NEW e \in Readers, Ask(e) PROVE FALSE
    BY <1>2, <2>4 DEF Ask, Scanning, LookupInv
  <2>5. ASSUME NEW e \in Readers, Turn(e) PROVE said'[d] \in truths[d]
    BY <1>2, <2>5, TurnedOK DEF Scanning
  <2> QED
    BY <1>2, <2>1, <2>2, <2>3, <2>4, <2>5 DEF LookupNext
<1>3. ASSUME LookupInv, [LookupNext]_<<vars, readerVars>>
      PROVE  [\A d \in Readers :
                Scanning(d) /\ ~Scanning(d)' /\ said'[d] \notin {"nothing", "error"}
                  => said'[d] \in truths[d]]_<<vars, readerVars>>
  BY <1>2, <1>3
<1> QED
  BY <1>1, <1>3, PTL DEF LookupSpec, LookupIsCurrent
=============================================================================
