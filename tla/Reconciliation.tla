--------------------------- MODULE Reconciliation ---------------------------
(***************************************************************************)
(* Read-only reconciliation of a local attempt with GitHub's delivery      *)
(* history, GET /delivery-attempts/{attempt_id}/github-deliveries: one     *)
(* request searches a bounded number of pages and, if there are more,      *)
(* answers with a continuation cursor bound to the attempt, with which the *)
(* client asks again. GitHub's history meanwhile grows at the top and is   *)
(* dropped at the bottom, requests fail, and the process restarts.         *)
(*                                                                         *)
(* The program keeps nothing between two requests and clients share        *)
(* nothing but the history, so the model follows one client. The code      *)
(* between two awaits (the lookup and each page) is one step.              *)
(***************************************************************************)
EXTENDS Integers, Sequences

CONSTANTS
  Attempts,    \* local attempts of one hook
  NoAttempt,   \* none of them
  Guids,       \* X-GitHub-Delivery values
  GuidOf,      \* the delivery_guid of each attempt
  Eligible,    \* attempts whose repository coordinates are usable
  MaxPages,    \* GITHUB_RECONCILIATION_MAX_PAGES
  PerPage,     \* REPOSITORY_DELIVERIES_PER_PAGE
  LinkForms,   \* the rel="next" links GitHub sends
  MaxHistory   \* bound: records GitHub ever makes

ASSUME ConstantsAssumption ==
  /\ NoAttempt \notin Attempts
  /\ GuidOf \in [Attempts -> Guids]
  /\ Eligible \subseteq Attempts
  /\ MaxPages \in Nat \ {0}
  /\ PerPage \in Nat \ {0}
  /\ LinkForms \subseteq {"expected", "other"}
  /\ MaxHistory \in Nat

VARIABLES
  history,   \* GitHub's records; the id of a record is its place
  expired,   \* how many of the oldest GitHub has dropped
  stage,     \* what the request waits for, if one is under way
  attempt,   \* the attempt the client asks about
  token,     \* the continuation cursor it holds
  search,    \* the handler's locals
  pages,     \* the matches of each answer of this traversal
  complete,  \* whether the last of them said search_complete
  owed,      \* matching records that were there from the first request on
  misled     \* a link to elsewhere ended the traversal before its end

clientVars == <<attempt, token, pages, complete>>
githubVars == <<history, expired>>
vars == <<history, expired, stage, attempt, token, search, pages, complete, owed, misled>>

\* A cursor of GitHub's is the id below which a page starts; 0 is no cursor.
NoToken == [attempt |-> NoAttempt, at |-> 0]
NoSearch == [cursor |-> 0, pages |-> 0, matches |-> {}]

Served == UNION {pages[i] : i \in DOMAIN pages}

Init ==
  /\ history = << >>
  /\ expired = 0
  /\ stage = "idle"
  /\ attempt = NoAttempt
  /\ token = NoToken
  /\ search = NoSearch
  /\ pages = << >>
  /\ complete = FALSE
  /\ owed = {}
  /\ misled = FALSE

-----------------------------------------------------------------------------
(* GitHub.                                                                 *)

\* A record is sound if all its fields are of the types the client expects.
Record == [guid : Guids, sound : BOOLEAN]

Kept == expired + 1 .. Len(history)

Deliver(record) ==
  /\ Len(history) < MaxHistory
  /\ history' = Append(history, record)
  /\ UNCHANGED <<expired, stage, clientVars, search, owed, misled>>

Expire ==
  /\ Kept # {}
  /\ expired' = expired + 1
  /\ owed' = owed \ {expired'}
  /\ UNCHANGED <<history, stage, clientVars, search, misled>>

Top(cursor) == IF cursor = 0 THEN Len(history) ELSE cursor - 1
Page(cursor) == {i \in Kept : i <= Top(cursor) /\ i > Top(cursor) - PerPage}
Older(cursor) == Top(cursor) - PerPage > expired
CursorAfter(cursor) == Top(cursor) - PerPage + 1

-----------------------------------------------------------------------------
(* The client.                                                             *)

Matching(a) == {i \in Kept : history[i].guid = GuidOf[a]}

\* A first request about an attempt, without a cursor or with the one the
\* client still has from its traversal for another attempt.
Begin(a) ==
  /\ stage = "idle"
  /\ stage' = "lookup"
  /\ attempt' = a
  /\ \/ token' = NoToken
     \/ token # NoToken /\ token.attempt # a /\ token' = token
  /\ pages' = << >>
  /\ complete' = FALSE
  /\ owed' = Matching(a)
  /\ misled' = FALSE
  /\ UNCHANGED <<search, githubVars>>

\* The next page, or the last request once more if it failed.
Continue ==
  /\ stage = "idle"
  /\ attempt # NoAttempt
  /\ ~complete
  /\ stage' = "lookup"
  /\ UNCHANGED <<clientVars, search, owed, misled, githubVars>>

-----------------------------------------------------------------------------
(* The handler.                                                            *)

\* Any answer but 200: the client is left with the cursor it had.
Refuse ==
  /\ stage' = "idle"
  /\ search' = NoSearch
  /\ UNCHANGED clientVars

\* Mutant: the cursor is taken whatever attempt it was given for.
DecodedAnyAttempt(cursor) == TRUE

Decoded(cursor) == cursor = NoToken \/ cursor.attempt = attempt

\* 404, or 503 when the ledger fails; 409; 400; else the first page.
Lookup ==
  /\ stage = "lookup"
  /\ \/ Refuse
     \/ /\ attempt \in Eligible
        /\ Decoded(token)
        /\ stage' = "search"
        /\ search' = [NoSearch EXCEPT !.cursor = token.at]
        /\ UNCHANGED clientVars
  /\ UNCHANGED <<owed, misled, githubVars>>

Encoded(cursor) == [attempt |-> attempt, at |-> cursor]

Answer(matches, cursor) ==
  /\ pages' = Append(pages, matches)
  /\ complete' = (cursor = 0)
  /\ token' = IF cursor = 0 THEN NoToken ELSE Encoded(cursor)
  /\ stage' = "idle"
  /\ search' = NoSearch
  /\ UNCHANGED attempt

\* parse_delivery_summary: one record that is not sound spoils its page.
Readable == \A i \in Page(search.cursor) : history[i].sound

Found ==
  search.matches \cup {i \in Page(search.cursor) : history[i].guid = GuidOf[attempt]}

\* extract_next_cursor: a link to another host or path is taken for no link.
NextCursor(form) ==
  IF form = "expected" /\ Older(search.cursor) THEN CursorAfter(search.cursor) ELSE 0

\* There was a next page, and its link is not followed.
Astray(form) == form = "other" /\ Older(search.cursor)

\* What follows a page whose matches, with those before, are these.
GoOn(matches, next) ==
  IF next # 0 /\ search.pages + 1 < MaxPages
  THEN /\ search' = [cursor |-> next, pages |-> search.pages + 1, matches |-> matches]
       /\ UNCHANGED <<stage, clientVars>>
  ELSE Answer(matches, next)

\* Mutant: each page's matches replace those before.
ReceivePageLosesMatches(form) ==
  /\ stage = "search"
  /\ Readable
  /\ GoOn(Found \ search.matches, NextCursor(form))
  /\ misled' = Astray(form)
  /\ UNCHANGED <<owed, githubVars>>

ReceivePage(form) ==
  /\ stage = "search"
  /\ Readable
  /\ GoOn(Found, NextCursor(form))
  /\ misled' = Astray(form)
  /\ UNCHANGED <<owed, githubVars>>

\* Mutant: a page that fails is asked for again at once.
SearchFailsRetrying ==
  /\ stage = "search"
  /\ search' = NoSearch
  /\ UNCHANGED <<stage, clientVars, owed, misled, githubVars>>

\* A page that cannot be had or read: 503 or 502, the matches so far are lost.
SearchFails ==
  /\ stage = "search"
  /\ Refuse
  /\ UNCHANGED <<owed, misled, githubVars>>

\* The process restarts: the client's request fails, its cursor stays good.
Restart ==
  /\ stage # "idle"
  /\ Refuse
  /\ UNCHANGED <<owed, misled, githubVars>>

HandlerStep == Lookup \/ SearchFails \/ \E form \in LinkForms : ReceivePage(form)

Next ==
  \/ \E record \in Record : Deliver(record)
  \/ Expire
  \/ \E a \in Attempts : Begin(a)
  \/ Continue
  \/ HandlerStep
  \/ Restart

\* The lookup returns, and each page answers or times out.
Fairness == WF_vars(HandlerStep)

Spec == Init /\ [][Next]_vars
FairSpec == Spec /\ Fairness

-----------------------------------------------------------------------------
(* Properties.                                                             *)

TypeOK ==
  /\ history \in Seq(Record)
  /\ expired \in 0 .. Len(history)
  /\ stage \in {"idle", "lookup", "search"}
  /\ attempt \in Attempts \cup {NoAttempt}
  /\ token \in {NoToken} \cup [attempt : Eligible, at : 1 .. Len(history)]
  /\ search \in [cursor : 0 .. Len(history), pages : 0 .. MaxPages - 1,
                 matches : SUBSET (1 .. Len(history))]
  /\ pages \in Seq(SUBSET (1 .. Len(history)))
  /\ complete \in BOOLEAN
  /\ owed \subseteq Kept
  /\ misled \in BOOLEAN

\* Between requests, a client's cursor splits its traversal: matches it has are
\* at or above it, and those it is still owed lie below, however the history
\* moved meanwhile (reconcile, encode_reconciliation_cursor). README.md:431: if
\* history remains, search_complete is false. What a complete answer lacks came
\* after the first request, unless a next link named another host or path.
CursorSplits ==
  /\ token.attempt = attempt => \A i \in Served : token.at <= i
  /\ \A i \in owed \ Served :
       /\ ~complete \/ misled
       /\ token.attempt = attempt => i < token.at

\* Every answer that is not the last gets the client further down the history,
\* so that a client that goes on comes to an end (max_pages is at least 1).
CursorDescends ==
  [][pages' # pages /\ pages' # << >> /\ ~complete' /\ token # NoToken => token'.at < token.at]_vars

\* Whatever GitHub does and however long its history is, a request is answered
\* (reconcile, list_repository_webhook_deliveries).
Responds == stage # "idle" ~> stage = "idle"

\* No match twice, complete only when everything owed was sent; an answer to a
\* link that led elsewhere says complete and is not.
Contract == INSTANCE Traversal WITH
  ever <- 1 .. Len(history), complete <- complete /\ ~misled
KeepsTraversal == Contract!Spec
=============================================================================
