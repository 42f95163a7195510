------------------------ MODULE ReconciliationProofs ------------------------
(***************************************************************************)
(* Proofs about Reconciliation, for any number of attempts, any history,   *)
(* any page size and any bound on pages.                                   *)
(***************************************************************************)
EXTENDS Reconciliation, TLAPS

LEMMA AppendGrows ==
  ASSUME NEW S, NEW s \in Seq(S), NEW e \in S
  PROVE  /\ Append(s, e) \in Seq(S)
         /\ Len(Append(s, e)) = Len(s) + 1
         /\ DOMAIN Append(s, e) = DOMAIN s \cup {Len(s) + 1}
         /\ \A i \in DOMAIN s : Append(s, e)[i] = s[i]
         /\ Append(s, e)[Len(s) + 1] = e
  OBVIOUS

\* A sequence over a set is one over a larger set.
LEMMA WiderSeq ==
  ASSUME NEW S, NEW T, S \subseteq T, NEW s \in Seq(S)
  PROVE  s \in Seq(T)
  OBVIOUS

\* One page more.
LEMMA SentMore ==
  ASSUME NEW S, pages \in Seq(SUBSET S), NEW m \in SUBSET S, pages' = Append(pages, m)
  PROVE  Served' = Served \cup m
<1>1. /\ DOMAIN pages' = DOMAIN pages \cup {Len(pages) + 1}
      /\ \A i \in DOMAIN pages : pages'[i] = pages[i]
      /\ pages'[Len(pages) + 1] = m
  BY AppendGrows
<1> QED
  BY <1>1 DEF Served

\* While it searches: about an attempt whose coordinates are usable, and below
\* the cursor the request came with.
SearchOK ==
  stage = "search" =>
    /\ attempt \in Eligible
    /\ \/ token = NoToken
       \/ /\ token # NoToken /\ token.attempt = attempt
          /\ 0 < search.cursor /\ search.cursor <= token.at

Base == TypeOK /\ SearchOK

\* What GitHub's paging is in numbers.
LEMMA Paging ==
  ASSUME TypeOK, NEW cursor \in 0 .. Len(history)
  PROVE  /\ Len(history) \in Nat /\ expired \in Nat /\ expired <= Len(history)
         /\ Top(cursor) \in Int /\ Top(cursor) <= Len(history)
         /\ cursor # 0 => Top(cursor) = cursor - 1
         /\ cursor = 0 => Top(cursor) = Len(history)
         /\ CursorAfter(cursor) \in Int
         /\ CursorAfter(cursor) = Top(cursor) - PerPage + 1
         /\ Older(cursor) => CursorAfter(cursor) \in 1 .. Len(history)
         /\ cursor # 0 => CursorAfter(cursor) < cursor
         /\ Page(cursor) \subseteq 1 .. Len(history)
         /\ \A i \in Page(cursor) : CursorAfter(cursor) <= i /\ i <= Top(cursor)
  BY ConstantsAssumption DEF TypeOK, Top, Older, CursorAfter, Page, Kept

LEMMA HistoryLength ==
  ASSUME TypeOK
  PROVE  Len(history) \in Nat /\ expired \in Nat /\ expired <= Len(history)
  BY DEF TypeOK

LEMMA InitBase == Init => Base
<1> SUFFICES ASSUME Init PROVE Base
  OBVIOUS
<1> USE DEF Init
<1>1. history \in Seq(Record) /\ Len(history) = 0
  OBVIOUS
<1>2. pages \in Seq(SUBSET (1 .. Len(history)))
  OBVIOUS
<1>3. 0 \in 0 .. Len(history) /\ 0 \in 0 .. MaxPages - 1
  BY <1>1, ConstantsAssumption
<1>4. search \in [cursor : 0 .. Len(history), pages : 0 .. MaxPages - 1,
                  matches : SUBSET (1 .. Len(history))]
  BY <1>3 DEF NoSearch
<1> QED
  BY <1>1, <1>2, <1>3, <1>4 DEF Base, TypeOK, SearchOK, Kept

\* The history only grows, so that what names a record goes on naming one.
LEMMA DeliverKeepsBase ==
  ASSUME Base, NEW record \in Record, Deliver(record)
  PROVE  Base'
<1> USE DEF Base
<1>1. history' \in Seq(Record) /\ Len(history') = Len(history) + 1
  BY AppendGrows DEF Deliver, TypeOK
<1>2. Len(history) \in Nat /\ 1 .. Len(history) \subseteq 1 .. Len(history')
  BY <1>1, HistoryLength
<1>3. pages' \in Seq(SUBSET (1 .. Len(history')))
  BY <1>2, WiderSeq DEF TypeOK, Deliver, clientVars
<1>4. search' \in [cursor : 0 .. Len(history'), pages : 0 .. MaxPages - 1,
                   matches : SUBSET (1 .. Len(history'))]
  BY <1>1, <1>2 DEF TypeOK, Deliver
<1>5. token' \in {NoToken} \cup [attempt : Eligible, at : 1 .. Len(history')]
  BY <1>1, <1>2 DEF TypeOK, Deliver, clientVars
<1>6. owed' \subseteq Kept'
  BY <1>1, <1>2 DEF TypeOK, Deliver, Kept
<1>7. SearchOK'
  BY DEF SearchOK, Deliver, clientVars
<1> QED
  BY <1>1, <1>2, <1>3, <1>4, <1>5, <1>6, <1>7 DEF TypeOK, Deliver, clientVars

LEMMA ExpireKeepsBase ==
  ASSUME Base, Expire
  PROVE  Base'
  BY HistoryLength DEF Base, TypeOK, SearchOK, Expire, Kept, clientVars

\* What a page adds, and where the next one begins.
LEMMA FoundFacts ==
  ASSUME Base, stage = "search", NEW form \in LinkForms
  PROVE  /\ Found \in SUBSET (1 .. Len(history))
         /\ NextCursor(form) \in 0 .. Len(history)
         /\ NextCursor(form) # 0 => NextCursor(form) = CursorAfter(search.cursor)
         /\ NextCursor(form) # 0 /\ search.cursor # 0 => NextCursor(form) < search.cursor
<1>1. search.cursor \in 0 .. Len(history) /\ search.matches \subseteq 1 .. Len(history)
  BY DEF Base, TypeOK
<1> QED
  BY <1>1, Paging, HistoryLength DEF Found, NextCursor, Base

LEMMA AnswerKeepsBase ==
  ASSUME Base, stage = "search", NEW matches \in SUBSET (1 .. Len(history)),
         NEW next \in 0 .. Len(history), Answer(matches, next), misled' \in BOOLEAN, UNCHANGED <<owed, githubVars>>
  PROVE  Base'
<1> USE DEF Base, Answer, githubVars
<1>1. pages' \in Seq(SUBSET (1 .. Len(history')))
  BY AppendGrows DEF TypeOK
<1>2. token' \in {NoToken} \cup [attempt : Eligible, at : 1 .. Len(history')]
  BY HistoryLength DEF SearchOK, Encoded
<1>3. search' \in [cursor : 0 .. Len(history'), pages : 0 .. MaxPages - 1,
                   matches : SUBSET (1 .. Len(history'))]
  BY HistoryLength, ConstantsAssumption DEF NoSearch
<1> QED
  BY <1>1, <1>2, <1>3 DEF TypeOK, SearchOK, Kept

LEMMA ReceivePageKeepsBase ==
  ASSUME Base, NEW form \in LinkForms, ReceivePage(form)
  PROVE  Base'
<1> DEFINE next == NextCursor(form)
<1>1. stage = "search" /\ misled' \in BOOLEAN
  BY DEF ReceivePage, Astray
<1>2. /\ Found \in SUBSET (1 .. Len(history)) /\ next \in 0 .. Len(history)
      /\ next # 0 /\ search.cursor # 0 => next < search.cursor
  BY <1>1, FoundFacts
<1>3. CASE next # 0 /\ search.pages + 1 < MaxPages
  <2>1. /\ search' = [cursor |-> next, pages |-> search.pages + 1, matches |-> Found]
        /\ UNCHANGED <<stage, attempt, token, pages, complete, owed, history, expired>>
    BY <1>3 DEF ReceivePage, GoOn, clientVars, githubVars
  <2>2. search.pages + 1 \in 0 .. MaxPages - 1
    BY <1>3, ConstantsAssumption DEF Base, TypeOK
  <2>3. search' \in [cursor : 0 .. Len(history'), pages : 0 .. MaxPages - 1,
                     matches : SUBSET (1 .. Len(history'))]
    BY <1>2, <2>1, <2>2
  <2>4. search'.cursor = next
    BY <2>1
  <2>5. token # NoToken => token.at \in Nat /\ search.cursor \in Nat
    BY DEF Base, TypeOK
  <2>6. SearchOK'
    BY <1>1, <1>2, <1>3, <2>1, <2>4, <2>5, HistoryLength DEF SearchOK, Base
  <2> QED
    BY <1>1, <2>1, <2>3, <2>6 DEF Base, TypeOK, Kept
<1>4. CASE ~(next # 0 /\ search.pages + 1 < MaxPages)
  BY <1>1, <1>2, <1>4, AnswerKeepsBase DEF ReceivePage, GoOn
<1> QED
  BY <1>3, <1>4

LEMMA RefuseKeepsBase ==
  ASSUME Base, Refuse, UNCHANGED <<owed, misled, githubVars>>
  PROVE  Base'
<1>1. NoSearch \in [cursor : 0 .. Len(history), pages : 0 .. MaxPages - 1,
                    matches : SUBSET (1 .. Len(history))]
  BY HistoryLength, ConstantsAssumption DEF NoSearch, Base
<1> QED
  BY <1>1 DEF Base, TypeOK, SearchOK, Refuse, clientVars, githubVars, Kept

LEMMA LookupKeepsBase ==
  ASSUME Base, Lookup
  PROVE  Base'
<1>1. CASE Refuse
  BY <1>1, RefuseKeepsBase DEF Lookup
<1>2. ASSUME attempt \in Eligible, Decoded(token), stage' = "search",
             search' = [NoSearch EXCEPT !.cursor = token.at], UNCHANGED clientVars
      PROVE  Base'
  <2>1. token.at \in 0 .. Len(history) /\ (token # NoToken => 0 < token.at)
    BY HistoryLength DEF Base, TypeOK, NoToken
  <2>2. search' = [cursor |-> token.at, pages |-> 0, matches |-> {}]
    BY <1>2 DEF NoSearch
  <2>3. search' \in [cursor : 0 .. Len(history), pages : 0 .. MaxPages - 1,
                     matches : SUBSET (1 .. Len(history))]
    BY <2>1, <2>2, ConstantsAssumption
  <2>4. SearchOK'
    BY <1>2, <2>1, <2>2 DEF SearchOK, Decoded, clientVars
  <2>5. UNCHANGED <<history, expired, owed, misled, attempt, token, pages, complete>>
    BY <1>2 DEF Lookup, clientVars, githubVars
  <2> QED
    BY <1>2, <2>3, <2>4, <2>5 DEF Base, TypeOK, Kept
<1> QED
  BY <1>1, <1>2 DEF Lookup

LEMMA BeginKeepsBase ==
  ASSUME Base, NEW a \in Attempts, Begin(a)
  PROVE  Base'
<1>1. pages' \in Seq(SUBSET (1 .. Len(history)))
  BY DEF Begin
<1>2. token' \in {NoToken} \cup [attempt : Eligible, at : 1 .. Len(history)]
  BY DEF Begin, Base, TypeOK
<1> QED
  BY <1>1, <1>2 DEF Base, TypeOK, SearchOK, Begin, Matching, Kept, githubVars

LEMMA NextKeepsBase == Base /\ [Next]_vars => Base'
<1> SUFFICES ASSUME Base, [Next]_vars PROVE Base'
  OBVIOUS
<1>1. CASE \E record \in Record : Deliver(record)
  BY <1>1, DeliverKeepsBase
<1>2. CASE Expire
  BY <1>2, ExpireKeepsBase
<1>3. CASE \E a \in Attempts : Begin(a)
  BY <1>3, BeginKeepsBase
<1>4. CASE Continue
  BY <1>4 DEF Continue, Base, TypeOK, SearchOK, clientVars, githubVars, Kept
<1>5. CASE Lookup
  BY <1>5, LookupKeepsBase
<1>6. CASE SearchFails \/ Restart
  BY <1>6, RefuseKeepsBase DEF SearchFails, Restart
<1>7. CASE \E form \in LinkForms : ReceivePage(form)
  BY <1>7, ReceivePageKeepsBase
<1>8. CASE UNCHANGED vars
  BY <1>8 DEF vars, Base, TypeOK, SearchOK, Kept
<1> QED
  BY <1>1, <1>2, <1>3, <1>4, <1>5, <1>6, <1>7, <1>8 DEF Next, HandlerStep

LEMMA BaseHolds == Spec => []Base
  BY InitBase, NextKeepsBase, PTL DEF Spec

\* Every state is of the declared types, whatever links GitHub sends.
THEOREM TypeCorrect == Spec => []TypeOK
<1>1. Base => TypeOK
  BY DEF Base
<1> QED
  BY <1>1, BaseHolds, PTL

-----------------------------------------------------------------------------
(* The traversal.                                                          *)

OwedOK ==
  /\ attempt \in Attempts => \A i \in owed : history[i].guid = GuidOf[attempt]
  /\ attempt = NoAttempt => owed = {}

\* The cursor the client holds for its attempt is where its traversal is.
CursorOK ==
  /\ token # NoToken /\ token.attempt = attempt =>
       /\ \A i \in Served : token.at <= i
       /\ \A i \in owed \ Served : i < token.at
  /\ ~complete /\ (token = NoToken \/ token.attempt # attempt) => pages = << >>

EndOK ==
  /\ complete => token = NoToken /\ stage = "idle"
  /\ complete /\ ~misled => owed \subseteq Served

\* What the handler has found so far lies between its own cursor and the
\* client's, and what it has not found lies below its own.
ProgressOK ==
  stage = "search" =>
    /\ \A i \in search.matches :
         0 < search.cursor /\ search.cursor <= i /\ (token # NoToken => i < token.at)
    /\ \A i \in owed \ Served :
         i \in search.matches \/ search.cursor = 0 \/ i < search.cursor

TraversalOK == OwedOK /\ CursorOK /\ EndOK /\ ProgressOK
Inv == Base /\ TraversalOK

LEMMA ServedNothing ==
  ASSUME pages = << >>
  PROVE  Served = {}
  BY DEF Served

\* One more page: what is still owed is found, or lies below the next cursor, or
\* the link led astray; what is found lies at or above the next cursor.
LEMMA PageFinds ==
  ASSUME Inv, stage = "search", NEW form \in LinkForms
  PROVE  /\ \A i \in owed \ Served :
              \/ i \in Found
              \/ NextCursor(form) # 0 /\ i < NextCursor(form)
              \/ NextCursor(form) = 0 /\ Astray(form)
         /\ \A i \in Found : NextCursor(form) <= i /\ (token # NoToken => i < token.at)
         /\ NextCursor(form) # 0 => ~Astray(form)
         /\ NextCursor(form) # 0 /\ token # NoToken => NextCursor(form) < token.at
<1> DEFINE c == search.cursor
<1>1. /\ c \in 0 .. Len(history) /\ Len(history) \in Nat /\ expired \in Nat
      /\ attempt \in Attempts /\ PerPage \in Nat \ {0}
      /\ owed \subseteq Kept /\ search.matches \subseteq 1 .. Len(history)
  BY HistoryLength, ConstantsAssumption DEF Inv, Base, TypeOK, SearchOK
<1>2. token # NoToken => token.at \in Nat /\ c \in Nat /\ 0 < c /\ c <= token.at
  BY <1>1 DEF Inv, Base, TypeOK, SearchOK
<1>3. /\ Top(c) \in Int /\ CursorAfter(c) = Top(c) - PerPage + 1 /\ CursorAfter(c) \in Int
      /\ (c # 0 => Top(c) = c - 1) /\ (c = 0 => Top(c) = Len(history))
      /\ Older(c) => CursorAfter(c) \in 1 .. Len(history)
      /\ \A i \in Page(c) : i \in Nat /\ CursorAfter(c) <= i /\ i <= Top(c)
  <2>1. TypeOK /\ c \in 0 .. Len(history)
    BY <1>1 DEF Inv, Base
  <2>2. Page(c) \subseteq 1 .. Len(history)
    BY <2>1, Paging
  <2>3. /\ Top(c) \in Int /\ CursorAfter(c) = Top(c) - PerPage + 1 /\ CursorAfter(c) \in Int
        /\ (c # 0 => Top(c) = c - 1) /\ (c = 0 => Top(c) = Len(history))
    BY <2>1, Paging
  <2>4. Older(c) => CursorAfter(c) \in 1 .. Len(history)
    BY <2>1, Paging
  <2>5. \A i \in Page(c) : CursorAfter(c) <= i /\ i <= Top(c)
    BY <2>1, Paging
  <2> QED
    BY <1>1, <2>2, <2>3, <2>4, <2>5
<1>4. /\ NextCursor(form) = 0 \/ NextCursor(form) = CursorAfter(c)
      /\ NextCursor(form) # 0 => Older(c) /\ form = "expected"
      /\ Older(c) /\ form = "expected" => NextCursor(form) = CursorAfter(c)
      /\ Older(c) /\ form # "expected" => NextCursor(form) = 0 /\ Astray(form)
      /\ Astray(form) => form = "other"
  BY ConstantsAssumption DEF NextCursor, Astray
<1>5. NextCursor(form) # 0 => ~Astray(form)
  BY <1>4
<1>6. NextCursor(form) # 0 /\ token # NoToken => NextCursor(form) < token.at
  BY <1>1, <1>2, <1>3, <1>4
<1>7. ASSUME NEW i \in Found
      PROVE  NextCursor(form) <= i /\ (token # NoToken => i < token.at)
  <2>1. CASE i \in search.matches
    BY <1>1, <1>3, <1>4, <2>1 DEF Inv, TraversalOK, ProgressOK
  <2>2. CASE i \in Page(c)
    BY <1>1, <1>2, <1>3, <1>4, <2>2
  <2> QED
    BY <1>7, <2>1, <2>2 DEF Found
<1>8. ASSUME NEW i \in owed \ Served
      PROVE  \/ i \in Found
             \/ NextCursor(form) # 0 /\ i < NextCursor(form)
             \/ NextCursor(form) = 0 /\ Astray(form)
  <2>1. i \in Kept /\ i \in Int /\ expired < i /\ i <= Len(history)
        /\ history[i].guid = GuidOf[attempt]
    BY <1>1, <1>8 DEF Inv, TraversalOK, OwedOK, Kept
  <2>2. i \in search.matches \/ i <= Top(c)
    BY <1>1, <1>3, <1>8, <2>1 DEF Inv, TraversalOK, ProgressOK
  <2>3. CASE i > Top(c) - PerPage
    BY <2>1, <2>2, <2>3 DEF Found, Page
  <2>4. CASE i <= Top(c) - PerPage
    <3>1. Older(c)
      BY <1>1, <1>3, <2>1, <2>4 DEF Older
    <3>2. i < CursorAfter(c) /\ CursorAfter(c) # 0
      BY <1>1, <1>3, <2>1, <2>4, <3>1
    <3> QED
      BY <1>4, <3>1, <3>2
  <2> QED
    BY <1>1, <1>3, <2>1, <2>3, <2>4
<1> QED
  BY <1>5, <1>6, <1>7, <1>8

\* What an answer adds was never sent before, in this traversal.
LEMMA FoundIsNew ==
  ASSUME Inv, stage = "search", NEW form \in LinkForms
  PROVE  Found \cap Served = {}
<1>1. CASE token = NoToken
  BY <1>1, ServedNothing DEF Inv, TraversalOK, CursorOK, EndOK
<1>2. CASE token # NoToken
  <2>1. token.attempt = attempt /\ token.at \in Nat
    BY <1>2 DEF Inv, Base, TypeOK, SearchOK
  <2>2. \A i \in Found : i \in Nat /\ i < token.at
    BY <1>2, PageFinds, FoundFacts, HistoryLength DEF Inv, Base
  <2>3. \A i \in Served : token.at <= i
    BY <1>2, <2>1 DEF Inv, TraversalOK, CursorOK
  <2> QED
    BY <2>1, <2>2, <2>3
<1> QED
  BY <1>1, <1>2

LEMMA InitTraversal == Init => TraversalOK
  BY ConstantsAssumption DEF Init, TraversalOK, OwedOK, CursorOK, EndOK, ProgressOK, Served, NoToken

LEMMA DeliverKeepsTraversal ==
  ASSUME Inv, NEW record \in Record, Deliver(record)
  PROVE  TraversalOK'
<1>1. UNCHANGED <<stage, attempt, token, search, pages, complete, owed, misled>> /\ Served' = Served
  BY DEF Deliver, clientVars, Served
<1>2. \A i \in owed : i \in DOMAIN history /\ history'[i] = history[i]
  BY AppendGrows, HistoryLength DEF Inv, Base, TypeOK, Kept, Deliver
<1> QED
  BY <1>1, <1>2 DEF Inv, TraversalOK, OwedOK, CursorOK, EndOK, ProgressOK

LEMMA ExpireKeepsTraversal ==
  ASSUME Inv, Expire
  PROVE  TraversalOK'
<1>1. /\ UNCHANGED <<history, stage, attempt, token, search, pages, complete, misled>>
      /\ Served' = Served /\ owed' \subseteq owed
  BY DEF Expire, clientVars, Served
<1> QED
  BY <1>1 DEF Inv, TraversalOK, OwedOK, CursorOK, EndOK, ProgressOK

LEMMA BeginKeepsTraversal ==
  ASSUME Inv, NEW a \in Attempts, Begin(a)
  PROVE  TraversalOK'
<1>1. /\ stage' = "lookup" /\ attempt' = a /\ pages' = << >> /\ complete' = FALSE
      /\ owed' = Matching(a) /\ UNCHANGED history
      /\ token' = NoToken \/ token'.attempt # a
  BY DEF Begin, githubVars
<1>2. OwedOK'
  BY <1>1, ConstantsAssumption DEF OwedOK, Matching
<1>3. CursorOK'
  BY <1>1 DEF CursorOK
<1> QED
  BY <1>1, <1>2, <1>3 DEF TraversalOK, EndOK, ProgressOK

\* The client's part and the history stay; what the handler had is dropped.
LEMMA RefuseKeepsTraversal ==
  ASSUME Inv, Refuse, UNCHANGED <<owed, misled, githubVars>>
  PROVE  TraversalOK'
<1>1. /\ stage' = "idle" /\ Served' = Served
      /\ UNCHANGED <<history, attempt, token, pages, complete, owed, misled>>
  BY DEF Refuse, clientVars, githubVars, Served
<1> QED
  BY <1>1 DEF Inv, TraversalOK, OwedOK, CursorOK, EndOK, ProgressOK

LEMMA LookupKeepsTraversal ==
  ASSUME Inv, Lookup
  PROVE  TraversalOK'
<1>1. CASE Refuse
  BY <1>1, RefuseKeepsTraversal DEF Lookup
<1>2. ASSUME Decoded(token), stage' = "search",
             search' = [NoSearch EXCEPT !.cursor = token.at], UNCHANGED clientVars
      PROVE  TraversalOK'
  <2>1. /\ Served' = Served /\ UNCHANGED <<history, attempt, token, pages, complete, owed, misled>>
    BY <1>2 DEF Lookup, clientVars, githubVars, Served
  <2>2. search'.cursor = token.at /\ search'.matches = {}
    BY <1>2 DEF NoSearch
  <2>3. ProgressOK'
    BY <1>2, <2>1, <2>2 DEF Inv, TraversalOK, CursorOK, ProgressOK, Decoded, NoToken
  <2>4. EndOK'
    BY <1>2, <2>1 DEF Inv, TraversalOK, EndOK, Lookup
  <2> QED
    BY <2>1, <2>3, <2>4 DEF Inv, TraversalOK, OwedOK, CursorOK
<1> QED
  BY <1>1, <1>2 DEF Lookup

LEMMA AnswerKeepsTraversal ==
  ASSUME Inv, NEW form \in LinkForms, stage = "search", Answer(Found, NextCursor(form)),
         misled' = Astray(form), UNCHANGED <<owed, githubVars>>
  PROVE  TraversalOK'
<1> DEFINE next == NextCursor(form)
<1>1. /\ stage' = "idle" /\ complete' = (next = 0)
      /\ token' = (IF next = 0 THEN NoToken ELSE [attempt |-> attempt, at |-> next])
      /\ UNCHANGED <<attempt, owed, history>>
  BY DEF Answer, Encoded, githubVars
<1>2. /\ Served' = Served \cup Found /\ pages \in Seq(SUBSET (1 .. Len(history)))
      /\ next \in Nat /\ attempt \in Attempts
  <2>1. Found \in SUBSET (1 .. Len(history)) /\ next \in 0 .. Len(history)
    BY FoundFacts DEF Inv
  <2>2. pages \in Seq(SUBSET (1 .. Len(history))) /\ attempt \in Attempts
    BY ConstantsAssumption DEF Inv, Base, TypeOK, SearchOK
  <2>3. Len(history) \in Nat
    BY HistoryLength DEF Inv, Base
  <2>4. pages' = Append(pages, Found)
    BY DEF Answer
  <2>5. Served' = Served \cup Found
    BY <2>1, <2>2, <2>4, SentMore
  <2>6. next \in Nat
    BY <2>1, <2>3
  <2> QED
    BY <2>2, <2>5, <2>6
<1>3. /\ \A i \in owed \ Served : i \in Found \/ (next # 0 /\ i < next) \/ (next = 0 /\ Astray(form))
      /\ \A i \in Found : next <= i
      /\ next # 0 => ~Astray(form)
      /\ next # 0 /\ token # NoToken => next < token.at
  BY PageFinds
<1>4. \A i \in Served : next # 0 => next <= i
  <2>1. CASE token = NoToken
    BY <2>1, ServedNothing DEF Inv, TraversalOK, CursorOK, EndOK
  <2>2. CASE token # NoToken
    <3>1. token.attempt = attempt /\ token.at \in Nat
      BY <2>2 DEF Inv, Base, TypeOK, SearchOK
    <3>2. \A i \in Served : i \in Nat
      BY <1>2, HistoryLength DEF Inv, Base, Served
    <3>3. \A i \in Served : token.at <= i
      BY <2>2, <3>1 DEF Inv, TraversalOK, CursorOK
    <3> QED
      BY <1>2, <1>3, <2>2, <3>1, <3>2, <3>3
  <2> QED
    BY <2>1, <2>2
<1>5. CASE next = 0
  <2>1. complete' = TRUE /\ token' = NoToken
    BY <1>1, <1>5
  <2>2. misled' \/ owed' \subseteq Served'
    BY <1>1, <1>2, <1>3, <1>5
  <2>3. CursorOK'
    BY <2>1 DEF CursorOK
  <2> QED
    BY <1>1, <2>1, <2>2, <2>3 DEF Inv, TraversalOK, OwedOK, EndOK, ProgressOK
<1>6. CASE next # 0
  <2>1. complete' = FALSE /\ token'.attempt = attempt' /\ token'.at = next
    BY <1>1, <1>6
  <2>2. token' # NoToken
    BY <1>2, <2>1, <1>1, ConstantsAssumption DEF NoToken
  <2>3. CursorOK'
    BY <1>1, <1>2, <1>3, <1>4, <1>6, <2>1, <2>2 DEF CursorOK
  <2> QED
    BY <1>1, <2>1, <2>3 DEF Inv, TraversalOK, OwedOK, EndOK, ProgressOK
<1> QED
  BY <1>5, <1>6

LEMMA GoOnFurtherKeepsTraversal ==
  ASSUME Inv, NEW form \in LinkForms, stage = "search", NextCursor(form) # 0,
         search' = [cursor |-> NextCursor(form), pages |-> search.pages + 1, matches |-> Found],
         misled' = Astray(form), UNCHANGED <<stage, clientVars, owed, githubVars>>
  PROVE  TraversalOK'
<1>1. /\ Served' = Served /\ UNCHANGED <<stage, attempt, token, pages, complete, owed, history>>
      /\ search'.cursor = NextCursor(form) /\ search'.matches = Found
  BY DEF clientVars, githubVars, Served
<1>2. NextCursor(form) \in Nat /\ ~complete
  BY FoundFacts, HistoryLength DEF Inv, Base, TraversalOK, EndOK
<1>3. ProgressOK'
  BY <1>1, <1>2, PageFinds DEF ProgressOK
<1> QED
  BY <1>1, <1>2, <1>3 DEF Inv, TraversalOK, OwedOK, CursorOK, EndOK

LEMMA ReceivePageKeepsTraversal ==
  ASSUME Inv, NEW form \in LinkForms, ReceivePage(form)
  PROVE  TraversalOK'
<1>1. stage = "search" /\ misled' = Astray(form) /\ UNCHANGED <<owed, githubVars>>
  BY DEF ReceivePage
<1>2. CASE NextCursor(form) # 0 /\ search.pages + 1 < MaxPages
  BY <1>1, <1>2, GoOnFurtherKeepsTraversal DEF ReceivePage, GoOn
<1>3. CASE ~(NextCursor(form) # 0 /\ search.pages + 1 < MaxPages)
  BY <1>1, <1>3, AnswerKeepsTraversal DEF ReceivePage, GoOn
<1> QED
  BY <1>2, <1>3

LEMMA NextKeepsInv == Inv /\ [Next]_vars => Inv'
<1> SUFFICES ASSUME Inv, [Next]_vars PROVE TraversalOK'
  BY NextKeepsBase DEF Inv
<1>1. CASE \E record \in Record : Deliver(record)
  BY <1>1, DeliverKeepsTraversal
<1>2. CASE Expire
  BY <1>2, ExpireKeepsTraversal
<1>3. CASE \E a \in Attempts : Begin(a)
  BY <1>3, BeginKeepsTraversal
<1>4. CASE Continue
  <2>1. /\ Served' = Served /\ ~complete /\ stage' = "lookup"
        /\ UNCHANGED <<history, attempt, token, pages, complete, owed, misled>>
    BY <1>4 DEF Continue, clientVars, githubVars, Served
  <2> QED
    BY <2>1 DEF Inv, TraversalOK, OwedOK, CursorOK, EndOK, ProgressOK
<1>5. CASE Lookup
  BY <1>5, LookupKeepsTraversal
<1>6. CASE SearchFails \/ Restart
  BY <1>6, RefuseKeepsTraversal DEF SearchFails, Restart
<1>7. CASE \E form \in LinkForms : ReceivePage(form)
  BY <1>7, ReceivePageKeepsTraversal
<1>8. CASE UNCHANGED vars
  <2>1. /\ Served' = Served
        /\ UNCHANGED <<history, stage, attempt, token, search, pages, complete, owed, misled>>
    BY <1>8 DEF vars, Served
  <2> QED
    BY <2>1 DEF Inv, TraversalOK, OwedOK, CursorOK, EndOK, ProgressOK
<1> QED
  BY <1>1, <1>2, <1>3, <1>4, <1>5, <1>6, <1>7, <1>8 DEF Next, HandlerStep

LEMMA InvHolds == Spec => []Inv
<1>1. Init => Inv
  BY InitBase, InitTraversal DEF Inv
<1> QED
  BY <1>1, NextKeepsInv, PTL DEF Spec

\* Between requests the client's cursor splits its traversal, and a complete
\* answer lacks nothing it was owed unless a link led astray, for any history,
\* page size and page bound, and however the history moves.
THEOREM CursorsSplit == Spec => []CursorSplits
<1>1. Inv => CursorSplits
  <2> SUFFICES ASSUME Inv PROVE CursorSplits
    OBVIOUS
  <2>1. CASE token = NoToken
    <3>1. token.attempt = attempt => owed = {} /\ (~complete => Served = {})
      BY <2>1, ServedNothing, ConstantsAssumption DEF Inv, TraversalOK, OwedOK, CursorOK, NoToken
    <3>2. \A i \in Served : i \in Nat
      BY HistoryLength DEF Inv, Base, TypeOK, Served
    <3>3. token.at = 0
      BY <2>1 DEF NoToken
    <3> QED
      BY <3>1, <3>2, <3>3 DEF Inv, TraversalOK, EndOK, CursorSplits
  <2>2. CASE token # NoToken
    BY <2>2 DEF Inv, TraversalOK, CursorOK, EndOK, CursorSplits
  <2> QED
    BY <2>1, <2>2
<1> QED
  BY <1>1, InvHolds, PTL

\* Each further answer of a traversal moves its cursor down, for any page size
\* and page bound, so that a client that goes on comes to an end.
THEOREM CursorsDescend == Spec => CursorDescends
<1> DEFINE Goes == pages' # pages /\ pages' # << >> /\ ~complete' /\ token # NoToken
                     => token'.at < token.at
<1>1. Inv /\ [Next]_vars => [Goes]_vars
  <2> SUFFICES ASSUME Inv, [Next]_vars, pages' # pages, pages' # << >>, ~complete', token # NoToken
               PROVE  token'.at < token.at
    OBVIOUS
  <2>1. PICK form \in LinkForms : ReceivePage(form)
    <3>1. UNCHANGED vars => UNCHANGED pages
      BY DEF vars
    <3>2. ~\E a \in Attempts : Begin(a)
      BY DEF Begin
    <3>3. ~\E record \in Record : Deliver(record)
      BY DEF Deliver, clientVars
    <3>4. ~Expire /\ ~Continue /\ ~SearchFails /\ ~Restart
      BY DEF Expire, Continue, SearchFails, Restart, Refuse, clientVars
    <3>5. ~Lookup
      BY DEF Lookup, Refuse, clientVars
    <3> QED
      BY <3>1, <3>2, <3>3, <3>4, <3>5 DEF Next, HandlerStep
  <2>2. Answer(Found, NextCursor(form))
    BY <2>1 DEF ReceivePage, GoOn, clientVars
  <2>3. NextCursor(form) # 0 /\ token'.at = NextCursor(form)
    BY <2>2 DEF Answer, Encoded
  <2>4. stage = "search"
    BY <2>1 DEF ReceivePage
  <2> QED
    BY <2>3, <2>4, PageFinds
<1> QED
  BY <1>1, InvHolds, PTL DEF CursorDescends, Spec

-----------------------------------------------------------------------------
(* The contract.                                                           *)

\* What is answered is the contract's page, new and complete if it says so.
LEMMA AnswerSends ==
  ASSUME Inv, NEW form \in LinkForms, ReceivePage(form), Answer(Found, NextCursor(form))
  PROVE  Contract!Send
<1>1. stage = "search" /\ misled' = Astray(form) /\ UNCHANGED <<owed, history>>
  BY DEF ReceivePage, githubVars
<1>2. pages' = Append(pages, Found) /\ complete' = (NextCursor(form) = 0)
  BY DEF Answer
<1>3. ~complete
  BY <1>1 DEF Inv, TraversalOK, EndOK
<1>4. Found \in SUBSET (1 .. Len(history)) /\ Found \cap Served = {}
  BY <1>1, FoundFacts, FoundIsNew DEF Inv
<1>5. Contract!SentIn(pages) = Served /\ Contract!SentIn(pages') = Served'
  BY DEF Contract!SentIn, Served
<1>6. Served' = Served \cup Found
  <2>1. pages \in Seq(SUBSET (1 .. Len(history)))
    BY DEF Inv, Base, TypeOK
  <2> QED
    BY <1>2, <1>4, <2>1, SentMore
<1>7. complete' /\ ~misled' => owed \subseteq Served'
  BY <1>1, <1>2, <1>6, PageFinds
<1> QED
  BY <1>1, <1>2, <1>3, <1>4, <1>5, <1>7 DEF Contract!Send

\* Whatever GitHub's history and links do, no match is sent twice, and an answer
\* that says complete lacks nothing that was owed, unless a link led astray.
THEOREM ImplementsTraversal == Spec => KeepsTraversal
<1>1. Init => Contract!Init
  BY DEF Init, Contract!Init
<1>2. ASSUME Inv, [Next]_vars
      PROVE  [Contract!Next]_(Contract!contractVars)
  <2> USE DEF Contract!contractVars
  <2>1. CASE \E record \in Record : Deliver(record)
    <3>1. PICK record \in Record : Deliver(record)
      BY <2>1
    <3>2. UNCHANGED <<owed, pages, complete, misled>>
      BY <3>1 DEF Deliver, clientVars
    <3>3. 1 .. Len(history) \subseteq 1 .. Len(history')
      BY <1>2, <3>1, AppendGrows, HistoryLength DEF Deliver, Inv, Base, TypeOK
    <3> QED
      BY <3>2, <3>3 DEF Contract!Change, Contract!Next
  <2>2. CASE Expire
    BY <2>2 DEF Expire, clientVars, Contract!Change, Contract!Next
  <2>3. CASE \E a \in Attempts : Begin(a)
    <3>1. PICK a \in Attempts : Begin(a)
      BY <2>3
    <3>2. owed' \subseteq 1 .. Len(history)
      BY <1>2, <3>1, HistoryLength DEF Begin, Matching, Kept, Inv, Base
    <3>3. pages' = << >> /\ complete' = FALSE /\ UNCHANGED history
      BY <3>1 DEF Begin, githubVars
    <3> QED
      BY <3>2, <3>3 DEF Contract!Begin, Contract!Next
  <2>4. CASE \E form \in LinkForms : ReceivePage(form)
    <3>1. PICK form \in LinkForms : ReceivePage(form)
      BY <2>4
    <3>2. CASE Answer(Found, NextCursor(form))
      BY <1>2, <3>1, <3>2, AnswerSends DEF Contract!Next
    <3>3. CASE NextCursor(form) # 0 /\ UNCHANGED clientVars
      <4>1. UNCHANGED <<owed, pages, complete, history>> /\ ~complete
        BY <1>2, <3>1, <3>3 DEF ReceivePage, clientVars, githubVars, Inv, TraversalOK, EndOK
      <4> QED
        BY <4>1
    <3> QED
      BY <3>1, <3>2, <3>3 DEF ReceivePage, GoOn
  <2>5. CASE Continue \/ Lookup \/ SearchFails \/ Restart \/ UNCHANGED vars
    BY <2>5 DEF Continue, Lookup, SearchFails, Restart, Refuse, clientVars, githubVars, vars
  <2> QED
    BY <1>2, <2>1, <2>2, <2>3, <2>4, <2>5 DEF Next, HandlerStep
<1> QED
  BY <1>1, <1>2, InvHolds, PTL DEF Spec, KeepsTraversal, Contract!Spec
=============================================================================
