-------------------------- MODULE KeysetPagination --------------------------
(***************************************************************************)
(* The paged lists of the management API, GET /delivery-attempts and GET   *)
(* /recovery-actions: clients that follow next_cursor, page by page, while *)
(* rows are added and, in the memory stores, evicted. The two lists run    *)
(* the same algorithm over (received_at, attempt_id) and                   *)
(* (requested_at, action_id).                                              *)
(*                                                                         *)
(* A page is one statement, or one sorted() of a deque, hence one step.    *)
(* A request that fails leaves the client with the cursor it had.          *)
(***************************************************************************)
EXTENDS Integers, Sequences, FiniteSets

CONSTANTS
  Times,      \* received_at values
  RowIds,     \* attempt_id values
  Readers,    \* clients that list the rows
  Limits,     \* page sizes they ask for
  Backends,   \* values of DELIVERY_STORE_BACKEND
  MaxEvents   \* MAX_EVENTS, the length of the memory store's deque

ASSUME ConstantsAssumption ==
  /\ Times \subseteq Nat /\ IsFiniteSet(Times)
  /\ RowIds \subseteq Nat /\ IsFiniteSet(RowIds)
  /\ Limits \subseteq Nat \ {0}
  /\ Backends \subseteq {"memory", "postgresql"}
  /\ MaxEvents \in Nat \ {0}

VARIABLES
  backend,  \* the store the program was started with
  stored,   \* the keys of the rows ever added, in the order of adding
  lost,     \* how many of these were added before the last restart
  reading,  \* the clients under way
  cursor,   \* the cursor each has, NoCursor before its first page
  pages,    \* the pages each has received
  kept      \* rows present since its traversal began

readerVars == <<reading, cursor, pages, kept>>
vars == <<backend, stored, lost, reading, cursor, pages, kept>>

Keys == Times \X RowIds
NoCursor == << >>
Served(r) == UNION {pages[r][i] : i \in DOMAIN pages[r]}

\* The order of both columns of the key.
Precedes(k, l) == k[1] < l[1] \/ (k[1] = l[1] /\ k[2] < l[2])

Init ==
  /\ backend \in Backends
  /\ stored = << >>
  /\ lost = 0
  /\ reading = {}
  /\ cursor = [r \in Readers |-> NoCursor]
  /\ pages = [r \in Readers |-> << >>]
  /\ kept = [r \in Readers |-> {}]

-----------------------------------------------------------------------------
(* The stores.                                                             *)

\* What the store holds of a sequence of adds when the first n were lost: the
\* deque keeps its maxlen latest.
Retained(s, n) ==
  {s[i] : i \in {j \in DOMAIN s : backend = "postgresql" \/ (j > n /\ j > Len(s) - MaxEvents)}}

Rows == Retained(stored, lost)

\* Rows that go are no longer there for those who read.
StillKept == kept' = [r \in Readers |-> kept[r] \cap Rows']

\* A row's time is read before it is added, so rows come in any order of keys.
Add ==
  /\ \E k \in Keys :
       /\ \A i \in DOMAIN stored : stored[i][2] # k[2]
       /\ stored' = Append(stored, k)
  /\ UNCHANGED <<backend, lost, reading, cursor, pages>>
  /\ StillKept

\* The process restarts: the memory store is empty, clients keep their cursors.
Restart ==
  /\ backend = "memory"
  /\ lost' = Len(stored)
  /\ UNCHANGED <<backend, stored, reading, cursor, pages>>
  /\ StillKept

\* Mutant: the condition of the first column alone, without the tie-break.
AfterByTime(c) == {k \in Rows : c = NoCursor \/ k[1] < c[1]}

\* Mutant: the row at the cursor once more.
AfterInclusive(c) == {k \in Rows : c = NoCursor \/ ~Precedes(c, k)}

After(c) == {k \in Rows : c = NoCursor \/ Precedes(k, c)}

\* The first n of S in descending order.
First(n, S) == {k \in S : Cardinality({j \in S : Precedes(k, j)}) < n}

Last(S) == CHOOSE k \in S : \A j \in S : ~Precedes(j, k)

-----------------------------------------------------------------------------
(* The query services.                                                     *)

\* Mutant: a full page is taken for a sign of more.
CursorOfFullPage(fetched, limit) ==
  IF Cardinality(fetched) >= limit THEN Last(First(limit, fetched)) ELSE NoCursor

NextCursor(fetched, limit) ==
  IF Cardinality(fetched) > limit THEN Last(First(limit, fetched)) ELSE NoCursor

StartReading(r) ==
  /\ r \notin reading
  /\ reading' = reading \cup {r}
  /\ cursor' = [cursor EXCEPT ![r] = NoCursor]
  /\ pages' = [pages EXCEPT ![r] = << >>]
  /\ kept' = [kept EXCEPT ![r] = Rows]
  /\ UNCHANGED <<backend, stored, lost>>

\* One row more than the limit is fetched, to learn if another page follows.
ReadPage(r) ==
  /\ r \in reading
  /\ \E limit \in Limits :
       LET fetched == First(limit + 1, After(cursor[r]))
           next == NextCursor(fetched, limit)
       IN /\ pages' = [pages EXCEPT ![r] = Append(@, First(limit, fetched))]
          /\ cursor' = [cursor EXCEPT ![r] = next]
          /\ reading' = IF next = NoCursor THEN reading \ {r} ELSE reading
  /\ UNCHANGED <<backend, stored, lost, kept>>

Next == Add \/ Restart \/ \E r \in Readers : StartReading(r) \/ ReadPage(r)

Spec == Init /\ [][Next]_vars

-----------------------------------------------------------------------------
(* Properties.                                                             *)

TypeOK ==
  /\ backend \in Backends
  /\ stored \in Seq(Keys)
  /\ \A i, j \in DOMAIN stored : stored[i][2] = stored[j][2] => i = j
  /\ lost \in 0 .. Len(stored)
  /\ reading \subseteq Readers
  /\ cursor \in [Readers -> Keys \cup {NoCursor}]
  /\ pages \in [Readers -> Seq(SUBSET Keys)]
  /\ kept \in [Readers -> SUBSET Keys]
  /\ \A r \in Readers : kept[r] \subseteq Rows
  /\ \A r \in Readers : \A i \in DOMAIN pages[r] :
       \E limit \in Limits : Cardinality(pages[r][i]) <= limit

\* However rows come and go between the pages, a traversal never returns a row
\* twice and never goes back up the order, and no page is longer than the limit
\* (list_attempts, list_actions). The types of the variables come with it.
PagesDescend ==
  /\ TypeOK
  /\ \A r \in Readers : \A i, j \in DOMAIN pages[r] : i < j =>
       \A k \in pages[r][i], l \in pages[r][j] : Precedes(l, k)

\* README.md:354: a cursor is returned exactly when another page is available,
\* also if the page is full or the row under the last cursor has been evicted.
CursorMeansMore ==
  [][\A r \in reading : pages'[r] # pages[r] =>
       (r \in reading' <=> After(cursor[r]) \ Served(r)' # {})]_vars

\* Every client gets what Traversal promises: no row twice, and no more cursor
\* only when all that stayed was sent.
Contract(r) == INSTANCE Traversal WITH
  ever <- {stored[i] : i \in DOMAIN stored},
  owed <- kept[r],
  pages <- pages[r],
  complete <- r \notin reading /\ pages[r] # << >>
KeepsTraversal ==
  /\ \A r \in Readers : Contract(r)!Init
  /\ [][\A r \in Readers : [Contract(r)!Next]_(Contract(r)!contractVars)]_vars
=============================================================================
