---------------------------- MODULE KeysetProofs ----------------------------
(***************************************************************************)
(* Proofs about KeysetPagination, for any finite sets of times and ids,    *)
(* any clients, any page sizes, both stores and any length of the deque.   *)
(*                                                                         *)
(* The order has a first and a last element in every set of keys because   *)
(* strict inclusion of finite sets is well-founded: the library states it  *)
(* of sets, so no induction over an operator is needed.                    *)
(***************************************************************************)
EXTENDS KeysetPagination, FiniteSetTheorems, WellFoundedInduction, TLAPS

-----------------------------------------------------------------------------
(* The order of the keys.                                                  *)

LEMMA KeysAreFinite == IsFiniteSet(Keys)
  BY FS_Product, ConstantsAssumption DEF Keys

LEMMA KeyIsNoCursor == \A k \in Keys : k # NoCursor
  BY DEF Keys, NoCursor

LEMMA Columns == \A k \in Keys : k[1] \in Nat /\ k[2] \in Nat /\ k = <<k[1], k[2]>>
<1> SUFFICES ASSUME NEW k \in Keys
             PROVE  k[1] \in Nat /\ k[2] \in Nat /\ k = <<k[1], k[2]>>
  OBVIOUS
<1>1. PICK t \in Times, i \in RowIds : k = <<t, i>>
  BY DEF Keys
<1> QED
  BY <1>1, ConstantsAssumption

LEMMA Irreflexive == \A k \in Keys : ~Precedes(k, k)
  BY Columns DEF Precedes

LEMMA Transitive ==
  \A k, l, m \in Keys : Precedes(k, l) /\ Precedes(l, m) => Precedes(k, m)
  BY Columns DEF Precedes

LEMMA Total == \A k, l \in Keys : k = l \/ Precedes(k, l) \/ Precedes(l, k)
<1> SUFFICES ASSUME NEW k \in Keys, NEW l \in Keys, ~Precedes(k, l), ~Precedes(l, k)
             PROVE  k = l
  OBVIOUS
<1>1. k[1] = l[1] /\ k[2] = l[2]
  BY Columns DEF Precedes
<1> QED
  BY <1>1, Columns

LEMMA FiniteKeys ==
  ASSUME NEW T \in SUBSET Keys
  PROVE  IsFiniteSet(T) /\ Cardinality(T) \in Nat
  BY KeysAreFinite, FS_Subset, FS_CardinalityType

\* Among finitely many sets of keys one includes no other strictly.
LEMMA SmallestSet ==
  ASSUME NEW F, F \subseteq SUBSET Keys, F # {}
  PROVE  \E X \in F : \A Y \in F : Y \subseteq X => Y = X
<1>1. IsWellFoundedOn(StrictSubsetOrdering(Keys), FiniteSubsetsOf(Keys))
  BY FS_StrictSubsetOrderingWellFounded
<1>2. F \subseteq FiniteSubsetsOf(Keys)
  BY FiniteKeys DEF FiniteSubsetsOf
<1>3. PICK X \in F : \A Y \in F : ~(<<Y, X>> \in StrictSubsetOrdering(Keys))
  BY <1>1, <1>2, WFMin
<1>4. ASSUME NEW Y \in F, Y \subseteq X PROVE Y = X
  BY <1>3, <1>4 DEF StrictSubsetOrdering
<1> QED
  BY <1>4

LEMMA LatestExists ==
  ASSUME NEW T \in SUBSET Keys, T # {}
  PROVE  \E k \in T : \A j \in T : ~Precedes(k, j)
<1> DEFINE Up(k) == {j \in T : Precedes(k, j)}
           F == {Up(k) : k \in T}
<1>1. F \subseteq SUBSET Keys /\ F # {}
  OBVIOUS
<1> HIDE DEF F
<1>2. PICK X \in F : \A Y \in F : Y \subseteq X => Y = X
  BY <1>1, SmallestSet
<1>3. PICK k \in T : X = Up(k)
  BY <1>2 DEF F
<1>4. ASSUME NEW j \in T, Precedes(k, j) PROVE FALSE
  <2>1. Up(j) \subseteq Up(k) /\ j \in Up(k) /\ j \notin Up(j)
    BY <1>4, Transitive, Irreflexive
  <2> QED
    BY <1>2, <1>3, <2>1 DEF F
<1> QED
  BY <1>4

LEMMA EarliestExists ==
  ASSUME NEW T \in SUBSET Keys, T # {}
  PROVE  \E k \in T : \A j \in T : ~Precedes(j, k)
<1> DEFINE Down(k) == {j \in T : Precedes(j, k)}
           F == {Down(k) : k \in T}
<1>1. F \subseteq SUBSET Keys /\ F # {}
  OBVIOUS
<1> HIDE DEF F
<1>2. PICK X \in F : \A Y \in F : Y \subseteq X => Y = X
  BY <1>1, SmallestSet
<1>3. PICK k \in T : X = Down(k)
  BY <1>2 DEF F
<1>4. ASSUME NEW j \in T, Precedes(j, k) PROVE FALSE
  <2>1. Down(j) \subseteq Down(k) /\ j \in Down(k) /\ j \notin Down(j)
    BY <1>4, Transitive, Irreflexive
  <2> QED
    BY <1>2, <1>3, <2>1 DEF F
<1> QED
  BY <1>4

-----------------------------------------------------------------------------
(* The statements of the stores.                                           *)

\* What a statement with a limit returns is closed upwards.
LEMMA FirstIsUpper ==
  ASSUME NEW S \in SUBSET Keys, NEW n \in Nat,
         NEW k \in First(n, S), NEW j \in S, Precedes(k, j)
  PROVE  j \in First(n, S)
<1> DEFINE Up(l) == {m \in S : Precedes(l, m)}
<1>1. k \in S /\ Cardinality(Up(k)) < n
  BY DEF First
<1>2. Up(j) \subseteq Up(k) /\ Up(k) \in SUBSET Keys
  BY <1>1, Transitive
<1>3. IsFiniteSet(Up(k)) /\ Cardinality(Up(j)) <= Cardinality(Up(k))
      /\ Cardinality(Up(k)) \in Nat /\ Cardinality(Up(j)) \in Nat
  BY <1>2, FiniteKeys, FS_Subset
<1> HIDE DEF Up
<1>4. Cardinality(Up(j)) < n
  BY <1>1, <1>3
<1> QED
  BY <1>4 DEF First, Up

\* It returns no more rows than the limit.
LEMMA FirstIsBounded ==
  ASSUME NEW S \in SUBSET Keys, NEW n \in Nat
  PROVE  First(n, S) \in SUBSET S /\ Cardinality(First(n, S)) <= n
<1> DEFINE F == First(n, S)
<1>1. F \in SUBSET S
  BY DEF First
<1>2. CASE F = {}
  BY <1>1, <1>2, FS_EmptySet
<1>3. CASE F # {}
  <2>1. PICK k \in F : \A j \in F : ~Precedes(j, k)
    BY <1>1, <1>3, EarliestExists
  <2> DEFINE U == {m \in S : Precedes(k, m)}
  <2>2. Cardinality(U) < n
    BY <2>1 DEF First
  <2>3. F \ {k} \subseteq U
    BY <1>1, <2>1, Total
  <2>4. IsFiniteSet(U) /\ Cardinality(U) \in Nat /\ IsFiniteSet(F) /\ Cardinality(F) \in Nat
    BY <1>1, FiniteKeys
  <2> HIDE DEF U, F
  <2>5. Cardinality(F \ {k}) = Cardinality(F) - 1
    BY <2>1, <2>4, FS_RemoveElement
  <2>6. Cardinality(F \ {k}) <= Cardinality(U)
    BY <2>3, <2>4, FS_Subset
  <2> QED
    BY <1>1, <2>2, <2>4, <2>5, <2>6 DEF F
<1> QED
  BY <1>2, <1>3

\* The page is the same whether the statement fetched one row more or not.
LEMMA FirstOfMore ==
  ASSUME NEW S \in SUBSET Keys, NEW n \in Nat
  PROVE  First(n, First(n + 1, S)) = First(n, S)
<1> DEFINE G == First(n + 1, S)
           UpG(k) == {m \in G : Precedes(k, m)}
           UpS(k) == {m \in S : Precedes(k, m)}
<1>1. G \subseteq S
  BY DEF First
<1>2. ASSUME NEW k \in G PROVE UpG(k) = UpS(k)
  BY <1>1, FirstIsUpper
<1>3. ASSUME NEW k \in First(n, S) PROVE k \in G
  <2>1. k \in S /\ Cardinality(UpS(k)) < n
    BY DEF First
  <2>2. UpS(k) \in SUBSET Keys
    OBVIOUS
  <2>3. Cardinality(UpS(k)) \in Nat
    BY <2>2, FiniteKeys
  <2> HIDE DEF UpS
  <2>4. Cardinality(UpS(k)) < n + 1
    BY <2>1, <2>3
  <2> QED
    BY <2>1, <2>4 DEF First, UpS
<1>4. First(n, G) = {k \in G : Cardinality(UpG(k)) < n}
  BY DEF First
<1>5. First(n, S) = {k \in S : Cardinality(UpS(k)) < n}
  BY DEF First
<1> HIDE DEF G, UpG, UpS
<1>6. First(n, G) = First(n, S)
  BY <1>1, <1>2, <1>3, <1>4, <1>5
<1> QED
  BY <1>6 DEF G

\* No row more than the limit: the page is all there is.
LEMMA FirstIsAll ==
  ASSUME NEW S \in SUBSET Keys, NEW n \in Nat, Cardinality(First(n + 1, S)) <= n
  PROVE  First(n, S) = S
<1> DEFINE G == First(n + 1, S)
<1>1. G \in SUBSET S /\ IsFiniteSet(G) /\ Cardinality(G) \in Nat
  BY FiniteKeys DEF First
<1>2. G = S
  <2> SUFFICES ASSUME S \ G # {} PROVE FALSE
    BY <1>1
  <2>1. PICK k \in S \ G : \A j \in S \ G : ~Precedes(k, j)
    BY LatestExists
  <2> DEFINE U == {m \in S : Precedes(k, m)}
  <2>2. U \in SUBSET G
    BY <2>1
  <2>3. Cardinality(U) <= Cardinality(G) /\ Cardinality(U) \in Nat
    BY <1>1, <2>2, FS_Subset, FS_CardinalityType
  <2> HIDE DEF U
  <2>4. Cardinality(U) < n + 1
    BY <1>1, <2>3
  <2> QED
    BY <2>1, <2>4 DEF First, U
<1>3. ASSUME NEW k \in S PROVE k \in First(n, S)
  <2> DEFINE U == {m \in S : Precedes(k, m)}
  <2>1. U \in SUBSET (S \ {k})
    BY Irreflexive
  <2>2. IsFiniteSet(S \ {k}) /\ Cardinality(S \ {k}) = Cardinality(S) - 1
    BY FiniteKeys, FS_RemoveElement
  <2>3. Cardinality(U) <= Cardinality(S \ {k}) /\ Cardinality(U) \in Nat
    BY <2>1, <2>2, FS_Subset, FS_CardinalityType
  <2> HIDE DEF U
  <2>4. Cardinality(U) < n
    BY <1>1, <1>2, <2>2, <2>3
  <2> QED
    BY <2>4 DEF First, U
<1> QED
  BY <1>3 DEF First

\* A row more than the limit: the last row of the page is the cursor, the page
\* is at and above it, and what follows is below it.
LEMMA LastOfPage ==
  ASSUME NEW S \in SUBSET Keys, NEW n \in Nat \ {0}, S # {}
  PROVE  /\ Last(First(n, S)) \in First(n, S)
         /\ \A k \in First(n, S) : ~Precedes(k, Last(First(n, S)))
         /\ \A k \in S \ First(n, S) : Precedes(k, Last(First(n, S)))
<1> DEFINE F == First(n, S)
<1>1. F \in SUBSET S
  BY DEF First
<1>2. F # {}
  <2>1. PICK k \in S : \A j \in S : ~Precedes(k, j)
    BY LatestExists
  <2>2. {j \in S : Precedes(k, j)} = {}
    BY <2>1
  <2>3. Cardinality({j \in S : Precedes(k, j)}) < n
    BY <2>2, FS_EmptySet
  <2> QED
    BY <2>3 DEF First
<1>3. Last(F) \in F /\ \A k \in F : ~Precedes(k, Last(F))
  <2>1. \E k \in F : \A j \in F : ~Precedes(j, k)
    BY <1>1, <1>2, EarliestExists
  <2> HIDE DEF F
  <2> QED
    BY <2>1 DEF Last
<1>4. ASSUME NEW k \in S \ F PROVE Precedes(k, Last(F))
  <2>1. ~Precedes(Last(F), k)
    BY <1>1, <1>3, FirstIsUpper
  <2> QED
    BY <1>1, <1>3, <2>1, Total
<1> QED
  BY <1>3, <1>4

-----------------------------------------------------------------------------
(* The invariant.                                                          *)

Ever == {stored[i] : i \in DOMAIN stored}

\* What a client was served lies at and above its cursor; what it is owed and
\* has not been served lies below it, or nothing is left once it has finished.
ReaderOK(r) ==
  /\ Served(r) \subseteq Ever
  /\ \A i, j \in DOMAIN pages[r] : i < j =>
       \A k \in pages[r][i], l \in pages[r][j] : Precedes(l, k)
  /\ r \in reading =>
       \/ cursor[r] = NoCursor /\ pages[r] = << >>
       \/ /\ cursor[r] # NoCursor
          /\ \A k \in Served(r) : ~Precedes(k, cursor[r])
          /\ \A k \in kept[r] \ Served(r) : Precedes(k, cursor[r])
  /\ r \notin reading /\ pages[r] # << >> => kept[r] \subseteq Served(r)

Inv == TypeOK /\ \A r \in Readers : ReaderOK(r)

\* The descent is a part of the invariant.
LEMMA InvImpliesDescent == Inv => PagesDescend
  BY DEF Inv, ReaderOK, PagesDescend

LEMMA RowsAreKeys ==
  ASSUME TypeOK
  PROVE  Rows \subseteq Ever /\ Ever \subseteq Keys
  BY DEF TypeOK, Rows, Retained, Ever

LEMMA NothingServed ==
  ASSUME NEW r, pages[r] = << >>
  PROVE  Served(r) = {}
  BY DEF Served

LEMMA InitInv == Init => Inv
<1> SUFFICES ASSUME Init PROVE Inv
  OBVIOUS
<1>1. stored = << >> /\ lost = 0 /\ Len(stored) = 0 /\ stored \in Seq(Keys) /\ DOMAIN stored = {}
  BY DEF Init
<1>2. TypeOK
  BY <1>1 DEF Init, TypeOK
<1>3. ASSUME NEW r \in Readers PROVE ReaderOK(r)
  <2>1. pages[r] = << >> /\ kept[r] = {} /\ r \notin reading /\ DOMAIN pages[r] = {}
    BY DEF Init
  <2>2. Served(r) = {}
    BY <2>1, NothingServed
  <2> QED
    BY <2>1, <2>2 DEF ReaderOK
<1> QED
  BY <1>2, <1>3 DEF Inv

\* What a page is, the cursor before and the cursor after it.
LEMMA PageFacts ==
  ASSUME Inv, NEW r \in reading, NEW limit \in Limits,
         NEW page, page = First(limit, First(limit + 1, After(cursor[r]))),
         NEW next, next = NextCursor(First(limit + 1, After(cursor[r])), limit)
  PROVE  /\ r \in Readers
         /\ page \in SUBSET After(cursor[r]) /\ After(cursor[r]) \in SUBSET Rows
         /\ Cardinality(page) <= limit
         /\ page \cap Served(r) = {}
         /\ After(cursor[r]) \cap Served(r) = {}
         /\ \A k \in Served(r), l \in page : Precedes(l, k)
         /\ next = NoCursor => page = After(cursor[r])
         /\ next # NoCursor =>
              /\ next \in page /\ next \in Keys
              /\ After(cursor[r]) \ page # {}
              /\ \A k \in page : ~Precedes(k, next)
              /\ \A k \in After(cursor[r]) \ page : Precedes(k, next)
<1> DEFINE R == After(cursor[r])
           fetched == First(limit + 1, R)
<1>1. r \in Readers /\ limit \in Nat \ {0} /\ limit \in Nat /\ limit + 1 \in Nat
  BY ConstantsAssumption DEF Inv, TypeOK
<1>2. R \in SUBSET Rows /\ R \in SUBSET Keys
  BY RowsAreKeys DEF After, Inv
<1>3. page = First(limit, R) /\ page \in SUBSET R /\ Cardinality(page) <= limit
  BY <1>1, <1>2, FirstOfMore, FirstIsBounded
<1>4. ASSUME NEW k \in Served(r), NEW l \in R PROVE Precedes(l, k) /\ l # k
  <2>1. k \in Keys /\ l \in Keys
    BY <1>1, <1>2, RowsAreKeys DEF Inv, ReaderOK
  <2>2. cursor[r] # NoCursor /\ ~Precedes(k, cursor[r])
    BY <1>1, NothingServed DEF Inv, ReaderOK
  <2>3. Precedes(l, cursor[r]) /\ cursor[r] \in Keys
    BY <1>1, <2>2 DEF After, Inv, TypeOK
  <2>4. k = cursor[r] \/ Precedes(cursor[r], k)
    BY <2>1, <2>2, <2>3, Total
  <2>5. Precedes(l, k)
    BY <2>1, <2>3, <2>4, Transitive
  <2> QED
    BY <2>1, <2>5, Irreflexive
<1>5. fetched \in SUBSET R /\ IsFiniteSet(fetched) /\ Cardinality(fetched) \in Nat
  BY <1>1, <1>2, FirstIsBounded, FiniteKeys
<1>6. CASE Cardinality(fetched) > limit
  <2>1. next = Last(page)
    BY <1>6 DEF NextCursor
  <2>2. fetched # page
    BY <1>1, <1>3, <1>5, <1>6
  <2>3. page \in SUBSET fetched
    BY <1>1, <1>2, <1>5, FirstIsBounded
  <2>4. R \ page # {} /\ R # {}
    BY <1>5, <2>2, <2>3
  <2>5. next \in page /\ next \in Keys
    BY <1>1, <1>2, <1>3, <2>1, <2>4, LastOfPage
  <2>6. /\ \A k \in page : ~Precedes(k, next)
        /\ \A k \in R \ page : Precedes(k, next)
    BY <1>1, <1>2, <1>3, <2>1, <2>4, LastOfPage
  <2> QED
    BY <1>1, <1>2, <1>3, <1>4, <2>4, <2>5, <2>6, KeyIsNoCursor
<1>7. CASE ~(Cardinality(fetched) > limit)
  <2>1. next = NoCursor
    BY <1>7 DEF NextCursor
  <2>2. Cardinality(fetched) <= limit
    BY <1>1, <1>5, <1>7
  <2>3. page = R
    BY <1>1, <1>2, <1>3, <2>2, FirstIsAll
  <2> QED
    BY <1>1, <1>2, <1>3, <1>4, <2>1, <2>3
<1> QED
  BY <1>6, <1>7

\* A client that is not served keeps its invariant while rows come and go.
LEMMA OthersKeepTheirs ==
  ASSUME Inv, NEW r \in Readers, Ever \subseteq Ever', kept'[r] \subseteq kept[r],
         pages'[r] = pages[r], cursor'[r] = cursor[r], r \in reading' <=> r \in reading
  PROVE  ReaderOK(r)'
<1>1. Served(r)' = Served(r)
  BY DEF Served
<1> QED
  BY <1>1 DEF Inv, ReaderOK

LEMMA AddKeepsInv == ASSUME Inv, Add PROVE Inv' /\ Ever \subseteq Ever'
<1>1. PICK k \in Keys : /\ \A i \in DOMAIN stored : stored[i][2] # k[2]
                        /\ stored' = Append(stored, k)
  BY DEF Add
<1>2. /\ stored' \in Seq(Keys) /\ Len(stored') = Len(stored) + 1
      /\ DOMAIN stored' = DOMAIN stored \cup {Len(stored) + 1}
      /\ \A i \in DOMAIN stored : stored'[i] = stored[i]
      /\ stored'[Len(stored) + 1] = k
      /\ Len(stored) \in Nat
  BY <1>1 DEF Inv, TypeOK
<1>3. Ever \subseteq Ever'
  BY <1>2 DEF Ever
<1>4. UNCHANGED <<backend, lost, reading, cursor, pages>>
      /\ kept' = [r \in Readers |-> kept[r] \cap Rows']
  BY DEF Add, StillKept
<1>5. TypeOK'
  <2>1. lost' \in 0 .. Len(stored')
    BY <1>2, <1>4 DEF Inv, TypeOK
  <2>2. \A i, j \in DOMAIN stored' : stored'[i][2] = stored'[j][2] => i = j
    BY <1>1, <1>2 DEF Inv, TypeOK
  <2>3. kept' \in [Readers -> SUBSET Keys] /\ \A r \in Readers : kept'[r] \subseteq Rows'
    BY <1>4 DEF Inv, TypeOK
  <2> QED
    BY <1>2, <1>4, <2>1, <2>2, <2>3 DEF Inv, TypeOK
<1>6. ASSUME NEW r \in Readers PROVE ReaderOK(r)'
  BY <1>3, <1>4, OthersKeepTheirs
<1> QED
  BY <1>3, <1>5, <1>6 DEF Inv

LEMMA RestartKeepsInv == ASSUME Inv, Restart PROVE Inv' /\ Ever' = Ever
<1>1. UNCHANGED <<backend, stored, reading, cursor, pages>> /\ lost' = Len(stored)
      /\ kept' = [r \in Readers |-> kept[r] \cap Rows']
  BY DEF Restart, StillKept
<1>2. Ever' = Ever
  BY <1>1 DEF Ever
<1>3. TypeOK'
  <2>1. lost' \in 0 .. Len(stored')
    BY <1>1 DEF Inv, TypeOK
  <2>2. kept' \in [Readers -> SUBSET Keys] /\ \A r \in Readers : kept'[r] \subseteq Rows'
    BY <1>1 DEF Inv, TypeOK
  <2> QED
    BY <1>1, <2>1, <2>2 DEF Inv, TypeOK
<1>4. ASSUME NEW r \in Readers PROVE ReaderOK(r)'
  BY <1>1, <1>2, OthersKeepTheirs
<1> QED
  BY <1>2, <1>3, <1>4 DEF Inv

\* The rows are the same while a client reads.
LEMMA RowsStay ==
  ASSUME UNCHANGED <<backend, stored, lost>>
  PROVE  Rows' = Rows /\ Ever' = Ever
  BY DEF Rows, Retained, Ever

LEMMA StartKeepsInv == ASSUME Inv, NEW r \in Readers, StartReading(r) PROVE Inv'
<1>1. /\ reading' = reading \cup {r}
      /\ cursor' = [cursor EXCEPT ![r] = NoCursor]
      /\ pages' = [pages EXCEPT ![r] = << >>]
      /\ kept' = [kept EXCEPT ![r] = Rows]
      /\ UNCHANGED <<backend, stored, lost>>
  BY DEF StartReading
<1>2. Rows' = Rows /\ Ever' = Ever /\ Rows \subseteq Keys
  BY <1>1, RowsStay, RowsAreKeys DEF Inv
<1>3. pages'[r] = << >> /\ cursor'[r] = NoCursor /\ DOMAIN pages'[r] = {}
  BY <1>1 DEF Inv, TypeOK
<1>4. TypeOK'
  <2>1. /\ cursor' \in [Readers -> Keys \cup {NoCursor}]
        /\ pages' \in [Readers -> Seq(SUBSET Keys)]
        /\ kept' \in [Readers -> SUBSET Keys]
        /\ reading' \subseteq Readers
    BY <1>1, <1>2 DEF Inv, TypeOK
  <2>2. ASSUME NEW q \in Readers
        PROVE  /\ kept'[q] \subseteq Rows'
               /\ \A i \in DOMAIN pages'[q] : \E limit \in Limits : Cardinality(pages'[q][i]) <= limit
    <3>1. CASE q = r
      BY <1>1, <1>2, <1>3, <3>1 DEF Inv, TypeOK
    <3>2. CASE q # r
      BY <1>1, <1>2, <3>2 DEF Inv, TypeOK
    <3> QED
      BY <3>1, <3>2
  <2> QED
    BY <1>1, <2>1, <2>2 DEF Inv, TypeOK
<1>5. ASSUME NEW q \in Readers PROVE ReaderOK(q)'
  <2>1. CASE q = r
    <3>1. Served(r)' = {}
      BY <1>3 DEF Served
    <3> QED
      BY <1>1, <1>3, <2>1, <3>1 DEF ReaderOK
  <2>2. CASE q # r
    BY <1>1, <1>2, <2>2, OthersKeepTheirs DEF Inv, TypeOK
  <2> QED
    BY <2>1, <2>2
<1> QED
  BY <1>4, <1>5 DEF Inv

\* What ReadPage does, with the page and the cursor it returns.
LEMMA PageRead ==
  ASSUME Inv, NEW r \in Readers, ReadPage(r)
  PROVE  \E limit \in Limits, page \in SUBSET Keys, next \in Keys \cup {NoCursor} :
           /\ r \in reading
           /\ page = First(limit, First(limit + 1, After(cursor[r])))
           /\ next = NextCursor(First(limit + 1, After(cursor[r])), limit)
           /\ pages' = [pages EXCEPT ![r] = Append(pages[r], page)]
           /\ cursor' = [cursor EXCEPT ![r] = next]
           /\ reading' = IF next = NoCursor THEN reading \ {r} ELSE reading
           /\ Served(r)' = Served(r) \cup page
           /\ DOMAIN pages'[r] = DOMAIN pages[r] \cup {Len(pages[r]) + 1}
           /\ \A i \in DOMAIN pages[r] : pages'[r][i] = pages[r][i]
           /\ pages'[r][Len(pages[r]) + 1] = page
<1>1. PICK limit \in Limits :
        LET fetched == First(limit + 1, After(cursor[r]))
            next == NextCursor(fetched, limit)
        IN /\ pages' = [pages EXCEPT ![r] = Append(@, First(limit, fetched))]
           /\ cursor' = [cursor EXCEPT ![r] = next]
           /\ reading' = IF next = NoCursor THEN reading \ {r} ELSE reading
  BY DEF ReadPage
<1> DEFINE page == First(limit, First(limit + 1, After(cursor[r])))
           next == NextCursor(First(limit + 1, After(cursor[r])), limit)
<1>2. r \in reading
  BY DEF ReadPage
<1>3. /\ pages' = [pages EXCEPT ![r] = Append(pages[r], page)]
      /\ cursor' = [cursor EXCEPT ![r] = next]
      /\ reading' = IF next = NoCursor THEN reading \ {r} ELSE reading
  BY <1>1
<1>4. page \in SUBSET Keys /\ next \in Keys \cup {NoCursor}
  BY <1>2, PageFacts, RowsAreKeys DEF Inv
<1> HIDE DEF page, next
<1>5. /\ pages'[r] = Append(pages[r], page) /\ pages[r] \in Seq(SUBSET Keys)
  BY <1>3 DEF Inv, TypeOK
<1>6. /\ DOMAIN pages'[r] = DOMAIN pages[r] \cup {Len(pages[r]) + 1}
      /\ \A i \in DOMAIN pages[r] : pages'[r][i] = pages[r][i]
      /\ pages'[r][Len(pages[r]) + 1] = page
  BY <1>4, <1>5
<1>7. Served(r)' = Served(r) \cup page
  BY <1>6 DEF Served
<1> QED
  BY <1>2, <1>3, <1>4, <1>6, <1>7 DEF page, next

LEMMA ReadKeepsInv == ASSUME Inv, NEW r \in Readers, ReadPage(r) PROVE Inv'
<1>1. PICK limit \in Limits, page \in SUBSET Keys, next \in Keys \cup {NoCursor} :
        /\ r \in reading
        /\ page = First(limit, First(limit + 1, After(cursor[r])))
        /\ next = NextCursor(First(limit + 1, After(cursor[r])), limit)
        /\ pages' = [pages EXCEPT ![r] = Append(pages[r], page)]
        /\ cursor' = [cursor EXCEPT ![r] = next]
        /\ reading' = IF next = NoCursor THEN reading \ {r} ELSE reading
        /\ Served(r)' = Served(r) \cup page
        /\ DOMAIN pages'[r] = DOMAIN pages[r] \cup {Len(pages[r]) + 1}
        /\ \A i \in DOMAIN pages[r] : pages'[r][i] = pages[r][i]
        /\ pages'[r][Len(pages[r]) + 1] = page
  BY PageRead
<1>2. UNCHANGED <<backend, stored, lost, kept>>
  BY DEF ReadPage
<1>3. Rows' = Rows /\ Ever' = Ever /\ Rows \subseteq Ever
  BY <1>2, RowsStay, RowsAreKeys DEF Inv
<1>4. /\ page \in SUBSET After(cursor[r]) /\ After(cursor[r]) \in SUBSET Rows
      /\ Cardinality(page) <= limit
      /\ \A k \in Served(r), l \in page : Precedes(l, k)
      /\ next = NoCursor => page = After(cursor[r])
      /\ next # NoCursor =>
           /\ next \in page
           /\ \A k \in page : ~Precedes(k, next)
           /\ \A k \in After(cursor[r]) \ page : Precedes(k, next)
  <2>1. /\ r \in reading
        /\ page = First(limit, First(limit + 1, After(cursor[r])))
        /\ next = NextCursor(First(limit + 1, After(cursor[r])), limit)
    BY <1>1
  <2> QED
    BY <2>1, PageFacts
<1>5. TypeOK'
  <2>1. /\ cursor' \in [Readers -> Keys \cup {NoCursor}]
        /\ pages' \in [Readers -> Seq(SUBSET Keys)]
        /\ reading' \subseteq Readers
    BY <1>1 DEF Inv, TypeOK
  <2>2. ASSUME NEW q \in Readers, NEW i \in DOMAIN pages'[q]
        PROVE  \E n \in Limits : Cardinality(pages'[q][i]) <= n
    <3>1. CASE q = r /\ i \in DOMAIN pages[r]
      BY <1>1, <3>1 DEF Inv, TypeOK
    <3>2. CASE q = r /\ i \notin DOMAIN pages[r]
      BY <1>1, <1>4, <2>2, <3>2
    <3>3. CASE q # r
      BY <1>1, <2>2, <3>3 DEF Inv, TypeOK
    <3> QED
      BY <3>1, <3>2, <3>3
  <2> QED
    BY <1>2, <1>3, <2>1, <2>2 DEF Inv, TypeOK
<1>6. ReaderOK(r)'
  <2>1. cursor'[r] = next
    BY <1>1 DEF Inv, TypeOK
  <2>2. Served(r)' \subseteq Ever'
    BY <1>1, <1>3, <1>4 DEF Inv, ReaderOK
  <2>3. ASSUME NEW i \in DOMAIN pages'[r], NEW j \in DOMAIN pages'[r], i < j,
               NEW k \in pages'[r][i], NEW l \in pages'[r][j]
        PROVE  Precedes(l, k)
    <3>1. i \in DOMAIN pages[r]
      <4>1. pages[r] \in Seq(SUBSET Keys) /\ DOMAIN pages[r] = 1 .. Len(pages[r]) /\ Len(pages[r]) \in Nat
        BY DEF Inv, TypeOK
      <4> QED
        BY <1>1, <2>3, <4>1
    <3>2. CASE j \in DOMAIN pages[r]
      BY <1>1, <2>3, <3>1, <3>2 DEF Inv, ReaderOK
    <3>3. CASE j \notin DOMAIN pages[r]
      <4>1. l \in page /\ k \in Served(r)
        BY <1>1, <2>3, <3>1, <3>3 DEF Served
      <4> QED
        BY <1>4, <4>1
    <3> QED
      BY <3>2, <3>3
  <2>4. ASSUME NEW k \in kept[r] \ Served(r)' PROVE k \in After(cursor[r]) \ page
    <3>1. k \in Rows /\ k \notin Served(r) /\ k \notin page
      BY <1>1, <2>4 DEF Inv, TypeOK
    <3>2. cursor[r] = NoCursor \/ Precedes(k, cursor[r])
      BY <1>1, <2>4, <3>1 DEF Inv, ReaderOK
    <3> QED
      BY <3>1, <3>2 DEF After
  <2>5. CASE next = NoCursor
    <3>1. r \notin reading'
      BY <1>1, <2>5
    <3>2. kept'[r] \subseteq Served(r)'
      BY <1>2, <1>4, <2>4, <2>5
    <3> QED
      BY <2>2, <2>3, <3>1, <3>2 DEF ReaderOK
  <2>6. CASE next # NoCursor
    <3>1. r \in reading'
      BY <1>1, <2>6
    <3>2. \A k \in kept'[r] \ Served(r)' : Precedes(k, next)
      BY <1>2, <1>4, <2>4, <2>6
    <3>3. ASSUME NEW k \in Served(r) PROVE ~Precedes(k, next)
      <4>1. next \in Keys /\ k \in Keys /\ Precedes(next, k)
        BY <1>3, <1>4, <2>6, <3>3, RowsAreKeys, KeyIsNoCursor DEF Inv, ReaderOK
      <4> QED
        BY <4>1, Transitive, Irreflexive
    <3>4. \A k \in Served(r)' : ~Precedes(k, next)
      BY <1>1, <1>4, <2>6, <3>3
    <3> QED
      BY <2>1, <2>2, <2>3, <2>6, <3>1, <3>2, <3>4 DEF ReaderOK
  <2> QED
    BY <2>5, <2>6
<1>7. ASSUME NEW q \in Readers, q # r PROVE ReaderOK(q)'
  BY <1>1, <1>2, <1>3, <1>7, OthersKeepTheirs DEF Inv, TypeOK
<1> QED
  BY <1>5, <1>6, <1>7 DEF Inv

LEMMA StepInv == Inv /\ [Next]_vars => Inv'
<1> SUFFICES ASSUME Inv, [Next]_vars PROVE Inv'
  OBVIOUS
<1>1. CASE Add
  BY <1>1, AddKeepsInv
<1>2. CASE Restart
  BY <1>2, RestartKeepsInv
<1>3. ASSUME NEW r \in Readers, StartReading(r) PROVE Inv'
  BY <1>3, StartKeepsInv
<1>4. ASSUME NEW r \in Readers, ReadPage(r) PROVE Inv'
  BY <1>4, ReadKeepsInv
<1>5. CASE UNCHANGED vars
  BY <1>5 DEF vars, Inv, TypeOK, ReaderOK, Served, Ever, Rows, Retained
<1> QED
  BY <1>1, <1>2, <1>3, <1>4, <1>5 DEF Next

LEMMA Invariance == Spec => []Inv
  BY InitInv, StepInv, PTL DEF Spec

\* However rows are added, evicted and lost between the pages, no row is
\* returned twice to a client, a page lies wholly below the ones before it and
\* is no longer than its limit (list_attempts, list_actions).
THEOREM TraversalsDescend == Spec => []PagesDescend
  BY Invariance, InvImpliesDescent, PTL

-----------------------------------------------------------------------------
(* What a step does for a client.                                          *)

\* Only a page changes what an active client has received.
LEMMA OnlyReads ==
  ASSUME Inv, [Next]_vars, NEW r \in Readers, r \in reading, pages'[r] # pages[r]
  PROVE  ReadPage(r)
<1>1. ASSUME NEW q \in Readers, StartReading(q) PROVE FALSE
  <2>1. q # r
    BY <1>1 DEF StartReading
  <2> QED
    BY <1>1, <2>1 DEF StartReading, Inv, TypeOK
<1>2. ASSUME NEW q \in Readers, ReadPage(q) PROVE q = r
  <2> SUFFICES ASSUME q # r PROVE FALSE
    OBVIOUS
  <2>1. PICK page : pages' = [pages EXCEPT ![q] = Append(pages[q], page)]
    BY <1>2, PageRead
  <2> QED
    BY <2>1 DEF Inv, TypeOK
<1>3. CASE Add \/ Restart \/ UNCHANGED vars
  BY <1>3 DEF Add, Restart, vars
<1> QED
  BY <1>1, <1>2, <1>3 DEF Next

\* A page comes with a cursor exactly when the store holds a further row below.
LEMMA PageCursor ==
  ASSUME Inv, NEW r \in Readers, ReadPage(r)
  PROVE  r \in reading' <=> After(cursor[r]) \ Served(r)' # {}
<1>1. PICK limit \in Limits, page \in SUBSET Keys, next \in Keys \cup {NoCursor} :
        /\ r \in reading
        /\ page = First(limit, First(limit + 1, After(cursor[r])))
        /\ next = NextCursor(First(limit + 1, After(cursor[r])), limit)
        /\ reading' = IF next = NoCursor THEN reading \ {r} ELSE reading
        /\ Served(r)' = Served(r) \cup page
  BY PageRead
<1>2. /\ After(cursor[r]) \cap Served(r) = {}
      /\ next = NoCursor => page = After(cursor[r])
      /\ next # NoCursor => After(cursor[r]) \ page # {}
  <2>1. /\ r \in reading
        /\ page = First(limit, First(limit + 1, After(cursor[r])))
        /\ next = NextCursor(First(limit + 1, After(cursor[r])), limit)
    BY <1>1
  <2> QED
    BY <2>1, PageFacts
<1>3. After(cursor[r]) \ Served(r)' = After(cursor[r]) \ page
  BY <1>1, <1>2
<1> QED
  BY <1>1, <1>2, <1>3

\* A next cursor is returned exactly when another page is available
\* (README.md:354), also when the page is full and when the row under the last
\* cursor is no longer there.
THEOREM CursorsAreExact == Spec => CursorMeansMore
<1>1. Inv /\ [Next]_vars =>
        [\A r \in reading : pages'[r] # pages[r] =>
           (r \in reading' <=> After(cursor[r]) \ Served(r)' # {})]_vars
  <2> SUFFICES ASSUME Inv, [Next]_vars, NEW r \in reading, pages'[r] # pages[r]
               PROVE  r \in reading' <=> After(cursor[r]) \ Served(r)' # {}
    OBVIOUS
  <2>1. r \in Readers
    BY DEF Inv, TypeOK
  <2> QED
    BY <2>1, OnlyReads, PageCursor
<1> QED
  BY <1>1, Invariance, PTL DEF Spec, CursorMeansMore

-----------------------------------------------------------------------------
(* The refinement of Traversal.                                            *)

LEMMA SentIsServed == ASSUME NEW r PROVE Contract(r)!SentIn(pages[r]) = Served(r)
  BY DEF Contract!SentIn, Served

LEMMA InitTraversal == Init => \A r \in Readers : Contract(r)!Init
  BY DEF Init, Contract!Init

LEMMA ReadSends ==
  ASSUME Inv, Inv', NEW r \in Readers, ReadPage(r)
  PROVE  Contract(r)!Send
<1>1. PICK limit \in Limits, page \in SUBSET Keys, next \in Keys \cup {NoCursor} :
        /\ r \in reading
        /\ page = First(limit, First(limit + 1, After(cursor[r])))
        /\ next = NextCursor(First(limit + 1, After(cursor[r])), limit)
        /\ pages' = [pages EXCEPT ![r] = Append(pages[r], page)]
        /\ Served(r)' = Served(r) \cup page
  BY PageRead
<1>2. UNCHANGED <<stored, kept>>
  BY DEF ReadPage
<1>3. page \in SUBSET After(cursor[r]) /\ After(cursor[r]) \in SUBSET Rows
      /\ page \cap Served(r) = {}
  <2>1. /\ r \in reading
        /\ page = First(limit, First(limit + 1, After(cursor[r])))
        /\ next = NextCursor(First(limit + 1, After(cursor[r])), limit)
    BY <1>1
  <2> QED
    BY <2>1, PageFacts
<1>4. page \in SUBSET (Ever \ Served(r))
  BY <1>3, RowsAreKeys DEF Inv
<1>5. pages'[r] = Append(pages[r], page)
  BY <1>1 DEF Inv, TypeOK
<1>6. r \notin reading' /\ pages'[r] # << >> => kept'[r] \subseteq Served(r)'
  BY DEF Inv, ReaderOK
<1>7. Contract(r)!SentIn(pages[r]) = Served(r) /\ Contract(r)!SentIn(pages'[r]) = Served(r)'
  BY DEF Contract!SentIn, Served
<1> QED
  BY <1>1, <1>2, <1>4, <1>5, <1>6, <1>7 DEF Contract!Send, Ever

LEMMA OthersMayChange ==
  ASSUME NEW r \in Readers, Ever \subseteq Ever', kept'[r] \subseteq kept[r],
         pages'[r] = pages[r], r \in reading' <=> r \in reading
  PROVE  Contract(r)!Change
  BY DEF Contract!Change, Ever

LEMMA StepTraversal ==
  ASSUME Inv, Inv', [Next]_vars, NEW r \in Readers
  PROVE  [Contract(r)!Next]_(Contract(r)!contractVars)
<1>1. CASE Add
  <2>1. kept' = [q \in Readers |-> kept[q] \cap Rows'] /\ UNCHANGED <<reading, pages>>
    BY <1>1 DEF Add, StillKept
  <2> QED
    BY <1>1, <2>1, AddKeepsInv, OthersMayChange DEF Contract!Next
<1>2. CASE Restart
  <2>1. kept' = [q \in Readers |-> kept[q] \cap Rows'] /\ UNCHANGED <<reading, pages>>
    BY <1>2 DEF Restart, StillKept
  <2> QED
    BY <1>2, <2>1, RestartKeepsInv, OthersMayChange DEF Contract!Next
<1>3. ASSUME NEW q \in Readers, StartReading(q) PROVE Contract(r)!Next
  <2>1. /\ reading' = reading \cup {q} /\ q \notin reading
        /\ pages' = [pages EXCEPT ![q] = << >>]
        /\ kept' = [kept EXCEPT ![q] = Rows]
        /\ UNCHANGED <<backend, stored, lost>>
    BY <1>3 DEF StartReading
  <2>2. Ever' = Ever /\ Rows \subseteq Ever
    BY <2>1, RowsStay, RowsAreKeys DEF Inv
  <2>3. CASE q = r
    BY <2>1, <2>2, <2>3 DEF Inv, TypeOK, Ever, Contract!Next, Contract!Begin
  <2>4. CASE q # r
    BY <2>1, <2>2, <2>4, OthersMayChange DEF Inv, TypeOK, Contract!Next
  <2> QED
    BY <2>3, <2>4
<1>4. ASSUME NEW q \in Readers, ReadPage(q) PROVE Contract(r)!Next
  <2>1. CASE q = r
    BY <1>4, <2>1, ReadSends DEF Contract!Next
  <2>2. CASE q # r
    <3>1. PICK page, next :
            /\ pages' = [pages EXCEPT ![q] = Append(pages[q], page)]
            /\ reading' = IF next = NoCursor THEN reading \ {q} ELSE reading
      BY <1>4, PageRead
    <3>2. UNCHANGED <<backend, stored, lost, kept>>
      BY <1>4 DEF ReadPage
    <3> QED
      BY <2>2, <3>1, <3>2, RowsStay, OthersMayChange DEF Inv, TypeOK, Contract!Next
  <2> QED
    BY <2>1, <2>2
<1>5. CASE UNCHANGED vars
  BY <1>5 DEF vars, Contract!contractVars
<1> QED
  BY <1>1, <1>2, <1>3, <1>4, <1>5 DEF Next

\* Each client gets what Traversal promises: nothing twice, and no cursor only
\* when all the rows that were there from its first request on, and are still
\* there, have been served.
THEOREM ImplementsTraversal == Spec => KeepsTraversal
<1>1. Inv /\ Inv' /\ [Next]_vars =>
        [\A r \in Readers : [Contract(r)!Next]_(Contract(r)!contractVars)]_vars
  BY StepTraversal
<1> QED
  BY <1>1, InitTraversal, Invariance, PTL DEF Spec, KeepsTraversal
=============================================================================
