----------------------------- MODULE Traversal -----------------------------
(***************************************************************************)
(* What a client is promised that goes through a changing collection page  *)
(* by page: nothing is sent to it twice, and it is told the traversal is   *)
(* complete only when all that was there from its first request on, and    *)
(* is still there, has been sent. KeysetPagination and Reconciliation      *)
(* implement it.                                                           *)
(***************************************************************************)
EXTENDS Sequences

VARIABLES
  ever,     \* everything the collection ever held
  owed,     \* what has been there since the traversal began
  pages,    \* the pages the client has received in this traversal
  complete  \* it was told that this is all

contractVars == <<ever, owed, pages, complete>>

SentIn(s) == UNION {s[i] : i \in DOMAIN s}

Init ==
  /\ owed = {}
  /\ pages = << >>
  /\ complete = FALSE

Begin ==
  /\ owed' \subseteq ever
  /\ pages' = << >>
  /\ complete' = FALSE
  /\ UNCHANGED ever

Change ==
  /\ ever \subseteq ever'
  /\ owed' \subseteq owed
  /\ UNCHANGED <<pages, complete>>

Send ==
  /\ ~complete
  /\ \E page \in SUBSET (ever \ SentIn(pages)) : pages' = Append(pages, page)
  /\ complete' => owed \subseteq SentIn(pages')
  /\ UNCHANGED <<ever, owed>>

Next == Begin \/ Change \/ Send

Spec == Init /\ [][Next]_contractVars
=============================================================================
