--------------------------- MODULE LedgerContract ---------------------------
(***************************************************************************)
(* What the delivery ledger promises, without transactions or workers: an  *)
(* attempt is recorded in one step together with its logical delivery, is  *)
(* never changed or lost, and is acknowledged only once recorded.          *)
(***************************************************************************)
EXTENDS Naturals

CONSTANTS Ids, Identities

VARIABLES
  received,  \* webhooks: pairs of an attempt and its delivery's identity
  recorded,  \* those on record
  logical,   \* identities of the deliveries on record
  acked      \* attempts the sender was told are recorded

contractVars == <<received, recorded, logical, acked>>

Init ==
  /\ received = {}
  /\ recorded = {}
  /\ logical = {}
  /\ acked = {}

Receive(a, i) ==
  /\ \A p \in received : p[1] # a
  /\ received' = received \cup {<<a, i>>}
  /\ UNCHANGED <<recorded, logical, acked>>

Record(a, i) ==
  /\ <<a, i>> \in received \ recorded
  /\ recorded' = recorded \cup {<<a, i>>}
  /\ logical' = logical \cup {i}
  /\ UNCHANGED <<received, acked>>

Acknowledge(a) ==
  /\ \E i \in Identities : <<a, i>> \in recorded
  /\ acked' = acked \cup {a}
  /\ UNCHANGED <<received, recorded, logical>>

Next == \E a \in Ids : Acknowledge(a) \/ \E i \in Identities : Receive(a, i) \/ Record(a, i)

Spec == Init /\ [][Next]_contractVars
=============================================================================
