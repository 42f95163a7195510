------------------------------ MODULE Lifespan ------------------------------
(***************************************************************************)
(* What an application object owns: the HTTP clients and the engine that   *)
(* create_app builds or is given, the readiness check that stands before   *)
(* the first request, and the shutdown that closes what is owned, one      *)
(* resource after the other, each of which may raise.                      *)
(***************************************************************************)
EXTENDS Naturals

VARIABLES
  needed,    \* what the settings ask for
  injected,  \* what the caller of create_app passes
  phase,     \* "building", "checking", "serving", "closing", "stopped"
  open,      \* resources that exist and are not closed
  todo,      \* resources still to be closed
  requests,  \* requests under way
  raised     \* the resource whose close raised, or "none"

vars == <<needed, injected, phase, open, todo, requests, raised>>

\* In the order in which they are closed. The engine stands for the store: a
\* store that is injected brings none.
Order == <<"redelivery_client", "reconciliation_client", "identity_client", "engine">>
Resources == {Order[i] : i \in 1 .. 4}

Init ==
  /\ needed \in SUBSET Resources
  /\ injected \in SUBSET Resources
  /\ phase = "building"
  /\ open = injected
  /\ todo = {}
  /\ requests = 0
  /\ raised = "none"

Owned == needed \ injected

Build ==
  /\ phase = "building"
  /\ open' = open \cup Owned
  /\ phase' = "checking"
  /\ UNCHANGED <<needed, injected, todo, requests, raised>>

\* Mutant: the readiness check stands before the try.
CloseAfterServing ==
  IF phase = "checking" THEN phase' = "stopped" /\ UNCHANGED todo
  ELSE phase' = "closing" /\ todo' = Owned

\* The finally clause, entered after a failed check too.
Close == phase' = "closing" /\ todo' = Owned

\* An injected store is not checked.
Check ==
  /\ phase = "checking"
  /\ \/ phase' = "serving" /\ UNCHANGED todo
     \/ "engine" \in Owned /\ Close
  /\ UNCHANGED <<needed, injected, open, requests, raised>>

Request ==
  /\ phase = "serving"
  /\ requests' = requests + 1
  /\ UNCHANGED <<needed, injected, phase, open, todo, raised>>

Answer ==
  /\ requests > 0
  /\ requests' = requests - 1
  /\ UNCHANGED <<needed, injected, phase, open, todo, raised>>

\* The server lets requests end before it ends the lifespan.
Shutdown ==
  /\ phase = "serving" /\ requests = 0
  /\ Close
  /\ UNCHANGED <<needed, injected, open, requests, raised>>

\* An error skips the rest and leaves the lifespan.
CloseFirst ==
  \E i \in 1 .. 4 :
     /\ Order[i] \in todo /\ \A j \in 1 .. i - 1 : Order[j] \notin todo
     /\ \/ /\ open' = open \ {Order[i]}
           /\ todo' = todo \ {Order[i]}
           /\ UNCHANGED <<phase, raised>>
        \/ /\ raised' = Order[i]
           /\ todo' = {}
           /\ phase' = "stopped"
           /\ UNCHANGED open

CloseNext ==
  /\ phase = "closing"
  /\ CloseFirst
  /\ UNCHANGED <<needed, injected, requests>>

Closed ==
  /\ phase = "closing" /\ todo = {}
  /\ phase' = "stopped"
  /\ UNCHANGED <<needed, injected, open, todo, requests, raised>>

Next == Build \/ Check \/ Request \/ Answer \/ Shutdown \/ CloseNext \/ Closed

Spec == Init /\ [][Next]_vars

-----------------------------------------------------------------------------
(* Properties.                                                             *)

TypeOK ==
  /\ needed \subseteq Resources /\ injected \subseteq Resources
  /\ phase \in {"building", "checking", "serving", "closing", "stopped"}
  /\ open \subseteq Resources /\ todo \subseteq Resources
  /\ requests \in Nat
  /\ raised \in Resources \cup {"none"}

\* test_injected_delivery_store_does_not_create_or_dispose_engine: what the
\* caller passes in stays the caller's, whatever is used and however it ends.
InjectedStayOpen == injected \subseteq open

\* test_postgresql_owned_engine_is_disposed_when_startup_readiness_fails: when
\* the lifespan is over, nothing it built is open, also when the first check
\* failed. If a close raised, that one and those after it in the order are.
OwnedAreReleased ==
  phase = "stopped" =>
    \A i \in 1 .. 4 :
      Order[i] \in Owned /\ Order[i] \in open =>
        \E j \in 1 .. i : raised = Order[j]
=============================================================================
