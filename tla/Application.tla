----------------------------- MODULE Application -----------------------------
(***************************************************************************)
(* The application object: ManagementAccess, which validates the settings  *)
(* and lets requests through, composed with Lifespan, which builds, checks *)
(* and closes what these settings and the caller of create_app ask for.    *)
(* Requests come one by one, and only while the lifespan is entered.       *)
(***************************************************************************)
EXTENDS ManagementAccess

CONSTANT Deployments  \* the settings and what the caller passes in with them

VARIABLES
  injected,  \* what the caller passes to create_app
  stage,     \* the lifespan's phase
  open,      \* resources that exist and are not closed
  todo,      \* resources still to be closed
  raised     \* the resource whose close raised

lifeVars == <<injected, stage, open, todo, raised>>

Oidc == settings.enabled /\ settings.mode = "oidc_jwt"

\* What the settings make create_app build unless it is passed in.
Needed ==
  {r \in {"redelivery_client", "reconciliation_client", "identity_client", "engine"} :
     \/ r = "redelivery_client" /\ settings.redelivery
     \/ r = "reconciliation_client" /\ settings.reconciliation
     \/ r = "identity_client" /\ Oidc
     \/ r = "engine" /\ settings.backend = "postgresql"}

Life == INSTANCE Lifespan WITH
  phase <- stage, needed <- Needed, requests <- IF last = NoRequest THEN 0 ELSE 1

AppInit == Init /\ Life!Init /\ <<settings, injected>> \in Deployments

Create ==
  /\ Start
  /\ IF phase' = "running" THEN Life!Build ELSE UNCHANGED lifeVars

\* The next two actions change what both components see: a request begins, ends.
BeginRequest ==
  \E route \in Routes, credential \in Credentials, reachable \in BOOLEAN :
    \E lookup \in Lookups(route) :
      Handle(route, credential, reachable, lookup) /\ Life!Request

EndRequest == Forget /\ Life!Answer

LifespanStep ==
  /\ UNCHANGED vars
  /\ Life!Check \/ Life!Shutdown \/ Life!CloseNext \/ Life!Closed

AppNext == Create \/ BeginRequest \/ EndRequest \/ LifespanStep

AppSpec == AppInit /\ [][AppNext]_<<vars, lifeVars>>

-----------------------------------------------------------------------------
(* Properties.                                                             *)

AppTypeOK == TypeOK /\ Life!TypeOK

\* When the lifespan is over, nothing it built is open, also when the first check
\* failed (test_postgresql_owned_engine_is_disposed_when_startup_readiness_fails);
\* a close that raises leaves open what is closed after it. What the caller
\* passed in stays the caller's, whatever is used and however it ends
\* (test_injected_delivery_store_does_not_create_or_dispose_engine).
OwnedAreReleased == AppTypeOK /\ Life!InjectedStayOpen /\ Life!OwnedAreReleased

\* The resources the last request works with: the identity client before it is
\* let through, then what its route touches.
WorksWith ==
  {r \in Life!Resources :
     \/ r = "identity_client" /\ Oidc /\ last.credential.kind = "jwt"
     \/ r = "reconciliation_client" /\ "github" \in last.touched
     \/ r = "redelivery_client" /\ "github_write" \in last.touched
     \/ r = "engine" /\ {"ledger", "journal"} \cap last.touched # {} /\ r \in Needed}

\* Settings that validation accepts are complete, whatever switches are on and
\* whoever provides the clients: the app can be built, no request meets a feature
\* that is on while one it relies on is off, and each finds what it works with
\* built and not closed yet, up to the shutdown (Settings, create_app, lifespan).
AcceptedSettingsWork ==
  /\ phase # "broken"
  /\ last # NoRequest => last.status # "internal_error_500" /\ WorksWith \subseteq open
=============================================================================
