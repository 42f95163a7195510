-------------------------- MODULE ManagementAccess --------------------------
(***************************************************************************)
(* From the operator's settings to what a management request may touch:    *)
(* validation of the settings with the deprecated scope alias, the app     *)
(* built from them, authentication with the shared token or an OIDC access *)
(* token, the capability each route requires, the feature switches, and    *)
(* the authorization evidence of a redelivery in the journal.              *)
(*                                                                         *)
(* A request is one step: nothing here is shared between requests. Signing *)
(* keys are ManagementIdentity's, the search and the POST Redelivery's.    *)
(***************************************************************************)
EXTENDS FiniteSets

CONSTANTS
  Words,          \* scope values without blanks, as tokens carry them
  DefaultFull,    \* the default of MANAGEMENT_OIDC_FULL_MANAGEMENT_SCOPE
  Blank,          \* a scope value of blanks
  Padded,         \* scope values with blanks around them
  Configurations  \* the settings an operator may start the program with

\* An empty environment variable is a value; None is an absent one.
None == "none"
Unclean == {Blank} \cup Padded
Scopes == Words \cup Unclean
Capabilities == {"diagnostics.read", "recovery.read", "recovery.execute"}

Settings ==
  [enabled : BOOLEAN, mode : {"shared_token", "oidc_jwt"},
   token : {None, "short", "strong"}, provider : BOOLEAN,
   full : Scopes \cup {None}, required : Scopes \cup {None},
   own : [Capabilities -> Scopes],
   reconciliation : BOOLEAN, read_token : BOOLEAN,
   redelivery : BOOLEAN, write_token : BOOLEAN,
   backend : {"memory", "postgresql"}]

ASSUME ConstantsAssumption ==
  /\ DefaultFull \in Words
  /\ None \notin Scopes /\ Words \cap Unclean = {}
  /\ Configurations \subseteq Settings

VARIABLES
  settings,  \* as the operator set them
  phase,     \* "starting", "refused", "broken", "running"
  full,      \* the full-management scope in force
  last       \* the last management request: what came, what it did

vars == <<settings, phase, full, last>>

Routes == {"events", "list_attempts", "get_attempt", "reconcile", "redeliver",
           "list_actions", "get_action"}

\* A bearer token of a kind; the scopes of its scope claim if it is a JWT that
\* verifies. "unsound": another header, signature, claim or scheme than required.
Credentials ==
  [kind : {"absent", "shared", "other", "unsound"}, scopes : {{}}]
    \cup [kind : {"jwt"}, scopes : SUBSET Words]

NoRow == [capability |-> None, scope |-> None, principal |-> FALSE]
NoRequest == [route |-> None, credential |-> [kind |-> "absent", scopes |-> {}],
              status |-> None, touched |-> {}, row |-> NoRow]

Init ==
  /\ settings \in Configurations
  /\ phase = "starting"
  /\ full = None
  /\ last = NoRequest

-----------------------------------------------------------------------------
(* Settings.                                                               *)

\* The setting, or its default.
FullSetting == IF settings.full = None THEN DefaultFull ELSE settings.full

\* The deprecated alias takes the place of the full scope.
EffectiveFull == IF settings.required = None THEN FullSetting ELSE settings.required

AliasAccepted ==
  \/ settings.required = None
  \/ settings.required # Blank /\ FullSetting \in {DefaultFull, settings.required}

ScopesAccepted ==
  LET own == settings.own
  IN /\ EffectiveFull \notin Unclean
     /\ \A c \in Capabilities : own[c] \notin Unclean
     /\ Cardinality({EffectiveFull} \cup {own[c] : c \in Capabilities}) = 4

ManagementAccepted ==
  /\ settings.token # "short"
  /\ settings.enabled /\ settings.mode = "shared_token" => settings.token # None
  /\ settings.enabled /\ settings.mode = "oidc_jwt" =>
       settings.provider /\ AliasAccepted /\ ScopesAccepted

\* Mutant: redelivery may be enabled without reconciliation.
GitHubAcceptedApart ==
  /\ settings.reconciliation => settings.enabled /\ settings.read_token
  /\ settings.redelivery => settings.enabled /\ settings.write_token

GitHubAccepted ==
  /\ settings.reconciliation => settings.enabled /\ settings.read_token
  /\ settings.redelivery =>
       settings.enabled /\ settings.reconciliation /\ settings.write_token

\* create_app raises where it finds a credential or a provider missing.
Builds ==
  /\ settings.reconciliation => settings.read_token
  /\ settings.redelivery => settings.write_token
  /\ settings.enabled /\ settings.mode = "oidc_jwt" => settings.provider

Start ==
  /\ phase = "starting"
  /\ IF ManagementAccepted /\ GitHubAccepted
     THEN /\ phase' = IF Builds THEN "running" ELSE "broken"
          /\ full' = IF settings.enabled /\ settings.mode = "oidc_jwt"
                     THEN EffectiveFull ELSE FullSetting
     ELSE phase' = "refused" /\ UNCHANGED full
  /\ UNCHANGED <<settings, last>>

-----------------------------------------------------------------------------
(* Requests.                                                               *)

\* The capability each route depends on.
CapabilityOf(route) ==
  CASE route = "redeliver" -> "recovery.execute"
    [] route \in {"list_actions", "get_action"} -> "recovery.read"
    [] OTHER -> "diagnostics.read"

\* Whether the credential is one of the configured mode. A JWT whose provider
\* cannot be asked is neither accepted nor refused.
Authentic(credential) ==
  credential.kind = IF settings.mode = "shared_token" THEN "shared" ELSE "jwt"

Undecided(credential, reachable) ==
  settings.mode = "oidc_jwt" /\ credential.kind = "jwt" /\ ~reachable

\* Mutant: the full scope is looked for first.
MatchedScopeFullFirst(capability, credential) ==
  IF full \in credential.scopes THEN full
  ELSE IF settings.own[capability] \in credential.scopes THEN settings.own[capability]
  ELSE None

\* Mutant: who may execute may also read.
MatchedScopeImplied(capability, credential) ==
  IF settings.own[capability] \in credential.scopes THEN settings.own[capability]
  ELSE IF {full, settings.own["recovery.execute"]} \cap credential.scopes # {} THEN full
  ELSE None

\* The route's own scope, else the full one.
MatchedScope(capability, credential) ==
  IF settings.own[capability] \in credential.scopes THEN settings.own[capability]
  ELSE IF full \in credential.scopes THEN full
  ELSE None

\* With the shared token, every capability without a scope.
Authorized(route, credential) ==
  settings.mode = "shared_token" \/ MatchedScope(CapabilityOf(route), credential) # None

EvidenceOf(route, credential) ==
  [capability |-> CapabilityOf(route),
   scope |-> IF settings.mode = "shared_token" THEN None
             ELSE MatchedScope(CapabilityOf(route), credential),
   principal |-> settings.mode = "oidc_jwt"]

SwitchedOff(route) ==
  \/ route = "reconcile" /\ ~settings.reconciliation
  \/ route = "redeliver" /\ ~settings.redelivery

\* How the store's part of a request may end: its parameters are not valid, the
\* store fails, there is no such row, or there is; "unusable" is an attempt
\* without usable coordinates or without a verified record at GitHub.
Lookups(route) ==
  {"fails", "found"}
    \cup (IF route = "events" THEN {} ELSE {"malformed"})
    \cup (IF route \in {"events", "list_attempts", "list_actions"} THEN {} ELSE {"absent"})
    \cup (IF route \in {"reconcile", "redeliver"} THEN {"unusable"} ELSE {})

\* What a request that is let through uses.
Uses(route, lookup) ==
  IF lookup = "malformed" THEN {}
  ELSE CASE route \in {"list_actions", "get_action"} -> {"journal"}
         [] route = "reconcile" /\ lookup \in {"found", "unusable"} -> {"ledger", "github"}
         [] route = "redeliver" /\ lookup = "unusable" -> {"ledger", "github"}
         [] route = "redeliver" /\ lookup = "found" ->
              {"ledger", "github", "journal", "github_write"}
         [] OTHER -> {"ledger"}

Reply(route, credential, status, touched, row) ==
  last' = [route |-> route, credential |-> credential, status |-> status,
           touched |-> touched, row |-> row]

Refused(route, credential, reachable) ==
  \/ ~settings.enabled /\ Reply(route, credential, "not_found_404", {}, NoRow)
  \/ /\ settings.enabled
     /\ ~Authentic(credential)
     /\ Reply(route, credential, "unauthorized_401", {}, NoRow)
  \/ /\ settings.enabled
     /\ Undecided(credential, reachable)
     /\ Reply(route, credential, "unavailable_503", {}, NoRow)
  \/ /\ settings.enabled
     /\ Authentic(credential) /\ ~Undecided(credential, reachable)
     /\ ~Authorized(route, credential)
     /\ Reply(route, credential, "forbidden_403", {}, NoRow)

Admitted(route, credential, reachable) ==
  /\ settings.enabled
  /\ Authentic(credential) /\ ~Undecided(credential, reachable)
  /\ Authorized(route, credential)

\* reconcile() inside a redelivery raises an error no handler expects if
\* reconciliation is disabled.
Outcome(route, lookup) ==
  IF SwitchedOff(route) THEN "not_found_404"
  ELSE IF lookup = "malformed" THEN "invalid_422"
  ELSE IF lookup = "fails" THEN "unavailable_503"
  ELSE IF lookup = "absent" THEN "not_found_404"
  ELSE IF route = "redeliver" /\ ~settings.reconciliation THEN "internal_error_500"
  ELSE IF lookup = "unusable" THEN "conflict_409"
  ELSE "served"

Serve(route, credential, lookup) ==
  Reply(route, credential, Outcome(route, lookup),
        IF SwitchedOff(route) THEN {} ELSE Uses(route, lookup),
        IF route = "redeliver" /\ Outcome(route, lookup) = "served"
        THEN EvidenceOf(route, credential) ELSE NoRow)

\* Mutant: the handler looks the attempt up before it asks who may know.
HandleLookupFirst(route, credential, reachable, lookup) ==
  /\ phase = "running"
  /\ last = NoRequest
  /\ \/ lookup = "absent" /\ Serve(route, credential, lookup)
     \/ lookup # "absent" /\ Refused(route, credential, reachable)
     \/ /\ lookup # "absent"
        /\ Admitted(route, credential, reachable)
        /\ Serve(route, credential, lookup)
  /\ UNCHANGED <<settings, phase, full>>

Handle(route, credential, reachable, lookup) ==
  /\ phase = "running"
  /\ last = NoRequest
  /\ \/ Refused(route, credential, reachable)
     \/ Admitted(route, credential, reachable) /\ Serve(route, credential, lookup)
  /\ UNCHANGED <<settings, phase, full>>

\* Requests have nothing in common: the next finds no trace of the last.
Forget ==
  /\ last # NoRequest
  /\ last' = NoRequest
  /\ UNCHANGED <<settings, phase, full>>

Next ==
  \/ Start
  \/ Forget
  \/ \E route \in Routes, credential \in Credentials, reachable \in BOOLEAN :
       \E lookup \in Lookups(route) : Handle(route, credential, reachable, lookup)

Spec == Init /\ [][Next]_vars

-----------------------------------------------------------------------------
(* Properties.                                                             *)

TypeOK ==
  /\ settings \in Configurations
  /\ phase \in {"starting", "refused", "broken", "running"}
  /\ full \in Scopes \cup {None}
  /\ phase = "running" /\ settings.enabled /\ settings.mode = "oidc_jwt" => full \in Words
  /\ last.route \in Routes \cup {None}
  /\ last.credential \in Credentials

\* README.md:265: capabilities are independent. Whatever scopes the operator
\* configures and aliases, what a token opens it opens with the scope of that
\* capability, or with one that is no capability's own.
CapabilitiesAreSeparate ==
  last.touched # {} /\ settings.mode = "oidc_jwt" =>
    \E s \in last.credential.scopes :
      \/ s = settings.own[CapabilityOf(last.route)]
      \/ s = EffectiveFull /\ \A c \in Capabilities : settings.own[c] # s

\* A credential of the mode, and one of the scopes the operator set for the route.
Entitled(route, credential) ==
  /\ settings.enabled
  /\ IF settings.mode = "shared_token" THEN credential.kind = "shared"
     ELSE {settings.own[CapabilityOf(route)], EffectiveFull} \cap credential.scopes # {}

\* A request without the capability learns nothing of what is stored: it uses
\* no store and no upstream, and 404 means that all management is off
\* (require_management_capability before every handler).
OutsidersLearnNothing ==
  last.route # None /\ ~Entitled(last.route, last.credential) =>
    /\ last.touched = {}
    /\ last.status = "not_found_404" => ~settings.enabled

\* README.md:474: GitHub is asked to redeliver only with evidence on record of
\* the capability, and of the very scope that the principal held: the
\* fine-grained one if it held both, none for the shared token.
EvidenceIsExact ==
  /\ "github_write" \in last.touched => last.row # NoRow
  /\ last.row # NoRow =>
       /\ last.row.capability = "recovery.execute"
       /\ last.row.principal = (last.credential.kind = "jwt")
       /\ last.credential.kind = "jwt" =>
            /\ last.row.scope \in last.credential.scopes
            /\ settings.own["recovery.execute"] \in last.credential.scopes =>
                 last.row.scope = settings.own["recovery.execute"]
       /\ last.credential.kind = "shared" => last.row.scope = None
=============================================================================
