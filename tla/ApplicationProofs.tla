------------------------- MODULE ApplicationProofs -------------------------
(***************************************************************************)
(* Proofs about Application, for any scope values, any set of settings and *)
(* whatever the caller of create_app passes in, and about the one part of  *)
(* the HTTP application that it leaves out: WebhookAdmission, for bodies   *)
(* and tables of any size.                                                 *)
(***************************************************************************)
EXTENDS Application, WebhookAdmission, FiniteSetTheorems, SequenceTheorems, TLAPS

-----------------------------------------------------------------------------
(* Settings.                                                               *)

LEMMA SettingsType ==
  ASSUME settings \in Configurations
  PROVE  /\ settings.own \in [Capabilities -> Scopes]
         /\ settings.full \in Scopes \cup {None} /\ settings.required \in Scopes \cup {None}
         /\ settings.mode \in {"shared_token", "oidc_jwt"}
         /\ settings.enabled \in BOOLEAN
  BY ConstantsAssumption DEF Settings

LEMMA AtMostThree ==
  ASSUME NEW a, NEW b, NEW c
  PROVE  Cardinality({a, b, c}) # 4
<1>1. IsFiniteSet({}) /\ Cardinality({}) = 0
  BY FS_EmptySet
<1>2. IsFiniteSet({a}) /\ Cardinality({a}) = 1
  BY FS_Singleton
<1>3. /\ IsFiniteSet({a} \cup {b}) /\ Cardinality({a} \cup {b}) \in 1 .. 2
  BY <1>2, FS_AddElement
<1>4. Cardinality(({a} \cup {b}) \cup {c}) \in 1 .. 3
  BY <1>3, FS_AddElement
<1>5. {a, b, c} = ({a} \cup {b}) \cup {c}
  OBVIOUS
<1> QED
  BY <1>4, <1>5

\* Four different scopes: the full one is no capability's own.
LEMMA FullIsNobodysOwn ==
  ASSUME ScopesAccepted, NEW c \in Capabilities
  PROVE  settings.own[c] # EffectiveFull
<1> SUFFICES ASSUME settings.own[c] = EffectiveFull PROVE FALSE
  OBVIOUS
<1> DEFINE own == settings.own
           Own == {own[d] : d \in Capabilities}
<1>1. Cardinality({EffectiveFull} \cup Own) = 4
  BY DEF ScopesAccepted
<1>2. Own = {own["diagnostics.read"], own["recovery.read"], own["recovery.execute"]}
  BY DEF Capabilities
<1>3. EffectiveFull \in Own
  OBVIOUS
<1> HIDE DEF own, Own
<1>4. {EffectiveFull} \cup Own = Own
  BY <1>3
<1>5. Cardinality(Own) # 4
  BY <1>2, AtMostThree
<1> QED
  BY <1>1, <1>4, <1>5

LEMMA FullInForce ==
  ASSUME settings \in Configurations
  PROVE  /\ FullSetting \in Scopes /\ EffectiveFull \in Scopes
         /\ Oidc /\ ManagementAccepted => ScopesAccepted /\ EffectiveFull \in Words
<1>1. FullSetting \in Scopes /\ EffectiveFull \in Scopes
  BY SettingsType, ConstantsAssumption DEF FullSetting, EffectiveFull, Scopes
<1>2. Oidc /\ ManagementAccepted => ScopesAccepted
  BY DEF Oidc, ManagementAccepted
<1>3. ScopesAccepted => EffectiveFull \in Words
  BY <1>1 DEF ScopesAccepted, Scopes
<1> QED
  BY <1>1, <1>2, <1>3

-----------------------------------------------------------------------------
(* The invariant.                                                          *)

\* What the program runs with has been accepted.
AcceptedOK ==
  /\ TypeOK
  /\ phase # "broken"
  /\ phase = "running" => ManagementAccepted /\ GitHubAccepted
  /\ phase = "running" /\ Oidc => full = EffectiveFull

\* What is under way uses what is switched on, while the program serves.
RequestOK ==
  last # NoRequest =>
    /\ stage = "serving"
    /\ last.status # "internal_error_500"
    /\ "github" \in last.touched => settings.reconciliation
    /\ "github_write" \in last.touched => settings.redelivery

\* What is owned and open is still to be closed, in the order of the code.
LifeOK ==
  /\ Life!TypeOK
  /\ injected \subseteq open
  /\ stage \in {"checking", "serving"} => Needed \subseteq open
  /\ todo \subseteq Life!Owned
  /\ stage # "closing" => todo = {}
  /\ stage = "closing" => open \cap Life!Owned \subseteq todo
  /\ Life!OwnedAreReleased

Answers == CapabilitiesAreSeparate /\ OutsidersLearnNothing /\ EvidenceIsExact

Inv == AcceptedOK /\ RequestOK /\ LifeOK /\ Answers

LEMMA NobodyAsked == last = NoRequest => Answers
  BY DEF Answers, NoRequest, CapabilitiesAreSeparate, OutsidersLearnNothing, EvidenceIsExact

LEMMA InitInv == AppInit => Inv
<1> SUFFICES ASSUME AppInit PROVE Inv
  OBVIOUS
<1>1. /\ settings \in Configurations /\ phase = "starting" /\ full = None /\ last = NoRequest
      /\ injected \in SUBSET Life!Resources /\ stage = "building" /\ open = injected
      /\ todo = {} /\ raised = "none"
  BY DEF AppInit, Init, Life!Init
<1>2. NoRequest.route = None /\ NoRequest.credential \in Credentials
  BY DEF NoRequest, Credentials
<1>3. AcceptedOK
  BY <1>1, <1>2 DEF AcceptedOK, TypeOK
<1>4. LifeOK
  <2>1. Needed \subseteq Life!Resources
    BY DEF Needed, Life!Resources, Life!Order
  <2> QED
    BY <1>1, <2>1 DEF LifeOK, Life!TypeOK, Life!OwnedAreReleased, Life!Owned
<1> QED
  BY <1>1, <1>3, <1>4, NobodyAsked DEF Inv, RequestOK

-----------------------------------------------------------------------------
(* The settings are accepted or refused.                                   *)

\* Validation leaves nothing to be missed by create_app.
LEMMA AcceptedBuilds == ManagementAccepted /\ GitHubAccepted => Builds
  BY DEF ManagementAccepted, GitHubAccepted, Builds

LEMMA StartKeeps == ASSUME AcceptedOK, Start PROVE AcceptedOK'
<1>1. settings \in Configurations /\ UNCHANGED <<settings, last>>
  BY DEF AcceptedOK, TypeOK, Start
<1>2. CASE ManagementAccepted /\ GitHubAccepted
  <2>1. /\ phase' = "running"
        /\ full' = IF Oidc THEN EffectiveFull ELSE FullSetting
    BY <1>2, AcceptedBuilds DEF Start, Oidc
  <2>2. full' \in Scopes /\ (Oidc => full' = EffectiveFull /\ full' \in Words)
    BY <1>1, <1>2, <2>1, FullInForce
  <2>3. ManagementAccepted' /\ GitHubAccepted' /\ Oidc' = Oidc /\ EffectiveFull' = EffectiveFull
    BY <1>1, <1>2 DEF ManagementAccepted, GitHubAccepted, Oidc, EffectiveFull, FullSetting,
       AliasAccepted, ScopesAccepted
  <2>4. TypeOK'
    BY <1>1, <2>1, <2>2 DEF AcceptedOK, TypeOK, Oidc
  <2> QED
    BY <2>1, <2>2, <2>3, <2>4 DEF AcceptedOK
<1>3. CASE ~(ManagementAccepted /\ GitHubAccepted)
  <2>1. phase' = "refused" /\ full' = full
    BY <1>3 DEF Start
  <2> QED
    BY <1>1, <2>1 DEF AcceptedOK, TypeOK
<1> QED
  BY <1>2, <1>3

\* The settings and what they were found to be stay.
LEMMA AcceptedStays ==
  ASSUME AcceptedOK, UNCHANGED <<settings, phase, full>>,
         last'.route \in Routes \cup {None}, last'.credential \in Credentials
  PROVE  AcceptedOK'
<1>1. TypeOK'
  BY DEF AcceptedOK, TypeOK
<1>2. /\ ManagementAccepted' = ManagementAccepted /\ GitHubAccepted' = GitHubAccepted
      /\ Oidc' = Oidc /\ EffectiveFull' = EffectiveFull
  BY DEF ManagementAccepted, GitHubAccepted, Oidc, EffectiveFull, FullSetting,
     AliasAccepted, ScopesAccepted
<1> QED
  BY <1>1, <1>2 DEF AcceptedOK

-----------------------------------------------------------------------------
(* Requests.                                                               *)

\* Who is refused is told so, and nothing else happens.
LEMMA RefusedLearnsNothing ==
  ASSUME NEW route \in Routes, NEW credential \in Credentials, NEW reachable \in BOOLEAN,
         UNCHANGED settings, Refused(route, credential, reachable)
  PROVE  /\ Answers'
         /\ last'.route = route /\ last'.credential = credential
         /\ last'.touched = {} /\ last'.status # "internal_error_500"
<1>1. PICK status \in {"not_found_404", "unauthorized_401", "unavailable_503", "forbidden_403"} :
        /\ last' = [route |-> route, credential |-> credential, status |-> status,
                    touched |-> {}, row |-> NoRow]
        /\ status = "not_found_404" => ~settings.enabled
  BY DEF Refused, Reply
<1>2. /\ last'.route = route /\ last'.credential = credential /\ last'.status = status
      /\ last'.touched = {} /\ last'.row = NoRow
  BY <1>1
<1>3. Answers'
  BY <1>1, <1>2 DEF Answers, CapabilitiesAreSeparate, OutsidersLearnNothing, EvidenceIsExact
<1> QED
  BY <1>1, <1>2, <1>3

\* What an OIDC token is let through with: the capability's own scope, or the
\* full one, which is another.
LEMMA MatchedIsEntitled ==
  ASSUME AcceptedOK, phase = "running", settings.enabled, settings.mode = "oidc_jwt",
         NEW capability \in Capabilities, NEW credential \in Credentials,
         MatchedScope(capability, credential) # None
  PROVE  /\ MatchedScope(capability, credential) \in credential.scopes
         /\ settings.own[capability] \in credential.scopes =>
              MatchedScope(capability, credential) = settings.own[capability]
         /\ \/ MatchedScope(capability, credential) = settings.own[capability]
            \/ /\ MatchedScope(capability, credential) = EffectiveFull
               /\ \A c \in Capabilities : settings.own[c] # EffectiveFull
<1>1. Oidc /\ full = EffectiveFull /\ ScopesAccepted
  BY FullInForce DEF AcceptedOK, TypeOK, Oidc
<1>2. \A c \in Capabilities : settings.own[c] # EffectiveFull
  BY <1>1, FullIsNobodysOwn
<1> QED
  BY <1>1, <1>2 DEF MatchedScope

LEMMA ServedIsEntitled ==
  ASSUME AcceptedOK, phase = "running", UNCHANGED settings,
         NEW route \in Routes, NEW credential \in Credentials, NEW reachable \in BOOLEAN,
         NEW lookup \in Lookups(route),
         Admitted(route, credential, reachable), Serve(route, credential, lookup)
  PROVE  /\ Answers'
         /\ last'.route = route /\ last'.credential = credential
         /\ last'.status # "internal_error_500"
         /\ "github" \in last'.touched => settings.reconciliation
         /\ "github_write" \in last'.touched => settings.redelivery
<1> DEFINE capability == CapabilityOf(route)
           matched == MatchedScope(capability, credential)
           touched == IF SwitchedOff(route) THEN {} ELSE Uses(route, lookup)
           row == IF route = "redeliver" /\ Outcome(route, lookup) = "served"
                  THEN EvidenceOf(route, credential) ELSE NoRow
<1>1. /\ last'.route = route /\ last'.credential = credential
      /\ last'.status = Outcome(route, lookup) /\ last'.touched = touched /\ last'.row = row
  BY DEF Serve, Reply
<1>2. /\ settings.enabled /\ settings.mode \in {"shared_token", "oidc_jwt"}
      /\ credential.kind = IF settings.mode = "shared_token" THEN "shared" ELSE "jwt"
      /\ settings.mode = "oidc_jwt" => matched # None
      /\ settings.redelivery => settings.reconciliation
  BY SettingsType DEF Admitted, Authentic, Authorized, AcceptedOK, TypeOK, GitHubAccepted
<1>3. capability \in Capabilities /\ (route = "redeliver" => capability = "recovery.execute")
  BY DEF CapabilityOf, Capabilities
<1>4. settings.mode = "oidc_jwt" =>
        /\ matched \in credential.scopes
        /\ settings.own[capability] \in credential.scopes => matched = settings.own[capability]
        /\ \/ matched = settings.own[capability]
           \/ matched = EffectiveFull /\ \A c \in Capabilities : settings.own[c] # EffectiveFull
  <2> HIDE DEF capability
  <2> SUFFICES ASSUME settings.mode = "oidc_jwt"
               PROVE  /\ matched \in credential.scopes
                      /\ settings.own[capability] \in credential.scopes =>
                           matched = settings.own[capability]
                      /\ \/ matched = settings.own[capability]
                         \/ /\ matched = EffectiveFull
                            /\ \A c \in Capabilities : settings.own[c] # EffectiveFull
    OBVIOUS
  <2>1. settings.enabled /\ matched # None /\ capability \in Capabilities
    BY <1>2, <1>3
  <2> QED
    BY <2>1, MatchedIsEntitled
<1>5. Outcome(route, lookup) # "internal_error_500"
  <2>1. settings.redelivery => settings.reconciliation
    BY <1>2
  <2>2. ~SwitchedOff(route) /\ route = "redeliver" => settings.reconciliation
    BY <2>1 DEF SwitchedOff
  <2> QED
    BY <2>2 DEF Outcome
<1>6. /\ "github" \in touched => settings.reconciliation
      /\ "github_write" \in touched =>
           settings.redelivery /\ route = "redeliver" /\ Outcome(route, lookup) = "served"
  BY <1>2 DEF Uses, SwitchedOff, Outcome
<1>7. EffectiveFull' = EffectiveFull /\ CapabilityOf(last'.route) = capability
  BY <1>1 DEF EffectiveFull, FullSetting
<1>8. row # NoRow => row = EvidenceOf(route, credential) /\ route = "redeliver"
  OBVIOUS
<1>9. /\ EvidenceOf(route, credential).capability = capability
      /\ EvidenceOf(route, credential).scope =
           IF settings.mode = "shared_token" THEN None ELSE matched
      /\ EvidenceOf(route, credential).principal = (settings.mode = "oidc_jwt")
  BY DEF EvidenceOf
<1>10. NoRow.capability = None /\ None # "recovery.execute"
  BY DEF NoRow, None
<1>11. "github_write" \in touched => row # NoRow
  BY <1>3, <1>6, <1>9, <1>10
<1> HIDE DEF matched, touched, row, capability
<1>12. CapabilitiesAreSeparate'
  BY <1>1, <1>4, <1>7 DEF CapabilitiesAreSeparate
<1>13. Entitled(route, credential)
  BY <1>2, <1>4 DEF Entitled, capability
<1>14. OutsidersLearnNothing'
  BY <1>1, <1>13 DEF OutsidersLearnNothing, Entitled, EffectiveFull, FullSetting
<1>15. EvidenceIsExact'
  BY <1>1, <1>2, <1>3, <1>4, <1>8, <1>9, <1>11 DEF EvidenceIsExact
<1> QED
  BY <1>1, <1>5, <1>6, <1>12, <1>14, <1>15 DEF Answers

-----------------------------------------------------------------------------
(* The lifespan.                                                           *)

LEMMA ResourcesInOrder ==
  /\ Needed \subseteq Life!Resources
  /\ \A i \in 1 .. 4 : Life!Order[i] \in Life!Resources
  /\ "none" \notin Life!Resources
<1>1. Needed \subseteq Life!Resources /\ "none" \notin Life!Resources
  BY DEF Needed, Life!Resources, Life!Order
<1>2. \A i \in 1 .. 4 : Life!Order[i] \in Life!Resources
  BY DEF Life!Resources
<1> QED
  BY <1>1, <1>2

LEMMA NeededStays == UNCHANGED settings => Needed' = Needed
  BY DEF Needed, Oidc

\* While nobody closes anything, what is needed is open.
LEMMA LifeStays ==
  ASSUME LifeOK, UNCHANGED <<settings, lifeVars>>
  PROVE  LifeOK'
<1>1. Needed' = Needed /\ UNCHANGED <<injected, stage, open, todo, raised>>
  BY NeededStays DEF lifeVars
<1>2. Life!Owned' = Life!Owned
  BY <1>1 DEF Life!Owned
<1>3. Life!TypeOK' /\ Life!OwnedAreReleased'
  BY <1>1, <1>2 DEF LifeOK, Life!TypeOK, Life!OwnedAreReleased
<1> QED
  BY <1>1, <1>2, <1>3 DEF LifeOK

LEMMA BuildKeeps ==
  ASSUME LifeOK, UNCHANGED settings, Life!Build
  PROVE  LifeOK'
<1>1. /\ stage = "building" /\ open' = open \cup Life!Owned /\ stage' = "checking"
      /\ UNCHANGED <<Needed, injected, todo, raised>>
  BY NeededStays DEF Life!Build
<1>2. Life!Owned' = Life!Owned /\ Life!Owned \subseteq Needed /\ Needed \subseteq open'
      /\ injected \subseteq open' /\ open' \subseteq Life!Resources
  BY <1>1, ResourcesInOrder DEF Life!Owned, LifeOK, Life!TypeOK
<1>3. Life!TypeOK' /\ Life!OwnedAreReleased'
  BY <1>1, <1>2 DEF LifeOK, Life!TypeOK, Life!OwnedAreReleased
<1> QED
  BY <1>1, <1>2, <1>3 DEF LifeOK

\* The check, or the end of serving: nothing is closed yet.
LEMMA CloseKeeps ==
  ASSUME LifeOK, UNCHANGED <<settings, injected, open, raised>>,
         stage \in {"checking", "serving"},
         \/ stage' = "serving" /\ UNCHANGED todo
         \/ Life!Close
  PROVE  LifeOK'
<1>1. Needed' = Needed /\ Life!Owned' = Life!Owned /\ Life!Owned \subseteq Life!Resources
  BY NeededStays, ResourcesInOrder DEF Life!Owned
<1>2. CASE stage' = "serving" /\ UNCHANGED todo
  BY <1>1, <1>2 DEF LifeOK, Life!TypeOK, Life!OwnedAreReleased
<1>3. CASE Life!Close
  <2>1. stage' = "closing" /\ todo' = Life!Owned
    BY <1>3 DEF Life!Close
  <2>2. Life!TypeOK' /\ Life!OwnedAreReleased'
    BY <1>1, <2>1 DEF LifeOK, Life!TypeOK, Life!OwnedAreReleased
  <2> QED
    BY <1>1, <2>1, <2>2 DEF LifeOK
<1> QED
  BY <1>2, <1>3

LEMMA CloseFirstKeeps ==
  ASSUME LifeOK, UNCHANGED settings, Life!CloseNext
  PROVE  LifeOK'
<1> DEFINE Owned == Life!Owned
           Order == Life!Order
<1>1. /\ stage = "closing" /\ UNCHANGED <<Needed, injected>> /\ Life!CloseFirst
      /\ Life!Owned' = Owned
  BY NeededStays DEF Life!CloseNext, Life!Owned
<1>2. PICK i \in 1 .. 4 :
        /\ Order[i] \in todo /\ \A j \in 1 .. i - 1 : Order[j] \notin todo
        /\ \/ /\ open' = open \ {Order[i]} /\ todo' = todo \ {Order[i]}
              /\ UNCHANGED <<stage, raised>>
           \/ /\ raised' = Order[i] /\ todo' = {} /\ stage' = "stopped" /\ open' = open
  BY <1>1 DEF Life!CloseFirst
<1>3. /\ Life!TypeOK /\ injected \subseteq open /\ todo \subseteq Owned
      /\ open \cap Owned \subseteq todo /\ Owned \cap injected = {}
      /\ Order[i] \in Life!Resources
  BY <1>1, ResourcesInOrder DEF LifeOK, Life!Owned
<1> HIDE DEF Owned, Order
<1>4. CASE /\ open' = open \ {Order[i]} /\ todo' = todo \ {Order[i]}
           /\ UNCHANGED <<stage, raised>>
  <2>1. /\ injected' \subseteq open' /\ todo' \subseteq Owned /\ open' \cap Owned \subseteq todo'
        /\ stage' = "closing"
    BY <1>1, <1>2, <1>3, <1>4
  <2>2. Life!TypeOK' /\ Life!OwnedAreReleased'
    BY <1>1, <1>3, <1>4, <2>1 DEF Life!TypeOK, Life!OwnedAreReleased
  <2> QED
    BY <1>1, <2>1, <2>2 DEF LifeOK, Owned
<1>5. CASE raised' = Order[i] /\ todo' = {} /\ stage' = "stopped" /\ open' = open
  <2>1. ASSUME NEW k \in 1 .. 4, Order[k] \in Owned, Order[k] \in open
        PROVE  \E j \in 1 .. k : raised' = Order[j]
    <3>1. Order[k] \in todo
      BY <1>3, <2>1
    <3>2. k \notin 1 .. i - 1
      BY <1>2, <3>1
    <3>3. i \in 1 .. k
      BY <3>2
    <3> QED
      BY <1>5, <3>3
  <2>2. Life!OwnedAreReleased'
    BY <1>1, <1>5, <2>1 DEF Life!OwnedAreReleased, Owned, Order
  <2>3. Life!TypeOK'
    BY <1>1, <1>3, <1>5 DEF Life!TypeOK
  <2> QED
    BY <1>1, <1>3, <1>5, <2>2, <2>3 DEF LifeOK
<1> QED
  BY <1>2, <1>4, <1>5

LEMMA ClosedKeeps ==
  ASSUME LifeOK, UNCHANGED settings, Life!Closed
  PROVE  LifeOK'
<1>1. /\ stage = "closing" /\ todo = {} /\ stage' = "stopped"
      /\ UNCHANGED <<Needed, injected, open, todo, raised>>
  BY NeededStays DEF Life!Closed
<1>2. Life!Owned' = Life!Owned /\ open \cap Life!Owned = {}
  BY <1>1 DEF Life!Owned, LifeOK
<1>3. Life!TypeOK' /\ Life!OwnedAreReleased'
  BY <1>1, <1>2 DEF LifeOK, Life!TypeOK, Life!OwnedAreReleased
<1> QED
  BY <1>1, <1>2, <1>3 DEF LifeOK

-----------------------------------------------------------------------------
(* The theorems.                                                           *)

LEMMA AnswersStay == ASSUME Answers, UNCHANGED <<settings, last>> PROVE Answers'
  BY DEF Answers, CapabilitiesAreSeparate, OutsidersLearnNothing, EvidenceIsExact, Entitled,
     EffectiveFull, FullSetting

LEMMA CreateKeepsInv == ASSUME Inv, Create PROVE Inv'
<1>1. /\ Start /\ UNCHANGED <<settings, last>>
      /\ Life!Build \/ UNCHANGED lifeVars
  BY DEF Create, Start
<1>2. AcceptedOK' /\ Answers'
  BY <1>1, StartKeeps, AnswersStay DEF Inv
<1>3. LifeOK'
  BY <1>1, BuildKeeps, LifeStays DEF Inv
<1>4. RequestOK'
  BY <1>1 DEF Inv, RequestOK, Life!Build, lifeVars
<1> QED
  BY <1>2, <1>3, <1>4 DEF Inv

LEMMA BeginKeepsInv == ASSUME Inv, BeginRequest PROVE Inv'
<1>1. PICK route \in Routes, credential \in Credentials, reachable \in BOOLEAN :
        \E lookup \in Lookups(route) : Handle(route, credential, reachable, lookup) /\ Life!Request
  BY DEF BeginRequest
<1>2. PICK lookup \in Lookups(route) :
        Handle(route, credential, reachable, lookup) /\ Life!Request
  BY <1>1
<1>3. /\ phase = "running" /\ UNCHANGED <<settings, phase, full>>
      /\ \/ Refused(route, credential, reachable)
         \/ Admitted(route, credential, reachable) /\ Serve(route, credential, lookup)
  BY <1>2 DEF Handle
<1>4. stage = "serving" /\ UNCHANGED lifeVars
  BY <1>2 DEF Life!Request, lifeVars
<1>5. /\ Answers'
      /\ last'.route = route /\ last'.credential = credential
      /\ last'.status # "internal_error_500"
      /\ "github" \in last'.touched => settings.reconciliation
      /\ "github_write" \in last'.touched => settings.redelivery
  <2>1. CASE Refused(route, credential, reachable)
    BY <1>3, <2>1, RefusedLearnsNothing
  <2>2. CASE Admitted(route, credential, reachable) /\ Serve(route, credential, lookup)
    BY <1>3, <2>2, ServedIsEntitled DEF Inv
  <2> QED
    BY <1>3, <2>1, <2>2
<1>6. AcceptedOK'
  BY <1>3, <1>5, AcceptedStays DEF Inv
<1>7. LifeOK'
  BY <1>3, <1>4, LifeStays DEF Inv
<1>8. RequestOK'
  BY <1>3, <1>4, <1>5 DEF RequestOK, lifeVars
<1> QED
  BY <1>5, <1>6, <1>7, <1>8 DEF Inv

LEMMA EndKeepsInv == ASSUME Inv, EndRequest PROVE Inv'
<1>1. last' = NoRequest /\ UNCHANGED <<settings, phase, full>> /\ UNCHANGED lifeVars
  BY DEF EndRequest, Forget, Life!Answer, lifeVars
<1>2. NoRequest.route = None /\ NoRequest.credential \in Credentials
  BY DEF NoRequest, Credentials
<1>3. AcceptedOK' /\ LifeOK'
  BY <1>1, <1>2, AcceptedStays, LifeStays DEF Inv
<1>4. Answers'
  BY <1>1 DEF Answers, NoRequest, CapabilitiesAreSeparate, OutsidersLearnNothing, EvidenceIsExact
<1> QED
  BY <1>1, <1>3, <1>4 DEF Inv, RequestOK

LEMMA LifespanKeepsInv == ASSUME Inv, LifespanStep PROVE Inv'
<1>1. UNCHANGED <<settings, phase, full, last>>
  BY DEF LifespanStep, vars
<1>2. AcceptedOK' /\ Answers'
  <2>1. last.route \in Routes \cup {None} /\ last.credential \in Credentials
    BY DEF Inv, AcceptedOK, TypeOK
  <2> QED
    BY <1>1, <2>1, AcceptedStays, AnswersStay DEF Inv
<1>3. CASE Life!Check
  <2>1. /\ stage = "checking" /\ UNCHANGED <<injected, open, raised>>
        /\ \/ stage' = "serving" /\ UNCHANGED todo
           \/ Life!Close
    BY <1>3 DEF Life!Check
  <2> QED
    BY <1>1, <1>2, <2>1, CloseKeeps DEF Inv, RequestOK
<1>4. CASE Life!Shutdown
  <2>1. /\ stage = "serving" /\ UNCHANGED <<injected, open, raised>> /\ Life!Close
        /\ last = NoRequest
    BY <1>4 DEF Life!Shutdown
  <2> QED
    BY <1>1, <1>2, <2>1, CloseKeeps DEF Inv, RequestOK
<1>5. CASE Life!CloseNext
  <2>1. stage = "closing"
    BY <1>5 DEF Life!CloseNext
  <2> QED
    BY <1>1, <1>2, <1>5, <2>1, CloseFirstKeeps DEF Inv, RequestOK
<1>6. CASE Life!Closed
  <2>1. stage = "closing"
    BY <1>6 DEF Life!Closed
  <2> QED
    BY <1>1, <1>2, <1>6, <2>1, ClosedKeeps DEF Inv, RequestOK
<1> QED
  BY <1>3, <1>4, <1>5, <1>6 DEF LifespanStep

LEMMA StepInv == Inv /\ [AppNext]_<<vars, lifeVars>> => Inv'
<1> SUFFICES ASSUME Inv, [AppNext]_<<vars, lifeVars>> PROVE Inv'
  OBVIOUS
<1>1. CASE UNCHANGED <<vars, lifeVars>>
  <2>1. UNCHANGED <<settings, phase, full, last>> /\ UNCHANGED lifeVars
    BY <1>1 DEF vars
  <2>2. last.route \in Routes \cup {None} /\ last.credential \in Credentials
    BY DEF Inv, AcceptedOK, TypeOK
  <2>3. AcceptedOK' /\ LifeOK' /\ Answers'
    BY <2>1, <2>2, AcceptedStays, LifeStays, AnswersStay DEF Inv
  <2> QED
    BY <2>1, <2>3 DEF Inv, RequestOK, lifeVars
<1> QED
  BY <1>1, CreateKeepsInv, BeginKeepsInv, EndKeepsInv, LifespanKeepsInv DEF AppNext

LEMMA Invariance == AppSpec => []Inv
<1> QED
  BY InitInv, StepInv, PTL DEF AppSpec

\* README.md:265: whatever scopes are configured and aliased, a token opens
\* nothing with the scope of another capability.
THEOREM ScopesAreSeparate == AppSpec => []CapabilitiesAreSeparate
<1>1. Inv => CapabilitiesAreSeparate
  BY DEF Inv, Answers
<1> QED
  BY <1>1, Invariance, PTL

\* README.md:474: a redelivery is asked for with evidence on record of the very
\* scope that the principal held for it.
THEOREM EvidenceIsOnRecord == AppSpec => []EvidenceIsExact
<1>1. Inv => EvidenceIsExact
  BY DEF Inv, Answers
<1> QED
  BY <1>1, Invariance, PTL

\* A request without the capability of its route uses no store and no upstream
\* and learns nothing of what is stored.
THEOREM OutsidersStayOutside == AppSpec => []OutsidersLearnNothing
<1>1. Inv => OutsidersLearnNothing
  BY DEF Inv, Answers
<1> QED
  BY <1>1, Invariance, PTL

\* Settings that validation accepts are complete: the app is built, no request
\* ends in an internal error, and each finds what it works with built and open.
THEOREM AcceptedSettingsDoWork == AppSpec => []AcceptedSettingsWork
<1>1. Inv => AcceptedSettingsWork
  <2> SUFFICES ASSUME Inv, last # NoRequest PROVE WorksWith \subseteq open
    BY DEF Inv, AcceptedOK, RequestOK, AcceptedSettingsWork
  <2>1. /\ Needed \subseteq open
        /\ "github" \in last.touched => settings.reconciliation
        /\ "github_write" \in last.touched => settings.redelivery
    BY DEF Inv, RequestOK, LifeOK
  <2>2. WorksWith \subseteq Needed
    BY <2>1 DEF WorksWith, Needed, Life!Resources, Life!Order
  <2> QED
    BY <2>1, <2>2
<1> QED
  BY <1>1, Invariance, PTL

\* When the lifespan is over nothing it built is open, also after a failed check,
\* but what a failing close left; what the caller passed in is never closed.
THEOREM OwnedAreClosed == AppSpec => []OwnedAreReleased
<1>1. Inv => OwnedAreReleased
  BY DEF Inv, AcceptedOK, LifeOK, OwnedAreReleased, AppTypeOK, Life!InjectedStayOpen
<1> QED
  BY <1>1, Invariance, PTL
-----------------------------------------------------------------------------
(* Webhooks. The application's open route shares no state with the others.  *)

\* Past the headers, only a request whose headers passed.
HeadPassed == pc # "idle" => IsPositive(head.hook) /\ TargetValid(head)

\* What an answer gives away, which depends on what it was an answer to.
AnswerOK ==
  /\ SignatureComesFirst
  /\ ChecksCoverConstraints
  /\ ListsAreServed

BodyOK ==
  /\ total \in Nat /\ held = total /\ total <= MaxBody
  /\ pc \in {"idle", "reading", "ingesting"}
  /\ head \in Heads
  /\ HeadPassed

\* What the tables hold is text, so that a list can be encoded.
StoreOK ==
  /\ backend \in Backends
  /\ store \in Seq(Attempts)
  /\ backend = "postgresql" =>
       \A i \in 1 .. Len(store) : store[i].hook = "fits" /\ store[i].facts = "text"
  /\ backend = "memory" => Len(store) <= MaxEvents

WebhookInv == BodyOK /\ StoreOK /\ answer.status \in Statuses /\ AnswerOK

LEMMA WebhookInitInv == WebhookInit => WebhookInv
<1> SUFFICES ASSUME WebhookInit PROVE WebhookInv
  OBVIOUS
<1>1. /\ backend \in Backends /\ pc = "idle" /\ total = 0 /\ held = 0 /\ store = << >>
      /\ head = NoHead /\ answer = NoAnswer
  BY DEF WebhookInit
<1>2. NoHead \in Heads
  BY DEF NoHead, Heads, Numbers, Texts, Lengths,
     Absent
<1>3. answer.status = "none" /\ answer.head = NoHead
  BY <1>1 DEF NoAnswer
<1>4. BodyOK
  BY <1>1, <1>2, WebhookConstants DEF BodyOK, HeadPassed
<1>5. StoreOK
  BY <1>1, WebhookConstants DEF StoreOK
<1>6. answer.status \in Statuses /\ AnswerOK
  BY <1>3 DEF AnswerOK, Statuses, SignatureComesFirst,
     ChecksCoverConstraints, ListsAreServed
<1> QED
  BY <1>4, <1>5, <1>6 DEF WebhookInv

\* An answer that ends the request, before the body or without one.
LEMMA RefusedOK ==
  ASSUME WebhookInv, UNCHANGED <<backend, store>>,
         NEW status \in Statuses, backend = "postgresql" => status # "internal_500",
         Answer(Refusal(status))
  PROVE  WebhookInv'
<1>1. /\ pc' = "idle" /\ head' = NoHead /\ total' = 0 /\ held' = 0
      /\ answer' = Refusal(status)
  BY DEF Answer
<1>2. NoHead \in Heads
  BY DEF NoHead, Heads, Numbers, Texts, Lengths,
     Absent
<1>3. answer'.status = status /\ answer'.head = NoHead
  BY <1>1 DEF NoAnswer, Refusal
<1>4. BodyOK'
  BY <1>1, <1>2, WebhookConstants DEF BodyOK, HeadPassed
<1>5. StoreOK'
  BY DEF WebhookInv, StoreOK
<1>6. answer'.status \in Statuses /\ AnswerOK'
  BY <1>3 DEF AnswerOK, SignatureComesFirst, ChecksCoverConstraints,
     ListsAreServed
<1> QED
  BY <1>4, <1>5, <1>6 DEF WebhookInv

LEMMA ReceivedOK ==
  ASSUME WebhookInv, NEW json \in BOOLEAN, NEW named \in BOOLEAN,
         NEW h \in Heads, Receive(json, named, h)
  PROVE  WebhookInv'
<1>1. UNCHANGED <<backend, store>>
  BY DEF Receive
<1>2. CASE HeadStatus(json, named, h) # "none"
  <2>1. Answer(Refusal(HeadStatus(json, named, h)))
    BY <1>2 DEF Receive
  <2>2. HeadStatus(json, named, h) \in
          {"media_type_415", "invalid_400", "too_large_413"}
    BY <1>2 DEF HeadStatus
  <2> DEFINE status == HeadStatus(json, named, h)
  <2>3. status \in Statuses /\ status # "internal_500"
    BY <2>2 DEF Statuses
  <2> HIDE DEF status
  <2> QED
    BY <1>1, <2>1, <2>3, RefusedOK DEF status
<1>3. CASE HeadStatus(json, named, h) = "none"
  <2>1. /\ pc' = "reading" /\ head' = h /\ answer' = NoAnswer
        /\ UNCHANGED <<total, held>>
    BY <1>3 DEF Receive
  <2>2. IsPositive(h.hook) /\ TargetValid(h)
    BY <1>3 DEF HeadStatus
  <2>3. answer'.status = "none" /\ answer'.head = NoHead
    BY <2>1 DEF NoAnswer
  <2>4. BodyOK'
    BY <2>1, <2>2 DEF WebhookInv, BodyOK, HeadPassed
  <2>5. StoreOK'
    BY <1>1 DEF WebhookInv, StoreOK
  <2>6. answer'.status \in Statuses /\ AnswerOK'
    BY <2>3 DEF AnswerOK, Statuses, SignatureComesFirst,
       ChecksCoverConstraints, ListsAreServed
  <2> QED
    BY <2>4, <2>5, <2>6 DEF WebhookInv
<1> QED
  BY <1>2, <1>3

\* The limit counts the chunk that came.
LEMMA ChunkOK ==
  ASSUME WebhookInv, NEW n \in 1 .. MaxChunk, Chunk(n)
  PROVE  WebhookInv'
<1>1. UNCHANGED <<backend, store>> /\ pc = "reading"
  BY DEF Chunk
<1>2. CASE Fits(n)
  <2>1. total' = total + n /\ held' = held + n /\ UNCHANGED <<pc, head, answer>>
    BY <1>2 DEF Chunk
  <2>2. total + n <= MaxBody
    BY <1>2 DEF Fits
  <2>3. BodyOK'
    BY <2>1, <2>2, WebhookConstants DEF WebhookInv, BodyOK, HeadPassed
  <2> QED
    BY <1>1, <2>1, <2>3 DEF WebhookInv, StoreOK, AnswerOK, SignatureComesFirst,
       ChecksCoverConstraints, ListsAreServed
<1>3. CASE ~Fits(n)
  BY <1>1, <1>3, RefusedOK DEF Chunk, Statuses
<1> QED
  BY <1>2, <1>3

LEMMA EndedOK ==
  ASSUME WebhookInv, BodyEnds \/ Disconnect
  PROVE  WebhookInv'
<1>1. CASE BodyEnds
  <2>1. pc = "reading" /\ pc' = "ingesting" /\ UNCHANGED <<backend, head, total, held, store, answer>>
    BY <1>1 DEF BodyEnds
  <2>2. BodyOK'
    BY <2>1 DEF WebhookInv, BodyOK, HeadPassed
  <2> QED
    BY <2>1, <2>2 DEF WebhookInv, StoreOK, AnswerOK, SignatureComesFirst,
       ChecksCoverConstraints, ListsAreServed
<1>2. CASE Disconnect
  <2>1. NoAnswer.status = "none"
    BY DEF NoAnswer
  <2>2. [NoAnswer EXCEPT !.status = "none"] = NoAnswer
    BY <2>1, Zenon DEF NoAnswer
  <2> QED
    BY <1>2, <2>2, RefusedOK DEF Disconnect, Statuses, Refusal
<1> QED
  BY <1>1, <1>2

LEMMA BuiltIsAttempt ==
  ASSUME BodyOK, NEW content \in Contents, content \notin {"undecodable", "not_json"}
  PROVE  /\ Built(content) \in Attempts
         /\ Built(content).hook = head.hook /\ Built(content).id = head.id
         /\ Built(content).type = head.type
         /\ Built(content).facts = IF content = "not_an_object" THEN "text" ELSE content
<1>1. head \in Heads
  BY DEF BodyOK
<1> QED
  BY <1>1 DEF Built, Attempts, Contents, Facts, Heads

\* What the tables take is text by the time they hold it.
LEMMA PutOK ==
  ASSUME StoreOK, NEW a \in Attempts, Put(a), backend' = backend,
         backend = "postgresql" => a.hook = "fits" /\ a.facts \in {"text", "number"}
  PROVE  StoreOK'
<1> DEFINE k == Kept(a)
           rows == <<k>> \o store
<1>1. k \in Attempts
  BY DEF Kept, Attempts, Facts
<1>2. backend = "postgresql" => k.hook = "fits" /\ k.facts = "text"
  BY DEF Kept, Attempts
<1>3. store' = IF backend = "memory" /\ Len(rows) > MaxEvents THEN SubSeq(rows, 1, MaxEvents) ELSE rows
  BY DEF Put
<1> HIDE DEF k
<1>4. <<k>> \in Seq(Attempts) /\ Len(<<k>>) = 1 /\ <<k>>[1] = k
  BY <1>1
<1>5. store \in Seq(Attempts) /\ Len(store) \in Nat
  BY LenProperties DEF StoreOK
<1>6. /\ rows \in Seq(Attempts) /\ Len(rows) = 1 + Len(store)
      /\ \A i \in 1 .. 1 + Len(store) : rows[i] = IF i <= 1 THEN <<k>>[i] ELSE store[i - 1]
  BY <1>4, <1>5, ConcatProperties
<1> HIDE DEF rows
<1>7. CASE backend = "memory" /\ Len(rows) > MaxEvents
  <2>1. \A i \in 1 .. MaxEvents : rows[i] \in Attempts
    BY <1>5, <1>6, <1>7, ElementOfSeq, WebhookConstants
  <2>2. store' \in Seq(Attempts) /\ Len(store') = MaxEvents
    BY <1>3, <1>7, <2>1, SubSeqProperties, WebhookConstants
  <2> QED
    BY <1>7, <2>2, WebhookConstants DEF StoreOK
<1>8. CASE backend = "postgresql"
  <2>1. store' = rows
    BY <1>3, <1>8
  <2>2. ASSUME NEW i \in 1 .. Len(rows) PROVE rows[i].hook = "fits" /\ rows[i].facts = "text"
    <3>1. CASE i = 1
      BY <1>2, <1>4, <1>5, <1>6, <1>8, <3>1
    <3>2. CASE i # 1
      <4>1. i - 1 \in 1 .. Len(store) /\ rows[i] = store[i - 1]
        BY <1>5, <1>6, <3>2
      <4> QED
        BY <1>8, <4>1 DEF StoreOK
    <3> QED
      BY <3>1, <3>2
  <2> QED
    BY <1>6, <1>8, <2>1, <2>2 DEF StoreOK
<1>9. CASE backend = "memory" /\ ~(Len(rows) > MaxEvents)
  BY <1>3, <1>5, <1>6, <1>9, WebhookConstants DEF StoreOK
<1> QED
  BY <1>7, <1>8, <1>9, WebhookConstants DEF StoreOK

LEMMA IngestedOK ==
  ASSUME WebhookInv, NEW signed \in BOOLEAN, NEW up \in BOOLEAN,
         NEW content \in Contents, Ingest(signed, content, up)
  PROVE  WebhookInv'
<1> DEFINE verdict == Verdict(signed, content)
           a == Built(content)
           status == IF verdict = "accepted" THEN Status(a, up) ELSE verdict
<1>1. /\ pc = "ingesting" /\ backend' = backend
      /\ IF verdict = "accepted" /\ Added(a, up) = "received_200"
         THEN Put(a) ELSE UNCHANGED store
      /\ Answer([status |-> status, signed |-> signed, up |-> up, head |-> head,
                         content |-> content])
  BY DEF Ingest
<1>2. /\ verdict \in {"unauthorized_401", "internal_500", "invalid_400", "accepted"}
      /\ ~signed => verdict = "unauthorized_401"
      /\ verdict = "accepted" => content \notin {"undecodable", "not_json"}
  BY DEF Verdict
<1>3. verdict = "accepted" =>
        /\ a \in Attempts /\ a.hook = head.hook /\ a.id = head.id /\ a.type = head.type
        /\ a.facts = IF content = "not_an_object" THEN "text" ELSE content
  BY <1>2, BuiltIsAttempt DEF WebhookInv
<1>4. BodyOK /\ StoreOK /\ IsPositive(head.hook) /\ TargetValid(head)
  BY <1>1 DEF WebhookInv, BodyOK, HeadPassed
<1> HIDE DEF verdict, a
<1>5. verdict = "accepted" =>
        /\ Constrained(a)
        /\ Typed(a) \/ "wide" \in {head.hook, head.id} \/ content \in {"nul", "object"}
  BY <1>3, <1>4 DEF IsPositive, TargetValid, Constrained, Typed
<1>6. Added(a, up) \in {"received_200", "unavailable_503", "internal_500"}
  BY DEF Added
<1>7. status \in Statuses
  BY <1>2, <1>6 DEF Status, Statuses
<1>8. ~signed => status = "unauthorized_401"
  BY <1>2
<1>9. status = "unavailable_503" /\ up =>
        "wide" \in {head.hook, head.id} \/ content \in {"nul", "object"}
  BY <1>2, <1>5 DEF Status, Added
<1> HIDE DEF status
<1>10. /\ pc' = "idle" /\ head' = NoHead /\ total' = 0 /\ held' = 0
       /\ answer'.status = status /\ answer'.signed = signed /\ answer'.up = up
       /\ answer'.head = head /\ answer'.content = content
  BY <1>1 DEF Answer
<1>11. head # NoHead
  BY <1>4 DEF IsPositive, NoHead
<1>12. BodyOK'
  <2>1. NoHead \in Heads
    BY DEF NoHead, Heads, Numbers, Texts, Lengths,
       Absent
  <2> QED
    BY <1>10, <2>1, WebhookConstants DEF BodyOK, HeadPassed
<1>13. StoreOK'
  <2>1. CASE verdict = "accepted" /\ Added(a, up) = "received_200"
    <3>1. backend = "postgresql" => a.hook = "fits" /\ a.facts \in {"text", "number"}
      <4>1. backend = "postgresql" => Typed(a) /\ a.facts # "surrogate"
        BY <2>1 DEF Added
      <4> QED
        BY <1>3, <1>4, <2>1, <4>1 DEF Typed, IsPositive, Attempts,
           Facts
    <3> QED
      BY <1>1, <1>3, <1>4, <2>1, <3>1, PutOK
  <2>2. CASE ~(verdict = "accepted" /\ Added(a, up) = "received_200")
    BY <1>1, <1>4, <2>2 DEF StoreOK
  <2> QED
    BY <2>1, <2>2
<1>14. AnswerOK'
  BY <1>8, <1>9, <1>10, <1>11 DEF AnswerOK, SignatureComesFirst,
     ChecksCoverConstraints, ListsAreServed
<1> QED
  BY <1>7, <1>10, <1>12, <1>13, <1>14 DEF WebhookInv

LEMMA ReadOK ==
  ASSUME WebhookInv, NEW up \in BOOLEAN,
         \/ ReadRecent(up)
         \/ \E first, past \in 1 .. Len(store) + 1 : ReadAttempts(first, past, up)
  PROVE  WebhookInv'
<1>1. Len(store) \in Nat
  BY LenProperties DEF WebhookInv, StoreOK
<1>2. ASSUME backend = "postgresql", NEW i \in 1 .. Len(store)
      PROVE  ServesRecent(store[i]) /\ Serves(store[i])
  BY <1>2 DEF WebhookInv, StoreOK, ServesRecent, Serves
<1>3. CASE ReadRecent(up)
  <2> DEFINE status == IF backend = "postgresql" /\ ~up THEN "unavailable_503"
        ELSE IF \A i \in 1 .. Len(store) : i <= MaxEvents => ServesRecent(store[i])
             THEN "served_200" ELSE "internal_500"
  <2>1. status \in Statuses /\ (backend = "postgresql" => status # "internal_500")
    BY <1>2 DEF Statuses
  <2>2. Answer(Refusal(status)) /\ UNCHANGED <<backend, store>>
    BY <1>3 DEF ReadRecent
  <2> HIDE DEF status
  <2> QED
    BY <2>1, <2>2, RefusedOK
<1>4. ASSUME NEW first \in 1 .. Len(store) + 1, NEW past \in 1 .. Len(store) + 1,
             ReadAttempts(first, past, up)
      PROVE  WebhookInv'
  <2> DEFINE status == IF backend = "postgresql" /\ ~up THEN "unavailable_503"
        ELSE IF \A i \in first .. past - 1 : Serves(store[i]) THEN "served_200"
        ELSE "internal_500"
  <2>1. \A i \in first .. past - 1 : i \in 1 .. Len(store)
    BY <1>1
  <2>2. status \in Statuses /\ (backend = "postgresql" => status # "internal_500")
    BY <1>2, <2>1 DEF Statuses
  <2>3. Answer(Refusal(status)) /\ UNCHANGED <<backend, store>>
    BY <1>4 DEF ReadAttempts
  <2> HIDE DEF status
  <2> QED
    BY <2>2, <2>3, RefusedOK
<1> QED
  BY <1>3, <1>4

LEMMA WebhookStep ==
  WebhookInv /\ [WebhookNext]_(webhookVars) => WebhookInv'
<1> SUFFICES ASSUME WebhookInv, [WebhookNext]_(webhookVars) PROVE WebhookInv'
  OBVIOUS
<1>1. CASE UNCHANGED webhookVars
  BY <1>1 DEF webhookVars, WebhookInv, BodyOK, HeadPassed, StoreOK, AnswerOK,
     SignatureComesFirst, ChecksCoverConstraints, ListsAreServed
<1> QED
  BY <1>1, ReceivedOK, ChunkOK, EndedOK, IngestedOK, ReadOK DEF WebhookNext

LEMMA WebhookInvariance == WebhookSpec => []WebhookInv
  BY WebhookInitInv, WebhookStep, PTL DEF WebhookSpec

\* However a body is declared and cut into chunks, no more than the limit is ever
\* kept, and the tables hold only what their columns take.
THEOREM BodiesAreBounded == WebhookSpec => []BodyIsBounded
<1>1. WebhookInv => BodyIsBounded
  BY DEF WebhookInv, BodyOK, StoreOK, BodyIsBounded, WebhookTypeOK
<1> QED
  BY <1>1, WebhookInvariance, PTL

\* A sender without the secret learns from a whole body that it is refused.
THEOREM SignaturesComeFirst == WebhookSpec => []SignatureComesFirst
<1>1. WebhookInv => SignatureComesFirst
  BY DEF WebhookInv, AnswerOK
<1> QED
  BY <1>1, WebhookInvariance, PTL

\* What the route lets through, the CHECK constraints of the tables do as well.
THEOREM ConstraintsAreCovered == WebhookSpec => []ChecksCoverConstraints
<1>1. WebhookInv => ChecksCoverConstraints
  BY DEF WebhookInv, AnswerOK
<1> QED
  BY <1>1, WebhookInvariance, PTL

\* With PostgreSQL no attempt it stored makes a list fail.
THEOREM StoredIsServed == WebhookSpec => []ListsAreServed
<1>1. WebhookInv => ListsAreServed
  BY DEF WebhookInv, AnswerOK
<1> QED
  BY <1>1, WebhookInvariance, PTL
=============================================================================
