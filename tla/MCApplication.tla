---------------------------- MODULE MCApplication ----------------------------
(* An instance of Application for TLC.                                      *)
EXTENDS Application

OwnScopes(d, r, x) ==
  [c \in Capabilities |-> CASE c = "diagnostics.read" -> d
                            [] c = "recovery.read" -> r
                            [] OTHER -> x]

\* Everything is on; the scopes are set in many ways.
ScopeConfigurations ==
  {s \in [enabled : {TRUE}, mode : {"shared_token", "oidc_jwt"},
          token : {"strong"}, provider : {TRUE},
          full : {None, "manage", "x", "o", "padded"},
          required : {None, "manage", "o", "x", "blank", "padded"},
          own : {OwnScopes("d", "r", "x"), OwnScopes("d", "x", "x"),
                 OwnScopes("manage", "r", "x"), OwnScopes("d", "r", "padded")},
          reconciliation : {TRUE}, read_token : {TRUE},
          redelivery : {TRUE}, write_token : {TRUE}, backend : {"memory"}] :
     s.mode = "shared_token" => s.full = None}

\* The scopes are the defaults; all else is set in every way.
SwitchConfigurations ==
  [enabled : BOOLEAN, mode : {"shared_token", "oidc_jwt"},
   token : {None, "short", "strong"}, provider : BOOLEAN,
   full : {None}, required : {None}, own : {OwnScopes("d", "r", "x")},
   reconciliation : BOOLEAN, read_token : BOOLEAN,
   redelivery : BOOLEAN, write_token : BOOLEAN, backend : {"memory", "postgresql"}]

\* With the switches, the caller passes in nothing, one resource, or all.
MCDeployments ==
  (ScopeConfigurations \X {{}})
    \cup (SwitchConfigurations \X {i \in SUBSET Life!Resources : Cardinality(i) \in {0, 1, 4}})
MCConfigurations == ScopeConfigurations \cup SwitchConfigurations
=============================================================================
