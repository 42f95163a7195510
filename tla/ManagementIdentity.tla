------------------------- MODULE ManagementIdentity -------------------------
(***************************************************************************)
(* The OIDC authenticator of the management API: requests that look their  *)
(* token's signing key up in the cached JWKS, fetch discovery document and *)
(* JWKS when these are missing, expired or do not name the key, and store  *)
(* what they fetched; and the identity provider, which rotates its keys.   *)
(*                                                                         *)
(* authenticate() runs on the event loop: its awaits are the two fetches.  *)
(***************************************************************************)
EXTENDS Integers, FiniteSets

CONSTANTS
  Requests,   \* authenticate() calls in flight at once
  Keys,       \* signing keys of the provider
  Ttl,        \* CACHE_TTL_SECONDS
  MaxTime     \* bound: the last instant of the clock

ASSUME ConstantsAssumption ==
  /\ Ttl \in Nat \ {0}
  /\ MaxTime \in Nat \ {0}

VARIABLES
  pc,         \* where each request is
  token,      \* the token it carries: its key, and whether the header has a kid
  begun,      \* when it began
  sampled,    \* the time read at the start of its last fetch
  refreshed,  \* whether that fetch is the refresh for an unknown kid
  response,   \* the keys the provider put into the response under way
  steady,     \* requests whose key was published ever since they began
  reply,      \* the result
  jwks,       \* the cached JWKS and its expiry
  metadata,   \* the expiry of the cached discovery document, 0 for none
  published,  \* the keys the provider publishes
  withdrawn,  \* when each key was last withdrawn
  now         \* time.monotonic(), in units of the model

localVars == <<pc, token, begun, sampled, refreshed, response, reply>>
provider == <<published, withdrawn, now>>
vars == <<pc, token, begun, sampled, refreshed, response, steady, reply,
          jwks, metadata, published, withdrawn, now>>

Tokens == [key : Keys, kid : BOOLEAN]
NoToken == [kid |-> FALSE]
Waits == {"discovery", "jwks", "response"}
Live(r) == pc[r] \in Waits

Replies == {"none", "accepted", "invalid", "unknown_key", "provider_rejects", "unavailable"}

Init ==
  /\ pc = [r \in Requests |-> "idle"]
  /\ token = [r \in Requests |-> NoToken]
  /\ begun = [r \in Requests |-> 1]
  /\ sampled = [r \in Requests |-> 1]
  /\ refreshed = [r \in Requests |-> FALSE]
  /\ response = [r \in Requests |-> {}]
  /\ steady = {}
  /\ reply = [r \in Requests |-> "none"]
  /\ jwks = [keys |-> {}, expires |-> 0]
  /\ metadata = 0
  /\ published \in SUBSET Keys
  /\ withdrawn = [k \in Keys |-> -Ttl]
  /\ now = 1

-----------------------------------------------------------------------------
(* The signing key.                                                        *)

\* The result of the request that carried t and began at start; its locals go.
Answer(r, t, start, rep) ==
  /\ pc' = [pc EXCEPT ![r] = "done"]
  /\ reply' = [reply EXCEPT ![r] = rep]
  /\ token' = [token EXCEPT ![r] = t]
  /\ begun' = [begun EXCEPT ![r] = start]
  /\ sampled' = [sampled EXCEPT ![r] = 1]
  /\ refreshed' = [refreshed EXCEPT ![r] = FALSE]

\* A fetch of the JWKS begins, with that of the discovery document if needed.
Fetch(r, t, start, refresh) ==
  /\ reply' = [reply EXCEPT ![r] = "none"]
  /\ token' = [token EXCEPT ![r] = t]
  /\ begun' = [begun EXCEPT ![r] = start]
  /\ pc' = [pc EXCEPT ![r] = IF now < metadata THEN "jwks" ELSE "discovery"]
  /\ sampled' = [sampled EXCEPT ![r] = now]
  /\ refreshed' = [refreshed EXCEPT ![r] = refresh]

Accepted(t, keys) == IF t.kid THEN t.key \in keys ELSE keys = {t.key}

\* Mutant: an unknown kid is final, whatever the age of the cache.
EvaluateOnce(r, t, start, keys, refresh) ==
  \/ keys = {} /\ Answer(r, NoToken, 1, "unavailable")
  \/ keys # {} /\ Accepted(t, keys) /\ Answer(r, t, start, "accepted")
  \/ keys # {} /\ ~Accepted(t, keys) /\ Answer(r, t, start, "unknown_key")

\* Mutant: an unknown kid is looked for until it is found.
EvaluateUntilFound(r, t, start, keys, refresh) ==
  \/ keys = {} /\ Answer(r, NoToken, 1, "unavailable")
  \/ keys # {} /\ Accepted(t, keys) /\ Answer(r, t, start, "accepted")
  \/ keys # {} /\ ~Accepted(t, keys) /\ Fetch(r, t, start, TRUE)

\* A JWKS without keys is an unavailable provider; without a kid the only key
\* is tried, and there is no refresh.
Evaluate(r, t, start, keys, refresh) ==
  \/ keys = {} /\ Answer(r, NoToken, 1, "unavailable")
  \/ keys # {} /\ Accepted(t, keys) /\ Answer(r, t, start, "accepted")
  \/ keys # {} /\ ~Accepted(t, keys) /\ ~t.kid /\ Answer(r, t, start, "invalid")
  \/ keys # {} /\ ~Accepted(t, keys) /\ t.kid /\ refresh /\ Answer(r, t, start, "unknown_key")
  \/ keys # {} /\ ~Accepted(t, keys) /\ t.kid /\ ~refresh /\ Fetch(r, t, start, TRUE)

-----------------------------------------------------------------------------
(* The request.                                                            *)

\* A request whose header or claims are wrong is answered without this state.
Authenticate(r) ==
  /\ ~Live(r)
  /\ \E t \in Tokens :
       /\ steady' = IF t.key \in published THEN steady \cup {r} ELSE steady \ {r}
       /\ IF now < jwks.expires
          THEN Evaluate(r, t, now, jwks.keys, FALSE)
          ELSE Fetch(r, t, now, FALSE)
  /\ UNCHANGED <<response, jwks, metadata, provider>>

\* A timeout, a 5xx or 429, or a malformed document; any other status but 200.
FetchFails(r) ==
  /\ Live(r)
  /\ \E rep \in {"unavailable", "provider_rejects"} : Answer(r, NoToken, 1, rep)
  /\ response' = [response EXCEPT ![r] = {}]
  /\ steady' = steady \ {r}
  /\ UNCHANGED <<jwks, metadata, provider>>

ReceiveMetadata(r) ==
  /\ pc[r] = "discovery"
  /\ metadata' = sampled[r] + Ttl
  /\ pc' = [pc EXCEPT ![r] = "jwks"]
  /\ UNCHANGED <<token, begun, sampled, refreshed, response, steady, reply, jwks, provider>>

\* Mutant: the clock is read when the response is there.
ExpiryFromArrival(r) == now + Ttl

\* The clock was read before the two fetches.
Expiry(r) == sampled[r] + Ttl

\* The response replaces the cached JWKS, even one fetched later.
ReceiveJwks(r) ==
  /\ pc[r] = "response"
  /\ jwks' = [keys |-> response[r], expires |-> Expiry(r)]
  /\ Evaluate(r, token[r], begun[r], response[r], refreshed[r])
  /\ response' = [response EXCEPT ![r] = {}]
  /\ UNCHANGED <<steady, metadata, provider>>

-----------------------------------------------------------------------------
(* The identity provider and the clock.                                    *)

ServeJwks(r) ==
  /\ pc[r] = "jwks"
  /\ response' = [response EXCEPT ![r] = published]
  /\ pc' = [pc EXCEPT ![r] = "response"]
  /\ UNCHANGED <<token, begun, sampled, refreshed, steady, reply, jwks, metadata, provider>>

Rotate ==
  /\ \E keys \in SUBSET Keys \ {published} :
       /\ published' = keys
       /\ withdrawn' = [k \in Keys |-> IF k \in published \ keys THEN now ELSE withdrawn[k]]
       /\ steady' = {r \in steady : pc[r] = "done" \/ token[r].key \in keys}
  /\ UNCHANGED <<localVars, jwks, metadata, now>>

Tick ==
  /\ now < MaxTime
  /\ now' = now + 1
  /\ UNCHANGED <<localVars, steady, jwks, metadata, published, withdrawn>>

Progress(r) == ReceiveMetadata(r) \/ ServeJwks(r) \/ ReceiveJwks(r) \/ FetchFails(r)

Next ==
  \/ \E r \in Requests : Authenticate(r) \/ Progress(r)
  \/ Rotate
  \/ Tick

Spec == Init /\ [][Next]_vars

-----------------------------------------------------------------------------
(* Properties.                                                             *)

TypeOK ==
  /\ pc \in [Requests -> Waits \cup {"idle", "done"}]
  /\ token \in [Requests -> Tokens \cup {NoToken}]
  /\ begun \in [Requests -> 1 .. now]
  /\ sampled \in [Requests -> 1 .. now]
  /\ refreshed \in [Requests -> BOOLEAN]
  /\ response \in [Requests -> SUBSET Keys]
  /\ steady \subseteq Requests
  /\ reply \in [Requests -> Replies]
  /\ jwks \in [keys : SUBSET Keys, expires : 0 .. now + Ttl]
  /\ metadata \in 0 .. now + Ttl
  /\ published \subseteq Keys
  /\ withdrawn \in [Keys -> -Ttl .. now]
  /\ now \in 1 .. MaxTime

\* However slow a fetch is and in whatever order concurrent fetches arrive, a
\* token is accepted only if its key was published within the cache's lifetime
\* before the request: a withdrawn key is not trusted longer than that
\* (_jwks_document). The types come with it: no expiry lies further ahead than
\* one lifetime.
StalenessBounded ==
  /\ TypeOK
  /\ \A r \in Requests : pc[r] = "done" /\ reply[r] = "accepted" =>
       token[r].key \in published \/ withdrawn[token[r].key] > begun[r] - Ttl

\* A token whose header names a key that is published all the time is never
\* refused for its key, however old the cache was, whoever else refreshes it
\* (authenticate, the refresh of an unknown kid).
PublishedKeyIsFound ==
  \A r \in steady : pc[r] = "done" /\ token[r].kid => reply[r] \notin {"unknown_key", "invalid"}

\* The requests to the provider still ahead of a waiting authentication: a
\* response, a document or two before it, and once more all of that for the
\* refresh.
Ahead(r) ==
  LET place == CASE pc[r] = "discovery" -> 3 [] pc[r] = "jwks" -> 2 [] OTHER -> 1
  IN IF refreshed[r] THEN place ELSE place + 3

\* Every step of a waiting authentication leaves less ahead of it, so it ends
\* after one refresh whatever the provider publishes, rotates or withholds, the
\* HTTP client's timeouts granted (authenticate, the second _jwks_document).
RefreshesOnce ==
  [][\A r \in Requests :
       Live(r) /\ Live(r)' /\ <<pc[r], refreshed[r]>>' # <<pc[r], refreshed[r]>>
         => Ahead(r)' < Ahead(r)]_vars
=============================================================================
