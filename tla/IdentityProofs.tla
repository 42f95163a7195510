--------------------------- MODULE IdentityProofs ---------------------------
(***************************************************************************)
(* Proofs about ManagementIdentity, for any number of requests and keys,   *)
(* any lifetime of the cache and any bound on the clock.                   *)
(***************************************************************************)
EXTENDS ManagementIdentity, TLAPS

\* A key the provider gave out was published at that moment: since then it has
\* been published still, or was withdrawn at that moment or later.
Fresh(k, time) == k \in published \/ withdrawn[k] >= time

CacheOK == \A k \in jwks.keys : Fresh(k, jwks.expires - Ttl)

\* A request that waits carries a token, and read the clock no earlier than it
\* began and no later than the provider answers it.
WaitOK(r) ==
  /\ Live(r) => token[r] \in Tokens /\ begun[r] <= sampled[r]
  /\ pc[r] = "response" => \A k \in response[r] : Fresh(k, sampled[r])

AcceptOK(r) ==
  pc[r] = "done" /\ reply[r] = "accepted" =>
    token[r] \in Tokens /\ Fresh(token[r].key, begun[r] - Ttl + 1)

\* While its key is published all along, the response under way has it.
SteadyOK(r) ==
  r \in steady =>
    /\ Live(r) => token[r].key \in published
    /\ pc[r] = "response" => token[r].key \in response[r]
    /\ pc[r] = "done" /\ token[r].kid => reply[r] \notin {"unknown_key", "invalid"}

RequestOK(r) == WaitOK(r) /\ AcceptOK(r) /\ SteadyOK(r)

Inv == TypeOK /\ CacheOK /\ \A r \in Requests : RequestOK(r)

LEMMA InvImplies == Inv => StalenessBounded /\ PublishedKeyIsFound
<1> SUFFICES ASSUME Inv PROVE StalenessBounded /\ PublishedKeyIsFound
  OBVIOUS
<1>1. ASSUME NEW r \in Requests, pc[r] = "done", reply[r] = "accepted"
      PROVE  token[r].key \in published \/ withdrawn[token[r].key] > begun[r] - Ttl
  <2>1. token[r] \in Tokens /\ Fresh(token[r].key, begun[r] - Ttl + 1)
    BY <1>1 DEF Inv, RequestOK, AcceptOK
  <2>2. token[r].key \in Keys
    BY <2>1 DEF Tokens
  <2>3. withdrawn[token[r].key] \in Int /\ begun[r] \in Int /\ Ttl \in Int
    BY <2>2, ConstantsAssumption DEF Inv, TypeOK
  <2> QED
    BY <2>1, <2>3 DEF Fresh
<1>2. PublishedKeyIsFound
  BY DEF Inv, TypeOK, RequestOK, SteadyOK, PublishedKeyIsFound
<1> QED
  BY <1>1, <1>2 DEF Inv, StalenessBounded

LEMMA InitInv == Init => Inv
<1> SUFFICES ASSUME Init PROVE Inv
  OBVIOUS
<1>1. TypeOK
  BY ConstantsAssumption DEF Init, TypeOK, NoToken, Replies, Waits
<1>2. CacheOK
  BY DEF Init, CacheOK
<1>3. ASSUME NEW r \in Requests PROVE RequestOK(r)
  BY DEF Init, RequestOK, WaitOK, AcceptOK, SteadyOK, Live, Waits
<1> QED
  BY <1>1, <1>2, <1>3 DEF Inv

\* What the provider and the other requests leave alone stays as it was.
LEMMA RequestKept ==
  ASSUME NEW q \in Requests, RequestOK(q), UNCHANGED <<published, withdrawn>>,
         pc'[q] = pc[q], token'[q] = token[q], begun'[q] = begun[q],
         sampled'[q] = sampled[q], response'[q] = response[q], reply'[q] = reply[q],
         q \in steady' => q \in steady
  PROVE  RequestOK(q)'
  BY DEF RequestOK, WaitOK, AcceptOK, SteadyOK, Live, Fresh

-----------------------------------------------------------------------------
(* Answers and fetches.                                                    *)

Locals == /\ pc \in [Requests -> Waits \cup {"idle", "done"}]
          /\ token \in [Requests -> Tokens \cup {NoToken}]
          /\ begun \in [Requests -> 1 .. now]
          /\ sampled \in [Requests -> 1 .. now]
          /\ refreshed \in [Requests -> BOOLEAN]
          /\ reply \in [Requests -> Replies]

Untouched(q) ==
  /\ pc'[q] = pc[q] /\ token'[q] = token[q] /\ begun'[q] = begun[q]
  /\ sampled'[q] = sampled[q] /\ refreshed'[q] = refreshed[q] /\ reply'[q] = reply[q]

LEMMA Answers ==
  ASSUME TypeOK, now' = now, NEW r \in Requests, NEW t \in Tokens \cup {NoToken},
         NEW start \in 1 .. now, NEW rep \in Replies, Answer(r, t, start, rep)
  PROVE  /\ Locals'
         /\ \A q \in Requests \ {r} : Untouched(q)
         /\ pc'[r] = "done" /\ reply'[r] = rep /\ token'[r] = t /\ begun'[r] = start
<1>1. 1 \in 1 .. now
  BY DEF TypeOK
<1> QED
  BY <1>1 DEF TypeOK, Answer, Locals, Untouched

LEMMA Fetches ==
  ASSUME TypeOK, now' = now, NEW r \in Requests, NEW t \in Tokens,
         NEW start \in 1 .. now, NEW refresh \in BOOLEAN, Fetch(r, t, start, refresh)
  PROVE  /\ Locals'
         /\ \A q \in Requests \ {r} : Untouched(q)
         /\ pc'[r] \in {"jwks", "discovery"} /\ token'[r] = t /\ begun'[r] = start
         /\ sampled'[r] = now /\ refreshed'[r] = refresh
<1>1. now \in 1 .. now
  BY DEF TypeOK
<1> QED
  BY <1>1 DEF TypeOK, Fetch, Locals, Untouched, Replies, Waits

\* The ways an evaluation of a set of keys ends.
Ends(r, t, start, keys, refresh) ==
  \/ pc'[r] = "done" /\ reply'[r] = "unavailable" /\ token'[r] = NoToken
  \/ pc'[r] = "done" /\ reply'[r] = "accepted" /\ token'[r] = t /\ begun'[r] = start
       /\ t.key \in keys
  \/ pc'[r] = "done" /\ reply'[r] = "invalid" /\ token'[r] = t /\ ~t.kid
  \/ pc'[r] = "done" /\ reply'[r] = "unknown_key" /\ t.kid /\ t.key \notin keys /\ refresh
  \/ pc'[r] \in {"jwks", "discovery"} /\ token'[r] = t /\ begun'[r] = start
       /\ sampled'[r] = now /\ refreshed'[r] = TRUE /\ refresh = FALSE

LEMMA Evaluations ==
  ASSUME TypeOK, now' = now, NEW r \in Requests, NEW t \in Tokens,
         NEW start \in 1 .. now, NEW keys \in SUBSET Keys, NEW refresh \in BOOLEAN,
         Evaluate(r, t, start, keys, refresh)
  PROVE  Locals' /\ (\A q \in Requests \ {r} : Untouched(q)) /\ Ends(r, t, start, keys, refresh)
<1>1. CASE Answer(r, NoToken, 1, "unavailable")
  <2>1. 1 \in 1 .. now /\ "unavailable" \in Replies
    BY DEF TypeOK, Replies
  <2> QED
    BY <1>1, <2>1, Answers DEF Ends
<1>2. CASE Accepted(t, keys) /\ Answer(r, t, start, "accepted")
  <2>1. "accepted" \in Replies
    BY DEF Replies
  <2>2. t.key \in keys
    BY <1>2 DEF Accepted
  <2> QED
    BY <1>2, <2>1, <2>2, Answers DEF Ends
<1>3. CASE ~t.kid /\ Answer(r, t, start, "invalid")
  <2>1. "invalid" \in Replies
    BY DEF Replies
  <2> QED
    BY <1>3, <2>1, Answers DEF Ends
<1>4. CASE ~Accepted(t, keys) /\ t.kid /\ refresh /\ Answer(r, t, start, "unknown_key")
  <2>1. "unknown_key" \in Replies
    BY DEF Replies
  <2>2. t.key \notin keys
    BY <1>4 DEF Accepted
  <2> QED
    BY <1>4, <2>1, <2>2, Answers DEF Ends
<1>5. CASE ~refresh /\ Fetch(r, t, start, TRUE)
  <2>1. /\ Locals'
        /\ \A q \in Requests \ {r} : Untouched(q)
        /\ pc'[r] \in {"jwks", "discovery"} /\ token'[r] = t /\ begun'[r] = start
        /\ sampled'[r] = now /\ refreshed'[r] = TRUE
    BY <1>5, Fetches
  <2> QED
    BY <1>5, <2>1 DEF Ends
<1> QED
  BY <1>1, <1>2, <1>3, <1>4, <1>5 DEF Evaluate

-----------------------------------------------------------------------------
(* The steps of a request.                                                 *)

LEMMA TypeOfLocals ==
  ASSUME TypeOK, Locals', UNCHANGED provider,
         response' \in [Requests -> SUBSET Keys], steady' \subseteq Requests,
         jwks' \in [keys : SUBSET Keys, expires : 0 .. now + Ttl],
         metadata' \in 0 .. now + Ttl
  PROVE  TypeOK'
  BY DEF TypeOK, Locals, provider

\* A key fresh at a time is fresh at an earlier one.
LEMMA FreshBefore ==
  ASSUME TypeOK, NEW k \in Keys, NEW t \in Int, NEW u \in Int, u <= t, Fresh(k, t)
  PROVE  Fresh(k, u)
<1>1. withdrawn[k] \in Int
  BY ConstantsAssumption DEF TypeOK
<1> QED
  BY <1>1 DEF Fresh

LEMMA AuthenticateKeepsInv == ASSUME Inv, NEW r \in Requests, Authenticate(r) PROVE Inv'
<1> DEFINE Begins(t) ==
      /\ steady' = IF t.key \in published THEN steady \cup {r} ELSE steady \ {r}
      /\ IF now < jwks.expires
         THEN Evaluate(r, t, now, jwks.keys, FALSE)
         ELSE Fetch(r, t, now, FALSE)
<1>1. PICK t \in Tokens : Begins(t)
  BY DEF Authenticate
<1>2. UNCHANGED <<response, jwks, metadata, published, withdrawn, now>> /\ ~Live(r)
  BY DEF Authenticate, provider
<1>3. now \in 1 .. now /\ now \in Nat /\ Ttl \in Nat \ {0} /\ TypeOK /\ CacheOK
      /\ jwks.expires \in Nat /\ jwks.keys \in SUBSET Keys
  BY ConstantsAssumption DEF Inv, TypeOK
<1>4. /\ Locals'
      /\ \A q \in Requests \ {r} : Untouched(q)
      /\ \/ now < jwks.expires /\ Ends(r, t, now, jwks.keys, FALSE)
         \/ pc'[r] \in {"jwks", "discovery"} /\ token'[r] = t /\ begun'[r] = now
              /\ sampled'[r] = now
  <2>1. CASE now < jwks.expires
    BY <1>1, <1>2, <1>3, <2>1, Evaluations
  <2>2. CASE ~(now < jwks.expires)
    BY <1>1, <1>2, <1>3, <2>2, Fetches
  <2> QED
    BY <2>1, <2>2
<1>5. /\ steady' \subseteq Requests
      /\ \A q \in Requests \ {r} : q \in steady' <=> q \in steady
      /\ r \in steady' <=> t.key \in published
  BY <1>1, <1>3 DEF TypeOK
<1>6. TypeOK'
  BY <1>2, <1>3, <1>4, <1>5, TypeOfLocals DEF TypeOK, provider
<1>7. CacheOK'
  BY <1>2, <1>3 DEF CacheOK, Fresh
<1>8. ASSUME NEW q \in Requests, q # r PROVE RequestOK(q)'
  BY <1>2, <1>4, <1>5, <1>8, RequestKept DEF Inv, Untouched
<1>9. RequestOK(r)'
  <2>1. t.key \in Keys /\ t \in Tokens
    BY DEF Tokens
  <2>2. WaitOK(r)'
    BY <1>3, <1>4, <2>1 DEF WaitOK, Ends, Live, Waits
  <2>3. AcceptOK(r)'
    <3> SUFFICES ASSUME pc'[r] = "done", reply'[r] = "accepted"
                 PROVE  token'[r] \in Tokens /\ Fresh(token[r].key, begun[r] - Ttl + 1)'
      BY DEF AcceptOK
    <3>1. now < jwks.expires /\ token'[r] = t /\ begun'[r] = now /\ t.key \in jwks.keys
      BY <1>4 DEF Ends
    <3>2. Fresh(t.key, jwks.expires - Ttl)
      BY <1>3, <3>1 DEF CacheOK
    <3>3. now - Ttl + 1 <= jwks.expires - Ttl /\ now - Ttl + 1 \in Int /\ jwks.expires - Ttl \in Int
      BY <1>3, <3>1
    <3>4. Fresh(t.key, now - Ttl + 1)
      BY <1>3, <2>1, <3>2, <3>3, FreshBefore
    <3> QED
      BY <1>2, <2>1, <3>1, <3>4 DEF Fresh
  <2>4. SteadyOK(r)'
    BY <1>2, <1>4, <1>5 DEF SteadyOK, Ends, Live, Waits, NoToken
  <2> QED
    BY <2>2, <2>3, <2>4 DEF RequestOK
<1> QED
  BY <1>6, <1>7, <1>8, <1>9 DEF Inv

LEMMA FetchFailsKeepsInv == ASSUME Inv, NEW r \in Requests, FetchFails(r) PROVE Inv'
<1>1. PICK rep \in {"unavailable", "provider_rejects"} : Answer(r, NoToken, 1, rep)
  BY DEF FetchFails
<1>2. /\ response' = [response EXCEPT ![r] = {}] /\ steady' = steady \ {r}
      /\ UNCHANGED <<jwks, metadata, published, withdrawn, now>>
  BY DEF FetchFails, provider
<1>3. 1 \in 1 .. now /\ rep \in Replies /\ TypeOK /\ CacheOK
  BY DEF Inv, TypeOK, Replies
<1>4. /\ Locals'
      /\ \A q \in Requests \ {r} : Untouched(q)
      /\ pc'[r] = "done" /\ reply'[r] = rep
  BY <1>1, <1>2, <1>3, Answers
<1>5. TypeOK'
  BY <1>2, <1>3, <1>4, TypeOfLocals DEF TypeOK, provider
<1>6. CacheOK'
  BY <1>2, <1>3 DEF CacheOK, Fresh
<1>7. ASSUME NEW q \in Requests, q # r PROVE RequestOK(q)'
  BY <1>2, <1>3, <1>4, <1>7, RequestKept DEF Inv, Untouched, TypeOK
<1>8. RequestOK(r)'
  BY <1>2, <1>4 DEF RequestOK, WaitOK, AcceptOK, SteadyOK, Live, Waits
<1> QED
  BY <1>5, <1>6, <1>7, <1>8 DEF Inv

LEMMA ReceiveMetadataKeepsInv == ASSUME Inv, NEW r \in Requests, ReceiveMetadata(r) PROVE Inv'
<1>1. /\ pc[r] = "discovery" /\ metadata' = sampled[r] + Ttl
      /\ pc' = [pc EXCEPT ![r] = "jwks"]
      /\ UNCHANGED <<token, begun, sampled, refreshed, response, steady, reply, jwks,
                     published, withdrawn, now>>
  BY DEF ReceiveMetadata, provider
<1>2. TypeOK'
  <2>1. metadata' \in 0 .. now + Ttl
    BY <1>1, ConstantsAssumption DEF Inv, TypeOK
  <2> QED
    BY <1>1, <2>1 DEF Inv, TypeOK, Waits
<1>3. ASSUME NEW q \in Requests, q # r PROVE RequestOK(q)'
  BY <1>1, <1>3, RequestKept DEF Inv, TypeOK
<1>4. RequestOK(r)'
  <2>1. pc'[r] = "jwks"
    BY <1>1 DEF Inv, TypeOK
  <2> QED
    BY <1>1, <2>1 DEF Inv, RequestOK, WaitOK, AcceptOK, SteadyOK, Live, Waits
<1> QED
  BY <1>1, <1>2, <1>3, <1>4 DEF Inv, CacheOK, Fresh

LEMMA ServeJwksKeepsInv == ASSUME Inv, NEW r \in Requests, ServeJwks(r) PROVE Inv'
<1>1. /\ pc[r] = "jwks" /\ response' = [response EXCEPT ![r] = published]
      /\ pc' = [pc EXCEPT ![r] = "response"]
      /\ UNCHANGED <<token, begun, sampled, refreshed, steady, reply, jwks, metadata,
                     published, withdrawn, now>>
  BY DEF ServeJwks, provider
<1>2. TypeOK'
  BY <1>1 DEF Inv, TypeOK, Waits
<1>3. ASSUME NEW q \in Requests, q # r PROVE RequestOK(q)'
  BY <1>1, <1>3, RequestKept DEF Inv, TypeOK
<1>4. RequestOK(r)'
  <2>1. pc'[r] = "response" /\ response'[r] = published
    BY <1>1 DEF Inv, TypeOK
  <2> QED
    BY <1>1, <2>1 DEF Inv, RequestOK, WaitOK, AcceptOK, SteadyOK, Live, Waits, Fresh
<1> QED
  BY <1>1, <1>2, <1>3, <1>4 DEF Inv, CacheOK, Fresh

LEMMA ReceiveJwksKeepsInv == ASSUME Inv, NEW r \in Requests, ReceiveJwks(r) PROVE Inv'
<1>1. /\ pc[r] = "response"
      /\ jwks' = [keys |-> response[r], expires |-> sampled[r] + Ttl]
      /\ Evaluate(r, token[r], begun[r], response[r], refreshed[r])
      /\ response' = [response EXCEPT ![r] = {}]
      /\ UNCHANGED <<steady, metadata, published, withdrawn, now>>
  BY DEF ReceiveJwks, Expiry, provider
<1>2. /\ TypeOK /\ WaitOK(r) /\ SteadyOK(r) /\ Live(r)
      /\ token[r] \in Tokens /\ token[r].key \in Keys
      /\ begun[r] \in 1 .. now /\ sampled[r] \in 1 .. now /\ begun[r] <= sampled[r]
      /\ response[r] \in SUBSET Keys /\ refreshed[r] \in BOOLEAN
      /\ now \in Nat /\ Ttl \in Nat \ {0}
  BY <1>1, ConstantsAssumption DEF Inv, RequestOK, TypeOK, WaitOK, Live, Waits, Tokens
<1>3. /\ Locals'
      /\ \A q \in Requests \ {r} : Untouched(q)
      /\ Ends(r, token[r], begun[r], response[r], refreshed[r])
  <2>1. TypeOK /\ now' = now /\ Evaluate(r, token[r], begun[r], response[r], refreshed[r])
    BY <1>1, <1>2
  <2>2. /\ token[r] \in Tokens /\ begun[r] \in 1 .. now
        /\ response[r] \in SUBSET Keys /\ refreshed[r] \in BOOLEAN
    BY <1>2
  <2> QED
    BY <2>1, <2>2, Evaluations
<1>4. TypeOK'
  <2>1. jwks' \in [keys : SUBSET Keys, expires : 0 .. now + Ttl]
    BY <1>1, <1>2
  <2> QED
    BY <1>1, <1>2, <1>3, <2>1, TypeOfLocals DEF TypeOK, provider
<1>5. CacheOK'
  <2>1. jwks'.keys = response[r] /\ jwks'.expires - Ttl = sampled[r]
    BY <1>1, <1>2
  <2>2. \A k \in response[r] : Fresh(k, sampled[r])
    BY <1>1, <1>2 DEF WaitOK
  <2> QED
    BY <1>1, <2>1, <2>2 DEF CacheOK, Fresh
<1>6. ASSUME NEW q \in Requests, q # r PROVE RequestOK(q)'
  BY <1>1, <1>2, <1>3, <1>6, RequestKept DEF Inv, Untouched, TypeOK
<1>7. RequestOK(r)'
  <2>1. WaitOK(r)'
    BY <1>2, <1>3 DEF WaitOK, Ends, Live, Waits
  <2>2. AcceptOK(r)'
    <3> SUFFICES ASSUME pc'[r] = "done", reply'[r] = "accepted"
                 PROVE  token'[r] \in Tokens /\ Fresh(token[r].key, begun[r] - Ttl + 1)'
      BY DEF AcceptOK
    <3>1. token'[r] = token[r] /\ begun'[r] = begun[r] /\ token[r].key \in response[r]
      BY <1>3 DEF Ends
    <3>2. Fresh(token[r].key, sampled[r])
      BY <1>1, <1>2, <3>1 DEF WaitOK
    <3>3. begun[r] - Ttl + 1 <= sampled[r] /\ begun[r] - Ttl + 1 \in Int /\ sampled[r] \in Int
      BY <1>2
    <3>4. Fresh(token[r].key, begun[r] - Ttl + 1)
      BY <1>2, <3>2, <3>3, FreshBefore
    <3> QED
      BY <1>1, <1>2, <3>1, <3>4 DEF Fresh
  <2>3. SteadyOK(r)'
    BY <1>1, <1>2, <1>3 DEF SteadyOK, Ends, Live, Waits, NoToken
  <2> QED
    BY <2>1, <2>2, <2>3 DEF RequestOK
<1> QED
  BY <1>4, <1>5, <1>6, <1>7 DEF Inv

-----------------------------------------------------------------------------
(* The provider, the clock, and the whole.                                 *)

LEMMA RotateKeepsInv == ASSUME Inv, Rotate PROVE Inv'
<1>1. PICK keys \in SUBSET Keys :
        /\ published' = keys
        /\ withdrawn' = [k \in Keys |-> IF k \in published \ keys THEN now ELSE withdrawn[k]]
        /\ steady' = {r \in steady : pc[r] = "done" \/ token[r].key \in keys}
  BY DEF Rotate
<1>2. UNCHANGED <<pc, token, begun, sampled, refreshed, response, reply, jwks, metadata, now>>
  BY DEF Rotate, localVars
<1>3. TypeOK /\ CacheOK /\ Ttl \in Nat \ {0} /\ now \in Nat
  BY ConstantsAssumption DEF Inv, TypeOK
<1>4. TypeOK'
  <2>1. withdrawn' \in [Keys -> -Ttl .. now]
    <3>1. now \in -Ttl .. now
      BY <1>3
    <3> QED
      BY <1>1, <1>3, <3>1 DEF TypeOK
  <2> QED
    BY <1>1, <1>2, <1>3, <2>1 DEF TypeOK
<1>5. CacheOK'
  <2>1. ASSUME NEW k \in jwks.keys PROVE Fresh(k, jwks.expires - Ttl)'
    <3>1. k \in Keys /\ jwks.expires - Ttl \in Int /\ jwks.expires - Ttl <= now
      BY <1>3 DEF TypeOK
    <3>2. Fresh(k, jwks.expires - Ttl)
      BY <1>3 DEF CacheOK
    <3> QED
      BY <1>1, <1>2, <1>3, <3>1, <3>2 DEF Fresh
  <2> QED
    BY <1>2, <2>1 DEF CacheOK
<1>6. ASSUME NEW r \in Requests PROVE RequestOK(r)'
  <2>1. WaitOK(r) /\ AcceptOK(r) /\ SteadyOK(r)
    BY DEF Inv, RequestOK
  <2>2. /\ begun[r] \in 1 .. now /\ sampled[r] \in 1 .. now /\ response[r] \in SUBSET Keys
    BY <1>3 DEF TypeOK
  <2>3. WaitOK(r)'
    <3>1. ASSUME pc[r] = "response", NEW k \in response[r]
          PROVE  k \in published' \/ withdrawn'[k] >= sampled[r]
      <4>1. k \in Keys /\ Fresh(k, sampled[r])
        BY <2>1, <2>2, <3>1 DEF WaitOK
      <4> QED
        BY <1>1, <2>2, <4>1 DEF Fresh
    <3> QED
      BY <1>2, <2>1, <3>1 DEF WaitOK, Live, Fresh
  <2>4. AcceptOK(r)'
    <3>1. ASSUME pc[r] = "done", reply[r] = "accepted"
          PROVE  /\ token[r] \in Tokens
                 /\ \/ token[r].key \in published'
                    \/ withdrawn'[token[r].key] >= begun[r] - Ttl + 1
      <4>1. token[r] \in Tokens /\ Fresh(token[r].key, begun[r] - Ttl + 1)
        BY <2>1, <3>1 DEF AcceptOK
      <4>2. token[r].key \in Keys
        BY <4>1 DEF Tokens
      <4>3. now >= begun[r] - Ttl + 1
        BY <1>3, <2>2
      <4> QED
        BY <1>1, <4>1, <4>2, <4>3 DEF Fresh
    <3> QED
      BY <1>2, <3>1 DEF AcceptOK, Fresh
  <2>5. SteadyOK(r)'
    BY <1>1, <1>2, <2>1 DEF SteadyOK, Live, Waits
  <2> QED
    BY <2>3, <2>4, <2>5 DEF RequestOK
<1> QED
  BY <1>4, <1>5, <1>6 DEF Inv

LEMMA TickKeepsInv == ASSUME Inv, Tick PROVE Inv'
<1>1. /\ now < MaxTime /\ now' = now + 1
      /\ UNCHANGED <<pc, token, begun, sampled, refreshed, response, reply, steady, jwks,
                     metadata, published, withdrawn>>
  BY DEF Tick, localVars
<1>2. TypeOK'
  <2>1. now \in Nat /\ now \in 1 .. MaxTime /\ Ttl \in Nat /\ MaxTime \in Nat
    BY ConstantsAssumption DEF Inv, TypeOK
  <2>2. /\ 1 .. now \subseteq 1 .. now' /\ -Ttl .. now \subseteq -Ttl .. now'
        /\ 0 .. now + Ttl \subseteq 0 .. now' + Ttl /\ now' \in 1 .. MaxTime
    BY <1>1, <2>1
  <2>3. /\ begun' \in [Requests -> 1 .. now'] /\ sampled' \in [Requests -> 1 .. now']
        /\ withdrawn' \in [Keys -> -Ttl .. now']
    BY <1>1, <2>2 DEF Inv, TypeOK
  <2>4. jwks' \in [keys : SUBSET Keys, expires : 0 .. now' + Ttl] /\ metadata' \in 0 .. now' + Ttl
    BY <1>1, <2>2 DEF Inv, TypeOK
  <2> QED
    BY <1>1, <2>2, <2>3, <2>4 DEF Inv, TypeOK
<1>3. ASSUME NEW r \in Requests PROVE RequestOK(r)'
  BY <1>1, RequestKept DEF Inv
<1> QED
  BY <1>1, <1>2, <1>3 DEF Inv, CacheOK, Fresh

LEMMA StepInv == Inv /\ [Next]_vars => Inv'
<1> SUFFICES ASSUME Inv, [Next]_vars PROVE Inv'
  OBVIOUS
<1>1. CASE UNCHANGED vars
  BY <1>1 DEF vars, Inv, TypeOK, CacheOK, RequestOK, WaitOK, AcceptOK, SteadyOK, Fresh, Live
<1> QED
  BY <1>1, AuthenticateKeepsInv, FetchFailsKeepsInv, ReceiveMetadataKeepsInv,
     ServeJwksKeepsInv, ReceiveJwksKeepsInv, RotateKeepsInv, TickKeepsInv DEF Next, Progress

LEMMA Invariance == Spec => []Inv
  BY InitInv, StepInv, PTL DEF Spec

\* However slow the fetches are and in whatever order they arrive, a token is
\* accepted only under a key published within the cache's lifetime before the
\* request began (_jwks_document, which takes the expiry from the time it read
\* before the fetches).
THEOREM StalenessIsBounded == Spec => []StalenessBounded
  BY Invariance, InvImplies, PTL

\* A token that names a key published all along is never refused for its key,
\* whichever older response others store meanwhile (authenticate).
THEOREM PublishedKeysAreFound == Spec => []PublishedKeyIsFound
  BY Invariance, InvImplies, PTL

-----------------------------------------------------------------------------
(* The bound on the requests to the provider.                              *)

\* A waiting request that moves and still waits has less ahead of it.
LEMMA MovesAhead ==
  ASSUME Inv, [Next]_vars, NEW r \in Requests, Live(r), Live(r)',
         <<pc[r], refreshed[r]>>' # <<pc[r], refreshed[r]>>
  PROVE  Ahead(r)' < Ahead(r)
<1>1. pc'[r] \in Waits /\ pc[r] \in Waits /\ refreshed[r] \in BOOLEAN /\ TypeOK
      /\ (pc'[r] # pc[r] \/ refreshed'[r] # refreshed[r])
  BY DEF Live, Inv, TypeOK
<1>2. ASSUME NEW q \in Requests, q # r, Authenticate(q) \/ Progress(q) PROVE FALSE
  <2>1. CASE ReceiveMetadata(q) \/ ServeJwks(q)
    BY <1>1, <1>2, <2>1 DEF ReceiveMetadata, ServeJwks, TypeOK
  <2>2. CASE Authenticate(q) \/ ReceiveJwks(q) \/ FetchFails(q)
    <3>1. \/ \E t, start, rep : Answer(q, t, start, rep)
          \/ \E t, start, refresh : Fetch(q, t, start, refresh)
      BY <2>2 DEF Authenticate, ReceiveJwks, FetchFails, Evaluate
    <3> QED
      BY <1>1, <1>2, <3>1 DEF Answer, Fetch, TypeOK
  <2> QED
    BY <1>2, <2>1, <2>2 DEF Progress
<1>3. CASE Authenticate(r)
  BY <1>3 DEF Authenticate
<1>4. CASE FetchFails(r)
  <2>1. PICK rep : Answer(r, NoToken, 1, rep)
    BY <1>4 DEF FetchFails
  <2> QED
    BY <1>1, <2>1 DEF Answer, TypeOK, Waits
<1>5. CASE ReceiveMetadata(r)
  BY <1>1, <1>5 DEF ReceiveMetadata, Ahead, TypeOK
<1>6. CASE ServeJwks(r)
  BY <1>1, <1>6 DEF ServeJwks, Ahead, TypeOK
<1>7. CASE ReceiveJwks(r)
  <2>1. /\ pc[r] = "response" /\ now' = now
        /\ Evaluate(r, token[r], begun[r], response[r], refreshed[r])
    BY <1>7 DEF ReceiveJwks, provider
  <2>2. /\ token[r] \in Tokens /\ begun[r] \in 1 .. now
        /\ response[r] \in SUBSET Keys /\ refreshed[r] \in BOOLEAN
    BY DEF Inv, RequestOK, WaitOK, TypeOK
  <2>3. Ends(r, token[r], begun[r], response[r], refreshed[r])
    BY <1>1, <2>1, <2>2, Evaluations
  <2>4. /\ pc'[r] \in {"jwks", "discovery"} /\ refreshed'[r] = TRUE /\ refreshed[r] = FALSE
    BY <1>1, <2>3 DEF Ends, Waits
  <2>5. Ahead(r) = 4
    BY <2>1, <2>4 DEF Ahead
  <2>6. Ahead(r)' \in {2, 3}
    BY <2>4 DEF Ahead
  <2> QED
    BY <2>5, <2>6
<1>8. CASE Rotate \/ Tick \/ UNCHANGED vars
  BY <1>1, <1>8 DEF Rotate, Tick, localVars, vars
<1> QED
  BY <1>2, <1>3, <1>4, <1>5, <1>6, <1>7, <1>8 DEF Next, Progress

\* Every step of a waiting authentication leaves fewer requests to the provider
\* ahead of it, at most six in all: there is one refresh for an unknown kid,
\* whatever the provider publishes (authenticate, the second _jwks_document).
THEOREM OneRefresh == Spec => RefreshesOnce
<1>1. Inv /\ [Next]_vars =>
        [\A r \in Requests :
           Live(r) /\ Live(r)' /\ <<pc[r], refreshed[r]>>' # <<pc[r], refreshed[r]>>
             => Ahead(r)' < Ahead(r)]_vars
  BY MovesAhead
<1> QED
  BY <1>1, Invariance, PTL DEF Spec, RefreshesOnce
=============================================================================
