-------------------------- MODULE WebhookAdmission --------------------------
(***************************************************************************)
(* What a POST /webhook/github must pass before an attempt is stored, and  *)
(* what the stored attempt does to the lists it appears in: the checks of  *)
(* the headers, the bounded read of a streamed body, signature, JSON, the  *)
(* types and constraints of the tables, and the types of the replies.      *)
(*                                                                         *)
(* Requests share the store only, and a transaction is one step here: one  *)
(* request at a time. DeliveryLedger has the workers and the transactions. *)
(* Names that Application has too begin with Webhook here: both modules    *)
(* describe one HTTP application, and a module may extend both.            *)
(***************************************************************************)
EXTENDS Integers, Sequences

CONSTANTS
  Backends,   \* values of DELIVERY_STORE_BACKEND
  MaxBody,    \* MAX_WEBHOOK_BODY_BYTES
  MaxEvents,  \* MAX_EVENTS: the length of the deque, the rows of GET /events
  MaxChunk,   \* bound: bytes in a chunk of the stream
  MaxRows     \* bound: attempts ever stored

ASSUME WebhookConstants ==
  /\ Backends \subseteq {"memory", "postgresql"}
  /\ MaxBody \in Nat \ {0} /\ MaxEvents \in Nat \ {0}
  /\ MaxChunk \in Nat \ {0} /\ MaxRows \in Nat

VARIABLES
  backend,  \* the store the program was started with
  pc,     \* "idle", "reading", "ingesting"
  head,   \* what of the headers is still to be used
  total,  \* bytes of the body that have come
  held,   \* bytes of the body that are kept
  store,  \* the stored attempts, newest first
  answer  \* the last answer, and what it was to

webhookVars == <<backend, pc, head, total, held, store, answer>>

\* A header that must be a positive integer; "wide" is one that needs more than
\* 64 bits. A header that must have text.
Numbers == {"absent", "blank", "word", "not_positive", "fits", "wide"}
Texts == {"absent", "blank", "given"}

\* Content-Length: absent with a chunked body, not a size, or a size.
NotASize == -1
Absent == -2
Lengths == {Absent, NotASize} \cup 0 .. (MaxBody + 1)

\* What the signed bytes are. "undecodable": not UTF-8, nested too deep, a number
\* of too many digits. A JSON object, by its worst action, full_name or login:
\* "nul" and "surrogate" are texts with such a character.
Facts == {"text", "nul", "surrogate", "number", "object"}
Contents == {"undecodable", "not_json", "not_an_object"} \cup Facts

Heads == [hook : Numbers, id : Numbers, type : Texts, declared : Lengths]
NoHead == [hook |-> "absent", id |-> "absent", type |-> "absent", declared |-> Absent]

Attempts == [hook : Numbers, id : Numbers, type : Texts, facts : Facts]

Statuses == {"none", "received_200", "served_200", "invalid_400", "unauthorized_401",
             "too_large_413", "media_type_415", "internal_500", "unavailable_503"}

NoAnswer == [status |-> "none", signed |-> FALSE, up |-> TRUE, head |-> NoHead,
             content |-> "text"]

WebhookInit ==
  /\ backend \in Backends
  /\ pc = "idle"
  /\ head = NoHead
  /\ total = 0
  /\ held = 0
  /\ store = << >>
  /\ answer = NoAnswer

-----------------------------------------------------------------------------
(* Headers.                                                                *)

IsPositive(number) == number \in {"fits", "wide"}

\* Mutant: the type alone is enough.
TargetValidWithoutId(h) ==
  \/ h.id = "absent" /\ h.type # "blank"
  \/ IsPositive(h.id) /\ h.type = "given"

TargetValid(h) ==
  \/ h.id = "absent" /\ h.type = "absent"
  \/ IsPositive(h.id) /\ h.type = "given"

\* In the order of the code; named: event and delivery id have text. "none" if the headers pass.
HeadStatus(json, named, h) ==
  IF ~json THEN "media_type_415"
  ELSE IF ~named \/ ~IsPositive(h.hook) \/ ~TargetValid(h) \/ h.declared = NotASize
       THEN "invalid_400"
  ELSE IF h.declared > MaxBody THEN "too_large_413"
  ELSE "none"

Answer(given) ==
  /\ pc' = "idle"
  /\ head' = NoHead
  /\ total' = 0
  /\ held' = 0
  /\ answer' = given

Refusal(status) == [NoAnswer EXCEPT !.status = status]

Receive(json, named, h) ==
  /\ pc = "idle"
  /\ Len(store) < MaxRows
  /\ IF HeadStatus(json, named, h) # "none"
     THEN Answer(Refusal(HeadStatus(json, named, h)))
     ELSE /\ pc' = "reading"
          /\ head' = h
          /\ answer' = NoAnswer
          /\ UNCHANGED <<total, held>>
  /\ UNCHANGED <<backend, store>>

-----------------------------------------------------------------------------
(* Body. The server gives the handler as many bytes as were declared.      *)

\* Mutant: the limit is for what came before this chunk.
FitsBefore(n) == total <= MaxBody

Fits(n) == total + n <= MaxBody

Chunk(n) ==
  /\ pc = "reading"
  /\ head.declared # Absent => total + n <= head.declared
  /\ IF Fits(n)
     THEN total' = total + n /\ held' = held + n /\ UNCHANGED <<pc, head, answer>>
     ELSE Answer(Refusal("too_large_413"))
  /\ UNCHANGED <<backend, store>>

BodyEnds ==
  /\ pc = "reading"
  /\ head.declared \in {Absent, total}
  /\ pc' = "ingesting"
  /\ UNCHANGED <<backend, head, total, held, store, answer>>

\* The stream raises ClientDisconnect and nobody gets an answer. Once the thread
\* runs, a client that goes away changes nothing.
Disconnect ==
  /\ pc = "reading"
  /\ Answer(NoAnswer)
  /\ UNCHANGED <<backend, store>>

-----------------------------------------------------------------------------
(* Ingestion.                                                              *)

\* Mutant: the payload is parsed before its signature is verified.
VerdictParsingFirst(signed, content) ==
  IF content = "undecodable" THEN "internal_500"
  ELSE IF content = "not_json" THEN "invalid_400"
  ELSE IF ~signed THEN "unauthorized_401"
  ELSE "accepted"

\* UnicodeDecodeError and the like are not JSONDecodeErrors.
Verdict(signed, content) ==
  IF ~signed THEN "unauthorized_401"
  ELSE IF content = "undecodable" THEN "internal_500"
  ELSE IF content = "not_json" THEN "invalid_400"
  ELSE "accepted"

\* A payload that is not an object counts as an empty one.
Built(content) ==
  [hook |-> head.hook, id |-> head.id, type |-> head.type,
   facts |-> IF content = "not_an_object" THEN "text" ELSE content]

\* The CHECK constraints on what the service writes.
Constrained(a) ==
  /\ a.hook # "not_positive"
  /\ \/ a.id = "absent" /\ a.type = "absent"
     \/ a.id \in {"fits", "wide"} /\ a.type = "given"

\* BIGINT and TEXT: no wider integers, no NUL, no JSON object.
Typed(a) ==
  /\ a.hook # "wide" /\ a.id # "wide"
  /\ a.facts \notin {"nul", "object"}

\* Mutant: the columns take any JSON value as it is.
KeptAsJson(a) == a

\* A number bound to a text column is cast; the deque keeps what it is given.
Kept(a) ==
  IF backend = "postgresql" /\ a.facts = "number" THEN [a EXCEPT !.facts = "text"] ELSE a

\* What add() ends with. An unpaired surrogate cannot be encoded for the server,
\* an error that SQLAlchemy does not wrap.
Added(a, up) ==
  IF backend = "memory" THEN "received_200"
  ELSE IF ~up THEN "unavailable_503"
  ELSE IF a.facts = "surrogate" THEN "internal_500"
  ELSE IF ~Constrained(a) \/ ~Typed(a) THEN "unavailable_503"
  ELSE "received_200"

\* The answer is encoded after the attempt is stored.
Status(a, up) == IF a.facts = "surrogate" THEN "internal_500" ELSE Added(a, up)

Put(a) ==
  LET rows == <<Kept(a)>> \o store
  IN store' = IF backend = "memory" /\ Len(rows) > MaxEvents
              THEN SubSeq(rows, 1, MaxEvents) ELSE rows

\* up: the database can be reached and the transaction commits.
Ingest(signed, content, up) ==
  /\ pc = "ingesting"
  /\ total = 0 => content = "not_json"
  /\ LET verdict == Verdict(signed, content)
         a == Built(content)
         status == IF verdict = "accepted" THEN Status(a, up) ELSE verdict
     IN /\ IF verdict = "accepted" /\ Added(a, up) = "received_200"
           THEN Put(a) ELSE UNCHANGED store
        /\ Answer([status |-> status, signed |-> signed, up |-> up, head |-> head,
                   content |-> content])
  /\ UNCHANGED backend

-----------------------------------------------------------------------------
(* Reading.                                                                *)

\* GET /events gives the facts as they are. The response model of the attempts
\* takes texts only. Neither can encode an unpaired surrogate.
ServesRecent(a) == a.facts # "surrogate"
Serves(a) == a.facts \notin {"surrogate", "number", "object"}

ReadRecent(up) ==
  /\ pc = "idle"
  /\ Answer(Refusal(
       IF backend = "postgresql" /\ ~up THEN "unavailable_503"
       ELSE IF \A i \in 1 .. Len(store) : i <= MaxEvents => ServesRecent(store[i])
            THEN "served_200"
       ELSE "internal_500"))
  /\ UNCHANGED <<backend, store>>

\* A page of GET /api/v1/delivery-attempts, or the one attempt of a lookup.
ReadAttempts(first, past, up) ==
  /\ pc = "idle"
  /\ Answer(Refusal(
       IF backend = "postgresql" /\ ~up THEN "unavailable_503"
       ELSE IF \A i \in first .. past - 1 : Serves(store[i]) THEN "served_200"
       ELSE "internal_500"))
  /\ UNCHANGED <<backend, store>>

WebhookNext ==
  \/ \E json, named \in BOOLEAN, h \in Heads : Receive(json, named, h)
  \/ \E n \in 1 .. MaxChunk : Chunk(n)
  \/ BodyEnds
  \/ Disconnect
  \/ \E signed, up \in BOOLEAN, content \in Contents : Ingest(signed, content, up)
  \/ \E up \in BOOLEAN : ReadRecent(up)
  \/ \E first, past \in 1 .. Len(store) + 1, up \in BOOLEAN : ReadAttempts(first, past, up)

WebhookSpec == WebhookInit /\ [][WebhookNext]_webhookVars

-----------------------------------------------------------------------------
(* Properties.                                                             *)

WebhookTypeOK ==
  /\ backend \in Backends
  /\ pc \in {"idle", "reading", "ingesting"}
  /\ head \in Heads
  /\ total \in Nat /\ held \in Nat
  /\ store \in Seq(Attempts)
  /\ backend = "postgresql" =>
       \A i \in 1 .. Len(store) : store[i].hook = "fits" /\ store[i].facts = "text"
  /\ backend = "memory" => Len(store) <= MaxEvents
  /\ answer.status \in Statuses

\* README.md:229: however a body is declared and cut into chunks, no more than
\* the limit is ever kept (read_bounded_body). The types come with it: the tables
\* hold only what their columns take, and the deque no more than MAX_EVENTS.
BodyIsBounded == WebhookTypeOK /\ held <= MaxBody /\ total <= MaxBody

\* README.md:230: a sender without the secret learns one thing from a whole body,
\* that it is refused: nothing of its JSON, of the store, or of an error.
SignatureComesFirst ==
  answer.head # NoHead /\ ~answer.signed => answer.status = "unauthorized_401"

\* The route refuses whatever the CHECK constraints would: PostgreSQL turns a
\* signed JSON payload down only for a value its column types do not hold.
ChecksCoverConstraints ==
  answer.head # NoHead /\ answer.status = "unavailable_503" /\ answer.up =>
    \/ "wide" \in {answer.head.hook, answer.head.id}
    \/ answer.content \in {"nul", "object"}

\* README.md:348, the list endpoint returns recent observed receipt attempts:
\* with PostgreSQL no stored attempt makes a list fail that it is part of, since
\* what is not a text was cast or refused on its way in. The memory store keeps
\* a number or an object as it came, and its lists fail until that is evicted.
ListsAreServed ==
  backend = "postgresql" /\ answer.head = NoHead => answer.status # "internal_500"
=============================================================================
