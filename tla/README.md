# GitHub Webhook Monitor in TLA+

The program receives GitHub webhooks, keeps a ledger of every receipt attempt,
and gives operators a management API: list and look up attempts, reconcile them
with GitHub's delivery history, and ask GitHub to redeliver one record. This
directory models it, checks the model with TLC and proves the main safety
properties of redelivery, ledger and reconciliation with TLAPS. Paths are
relative to the repository.

## The system

| Component | State | Operations | Interacts with |
|---|---|---|---|
| Webhook ingestion (`app/api/routes.py`, `app/services/webhooks.py`) | none of its own | one POST handler; the service runs in a thread-pool thread | ledger |
| Delivery ledger (`app/storage/deliveries.py`, `app/persistence/postgres.py`) | a deque of `MAX_EVENTS` attempts, or tables `github_deliveries` and `delivery_attempts` | add, get, page, recent | ingestion, queries, redelivery |
| Queries (`app/services/delivery_queries.py`, `app/services/recovery_actions.py`) | none; the client carries a cursor | list a page, get one | ledger, journal |
| GitHub reconciliation (`app/services/github_reconciliation.py`) | the loop's locals; the client carries a cursor | bounded search of GitHub's history | GitHub client, ledger |
| Controlled redelivery (`app/services/github_redelivery.py`) | the handler's locals | look up, search, journal the intent, POST once, journal the outcome | all of the above, journal |
| Recovery-action journal (`app/storage/recovery_actions.py`, `app/persistence/postgres.py`) | a deque of `MAX_EVENTS` actions, or table `recovery_actions` | create, finalize, get, list | redelivery, queries |
| GitHub client (`app/integrations/github/client.py`) | none | list a page, request a redelivery | GitHub |
| OIDC authentication (`app/security.py`) | cached discovery document and JWKS | authenticate | identity provider |
| Shared token, capabilities (`app/security.py`, `app/domain/management.py`) | none | compare, map scopes to capabilities | every management route, journal |
| Configuration (`app/config.py`) | the settings, read once | validate | all |
| Runtime, lifespan, readiness (`app/runtime.py`, `app/factory.py`) | engine, HTTP clients | build, check, serve, close | all |
| Migrations (`migrations/`) | the schema's revision | upgrade, downgrade | the tables, under a running program |
| Response models (`app/api/v1/models.py`) | none | validate, format | list and lookup routes |

What is hard here: management handlers interleave at their awaits on one event
loop, while ledger calls and lookups run in thread-pool threads; a redelivery
POST has an effect outside the database that cannot be rolled back, may time out
and happen afterwards; a commit's answer may be lost; two webhooks of one
delivery race for one unique index entry; the memory stores evict while someone
waits or loops; clients page through lists that change; a slow fetch fills a
cache that others read; an operator migrates the schema under requests.
`PROJECT.json` lists each hazard at its line.

What makes each part correct:

- *redelivery*: only verified records are posted, never without an intent on
  record, at most one effect per action, and neither the journal nor the reply
  says more than what GitHub did and may still do;
- *ledger*: one row per delivery identity, none without an attempt, every
  attempt joined to the identity it carried, 200 only for what is recorded,
  every request answered;
- *queries and reconciliation*: a traversal repeats nothing and skips nothing
  that stays, a cursor is given when more follows, and "complete" is said only
  when it is;
- *authentication and capabilities*: a withdrawn key is trusted no longer than
  the cache lives, a published one is found, one capability's scope opens no
  other, outsiders learn nothing, the journal names the scope that was used;
- *ingestion*: the limit holds for every body, only a signed body gets an answer
  about its content, the route refuses what the tables' constraints would;
- *lifespan and migrations*: what is owned is released and only that, a request
  finds what it needs open, a ready program finds its schema, and history is lost
  only to a migration below the revision that introduced it;
- *all of it together*: every repeated attempt in the ledger has its explanation
  in the journal or at GitHub.

## Modules

| Module | Models |
|---|---|
| `Redelivery` | the redelivery handler, the search, both journals, GitHub |
| `RedeliveryContract` | what redelivery promises, implemented by `Redelivery` |
| `JournalLookup` | `Redelivery` composed with lookups that loop over the memory journal |
| `DeliveryLedger` | webhook workers, connection pool, transactions, memory deque, lookup |
| `LedgerContract` | what the ledger promises, implemented by `DeliveryLedger` |
| `RedeliveryLoop` | the two contracts composed with GitHub: redeliveries come back as webhooks |
| `KeysetPagination` | the paged lists over rows that come and go |
| `Reconciliation` | the bounded search of GitHub's history with continuation cursors |
| `Traversal` | what a paging client is promised, implemented by both modules above |
| `ManagementIdentity` | the OIDC key cache and the provider |
| `ManagementAccess` | settings, authentication modes, capabilities, evidence |
| `Lifespan` | what the app builds, owns, checks and closes |
| `Application` | `ManagementAccess` composed with `Lifespan` |
| `WebhookAdmission` | what a webhook must pass to be stored, and whether what is stored can be listed |
| `SchemaMigrations` | five revisions up and down under a running program |
| `RedeliveryProofs` | proofs about `Redelivery` and `JournalLookup` |
| `LedgerProofs`, `ReconciliationProofs`, `KeysetProofs` | proofs about `DeliveryLedger`, `Reconciliation`, `KeysetPagination` |
| `LoopProofs`, `IdentityProofs`, `MigrationProofs` | proofs about `RedeliveryLoop`, `ManagementIdentity`, `SchemaMigrations` |
| `ApplicationProofs` | proofs about `Application` with its two parts, and about `WebhookAdmission` |
| `MC...` | instances for TLC, with their `.cfg` files |

Operators named in a comment that begins with "Mutant" are faulty variants of
the definition that follows them. They are not part of a specification: each
shows that a property fails if the code had that fault.

### Redelivery

`pc[r]` says which await a handler is in: `lookup` (thread-pool call), `search`
(a page of GitHub's history), `post`. The code between two awaits is one action,
journal calls included, since these run on the event loop. `Submit` covers the
dependency, the switch and the parameter checks; `Lookup` the lookup and
`repository_coordinates`; `ReceivePage` a page, and after the last one the match
on `github_delivery_id`, the insert of the intent and the sending of the POST;
`Answered`, `ConnectFails` and `TimesOut` the branches of `request_redelivery`
with `finalize` and the reply. With PostgreSQL every journal call may raise with
or without effect. Two backends differ in `Retained` (the deque's `maxlen`) and
`LookupFailure`.

GitHub is external: `Deliver` grows the history, whose record ids are the places
in it; `GitHubHandles` decides a POST at any time, also after the handler gave up;
`Redeliver` makes the delivery it took on. A 5xx leaves open whether it did.
`Restart` ends all handlers and empties a memory journal. Action ids are numbers
in the order of creation; the program draws UUIDs. A page is the `PerPage` records
below a cursor; `linked` in `PageArrives` covers next links the client rejects.

`RedeliveryContract` has intents, effects and verdicts only. The refinement maps
the journal's rows to intents and verdicts (a 5xx and an unknown outcome both to
"uncertain") and GitHub's side to effects.

### JournalLookup

`GET /recovery-actions/{id}` over the memory journal runs in a thread, and loops
over the deque without a lock. `Turn` is one turn of the loop. An append by a
redelivery handler (`Disturb`) makes the next turn raise; `finalize`, which
replaces a row in its place, does not. `truths` collects what was true of the
wanted action while the loop ran.

### DeliveryLedger

A worker is a thread-pool thread. A transaction is named by its attempt; a row of
`github_deliveries` by the transaction that inserted it, so it is visible when
that one is `committed`. `InsertDelivery` is `INSERT ... ON CONFLICT DO NOTHING`:
it is disabled while an open transaction holds the identity (PostgreSQL waits),
and returns nothing when a committed one does; `SelectDelivery` then reads at
READ COMMITTED, the engine's default. `Commit` sends the commit, `ServerCommits`
decides it, `Acknowledge` sees the answer. `Fails` is any error; with a lost
connection the server keeps the transaction until `ServerDrops`, or still commits
it after the 503. A memory lookup goes through the deque element by element
(`ScanStep`) and fails if another thread appended meanwhile. `pushed` is a history
variable: what the deque was given since the process started, in order, by which
`AckedIsRecorded` judges what it has dropped. The checks before
`add` are one action, `Refuse`, since none of them changes state;
`WebhookAdmission` has them one by one.

### RedeliveryLoop

The contracts of ledger and journal are used as they stand, through `INSTANCE`;
every action of the loop is one of theirs, with its effect on GitHub's history,
or one of GitHub's alone. `Ask` holds the check that joins the two components:
the record named has the guid of the attempt named, and the attempt is stored.
`TakeOn` makes a record of the history, `Send` another webhook. Records also come
from events, and from redeliveries that an operator asks GitHub for directly.

### KeysetPagination

Rows are pairs of a time and an id; `Precedes` is the order of both columns.
`After` is the filter, `First` the order and limit, `NextCursor` the peek at one
row more. Pages are kept as sets. Rows are added in any order of keys, because the
time is read before the row is stored. `kept` is a history variable: the rows
present since the traversal began. The attempts list and the actions list run this
algorithm with the same code; a cursor stands for the key it encodes, and a
request that fails changes nothing.

### Reconciliation

One client at a time, since the program keeps nothing between two of its requests.
`Lookup` covers the ledger lookup, the coordinates and `decode` of the cursor,
`ReceivePage` one page with `parse_delivery_summary` and `extract_next_cursor`,
`Answer` the reply with `search_complete` and the new cursor. GitHub's history
grows at the top (`Deliver`) and expires at the bottom (`Expire`) between any two
steps. `Begin` also lets a client come with the cursor it has from another
attempt. `owed` is a history variable: the matching records present since the
first request; `misled` says that a next link to another host or path, which the
client takes for none, ended the search while records remained.

### ManagementIdentity

`authenticate` up to the key: cache hit, or discovery (if its document expired)
and JWKS fetch, one refresh for an unknown `kid`. The clock is read before the
fetches (`sampled`); the provider's answer is taken at `ServeJwks` and arrives at
`ReceiveJwks`, so that concurrent answers overtake each other and an older one may
replace a newer one. `steady` and `withdrawn` are history variables. Header and
claim checks that do not depend on the key are left out: they only refuse.

### ManagementAccess, Lifespan and Application

A setting is a value of the kind that validation tells apart: a token is absent,
short or strong, a scope is a word, blank, or padded with blanks. `EffectiveFull`
is the deprecated alias taking the place of the full scope, `ScopesAccepted` the
check for doubles after it, `GitHubAccepted` the dependencies of the GitHub
features. `Handle` is a whole request: authentication in the configured mode, the
capability of the route, the feature switch, and what the handler touches, with
the journal row it writes (`EvidenceOf`).

`Lifespan` has what `create_app` builds unless it was passed in (`Owned`), the
first readiness check, which may fail, and the closes in their order, each of
which may raise and skip the rest. `Application` runs both: settings decide what
is needed, and a request touches resources that must be open.

### WebhookAdmission

One request at a time against one store. `HeadStatus` is the checks in the order
of the code; `Chunk` one chunk of the stream with the limit; `Ingest` the service
and the insert. Values are told apart by what a later step does with them: ids
that need more than 64 bits, texts with a NUL or an unpaired surrogate, JSON
numbers and objects where texts are expected. `Constrained` and `Typed` are the
tables' CHECK constraints and column types, `Serves` the response model.

### SchemaMigrations

alembic runs all revisions in one transaction with the table locks that each DDL
statement takes; a run may be refused by a constraint, aborted, or chosen as a
deadlock's victim. `Fail` is any error of a statement: the transaction is rolled
back and its locks are released. Requests are the lists of table locks of their statements, the
readiness check of `runtime.py` included. Whoever comes later queues behind a
migration that waits. `received` and `recorded` are history variables: the lowest
revision since a row was committed.

## Runs

| Run | Shows | Bounds |
|---|---|---|
| `redelivery_postgresql` | targets, intents, outcomes and replies are right; `Redelivery` implements `RedeliveryContract`; every request is answered | 2 requests, 2 guids, 2 targets, 2 records made by GitHub, 2 actions, 2 pages of 1 record |
| `redelivery_memory` | what remains true when rows are evicted, and what a lookup beside the handlers answers | 2 requests, 3 actions, 2 places, 1 lookup |
| `redelivery_eviction` | **finding**: a row evicted under a waiting handler makes it answer 500 and the outcome is lost | 2 requests, 1 place |
| `ledger_postgresql` | the two tables are consistent, a 200 is given for what is committed, `DeliveryLedger` implements `LedgerContract`, nobody waits for ever | 2 workers, 2 connections, 2 identities, 3 attempts |
| `ledger_memory` | a 200 is kept until `MAX_EVENTS` others came after it, and lookups are truthful | 2 workers, 4 attempts, 2 places |
| `keyset` | traversals neither repeat nor skip; implements `Traversal` | 4 rows, 2 times, pages of 1 and 2, both backends, 3 places |
| `identity` | bounded trust in withdrawn keys, published keys found, one refresh | 2 requests, 2 keys, lifetime 2, 3 instants |
| `reconciliation` | cursors split a traversal, it implements `Traversal`, requests are answered | 3 attempts of 2 deliveries, 5 records, 2 pages of 2 |
| `application` | accepted settings work, capabilities are separate, evidence is exact, resources are owned and released | all switches; 4 scope mappings with every full scope and alias; all credentials and routes; 0, 1 or all resources passed in |
| `admission` | headers, body, signature and payload against constraints, columns and lists | limit of 3 bytes, chunks of up to 2, 2 rows, both backends |
| `migrations` | history, readiness and progress under migrations | 2 workers, base, 0003 and 0005 as targets, 1 attempt, 1 action |
| `loop` | repeated attempts are explained, accepted actions are settled | 2 guids, 3 records, 2 actions, 1 redelivery from elsewhere |

Why these are enough: two requests give every interleaving of a pair of handlers
around one journal row and one history; two pages reach the search limit, the
link's end and a history that grows between pages; two workers and three attempts
give a holder and a waiter for one index entry, and a third webhook after either
committed, rolled back or was lost; two equal and two different times put ties on
both sides of a page's end; five records over requests of two pages of two give
a traversal of more than one request that grows and expires; a lifetime of 2 in 3
instants lets a fetch outlast the instant it began in and the cache be hit
afterwards; the three targets cross every revision in both directions; three
records are an event, its redelivery and one more. The constants named "bound" in
the modules (`MaxHistory`, `MaxCreated`, `MaxAttempts`, `MaxTime`, `MaxRows`,
`MaxChunk`, `MaxActions`, `Targets`, `MaxRecords`, `MaxWithout`) only stop the state
space. The proofs have no bounds. Symmetry is used for requests, workers,
identities and keys, and never in a run with a liveness property.

A type invariant stands as `TypeOK` in each component's module. It is part
of another invariant in seven runs (`VerifiedTarget`, `PagesDescend`,
`StalenessBounded`, `OwnedAreReleased`, `BodyIsBounded`, `RevisionWasAskedFor`,
`DeliveredIsOnRecord`). It is proved for every component.

Deadlock is checked but in two runs: `application`, where the program may refuse
its settings or stop for good, and `loop`, which ends when its bounds are used up.

## Where code and documents disagree

`redelivery_eviction` refutes `README.md` line 470 (after the single POST attempt
the action is finalized): with the memory journal, `MAX_EVENTS` later actions
evict the row of a waiting one. Smaller disagreements that the models contain as
the code has them, and that no run is about:

- a memory lookup answers 500 if a webhook is stored while it loops
  (`app/storage/deliveries.py` line 80), where `README.md` line 383 has the
  backends differ in retention only; `LookupIsTruthful` holds all the same;
- a next link to another host or path counts as the end of the history
  (`app/integrations/github/client.py` line 217), so `search_complete` may be true
  while history remains (`README.md` line 431); `misled` marks these states, and
  `CursorSplits` shows that there are no others;
- `failed` stands for a definite failure in `README.md` line 479, and the code also
  records it when GitHub answers a 5xx (`app/integrations/github/client.py` line
  148), after which the redelivery may still happen; `OutcomeIsTruthful` and the
  contract's "uncertain" leave that case open;
- the deprecated alias replaces the full scope also when that was set to its
  default explicitly (`app/config.py` lines 83 and 87);
- the memory store keeps an `action` that is not a text, and then the lists with
  it answer 500 (`app/services/webhooks.py` line 70, `README.md` line 348);
  `ListsAreServed` is about PostgreSQL for that reason.

## Fairness

`Redelivery` and `Reconciliation`: weak fairness of each handler's own steps. A
thread-pool call returns and the HTTP client has a timeout (`app/factory.py`), so
a waiting handler goes on. Nothing is assumed of operators or of GitHub; a POST may
stay unanswered for ever on GitHub's side. `DeliveryLedger`: threads run,
statements that can proceed do, and the server ends transactions whose client is
gone; timeouts of the pool are not relied on. `SchemaMigrations`: alembic goes on,
and PostgreSQL finds every deadlock (weak fairness), so that the order of locks
alone delays nobody for ever: `EveryoneEnds` is about what a victim, a failed
request or an ended run leaves behind, and shows that nobody waits for locks of
someone who is gone; a worker's statement is
strongly fair, since PostgreSQL grants a table lock in the order of its queue and
a migration cannot overtake a waiting statement again and again. `RedeliveryLoop`:
GitHub sends what it has taken on or gives up. `ManagementIdentity` needs no
fairness: `RefreshesOnce` is a rank that falls with every step of a waiting
authentication, so it ends if its fetches answer or time out.

## Proofs

Every safety property of a passing run is a theorem, for any values of the
constants that satisfy the module's assumption (`ConstantsAssumption`,
`WebhookConstants`): any number of requests, workers, attempts, rows and clients,
any history, page size and bound, and either backend where a module has both. The run shows it on a small instance first. What
the assumptions add to the types of the constants is little: the requests of
`Redelivery`, the workers of `SchemaMigrations`, the times and the ids of
`KeysetPagination` are finitely many; limits and page sizes, the lifetime of the
cache and the time it is watched for are positive; a scope value is a word or not,
and none is the absent one; and in `RedeliveryLoop` no action is called "event" or
"elsewhere", the two causes a record may have besides an action.

`RedeliveryProofs`: `TypeCorrect`, `OnlyVerifiedTargets`, `IntentBeforeMutation`,
`TruthfulOutcomes`, `RowsHaveOneOwner` (no two handlers wait on one action, and its
row is still initiated) and `TerminalRowsAreFinal` (rows are final and, with
PostgreSQL, never lost). None is inductive alone. `TypeInv` adds to `TypeOK` that
a search's matches are records of the history with the guid of the attempt asked
about (`SearchOK`: the history only grows, so what matched on an early page still
does at the end), and that a handler in `post` holds an id whose POST was sent.
The safety proof adds `EffectOK`, GitHub's side: a pending, refused or unreached
POST has had no effect, an accepted one has. The steps are taken by what they do
(`Quiet`, `Posts`, `RowOnly`, `Settles`, and GitHub's own): `StepKinds` shows that
every step is of one of these kinds, and each invariant is shown kind by kind.

`TruthfulReplies` and `OneEffectPerAction` need to know of the past: that an id a
client was given is no other waiting handler's (`IdsAreOwn`, or a later outcome
could contradict an earlier reply), and that an action has one record in GitHub's
history and none while GitHub owes it (`RecordsAreSingle`). `NoIntentIsStranded` is
inductive with the safety invariant. `ImplementsContract` is the refinement of
`RedeliveryContract` with PostgreSQL: a step that posts is an intent, one that
settles a verdict, GitHub's an effect, the rest stutter. The contract's actions are
the ids up to `MaxCreated`; `RoomOK` (the rows, and the handlers that may still
create one, are no more than that) shows that the bound never cuts a handler off.

`LookupsAreCurrent` is about `JournalLookup`. Its invariant, `ScanOK`, says of a
loop under way that the client has no answer yet, that what is true of its action
now is in `truths`, and that as long as nothing was pushed the wanted row, if there
is one, is still ahead. The loop takes the largest id ahead, so `LargestOfSome`
shows that a set of ids has one.

`LedgerProofs`: `TypeCorrect`, `LedgerIsConsistent`, `SelectAlwaysFinds`,
`AcknowledgedIsRecorded` and `ImplementsContract`, the refinement of
`LedgerContract`. The committed tables say nothing inductive, so `TablesOK` speaks
of all rows, committed or not: each row belongs to a transaction that is not
aborted, identities are unique over them as in the index (`DeliveriesOK`), an
attempt refers to its own transaction's delivery row or to a committed one
(`MayRefer`, which makes a reference survive another's rollback), a transaction
whose commit was sent has its attempt, and each worker's place fixes how far its
transaction is (`StagesOK`, `WorkersOK`). `AckedOK` says where acknowledged attempts
went: with PostgreSQL into the committed rows; with the memory store into `pushed`,
of which the deque holds the newest, newest first (`NewestFirst`, kept by
`PushNewest`), so that what is no longer there has `MAX_EVENTS` after it. The
refinement then has three visible
steps: a webhook comes, a commit is decided, a 200 is sent; the rest stutter.
`LookupsAreTruthful` adds what a loop nobody disturbed has passed (`ScanOK`), and
that only the lookup itself, or a restart, ends a lookup.

`ReconciliationProofs`: `TypeCorrect`, `CursorsSplit`, `CursorsDescend` and
`ImplementsTraversal`, the refinement of `Traversal`. The invariant follows the
search: what it has found lies between its own cursor and the client's, what it
still owes lies below its own (`ProgressOK`); between requests the client's cursor
takes that place (`CursorOK`), and a complete answer leaves nothing unless a link
led astray (`EndOK`). `PageFinds` is the arithmetic of one page: what is owed is
found, or lies below the next cursor.

`KeysetProofs`: `TraversalsDescend`, `CursorsAreExact` and `ImplementsTraversal`.
`ReaderOK` puts what a client was served at and above its cursor, and what it is
owed and has not got below it. All three rest on the order of keys having a first
and a last element in every finite set. The induction behind that is one the
library states of sets: strict inclusion of finite subsets is well-founded, and of
the sets of keys that precede a key a smallest one belongs to the first key.

`LoopProofs`: `DeliveredIsStored` and `RepeatsAreExplained`. The first needs that an
intent names two records of one delivery and that a record made by an action is of
that delivery (`JournalOK`). The second counts: the attempts of a delivery are
labelled by their records without repetition, and its records are one of an event,
at most one for each action that may have repeated it (`HistoryOK`), and those from
elsewhere.

`IdentityProofs`: `StalenessIsBounded`, `PublishedKeysAreFound`, `OneRefresh`. A key
the provider gave out at some time is `Fresh` of that time for good: still
published, or withdrawn no earlier. The invariant carries it from the provider's
answer over the cache to the request that is accepted under it (`WaitOK`, `CacheOK`,
`AcceptOK`), with the clock that was read before the fetches between them.

`MigrationProofs`: `RevisionsWereAskedFor`, `CommittedIsKept`, `ReadinessIsMeant`.
The heart is who holds which lock when: a statement holds or will ask for each of
its locks and holds one of the journal at the head revision only (`WorkerOK`), and a
run that has undone 0005 or 0004 holds the journal's table alone until it ends
(`RunOK`), so that the rows its constraint admitted are the rows at its commit. A
ready answer stands for the head revision and no run under way (`VouchedOK`).

`ApplicationProofs`: `ScopesAreSeparate`, `EvidenceIsOnRecord`, `OutsidersStayOutside`
from what the accepted settings are (`FullIsNobodysOwn`: four different scopes leave
the full one to no capability), `AcceptedSettingsDoWork` and `OwnedAreClosed` from
the lifespan's place beside them (`LifeOK`: what is owned and open while closing is
still to be closed). Its last part is about `WebhookAdmission`: `BodiesAreBounded`,
`SignaturesComeFirst`, `ConstraintsAreCovered`, `StoredIsServed`, from three parts of
one invariant: the bytes kept are the bytes counted and the headers of a request
under way have passed (`BodyOK`), and the tables hold text only (`StoreOK`).

Only model-checked: liveness (`Responds` of `Redelivery` and of `Reconciliation`,
`Answered`, `EveryoneEnds`, `AcceptedIsSettled`), since fairness and `ENABLED` are
out of the prover's reach. `PostEndsFinalized` is the property that
`redelivery_eviction` refutes. Induction over
data with an operator for its hypothesis is out of reach too; where an argument
needs one it goes over finite sets, as in `KeysetProofs`. No module declares a
RECURSIVE operator. The guards of a CASE exclude each other, or it is a chain of IF:
TLA+ leaves open which of two true guards CASE takes.

## Plan

Modelled: every component that changes state. Proved: every safety property that a
run checks. Left for later, in this order: the contracts' own consequences (that
`LedgerContract` and `RedeliveryContract` entail what `RedeliveryLoop` relies on,
stated of the contracts alone); the ranks that carry `Responds` and `Answered`, as
action properties in the manner of `RefreshesOnce`; the bounds of the search (how
many pages a redelivery reads at most) as a theorem.

## Not modelled

- HMAC, JWT and JSON parsing, cursor and timestamp encodings, beyond what they
  accept or refuse; the layout of replies and logs.
- Settings that are one number or one address (limits, timeouts, URLs, log level):
  each is checked alone. Configuration is marked partly modelled for this reason,
  and the response models for their layout.
- Two alembic runs at once, and offline SQL output; waits for single rows while a
  migration runs (those are `DeliveryLedger`'s).
- That journal calls to PostgreSQL run on the event loop and hold up other
  requests: a matter of time, not of states. The connection pool's limit is in
  `DeliveryLedger`, but two workers do not exhaust two connections.
- Handlers of one client among many: `Reconciliation` follows one client, because
  the program keeps nothing between requests and clients share only the history.
