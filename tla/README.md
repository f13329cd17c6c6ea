# A verification project for the insurance platform

TLA+ modules, TLC runs and TLAPS proofs for the back end in `src/`: a Django
REST service over PostgreSQL with a Celery worker, which keeps an insurer's
customers, policies and claims, and scores each customer's risk.

Run everything from this directory:

    tlc -workers 2 -config RecomputeFaults.cfg MCRiskFreshness
    tlapm RiskRecomputeProofs.tla

`PROJECT.json` lists the runs, the definitions with the source lines they
model, the fault variants, the hazards and the theorems.

## 1. Inventory

| Component | State | Operations | Hard behaviour | What makes it correct |
|---|---|---|---|---|
| Risk rule set (`apps/risk/rules.py`) | none; tables of bands | `evaluate`, `max_score`, `tier_for` | band edges; two factors reading the same claims; factors that cannot be evaluated | every input selects one band per factor; score on the scale; one tier; agrees with the published table; another claim never lowers a score |
| Risk engine (`engine.py`) | `RiskAssessment` and factor rows, `Customer.risk_score` mirror | `score_customer` (three reads), `persist` (upsert under the customer's row lock) | reads precede the lock; several callers at once | the stored score is the score of the current data once all is quiet; archived customers are left alone; mirror equals assessment |
| Automatic recompute (`signals.py`, `tasks.py`, `config/celery.py`) | callbacks pending at commit, messages at the broker, the task in each worker | `post_save` → `on_commit` → `.delay()`; task with `max_retries=5`; `on_failure` | lost enqueues, early acknowledgement and crashes, retries, parallel workers | no change goes unnoticed; never a first assessment; retries end; a failure is on record |
| On-demand recompute and risk API (`views.py`, `serializers.py`) | none of its own | `POST /recompute/`, list, retrieve, derived `is_stale` | races with writes, workers and archiving | result computed from one state of the data; `is_stale` errs to the safe side |
| `computerisk` command | none of its own | scores the book in one go | prefetched reads before the first persist, customers archived meanwhile | one customer's failure stops nobody else |
| Customers (`apps/customers`) | rows, `client_id` sequence derived from the highest row | create, PATCH, archive (DELETE), list, retrieve | `SELECT … FOR UPDATE` on the highest row and one retry; full-row saves of an older read | references unique and every create succeeds; no write undone |
| Policies (`apps/policies`) | rows | create, PATCH (the customer is writable), archive | parent archived meanwhile; one live policy per type | live policies belong to live customers; the type rule |
| Claims (`apps/claims`) | rows, load anomalies | create, PATCH, archive | as above | no claim comes under a removed policy |
| Dataset loader (`loaddataset.py`) | the book, anomalies, the sets of policies seen and conflicting | one transaction per row, stale anomalies cleared at the end | a death between rows, refused rows, rows that repeat a customer, dry run | a second load changes nothing; a load that died can be started again; the book is what the file as a whole calls for; the report is true |
| Permissions and refusals (`apps/core`) | the registry of audited routes; role tables twice | `HasRole`, `register`, the exception handler | two tables that must agree on every route and method; a role that changes half way | every refusal is audited and nothing else is; a refusal tells nothing |
| Audit log (`apps/audit`) | append-only entries | `record_action` | entry and write in one transaction; before image read early | entries explain the rows |
| Accounts (`apps/accounts`) | users with one of nine roles, sessions | admin-only viewset, login, logout | PATCH reads the account twice | entries explain the accounts |
| Prompt library (`apps/prompts`) | seven static templates | validation at start, read-only views, resolver | order of checks; comparison in both directions | a process serves only a library whose templates cite what they declare |
| Health, deployment, settings | none | two probes | none | |

Components meet in four ways:

- **Calls.** The recompute view, the batch command and the task call
  `engine.score_customer` and then `engine.persist`.
- **Callbacks.** `save()` of a customer, policy or claim sends `post_save`;
  the receivers of `signals.py` register an `on_commit` callback, which runs in
  the web process once the write is committed.
- **Messages.** The callback's `.delay()` puts a message on Redis. Celery
  acknowledges it when a worker takes it (no `acks_late` in the settings), and
  a retry is a new message.
- **Shared rows.** Everything else goes through PostgreSQL at READ COMMITTED,
  the default no setting changes, with autocommit outside `transaction.atomic`.
  Django's `QuerySet.update` and `save` decide which columns a write replaces:
  a PATCH writes all of them, `archive()` two, `persist` two of the customer.

## 2. The modules

### `RiskRules`, the pure rule set

Each band table of `rules.py` is a TLA+ sequence or function of the same name,
each `score_*` function an operator that returns points and whether the factor
could be evaluated, and `ScoreCustomer` combines them as `score_customer` and
`evaluate` do. The claims ratio is compared as `amount >= bound * premium` in
integers, as exact as the code's `Decimal` division for the bounds of the
table. Labels, reasons and observed values are wording and are left out.

`RiskBook` is a customer's book that changes: policies and claims are filed and
archived, and the score is the one of the book as it is. It states the
reference, a second definition of the score written as the document states it,
in one conditional per factor. `MCRiskRules` gives it values.

### `RiskRecompute`, the core

One state machine for all that reads or writes a score:

| In the code | In the model |
|---|---|
| rows, `archived_at`, `updated_at` | `customer`, `policy`, `claim`, with `status` and `updated` |
| `RiskAssessment` row, `computed_at` | `assessment`, `score = Unscored` when there is none |
| `Customer.risk_score` | `customer[c].mirror` |
| a view between its read and its transaction | `draft[e]`: the instance with the payload applied |
| the transaction of a view | `Commit(e)`; `Saved` is the row the UPDATE leaves |
| `transaction.on_commit` callbacks | `hooks[c]`; `RunHook`, `LoseHook` |
| messages at the broker | `queue[c][r]`, a bag: Celery promises no order between workers, and a retry comes back after a delay |
| a task, a view or a batch turn | `proc[p]`: fetched → listed → scored → persisted, each step one query; `ReadClaims` is one policy's claims, all of them for the batch, which prefetches |
| `Customer.objects.get` in the task | `TaskStart`; archived or absent: the message is used up |
| the check for an assessment | `TaskList` |
| `persist` | `Persist`, guarded by `Persistable` (the live manager) |
| `autoretry_for`, `on_failure` | `Retry`, `failed` |
| the process dies; Redis refuses | `WorkerCrash`, `LoseHook`; `lost` remembers for whom |

Abstractions, each on purpose:

- *Data.* `Score` is a parameter: any function of what `score_customer` reads
  (the age, the live policies and their live claims). `RiskRules` is one such
  function, and no property needs to know which. A customer has one scored
  field, a policy one, a claim one.
- *Time.* `updated_at` is compared with `computed_at` and with nothing else, so
  `now` counts persists, and a write is stamped at some point between its read
  and its commit. There is one clock: skew between hosts is not modelled.
- *Persist is one step.* It runs in one transaction which starts by locking the
  customer's row, every writer of the assessment goes through it, and the
  factor rows and the audit entry it writes are written with it.
- *Commit is one step.* The locks a view's transaction takes are held within
  the step; a writer that waits for one overwrites with what it read before,
  which is exactly what a later `Commit` of its draft does.
- *Rules that refuse a write* (dates, one live policy per customer and type)
  are left out here: they make fewer writes possible and recompute nothing.
- *Bounds.* `MaxRequests` bounds the writes and on-demand recomputes begun, and
  so everything else.

`ScoreBook` is what all of it promises, with no callback, queue or worker: an
edit makes a recompute of its customer due, a recompute stores a score, and the
debt is settled only by the score of the data as they then are. The refinement
mapping of `RiskRecompute` reads `due` off the callbacks and messages under
way, the computations that have begun, and what is lost or has failed.

### `RiskFreshness`, `RiskSnapshot`

`RiskFreshness` is `RiskRecompute` with two history variables, to say what
`is_stale` may call outdated: `disturbed`, the computations a request has
overlapped with a write to their customer since they fetched it, and
`touched`, the customers written to since the computation behind their
assessment began. `UntouchedIsFresh` says that nothing else is ever flagged.
What `is_stale` must flag is the other direction, `NoStaleAsFresh`, and that
does not hold. `RiskSnapshot` is `RiskRecompute` with a history of the data every computation could have seen
since it started, to say what "a consistent snapshot" means.

### `CustomerReference`

Where a new customer's `client_id` comes from. A request is one-shot and runs
through the statements of its view: `Select` is `generate_client_id` choosing a
row in its snapshot, `LockRow` the moment `FOR UPDATE` (or a PATCH's or
DELETE's UPDATE) gets that row, `Write` the INSERT or UPDATE with its unique
index entry, `Collide` the `IntegrityError`, `Commit` the end of the view's
transaction. `create_with_reference` runs inside the view's `atomic()`, so its
own two are savepoints: rolling back to one releases the row lock taken since.
Three facts of PostgreSQL are modelled from how the code relies on them and are
marked external: a statement keeps the snapshot it started with while it waits
for a row and then returns that row as it has become; a writer waits for an
open transaction that holds an equal unique key; locks end with the transaction
or the savepoint. A reference is a number and a spelling of it: `CL-00007` and
`CL-7` are different keys with one number, and `NoNumber` is a suffix the cast
refuses. `persist` also locks the row of a customer; it changes no reference
and waits for nobody while it holds the lock, as a PATCH does.

### `RecordStore`

The record views under overlapping requests. A request is up to four steps,
each with a statement of its own: what the view reads (`Post`, `Patch`,
`Delete`), what its serializer's field asks of the parent (`ReadParent`), what
`validate` asks of a policy's siblings (`Check`), and its transaction (`Save`),
which writes every column of the copy read first, adds the audit entry, or
fails on the unique index.

| In the code | In the model |
|---|---|
| the four tables | `row`, one function over all primary keys; `Nothing` where there is no row |
| `AuditLog` rows of a target | `trail[i]` |
| `get_object()`'s instance with the payload | `task[e].copy` and `task[e].change`; `Over` lays one on the other |
| the default manager | `Live` |
| `ArchivedAware…Field` | `Nameable` |
| `PolicySerializer.validate` | `Clashes` |
| `policy_unique_live_type_per_customer` | `UniqueLive` on what `Save` would leave |
| `snapshot`, `AUDITED_FIELDS`, the diffs | `AUDITED_FIELDS`, `Difference`, `EntryOf` |
| `archive` with `update_fields` | `Written` for "remove": one column of whatever the row has become |
| the account viewset's second read | `Reread` |

A row has one value for all columns no rule is about. Two fields are ghosts:
`quiet` says that no other request has committed since a request read, and
`current` in an entry that the copy saved was still the row. Properties say
what happens without an overlap and leave exactly the overlap out.

### `LoadBook`, `LoadEffect`, `LoadContract`, `LoadDataset`

`LoadBook` is the data: a row of the file by what becomes of it (refused before
anything is written; a claim; a *No Claim* row with and without an amount; a
claim only `ClaimSerializer` refuses, inside the transaction), and a book of
customers, issued policies, live claims and anomalies. `LoadEffect` says what
a file makes of a book, all rows together and never row by row: which keys get
a policy, which claim wins, which anomalies are open; and, apart from that, the
book the command really leaves (`Loaded`, with `Seen` for `policies_seen`) and
its report. `LoadContract` is the abstract specification and knows nothing of
`Seen`: a load is one step to what the accepted rows call for, in which an
anomaly none of them confirms is cleared as FR-044 of `specs/004` has it,
corrected if an accepted row showed it (`Observed`), absent if no row is about
its policy (`Appears`). FR-044 has no reason for an anomaly that only refused
rows are about, and the contract leaves that one free; that the command gives it
one all the same is what `cleared_reasons` refutes. A load that dies leaves the
effect of a prefix. `LoadDataset` is the command:
`Start`, one action per fate of a row (`RefuseRow`, `RefuseArchived`,
`RefuseClaim`, `WriteRow`, and `PreviewRow` in a dry run), `Clear` for
`_clear_stale_anomalies`, `Exit` and `Die`. `run.seen` and `run.conflicting`
are the two Python sets, `trail` the audit actions of each anomaly. The
refinement mapping shows the book from before the load until its end.

Left out: columns other than the claim (they are written as the file has
them), and API writes beside a load.

### `AuditRoutes`, `RoleAccess`, `PromptLibrary`, `WebProcess`

`AuditRoutes` is the registry (`Register` drops the entry of a prefix and
appends the new one; `Others` is what is left), `RoleAccess` one request from its path to its
response and audit entry: the URL patterns in the order the routers register
them, `HasRole` on the collection or the object, each view's role tables and
its way of raising a 404, `_is_refusal` and `_record_refusal`. The tables are
those of the views and, separately, those of `register_defaults`; that they
agree is what the run checks. `PromptLibrary` has the seven templates as the
tokens they cite and declare, and validation as the set of errors it may
raise: the order of a template's bindings is left out. `WebProcess` composes
them: `CoreReady` (once or twice), `PromptsReady`, then requests of an account
whose role may change between the load of the user and the response.

A body's text is its set of tokens. `Referenced` is what the regular expression
finds of them: qualified tokens, and no others. A library is `Grounded` if the
resolver gives each template exactly what its body cites, so that a body with
an unqualified token (`NoType`) is not; the code serves it all the same.
`StartedIsGrounded` leaves such libraries out (`Qualified`), and
`OnlyGroundedServes`, which does not, is refuted by `unbound_token`.

### Fault variants

A definition whose comment starts with "Fault variant" is not a part of any
specification: it is what the definition below it would be with a plausible
bug, and shows that a property depends on that piece of code.

## 3. What the runs check

Deadlock is not checked in the recompute and reference runs: requests are
bounded, and a system with no request left, no callback and no message is at
rest. That requests do not wait for each other in a circle is the subject of
`EveryRequestEnds`.

| Run | Instance | Result |
|---|---|---|
| `rules` | 2 policies, 2 claims, 4 types, boundary ages and none, premiums 1 and 2, amounts 0, 1, 3, 5 | score on the scale, one tier, agreement with the reference, monotone in claims |
| `recompute_faults` | customer, policy; 2 editors, 2 workers, 1 manager, 3 requests, 1 retry, all faults | types; the mirror; archived customers; first scores; `is_stale` only after a request wrote |
| `recompute_live` | customer, policy, claim; 2 editors, 1 worker, 2 requests, 1 retry, tasks that may always fail, with fairness | a settled score is the score of the current data; retries end; scores reach the current data and stay there, or the failure is on record; all of it implements `ScoreBook` |
| `parallel_workers` | 2 workers, 2 requests | `NoStaleAsFresh` violated |
| `mixed_snapshot` | 1 editor, 1 manager, 3 requests | `ConsistentSnapshot` violated |
| `reference` | up to 1 row at first, with or without a number in its reference, 3 requests that may supply one of either kind, with fairness | no two customers share a reference; beside one other request a generated create fails only over a reference without a number; every request ends; types |
| `load` | 2 clients, 2 types, every file of up to 2 rows of interest, 37 books, 2 loads, death at any point, dry runs | types; the load as one step; restarts; anomaly trails; the report |
| `cleared_reasons` | the instance of `load`, 1 load | `ClearedAsObserved` violated |
| `records` | 2 customers, 2 policies, a claim, an account; 8 tables to start from; 2 editors (symmetric), 3 requests | one live policy per type; audit entries explain rows; errors, additions to removed parents and changes of removed rows only through an overlap |
| `access` | 20 routes, 6 methods, 9 roles and nobody, with and without the object and the token; 23 libraries | refusals recorded; refusals tell nothing; a library of qualified tokens is served if and only if it is grounded; verdicts name the true reason |
| `unbound_token` | the libraries of `access` | `OnlyGroundedServes` violated |
| `third_create` | up to 1 row, 3 requests | `GeneratedSucceeds` violated |

Why the bounds are enough. All the recompute properties are about one
customer at a time; without moved policies, two customers share nothing except
workers, and a worker on another customer is a worker that waits. Two editors give a write
that is open while another one commits; three requests give a write before,
during and after a computation. Two workers give every race between two
computations; a third adds a message that waits. One retry gives a first, a
last and no middle attempt, and the code treats them alike. The boundary values
of `rules` are those of each band and their neighbours; three claims would
exercise no band that two with the amounts given do not. For references, two
requests are the fewest that collide and three the fewest that collide twice;
the third row is then the highest one that the others did not see.

A load treats policies of different keys independently but for the file's
order, the customer they share and the two sets, so three keys over two
customers and two types show every way one row bears on another; two rows are
the fewest that repeat a key; every state of an anomaly is there at the start,
and two loads take it through two more. The proofs cover every file. Two
editors give every overlap of two writes of one row, of a row and its parent,
and of two policies for one slot; the third request acts on what an overlap
has left. The access run enumerates its domain completely but for the values
of identifiers: there is one that exists and one that does not.

### Findings

Each is a run TLC ends with a counterexample.

1. **Two workers lose an update, and nobody sees it** (`parallel_workers`).
   `score_customer` reads before `persist` locks. A worker reads, a PATCH
   commits, another worker reads and persists the new data, and the first one
   persists last: the score is that of the old data and nothing is left to
   repair it ("never provably wrong", `specs/006`). It is not flagged either:
   `is_stale` compares with the instant of the persist, not of the reads, so a
   change that fell between them counts as seen ("the alternative is a stale
   score presented as fresh", `serializers.py:41-44`; SC-012 of `specs/005`). In
   `recompute_live`, which has a single worker process, the loss does not happen.
2. **Clearing reasons that were not observed** (`cleared_reasons`).
   `policies_seen` keeps a policy whose row was refused for its claim
   (`loaddataset.py:327`; the transaction rolls back, the set does not), so its
   open anomaly is cleared as "corrected". A row refused earlier, or for an
   archived customer, clears it as "absent", though the row is in the file.
   FR-044 of `specs/004` keeps the first for what the load observed, the second
   for rows that did not appear at all.
3. **A token that binds to nothing is served** (`unbound_token`).
   `extract_placeholders` (`bindings.py:101`) and two tests say that validation
   rejects a body with an unqualified token; nothing does. The body of
   `test_validation.py:150` is refused for the field it declares and does not cite.
4. **A computation reads a mixture** (`mixed_snapshot`) of two states of the
   data, since each query has its own snapshot.
5. **One retry is not enough for three creates** (`third_create`). A create that
   waits for the highest row gets that row and not the new highest one, so two
   creates over a full table collide as two over an empty one do, and the
   retry of a third collides again and answers 500. `PairSucceeds` says what
   is true: with one other request around, one retry is enough.

More disagreements are part of the models without a run of their own: each is
an exception a property names, or the consequence of one.

- Archiving is invisible to `is_stale`, which looks at live rows only
  (`serializers.py:94`): until the recompute lands, and for ever when its
  delivery is lost, a score that counts an archived policy is presented as
  current. `ParallelWorkers.cfg` with one worker and the fault `broker` has TLC
  refute `NoStaleAsFresh` in three steps.
- A PATCH that moves a policy notifies its new owner only (`signals.py:27`). The
  previous owner's score still counts it, nothing is owed, nothing is flagged,
  though FR-003 of `specs/006` has every update of a policy recompute "the
  customer that record belongs to". With two customers and `MovePolicies` TRUE,
  TLC refutes `NoStaleAsFresh` and `SettledIsCurrent` in two steps; `OneByOne`
  excludes it by name.
- A PATCH that overlaps a persist writes the old `risk_score` back, although
  the serializer calls the engine its sole writer: `MirrorKept` shows that the
  recompute this PATCH triggers repairs it.
- A `client_id` without a number, which the serializer accepts, makes every
  later generation fail: `PairSucceeds` excludes it by name.
- A PATCH that read its row before a DELETE committed saves `archived_at` back
  to null: the record is live again, with a "deleted" entry and no entry that
  says so. `RemovalStands` and `AuditTellsRow` except exactly these overlaps.
- The report of a dry run differs from the real one where a row is refused only
  inside the transaction, or repeats a customer: `Plain` names these files.
  The comment at `loaddataset.py:512` has no such exception.
- A refused object and a missing one have different bodies for customers,
  policies and users, where `get_object_or_404`'s message stays; claims,
  anomalies, assessments and prompts normalise it. `RefusalTellsNothing` names
  the three.
- The entry of a refused template names no target, since its lookup is by
  `identifier`; that of a missing CSRF token names no actor.

### Fairness

`FairSpec` has weak fairness on `RunHook(c)` for each customer (the web process
runs the callbacks of a commit) and on `Progress(w)` for each worker (a running
worker takes messages and works them off; raising is part of it only where
persist has to raise). Nothing is assumed of writers and managers, who may
never act, or open a form and leave it, nor of the faults, which may always or
never happen. `FairSpec` goes on by `LosslessNext`, which is `Next` without
`LoseHook` and `WorkerCrash`: what is true with them is the safety property
`MirrorKept`, and that scores may stay outdated is what its `lost` exception
says. `recompute_faults` has both.

`CustomerReference` has weak fairness on the steps of a request that has been
sent, and none on sending: a web process runs its view, and PostgreSQL grants a
free lock. `LoadDataset`, `RecordStore` and `WebProcess` state no fairness: a
load may die, an editor may leave, and their properties are of safety. A request
of `CustomerReference` locks at most two rows in its life, so nobody overtakes
for ever and weak fairness is enough.

## 4. What is proved

Proofs are in `RiskRulesProofs`, `RiskRecomputeProofs`, `RiskSettledProofs`,
`CustomerReferenceProofs`, `LoadEffectProofs`, `LoadDatasetProofs`,
`RecordStoreProofs` and `WebProcessProofs`, for all values of the constants: any
sets of records and processes, any rule set, any bound on retries and requests,
any choice of faults. They rest on the named assumptions of the modules and nothing else:
`BookAssumption` (ages, premiums and amounts are natural numbers, or there is no
age), `ScoreAssumption` (the rule set returns a score), `UnscoredAssumption` (NULL is
not a score), `RolesAssumption` (a worker is not a manager),
`BoundsAssumption`, `FaultsAssumption`; `CustomersAssumption` (a table is
finite), `FormsAssumption`, `SuppliedAssumption`, `NobodyAssumption`; `BoundAssumption`, `ContentAssumption`,
`BooksAssumption` (the books to start from are well formed), `FilesAssumption`
and `LoadsAssumption`; `KeysAssumption` (keys of different tables differ),
`StoresAssumption` (the tables to start from satisfy the unique index, and a
parent or type that a table does not have, and so does not audit, is empty);
`LibrariesAssumption` (a library is finite), `AnyIdAssumption` (a path segment
that stands for an identifier is no literal one), `RequestsAssumption` (a
request's path fits a URL pattern: one that fits none is answered before there
is a view). TLC evaluates them in every run.

| Theorem | Statement | Argument |
|---|---|---|
| `TypeCorrect` | `Spec => []TypeOK` | inductive as it stands; one lemma per group of actions |
| `MirrorAlwaysKept` | `Spec => []MirrorKept` | with `DraftsNotifyOwn`: the callback of a customer's write is for that customer. Each step either keeps mirror and assessment of `c` equal or leaves something that accounts for `c`; a step that uses up a message has it in a worker, sends it again, records a failure, or persists |
| `ArchivedCustomerUntouched` | `Spec => ArchivedUntouched` | only `Persist` changes an assessment, under `Persistable` |
| `FirstScoreNeverAutomatic` | `Spec => FirstScoreIsManual` | with `TaskHasAssessment`: a worker that has listed policies works for a customer with an assessment; the check of `TaskList` stays true since nothing removes an assessment |
| `UntouchedStaysFresh` | `FreshnessSpec => []UntouchedIsFresh` | with `TimesBounded` (no row carries an instant after `now + 1`, the instant a persist stamps): right after a persist nothing is flagged (`PersistNotStale`), and afterwards a flag needs a record of the customer to change (`StaleByRecords`), which only a request's commit or a persist does (`QuietSteps`, `UntouchedStep`) |
| `RecomputeImplementsScoreBook`, `SettledStaysCurrent` | under `OneByOne`: `Spec => ImplementsScoreBook`, `Spec => []SettledIsCurrent` | `ReadsCovered`: a worker whose reads are out of date has another recompute waiting behind it. A commit that changes what a customer is scored on leaves a callback of that very customer (`DraftsInform`: the row it writes is and was the notified customer's), a callback becomes a message, and a message is taken only by the one worker, when it has nothing under way |
| `ScoreWithinScale` | scores lie in 0..90, the `MaxScore` | the points of each factor, table by table |
| `TierTotal` | each score 0..100 has one tier, which `TierFor` returns | case split over the bands |
| `MoreClaimsNeverLowerScore` | more claims and a larger claimed total never lower a score | each factor is monotone |
| `BookOnScale`, `BookInOneTier` | the two above for the book of `RiskBook`, whatever its size | the totals are natural numbers |
| `BookMatches`, `FilingNeverLowers` | `Spec => []MatchesReference`, `Spec => ClaimNeverLowersScore` | the sum over a finite set does not depend on the order it is taken in, and one record more adds its own amount. Both come from a smallest set for which they fail: the sum is a recursive function, and a finite family of sets has a least cardinality |
| `ReferenceTypes` | `Spec => []TypeOK` | with `Placed`: a request that locks or replaces a row has one that exists, and a running request has the reference it writes |
| `ReferencesStayUnique` | `Spec => []UniqueReferences` | with `Separate`: references written and not committed collide neither with the table nor with each other. `Write` establishes it (it waits for the undecided and refuses the duplicate), `Commit` turns it into uniqueness of the table |
| `OneRetryIsEnoughForTwo` | `Spec => PairSucceeds` | with `Attempts`: a second attempt follows another request's commit, and while nobody else can commit, the row picked is the highest and the reference about to be written is above every stored one (`Fresh`). So the first collision needs the other request to be done, and then there is no second one. That a non-empty table has a highest row (`HighestExists`) needs it to be finite |
| `LoadIdempotent` | `Loaded(Loaded(b, f), f) = Loaded(b, f)` | the rows accepted, and so the keys named, are the same in both books; what they write is there already (`AppliedAgain`, `SeenAgain`) |
| `RestartAfterCrash` | `Loaded(Applied(b, f, n), f) = Loaded(b, f)` | the same lemmas for a prefix of the rows |
| `LoadTypeCorrect` | `Spec => []TypeOK` | inductive with `Room`: a policy a load may issue is within the bound |
| `LoadImplementsContract` | `Spec => ImplementsContract` | with `Tracks`: the book is `Applied(start, file, next - 1)`, the conflicting set is the policies these rows raised, the seen set agrees with `Seen` for every anomaly open at the start. A row's action advances `Applied` by one row (`AppliedRow`, `AppliedRefused`), `Clear` turns it into `Loaded`; and what `Seen` makes of an anomaly is one of the outcomes the contract allows (`SettledAsObserved`, `LoadedMeetsContract`) |
| `RestartIsSafe` | `Spec => []RestartEndsTheSame` | `Tracks` and the two theorems on `Loaded` |
| `TrailIsTrue` | `Spec => []TrailTellsState` | `Raised` and `Clear` append the entry that turns the state, and only then |
| `ReportsAreTrue` | `Spec => []ReportIsTrue` | `CountsTrack`: the counts are the report of the rows read so far, and each set they count is finite (no bound on the constants says so). A row adds the record it is the first to name, to each set at most one. In a dry run of a plain file no other row names the row's customer, so that the book it started from tells what is new, and `DrySets` says what the two Python sets hold; then the anomalies found stale are those the file as a whole turns (`RunClears`, `DryRunClears`) |
| `RecordTypes` | `Spec => []TypeOK` | inductive with what a task holds in each state (`TaskTyped`) |
| `ErrorsNeedOverlap` | `Spec => []ErrorsAreOverlaps` | `Knows`: the copy of a request nobody has overlapped is the row, and the answers of its checks are still right; then `Save` cannot break the index (`WrittenIsUnique`) |
| `ArchivedStaysEmpty`, `RemovedStaysPut` | `Spec => ArchivedTakesNothing`, `Spec => RemovalStands` | `Knows` again: an undisturbed save of a row that is there finds it live, and a parent it names live |
| `AuditIsTrue` | `Spec => []AuditTellsRow` | with `NewKeys` (a request's new key is nobody else's) and `SetsAudited` (a request sets only columns the audit watches): the entry a save adds is the difference between what the log told before and the row it leaves, unless the copy saved was stale |
| `ProcessTypes` | `Spec => []TypeOK` | to register one of the five defaults again moves it to the end (`RegisterIs`), so five turns give the registry back (`DefaultsStand`) |
| `EveryRefusalRecorded` | `Spec => []RefusalsRecorded` | the pattern a path is matched with belongs to the module whose prefix it begins with (`MatchIsModule`); for each route `_is_refusal`, by the registry's tables, and `HasRole`, by the view's, give one verdict (`TablesAgree`, `VerdictIsOne`) |
| `RefusalsAreSilent` | `Spec => []RefusalTellsNothing` | the registry does not know whether an object exists, and each view's 404 is told by its way of raising it (`ExistenceIsHidden`) |
| `ServesGroundedOnly`, `VerdictNamesCause` | `Spec => []StartedIsGrounded`, `Spec => []VerdictIsTrue` | `LibraryIsGrounded`: what is reported is the error of the first wrong template, and there is a first one since the natural numbers are well founded. If all tokens are qualified, what `Referenced` finds of a body is the whole body |

`MirrorKept`, `UniqueReferences`, `SettledIsCurrent`, `AuditTellsRow` and
`ReportIsTrue` are not inductive alone: a state in which a draft notifies the
wrong customer, or two open transactions have written one reference, or a worker
holds old data with nothing behind it, satisfies them and loses them in a step.

`OneByOne` is the hypothesis of the two theorems about `ScoreBook`: at most one
worker, nobody who recomputes on demand, no PATCH that moves a policy, no
delivery lost between a commit and the broker. Two workers are what
`parallel_workers` refutes; a moved policy leaves its previous owner's score
counting it, with nothing owed; an on-demand recompute is a second computation
beside the worker's; and a callback the broker refuses while a computation of
its customer is under way leaves that computation to settle, as the last, what
it read too early. Errors, retries, giving up, crashes
and any number of writers are all allowed.

Every invariant and action property of a passing run is stated by a theorem.
Only model-checked:

- Liveness (`EventuallyCurrent`, `EventuallySettled`, `EveryRequestEnds`): the
  prover has neither fairness nor ENABLED.
- The five properties that do not hold: TLC gives their counterexamples.

## 5. Plan

In this order; what is done is marked.

1. `RiskRules`, `RiskBook` and their proofs. *Done.*
2. `RiskRecompute`, `RiskSnapshot` and proofs of all their safety properties; `ScoreBook`, its refinement by one worker and the proof. *Done.* To do:
   a passing run with two customers; the batch as one actor over many
   customers with its report.
3. `CustomerReference` and its proofs. *Done.*
4. `RecordStore`: the REST writes and their audit entries, and its proofs.
   *Done.*
5. `LoadDataset`, its abstract specification, the refinement and its proofs.
   *Done.* To do: a load beside API writes.
6. `AuditRoutes`, `RoleAccess`. *Done.*
7. `PromptLibrary`, `WebProcess` and its proofs. *Done.*

## 6. What is not modelled

- *Login and logout*: sessions and passwords are Django's; the account viewset
  and the effect of a role are modelled.
- *The audit log's own refusals* to update or delete an entry (model, manager,
  trigger): each is one unconditional exception.
- *Column checks* of a serializer that look at the payload alone (dates,
  premiums, e-mails): a request they refuse reads and writes nothing.
- *Health checks*: two probes and a status code, without state.
- *Settings and deployment*: configuration; what it fixes for the models
  (isolation level, acknowledgement, worker concurrency) is used in them.
- *Lists, search, pagination, response shapes, wording of reasons*: reads of a
  committed state that change nothing.
- *The front end of the admin site and the migrations* apart from the
  constraints they install.
