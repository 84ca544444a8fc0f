# AI-DSS in TLA+

A verification development of AI-DSS, the decision-support server of this
repository: TLA+ modules translated from its code, model-checked with TLC on
small instances, and theorems about them checked with TLAPS.  Paths below are
relative to the repository (`src/catalog/sync.py` is the package `src` in it).

## 1. The system

A FastAPI process (`api/main.py`) answers questionnaires with ranked AI
capabilities.  Handlers are plain `def` functions: Starlette runs each request
in a thread pool, so the handlers of different requests interleave at every
statement that releases the interpreter: SQL, file access, HTTP to Ollama.  Only the
two that read an upload, `export_validate` and `export_analyse`, are `async def`: they
run on the event loop, compute and ask the LLM without awaiting, and meanwhile nobody
is answered.
PostgreSQL holds accounts, assessments and the catalogue; `catalog.db` (SQLite)
and two files of embeddings hold copies of the catalogue; the engines keep a
copy of the embeddings in memory; Ollama is an external LLM that comes and goes.

| Component | State | Operations | Talks to |
|---|---|---|---|
| Catalogue writes (`api/routes/admin.py`, `src/catalog/sync.py`, `embedder.py`) | PostgreSQL tables, `catalog.db`, `tool_embeddings.npy` and index, engine cache | upsert/delete of capabilities and products, sync, re-embed, invalidate | PostgreSQL, the files, the engines |
| Container start (`docker-entrypoint.sh`, `scripts/migrate_catalog_to_pg.py`, `api/main.py`) | all copies of the catalogue | migrate, embed, choose the backend, restart | the same |
| Accounts (`api/auth`, `api/routes/user.py`, `feedback.py`) | users, refresh tokens, OAuth identities, assessments, feedback | register, login, refresh, logout, OAuth callback, delete account or assessment, feedback | PostgreSQL, OAuth providers |
| Login lockout (`api/auth/router.py`) | failures per client, in memory | check, record, clear | login |
| Contact intake (`api/routes/contact.py`) | submissions, timestamps per client | limit, store, notify | PostgreSQL, SMTP, webhook |
| Saved tools, translations | rows under unique constraints | select-then-insert upserts | PostgreSQL |
| Recommendation request (`api/routes/recommend.py`) | one request; `app.state.ollama_available` | translate, choose engine, match, persist, explain | engines, PostgreSQL, Ollama |
| Engines (`src/matching`) | embedding cache | filter, retrieve, rank, score, fall back | catalogue, Ollama |
| Product list (`recommend.py`, `api/tools/product_scorer.py`) | none | filter by region, score, cut to two | catalogue |
| Session and pool (`api/database/connection.py`) | 15 pooled connections | check out, wait, give back | PostgreSQL |
| Export analyser (`src/export_analyser`) | none | read, classify, map columns, infer, validate, enrich | Ollama |
| Questionnaire translation (`api/translator`) | none | answers to profile, pain flags, bottlenecks | catalogue |
| Catalogue builder (`src/tools/build_catalog.py`) | `catalog.db` | writes 18 capabilities and 38 products | SQLite |
| Ingestion (`src/ingestion`), evaluation (`scripts/eval`) | files | offline | files |
| Schema migrations (`migrations`) | schema version | linear upgrade at every start | PostgreSQL |

### What is hard, and what makes each part correct

* **Catalogue.**  One write touches four copies with no common transaction; each
  step can fail, requests interleave, a recommendation reads the pair of
  embeddings while it is replaced, and the next start *rewrites PostgreSQL from
  the mirror*.  Correct means: a write answered without a warning leaves the
  copies equal to PostgreSQL whatever failed before; vectors and index belong
  together; a restart does not undo or block anything.
* **Accounts.**  Requests are transactions at READ COMMITTED that check first and
  write later.  Correct means: one live user per address, a refresh token is
  exchanged once, a deleted account gets no new tokens and what it left is
  erased, an identity stays with its user, and waiting for locks always ends.
* **Login lockout, contact intake.**  Shared lists without locks; e-mail before
  commit.  Correct means: the limit bounds what gets through, and what is
  counted is stored whatever its announcements do.
* **Recommendation.**  Ollama can go away between the probe, the match and the
  explanations; persistence may fail and is swallowed.  Correct means: the answer
  names the pipeline that produced it, a fallback exists whenever the
  documentation promises one, an id that is returned exists.
* **Pool.**  A request holds one connection and may need a second of the same
  pool.  Correct means: requests cannot all wait for each other.
* **Algorithms.**  Filters, TOPSIS, the parsers of LLM answers, the product
  scorer, the export cascade and the form translator are pure, but chained: each
  decides again what another has decided (which countries are European, which
  confidence is enough, which type of data a file holds), and an LLM that may write
  anything stands between them.  Correct means: what one stage promised the next one
  keeps, and no answer of the LLM gets further than the code that checks it.

## 2. Modules

| Module | Contents |
|---|---|
| `CatalogSync` | catalogue, mirror, embeddings, cache, container start |
| `CatalogSyncProofs` | its theorems: types, the foreign key, lone writes, the start |
| `CatalogCopiesProofs` | more of them: the mirror's foreign key, stale vectors, the cache |
| `MCCatalogSync` | constants for TLC |
| `Accounts` | users, tokens, identities, assessments, feedback, as transactions |
| `AccountsProofs` | its theorems: types, addresses, deleted accounts |
| `AccountsHistoryProofs` | more of them: rotation, what a deletion reaches, identities, lone sign-ins |
| `MCAccounts` | constants for TLC |
| `RecommendationService` | what `POST /api/recommend` promises, abstractly |
| `Recommend` | its handler, the engines, the sessions and the pool; implements `RecommendationService` |
| `RecommendProofs` | its theorems, the refinement among them |
| `MCRecommend` | constants for TLC |
| `RateLimits` | the login lockout, the contact limiter, a contact submission's way to the database |
| `RateLimitsProofs` | its theorems |
| `MCRateLimits` | constants for TLC |
| `SeedCatalogue` | the pain flags, what the builder writes to `catalog.db`, how a row is read |
| `Matching` | catalogue queries, filters, the five dimensions, TOPSIS, the three engines' rankings, explanations, product list |
| `Questionnaire` | every question with the flags of its options, the tags, the translation of a form |
| `ExportAnalysis` | reading a file, column fingerprints, type, metrics, pain flags, readiness |
| `Advice` | the state machine over these four: upload, analysis, confirmation, submission, matching, answer |
| `AdviceProofs` | its theorems: flags, filters, products |
| `AdviceRankingProofs` | more of them: accepted uploads, places and dominance, types |
| `MCAdvice` | the catalogue of the run with what an admin added, files, forms, LLM answers |

Mutated operators ("Mutant of ...") stand next to the operator they vary.  They
are not part of a specification: each shows a plausible bug that one of the
properties detects when it takes the operator's place.

### CatalogSync

`pg`, `lite`, `matrix`/`index` and `cacheM`/`cacheI` are the four copies.  A row's
content is a model value; `TextOf` gives the part that is embedded, so a vector
*is* the text it was computed from, and a stale vector is one that differs from
the text of PostgreSQL's row.  `Coerced` says what
`bool(int(value or 1))` in the migration makes of a row.

An admin request `a` walks through `pc[a]`: `commit` (`_after_write` commits
before anything else), `readCaps`, `readProds` and `mirror` (`sync_sqlite`: two
SELECTs, then one SQLite transaction), `encode`, `matrix`, `index`
(`compute_embeddings`: the two files are written one after the other),
`dropMatrix`/`dropIndex` (`invalidate_engine_cache`: two attributes, for each of
the three engines that hold the classical one), `unmirror` (the deletions from
`catalog.db`, which come last) and `done` (the response).  A failure of `sync`, `encode`,
`matrix` or `index` becomes a warning, a failure of `commit` or `unmirror` a 500.  A
recommendation `m` walks through the steps of `ClassicalEngine._get_embeddings`: check,
load two files, store two attributes, read two attributes again.

A file that cannot be opened stays as it was; one that cannot be written to its end is
half written and in `torn` until a later re-embed writes it again, and a match that
loads it fails (`LoadTorn`).  When `SaveIndexFails` the new vectors stand beside the old
index, `apply_write` ends in a warning and `invalidate_engine_cache` is never reached, so
the engine may go on with a pair that is no longer on disk.  Two history variables say
what the properties may then expect: `owed` holds every capability until a re-embed
succeeds, `spoiled` is true until a re-embed that no match overlaps ends.

`boot` is the stage of the entrypoint.  `Migrate` upserts every row of
`catalog.db` into PostgreSQL and compares *counts*; `EmbedMatrix`/`EmbedIndex`
rebuild the files from `catalog.db`; `Start` chooses the backend; `Crash` keeps
the container's files, `Redeploy` replaces them with the image's.  A step of the boot that
raises ends the process, so it is a `Crash` before that step.

The Alembic upgrade that precedes the migration is not modelled, nor is a start
outside Docker.  A file torn by a crash or by a boot that fails is not either: every start
rewrites both files before anything reads them.  Of a product only its capability is kept.

### Accounts

Each request is one transaction.  `loc[r]` is what the handler was asked and has
read, `held[r]` the rows and unique-index entries it has written: they are locked
until the transaction ends and invisible to the others until it commits.  The
first action of a request (`BeginX`) includes the first query; every later
statement that reads what others may change, or takes a lock, is an action of its
own.  A bulk UPDATE is two: the rows its snapshot sees, and the moment it gets
their locks, when rows changed meanwhile are looked at again.  Ids are uuids: `Fresh` takes any unused one.

`delete_assessment` locks its rows in one step where SQLAlchemy deletes feedback
row by row; PostgreSQL would resolve a crossing with an account deletion by
aborting one of the two, which is what `Abort` does to any request at any point.
Feedback without a comment is left out: no property tells it apart.  `PATCH /me` changes two
preferences nothing else here reads.

### Recommend

A request `r` is at `pc[r]`: `token` (`get_current_user_optional`), `translate`,
`match`, `prompt` (the hybrid engine reads the catalogue a second time), `ask` (the
LLM call), `persist`, `explain`, `items` (the products of each result), `commit`
(`get_db` after the handler) and `done`.  `own` and `extra` are the requests that
hold a connection for their session and for a call of the catalogue: `CheckOut` is
the pool's, `GiveUp` its `TimeoutError`.  A stage that makes several calls of the
catalogue one after the other, each with a connection of its own, is one call here:
between two of them a request holds what it holds before the first.  `live[r]` is what
`_ping_ollama` saw, `ollama` what is the case, `from[r]` whose order the results
have.  `spoilt[r]` says what a failed statement made of the session: a failed flush
deactivates it, so that the commit raises and the request ends with 500; a failed
query leaves a transaction that PostgreSQL has aborted, whose commit is a silent
rollback.  Either way no id is returned.

`RecommendationService` has three actions, ask, recommend and refuse, and says that
an answer is coherent (the pipeline named was asked for or is the fallback, and gave
the order) and that the row named by an answer appears with it.  `KeepsPromise` is
that specification under the identity mapping.  The commit precedes the answer, as in
the version of FastAPI that the badge of the repository's README names
(`requirements.txt` does not pin one).

Left out: the answer 401 to an invalid token; `app.state.ollama_available`, which is
written and never read; the SQLite catalogue, which takes no connection.  What the
answer says, which capabilities and products in which order, is in `Advice`.

### RateLimits

The two limiters are one algorithm in two files.  A Python list is an element of
`Lists`, named by the request that made it and the phase it was in (a login builds one
list to check the lock and another one to record its failure); `heap` gives its
entries, `bucket` is the dict (for one client: entries of different clients have
nothing in common), `ref[r]` the list that `r` got from it.  An entry is named by the
request that made it, its time is `stamp`.  The steps are the statements between which
the interpreter may switch threads: read the clock, get the list, filter it, put the
new one, append.  `Record` appends to the list that `r` has put, which need not be in
the dict any more: that is how a failure gets lost.

Three history variables let the properties say what a race may do: `crowded` (requests
that were at the list together with another one, or while a success emptied it),
`forgiven` (failures before a success) and `gone` (the same, if nobody was at the list).

After `AdmitContact` come `Insert` (the flush), `Mail`, `Hook` and `Commit`: mail and
webhook announce a row that the commit may still fail to store, while their own
failures are logged and change nothing.  `time.time()` is taken to be monotonic.

### Advice and the modules it stands on

`SeedCatalogue`, `Matching`, `Questionnaire` and `ExportAnalysis` have no variables:
they define, function by function, what the code computes.  The tables are the
repository's: all 18 capabilities, 38 products, 50 pain flags, every question with
every option and every tag.  Of a capability or product those columns are kept that
the matching reads.  `FromDbRow`, `FromPgRow` and `Migrated` are the three ways a row
comes into memory; seven capabilities of the seed say that they need data, and the
`or 1` of the first and the last makes none of them say so (that both backends do it
alike is assumed in `MCAdvice` by name and evaluated by TLC).

Scores are whole per cents.  The code compares quotients of square roots; `Closeness`
takes the squares and compares nine digits of the quotient, which has the same order
(that nine digits tell two candidates apart one of which dominates the other is
proved, see section 4).
`Feasible`, `Scoped`, `Dims`, `Place` and `ProductList` are the filters, the ranking and the
product list of the code; `ClassicalRanking`, `Rerank` and `LlmRanking` are what the three
engines return.  The similarities of the bi-encoder and the order of the
cross-encoder are inputs.

A file is abstracted to what the analysis tells apart: its format, whether it is
readable, the header and the kind of values of each column, its number of rows, the
time its dates span and whether they are seasonal.  Times are written without a UTC
offset, with one, or with several (`Offsets`), as in an export that spans the change to
summer time.  Such a file `validate` accepts (`validator.py:54`) and `analyse` answers with a
status 500, which is a bug that `AcceptedIsAnalysed` states as an exception.  `MustRaise` and `MayRaise` say when `extract_metrics` raises on them: a
column with several is one of objects, which have no months, and a time with an offset
minus one without is a `TypeError`; they differ where versions of pandas do.  `FieldOf`
gives the standard field of a header, among them headers that look like another one.

`Advice` is one company's way.  Its `stage` is where it is:

    start -> columns -> numbers -> signals -> insight -> form -> match -> rate -> ranked -> answered
          -> image ----------------------->                          -> failed

From `start` a form can be submitted without an upload, and from `insight` another file
can be uploaded.  `Upload` is `analyse` up to the first call of the LLM; `GuessColumns`,
`GuessInVain` and `KeepMap` are the fallback for columns, `TakeNumbers` and `NumbersRaise`
the two ends of `extract_metrics`, `TakeSignals`, `NoSignals` and `AskAgain` the LLM's
signals with the retries of `call_json`, `ReadImage` the vision model if one is configured
(`Sees`), and `AnswerRaises` the `.items()` of a list.  What raises is a status 500 (`Fail`):
nothing between the analyser and the client catches it.  `file`, `classical` and `map` are
the handler's locals: the upload, what `analyse_classical` made of its columns, and what
they are taken for now.  `insight` also keeps, for the properties only, what made an
analysis fail and what would be suggested without the LLM.  `Apply` and `Carry` are the two
ways clients take from an analysis to a questionnaire: the endpoint that filters, and the
demo page that sends on what it got.  `Submit` translates the form, adds the export and
chooses the engine after the probe; `MatchX`, `RateX` are the engines; `Respond` cuts the
ranking, lists the products and takes the LLM's explanations.  `ollama` may change
between any two of these.  One confirmed upload is enough: what is confirmed of a later
one replaces what an earlier one left.  The pipeline's name in the answer is in
`Recommend`, whose run `recommend_offline` shows that it can be wrong; the `ranking` here
has no name.

Left out: the text of explanations and enrichments (which sentences they have is
kept); average order values and missing deliveries, from which no flag follows; the
list of gaps of a profile, which is only displayed; `BottleneckAnalyser`, off by
default; the concurrency of several requests, which is in `Recommend`.

## 3. Runs

`CHECK_DEADLOCK FALSE` is set wherever the bound on requests can be used up: a
server nobody calls is idle, which is not a deadlock.  Waiting that never ends is
looked for by liveness instead.

| Run | Bounds | Shows |
|---|---|---|
| `catalog_writes` | 2 capabilities, 1 product, 3 contents (two with the same text, one of these with a zero flag), 1 admin, 1 recommendation, 2 writes, 2 restarts, every fault (commit, sync, encoding, either file, deletion from the mirror, probe) | type invariant; a lone write leaves mirror and vectors right; the API starts only on equal copies; only a failed re-embed leaves a stale vector; the mirror keeps its foreign key; the cache is stale only after a race or a re-embed that stopped at a file; with fairness, a container whose `catalog.db` covers PostgreSQL comes up |
| `catalog_two_admins` | two requests at once, 3 writes, faults of syncs, files and deletions from the mirror | the foreign key in PostgreSQL under every interleaving; a lone write repairs what interleaving and failures spoiled |
| `accounts` | all operations, 2 addresses, 1 identity, 2 requests at once, 4 in all, aborts, tokens expire | rotation, deletion against requests in flight, addresses and identities; with fairness, no request waits for ever |
| `recommend` | 2 requests of any caller and pipeline, 2 connections, Ollama comes or goes once, every call may fail | refinement of `RecommendationService`; requests that all wait for connections are as many as connections; with fairness, every request is answered |
| `rate_limits` | 3 requests of one client, logins and submissions, limits 2, windows of 2 ticks, 2 ticks, every fault; symmetry of the requests (no liveness is checked) | who is admitted found fewer than the limit of entries made alone; a refusal rests on as many requests as the limit; a success that nobody races stays; a counted submission is lost only by the database |
| `advice` | the seed catalogue with 3 capabilities and 5 products of an admin, 20 files, 9 forms, 3 engines, 15 guesses per file, 5 sets of signals, 5 sets of scores, 3 lists, a model with and without vision, Ollama comes or goes once | what validate accepts is analysed, unless the LLM's answer or UTC offsets raise; no flag about support without support tickets; asking the LLM only adds to what the file suggests, a second date column apart; what apply promised is confirmed; a capability is recommended without its products only in Norway, Iceland and Liechtenstein; nothing that the filters turned down or the LLM invented is ranked; dominance in the classical order and after the LLM's scores; the best product is shown; with fairness, an analysis ends |

Every interleaving that the listed hazards need involves two requests and at most
two rows of a kind, preceded by the requests that create them and followed by one that
meets the result; the bounds leave room for that.  In `recommend`, as many requests as
connections is where waiting for each other begins; Ollama going away once, between
any two steps, meets every request before and after its probe and its LLM call.  In
`rate_limits` two requests use up the limit, alone or in a race, and the third meets
the result, within the window or after it.  In `accounts` four requests create at most
four users, tokens and assessments, and three comments: the constant sets are no bound.

The inputs of `advice` are chosen for the boundaries between its stages.  The files
have each format and each way to be unreadable, each type of data, a type or columns
that only the LLM can tell, a sheet with fewer rows than `_MIN_ROWS`, sheets that are
joined and sheets that are not; times with one offset in both columns, in one of the two,
and with several in either.  The forms come from the EU, from the EFTA states that only
one of the two lists of countries has, and from outside; they raise most flags or
few, have every extra or none, and confirm a flag that does not exist.  The LLM guesses
columns that do not exist, types that do not exist, confidences above 1, flags off the
menu, scores above 10 and no scores at all, and capabilities that nobody offered.
Of the admin's rows one needs data, one has only products that break the GDPR, and one
has neither pain flags nor products.

Six runs expect a violation; each is a finding.

| Run | Finding |
|---|---|
| `catalog_no_reembed` | a save whose sync failed is retried and answered "No re-embed needed", with the old text still embedded |
| `catalog_saved` | an edit answered "Saved to PostgreSQL but the catalogue sync failed" is overwritten by the next start |
| `catalog_seed` | the migration reports success after turning a flag that `catalog.db` holds as 0 into true |
| `catalog_pair` | a recommendation is handed `None` for the embeddings, which are declared a pair |
| `recommend_offline` | Ollama goes away after the probe: the LLM pipeline answers an empty list under its own name instead of falling back |
| `accounts_erased` | an account answered "anonymised" keeps its address, identities and assessments |

### Fairness

`WF` on `Boot`: `restart: unless-stopped` runs the entrypoint again after every
exit.  `WF` on each request's steps: the thread pool runs a handler to its end,
and PostgreSQL grants a lock once it is free.  In `Recommend` the pool hands out a
free connection or, after 30 seconds, raises; a call of Ollama has a timeout.  In
`Advice`, `WF` on the analysis: a handler that runs goes on, and each call of the LLM ends
by its timeout.  No fairness is assumed of the requests themselves, of what the user
does next, of Ollama's coming and going, of crashes or of faults.

## 4. Proofs

TLAPS checks the theorems for every number of admins, matchers, requests,
capabilities, users and so on, for any set of faults and any bounds.  The
assumptions are those named in the modules; two theorems have a hypothesis of their
own, `OneAdmin`, and one of these `Owned(Seed)`.  Between them the theorems state every
invariant and every action property that holds and that a run checks; TLC has checked
the inductive invariants below on small instances, too.

| Assumption | Says | Why the code justifies it |
|---|---|---|
| of `CatalogSync` and `Accounts` | ids are distinct model values, sets of capabilities and products finite, synthetic addresses belong to one identity each and to nobody else, the coercion of the migration leaves the embedded text alone | keys of different kinds; the address is built from provider and id under a domain of its own; flags are no part of the text |
| `ProductsAssumption`, `CatalogueAssumption` | finitely many rows with finitely many tools, types and points; a gate is an integer, of either sign | rows of a table and lists in them; `min_history_months_gate: int` |
| `AnswersAssumption` | similarities are at most 1 in absolute value, the cross-encoder's order has no ties, scores are numbers | cosines; a sorted list, whose positions are the order; `_parse_scores` drops the rest |
| `FilesAssumption`, `FlipsAssumption` | rows and months are counts, columns are numbered; the bound is a number | lengths, differences and a list |
| `TablesAssumption` | the flags of every option are pain flags, months are counts | a closed formula about the tables of `Questionnaire`, which TLC evaluates |

`CatalogSyncProofs`: `Typing` (`TypeOK`, with the fact that a request past its
start has a payload), `Ownership` (`PgOwned`), `LoneWrite` and `LoneReembed`
(`LoneInv`: while a request is alone all others are idle, so what it has read is
still what PostgreSQL holds; one conjunct for each stage), and `StartSound`
(`BootInv`: after an overlay, PostgreSQL contains `catalog.db`, and a set that
contains a finite one of the same size is equal to it, which is why comparing
counts suffices).

`CatalogCopiesProofs`: `MirrorOwnership` and `OwedAlone` say what their properties say,
"with one admin at a time": the hypothesis `OneAdmin` is that admin requests follow one
another, which makes every request a lone one (`Ground`, to which `LoneInv` then applies
at every step).  With the constants of `catalog_two_admins` TLC finds both properties
violated, so the hypothesis is needed.  `MirrorOwnership` also assumes that the shipped
`catalog.db` keeps the foreign key.  `OwedAlone` needs `Unasked`: a save that will not
re-embed still meets, when it commits, the row it compared with.  `QuietCache` has no
hypothesis.  Its invariant `CacheInv` says that no match is in flight while a re-embed is
between its files and its invalidation, unless they raced (`Apart`); that otherwise what
a match holds is from the disk (`FromDisk`); that an invalidation which no match
overlapped finds its first half done (`Dropped`); and that nothing is cached before the
start (`Cold`).  A save of a file may fail in it as in the model: `spoiled` is then true, and
only an invalidation that no match overlapped since its first file makes it false again.

`AccountsProofs`: `Typing` (`TypeOK` and `Formed`: which statements and which
arguments each operation has), `AddressIsUnique` and `DeletedStaysOut`
(`LiveInv`: transactions hold disjoint keys; an address is held only while no
live user has it; a request about to create a user holds its address; the user of
a request about to issue a pair was not deleted when it began).  The assumptions
are that ids of different kinds are different values.

`AccountsHistoryProofs`, each on top of the type invariant:

* `Rotates`: `RotationInv`.  That a token is exchanged once rests on `Contest` and
  `Unused`: of two refreshes with one token each knows of the other, and a refresh that
  nobody contests has a token without heirs; `Holding` keeps its row locked until the
  pair is issued.
* `Reaches`: `ReachInv` follows what a deletion has promised from one statement to the
  next: a comment is first on one of the account's recommendations, then on one of the
  rows read, then among the comments found, then among those locked; a token likewise
  (`NotesReached`, `TokensReached`).  It holds although other transactions insert and
  revoke between any two of these statements, because what was committed at the
  beginning changes its owner no more.
* `IdentityIsKept`, an action property: `IdentityInv`, of which `Vacated` is the heart:
  the callback that will write an identity has found it free, or its user deleted.
* `LoneSignIn`: `LoneInv`.  `StandIn` says that whoever has the synthetic address of an
  identity is the one whom the identity signs in; `Attached` is what makes it inductive.

`RecommendProofs`: `Typing`, `CrowdsStarve` and `ServiceKept`, for any number of
requests and connections.  The invariant `IInv` adds three facts about each request:
`Asked` (it is asked and answered exactly in the steps that say so), `Provenance`
(its results come from the engine chosen for it, or from the classical half of the
hybrid one; without it nothing relates the label of an answer to the order it
carries) and `Connected` (only running requests hold connections, a second one only
in a call of the catalogue).  `CrowdsStarve` counts: when everyone waits nobody has a
second connection, so those who fill the pool are as many as connections.
`ServiceKept` is the refinement: `Begin` maps to ask, `Commit` to recommend, every
way to fail to refuse, all other steps to stuttering.

`RateLimitsProofs`: all five properties of the run, for any number of requests, any
limits and windows.  Beyond types and stages (`Staged`, `Listed`), the invariant says
that a list is its request's own until it is put (`Private`), that filtered entries lie
within the window (`Reason`), that requests at the list together know of it (`Alone`),
that who appends alone appends to the list in the dict (`Latest`), that every
recent entry made alone is in the dict's list and in each list about to replace it
(`Whole`), and that forgiven ones are in none (`Clean`).  `Whole` is what the limit rests
on, and `Private`, `Alone` and `Latest` are what makes it inductive.

`AdviceProofs`: six of the properties of `Advice`, for any catalogue, any finite set of
products, any forms and files, and whatever the LLM writes.  `Grounded` rests on
`SupportNeedsTickets`: a response time is measured in tickets only, so the two ways in
which a flag can pass `FlagGrounded` agree.  `OnlyAdded` compares with what would be
suggested if the LLM were never asked.  `MapInv` says that the map the numbers are taken
from extends the classical one (`Extends`: no column and no type that the file shows is
lost), so every number that a flag rests on is the same, unless of `created_at` and `date`
the LLM has named the one that `extract_metrics` prefers (`SuggestedAnyway`); and the merge of
the flags takes nothing away (`MergedIsNoLess`).  `PromiseKept` needs `PromiseInv`, which follows
the promised flags from the confirmation through the client's hands to the profile.
`Filtered` needs `RankingInv`: a request has no ranking before it is matched, so the
profile never changes under one.  `Served` and `BestFits` follow
from `AnswerInv` (what is answered is the product list of an id in scope, for the profile
and team of this request) and from two facts about `Place`, in which the work lies: it
follows the order `Before` (`PlacesFollow`, by comparing finite sets one of which lies in
the other), and someone is first (`SomeoneFirst`, as the places that are used have a
least).  They assume what `ProductsAssumption` says: finitely many products, each with a
number.  `Served` then compares the filter before the ranking with the list after it: where
both ask the same question a capability that has passed the first keeps a product in the
second, and where they do not the company is in one of three countries.

`AdviceRankingProofs`:

* `Accepted`: `HeldInv` (what a handler holds is an upload of the kind it handles),
  `LocatedInv` (a map names columns that are there, whoever named them, so only a column
  with offsets can make `extract_metrics` raise: `OffsetsRaise`), and a split of all steps by
  what they do to the insight (`InsightSteps`).
* `Dominates`: the invariant `RankInv` says that a ranking is `Ranked` (a finite set with
  places 1, 2, ... each taken once, and per cents for dimensions) and `Sorted` (closer
  means before).  `PlacedIsRanked` shows both of any finite set that is ordered by
  closeness with ties broken by an order, and the classical ranking, the re-ranking and
  the LLM's list are instances of it; `TopIsRanked` shows that a cut keeps both.  That
  places have no gap is counting (`NoGap`).  That dimensions are per cents is shown
  function by function, `Clamp` and gates of any sign included.  What remains is
  arithmetic (`DominanceShows`): with a and b the weighted squared distances from the
  worst and the best, dominance raises a and lowers b by at least one, a + b lies between
  530000 and 1060000, so two such quotients a / (a + b) differ by more than 10^-9, and
  `Digits` tells them apart (`DigitsOfQuotient`, `DigitsApart`).
* `Typed`: `ProgressOK`, `MapOK`, `InsightOK` and the profile's flags are inductive
  together with `HeldInv`; the ranking's part follows from `RankInv`.

Model-checked only: the liveness properties (`CoveredBootServes`, `EveryRequestEnds`,
`EveryRequestAnswered`, `AnalysisEnds`), which this prover cannot reach, and the six
violations.

## 5. Not modelled, and plan

* **Saved tools and translations.**  Select-then-insert under a unique index, the
  pattern of `InsertUser` in `Accounts`: the second of two inserts waits and then fails.
  `PATCH /me/saved-tools/{id}` calls `SavedToolRepository.set_status`
  (`api/routes/user.py:292`), which the class does not have, so every call of it is
  answered 500: there is no behaviour to explore.  The upsert of translations has no
  caller.
* **Companies.**  `get_or_create_company` can create one twice when two assessments
  of a user run at a time; nothing but the export of a user's data shows it.
* **Engines that are not built.**  `hybrid_engine.py`, `aggregator.py` and
  `shortlist_reranker.py` are not reached from `api/main.py`.
* **Explanations against dimensions.**  The hybrid engine keeps the sentences written
  for the classical similarity (`hybrid_engine_v2.py:161`), and a company that exports
  orders is asked for order data because the web form never counts orders
  (`explanation_generator.py:78`).  `Explanation` and `Rerank` show both; nothing in the
  repository promises otherwise.
* **Schema migrations, ingestion, evaluation scripts, HTML pages, text export.**  Linear,
  offline or formatting.  Neural scores are inputs.

Planned: theorems about the pure functions themselves (that `ProductList` shows as many
products as it may, that of a profile with pain flags a further one never lowers the pain
dimension of a capability that addresses it), and `OwedAlone` and `MirrorOwnership` for several
admins whose requests do not overlap.
