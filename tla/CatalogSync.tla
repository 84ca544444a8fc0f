---------------------------- MODULE CatalogSync ----------------------------
(***************************************************************************)
(* The capability catalogue and its four copies:                           *)
(*                                                                         *)
(*   pg      the PostgreSQL tables, the source of truth of the admin API   *)
(*   lite    catalog.db, the SQLite mirror that seeds the next boot        *)
(*   matrix, index   tool_embeddings.npy and its row index on disk, torn   *)
(*                   those of the two that a failed save left half written *)
(*   cacheM, cacheI  the pair the classical engine keeps in memory         *)
(*                                                                         *)
(* Admin requests (api/routes/admin.py) write pg, then bring the copies up *)
(* to date step by step (src/catalog/sync.py); recommendation threads read *)
(* the pair through the engine; docker-entrypoint.sh rebuilds everything   *)
(* when the container starts.  Handlers run in a thread pool, so the steps *)
(* of different requests interleave.                                       *)
(***************************************************************************)
EXTENDS Naturals, FiniteSets

CONSTANTS
    Caps,         \* capability ids
    Prods,        \* product ids
    Rows,         \* the contents a capability row can have
    Texts,        \* what the rows say in description and bottleneck_keywords
    TextOf,       \* TextOf[r]: the embedded text of row r
    Coerced,      \* Coerced[r]: row r as migrate_catalog_to_pg.py inserts it
    Admins,       \* admin requests that can be in flight together
    Matchers,     \* recommendation requests that can be in flight together
    Seed,         \* the catalogue shipped in the image's catalog.db
    None,         \* no row, no vector, nothing cached
    Faults,       \* the steps that may fail
    MaxWrites,    \* bound: admin requests begun
    MaxRestarts   \* bound: container restarts

Catalog == [caps : [Caps -> Rows \cup {None}], prods : [Prods -> Caps \cup {None}]]
Matrix == [Caps -> Texts \cup {None}]
FaultPoints == {"commit", "sync", "encode", "matrix", "index", "unmirror", "probe"}

ASSUME RowAssumption == /\ None \notin Rows \cup Texts \cup Caps
                        /\ \A m \in Matrix : m # None
                        /\ \A S \in SUBSET Caps : S # None
                        /\ TextOf \in [Rows -> Texts]
                        /\ Coerced \in [Rows -> Rows]
                        /\ \A r \in Rows : TextOf[Coerced[r]] = TextOf[r]
ASSUME FiniteAssumption == IsFiniteSet(Caps) /\ IsFiniteSet(Prods)
ASSUME SeedAssumption == Seed \in Catalog
ASSUME FaultAssumption == Faults \subseteq FaultPoints
ASSUME BoundAssumption == MaxWrites \in Nat /\ MaxRestarts \in Nat

VARIABLES
    pg, lite, matrix, index,
    torn,       \* the files that do not parse
    boot,       \* stage of docker-entrypoint.sh, or "up"
    backend,    \* which catalogue app.state.repo reads
    cacheM, cacheI,
    pc,         \* pc[a]: the next step of admin request a
    req,        \* req[a]: what a writes, and whether it re-embeds
    snap,       \* snap[a]: the rows sync_sqlite selected
    vecs,       \* vecs[a]: the vectors compute_embeddings encoded
    pass,       \* pass[a]: engines still to be invalidated
    outcome,    \* outcome[a]: how the response of a will read
    mpc,        \* mpc[m]: the next step of recommendation m
    gotM, gotI, \* the pair m holds
    writes, restarts,
    alone,      \* history: no other admin request overlapped a
    owed,       \* history: capabilities whose re-embed has not succeeded yet; all of
                \* them when one stopped at a file
    clear,      \* history: no match has been in flight since a saved its matrix
    spoiled     \* history: a match overlapped a re-embed, or one stopped at a file,
                \* and none ran clear since

disk    == <<matrix, index, torn>>
cache   == <<cacheM, cacheI>>
admin   == <<pc, req, snap, vecs, pass, outcome>>
match   == <<mpc, gotM, gotI>>
store   == <<pg, lite>>
host    == <<boot, backend>>
bounds  == <<writes, restarts>>
history == <<alone, owed, clear, spoiled>>
vars == <<store, disk, host, cache, admin, match, bounds, history>>

-----------------------------------------------------------------------------
(* Catalogues and vectors *)

Ids(cat) == {c \in Caps : cat.caps[c] # None}
ProdIds(cat) == {p \in Prods : cat.prods[p] # None}

\* Mutant of Overlay: INSERT OR IGNORE.
KeepOldRows(new, old) ==
    [caps  |-> [c \in Caps |-> IF old.caps[c] # None THEN old.caps[c] ELSE new.caps[c]],
     prods |-> [p \in Prods |-> IF old.prods[p] # None THEN old.prods[p] ELSE new.prods[p]]]

\* INSERT OR REPLACE / ON CONFLICT DO UPDATE of every row of new into old.
Overlay(new, old) ==
    [caps  |-> [c \in Caps |-> IF new.caps[c] # None THEN new.caps[c] ELSE old.caps[c]],
     prods |-> [p \in Prods |-> IF new.prods[p] # None THEN new.prods[p] ELSE old.prods[p]]]

\* bool(int(value or 1)): a flag that catalog.db holds as 0 is inserted as true.
Lifted(cat) == [cat EXCEPT !.caps = [c \in Caps |->
                    IF cat.caps[c] = None THEN None ELSE Coerced[cat.caps[c]]]]

\* Removing a capability takes its products with it.
Without(cat, c) ==
    [caps  |-> [cat.caps EXCEPT ![c] = None],
     prods |-> [p \in Prods |-> IF cat.prods[p] = c THEN None ELSE cat.prods[p]]]

WithoutProd(cat, p) == [cat EXCEPT !.prods = [@ EXCEPT ![p] = None]]

Vectors(cat) ==
    [c \in Caps |-> IF cat.caps[c] = None THEN None ELSE TextOf[cat.caps[c]]]
Embedded(m) == {c \in Caps : m[c] # None}
NoVectors == [c \in Caps |-> None]
NoRows == [caps |-> [c \in Caps |-> None], prods |-> [p \in Prods |-> None]]

\* Every product names a capability: the foreign key PostgreSQL enforces.
Owned(cat) == \A p \in ProdIds(cat) : cat.caps[cat.prods[p]] # None

\* Mutant of EmbeddingTextChanged: a new capability is taken for an unchanged one.
OnlyIfBefore(before, r) == before # None /\ TextOf[before] # TextOf[r]

EmbeddingTextChanged(before, r) == before = None \/ TextOf[before] # TextOf[r]

\* Mutant of Repo: the engine reads the mirror whatever the backend.
MirrorRepo == lite

Repo == IF backend = "pg" THEN pg ELSE lite

-----------------------------------------------------------------------------
(* Typing *)

NoReq == [kind |-> "none", cap |-> None, prod |-> None, row |-> None, reembed |-> FALSE]
Request ==
    [kind : {"saveCap"}, cap : Caps, prod : {None}, row : Rows, reembed : BOOLEAN]
    \cup [kind : {"dropCap"}, cap : Caps, prod : {None}, row : {None}, reembed : {TRUE}]
    \cup [kind : {"saveProd"}, cap : Caps, prod : Prods, row : {None}, reembed : {FALSE}]
    \cup [kind : {"dropProd"}, cap : {None}, prod : Prods, row : {None}, reembed : {FALSE}]

Indexing == {"index", "dropMatrix", "dropIndex"}  \* the disk is ahead of the cache
Steps == {"idle", "commit", "readCaps", "readProds", "mirror", "encode", "matrix",
          "unmirror", "done"} \cup Indexing
MatchSteps == {"idle", "check", "loadMatrix", "loadIndex", "storeMatrix", "storeIndex",
               "getMatrix", "getIndex", "score"}
BootSteps == {"migrate", "embedMatrix", "embedIndex", "start", "exited", "up"}

Engines == 3    \* invalidate_engine_cache meets the classical engine three times

TypeOK ==
    /\ pg \in Catalog /\ lite \in Catalog
    /\ matrix \in Matrix /\ index \in SUBSET Caps /\ torn \in SUBSET {"matrix", "index"}
    /\ boot \in BootSteps /\ backend \in {"pg", "sqlite"}
    /\ cacheM \in Matrix \cup {None} /\ cacheI \in (SUBSET Caps) \cup {None}
    /\ pc \in [Admins -> Steps]
    /\ req \in [Admins -> Request \cup {NoReq}]
    /\ snap \in [Admins -> Catalog]
    /\ vecs \in [Admins -> Matrix]
    /\ pass \in [Admins -> 1 .. Engines]
    /\ outcome \in [Admins -> {"ok", "warning", "error"}]
    /\ mpc \in [Matchers -> MatchSteps]
    /\ gotM \in [Matchers -> Matrix \cup {None}]
    /\ gotI \in [Matchers -> (SUBSET Caps) \cup {None}]
    /\ writes \in Nat /\ restarts \in Nat
    /\ alone \in [Admins -> BOOLEAN] /\ owed \in SUBSET Caps
    /\ clear \in [Admins -> BOOLEAN] /\ spoiled \in BOOLEAN

-----------------------------------------------------------------------------
(* The container: docker-entrypoint.sh, run again on every exit *)

\* What a process that starts, or dies, holds in memory.
Fresh ==
    /\ cacheM' = None /\ cacheI' = None
    /\ pc' = [a \in Admins |-> "idle"]
    /\ req' = [a \in Admins |-> NoReq]
    /\ snap' = [a \in Admins |-> NoRows]
    /\ vecs' = [a \in Admins |-> NoVectors]
    /\ pass' = [a \in Admins |-> 1]
    /\ outcome' = [a \in Admins |-> "ok"]
    /\ mpc' = [m \in Matchers |-> "idle"]
    /\ gotM' = [m \in Matchers |-> None]
    /\ gotI' = [m \in Matchers |-> None]
    /\ alone' = [a \in Admins |-> TRUE]
    /\ owed' = {}
    /\ clear' = [a \in Admins |-> FALSE]
    /\ spoiled' = FALSE

Init ==
    /\ pg = NoRows /\ lite = Seed
    /\ matrix = NoVectors /\ index = {} /\ torn = {}
    /\ boot = "migrate" /\ backend = "pg"
    /\ cacheM = None /\ cacheI = None
    /\ pc = [a \in Admins |-> "idle"]
    /\ req = [a \in Admins |-> NoReq]
    /\ snap = [a \in Admins |-> NoRows]
    /\ vecs = [a \in Admins |-> NoVectors]
    /\ pass = [a \in Admins |-> 1]
    /\ outcome = [a \in Admins |-> "ok"]
    /\ mpc = [m \in Matchers |-> "idle"]
    /\ gotM = [m \in Matchers |-> None]
    /\ gotI = [m \in Matchers |-> None]
    /\ writes = 0 /\ restarts = 0
    /\ alone = [a \in Admins |-> TRUE]
    /\ owed = {}
    /\ clear = [a \in Admins |-> FALSE]
    /\ spoiled = FALSE

\* Mutant of SameCounts: the counts are not compared.
AnyCounts(a, b) == TRUE

\* Mutant of SameCounts: the counts are compared with those of the shipped catalogue.
SeedCounts(a, b) == /\ Cardinality(Ids(a)) = Cardinality(Ids(Seed))
                    /\ Cardinality(ProdIds(a)) = Cardinality(ProdIds(Seed))

\* migrate_catalog_to_pg.py compares row counts, not rows.
SameCounts(a, b) == /\ Cardinality(Ids(a)) = Cardinality(Ids(b))
                    /\ Cardinality(ProdIds(a)) = Cardinality(ProdIds(b))

\* Every row of catalog.db is upserted into PostgreSQL in one transaction, which
\* the foreign key may refuse; the counts are compared after it has committed.
Migrate ==
    LET merged == Overlay(Lifted(lite), pg) IN
    /\ boot = "migrate"
    /\ pg' = IF Owned(merged) THEN merged ELSE pg
    /\ boot' = IF Owned(merged) /\ SameCounts(merged, lite) THEN "embedMatrix" ELSE "exited"
    /\ UNCHANGED <<lite, disk, backend, cache, admin, match, bounds, history>>

\* python -m src.catalog.embedder reads catalog.db; an empty one is a ValueError.
EmbedMatrix ==
    /\ boot = "embedMatrix"
    /\ IF Ids(lite) = {}
       THEN boot' = "exited" /\ UNCHANGED <<matrix, torn>>
       ELSE boot' = "embedIndex" /\ matrix' = Vectors(lite) /\ torn' = torn \ {"matrix"}
    /\ UNCHANGED <<store, index, backend, cache, admin, match, bounds, history>>

EmbedIndex ==
    /\ boot = "embedIndex"
    /\ index' = Ids(lite)
    /\ torn' = torn \ {"index"}
    /\ boot' = "start"
    /\ UNCHANGED <<store, matrix, backend, cache, admin, match, bounds, history>>

\* lifespan: PostgreSQL backs the catalogue unless it is empty or the probe fails.
Start ==
    /\ boot = "start"
    /\ boot' = "up"
    /\ \/ backend' = IF Ids(pg) # {} THEN "pg" ELSE "sqlite"
       \/ "probe" \in Faults /\ backend' = "sqlite"
    /\ UNCHANGED <<store, disk, cache, admin, match, bounds, history>>

\* restart: unless-stopped
Relaunch ==
    /\ boot = "exited"
    /\ boot' = "migrate"
    /\ UNCHANGED <<store, disk, backend, cache, admin, match, bounds, history>>

\* The process dies, or a step of the boot fails; the container's file system survives.
\* A file that is half written then is written again before anything reads it.
Crash ==
    /\ boot # "migrate"
    /\ restarts < MaxRestarts
    /\ restarts' = restarts + 1
    /\ boot' = "migrate"
    /\ Fresh
    /\ UNCHANGED <<store, disk, backend, writes>>

\* docker compose up --build: a new container, whose catalog.db is the image's.
Redeploy ==
    /\ restarts < MaxRestarts
    /\ restarts' = restarts + 1
    /\ boot' = "migrate"
    /\ lite' = Seed
    /\ matrix' = NoVectors /\ index' = {} /\ torn' = {}
    /\ Fresh
    /\ UNCHANGED <<pg, backend, writes>>

Boot == Migrate \/ EmbedMatrix \/ EmbedIndex \/ Start \/ Relaunch

-----------------------------------------------------------------------------
(* Admin requests *)

Goto(a, step) == pc' = [pc EXCEPT ![a] = step]
Busy == {m \in Matchers : mpc[m] # "idle"}

\* The handler has read what it needs and starts its write.
Begin(a, q) ==
    /\ boot = "up"
    /\ pc[a] = "idle"
    /\ writes < MaxWrites
    /\ writes' = writes + 1
    /\ Goto(a, "commit")
    /\ req' = [req EXCEPT ![a] = q]
    /\ alone' = [b \in Admins |-> b = a /\ \A d \in Admins \ {a} : pc[d] = "idle"]
    /\ UNCHANGED <<store, disk, host, cache, snap, vecs, pass, outcome, match, restarts, owed, clear, spoiled>>

\* upsert_capability reads the row it is about to replace.
BeginUpsertCapability(a) == \E c \in Caps, r \in Rows :
    Begin(a, [kind |-> "saveCap", cap |-> c, prod |-> None, row |-> r,
              reembed |-> EmbeddingTextChanged(pg.caps[c], r)])

BeginDeleteCapability(a) == \E c \in Ids(pg) :
    Begin(a, [kind |-> "dropCap", cap |-> c, prod |-> None, row |-> None, reembed |-> TRUE])

BeginUpsertProduct(a) == \E p \in Prods, c \in Ids(pg) :
    Begin(a, [kind |-> "saveProd", cap |-> c, prod |-> p, row |-> None, reembed |-> FALSE])

BeginDeleteProduct(a) == \E p \in ProdIds(pg) :
    Begin(a, [kind |-> "dropProd", cap |-> None, prod |-> p, row |-> None, reembed |-> FALSE])

\* The catalogue after the SQL of request q.
Written(cat, q) ==
    CASE q.kind = "saveCap"  -> [cat EXCEPT !.caps = [@ EXCEPT ![q.cap] = q.row]]
      [] q.kind = "dropCap"  -> Without(cat, q.cap)
      [] q.kind = "saveProd" -> [cat EXCEPT !.prods = [@ EXCEPT ![q.prod] = q.cap]]
      [] q.kind = "dropProd" -> WithoutProd(cat, q.prod)

\* Mutant of Dangling: no foreign key.
NeverDangling(q) == FALSE

\* A product whose capability went away since the check breaks the foreign key.
Dangling(q) == q.kind = "saveProd" /\ pg.caps[q.cap] = None

\* db.commit() in _after_write: only committed rows reach the copies.
Commit(a) ==
    /\ pc[a] = "commit"
    /\ ~Dangling(req[a])
    /\ pg' = Written(pg, req[a])
    /\ owed' = IF req[a].reembed THEN owed \cup {req[a].cap} ELSE owed
    /\ Goto(a, "readCaps")
    /\ UNCHANGED <<lite, disk, host, cache, req, snap, vecs, pass, outcome, match, bounds, alone, clear, spoiled>>

\* The statement or the commit fails: get_db rolls back and the request is a 500.
Abort(a) ==
    /\ pc[a] = "commit"
    /\ Dangling(req[a]) \/ "commit" \in Faults
    /\ outcome' = [outcome EXCEPT ![a] = "error"]
    /\ Goto(a, "done")
    /\ UNCHANGED <<store, disk, host, cache, req, snap, vecs, pass, match, bounds, history>>

\* Where the handler goes on when apply_write has returned or raised.
Rest(a) == IF req[a].kind \in {"dropCap", "dropProd"} THEN "unmirror" ELSE "done"

\* sync_sqlite selects the two tables in two statements ...
ReadCaps(a) ==
    /\ pc[a] = "readCaps"
    /\ snap' = [snap EXCEPT ![a].caps = pg.caps]
    /\ Goto(a, "readProds")
    /\ UNCHANGED <<store, disk, host, cache, req, vecs, pass, outcome, match, bounds, history>>

ReadProds(a) ==
    /\ pc[a] = "readProds"
    /\ snap' = [snap EXCEPT ![a].prods = pg.prods]
    /\ Goto(a, "mirror")
    /\ UNCHANGED <<store, disk, host, cache, req, vecs, pass, outcome, match, bounds, history>>

\* Mutant of MirrorRows: only the written capability and product are copied.
MirrorOne(a) ==
    /\ pc[a] = "mirror"
    /\ lite' = Overlay([caps  |-> [c \in Caps |-> IF c = req[a].cap THEN snap[a].caps[c] ELSE None],
                        prods |-> [p \in Prods |-> IF p = req[a].prod THEN snap[a].prods[p] ELSE None]],
                       lite)
    /\ Goto(a, IF req[a].reembed THEN "encode" ELSE Rest(a))
    /\ UNCHANGED <<pg, disk, host, cache, req, snap, vecs, pass, outcome, match, bounds, history>>

\* ... and replaces their rows in catalog.db in one SQLite transaction.
MirrorRows(a) ==
    /\ pc[a] = "mirror"
    /\ lite' = Overlay(snap[a], lite)
    /\ Goto(a, IF req[a].reembed THEN "encode" ELSE Rest(a))
    /\ UNCHANGED <<pg, disk, host, cache, req, snap, vecs, pass, outcome, match, bounds, history>>

\* _after_write turns any exception of apply_write into a warning.
Warn(a) ==
    /\ outcome' = [outcome EXCEPT ![a] = "warning"]
    /\ Goto(a, Rest(a))
    /\ UNCHANGED <<store, matrix, index, host, cache, req, snap, vecs, pass, match, bounds,
                   alone, clear>>

\* catalog.db is missing, or locked by another writer for too long.
SyncFails(a) ==
    /\ pc[a] \in {"readCaps", "mirror"}
    /\ "sync" \in Faults
    /\ Warn(a)
    /\ UNCHANGED <<torn, owed, spoiled>>

\* reindex: compute_embeddings reads the catalogue through app.state.repo ...
Encode(a) ==
    /\ pc[a] = "encode"
    /\ Ids(Repo) # {}
    /\ vecs' = [vecs EXCEPT ![a] = Vectors(Repo)]
    /\ Goto(a, "matrix")
    /\ UNCHANGED <<store, disk, host, cache, req, snap, pass, outcome, match, bounds, history>>

\* ... and raises on an empty catalogue, or when the model cannot encode.
EncodeFails(a) ==
    /\ pc[a] = "encode"
    /\ Ids(Repo) = {} \/ "encode" \in Faults
    /\ Warn(a)
    /\ UNCHANGED <<torn, owed, spoiled>>

\* np.save of the vectors, then json.dump of the index.
SaveMatrix(a) ==
    /\ pc[a] = "matrix"
    /\ matrix' = vecs[a]
    /\ torn' = torn \ {"matrix"}
    /\ spoiled' = (spoiled \/ Busy # {})
    /\ clear' = [clear EXCEPT ![a] = Busy = {}]
    /\ Goto(a, "index")
    /\ UNCHANGED <<store, index, host, cache, req, snap, vecs, pass, outcome, match, bounds, alone, owed>>

\* The file cannot be opened, and stays as it was, or the disk is full and it is half
\* written; apply_write ends here, before invalidate_engine_cache.
SaveMatrixFails(a) ==
    /\ pc[a] = "matrix"
    /\ "matrix" \in Faults
    /\ Warn(a)
    /\ \/ UNCHANGED <<torn, owed, spoiled>>
       \/ torn' = torn \cup {"matrix"} /\ owed' = Caps /\ spoiled' = TRUE

\* Mutant of SaveIndex: ids are added to the index and never leave it.
GrowIndex(a) ==
    /\ pc[a] = "index"
    /\ index' = index \cup Embedded(vecs[a])
    /\ torn' = torn \ {"index"}
    /\ pass' = [pass EXCEPT ![a] = 1]
    /\ owed' = {}
    /\ Goto(a, "dropMatrix")
    /\ UNCHANGED <<store, matrix, host, cache, req, snap, vecs, outcome, match, bounds, alone, clear, spoiled>>

SaveIndex(a) ==
    /\ pc[a] = "index"
    /\ index' = Embedded(vecs[a])
    /\ torn' = torn \ {"index"}
    /\ pass' = [pass EXCEPT ![a] = 1]
    /\ owed' = {}
    /\ Goto(a, "dropMatrix")
    /\ UNCHANGED <<store, matrix, host, cache, req, snap, vecs, outcome, match, bounds, alone, clear, spoiled>>

\* The new vectors stay beside the old index, which may be half written: the row of
\* any capability is now in doubt, and the engine is not told.
SaveIndexFails(a) ==
    /\ pc[a] = "index"
    /\ "index" \in Faults
    /\ Warn(a)
    /\ torn' \in {torn, torn \cup {"index"}}
    /\ owed' = Caps
    /\ spoiled' = TRUE

\* Mutant of DropMatrix: the cached vectors are kept.
KeepMatrix(a) ==
    /\ pc[a] = "dropMatrix"
    /\ Goto(a, "dropIndex")
    /\ UNCHANGED <<store, disk, host, cache, req, snap, vecs, pass, outcome, match, bounds, history>>

\* invalidate_engine_cache clears two attributes, once per engine it meets.
DropMatrix(a) ==
    /\ pc[a] = "dropMatrix"
    /\ cacheM' = None
    /\ Goto(a, "dropIndex")
    /\ UNCHANGED <<store, disk, host, cacheI, req, snap, vecs, pass, outcome, match, bounds, history>>

\* Mutant of DropIndex: one engine too many.
DropOneMore(a) ==
    /\ pc[a] = "dropIndex"
    /\ cacheI' = None
    /\ IF pass[a] <= Engines
       THEN pass' = [pass EXCEPT ![a] = @ + 1] /\ Goto(a, "dropMatrix") /\ UNCHANGED spoiled
       ELSE UNCHANGED pass /\ Goto(a, Rest(a)) /\ spoiled' = (spoiled /\ ~clear[a])
    /\ UNCHANGED <<store, disk, host, cacheM, req, snap, vecs, outcome, match, bounds, alone, owed, clear>>

DropIndex(a) ==
    /\ pc[a] = "dropIndex"
    /\ cacheI' = None
    /\ IF pass[a] < Engines
       THEN pass' = [pass EXCEPT ![a] = @ + 1] /\ Goto(a, "dropMatrix") /\ UNCHANGED spoiled
       ELSE UNCHANGED pass /\ Goto(a, Rest(a)) /\ spoiled' = (spoiled /\ ~clear[a])
    /\ UNCHANGED <<store, disk, host, cacheM, req, snap, vecs, outcome, match, bounds, alone, owed, clear>>

\* Mutant of Unmirror: the products of the capability stay in catalog.db.
UnmirrorCapOnly(a) ==
    /\ pc[a] = "unmirror"
    /\ lite' = IF req[a].kind = "dropCap" THEN [lite EXCEPT !.caps = [@ EXCEPT ![req[a].cap] = None]]
               ELSE WithoutProd(lite, req[a].prod)
    /\ Goto(a, "done")
    /\ UNCHANGED <<pg, disk, host, cache, req, snap, vecs, pass, outcome, match, bounds, history>>

\* delete_from_sqlite, delete_product_from_sqlite
Unmirror(a) ==
    /\ pc[a] = "unmirror"
    /\ lite' = IF req[a].kind = "dropCap" THEN Without(lite, req[a].cap)
               ELSE WithoutProd(lite, req[a].prod)
    /\ Goto(a, "done")
    /\ UNCHANGED <<pg, disk, host, cache, req, snap, vecs, pass, outcome, match, bounds, history>>

\* Nothing catches a locked catalog.db here: the request is a 500.
UnmirrorFails(a) ==
    /\ pc[a] = "unmirror"
    /\ "unmirror" \in Faults
    /\ outcome' = [outcome EXCEPT ![a] = "error"]
    /\ Goto(a, "done")
    /\ UNCHANGED <<store, disk, host, cache, req, snap, vecs, pass, match, bounds, history>>

\* The response is sent and the request's locals are gone.
Respond(a) ==
    /\ pc[a] = "done"
    /\ Goto(a, "idle")
    /\ req' = [req EXCEPT ![a] = NoReq]
    /\ snap' = [snap EXCEPT ![a] = NoRows]
    /\ vecs' = [vecs EXCEPT ![a] = NoVectors]
    /\ pass' = [pass EXCEPT ![a] = 1]
    /\ outcome' = [outcome EXCEPT ![a] = "ok"]
    /\ UNCHANGED <<store, disk, host, cache, match, bounds, history>>

BeginWrite(a) == \/ BeginUpsertCapability(a) \/ BeginDeleteCapability(a)
                 \/ BeginUpsertProduct(a) \/ BeginDeleteProduct(a)

AdminStep(a) ==
    \/ Commit(a) \/ Abort(a)
    \/ ReadCaps(a) \/ ReadProds(a) \/ MirrorRows(a) \/ SyncFails(a)
    \/ Encode(a) \/ EncodeFails(a)
    \/ SaveMatrix(a) \/ SaveMatrixFails(a) \/ SaveIndex(a) \/ SaveIndexFails(a)
    \/ DropMatrix(a) \/ DropIndex(a)
    \/ Unmirror(a) \/ UnmirrorFails(a)
    \/ Respond(a)

-----------------------------------------------------------------------------
(* Recommendation threads: ClassicalEngine._get_embeddings *)

MGoto(m, step) == mpc' = [mpc EXCEPT ![m] = step]

\* A request whose filters keep something and that states a bottleneck: only such a
\* one needs the vectors.
BeginMatch(m) ==
    /\ boot = "up"
    /\ mpc[m] = "idle"
    /\ Ids(Repo) # {}
    /\ MGoto(m, "check")
    /\ spoiled' = (spoiled \/ \E a \in Admins : pc[a] \in Indexing)
    /\ clear' = [a \in Admins |-> FALSE]
    /\ UNCHANGED <<store, disk, host, cache, admin, gotM, gotI, bounds, alone, owed>>

CheckCache(m) ==
    /\ mpc[m] = "check"
    /\ MGoto(m, IF cacheM = None \/ cacheI = None THEN "loadMatrix" ELSE "getMatrix")
    /\ UNCHANGED <<store, disk, host, cache, admin, gotM, gotI, bounds, history>>

LoadMatrix(m) ==
    /\ mpc[m] = "loadMatrix"
    /\ "matrix" \notin torn
    /\ gotM' = [gotM EXCEPT ![m] = matrix]
    /\ MGoto(m, "loadIndex")
    /\ UNCHANGED <<store, disk, host, cache, admin, gotI, bounds, history>>

LoadIndex(m) ==
    /\ mpc[m] = "loadIndex"
    /\ "index" \notin torn
    /\ gotI' = [gotI EXCEPT ![m] = index]
    /\ MGoto(m, "storeMatrix")
    /\ UNCHANGED <<store, disk, host, cache, admin, gotM, bounds, history>>

\* A file that is half written, or read while it is being rewritten, does not parse:
\* the match is an error.
LoadTorn(m) ==
    /\ \/ mpc[m] = "loadMatrix" /\ ("matrix" \in torn \/ \E a \in Admins : pc[a] = "matrix")
       \/ mpc[m] = "loadIndex" /\ ("index" \in torn \/ \E a \in Admins : pc[a] = "index")
    /\ MGoto(m, "idle")
    /\ gotM' = [gotM EXCEPT ![m] = None]
    /\ UNCHANGED <<store, disk, host, cache, admin, gotI, bounds, history>>

StoreMatrix(m) ==
    /\ mpc[m] = "storeMatrix"
    /\ cacheM' = gotM[m]
    /\ MGoto(m, "storeIndex")
    /\ UNCHANGED <<store, disk, host, cacheI, admin, gotM, gotI, bounds, history>>

StoreIndex(m) ==
    /\ mpc[m] = "storeIndex"
    /\ cacheI' = gotI[m]
    /\ MGoto(m, "getMatrix")
    /\ UNCHANGED <<store, disk, host, cacheM, admin, gotM, gotI, bounds, history>>

\* return self._embeddings, self._emb_index: read again, not the loaded pair.
GetMatrix(m) ==
    /\ mpc[m] = "getMatrix"
    /\ gotM' = [gotM EXCEPT ![m] = cacheM]
    /\ MGoto(m, "getIndex")
    /\ UNCHANGED <<store, disk, host, cache, admin, gotI, bounds, history>>

GetIndex(m) ==
    /\ mpc[m] = "getIndex"
    /\ gotI' = [gotI EXCEPT ![m] = cacheI]
    /\ MGoto(m, "score")
    /\ UNCHANGED <<store, disk, host, cache, admin, gotM, bounds, history>>

\* retrieve scores with the pair it was handed and keeps no reference to it.
Score(m) ==
    /\ mpc[m] = "score"
    /\ MGoto(m, "idle")
    /\ gotM' = [gotM EXCEPT ![m] = None]
    /\ gotI' = [gotI EXCEPT ![m] = None]
    /\ UNCHANGED <<store, disk, host, cache, admin, bounds, history>>

MatchStep(m) ==
    \/ CheckCache(m) \/ LoadMatrix(m) \/ LoadIndex(m) \/ LoadTorn(m)
    \/ StoreMatrix(m) \/ StoreIndex(m) \/ GetMatrix(m) \/ GetIndex(m) \/ Score(m)

-----------------------------------------------------------------------------
Next ==
    \/ Boot \/ Crash \/ Redeploy
    \/ \E a \in Admins : BeginWrite(a) \/ AdminStep(a)
    \/ \E m \in Matchers : BeginMatch(m) \/ MatchStep(m)

Spec == Init /\ [][Next]_vars

\* The container engine relaunches the entrypoint and the thread pool runs every
\* handler to its end; nobody is obliged to send a request.
FairSpec ==
    /\ Spec
    /\ WF_vars(Boot)
    /\ \A a \in Admins : WF_vars(AdminStep(a))
    /\ \A m \in Matchers : WF_vars(MatchStep(m))

-----------------------------------------------------------------------------
(* Properties *)

\* Every row of PostgreSQL is in catalog.db, with the same content.
Mirrored == /\ \A c \in Ids(pg) : lite.caps[c] = pg.caps[c]
            /\ \A p \in ProdIds(pg) : lite.prods[p] = pg.prods[p]

\* The files on disk are exactly what the embedder would write for pg.
DiskFresh == matrix = Vectors(pg) /\ index = Ids(pg) /\ torn = {}

\* PostgreSQL never holds a product whose capability is gone, whatever the order
\* in which deletions, product saves and the boot's upserts commit.
PgOwned == Owned(pg)

\* sync_sqlite copies every row, not the one just written: a write that no other
\* write overlaps, and that is answered without a warning, leaves PostgreSQL
\* mirrored, whatever earlier writes failed to mirror.
LoneWriteMirrors == \A a \in Admins :
    pc[a] = "done" /\ alone[a] /\ outcome[a] = "ok" => Mirrored

\* Likewise reindex re-embeds every capability: such a write that re-embeds leaves
\* the vectors and their index exact (when app.state.repo is PostgreSQL).
LoneReembedFresh == \A a \in Admins :
    (pc[a] = "done" /\ alone[a] /\ outcome[a] = "ok" /\ req[a].reembed /\ backend = "pg")
        => DiskFresh

\* The API comes up only on copies that agree: PostgreSQL holds the rows of
\* catalog.db and no other, and the files are those of its texts.
SoundStart == boot = "start" => pg = Lifted(lite) /\ DiskFresh

\* migrate_catalog_to_pg.py: "[OK] Row counts match - migration successful".  After
\* it, PostgreSQL holds what catalog.db holds.
SeedKept == boot = "embedMatrix" => pg = lite

\* With one admin at a time, embedding_text_changed asks for every re-embed that
\* is needed: only a capability whose own re-embed failed has an old vector, no
\* vector, or a vector it should have lost; or any, when a re-embed stopped at one of
\* its files, until one succeeds.
OnlyOwedStale ==
    boot = "up" /\ backend = "pg" =>
        \A c \in Caps \ owed :
            /\ matrix[c] = Vectors(pg)[c] /\ torn = {}
            /\ (\A a \in Admins : pc[a] # "index") => (c \in index <=> c \in Ids(pg))

\* With one admin at a time catalog.db never holds a product of a capability it
\* lacks: the foreign key of the next boot's upserts cannot refuse it.
MirrorOwned == Owned(lite)

\* While no re-embed is between its files and its invalidation, the engine holds
\* either nothing or what is on disk, unless a match overlapped a re-embed, or one
\* failed to write a file, and no re-embed has run clear of matches to its end since.
QuietCacheFresh ==
    ~spoiled /\ (\A a \in Admins : pc[a] \notin Indexing) =>
        cacheM \in {None, matrix} /\ cacheI \in {None, index}

\* A container whose catalog.db covers PostgreSQL comes up: the count check cannot
\* keep it in the restart loop (only a redeploy can take the cover away).
Covered == /\ Ids(pg) \subseteq Ids(lite) /\ ProdIds(pg) \subseteq ProdIds(lite)
           /\ Owned(lite) /\ Ids(lite) # {}
CoveredBootServes == (boot = "migrate" /\ Covered) ~> (boot = "up" \/ ~Covered)

\* admin.html: "No re-embed needed." A save answered without warning and without a
\* re-embed is of a capability whose current text is embedded.
NoReembedNeeded == \A a \in Admins :
    (pc[a] = "done" /\ outcome[a] = "ok" /\ req[a].kind = "saveCap" /\ ~req[a].reembed)
        => LET c == req[a].cap IN c \in index /\ matrix[c] = TextOf[req[a].row]

\* admin.py: "Saved to PostgreSQL but the catalogue sync failed".  The save that
\* closes the run (no other write follows it) stays in PostgreSQL once it has been
\* answered so: a restart does not undo it.
LastSaved(c, r) == /\ writes = MaxWrites
                   /\ \E a \in Admins : /\ pc[a] = "done" /\ outcome[a] = "warning"
                                        /\ req[a].kind = "saveCap"
                                        /\ req[a].cap = c /\ req[a].row = r
SavedStaysSaved ==
    \A c \in Caps, r \in Rows : [](LastSaved(c, r) => [](pg.caps[c] = r))

\* _get_embeddings() -> tuple[np.ndarray, dict[int, str]]: never None.
EmbeddingsAreAPair == \A m \in Matchers :
    mpc[m] = "score" => gotM[m] # None /\ gotI[m] # None

=============================================================================
