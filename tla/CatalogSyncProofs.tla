------------------------- MODULE CatalogSyncProofs -------------------------
(***************************************************************************)
(* Proofs about CatalogSync for every catalogue, every number of admin and *)
(* recommendation threads, every set of faults and every bound.            *)
(***************************************************************************)
EXTENDS CatalogSync, FiniteSetTheorems, TLAPS

\* Upserting one catalogue into another gives a catalogue.
LEMMA OverlayType == ASSUME NEW new \in Catalog, NEW old \in Catalog
                     PROVE  Overlay(new, old) \in Catalog
  BY DEF Overlay, Catalog

\* The rows that migrate_catalog_to_pg.py inserts form a catalogue, with the same ids
\* and the same embedded texts as catalog.db.
LEMMA LiftedType == ASSUME NEW cat \in Catalog
                    PROVE  Lifted(cat) \in Catalog
  BY RowAssumption DEF Lifted, Catalog

LEMMA LiftedIds == ASSUME NEW cat \in Catalog
                   PROVE  Ids(Lifted(cat)) = Ids(cat) /\ ProdIds(Lifted(cat)) = ProdIds(cat)
  BY RowAssumption DEF Lifted, Catalog, Ids, ProdIds

LEMMA LiftedVectors == ASSUME NEW cat \in Catalog
                       PROVE  Vectors(Lifted(cat)) = Vectors(cat)
  BY RowAssumption DEF Lifted, Catalog, Vectors

\* Deletions give catalogues.
LEMMA WithoutType == ASSUME NEW cat \in Catalog, NEW c \in Caps
                     PROVE  Without(cat, c) \in Catalog
  BY DEF Without, Catalog

LEMMA WithoutProdType == ASSUME NEW cat \in Catalog, NEW p \in Prods
                         PROVE  WithoutProd(cat, p) \in Catalog
  BY DEF WithoutProd, Catalog

\* The SQL of a request turns a catalogue into a catalogue.
LEMMA WrittenType == ASSUME NEW cat \in Catalog, NEW q \in Request
                     PROVE  Written(cat, q) \in Catalog
  <1>1. CASE q.kind = "saveCap"
    BY <1>1 DEF Written, Request, Catalog
  <1>2. CASE q.kind = "dropCap"
    BY <1>2, WithoutType DEF Written, Request
  <1>3. CASE q.kind = "saveProd"
    BY <1>3 DEF Written, Request, Catalog
  <1>4. CASE q.kind = "dropProd"
    BY <1>4, WithoutProdType DEF Written, Request
  <1> QED BY <1>1, <1>2, <1>3, <1>4 DEF Request

\* What the embedder computes from a catalogue is a matrix.
LEMMA VectorsType == ASSUME NEW cat \in Catalog
                     PROVE  Vectors(cat) \in Matrix
  BY RowAssumption DEF Vectors, Matrix, Catalog

LEMMA EmptyType == NoRows \in Catalog /\ NoVectors \in Matrix
  BY DEF NoRows, NoVectors, Catalog, Matrix

\* A flag for each request, all of them equal, is a function into BOOLEAN.
LEMMA FlagsType == ASSUME NEW v \in BOOLEAN
                   PROVE  [a \in Admins |-> v] \in [Admins -> BOOLEAN]
  BY Zenon

-----------------------------------------------------------------------------
(* Type correctness *)

\* A request that has begun is well formed, only a running API has one, and only
\* deletions reach the step that removes rows from catalog.db.
Active == \A a \in Admins :
    /\ pc[a] # "idle" => boot = "up" /\ req[a] \in Request
    /\ pc[a] = "unmirror" => req[a].kind \in {"dropCap", "dropProd"}

LEMMA InitTyped == Init => TypeOK /\ Active
  <1> SUFFICES ASSUME Init PROVE TypeOK /\ Active
    OBVIOUS
  <1>1. spoiled \in BOOLEAN
    BY DEF Init
  <1>2. alone \in [Admins -> BOOLEAN] /\ clear \in [Admins -> BOOLEAN]
    BY FlagsType DEF Init
  <1>3. req \in [Admins -> Request \cup {NoReq}]
    BY DEF Init
  <1>4. /\ pc \in [Admins -> Steps] /\ pass \in [Admins -> 1 .. Engines]
        /\ outcome \in [Admins -> {"ok", "warning", "error"}]
        /\ snap \in [Admins -> Catalog] /\ vecs \in [Admins -> Matrix]
    BY EmptyType DEF Init, Steps, Engines
  <1>5. /\ mpc \in [Matchers -> MatchSteps]
        /\ gotM \in [Matchers -> Matrix \cup {None}]
        /\ gotI \in [Matchers -> (SUBSET Caps) \cup {None}]
    BY DEF Init, MatchSteps
  <1>6. /\ pg \in Catalog /\ lite \in Catalog
        /\ matrix \in Matrix /\ index \in SUBSET Caps /\ torn \in SUBSET {"matrix", "index"}
        /\ boot \in BootSteps /\ backend \in {"pg", "sqlite"}
        /\ cacheM \in Matrix \cup {None} /\ cacheI \in (SUBSET Caps) \cup {None}
    BY EmptyType, SeedAssumption DEF Init, BootSteps
  <1>7. owed \in SUBSET Caps /\ writes \in Nat /\ restarts \in Nat
    BY DEF Init
  <1>8. Active
    BY DEF Init, Active
  <1> QED BY <1>1, <1>2, <1>3, <1>4, <1>5, <1>6, <1>7, <1>8 DEF TypeOK

\* The memory of a process that starts or dies is well typed, and idle.
LEMMA FreshTyped ==
    Fresh => /\ cacheM' \in Matrix \cup {None} /\ cacheI' \in (SUBSET Caps) \cup {None}
             /\ pc' \in [Admins -> Steps] /\ \A a \in Admins : pc'[a] = "idle"
             /\ req' \in [Admins -> Request \cup {NoReq}]
             /\ snap' \in [Admins -> Catalog] /\ vecs' \in [Admins -> Matrix]
             /\ pass' \in [Admins -> 1 .. Engines]
             /\ outcome' \in [Admins -> {"ok", "warning", "error"}]
             /\ mpc' \in [Matchers -> MatchSteps]
             /\ gotM' \in [Matchers -> Matrix \cup {None}]
             /\ gotI' \in [Matchers -> (SUBSET Caps) \cup {None}]
             /\ alone' \in [Admins -> BOOLEAN] /\ owed' \in SUBSET Caps
             /\ clear' \in [Admins -> BOOLEAN] /\ spoiled' \in BOOLEAN
  <1> SUFFICES ASSUME Fresh
               PROVE  /\ cacheM' \in Matrix \cup {None} /\ cacheI' \in (SUBSET Caps) \cup {None}
                      /\ pc' \in [Admins -> Steps] /\ \A a \in Admins : pc'[a] = "idle"
                      /\ req' \in [Admins -> Request \cup {NoReq}]
                      /\ snap' \in [Admins -> Catalog] /\ vecs' \in [Admins -> Matrix]
                      /\ pass' \in [Admins -> 1 .. Engines]
                      /\ outcome' \in [Admins -> {"ok", "warning", "error"}]
                      /\ mpc' \in [Matchers -> MatchSteps]
                      /\ gotM' \in [Matchers -> Matrix \cup {None}]
                      /\ gotI' \in [Matchers -> (SUBSET Caps) \cup {None}]
                      /\ alone' \in [Admins -> BOOLEAN] /\ owed' \in SUBSET Caps
                      /\ clear' \in [Admins -> BOOLEAN] /\ spoiled' \in BOOLEAN
    OBVIOUS
  <1>1. spoiled' \in BOOLEAN
    BY DEF Fresh
  <1>2. alone' \in [Admins -> BOOLEAN] /\ clear' \in [Admins -> BOOLEAN]
    BY FlagsType DEF Fresh
  <1>3. req' \in [Admins -> Request \cup {NoReq}]
    BY DEF Fresh
  <1>4. /\ pc' \in [Admins -> Steps] /\ pass' \in [Admins -> 1 .. Engines]
        /\ outcome' \in [Admins -> {"ok", "warning", "error"}]
        /\ snap' \in [Admins -> Catalog] /\ vecs' \in [Admins -> Matrix]
        /\ owed' \in SUBSET Caps
    BY EmptyType DEF Fresh, Steps, Engines
  <1>5. /\ mpc' \in [Matchers -> MatchSteps]
        /\ gotM' \in [Matchers -> Matrix \cup {None}]
        /\ gotI' \in [Matchers -> (SUBSET Caps) \cup {None}]
    BY DEF Fresh, MatchSteps
  <1>6. /\ cacheM' \in Matrix \cup {None} /\ cacheI' \in (SUBSET Caps) \cup {None}
        /\ \A a \in Admins : pc'[a] = "idle"
    BY DEF Fresh
  <1> QED BY <1>1, <1>2, <1>3, <1>4, <1>5, <1>6

\* The steps of the container preserve the types.
LEMMA BootTyped == TypeOK /\ Active /\ (Boot \/ Crash \/ Redeploy) => TypeOK' /\ Active'
  <1> SUFFICES ASSUME TypeOK, Active, Boot \/ Crash \/ Redeploy
               PROVE  TypeOK' /\ Active'
    OBVIOUS
  <1> USE DEF disk, cache, admin, match, store, host, bounds, history
  <1>1. CASE Migrate
    <2>1. Overlay(Lifted(lite), pg) \in Catalog
      BY OverlayType, LiftedType DEF TypeOK
    <2>2. pg' \in Catalog /\ boot' \in BootSteps
      BY <1>1, <2>1 DEF Migrate, TypeOK, BootSteps
    <2> QED BY <1>1, <2>2 DEF Migrate, TypeOK, Active
  <1>2. CASE EmbedMatrix
    <2>1. Vectors(lite) \in Matrix
      BY VectorsType DEF TypeOK
    <2> QED BY <1>2, <2>1 DEF EmbedMatrix, TypeOK, Active, BootSteps
  <1>3. CASE EmbedIndex
    BY <1>3 DEF EmbedIndex, TypeOK, Active, BootSteps, Ids
  <1>4. CASE Start
    BY <1>4 DEF Start, TypeOK, Active, BootSteps
  <1>5. CASE Relaunch
    BY <1>5 DEF Relaunch, TypeOK, Active, BootSteps
  <1>6. CASE Crash
    <2>1. boot' \in BootSteps /\ restarts' \in Nat
      BY <1>6, BoundAssumption DEF Crash, BootSteps, TypeOK
    <2> QED BY <1>6, <2>1, FreshTyped DEF Crash, TypeOK, Active
  <1>7. CASE Redeploy
    <2>1. /\ boot' \in BootSteps /\ restarts' \in Nat
          /\ lite' \in Catalog /\ matrix' \in Matrix /\ index' \in SUBSET Caps
          /\ torn' \in SUBSET {"matrix", "index"}
      BY <1>7, BoundAssumption, EmptyType, SeedAssumption DEF Redeploy, BootSteps, TypeOK
    <2> QED BY <1>7, <2>1, FreshTyped DEF Redeploy, TypeOK, Active
  <1> QED BY <1>1, <1>2, <1>3, <1>4, <1>5, <1>6, <1>7 DEF Boot

\* Beginning a well-formed request preserves the types.
LEMMA BeginTyped == ASSUME TypeOK, Active, NEW a \in Admins, NEW q \in Request, Begin(a, q)
                    PROVE  TypeOK' /\ Active'
  BY BoundAssumption
  DEF Begin, Goto, TypeOK, Active, Steps, disk, cache, admin, match, store, host, bounds, history

\* Every write an admin can ask for is a well-formed request.
LEMMA BeginWriteRequests ==
    ASSUME TypeOK, NEW a \in Admins, BeginWrite(a)
    PROVE  \E q \in Request : Begin(a, q)
  <1>1. CASE BeginUpsertCapability(a)
    <2>1. PICK c \in Caps, r \in Rows :
            Begin(a, [kind |-> "saveCap", cap |-> c, prod |-> None, row |-> r,
                      reembed |-> EmbeddingTextChanged(pg.caps[c], r)])
      BY <1>1 DEF BeginUpsertCapability
    <2>2. EmbeddingTextChanged(pg.caps[c], r) \in BOOLEAN
      BY DEF EmbeddingTextChanged
    <2> QED BY <2>1, <2>2 DEF Request
  <1>2. CASE BeginDeleteCapability(a)
    BY <1>2 DEF BeginDeleteCapability, Request, Ids
  <1>3. CASE BeginUpsertProduct(a)
    BY <1>3 DEF BeginUpsertProduct, Request, Ids
  <1>4. CASE BeginDeleteProduct(a)
    BY <1>4 DEF BeginDeleteProduct, Request, ProdIds
  <1> QED BY <1>1, <1>2, <1>3, <1>4 DEF BeginWrite

\* The steps of an admin request preserve the types.
LEMMA AdminStepTyped ==
    ASSUME TypeOK, Active, NEW a \in Admins, AdminStep(a)
    PROVE  TypeOK' /\ Active'
  <1> USE DEF TypeOK, Active, Goto, Steps, Indexing,
          disk, cache, admin, match, store, host, bounds, history
  <1>1. CASE Commit(a)
    <2>1. Written(pg, req[a]) \in Catalog
      BY <1>1, WrittenType DEF Commit
    <2>2. (IF req[a].reembed THEN owed \cup {req[a].cap} ELSE owed) \in SUBSET Caps
      <3>1. pc[a] # "idle"
        BY <1>1 DEF Commit
      <3>2. req[a] \in Request
        BY <3>1
      <3>3. req[a].reembed => req[a].cap \in Caps
        BY <3>2 DEF Request
      <3>4. owed \in SUBSET Caps
        OBVIOUS
      <3> HIDE DEF TypeOK, Active
      <3> QED BY <3>3, <3>4
    <2> QED BY <1>1, <2>1, <2>2 DEF Commit
  <1>2. CASE Abort(a)
    BY <1>2 DEF Abort
  <1>3. CASE ReadCaps(a)
    <2>1. [snap[a] EXCEPT !.caps = pg.caps] \in Catalog
      BY DEF Catalog
    <2>2. snap' \in [Admins -> Catalog]
      BY <1>3, <2>1 DEF ReadCaps
    <2> QED BY <1>3, <2>2 DEF ReadCaps
  <1>4. CASE ReadProds(a)
    <2>1. [snap[a] EXCEPT !.prods = pg.prods] \in Catalog
      BY DEF Catalog
    <2>2. snap' \in [Admins -> Catalog]
      BY <1>4, <2>1 DEF ReadProds
    <2> QED BY <1>4, <2>2 DEF ReadProds
  <1>5. CASE MirrorRows(a)
    <2>1. Overlay(snap[a], lite) \in Catalog
      BY OverlayType
    <2> QED BY <1>5, <2>1 DEF MirrorRows, Rest
  <1>6. CASE SyncFails(a)
    BY <1>6 DEF SyncFails, Warn, Rest
  <1>7. CASE Encode(a)
    <2>1. Vectors(Repo) \in Matrix
      BY VectorsType DEF Repo
    <2> QED BY <1>7, <2>1 DEF Encode
  <1>8. CASE EncodeFails(a)
    BY <1>8 DEF EncodeFails, Warn, Rest
  <1>9. CASE SaveMatrix(a)
    <2>1. matrix' \in Matrix /\ torn' \in SUBSET {"matrix", "index"} /\ spoiled' \in BOOLEAN
      BY <1>9 DEF SaveMatrix
    <2>2. clear' \in [Admins -> BOOLEAN]
      BY <1>9 DEF SaveMatrix
    <2> QED BY <1>9, <2>1, <2>2 DEF SaveMatrix
  <1>10. CASE SaveIndex(a)
    <2>1. index' \in SUBSET Caps /\ torn' \in SUBSET {"matrix", "index"} /\ pass' \in [Admins -> 1 .. Engines]
      BY <1>10 DEF SaveIndex, Embedded, Engines
    <2> QED BY <1>10, <2>1 DEF SaveIndex
  <1>11. CASE DropMatrix(a)
    BY <1>11 DEF DropMatrix
  <1>12. CASE DropIndex(a)
    <2>1. spoiled' \in BOOLEAN
      BY <1>12 DEF DropIndex
    <2>2. pass' \in [Admins -> 1 .. Engines]
      BY <1>12 DEF DropIndex, Engines
    <2>3. pc' \in [Admins -> Steps] /\ Active'
      BY <1>12 DEF DropIndex, Rest
    <2> QED BY <1>12, <2>1, <2>2, <2>3 DEF DropIndex
  <1>13. CASE Unmirror(a)
    <2>1. lite' \in Catalog
      <3>1. CASE req[a].kind = "dropCap"
        BY <1>13, <3>1, WithoutType DEF Unmirror, Request
      <3>2. CASE req[a].kind = "dropProd"
        BY <1>13, <3>2, WithoutProdType DEF Unmirror, Request
      <3> QED BY <1>13, <3>1, <3>2 DEF Unmirror
    <2> QED BY <1>13, <2>1 DEF Unmirror
  <1>14. CASE UnmirrorFails(a)
    BY <1>14 DEF UnmirrorFails
  <1>15. CASE Respond(a)
    BY <1>15, EmptyType DEF Respond, Engines
  <1>16. CASE SaveMatrixFails(a) \/ SaveIndexFails(a)
    <2>1. /\ torn' \in SUBSET {"matrix", "index"} /\ owed' \in SUBSET Caps
          /\ spoiled' \in BOOLEAN
      BY <1>16 DEF SaveMatrixFails, SaveIndexFails
    <2>2. Warn(a)
      BY <1>16 DEF SaveMatrixFails, SaveIndexFails
    <2>3. /\ UNCHANGED <<pg, lite, matrix, index, boot, backend, cacheM, cacheI, req, snap, vecs,
                         pass, mpc, gotM, gotI, writes, restarts, alone, clear>>
          /\ outcome' = [outcome EXCEPT ![a] = "warning"]
          /\ pc' = [pc EXCEPT ![a] = Rest(a)]
      BY <2>2 DEF Warn
    <2>4. outcome' \in [Admins -> {"ok", "warning", "error"}]
      BY <2>3
    <2>5. pc' \in [Admins -> Steps] /\ Active'
      BY <1>16, <2>3 DEF Rest, SaveMatrixFails, SaveIndexFails
    <2> QED BY <2>1, <2>3, <2>4, <2>5
  <1> QED BY <1>1, <1>2, <1>3, <1>4, <1>5, <1>6, <1>7, <1>8, <1>9, <1>10, <1>11,
             <1>12, <1>13, <1>14, <1>15, <1>16 DEF AdminStep

\* The steps of a recommendation preserve the types.
LEMMA MatchStepTyped ==
    ASSUME TypeOK, Active, NEW m \in Matchers, BeginMatch(m) \/ MatchStep(m)
    PROVE  TypeOK' /\ Active'
  <1> USE DEF TypeOK, Active, MGoto, MatchSteps,
          disk, cache, admin, match, store, host, bounds, history
  <1>1. CASE BeginMatch(m)
    <2>1. spoiled' \in BOOLEAN
      BY <1>1 DEF BeginMatch
    <2>2. clear' \in [Admins -> BOOLEAN]
      BY <1>1, FlagsType DEF BeginMatch
    <2> QED BY <1>1, <2>1, <2>2 DEF BeginMatch
  <1>2. CASE CheckCache(m)
    BY <1>2 DEF CheckCache
  <1>3. CASE LoadMatrix(m)
    BY <1>3 DEF LoadMatrix
  <1>4. CASE LoadIndex(m)
    BY <1>4 DEF LoadIndex
  <1>5. CASE LoadTorn(m)
    BY <1>5 DEF LoadTorn
  <1>6. CASE StoreMatrix(m)
    BY <1>6 DEF StoreMatrix
  <1>7. CASE StoreIndex(m)
    BY <1>7 DEF StoreIndex
  <1>8. CASE GetMatrix(m)
    BY <1>8 DEF GetMatrix
  <1>9. CASE GetIndex(m)
    BY <1>9 DEF GetIndex
  <1>10. CASE Score(m)
    BY <1>10 DEF Score
  <1> QED BY <1>1, <1>2, <1>3, <1>4, <1>5, <1>6, <1>7, <1>8, <1>9, <1>10 DEF MatchStep

\* Every step of the system preserves the types.
LEMMA NextTyped == TypeOK /\ Active /\ [Next]_vars => TypeOK' /\ Active'
  <1> SUFFICES ASSUME TypeOK, Active, [Next]_vars PROVE TypeOK' /\ Active'
    OBVIOUS
  <1>1. CASE Boot \/ Crash \/ Redeploy
    BY <1>1, BootTyped
  <1>2. ASSUME NEW a \in Admins, BeginWrite(a)
        PROVE  TypeOK' /\ Active'
    BY <1>2, BeginWriteRequests, BeginTyped
  <1>3. ASSUME NEW a \in Admins, AdminStep(a)
        PROVE  TypeOK' /\ Active'
    BY <1>3, AdminStepTyped
  <1>4. ASSUME NEW m \in Matchers, BeginMatch(m) \/ MatchStep(m)
        PROVE  TypeOK' /\ Active'
    BY <1>4, MatchStepTyped
  <1>5. CASE UNCHANGED vars
    BY <1>5 DEF TypeOK, Active, vars, disk, cache, admin, match, store, host, bounds, history
  <1> QED BY <1>1, <1>2, <1>3, <1>4, <1>5 DEF Next

\* Types are an invariant: no interleaving, failure or restart leaves the catalogue,
\* its copies or a request malformed.
THEOREM Typing == Spec => []TypeOK
  <1>1. Spec => [](TypeOK /\ Active)
    BY InitTyped, NextTyped, PTL DEF Spec
  <1> QED BY <1>1, PTL

-----------------------------------------------------------------------------
(* PostgreSQL holds no orphan *)

\* Deleting a capability with its products, as ON DELETE CASCADE does, orphans none.
LEMMA WithoutOwned == ASSUME NEW cat \in Catalog, NEW c \in Caps, Owned(cat)
                      PROVE  Owned(Without(cat, c))
  BY DEF Without, Owned, ProdIds, Catalog

\* A request the foreign key lets through leaves no orphan.
LEMMA WrittenOwned == ASSUME TypeOK, PgOwned, NEW q \in Request, ~Dangling(q)
                      PROVE  Owned(Written(pg, q))
  <1> USE DEF PgOwned
  <1>0. pg \in Catalog
    BY DEF TypeOK
  <1>1. CASE q.kind = "saveCap"
    BY <1>0, <1>1, RowAssumption DEF Written, Request, Owned, ProdIds, Catalog
  <1>2. CASE q.kind = "dropCap"
    BY <1>0, <1>2, WithoutOwned DEF Written, Request
  <1>3. CASE q.kind = "saveProd"
    BY <1>0, <1>3 DEF Written, Request, Owned, ProdIds, Catalog, Dangling
  <1>4. CASE q.kind = "dropProd"
    BY <1>0, <1>4 DEF Written, Request, Owned, ProdIds, Catalog, WithoutProd
  <1> QED BY <1>1, <1>2, <1>3, <1>4 DEF Request

\* Only the boot's upserts and a commit write PostgreSQL.
LEMMA PgOwnedStep == TypeOK /\ Active /\ PgOwned /\ [Next]_vars => PgOwned'
  <1> SUFFICES ASSUME TypeOK, Active, PgOwned, [Next]_vars PROVE PgOwned'
    OBVIOUS
  <1> USE DEF disk, cache, admin, match, store, host, bounds, history, PgOwned
  <1>1. CASE Migrate
    BY <1>1 DEF Migrate, Owned, ProdIds
  <1>2. ASSUME NEW a \in Admins, Commit(a)
        PROVE  PgOwned'
    <2>1. req[a] \in Request
      BY <1>2 DEF Commit, Active
    <2> QED BY <1>2, <2>1, WrittenOwned DEF Commit, Owned, ProdIds
  <1>3. CASE EmbedMatrix \/ EmbedIndex \/ Start \/ Relaunch \/ Crash \/ Redeploy
    BY <1>3 DEF EmbedMatrix, EmbedIndex, Start, Relaunch, Crash, Redeploy, Owned, ProdIds
  <1>4. ASSUME NEW a \in Admins, BeginWrite(a)
        PROVE  PgOwned'
    BY <1>4 DEF BeginWrite, BeginUpsertCapability, BeginDeleteCapability,
                BeginUpsertProduct, BeginDeleteProduct, Begin, Owned, ProdIds
  <1>5. ASSUME NEW a \in Admins, AdminStep(a), ~Commit(a)
        PROVE  PgOwned'
    BY <1>5 DEF AdminStep, Abort, ReadCaps, ReadProds, MirrorRows, SyncFails, Warn, Encode,
                EncodeFails, SaveMatrix, SaveMatrixFails, SaveIndex, SaveIndexFails, DropMatrix, DropIndex, Unmirror,
                UnmirrorFails, Respond, Owned, ProdIds
  <1>6. ASSUME NEW m \in Matchers, BeginMatch(m) \/ MatchStep(m)
        PROVE  PgOwned'
    BY <1>6 DEF BeginMatch, MatchStep, CheckCache, LoadMatrix, LoadIndex, LoadTorn,
                StoreMatrix, StoreIndex, GetMatrix, GetIndex, Score, Owned, ProdIds
  <1>7. CASE UNCHANGED vars
    BY <1>7 DEF vars, Owned, ProdIds
  <1> QED BY <1>1, <1>2, <1>3, <1>4, <1>5, <1>6, <1>7 DEF Next, Boot

\* No order of deletions, product saves, failures and boots leaves PostgreSQL with
\* a product whose capability is gone.
THEOREM Ownership == Spec => []PgOwned
  <1>1. Init => PgOwned
    BY DEF Init, PgOwned, Owned, ProdIds, NoRows
  <1>2. Spec => [](TypeOK /\ Active /\ PgOwned)
    BY <1>1, InitTyped, NextTyped, PgOwnedStep, PTL DEF Spec
  <1> QED BY <1>2, PTL

-----------------------------------------------------------------------------
(* What a write that nothing overlaps leaves behind *)

\* The parts of the inductive invariant, for one request a.

\* Nobody else is writing.
Solo(a) == \A b \in Admins \ {a} : pc[b] = "idle"

\* What sync_sqlite has selected is still what PostgreSQL holds.
Snapped(a) ==
    /\ pc[a] \in {"readProds", "mirror"} => snap[a].caps = pg.caps
    /\ pc[a] = "mirror" => snap[a].prods = pg.prods

\* A deletion that has committed has removed its row.
Gone(a) == pc[a] \notin {"commit", "done"} =>
    /\ req[a].kind = "dropCap" => pg.caps[req[a].cap] = None
    /\ req[a].kind = "dropProd" => pg.prods[req[a].prod] = None

\* After sync_sqlite catalog.db covers PostgreSQL.
Copied(a) == pc[a] \in {"encode", "matrix", "unmirror", "done"} \cup Indexing
                /\ outcome[a] = "ok" => Mirrored

\* The vectors encoded, then saved, then indexed are those of PostgreSQL.
Reindexed(a) == backend = "pg" =>
    /\ pc[a] \in {"matrix", "index"} => vecs[a] = Vectors(pg)
    /\ pc[a] = "index" => matrix = Vectors(pg) /\ "matrix" \notin torn
    /\ pc[a] \in {"dropMatrix", "dropIndex"} => DiskFresh
    /\ pc[a] \in {"unmirror", "done"} /\ outcome[a] = "ok" /\ req[a].reembed => DiskFresh

Lone(a) == Solo(a) /\ Snapped(a) /\ Gone(a) /\ Copied(a) /\ Reindexed(a)
LoneInv == \A a \in Admins : alone[a] /\ pc[a] # "idle" => Lone(a)

\* The rows of the vectors computed from a catalogue are its capabilities.
LEMMA EmbeddedVectors == ASSUME NEW cat \in Catalog
                         PROVE  Embedded(Vectors(cat)) = Ids(cat)
  BY RowAssumption DEF Embedded, Vectors, Ids, Catalog

\* Replacing every row of PostgreSQL in the mirror makes the mirror cover it.
LEMMA OverlayMirrors ==
    ASSUME NEW c \in Catalog, NEW old \in Catalog
    PROVE  /\ \A x \in Ids(c) : Overlay(c, old).caps[x] = c.caps[x]
           /\ \A p \in ProdIds(c) : Overlay(c, old).prods[p] = c.prods[p]
  BY DEF Overlay, Ids, ProdIds, Catalog

\* Removing from the mirror what PostgreSQL has removed keeps it covering: a product
\* of the capability that went would be an orphan in PostgreSQL.
LEMMA UnmirrorMirrors ==
    ASSUME TypeOK, PgOwned, Mirrored, NEW q \in Request,
           q.kind \in {"dropCap", "dropProd"},
           q.kind = "dropCap" => pg.caps[q.cap] = None,
           q.kind = "dropProd" => pg.prods[q.prod] = None,
           NEW new,
           new = IF q.kind = "dropCap" THEN Without(lite, q.cap) ELSE WithoutProd(lite, q.prod)
    PROVE  /\ \A c \in Ids(pg) : new.caps[c] = pg.caps[c]
           /\ \A p \in ProdIds(pg) : new.prods[p] = pg.prods[p]
  <1>1. CASE q.kind = "dropCap"
    <2>1. q.cap \in Caps /\ new = Without(lite, q.cap)
      BY <1>1 DEF Request
    <2>2. \A c \in Ids(pg) : new.caps[c] = pg.caps[c]
      BY <1>1, <2>1 DEF Without, Ids, TypeOK, Catalog, Mirrored
    <2>3. ASSUME NEW p \in ProdIds(pg)
          PROVE  new.prods[p] = pg.prods[p]
      <3>1. pg.prods[p] # q.cap
        BY <1>1, <2>1 DEF PgOwned, Owned
      <3>2. lite.prods[p] = pg.prods[p] /\ p \in Prods
        BY DEF Mirrored, ProdIds
      <3> QED BY <2>1, <3>1, <3>2 DEF Without
    <2> QED BY <2>2, <2>3
  <1>2. CASE q.kind = "dropProd"
    <2>1. q.prod \in Prods /\ new = WithoutProd(lite, q.prod)
      BY <1>2 DEF Request
    <2>2. q.prod \notin ProdIds(pg)
      BY <1>2 DEF ProdIds
    <2>3. lite \in Catalog
      BY DEF TypeOK
    <2> QED BY <2>1, <2>2, <2>3 DEF WithoutProd, Ids, ProdIds, Catalog, Mirrored
  <1> QED BY <1>1, <1>2

\* The next step of a lone request keeps what is known about it.
LEMMA LoneAdminStep ==
    ASSUME TypeOK, Active, PgOwned, NEW a \in Admins, Lone(a), AdminStep(a)
    PROVE  pc'[a] # "idle" => Lone(a)'
  <1> USE DEF Lone, Goto, Indexing, disk, cache, admin, match, store, host, bounds, history
  <1>0. pc \in [Admins -> Steps] /\ pg \in Catalog /\ lite \in Catalog
    BY DEF TypeOK
  <1>1. CASE Commit(a)
    <2>1. req[a] \in Request /\ pc'[a] = "readCaps" /\ outcome' = outcome
      BY <1>0, <1>1 DEF Commit, Active
    <2>2. Solo(a)'
      BY <1>0, <1>1 DEF Commit, Solo
    <2>3. Gone(a)'
      BY <1>0, <1>1, <2>1 DEF Commit, Gone, Written, Without, WithoutProd, Request, Catalog
    <2>4. Snapped(a)' /\ Copied(a)' /\ Reindexed(a)'
      BY <2>1 DEF Snapped, Copied, Reindexed
    <2> QED BY <2>2, <2>3, <2>4
  <1>2. CASE Abort(a)
    <2>1. pc'[a] = "done" /\ outcome'[a] = "error"
      BY <1>0, <1>2 DEF Abort, TypeOK
    <2>2. Solo(a)'
      BY <1>0, <1>2 DEF Abort, Solo
    <2> QED BY <2>1, <2>2 DEF Snapped, Gone, Copied, Reindexed
  <1>3. CASE ReadCaps(a)
    <2>1. pc[a] = "readCaps" /\ pc'[a] = "readProds" /\ snap'[a].caps = pg.caps /\ pg' = pg
      BY <1>0, <1>3 DEF ReadCaps, TypeOK, Catalog
    <2>2. Solo(a)'
      BY <1>0, <1>3 DEF ReadCaps, Solo
    <2>3. Gone(a)'
      BY <1>3, <2>1 DEF ReadCaps, Gone
    <2> QED BY <2>1, <2>2, <2>3 DEF Snapped, Copied, Reindexed
  <1>4. CASE ReadProds(a)
    <2>1. /\ pc[a] = "readProds" /\ pc'[a] = "mirror" /\ pg' = pg
          /\ snap'[a].prods = pg.prods /\ snap'[a].caps = snap[a].caps
      BY <1>0, <1>4 DEF ReadProds, TypeOK, Catalog
    <2>2. Solo(a)'
      BY <1>0, <1>4 DEF ReadProds, Solo
    <2>3. Gone(a)' /\ Snapped(a)'
      BY <1>4, <2>1 DEF ReadProds, Gone, Snapped
    <2> QED BY <2>1, <2>2, <2>3 DEF Copied, Reindexed
  <1>5. CASE MirrorRows(a)
    <2>1. /\ pc[a] = "mirror" /\ pc'[a] \in {"encode", "unmirror", "done"} /\ pg' = pg
          /\ pc'[a] \in {"unmirror", "done"} => ~req[a].reembed
          /\ req' = req /\ backend' = backend /\ lite' = Overlay(snap[a], lite)
      BY <1>0, <1>5 DEF MirrorRows, Rest
    <2>2. Solo(a)'
      BY <1>0, <1>5 DEF MirrorRows, Solo
    <2>3. snap[a] \in Catalog /\ Ids(snap[a]) = Ids(pg) /\ ProdIds(snap[a]) = ProdIds(pg)
      BY <2>1 DEF Snapped, TypeOK, Ids, ProdIds
    <2>4. Mirrored'
      BY <1>0, <2>1, <2>3, OverlayMirrors DEF Snapped, Mirrored, Ids, ProdIds
    <2>5. Gone(a)' /\ Snapped(a)' /\ Copied(a)' /\ Reindexed(a)'
      BY <2>1, <2>4 DEF Gone, Snapped, Copied, Reindexed
    <2> QED BY <2>2, <2>5
  <1>6. CASE SyncFails(a) \/ EncodeFails(a) \/ SaveMatrixFails(a) \/ SaveIndexFails(a)
    <2>1. /\ pc[a] \in {"readCaps", "mirror", "encode", "matrix", "index"}
          /\ pc'[a] \in {"unmirror", "done"}
          /\ outcome'[a] = "warning" /\ pg' = pg /\ req' = req
      BY <1>0, <1>6
         DEF SyncFails, EncodeFails, SaveMatrixFails, SaveIndexFails, Warn, Rest, TypeOK
    <2>2. Solo(a)'
      BY <1>0, <1>6 DEF SyncFails, EncodeFails, SaveMatrixFails, SaveIndexFails, Warn, Solo
    <2> QED BY <2>1, <2>2 DEF Gone, Snapped, Copied, Reindexed
  <1>7. CASE Encode(a)
    <2>1. /\ pc[a] = "encode" /\ pc'[a] = "matrix" /\ pg' = pg /\ lite' = lite
          /\ req' = req /\ outcome' = outcome /\ backend' = backend
          /\ backend = "pg" => vecs'[a] = Vectors(pg)
      BY <1>0, <1>7 DEF Encode, Repo, TypeOK
    <2>2. Solo(a)'
      BY <1>0, <1>7 DEF Encode, Solo
    <2>3. Vectors(pg)' = Vectors(pg) /\ Mirrored' = Mirrored
      BY <2>1 DEF Vectors, Mirrored, Ids, ProdIds
    <2> QED BY <2>1, <2>2, <2>3 DEF Gone, Snapped, Copied, Reindexed
  <1>8. CASE SaveMatrix(a)
    <2>1. /\ pc[a] = "matrix" /\ pc'[a] = "index" /\ pg' = pg /\ lite' = lite
          /\ req' = req /\ outcome' = outcome /\ backend' = backend
          /\ vecs' = vecs /\ matrix' = vecs[a] /\ torn' = torn \ {"matrix"}
      BY <1>0, <1>8 DEF SaveMatrix
    <2>2. Solo(a)'
      BY <1>0, <1>8 DEF SaveMatrix, Solo
    <2>3. Vectors(pg)' = Vectors(pg) /\ Mirrored' = Mirrored
      BY <2>1 DEF Vectors, Mirrored, Ids, ProdIds
    <2> QED BY <2>1, <2>2, <2>3 DEF Gone, Snapped, Copied, Reindexed
  <1>9. CASE SaveIndex(a)
    <2>1. /\ pc[a] = "index" /\ pc'[a] = "dropMatrix" /\ pg' = pg /\ lite' = lite
          /\ req' = req /\ outcome' = outcome /\ backend' = backend
          /\ matrix' = matrix /\ index' = Embedded(vecs[a]) /\ torn' = torn \ {"index"}
      BY <1>0, <1>9 DEF SaveIndex
    <2>2. Solo(a)'
      BY <1>0, <1>9 DEF SaveIndex, Solo
    <2>3. Mirrored' = Mirrored
      BY <2>1 DEF Mirrored, Ids, ProdIds
    <2>4. backend = "pg" => DiskFresh'
      BY <1>0, <2>1, EmbeddedVectors DEF Reindexed, DiskFresh, Vectors, Ids, TypeOK
    <2> QED BY <2>1, <2>2, <2>3, <2>4 DEF Gone, Snapped, Copied, Reindexed
  <1>10. CASE DropMatrix(a) \/ DropIndex(a)
    <2>1. /\ pc[a] \in {"dropMatrix", "dropIndex"}
          /\ pc'[a] \in {"dropMatrix", "dropIndex", "unmirror", "done"}
          /\ pg' = pg /\ lite' = lite /\ matrix' = matrix /\ index' = index /\ torn' = torn
          /\ req' = req /\ outcome' = outcome /\ backend' = backend
      BY <1>0, <1>10 DEF DropMatrix, DropIndex, Rest
    <2>2. Solo(a)'
      BY <1>0, <1>10 DEF DropMatrix, DropIndex, Solo
    <2>3. Mirrored' = Mirrored /\ DiskFresh' = DiskFresh
      BY <2>1 DEF Mirrored, DiskFresh, Vectors, Ids, ProdIds
    <2> QED BY <2>1, <2>2, <2>3 DEF Gone, Snapped, Copied, Reindexed
  <1>11. CASE Unmirror(a)
    <2>1. /\ pc[a] = "unmirror" /\ pc'[a] = "done" /\ pg' = pg
          /\ matrix' = matrix /\ index' = index /\ torn' = torn
          /\ req' = req /\ outcome' = outcome /\ backend' = backend
          /\ req[a] \in Request /\ req[a].kind \in {"dropCap", "dropProd"}
          /\ lite' = IF req[a].kind = "dropCap" THEN Without(lite, req[a].cap)
                     ELSE WithoutProd(lite, req[a].prod)
      BY <1>0, <1>11 DEF Unmirror, Active
    <2>2. Solo(a)'
      BY <1>0, <1>11 DEF Unmirror, Solo
    <2>3. Mirrored => Mirrored'
      <3>1. SUFFICES ASSUME Mirrored PROVE Mirrored'
        OBVIOUS
      <3>2. /\ req[a].kind = "dropCap" => pg.caps[req[a].cap] = None
            /\ req[a].kind = "dropProd" => pg.prods[req[a].prod] = None
        BY <2>1 DEF Gone
      <3>3. /\ \A c \in Ids(pg) : lite'.caps[c] = pg.caps[c]
            /\ \A p \in ProdIds(pg) : lite'.prods[p] = pg.prods[p]
        BY <2>1, <3>1, <3>2, UnmirrorMirrors
      <3> QED BY <2>1, <3>3 DEF Mirrored, Ids, ProdIds
    <2>4. DiskFresh' = DiskFresh
      BY <2>1 DEF DiskFresh, Vectors, Ids
    <2> QED BY <2>1, <2>2, <2>3, <2>4 DEF Gone, Snapped, Copied, Reindexed
  <1>12. CASE UnmirrorFails(a)
    <2>1. pc'[a] = "done" /\ outcome'[a] = "error"
      BY <1>0, <1>12 DEF UnmirrorFails, TypeOK
    <2>2. Solo(a)'
      BY <1>0, <1>12 DEF UnmirrorFails, Solo
    <2> QED BY <2>1, <2>2 DEF Gone, Snapped, Copied, Reindexed
  <1>13. CASE Respond(a)
    BY <1>0, <1>13 DEF Respond
  <1> QED BY <1>1, <1>2, <1>3, <1>4, <1>5, <1>6, <1>7, <1>8, <1>9, <1>10, <1>11,
             <1>12, <1>13 DEF AdminStep

\* Every step of the system keeps what is known about lone requests.
LEMMA LoneStep == TypeOK /\ Active /\ PgOwned /\ LoneInv /\ [Next]_vars => LoneInv'
  <1> SUFFICES ASSUME TypeOK, Active, PgOwned, LoneInv, [Next]_vars PROVE LoneInv'
    OBVIOUS
  <1> USE DEF disk, cache, admin, match, store, host, bounds, history
  <1>1. CASE Boot
    <2>1. boot # "up" /\ pc' = pc
      BY <1>1 DEF Boot, Migrate, EmbedMatrix, EmbedIndex, Start, Relaunch
    <2> QED BY <2>1 DEF Active, LoneInv
  <1>2. CASE Crash \/ Redeploy
    <2>1. \A a \in Admins : pc'[a] = "idle"
      BY <1>2, FreshTyped DEF Crash, Redeploy
    <2> QED BY <2>1 DEF LoneInv
  <1>3. ASSUME NEW a \in Admins, BeginWrite(a)
        PROVE  LoneInv'
    <2>1. PICK q \in Request : Begin(a, q)
      BY <1>3, BeginWriteRequests
    <2>2. ASSUME NEW b \in Admins, alone'[b]
          PROVE  Lone(b)'
      <3>1. b = a /\ \A d \in Admins \ {a} : pc[d] = "idle"
        BY <2>1, <2>2 DEF Begin
      <3>2. pc'[b] = "commit" /\ \A d \in Admins \ {a} : pc'[d] = "idle"
        BY <2>1, <3>1 DEF Begin, Goto, TypeOK
      <3> QED BY <3>1, <3>2
              DEF Lone, Solo, Snapped, Gone, Copied, Reindexed, Indexing
    <2> QED BY <2>2 DEF LoneInv
  <1>4. ASSUME NEW a \in Admins, AdminStep(a)
        PROVE  LoneInv'
    <2>1. /\ pc[a] # "idle" /\ alone' = alone
          /\ \A b \in Admins \ {a} : pc'[b] = pc[b]
      BY <1>4 DEF AdminStep, Commit, Abort, ReadCaps, ReadProds, MirrorRows, SyncFails, Warn,
                  Encode, EncodeFails, SaveMatrix, SaveMatrixFails, SaveIndex, SaveIndexFails, DropMatrix, DropIndex, Unmirror,
                  UnmirrorFails, Respond, Goto, TypeOK
    <2>2. ASSUME NEW b \in Admins, alone'[b], pc'[b] # "idle"
          PROVE  Lone(b)'
      <3>1. CASE b = a
        BY <1>4, <2>1, <2>2, <3>1, LoneAdminStep DEF LoneInv
      <3>2. CASE b # a
        BY <2>1, <2>2, <3>2 DEF LoneInv, Lone, Solo
      <3> QED BY <3>1, <3>2
    <2> QED BY <2>2 DEF LoneInv
  <1>5. CASE UNCHANGED <<pg, lite, matrix, index, torn, backend, pc, req, snap, vecs, outcome, alone>>
    BY <1>5 DEF LoneInv, Lone, Solo, Snapped, Gone, Copied, Reindexed, Mirrored, DiskFresh,
                Vectors, Ids, ProdIds
  <1>6. ASSUME NEW m \in Matchers, BeginMatch(m) \/ MatchStep(m)
        PROVE  LoneInv'
    BY <1>5, <1>6 DEF BeginMatch, MatchStep, CheckCache, LoadMatrix, LoadIndex, LoadTorn,
                StoreMatrix, StoreIndex, GetMatrix, GetIndex, Score
  <1>7. CASE UNCHANGED vars
    BY <1>5, <1>7 DEF vars
  <1> QED BY <1>1, <1>2, <1>3, <1>4, <1>6, <1>7 DEF Next

\* The invariant that carries both results below.
LEMMA LoneInvariance == Spec => [](TypeOK /\ LoneInv)
  <1>1. Init => PgOwned /\ LoneInv
    BY DEF Init, PgOwned, Owned, ProdIds, NoRows, LoneInv
  <1>2. Spec => [](TypeOK /\ Active /\ PgOwned /\ LoneInv)
    BY <1>1, InitTyped, NextTyped, PgOwnedStep, LoneStep, PTL DEF Spec
  <1> QED BY <1>2, PTL

\* A write that no other overlaps and that is answered without a warning leaves
\* catalog.db holding every row of PostgreSQL, whatever failed before it.
THEOREM LoneWrite == Spec => []LoneWriteMirrors
  <1>1. TypeOK /\ LoneInv => LoneWriteMirrors
    BY DEF LoneInv, Lone, Copied, LoneWriteMirrors
  <1> QED BY <1>1, LoneInvariance, PTL

\* When it re-embeds, the files on disk are those of PostgreSQL.
THEOREM LoneReembed == Spec => []LoneReembedFresh
  <1>1. TypeOK /\ LoneInv => LoneReembedFresh
    BY DEF LoneInv, Lone, Reindexed, LoneReembedFresh
  <1> QED BY <1>1, LoneInvariance, PTL

-----------------------------------------------------------------------------
(* The row counts that migrate_catalog_to_pg.py compares are enough *)

\* Upserting catalog.db into PostgreSQL and finding equal counts means that the two
\* are equal, row by row, although only counts are compared.
LEMMA SameCountsSuffice ==
    ASSUME NEW l \in Catalog, NEW g \in Catalog, SameCounts(Overlay(l, g), l)
    PROVE  Overlay(l, g) = l
  <1> DEFINE m == Overlay(l, g)
  <1>1. m \in Catalog
    BY OverlayType
  <1>2. /\ Ids(l) \subseteq Ids(m) /\ Ids(m) \subseteq Caps
        /\ ProdIds(l) \subseteq ProdIds(m) /\ ProdIds(m) \subseteq Prods
    BY DEF Overlay, Ids, ProdIds
  <1>3. IsFiniteSet(Ids(m)) /\ IsFiniteSet(ProdIds(m))
    BY <1>2, FiniteAssumption, FS_Subset
  <1>4. Ids(l) = Ids(m) /\ ProdIds(l) = ProdIds(m)
    BY <1>2, <1>3, FS_Subset DEF SameCounts
  <1>5. \A c \in Caps : m.caps[c] = l.caps[c]
    BY <1>4 DEF Overlay, Ids
  <1>6. \A p \in Prods : m.prods[p] = l.prods[p]
    BY <1>4 DEF Overlay, ProdIds
  <1> HIDE DEF m
  <1>7. m.caps = l.caps /\ m.prods = l.prods
    BY <1>1, <1>5, <1>6 DEF Catalog
  <1> QED BY <1>1, <1>7 DEF Catalog, m

\* What each stage of the entrypoint has established.
BootInv == /\ boot \in {"embedMatrix", "embedIndex", "start"} => pg = Lifted(lite)
           /\ boot = "embedIndex" => matrix = Vectors(lite) /\ "matrix" \notin torn
           /\ boot = "start" => DiskFresh

\* Stages follow each other; requests run only when the API is up.
LEMMA BootStep == TypeOK /\ Active /\ BootInv /\ [Next]_vars => BootInv'
  <1> SUFFICES ASSUME TypeOK, Active, BootInv, [Next]_vars PROVE BootInv'
    OBVIOUS
  <1> USE DEF disk, cache, admin, match, store, host, bounds, history, BootInv
  <1>1. CASE Migrate
    <2>1. CASE boot' = "exited"
      BY <2>1
    <2>2. CASE boot' = "embedMatrix"
      <3>1. pg' = Overlay(Lifted(lite), pg) /\ SameCounts(pg', lite) /\ lite' = lite
        BY <1>1, <2>2 DEF Migrate
      <3>2. Lifted(lite) \in Catalog /\ SameCounts(pg', Lifted(lite))
        BY <3>1, LiftedType, LiftedIds DEF TypeOK, SameCounts
      <3>3. pg' = Lifted(lite)
        BY <3>1, <3>2, SameCountsSuffice DEF TypeOK
      <3> QED BY <2>2, <3>1, <3>3 DEF Lifted
    <2> QED BY <1>1, <2>1, <2>2 DEF Migrate
  <1>2. CASE EmbedMatrix
    BY <1>2 DEF EmbedMatrix, Vectors, Lifted
  <1>3. CASE EmbedIndex
    <2>1. /\ pg = Lifted(lite) /\ matrix = Vectors(lite) /\ index' = Ids(lite)
          /\ pg' = pg /\ lite' = lite /\ matrix' = matrix /\ boot' = "start"
          /\ torn' = {}
      BY <1>3 DEF EmbedIndex, TypeOK
    <2>2. matrix = Vectors(pg) /\ Ids(lite) = Ids(pg)
      BY <2>1, LiftedIds, LiftedVectors DEF TypeOK
    <2> QED BY <2>1, <2>2 DEF DiskFresh, Vectors, Ids, Lifted
  <1>4. CASE Start \/ Relaunch \/ Crash \/ Redeploy
    BY <1>4 DEF Start, Relaunch, Crash, Redeploy
  <1>5. ASSUME boot = "up", boot' = boot
        PROVE  BootInv'
    BY <1>5
  <1>6. ASSUME NEW a \in Admins, BeginWrite(a)
        PROVE  boot = "up" /\ boot' = boot
    BY <1>6 DEF BeginWrite, BeginUpsertCapability, BeginDeleteCapability,
                BeginUpsertProduct, BeginDeleteProduct, Begin
  <1>7. ASSUME NEW a \in Admins, AdminStep(a)
        PROVE  boot = "up" /\ boot' = boot
    <2>1. pc[a] # "idle" /\ boot' = boot
      BY <1>7 DEF AdminStep, Commit, Abort, ReadCaps, ReadProds, MirrorRows, SyncFails, Warn,
                  Encode, EncodeFails, SaveMatrix, SaveMatrixFails, SaveIndex, SaveIndexFails, DropMatrix, DropIndex, Unmirror,
                  UnmirrorFails, Respond
    <2> QED BY <2>1 DEF Active
  <1>8. CASE UNCHANGED <<pg, lite, matrix, index, torn, boot>>
    BY <1>8 DEF DiskFresh, Vectors, Ids, Lifted
  <1>9. ASSUME NEW m \in Matchers, BeginMatch(m) \/ MatchStep(m)
        PROVE  BootInv'
    BY <1>8, <1>9 DEF BeginMatch, MatchStep, CheckCache, LoadMatrix, LoadIndex, LoadTorn,
                StoreMatrix, StoreIndex, GetMatrix, GetIndex, Score
  <1>10. CASE UNCHANGED vars
    BY <1>8, <1>10 DEF vars
  <1> QED BY <1>1, <1>2, <1>3, <1>4, <1>5, <1>6, <1>7, <1>9, <1>10 DEF Next, Boot

\* The API starts only when PostgreSQL, catalog.db and the two files agree, however
\* far apart the previous container left them.
THEOREM StartSound == Spec => []SoundStart
  <1>1. Init => BootInv
    BY DEF Init, BootInv
  <1>2. BootInv => SoundStart
    BY DEF BootInv, SoundStart
  <1>3. Spec => [](TypeOK /\ Active /\ BootInv)
    BY <1>1, InitTyped, NextTyped, BootStep, PTL DEF Spec
  <1> QED BY <1>2, <1>3, PTL

=============================================================================
