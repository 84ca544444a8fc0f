------------------------ MODULE CatalogCopiesProofs ------------------------
(***************************************************************************)
(* Proofs about the copies of the catalogue: catalog.db and the files when *)
(* admin requests follow one another, and the pair that the engine keeps   *)
(* in memory however they interleave.                                      *)
(***************************************************************************)
EXTENDS CatalogSyncProofs

-----------------------------------------------------------------------------
(* One admin request at a time *)

\* A hypothesis of the results in this part.
OneAdmin == \A a, b \in Admins : a = b

\* It makes every request a lone one.
AllAlone == \A a \in Admins : alone[a]

LEMMA AllAloneStep == ASSUME OneAdmin, TypeOK, AllAlone, [Next]_vars PROVE AllAlone'
  <1> USE DEF AllAlone
  <1>1. CASE alone' = alone
    BY <1>1
  <1>2. CASE Crash \/ Redeploy
    BY <1>2 DEF Crash, Redeploy, Fresh
  <1>3. ASSUME NEW a \in Admins, BeginWrite(a) PROVE AllAlone'
    BY <1>3 DEF OneAdmin, BeginWrite, BeginUpsertCapability, BeginDeleteCapability,
       BeginUpsertProduct, BeginDeleteProduct, Begin
  <1>4. CASE Boot \/ UNCHANGED vars
    BY <1>1, <1>4 DEF Boot, Migrate, EmbedMatrix, EmbedIndex, Start, Relaunch, vars, history
  <1>5. ASSUME NEW a \in Admins, AdminStep(a) PROVE alone' = alone
    BY <1>5 DEF AdminStep, Commit, Abort, ReadCaps, ReadProds, MirrorRows, SyncFails, Warn, Encode,
       EncodeFails, SaveMatrix, SaveMatrixFails, SaveIndex, SaveIndexFails, DropMatrix, DropIndex, Unmirror, UnmirrorFails, Respond,
       history
  <1>6. ASSUME NEW m \in Matchers, BeginMatch(m) \/ MatchStep(m) PROVE alone' = alone
    BY <1>6 DEF BeginMatch, MatchStep, CheckCache, LoadMatrix, LoadIndex, LoadTorn, StoreMatrix,
       StoreIndex, GetMatrix, GetIndex, Score, history
  <1> QED BY <1>1, <1>2, <1>3, <1>4, <1>5, <1>6 DEF Next

\* What is known about a lone request, of every request.
Ground == TypeOK /\ Active /\ PgOwned /\ LoneInv /\ BootInv /\ AllAlone

LEMMA GroundStep == ASSUME OneAdmin, Ground, [Next]_vars PROVE Ground'
  BY NextTyped, PgOwnedStep, LoneStep, BootStep, AllAloneStep DEF Ground

LEMMA InitGround == Init => Ground
  <1>1. Init => PgOwned /\ LoneInv /\ BootInv /\ AllAlone
    BY DEF Init, PgOwned, Owned, ProdIds, NoRows, LoneInv, BootInv, AllAlone
  <1> QED BY <1>1, InitTyped DEF Ground

-----------------------------------------------------------------------------
(* catalog.db holds no orphan *)

\* Replacing rows by those of a catalogue without orphans makes none.
LEMMA OverlayOwned ==
    ASSUME NEW new \in Catalog, NEW old \in Catalog, Owned(new), Owned(old)
    PROVE  Owned(Overlay(new, old))
  <1> SUFFICES ASSUME NEW p \in Prods, Overlay(new, old).prods[p] # None
               PROVE  Overlay(new, old).caps[Overlay(new, old).prods[p]] # None
    BY DEF Owned, ProdIds
  <1>1. new.prods[p] \in Caps \cup {None} /\ old.prods[p] \in Caps \cup {None}
    BY DEF Catalog
  <1>2. CASE new.prods[p] # None
    <2>1. Overlay(new, old).prods[p] = new.prods[p] /\ new.caps[new.prods[p]] # None
      BY <1>2 DEF Overlay, Owned, ProdIds
    <2> QED BY <1>1, <1>2, <2>1 DEF Overlay
  <1>3. CASE new.prods[p] = None
    <2>1. Overlay(new, old).prods[p] = old.prods[p] /\ old.prods[p] # None
      BY <1>3 DEF Overlay
    <2>2. old.caps[old.prods[p]] # None
      BY <2>1 DEF Owned, ProdIds
    <2> QED BY <1>1, <2>1, <2>2 DEF Overlay
  <1> QED BY <1>2, <1>3

LEMMA WithoutProdOwned == ASSUME NEW cat \in Catalog, NEW p \in Prods, Owned(cat)
                          PROVE  Owned(WithoutProd(cat, p))
  BY DEF WithoutProd, Owned, ProdIds, Catalog

LEMMA MirrorOwnedStep ==
    ASSUME OneAdmin, Owned(Seed), Ground, MirrorOwned, [Next]_vars
    PROVE  MirrorOwned'
  <1> USE DEF MirrorOwned, Ground, disk, cache, admin, match, store, host, bounds, history
  <1>1. CASE lite' = lite
    BY <1>1 DEF Owned, ProdIds
  <1>2. ASSUME NEW a \in Admins, MirrorRows(a) PROVE MirrorOwned'
    <2>1. pc[a] = "mirror" /\ lite' = Overlay(snap[a], lite)
      BY <1>2 DEF MirrorRows
    <2>2. snap[a].caps = pg.caps /\ snap[a].prods = pg.prods
      BY <2>1 DEF AllAlone, LoneInv, Lone, Snapped
    <2>3. Owned(snap[a])
      BY <2>2 DEF PgOwned, Owned, ProdIds
    <2>4. Owned(Overlay(snap[a], lite))
      BY <2>3, OverlayOwned DEF TypeOK
    <2> QED BY <2>1, <2>4 DEF Owned, ProdIds
  <1>3. ASSUME NEW a \in Admins, Unmirror(a) PROVE MirrorOwned'
    <2>1. /\ req[a] \in Request /\ req[a].kind \in {"dropCap", "dropProd"}
          /\ lite' = IF req[a].kind = "dropCap" THEN Without(lite, req[a].cap)
                     ELSE WithoutProd(lite, req[a].prod)
      BY <1>3 DEF Unmirror, Active
    <2>2. CASE req[a].kind = "dropCap"
      <3>1. Owned(Without(lite, req[a].cap))
        BY <2>1, <2>2, WithoutOwned DEF Request, TypeOK
      <3> QED BY <2>1, <2>2, <3>1 DEF Owned, ProdIds
    <2>3. CASE req[a].kind = "dropProd"
      <3>1. Owned(WithoutProd(lite, req[a].prod))
        BY <2>1, <2>3, WithoutProdOwned DEF Request, TypeOK
      <3> QED BY <2>1, <2>3, <3>1 DEF Owned, ProdIds
    <2> QED BY <2>1, <2>2, <2>3
  <1>4. CASE Redeploy
    BY <1>4 DEF Redeploy, Owned, ProdIds
  <1>5. CASE Boot \/ Crash \/ UNCHANGED vars
    BY <1>1, <1>5 DEF Boot, Migrate, EmbedMatrix, EmbedIndex, Start, Relaunch, Crash, vars
  <1>6. ASSUME NEW a \in Admins, BeginWrite(a) PROVE lite' = lite
    BY <1>6 DEF BeginWrite, BeginUpsertCapability, BeginDeleteCapability, BeginUpsertProduct,
       BeginDeleteProduct, Begin
  <1>7. ASSUME NEW a \in Admins, AdminStep(a), ~MirrorRows(a), ~Unmirror(a) PROVE lite' = lite
    BY <1>7 DEF AdminStep, Commit, Abort, ReadCaps, ReadProds, SyncFails, Warn, Encode, EncodeFails,
       SaveMatrix, SaveMatrixFails, SaveIndex, SaveIndexFails, DropMatrix, DropIndex, UnmirrorFails, Respond
  <1>8. ASSUME NEW m \in Matchers, BeginMatch(m) \/ MatchStep(m) PROVE lite' = lite
    BY <1>8 DEF BeginMatch, MatchStep, CheckCache, LoadMatrix, LoadIndex, LoadTorn, StoreMatrix,
       StoreIndex, GetMatrix, GetIndex, Score
  <1> QED BY <1>1, <1>2, <1>3, <1>4, <1>5, <1>6, <1>7, <1>8 DEF Next

\* While admin requests follow one another, whatever fails and whenever the container
\* restarts, catalog.db never holds a product without its capability: provided the
\* shipped one does not, the foreign key cannot refuse the upserts of the next boot.
THEOREM MirrorOwnership ==
    ASSUME OneAdmin, Owned(Seed)
    PROVE  Spec => []MirrorOwned
  <1>1. Init => Ground /\ MirrorOwned
    BY InitGround DEF Init, MirrorOwned, Owned, ProdIds
  <1>2. Ground /\ MirrorOwned /\ [Next]_vars => (Ground /\ MirrorOwned)'
    BY GroundStep, MirrorOwnedStep
  <1> QED BY <1>1, <1>2, PTL DEF Spec

-----------------------------------------------------------------------------
(* Which vectors can be out of date *)

\* A save that will not re-embed found a row with the text it writes, and the row is
\* still there when it commits.
Unasked == \A a \in Admins :
    pc[a] = "commit" /\ req[a].kind = "saveCap" /\ ~req[a].reembed
    => pg.caps[req[a].cap] # None /\ TextOf[pg.caps[req[a].cap]] = TextOf[req[a].row]

LEMMA UnaskedStep == ASSUME OneAdmin, Ground, Unasked, [Next]_vars PROVE Unasked'
  <1> USE DEF Ground, disk, cache, admin, match, store, host, bounds, history
  <1>1. CASE UNCHANGED <<pg, pc, req>>
    BY <1>1 DEF Unasked
  <1>2. ASSUME \A a \in Admins : pc'[a] # "commit" PROVE Unasked'
    BY <1>2 DEF Unasked
  <1>3. CASE Crash \/ Redeploy
    BY <1>2, <1>3 DEF Crash, Redeploy, Fresh
  <1>4. CASE Boot
    <2>1. boot # "up" /\ pc' = pc
      BY <1>4 DEF Boot, Migrate, EmbedMatrix, EmbedIndex, Start, Relaunch
    <2> QED BY <1>2, <2>1 DEF Active
  <1>5. ASSUME NEW a \in Admins, AdminStep(a) PROVE Unasked'
    <2>1. pc'[a] # "commit"
      BY <1>5 DEF AdminStep, Commit, Abort, ReadCaps, ReadProds, MirrorRows, SyncFails, Warn,
         Encode, EncodeFails, SaveMatrix, SaveMatrixFails, SaveIndex, SaveIndexFails, DropMatrix, DropIndex, Unmirror,
         UnmirrorFails, Respond, Goto, Rest, TypeOK
    <2> QED BY <1>2, <2>1 DEF OneAdmin
  <1>6. ASSUME NEW a \in Admins, BeginWrite(a) PROVE Unasked'
    <2>1. pg' = pg
      BY <1>6 DEF BeginWrite, BeginUpsertCapability, BeginDeleteCapability, BeginUpsertProduct,
         BeginDeleteProduct, Begin
    <2>2. req'[a].kind = "saveCap" /\ ~req'[a].reembed
          => pg.caps[req'[a].cap] # None /\ TextOf[pg.caps[req'[a].cap]] = TextOf[req'[a].row]
      <3>1. CASE BeginUpsertCapability(a)
        <4>1. PICK c \in Caps, r \in Rows :
                Begin(a, [kind |-> "saveCap", cap |-> c, prod |-> None, row |-> r,
                          reembed |-> EmbeddingTextChanged(pg.caps[c], r)])
          BY <3>1 DEF BeginUpsertCapability
        <4>2. /\ req'[a].cap = c /\ req'[a].row = r
              /\ req'[a].reembed = EmbeddingTextChanged(pg.caps[c], r)
          BY <4>1 DEF Begin, TypeOK
        <4> QED BY <4>2 DEF EmbeddingTextChanged
      <3>2. CASE BeginDeleteCapability(a) \/ BeginUpsertProduct(a) \/ BeginDeleteProduct(a)
        BY <3>2 DEF BeginDeleteCapability, BeginUpsertProduct, BeginDeleteProduct, Begin, TypeOK
      <3> QED BY <1>6, <3>1, <3>2 DEF BeginWrite
    <2> QED BY <2>1, <2>2 DEF Unasked, OneAdmin
  <1>7. ASSUME NEW m \in Matchers, BeginMatch(m) \/ MatchStep(m) PROVE Unasked'
    BY <1>1, <1>7 DEF BeginMatch, MatchStep, CheckCache, LoadMatrix, LoadIndex, LoadTorn,
       StoreMatrix, StoreIndex, GetMatrix, GetIndex, Score
  <1>8. CASE UNCHANGED vars
    BY <1>1, <1>8 DEF vars
  <1> QED BY <1>3, <1>4, <1>5, <1>6, <1>7, <1>8 DEF Next

\* A commit that does not ask for a re-embed leaves the embedded text of every row, and
\* one that does asks for its capability alone.
LEMMA CommitKeepsTexts ==
    ASSUME Ground, Unasked, NEW a \in Admins, Commit(a), NEW c \in Caps, c \notin owed'
    PROVE  Vectors(pg)[c] = Vectors(pg')[c] /\ (c \in Ids(pg) <=> c \in Ids(pg'))
  <1> USE DEF Ground
  <1> SUFFICES ASSUME NEW q, q = req[a]
               PROVE  Vectors(pg)[c] = Vectors(pg')[c] /\ (c \in Ids(pg) <=> c \in Ids(pg'))
    OBVIOUS
  <1>1. /\ pc[a] = "commit" /\ pg' = Written(pg, q) /\ q \in Request
        /\ owed' = IF q.reembed THEN owed \cup {q.cap} ELSE owed
    BY DEF Commit, Active
  <1>2. q.reembed => c # q.cap
    BY <1>1
  <1>3. CASE pg'.caps[c] = pg.caps[c]
    BY <1>3 DEF Vectors, Ids
  <1>4. CASE q.kind = "saveCap"
    <2>1. CASE c # q.cap
      BY <1>1, <1>3, <1>4, <2>1 DEF Written, TypeOK, Catalog
    <2>2. CASE c = q.cap
      <3>1. pg.caps[c] # None /\ TextOf[pg.caps[c]] = TextOf[q.row]
        BY <1>1, <1>2, <1>4, <2>2 DEF Unasked
      <3>2. pg'.caps[c] = q.row /\ q.row \in Rows
        BY <1>1, <1>4, <2>2 DEF Written, TypeOK, Catalog, Request
      <3>3. q.row # None
        BY <3>2, RowAssumption
      <3> QED BY <3>1, <3>2, <3>3 DEF Vectors, Ids
    <2> QED BY <2>1, <2>2
  <1>5. CASE q.kind = "dropCap"
    BY <1>1, <1>2, <1>3, <1>5 DEF Written, Without, Request, TypeOK, Catalog
  <1>6. CASE q.kind \in {"saveProd", "dropProd"}
    BY <1>1, <1>3, <1>6 DEF Written, WithoutProd, TypeOK, Catalog
  <1> QED BY <1>1, <1>4, <1>5, <1>6 DEF Request

LEMMA OwedStep ==
    ASSUME OneAdmin, Ground, Unasked, OnlyOwedStale, [Next]_vars
    PROVE  OnlyOwedStale'
  <1> USE DEF disk, cache, admin, match, store, host, bounds, history
  <1>a. Ground'
    BY GroundStep
  <1>1. CASE boot' # "up"
    BY <1>1 DEF OnlyOwedStale
  <1>2. ASSUME UNCHANGED <<pg, matrix, index, torn, boot, backend, owed>>,
               \A a \in Admins : pc[a] = "index" => pc'[a] = "index"
        PROVE  OnlyOwedStale'
    BY <1>2 DEF OnlyOwedStale, Vectors, Ids
  <1>3. ASSUME DiskFresh' PROVE OnlyOwedStale'
    BY <1>3 DEF OnlyOwedStale, DiskFresh, Vectors, Ids
  <1>4. CASE Boot
    <2>1. CASE Start
      BY <1>3, <2>1 DEF Start, Ground, BootInv, DiskFresh, Vectors, Ids
    <2> QED BY <1>1, <1>4, <2>1 DEF Boot, Migrate, EmbedMatrix, EmbedIndex, Relaunch
  <1>5. CASE Crash \/ Redeploy
    BY <1>1, <1>5 DEF Crash, Redeploy
  <1>6. ASSUME NEW a \in Admins, BeginWrite(a) PROVE OnlyOwedStale'
    <2>1. PICK q : Begin(a, q)
      BY <1>6, BeginWriteRequests DEF Ground
    <2> QED BY <1>2, <2>1 DEF Begin, Goto, Ground, TypeOK
  <1>7. ASSUME NEW a \in Admins, Commit(a) PROVE OnlyOwedStale'
    <2>1. /\ UNCHANGED <<matrix, index, torn, boot, backend>> /\ owed \subseteq owed'
          /\ \A b \in Admins : pc[b] # "index" /\ pc'[b] # "index"
      BY <1>7 DEF Commit, Goto, Ground, TypeOK, OneAdmin
    <2>2. \A c \in Caps \ owed' : /\ Vectors(pg)[c] = Vectors(pg')[c]
                                  /\ c \in Ids(pg) <=> c \in Ids(pg')
      BY <1>7, CommitKeepsTexts
    <2>3. Vectors(pg') = Vectors(pg)' /\ Ids(pg') = Ids(pg)'
      BY DEF Vectors, Ids
    <2> QED BY <2>1, <2>2, <2>3 DEF OnlyOwedStale
  <1>8. ASSUME NEW a \in Admins, SaveMatrix(a) PROVE OnlyOwedStale'
    <2>1. pc'[a] = "index" /\ alone'[a]
      BY <1>8, <1>a DEF SaveMatrix, Goto, Ground, TypeOK, AllAlone
    <2>2. backend' = "pg" => matrix' = Vectors(pg)'
      BY <1>a, <2>1 DEF Ground, LoneInv, Lone, Reindexed
    <2>3. torn' \subseteq torn /\ UNCHANGED <<boot, backend, owed>>
      BY <1>8 DEF SaveMatrix
    <2> QED BY <2>1, <2>2, <2>3 DEF OnlyOwedStale
  <1>9. ASSUME NEW a \in Admins, SaveIndex(a) PROVE OnlyOwedStale'
    <2>1. pc'[a] = "dropMatrix" /\ alone'[a]
      BY <1>9, <1>a DEF SaveIndex, Goto, Ground, TypeOK, AllAlone
    <2>2. backend' = "pg" => DiskFresh'
      BY <1>a, <2>1 DEF Ground, LoneInv, Lone, Reindexed
    <2> QED BY <1>3, <2>2 DEF OnlyOwedStale
  <1>13. ASSUME owed' = Caps PROVE OnlyOwedStale'
    BY <1>13 DEF OnlyOwedStale
  <1>14. ASSUME NEW a \in Admins, SaveMatrixFails(a) \/ SaveIndexFails(a) PROVE OnlyOwedStale'
    <2>1. CASE SaveMatrixFails(a)
      <3>1. CASE UNCHANGED <<torn, owed, spoiled>>
        <4>1. pc[a] = "matrix" /\ \A b \in Admins : pc[b] # "index"
          BY <2>1 DEF SaveMatrixFails, OneAdmin
        <4> QED BY <1>2, <2>1, <3>1, <4>1 DEF SaveMatrixFails, Warn
      <3> QED BY <1>13, <2>1, <3>1 DEF SaveMatrixFails
    <2> QED BY <1>13, <1>14, <2>1 DEF SaveIndexFails
  <1>10. ASSUME NEW a \in Admins, AdminStep(a), ~Commit(a), ~SaveMatrix(a), ~SaveIndex(a),
                ~SaveMatrixFails(a), ~SaveIndexFails(a)
         PROVE  OnlyOwedStale'
    <2>1. UNCHANGED <<pg, matrix, index, torn, boot, backend, owed>>
      BY <1>10 DEF AdminStep, Abort, ReadCaps, ReadProds, MirrorRows, SyncFails, Warn, Encode,
         EncodeFails, DropMatrix, DropIndex, Unmirror, UnmirrorFails, Respond
    <2>2. pc[a] # "index"
      BY <1>10 DEF AdminStep, Abort, ReadCaps, ReadProds, MirrorRows, SyncFails, Encode,
         EncodeFails, DropMatrix, DropIndex, Unmirror, UnmirrorFails, Respond
    <2> QED BY <1>2, <2>1, <2>2 DEF OneAdmin
  <1>11. ASSUME NEW m \in Matchers, BeginMatch(m) \/ MatchStep(m) PROVE OnlyOwedStale'
    BY <1>2, <1>11 DEF BeginMatch, MatchStep, CheckCache, LoadMatrix, LoadIndex, LoadTorn,
       StoreMatrix, StoreIndex, GetMatrix, GetIndex, Score
  <1>12. CASE UNCHANGED vars
    BY <1>2, <1>12 DEF vars
  <1> QED BY <1>4, <1>5, <1>6, <1>7, <1>8, <1>9, <1>10, <1>11, <1>12,
             <1>14 DEF Next, AdminStep

\* While admin requests follow one another, embedding_text_changed asks for every
\* re-embed that is needed: a capability can only have a wrong vector, or a wrong place
\* in the index, when a re-embed that was asked for it has not succeeded yet.
THEOREM OwedAlone == ASSUME OneAdmin PROVE Spec => []OnlyOwedStale
  <1>1. Init => Ground /\ Unasked /\ OnlyOwedStale
    BY InitGround DEF Init, Unasked, OnlyOwedStale
  <1>2. Ground /\ Unasked /\ OnlyOwedStale /\ [Next]_vars => (Ground /\ Unasked /\ OnlyOwedStale)'
    BY GroundStep, UnaskedStep, OwedStep
  <1> QED BY <1>1, <1>2, PTL DEF Spec

-----------------------------------------------------------------------------
(* The pair that the engine keeps, with any number of admin requests *)

\* No match is in flight.
Quiet == \A m \in Matchers : mpc[m] = "idle"

\* While a re-embed is between its files and its invalidation no match is in flight,
\* unless one overlapped a re-embed (spoiled) or came after this one saved its matrix.
Apart == /\ ~spoiled /\ (\E a \in Admins : pc[a] \in Indexing) => Quiet
         /\ \A a \in Admins : pc[a] \in Indexing /\ clear[a] => Quiet

\* Between re-embeds, what the matches hold and have cached comes from the disk.
FromDisk == ~spoiled /\ (\A a \in Admins : pc[a] \notin Indexing) =>
    /\ cacheM \in {None, matrix} /\ cacheI \in {None, index}
    /\ \A m \in Matchers :
        /\ mpc[m] \in {"loadIndex", "storeMatrix"} => gotM[m] = matrix
        /\ mpc[m] \in {"storeMatrix", "storeIndex"} => gotI[m] = index

\* An invalidation that no match overlapped finds the vectors gone once it has cleared
\* them.
Dropped == \A a \in Admins : pc[a] = "dropIndex" /\ (~spoiled \/ clear[a]) => cacheM = None

\* Until the API is up nothing is cached and nothing is in flight.
Cold == boot # "up" => cacheM = None /\ cacheI = None /\ Quiet

CacheInv == Apart /\ FromDisk /\ Dropped /\ Cold

LEMMA QuietIsIdle == Quiet <=> Busy = {}
  BY DEF Quiet, Busy

LEMMA InitCache == Init => CacheInv
  BY DEF Init, CacheInv, Apart, FromDisk, Dropped, Cold, Quiet, Indexing

\* A step that touches none of this leaves it as it was.
LEMMA CacheFrame ==
    ASSUME TypeOK, CacheInv, UNCHANGED <<cache, match, clear, spoiled, matrix, index, boot>>,
           \A a \in Admins : /\ pc'[a] \in Indexing <=> pc[a] \in Indexing
                             /\ pc'[a] = "dropIndex" => pc[a] = "dropIndex"
    PROVE  CacheInv'
  BY DEF CacheInv, Apart, FromDisk, Dropped, Cold, Quiet, cache, match

\* The container's steps.
LEMMA CacheBoot == ASSUME TypeOK, Active, CacheInv, Boot \/ Crash \/ Redeploy PROVE CacheInv'
  <1> USE DEF disk, cache, admin, match, store, host, bounds, history
  <1>1. CASE Crash \/ Redeploy
    <2>1. /\ cacheM' = None /\ cacheI' = None /\ Quiet'
          /\ \A a \in Admins : pc'[a] = "idle"
      BY <1>1 DEF Crash, Redeploy, Fresh, Quiet
    <2>2. \A m \in Matchers : mpc'[m] = "idle"
      BY <2>1 DEF Quiet
    <2> QED BY <2>1, <2>2 DEF CacheInv, Apart, FromDisk, Dropped, Cold, Indexing
  <1>2. CASE Boot
    <2>1. /\ boot # "up" /\ UNCHANGED <<cacheM, cacheI, pc, mpc, clear, spoiled>>
      BY <1>2 DEF Boot, Migrate, EmbedMatrix, EmbedIndex, Start, Relaunch
    <2>2. /\ cacheM' = None /\ cacheI' = None /\ Quiet /\ Quiet'
          /\ \A a \in Admins : pc'[a] = "idle"
      BY <2>1 DEF CacheInv, Cold, Active, Quiet
    <2>3. \A m \in Matchers : mpc'[m] = "idle"
      BY <2>2 DEF Quiet
    <2> QED BY <2>2, <2>3 DEF CacheInv, Apart, FromDisk, Dropped, Cold, Indexing
  <1> QED BY <1>1, <1>2

\* The matrix and the index reach the disk.
LEMMA CacheSaved ==
    ASSUME TypeOK, Active, CacheInv, NEW a \in Admins, SaveMatrix(a) \/ SaveIndex(a)
    PROVE  CacheInv'
  <1> USE DEF disk, cache, match, host, bounds
  <1>1. /\ pc' = [pc EXCEPT ![a] = IF pc[a] = "matrix" THEN "index" ELSE "dropMatrix"]
        /\ pc[a] \in {"matrix", "index"} /\ UNCHANGED <<mpc, cacheM, cacheI, boot>>
    BY DEF SaveMatrix, SaveMatrixFails, SaveIndex, SaveIndexFails, Goto
  <1>2. /\ boot = "up" /\ pc'[a] \in Indexing
        /\ \A b \in Admins : pc'[b] = "dropIndex" => pc[b] = "dropIndex" /\ b # a
        /\ \A b \in Admins : b # a => pc'[b] = pc[b]
    BY <1>1 DEF TypeOK, Active, Indexing
  <1>3. Quiet' <=> Quiet
    BY <1>1 DEF Quiet
  <1>4. CASE SaveMatrix(a)
    <2>1. /\ spoiled' = (spoiled \/ ~Quiet)
          /\ clear'[a] = Quiet
          /\ \A b \in Admins : b # a => clear'[b] = clear[b]
      BY <1>4, QuietIsIdle DEF SaveMatrix, TypeOK
    <2>2. Apart'
      BY <1>2, <1>3, <2>1 DEF CacheInv, Apart
    <2>3. Dropped'
      BY <1>1, <1>2, <2>1 DEF CacheInv, Dropped
    <2> QED BY <1>1, <1>2, <2>2, <2>3 DEF CacheInv, FromDisk, Cold
  <1>5. CASE SaveIndex(a)
    <2>1. spoiled' = spoiled /\ clear' = clear /\ pc[a] \in Indexing
      BY <1>5 DEF SaveIndex, Indexing
    <2>2. Apart'
      BY <1>2, <1>3, <2>1 DEF CacheInv, Apart
    <2>3. Dropped'
      BY <1>1, <1>2, <2>1 DEF CacheInv, Dropped
    <2> QED BY <1>1, <1>2, <2>2, <2>3 DEF CacheInv, FromDisk, Cold
  <1> QED BY <1>4, <1>5

\* A file is not written: the engine is not told, and nothing more is claimed of what it
\* holds unless the file stayed as it was.
LEMMA CacheUnwritten ==
    ASSUME TypeOK, Active, CacheInv, NEW a \in Admins, SaveMatrixFails(a) \/ SaveIndexFails(a)
    PROVE  CacheInv'
  <1> USE DEF cache, match, host, bounds
  <1>1. /\ UNCHANGED <<cacheM, cacheI, mpc, gotM, gotI, matrix, index, clear, boot>>
        /\ pc' = [pc EXCEPT ![a] = Rest(a)] /\ Rest(a) \in Steps \ Indexing
    BY DEF SaveMatrixFails, SaveIndexFails, Warn, Goto, Rest, Steps, Indexing
  <1>2. \A b \in Admins : /\ pc'[b] \in Indexing => pc[b] \in Indexing /\ b # a
                          /\ pc'[b] = "dropIndex" => pc[b] = "dropIndex"
                          /\ b # a => pc'[b] = pc[b]
    BY <1>1 DEF TypeOK, Indexing
  <1>3. CASE spoiled'
    <2>1. Apart' /\ Dropped' /\ FromDisk'
      BY <1>1, <1>2, <1>3 DEF CacheInv, Apart, Dropped, FromDisk, Quiet
    <2> QED BY <1>1, <2>1 DEF CacheInv, Cold, Quiet
  <1>4. CASE ~spoiled'
    <2>1. pc[a] = "matrix" /\ UNCHANGED spoiled
      BY <1>4 DEF SaveMatrixFails, SaveIndexFails
    <2>2. \A b \in Admins : pc'[b] \in Indexing <=> pc[b] \in Indexing
      BY <1>2, <2>1 DEF Indexing
    <2> QED BY <1>1, <1>2, <2>1, <2>2, CacheFrame
  <1> QED BY <1>3, <1>4

\* The pair is cleared.
LEMMA CacheCleared ==
    ASSUME TypeOK, Active, CacheInv, NEW a \in Admins, DropMatrix(a) \/ DropIndex(a)
    PROVE  CacheInv'
  <1> USE DEF disk, match, host, bounds
  <1>1. /\ pc[a] \in Indexing /\ UNCHANGED <<matrix, index, mpc, gotM, gotI, clear, boot>>
        /\ \A b \in Admins : b # a => pc'[b] = pc[b]
    BY DEF DropMatrix, DropIndex, Goto, TypeOK, Indexing, history
  <1>2. boot = "up" /\ (Quiet' <=> Quiet)
    BY <1>1 DEF Active, Indexing, Quiet
  <1>3. CASE DropMatrix(a)
    <2>1. cacheM' = None /\ spoiled' = spoiled /\ pc'[a] \in Indexing
      BY <1>3 DEF DropMatrix, Goto, TypeOK, Indexing, history
    <2>2. Apart'
      BY <1>1, <1>2, <2>1 DEF CacheInv, Apart
    <2> QED BY <1>1, <1>2, <2>1, <2>2 DEF CacheInv, FromDisk, Dropped, Cold
  <1>4. CASE DropIndex(a)
    <2>1. /\ pc[a] = "dropIndex" /\ cacheI' = None /\ cacheM' = cacheM
          /\ pc'[a] # "dropIndex"
          /\ \/ spoiled' = spoiled
             \/ spoiled' = (spoiled /\ ~clear[a])
      BY <1>4 DEF DropIndex, Goto, Rest, TypeOK
    <2>2. ~spoiled' => ~spoiled \/ clear[a]
      BY <2>1
    <2>3. ~spoiled' => Quiet /\ cacheM = None
      BY <1>1, <2>1, <2>2 DEF CacheInv, Apart, Dropped
    <2>4. Apart'
      BY <1>1, <1>2, <2>1, <2>3 DEF CacheInv, Apart
    <2>5. Dropped'
      BY <1>1, <2>1, <2>3 DEF CacheInv, Dropped
    <2>6. FromDisk'
      BY <1>1, <2>1, <2>3 DEF FromDisk, Quiet
    <2> QED BY <1>2, <1>1, <2>4, <2>5, <2>6 DEF CacheInv, Cold
  <1> QED BY <1>3, <1>4

\* A match begins.
LEMMA CacheMatched == ASSUME TypeOK, CacheInv, NEW m \in Matchers, BeginMatch(m) PROVE CacheInv'
  <1>1. /\ mpc[m] = "idle" /\ mpc' = [mpc EXCEPT ![m] = "check"] /\ boot = "up"
        /\ spoiled' = (spoiled \/ \E a \in Admins : pc[a] \in Indexing)
        /\ \A a \in Admins : ~clear'[a]
        /\ UNCHANGED <<matrix, index, cacheM, cacheI, pc, gotM, gotI, boot>>
    BY DEF BeginMatch, MGoto, disk, host, cache, admin
  <1>2. \A n \in Matchers : mpc'[n] = IF n = m THEN "check" ELSE mpc[n]
    BY <1>1 DEF TypeOK
  <1>3. ~spoiled' => ~spoiled /\ \A a \in Admins : pc[a] \notin Indexing
    BY <1>1
  <1>4. Apart' /\ Dropped'
    BY <1>1, <1>3 DEF Apart, Dropped, Indexing
  <1>5. FromDisk' /\ Cold'
    BY <1>1, <1>2, <1>3 DEF CacheInv, FromDisk, Cold
  <1> QED BY <1>4, <1>5 DEF CacheInv

\* A match goes on: were a re-embed under way, the match would have spoiled with it.
LEMMA CacheRead == ASSUME TypeOK, CacheInv, NEW m \in Matchers, MatchStep(m) PROVE CacheInv'
  <1> USE DEF disk, host, cache, admin, history
  <1>1. /\ mpc[m] # "idle" /\ ~Quiet
        /\ UNCHANGED <<matrix, index, pc, clear, spoiled, boot>>
    BY DEF MatchStep, CheckCache, LoadMatrix, LoadIndex, LoadTorn, StoreMatrix, StoreIndex,
       GetMatrix, GetIndex, Score, Quiet
  <1>2. boot = "up" /\ ~(\E a \in Admins : pc[a] \in Indexing /\ (~spoiled \/ clear[a]))
    BY <1>1 DEF CacheInv, Apart, Cold
  <1>3. Apart' /\ Dropped' /\ Cold'
    BY <1>1, <1>2 DEF Apart, Dropped, Cold, Indexing
  <1>4. ASSUME FromDisk PROVE FromDisk'
    <2> USE <1>1, <1>4 DEF FromDisk, TypeOK, MGoto
    <2>1. CASE CheckCache(m)
      BY <2>1 DEF CheckCache
    <2>2. CASE LoadMatrix(m)
      BY <2>2 DEF LoadMatrix
    <2>3. CASE LoadIndex(m)
      BY <2>3 DEF LoadIndex
    <2>4. CASE LoadTorn(m)
      BY <2>4 DEF LoadTorn
    <2>5. CASE StoreMatrix(m)
      BY <2>5 DEF StoreMatrix
    <2>6. CASE StoreIndex(m)
      BY <2>6 DEF StoreIndex
    <2>7. CASE GetMatrix(m)
      BY <2>7 DEF GetMatrix
    <2>8. CASE GetIndex(m)
      BY <2>8 DEF GetIndex
    <2>9. CASE Score(m)
      BY <2>9 DEF Score
    <2> QED BY <2>1, <2>2, <2>3, <2>4, <2>5, <2>6, <2>7, <2>8, <2>9 DEF MatchStep
  <1> QED BY <1>3, <1>4 DEF CacheInv

LEMMA CacheStep == ASSUME TypeOK, Active, CacheInv, [Next]_vars PROVE CacheInv'
  <1> USE DEF disk, cache, match, store, host, bounds, history
  <1>1. CASE UNCHANGED vars
    BY <1>1, CacheFrame DEF vars, admin
  <1>2. ASSUME NEW a \in Admins, BeginWrite(a) PROVE CacheInv'
    <2>1. PICK q : Begin(a, q)
      BY <1>2, BeginWriteRequests
    <2> QED BY <2>1, CacheFrame DEF Begin, Goto, Indexing, TypeOK
  <1>4. ASSUME NEW a \in Admins, SaveMatrixFails(a) \/ SaveIndexFails(a) PROVE CacheInv'
    BY <1>4, CacheUnwritten
  <1>3. ASSUME NEW a \in Admins, AdminStep(a), ~SaveMatrix(a), ~SaveIndex(a), ~DropMatrix(a),
               ~DropIndex(a), ~SaveMatrixFails(a), ~SaveIndexFails(a)
        PROVE  CacheInv'
    <2>1. /\ UNCHANGED <<cacheM, cacheI, mpc, gotM, gotI, clear, spoiled, matrix, index, boot>>
          /\ pc[a] \notin Indexing
          /\ \E s \in Steps \ Indexing : pc' = [pc EXCEPT ![a] = s]
      <3>1. CASE Commit(a) \/ Abort(a) \/ ReadCaps(a) \/ ReadProds(a) \/ Encode(a) \/ Respond(a)
        BY <3>1 DEF Commit, Abort, ReadCaps, ReadProds, Encode, Respond, Goto, Steps, Indexing
      <3>2. CASE MirrorRows(a) \/ SyncFails(a) \/ EncodeFails(a) \/ Unmirror(a) \/ UnmirrorFails(a)
        BY <3>2 DEF MirrorRows, SyncFails, EncodeFails, Warn, Rest, Unmirror, UnmirrorFails, Goto,
           Steps, Indexing
      <3> QED BY <1>3, <3>1, <3>2 DEF AdminStep
    <2>2. \A b \in Admins : /\ pc'[b] \in Indexing <=> pc[b] \in Indexing
                            /\ pc'[b] = "dropIndex" => pc[b] = "dropIndex"
      BY <2>1 DEF TypeOK, Indexing
    <2> QED BY <2>1, <2>2, CacheFrame
  <1> QED BY <1>1, <1>2, <1>3, <1>4, CacheBoot, CacheSaved, CacheCleared, CacheMatched, CacheRead
          DEF Next, AdminStep

\* However admin requests, matches, failures and restarts interleave, the engine holds
\* between re-embeds nothing or what is on disk, unless a match overlapped a re-embed, or
\* one failed to write a file, and no re-embed has run clear of matches to its end since.
THEOREM QuietCache == Spec => []QuietCacheFresh
  <1>1. Init => (TypeOK /\ Active) /\ CacheInv
    BY InitTyped, InitCache
  <1>2. (TypeOK /\ Active) /\ CacheInv /\ [Next]_vars => ((TypeOK /\ Active) /\ CacheInv)'
    BY NextTyped, CacheStep
  <1>3. CacheInv => QuietCacheFresh
    BY DEF CacheInv, FromDisk, QuietCacheFresh
  <1> QED BY <1>1, <1>2, <1>3, PTL DEF Spec

=============================================================================
