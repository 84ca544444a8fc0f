------------------------ MODULE AccountsHistoryProofs ------------------------
(***************************************************************************)
(* Proofs about Accounts that look back: the rotation of tokens, what the  *)
(* deletion of an account reaches, whom an identity signs in.              *)
(***************************************************************************)
EXTENDS AccountsProofs

-----------------------------------------------------------------------------
(* How a request moves *)

\* Who has no request holds nothing.
IdleHolds == \A r \in Requests : pc[r] = "idle" => held[r] = {}

\* A statement before the last changes no table: the request keeps what it was asked,
\* and what it holds.
Moves(r) ==
    /\ UNCHANGED <<tables, history>>
    /\ loc'[r].op = loc[r].op /\ loc'[r].address = loc[r].address
    /\ loc'[r].token = loc[r].token /\ loc'[r].id = loc[r].id
    /\ loc'[r].about = loc[r].about /\ loc'[r].promise = loc[r].promise
    /\ loc'[r].user = loc[r].user \/ loc'[r].user \in Live
    /\ held[r] \subseteq held'[r]

LEMMA LockMoves ==
    ASSUME Typed, NEW r \in Requests, NEW K, NEW s, Lock(r, K, s)
    PROVE  Moves(r) /\ pc'[r] = s /\ loc'[r] = loc[r] /\ held'[r] = held[r] \cup K
  BY DEF Lock, Moves, Typed, TypeOK

LEMMA ReadMoves ==
    ASSUME Typed, NEW r \in Requests, NEW S, NEW s, Read(r, S, s)
    PROVE  Moves(r) /\ pc'[r] = s /\ held'[r] = held[r] /\ loc'[r].user = loc[r].user
           /\ loc'[r].rows = S
  <1>1. loc[r] \in Locals
    BY DEF Typed, TypeOK
  <1> QED BY <1>1 DEF Read, Moves, Typed, TypeOK, Locals

LEMMA FindMoves ==
    ASSUME Typed, NEW r \in Requests, FindByAddress(r)
    PROVE  /\ Moves(r) /\ held'[r] = held[r]
           /\ \/ /\ WithEmail(loc[r].address) = {}
                 /\ pc'[r] = "insertUser" /\ loc'[r].user = loc[r].user
              \/ pc'[r] = "attach" /\ loc'[r].user \in WithEmail(loc[r].address)
  <1>1. loc[r] \in Locals /\ r \in DOMAIN pc /\ r \in DOMAIN loc
    BY DEF Typed, TypeOK
  <1>2. UNCHANGED <<tables, held, history>>
    BY DEF FindByAddress
  <1>3. CASE WithEmail(loc[r].address) = {}
    <2>1. loc' = loc /\ pc'[r] = "insertUser"
      BY <1>1, <1>3 DEF FindByAddress
    <2> QED BY <1>2, <1>3, <2>1 DEF Moves
  <1>4. CASE WithEmail(loc[r].address) # {}
    <2>1. PICK u \in WithEmail(loc[r].address) : pc' = [pc EXCEPT ![r] = "attach"]
                                                 /\ loc' = [loc EXCEPT ![r].user = u]
      BY <1>4 DEF FindByAddress
    <2>2. loc'[r] = [loc[r] EXCEPT !.user = u] /\ pc'[r] = "attach"
      BY <1>1, <2>1
    <2>3. loc'[r].user = u /\ u \in Live
      BY <1>1, <2>2 DEF Locals, WithEmail
    <2> QED BY <1>1, <1>2, <2>2, <2>3 DEF Moves, Locals
  <1> QED BY <1>3, <1>4

\* A request that ends is like one that was never made.
LEMMA EndForgets ==
    ASSUME Typed, NEW r \in Requests, End(r)
    PROVE  /\ pc'[r] = "idle" /\ held'[r] = {} /\ crowded' = crowded \ {r}
           /\ loc'[r].op = "none" /\ loc'[r].user = None
  <1>1. pc'[r] = "idle" /\ held'[r] = {} /\ loc'[r] = NoLoc
    BY DEF End, Typed, TypeOK
  <1>2. NoLoc.op = "none" /\ NoLoc.user = None
    BY DEF NoLoc
  <1> QED BY <1>1, <1>2 DEF End

\* The statements that do not commit anything.
Commits(r) == IssuePair(r) \/ Persist(r) \/ Comment(r) \/ Close(r)

LEMMA StatementMoves ==
    ASSUME Typed, NEW r \in Requests, Statement(r), ~Commits(r)
    PROVE  Moves(r) \/ Rollback(r)
  <1>1. CASE FindByAddress(r)
    BY <1>1, FindMoves
  <1>2. CASE \/ InsertUser(r) \/ Attach(r) \/ Revoke(r) \/ Erase(r) \/ Wipe(r)
             \/ RevokeAll(r) \/ SoftDelete(r)
    BY <1>2, LockMoves DEF InsertUser, Attach, Revoke, Erase, Wipe, RevokeAll, SoftDelete
  <1>3. CASE FindRecs(r) \/ FindNotes(r) \/ FindTokens(r)
    BY <1>3, ReadMoves DEF FindRecs, FindNotes, FindTokens
  <1>4. CASE CheckOwner(r)
    BY <1>4, ReadMoves DEF CheckOwner
  <1>5. CASE InsertUserFails(r) \/ AttachFails(r) \/ CommentFails(r)
    BY <1>5 DEF InsertUserFails, AttachFails, CommentFails
  <1> QED BY <1>1, <1>2, <1>3, <1>4, <1>5 DEF Statement, Commits

\* What a request knows of itself when it begins.
LEMMA BeginKnows ==
    ASSUME Typed, NEW r \in Requests, NEW op, NEW l \in Locals, NEW s, Begin(r, op, l, s)
    PROVE  /\ UNCHANGED <<tables, held>>
           /\ pc[r] = "idle" /\ pc'[r] = s
           /\ loc'[r].op = op /\ loc'[r].user = l.user /\ loc'[r].address = l.address
           /\ loc'[r].token = l.token /\ loc'[r].id = l.id /\ loc'[r].about = l.about
           /\ loc'[r].rows = l.rows /\ loc'[r].promise = l.promise
  <1>1. loc'[r] = [l EXCEPT !.op = op]
    BY DEF Begin, Typed, TypeOK
  <1> QED BY <1>1 DEF Begin, Typed, TypeOK, Locals

LEMMA RegisterBegins ==
    ASSUME Typed, NEW r \in Requests, BeginRegister(r)
    PROVE  /\ UNCHANGED <<tables, held>> /\ pc[r] = "idle"
           /\ loc'[r].op = "register" /\ pc'[r] = "insertUser" /\ loc'[r].user = None
           /\ loc'[r].address \in Emails /\ WithEmail(loc'[r].address) = {}
  <1>1. PICK e \in Emails : WithEmail(e) = {}
                            /\ Begin(r, "register", [NoLoc EXCEPT !.address = e], "insertUser")
    BY DEF BeginRegister
  <1> DEFINE l == [NoLoc EXCEPT !.address = e]
  <1>2. l \in Locals /\ l.address = e /\ l.user = None
    BY DEF NoLoc, Locals, Addresses
  <1> HIDE DEF l
  <1>3. Begin(r, "register", l, "insertUser")
    BY <1>1 DEF l
  <1> QED BY <1>1, <1>2, <1>3, BeginKnows

LEMMA LoginBegins ==
    ASSUME Typed, NEW r \in Requests, BeginLogin(r)
    PROVE  /\ UNCHANGED <<tables, held>> /\ pc[r] = "idle"
           /\ loc'[r].op = "login" /\ pc'[r] = "pair" /\ loc'[r].user \in Live
  <1>1. PICK u \in Live \cap password :
          Begin(r, "login", [NoLoc EXCEPT !.user = u, !.dead = deleted], "pair")
    BY DEF BeginLogin
  <1> DEFINE l == [NoLoc EXCEPT !.user = u, !.dead = deleted]
  <1>2. l \in Locals /\ l.user = u
    BY DEF NoLoc, Locals, Live, Typed, TypeOK
  <1> HIDE DEF l
  <1>3. Begin(r, "login", l, "pair")
    BY <1>1 DEF l
  <1> QED BY <1>2, <1>3, BeginKnows

CallbackFor(r, o) == \E e \in Emails \cup {Synthetic[o]} :
    LET l == [NoLoc EXCEPT !.id = o, !.address = e, !.dead = deleted,
                           !.seen = account[o] # None] IN
    /\ IF Own(o) # {}
       THEN Begin(r, "callback", [l EXCEPT !.user = account[o]], "pair")
       ELSE Begin(r, "callback", l, IF e \in Emails THEN "byAddress" ELSE "insertUser")
    /\ mixed' = IF \E q \in InFlight("callback") : loc[q].id = o THEN mixed \cup {o} ELSE mixed
    /\ Crowd(r)
    /\ UNCHANGED <<parent, contended, promised>>

LEMMA CallbackBegins ==
    ASSUME Typed, NEW r \in Requests, BeginCallback(r)
    PROVE  /\ UNCHANGED <<tables, held>> /\ pc[r] = "idle"
           /\ loc'[r].op = "callback" /\ loc'[r].id \in Identities
           /\ loc'[r].address \in Emails \cup {Synthetic[loc'[r].id]}
           /\ \/ /\ Own(loc'[r].id) # {} /\ loc'[r].user = account[loc'[r].id] /\ pc'[r] = "pair"
              \/ /\ Own(loc'[r].id) = {} /\ loc'[r].user = None
                 /\ pc'[r] = IF loc'[r].address \in Emails THEN "byAddress" ELSE "insertUser"
           /\ mixed' = IF \E q \in InFlight("callback") : loc[q].id = loc'[r].id
                       THEN mixed \cup {loc'[r].id} ELSE mixed
  <1>0. PICK o \in Identities : CallbackFor(r, o)
    BY DEF BeginCallback, CallbackFor
  <1>1. PICK e \in Emails \cup {Synthetic[o]} :
          LET l == [NoLoc EXCEPT !.id = o, !.address = e, !.dead = deleted,
                                 !.seen = account[o] # None] IN
          /\ IF Own(o) # {}
             THEN Begin(r, "callback", [l EXCEPT !.user = account[o]], "pair")
             ELSE Begin(r, "callback", l, IF e \in Emails THEN "byAddress" ELSE "insertUser")
          /\ mixed' = IF \E q \in InFlight("callback") : loc[q].id = o THEN mixed \cup {o} ELSE mixed
    BY <1>0 DEF CallbackFor
  <1> DEFINE l == [NoLoc EXCEPT !.id = o, !.address = e, !.dead = deleted,
                                !.seen = account[o] # None]
             m == [l EXCEPT !.user = account[o]]
             s == IF e \in Emails THEN "byAddress" ELSE "insertUser"
  <1>2. l \in Locals /\ l.id = o /\ l.address = e /\ l.user = None
    <2>1. (account[o] # None) \in BOOLEAN /\ e \in Addresses
      BY DEF Addresses
    <2> QED BY <2>1 DEF NoLoc, Locals, Typed, TypeOK
  <1>3. CASE Own(o) # {}
    <2>1. account[o] \in Users
      BY <1>3 DEF Own, Live
    <2>2. Begin(r, "callback", m, "pair")
      BY <1>1, <1>3
    <2>3. m \in Locals /\ m.id = o /\ m.address = e /\ m.user = account[o]
      <3> HIDE DEF l
      <3> QED BY <1>2, <2>1 DEF Locals
    <2> HIDE DEF m
    <2>4. /\ UNCHANGED <<tables, held>> /\ pc[r] = "idle" /\ loc'[r].op = "callback"
          /\ loc'[r].id = o /\ loc'[r].address = e /\ loc'[r].user = account[o] /\ pc'[r] = "pair"
      BY <2>2, <2>3, BeginKnows
    <2> QED BY <1>1, <1>3, <2>4
  <1>4. CASE Own(o) = {}
    <2>1. Begin(r, "callback", l, s)
      BY <1>1, <1>4
    <2> HIDE DEF l
    <2>2. /\ UNCHANGED <<tables, held>> /\ pc[r] = "idle" /\ loc'[r].op = "callback"
          /\ loc'[r].id = o /\ loc'[r].address = e /\ loc'[r].user = None /\ pc'[r] = s
      BY <2>1, <1>2, BeginKnows
    <2> QED BY <1>1, <1>4, <2>2
  <1> QED BY <1>3, <1>4

LEMMA RefreshBegins ==
    ASSUME Typed, NEW r \in Requests, BeginRefresh(r)
    PROVE  /\ UNCHANGED <<tables, held>> /\ pc[r] = "idle"
           /\ loc'[r].op = "refresh" /\ pc'[r] = "revoke"
           /\ loc'[r].token \in Tokens /\ Usable(loc'[r].token)
           /\ loc'[r].user = owner[loc'[r].token]
           /\ contended' = IF \E q \in InFlight("refresh") : loc[q].token = loc'[r].token
                           THEN contended \cup {loc'[r].token} ELSE contended
           /\ UNCHANGED <<parent, mixed, crowded, promised>>
  <1>1. PICK t \in Tokens :
          /\ Usable(t)
          /\ Begin(r, "refresh", [NoLoc EXCEPT !.token = t, !.user = owner[t],
                                               !.dead = deleted], "revoke")
          /\ contended' = IF \E q \in InFlight("refresh") : loc[q].token = t
                          THEN contended \cup {t} ELSE contended
          /\ UNCHANGED <<parent, mixed, crowded, promised>>
    BY DEF BeginRefresh
  <1> DEFINE l == [NoLoc EXCEPT !.token = t, !.user = owner[t], !.dead = deleted]
  <1>2. l \in Locals /\ l.token = t /\ l.user = owner[t]
    BY DEF NoLoc, Locals, Typed, TypeOK
  <1> HIDE DEF l
  <1>3. Begin(r, "refresh", l, "revoke")
    BY <1>1 DEF l
  <1>4. /\ UNCHANGED <<tables, held>> /\ pc[r] = "idle" /\ loc'[r].op = "refresh"
        /\ pc'[r] = "revoke" /\ loc'[r].token = t /\ loc'[r].user = owner[t]
    BY <1>2, <1>3, BeginKnows
  <1> QED BY <1>1, <1>4

LEMMA LogoutBegins ==
    ASSUME Typed, NEW r \in Requests, BeginLogout(r)
    PROVE  /\ UNCHANGED <<tables, held, history>> /\ pc[r] = "idle"
           /\ loc'[r].op = "logout" /\ pc'[r] = "revoke" /\ loc'[r].user = None
  <1>1. PICK t \in Tokens : Begin(r, "logout", [NoLoc EXCEPT !.token = t], "revoke")
                            /\ UNCHANGED history
    BY DEF BeginLogout
  <1> DEFINE l == [NoLoc EXCEPT !.token = t]
  <1>2. l \in Locals /\ l.user = None
    BY DEF NoLoc, Locals
  <1> HIDE DEF l
  <1>3. Begin(r, "logout", l, "revoke")
    BY <1>1 DEF l
  <1> QED BY <1>1, <1>2, <1>3, BeginKnows

LEMMA RecommendBegins ==
    ASSUME Typed, NEW r \in Requests, BeginRecommend(r)
    PROVE  /\ UNCHANGED <<tables, held, history>> /\ pc[r] = "idle"
           /\ loc'[r].op = "recommend" /\ pc'[r] = "persist" /\ loc'[r].user \in Live \cup {Guest}
  <1>1. PICK who \in Live \cup {Guest} :
          Begin(r, "recommend", [NoLoc EXCEPT !.user = who], "persist") /\ UNCHANGED history
    BY DEF BeginRecommend
  <1> DEFINE l == [NoLoc EXCEPT !.user = who]
  <1>2. l \in Locals /\ l.user = who
    BY DEF NoLoc, Locals, Live
  <1> HIDE DEF l
  <1>3. Begin(r, "recommend", l, "persist")
    BY <1>1 DEF l
  <1> QED BY <1>1, <1>2, <1>3, BeginKnows

LEMMA FeedbackBegins ==
    ASSUME Typed, NEW r \in Requests, BeginFeedback(r)
    PROVE  /\ UNCHANGED <<tables, held, history>> /\ pc[r] = "idle"
           /\ loc'[r].op = "feedback" /\ pc'[r] = "comment" /\ loc'[r].user = None
           /\ loc'[r].about \in Recs /\ rec[loc'[r].about] \in Users \cup {Guest}
  <1>1. PICK x \in Recs : /\ rec[x] \in Users \cup {Guest}
                          /\ Begin(r, "feedback", [NoLoc EXCEPT !.about = x], "comment")
                          /\ UNCHANGED history
    BY DEF BeginFeedback
  <1> DEFINE l == [NoLoc EXCEPT !.about = x]
  <1>2. l \in Locals /\ l.about = x /\ l.user = None
    BY DEF NoLoc, Locals
  <1> HIDE DEF l
  <1>3. Begin(r, "feedback", l, "comment")
    BY <1>1 DEF l
  <1> QED BY <1>1, <1>2, <1>3, BeginKnows

LEMMA DeleteAssessmentBegins ==
    ASSUME Typed, NEW r \in Requests, BeginDeleteAssessment(r)
    PROVE  /\ UNCHANGED <<tables, held, history>> /\ pc[r] = "idle"
           /\ loc'[r].op = "deleteAssessment" /\ pc'[r] = "erase" /\ loc'[r].user \in Live
  <1>1. PICK u \in Live, x \in Recs :
          /\ Begin(r, "deleteAssessment", [NoLoc EXCEPT !.user = u, !.about = x], "erase")
          /\ UNCHANGED history
    BY DEF BeginDeleteAssessment
  <1> DEFINE l == [NoLoc EXCEPT !.user = u, !.about = x]
  <1>2. l \in Locals /\ l.user = u
    BY DEF NoLoc, Locals, Live
  <1> HIDE DEF l
  <1>3. Begin(r, "deleteAssessment", l, "erase")
    BY <1>1 DEF l
  <1> QED BY <1>1, <1>2, <1>3, BeginKnows

Belongings(u) == {t \in Tokens : owner[t] = u} \cup (text \cap NotesOn(RecsOf(u)))

LEMMA DeleteAccountBegins ==
    ASSUME Typed, NEW r \in Requests, BeginDeleteAccount(r)
    PROVE  /\ UNCHANGED <<tables, held, history>> /\ pc[r] = "idle"
           /\ loc'[r].op = "deleteAccount" /\ pc'[r] = "recs" /\ loc'[r].user \in Live
           /\ loc'[r].promise = Belongings(loc'[r].user)
  <1>1. PICK u \in Live :
          /\ Begin(r, "deleteAccount", [NoLoc EXCEPT !.user = u, !.promise = Belongings(u)], "recs")
          /\ UNCHANGED history
    BY DEF BeginDeleteAccount, Belongings
  <1> DEFINE l == [NoLoc EXCEPT !.user = u, !.promise = Belongings(u)]
  <1>2. l \in Locals /\ l.user = u /\ l.promise = Belongings(u)
    <2>1. Belongings(u) \in SUBSET (Notes \cup Tokens)
      BY DEF Belongings, Typed, TypeOK
    <2> QED BY <2>1 DEF NoLoc, Locals, Live
  <1> HIDE DEF l
  <1>3. Begin(r, "deleteAccount", l, "recs")
    BY <1>1 DEF l
  <1> QED BY <1>1, <1>2, <1>3, BeginKnows

-----------------------------------------------------------------------------
(* The invariants *)

Refreshing(r) == loc[r].op = "refresh"
SigningUp(r) == loc[r].op \in {"register", "callback"}

\* A token that was exchanged is revoked, and exchanged once ...
Spent == \A t \in Tokens : Heirs(t) # {} => t \in revoked
Single == \A t \in Tokens \ contended : \A g, h \in Heirs(t) : g = h

\* ... a refresh that has got past the revocation holds its token ...
Holding == \A r \in Requests :
    Refreshing(r) /\ pc[r] \in {"owner", "pair"} => loc[r].token \in held[r]

\* ... and is the only one to have it, or the token is contended.
Contest == \A r, q \in Requests :
    r # q /\ Refreshing(r) /\ Refreshing(q) /\ loc[r].token = loc[q].token
    => loc[r].token \in contended
Unused == \A r \in Requests :
    Refreshing(r) /\ loc[r].token \notin contended => Heirs(loc[r].token) = {}

RotationInv == Spent /\ Single /\ Holding /\ Contest /\ Unused

\* A comment is on a recommendation that was stored and is not deleted ...
Written == \A f \in text : note[f] \in Recs /\ rec[note[f]] \in Users \cup {Guest}
Asked == \A r \in Requests : loc[r].op = "feedback" => rec[loc[r].about] # None

\* ... a comment that a deletion has promised to reach was made before, is on one of the
\* account's recommendations, among the rows the deletion has read, or among those it
\* has locked.
NotesReached(r) == loc[r].op = "deleteAccount" =>
    /\ \A f \in loc[r].promise \cap Notes : note[f] # None
    /\ \A f \in loc[r].promise \cap text :
        /\ pc[r] = "recs" => rec[note[f]] = loc[r].user
        /\ pc[r] = "notes" => note[f] \in loc[r].rows
        /\ pc[r] = "wipe" => f \in loc[r].rows
        /\ pc[r] \in {"tokens", "revokeAll", "softDelete", "close"} => f \in held[r]

\* The same of the tokens, unless they are revoked already.
TokensReached(r) == loc[r].op = "deleteAccount" =>
    \A t \in (loc[r].promise \cap Tokens) \ revoked :
        /\ pc[r] \in {"recs", "notes", "wipe", "tokens"} => owner[t] = loc[r].user
        /\ pc[r] = "revokeAll" => t \in loc[r].rows
        /\ pc[r] \in {"softDelete", "close"} => t \in held[r]

InReach == \A r \in Requests : NotesReached(r) /\ TokensReached(r)

\* The comments that a deletion has reached were made before it ended.
Said == \A f \in promised \cap Notes : note[f] # None

ReachInv == Written /\ Asked /\ InReach /\ Said /\ DeletionReaches

\* Whoever a row or a request names has a row.
Known == /\ \A t \in Tokens : owner[t] # None => email[owner[t]] # None
         /\ \A o \in Identities : account[o] # None => email[account[o]] # None
         /\ \A r \in Requests : loc[r].user \in Users => email[loc[r].user] # None

\* Two callbacks of an identity at a time leave a trace ...
Mixing == \A r, q \in Requests :
    r # q /\ loc[r].op = "callback" /\ loc[q].op = "callback" /\ loc[r].id = loc[q].id
    => loc[r].id \in mixed

\* ... and otherwise the callback that will write the identity has found it free.
Vacated == \A r \in Requests :
    /\ loc[r].op = "callback" /\ loc[r].id \notin mixed
    /\ pc[r] # "pair" \/ loc[r].id \in held[r]
    => account[loc[r].id] = None \/ account[loc[r].id] \in deleted

IdentityInv == IdleHolds /\ Known /\ Mixing /\ Vacated

\* Two requests at a time that may create a user are crowded.
Alone == \A r, q \in Requests : r # q /\ SigningUp(r) /\ SigningUp(q) => r \in crowded

\* The addresses they can have ...
Addressed == \A r \in Requests :
    /\ loc[r].op = "register" => loc[r].address \in Emails
    /\ loc[r].op = "callback" => loc[r].address \in Emails \cup {Synthetic[loc[r].id]}

\* ... a callback that creates a user writes the identity too ...
Attached == \A r \in Requests :
    loc[r].op = "callback" /\ pc[r] = "pair" /\ loc[r].user = None => loc[r].id \in held[r]

\* ... so who has the synthetic address of an identity is signed in by it.
StandIn == \A o \in Identities \ mixed : \A w \in Live :
    email[w] = Synthetic[o] => account[o] = w

LoneInv == Alone /\ Addressed /\ Attached /\ StandIn /\ LoneSignInSucceeds

-----------------------------------------------------------------------------
(* Rotation *)

\* What no begin of a request changes.
LEMMA BeginKeeps ==
    ASSUME Typed, NEW r \in Requests, BeginRequest(r)
    PROVE  UNCHANGED <<tables, held, parent, promised>> /\ pc[r] = "idle"
  BY DEF BeginRequest, BeginRegister, BeginLogin, BeginCallback, BeginRefresh, BeginLogout,
     BeginRecommend, BeginFeedback, BeginDeleteAssessment, BeginDeleteAccount, Begin, history

LEMMA OtherThanRefresh ==
    ASSUME Typed, NEW r \in Requests, BeginRequest(r), ~BeginRefresh(r)
    PROVE  contended' = contended /\ loc'[r].op # "refresh"
  <1>1. CASE BeginRegister(r)
    BY <1>1, RegisterBegins DEF BeginRegister
  <1>2. CASE BeginLogin(r)
    BY <1>2, LoginBegins DEF BeginLogin, history
  <1>3. CASE BeginCallback(r)
    BY <1>3, CallbackBegins DEF BeginCallback
  <1>4. CASE BeginLogout(r)
    BY <1>4, LogoutBegins DEF history
  <1>5. CASE BeginRecommend(r)
    BY <1>5, RecommendBegins DEF history
  <1>6. CASE BeginFeedback(r)
    BY <1>6, FeedbackBegins DEF history
  <1>7. CASE BeginDeleteAssessment(r)
    BY <1>7, DeleteAssessmentBegins DEF history
  <1>8. CASE BeginDeleteAccount(r)
    BY <1>8, DeleteAccountBegins DEF history
  <1> QED BY <1>1, <1>2, <1>3, <1>4, <1>5, <1>6, <1>7, <1>8 DEF BeginRequest

\* The mark a request begins with tells its handler.
LEMMA MarkTells ==
    ASSUME Typed, NEW r \in Requests, BeginRequest(r)
    PROVE  /\ loc'[r].op = "register" => BeginRegister(r)
           /\ loc'[r].op = "callback" => BeginCallback(r)
           /\ loc'[r].op = "feedback" => BeginFeedback(r)
           /\ loc'[r].op = "deleteAccount" => BeginDeleteAccount(r)
  BY RegisterBegins, LoginBegins, CallbackBegins, RefreshBegins, LogoutBegins, RecommendBegins,
     FeedbackBegins, DeleteAssessmentBegins, DeleteAccountBegins DEF BeginRequest

\* A request with the mark of an operation is in flight.
LEMMA MarkedIsInFlight ==
    ASSUME Typed, NEW r \in Requests, loc[r].op # "none"
    PROVE  pc[r] # "idle" /\ r \in InFlight(loc[r].op)
  BY DEF Typed, Formed, Shape, NoLoc, InFlight

LEMMA RotationBegin ==
    ASSUME Typed, RotationInv, NEW r \in Requests, BeginRequest(r)
    PROVE  RotationInv'
  <1>1. UNCHANGED <<revoked, held, parent>>
    BY BeginKeeps DEF tables, tokens
  <1>2. \A q \in Requests \ {r} : pc'[q] = pc[q] /\ loc'[q] = loc[q]
    BY OthersStay
  <1>3. \A t : Heirs(t)' = Heirs(t)
    BY <1>1 DEF Heirs
  <1>4. contended \subseteq contended'
    BY OtherThanRefresh, RefreshBegins
  <1>5. Spent' /\ Single'
    BY <1>1, <1>3, <1>4 DEF RotationInv, Spent, Single
  <1>6. CASE BeginRefresh(r)
    <2>1. /\ pc'[r] = "revoke" /\ loc'[r].token \in Tokens /\ Usable(loc'[r].token)
          /\ \A q \in InFlight("refresh") :
                loc[q].token = loc'[r].token => loc'[r].token \in contended'
      BY <1>6, RefreshBegins
    <2>2. Heirs(loc'[r].token) = {}
      BY <2>1 DEF RotationInv, Spent, Usable
    <2>3. Contest'
      <3>1. \A q \in Requests \ {r} : Refreshing(q)' =>
                (loc[q].token = loc'[r].token => loc'[r].token \in contended')
        BY <1>2, <2>1, MarkedIsInFlight DEF Refreshing
      <3> QED BY <1>2, <1>4, <3>1 DEF RotationInv, Contest, Refreshing
    <2>4. Holding' /\ Unused'
      BY <1>1, <1>2, <1>4, <2>1, <2>2 DEF RotationInv, Holding, Unused, Refreshing, Heirs
    <2> QED BY <1>5, <2>3, <2>4 DEF RotationInv
  <1>7. CASE ~BeginRefresh(r)
    <2>1. contended' = contended /\ ~Refreshing(r)'
      BY <1>7, OtherThanRefresh DEF Refreshing
    <2>2. Contest' /\ Holding' /\ Unused'
      BY <1>1, <1>2, <2>1 DEF RotationInv, Contest, Holding, Unused, Refreshing, Heirs
    <2> QED BY <1>5, <2>2 DEF RotationInv
  <1> QED BY <1>6, <1>7

\* A refresh gets past the revocation with its token in hand.
LEMMA RevokedIsHeld ==
    ASSUME Typed, NEW r \in Requests, Statement(r), ~Commits(r), Moves(r),
           loc[r].op = "refresh", pc'[r] \in {"owner", "pair"}
    PROVE  pc[r] = "owner" \/ loc[r].token \in held'[r]
  <1>1. pc[r] \in {"revoke", "owner", "pair"}
    <2>1. Shape(pc[r], loc[r])
      BY DEF Typed, Formed
    <2> QED BY <2>1 DEF Shape, NoLoc
  <1>2. CASE pc[r] = "revoke"
    <2>1. Revoke(r)
      BY <1>2 DEF Statement, FindByAddress, InsertUser, InsertUserFails, Attach, AttachFails,
         CheckOwner, IssuePair, Persist, Comment, CommentFails, Erase, FindRecs, FindNotes,
         Wipe, FindTokens, RevokeAll, SoftDelete, Close
    <2>2. Lock(r, {loc[r].token}, "owner")
      BY <2>1 DEF Revoke
    <2> QED BY <2>2, LockMoves
  <1>3. pc[r] # "pair"
    BY DEF Statement, FindByAddress, InsertUser, InsertUserFails, Attach, AttachFails,
       Revoke, CheckOwner, Commits, Persist, Comment, CommentFails, Erase, FindRecs, FindNotes,
       Wipe, FindTokens, RevokeAll, SoftDelete, Close
  <1> QED BY <1>1, <1>2, <1>3

LEMMA RotationMoves ==
    ASSUME Typed, RotationInv, NEW r \in Requests, Statement(r), ~Commits(r), Moves(r)
    PROVE  RotationInv'
  <1>1. /\ UNCHANGED <<revoked, parent, contended>>
        /\ loc'[r].op = loc[r].op /\ loc'[r].token = loc[r].token /\ held[r] \subseteq held'[r]
    BY DEF Moves, tables, tokens, history
  <1>2. \A q \in Requests \ {r} : pc'[q] = pc[q] /\ loc'[q] = loc[q] /\ held'[q] = held[q]
    BY OthersStay
  <1>3. \A q \in Requests : loc'[q].op = loc[q].op /\ loc'[q].token = loc[q].token
    BY <1>1, <1>2
  <1>4. Spent' /\ Single'
    BY <1>1 DEF RotationInv, Spent, Single, Heirs
  <1>5. Contest' /\ Unused'
    BY <1>1, <1>3 DEF RotationInv, Contest, Unused, Refreshing, Heirs
  <1>6. Holding'
    BY <1>1, <1>2, RevokedIsHeld DEF RotationInv, Holding, Refreshing
  <1> QED BY <1>4, <1>5, <1>6 DEF RotationInv

\* A request that ends without handing out a token revokes some at the most.
LEMMA RotationEnd ==
    ASSUME Typed, RotationInv, NEW r \in Requests, BeginRequest(r) \/ Statement(r) \/ Abort(r),
           End(r), UNCHANGED <<parent, contended>>, revoked \subseteq revoked'
    PROVE  RotationInv'
  <1>1. ~Refreshing(r)'
    BY EndForgets DEF Refreshing
  <1>2. \A q \in Requests \ {r} : pc'[q] = pc[q] /\ loc'[q] = loc[q] /\ held'[q] = held[q]
    BY OthersStay
  <1>3. Spent' /\ Single'
    BY DEF RotationInv, Spent, Single, Heirs
  <1>4. Contest' /\ Unused' /\ Holding'
    BY <1>1, <1>2 DEF RotationInv, Contest, Unused, Holding, Refreshing, Heirs
  <1> QED BY <1>3, <1>4 DEF RotationInv

\* The heir of a token is its first, and the request had the token for itself.
LEMMA RotationIssue ==
    ASSUME Typed, RotationInv, NEW r \in Requests, IssuePair(r)
    PROVE  RotationInv'
  <1> SUFFICES ASSUME NEW p, p = loc[r].token, NEW n, n = Fresh(Unissued) PROVE RotationInv'
    OBVIOUS
  <1>1. /\ pc[r] = "pair" /\ n \in Tokens
        /\ parent' = [parent EXCEPT ![n] = p]
        /\ revoked' = revoked \cup (held[r] \cap Tokens) /\ End(r)
        /\ contended' = contended
    BY DEF IssuePair, Fresh, Unissued
  <1>2. ~Refreshing(r)'
    BY <1>1, EndForgets DEF Refreshing
  <1>3. \A q \in Requests \ {r} : pc'[q] = pc[q] /\ loc'[q] = loc[q] /\ held'[q] = held[q]
    BY OthersStay DEF Statement
  <1>4. \A t \in Tokens : t # p => Heirs(t)' \subseteq Heirs(t)
    BY <1>1 DEF Heirs, Typed, TypeOK
  <1>5. Heirs(p)' \subseteq Heirs(p) \cup {n}
    BY <1>1 DEF Heirs, Typed, TypeOK
  <1>6. ASSUME p \in Tokens PROVE Refreshing(r)
    <2>1. Shape(pc[r], loc[r])
      BY DEF Typed, Formed
    <2>2. None \notin Tokens
      BY IdAssumption DEF Keys
    <2> QED BY <1>1, <1>6, <2>1, <2>2 DEF Shape, Refreshing
  <1>7. Unused'
    <2> SUFFICES ASSUME NEW q \in Requests, Refreshing(q)', loc'[q].token \notin contended'
                 PROVE  {h \in Tokens : parent'[h] = loc'[q].token} = {}
      BY DEF Unused, Heirs
    <2>1. q # r /\ Refreshing(q) /\ loc'[q] = loc[q]
      BY <1>2, <1>3 DEF Refreshing
    <2> SUFFICES ASSUME NEW t, t = loc[q].token PROVE Heirs(t)' = {}
      BY <2>1 DEF Heirs
    <2>2. t \in Tokens /\ t \notin contended
      <3>1. Shape(pc[q], loc[q])
        BY DEF Typed, Formed
      <3> QED BY <1>1, <2>1, <3>1 DEF Shape, Refreshing, NoLoc
    <2>3. t # p
      BY <1>6, <2>1, <2>2 DEF RotationInv, Contest
    <2>4. Heirs(t) = {}
      BY <2>1, <2>2 DEF RotationInv, Unused
    <2> QED BY <1>4, <2>2, <2>3, <2>4
  <1>8. CASE p \in Tokens
    <2>1. Refreshing(r)
      BY <1>6, <1>8
    <2>2. p \in revoked'
      BY <1>1, <1>8, <2>1 DEF RotationInv, Holding
    <2>3. p \notin contended => Heirs(p) = {}
      BY <2>1 DEF RotationInv, Unused
    <2>4. Spent'
      BY <1>1, <1>4, <2>2 DEF RotationInv, Spent
    <2>5. Single'
      <3> SUFFICES ASSUME NEW t \in Tokens, t \notin contended, NEW g \in Heirs(t)',
                          NEW h \in Heirs(t)'
                   PROVE  g = h
        BY <1>1 DEF Single
      <3>1. CASE t = p
        BY <1>5, <2>3, <3>1
      <3>2. CASE t # p
        BY <1>4, <3>2 DEF RotationInv, Single
      <3> QED BY <3>1, <3>2
    <2>7. Contest' /\ Holding'
      BY <1>1, <1>2, <1>3 DEF RotationInv, Contest, Holding, Refreshing
    <2> QED BY <1>7, <2>4, <2>5, <2>7 DEF RotationInv
  <1>9. CASE p \notin Tokens
    <2>1. \A t \in Tokens : Heirs(t)' \subseteq Heirs(t)
      BY <1>4, <1>9
    <2>2. Spent' /\ Single'
      BY <1>1, <2>1 DEF RotationInv, Spent, Single
    <2>4. Contest' /\ Holding'
      BY <1>1, <1>2, <1>3 DEF RotationInv, Contest, Holding, Refreshing
    <2> QED BY <1>7, <2>2, <2>4 DEF RotationInv
  <1> QED BY <1>8, <1>9

LEMMA RotationStep == ASSUME Typed, RotationInv, [Next]_vars PROVE RotationInv'
  <1>1. CASE UNCHANGED vars \/ \E t \in Tokens : Expire(t)
    BY <1>1 DEF Expire, vars, tables, tokens, flight, history, RotationInv, Spent, Single,
       Holding, Contest, Unused, Heirs, Refreshing
  <1>2. ASSUME NEW r \in Requests, Rollback(r), Statement(r) \/ Abort(r) PROVE RotationInv'
    BY <1>2, RotationEnd DEF Rollback, tables, tokens
  <1>3. ASSUME NEW r \in Requests, Statement(r) PROVE RotationInv'
    <2>1. CASE IssuePair(r)
      BY <2>1, RotationIssue
    <2>2. CASE Persist(r) \/ Comment(r) \/ Close(r)
      BY <1>3, <2>2, RotationEnd DEF Persist, Comment, Close, tokens
    <2>3. CASE ~Commits(r)
      BY <1>2, <1>3, <2>3, StatementMoves, RotationMoves
    <2> QED BY <2>1, <2>2, <2>3 DEF Commits
  <1>4. ASSUME NEW r \in Requests, Abort(r) PROVE RotationInv'
    BY <1>2, <1>4 DEF Abort
  <1> QED BY <1>1, <1>3, <1>4, RotationBegin DEF Next

LEMMA InitRotation == Init => RotationInv
  <1> SUFFICES ASSUME Init PROVE RotationInv
    OBVIOUS
  <1>1. \A t \in Tokens : Heirs(t) = {}
    BY IdAssumption DEF Init, Heirs, Keys
  <1>2. \A r \in Requests : ~Refreshing(r)
    BY DEF Init, Refreshing, NoLoc
  <1> QED BY <1>1, <1>2 DEF RotationInv, Spent, Single, Holding, Contest, Unused

\* Refresh tokens rotate for any number of sessions, requests and failures: a token
\* that was exchanged is revoked, and two tokens are handed out for it only when two
\* refreshes of it overlapped.
THEOREM Rotates == Spec => []RotationIsAChain
  <1>1. Init => Typed /\ RotationInv
    BY InitTyped, InitRotation
  <1>2. Typed /\ RotationInv /\ [Next]_vars => (Typed /\ RotationInv)'
    BY StepTyped, RotationStep
  <1>3. RotationInv => RotationIsAChain
    <2> SUFFICES ASSUME RotationInv, NEW t \in Tokens
                 PROVE  /\ Heirs(t) # {} => t \in revoked
                        /\ t \notin contended => Cardinality(Heirs(t)) <= 1
      BY DEF RotationIsAChain
    <2>1. Heirs(t) # {} => t \in revoked
      BY DEF RotationInv, Spent
    <2>2. ASSUME t \notin contended PROVE Cardinality(Heirs(t)) <= 1
      <3>1. CASE Heirs(t) = {}
        BY <3>1, FS_EmptySet
      <3>2. ASSUME NEW h \in Heirs(t) PROVE Cardinality(Heirs(t)) <= 1
        <4>1. Heirs(t) = {h}
          BY <2>2 DEF RotationInv, Single
        <4> QED BY <4>1, FS_Singleton
      <3> QED BY <3>1, <3>2
    <2> QED BY <2>1, <2>2
  <1> QED BY <1>1, <1>2, <1>3, PTL DEF Spec

-----------------------------------------------------------------------------
(* What a deletion reaches *)

\* What no step takes back: tokens stay revoked and with their owner, feedback stays
\* feedback, and a comment that is still there is the comment it was.
Lasting ==
    /\ revoked \subseteq revoked'
    /\ \A t \in Tokens : owner[t] # None => owner'[t] = owner[t]
    /\ \A x \in Recs : rec[x] # None => rec'[x] # None
    /\ \A f \in Notes : note[f] # None => note'[f] # None /\ (f \in text' => f \in text)
    /\ \A f \in text' \cap text : note'[f] = note[f] /\ rec'[note[f]] = rec[note[f]]

LEMMA SameLasts ==
    ASSUME Typed, UNCHANGED <<owner, revoked, assess>>
    PROVE  Lasting
  BY DEF Lasting, assess

LEMMA IssueLasts ==
    ASSUME Typed, NEW r \in Requests, IssuePair(r)
    PROVE  Lasting
  <1> SUFFICES ASSUME NEW n, n = Fresh(Unissued) PROVE Lasting
    OBVIOUS
  <1>1. PICK u : /\ n \in Tokens /\ owner[n] = None
                 /\ owner' = [owner EXCEPT ![n] = u]
                 /\ revoked' = revoked \cup (held[r] \cap Tokens)
                 /\ UNCHANGED assess
    BY DEF IssuePair, Fresh, Unissued
  <1>2. \A t \in Tokens : owner[t] # None => owner'[t] = owner[t]
    BY <1>1 DEF Typed, TypeOK
  <1> QED BY <1>1, <1>2 DEF Lasting, assess

LEMMA PersistLasts ==
    ASSUME Typed, Written, NEW r \in Requests, Persist(r)
    PROVE  Lasting /\ Written'
  <1> SUFFICES ASSUME NEW n, n = Fresh(Unstored) PROVE Lasting /\ Written'
    OBVIOUS
  <1>1. /\ pc[r] = "persist" /\ n \in Recs /\ rec[n] = None
        /\ rec' = [rec EXCEPT ![n] = loc[r].user]
        /\ UNCHANGED <<owner, revoked, note, text>>
    BY DEF Persist, Fresh, Unstored, tokens
  <1>2. None \notin Users /\ None # Guest
    BY IdAssumption DEF Keys
  <1>3. \A x \in Recs : rec[x] # None => rec'[x] = rec[x]
    BY <1>1 DEF Typed, TypeOK
  <1>4. \A f \in text : note[f] \in Recs /\ rec[note[f]] # None
    BY <1>2 DEF Written
  <1>5. Lasting
    BY <1>1, <1>3, <1>4 DEF Lasting
  <1>6. Written'
    BY <1>1, <1>3, <1>4 DEF Written
  <1> QED BY <1>5, <1>6

LEMMA CommentLasts ==
    ASSUME Typed, Written, Asked, NEW r \in Requests, Comment(r)
    PROVE  Lasting /\ Written'
  <1> SUFFICES ASSUME NEW n, n = Fresh(Unsaid), NEW x, x = loc[r].about
               PROVE  Lasting /\ Written'
    OBVIOUS
  <1>1. /\ pc[r] = "comment" /\ n \in Notes /\ note[n] = None
        /\ note' = [note EXCEPT ![n] = x] /\ text' = text \cup {n}
        /\ rec[x] # Gone
        /\ UNCHANGED <<owner, revoked, rec>>
    BY DEF Comment, Fresh, Unsaid, tokens
  <1>2. x \in Recs /\ rec[x] \in Users \cup {Guest}
    <2>1. Shape(pc[r], loc[r])
      BY DEF Typed, Formed
    <2>2. loc[r].op = "feedback" /\ x \in Recs
      BY <1>1, <2>1 DEF Shape
    <2> QED BY <1>1, <2>2 DEF Asked, Typed, TypeOK
  <1>3. None \notin Recs
    BY IdAssumption DEF Keys
  <1>4. \A f \in Notes : f # n => note'[f] = note[f]
    BY <1>1 DEF Typed, TypeOK
  <1>5. note'[n] = x
    BY <1>1 DEF Typed, TypeOK
  <1>6. n \notin text
    BY <1>1, <1>3 DEF Written
  <1>7. text \subseteq Notes
    BY DEF Typed, TypeOK
  <1>8. Lasting
    BY <1>1, <1>2, <1>3, <1>4, <1>5, <1>6, <1>7 DEF Lasting
  <1>9. Written'
    BY <1>1, <1>2, <1>4, <1>5, <1>6, <1>7 DEF Written
  <1> QED BY <1>8, <1>9

LEMMA CloseLasts ==
    ASSUME Typed, Written, NEW r \in Requests, Close(r)
    PROVE  Lasting /\ Written'
  <1>1. /\ revoked' = revoked \cup (held[r] \cap Tokens)
        /\ rec' = [x \in Recs |-> IF x \in held[r] THEN Gone ELSE rec[x]]
        /\ note' = [f \in Notes |-> IF note[f] \in held[r] THEN Gone ELSE note[f]]
        /\ text' = text \ (held[r] \cup NotesOn(held[r]))
        /\ UNCHANGED owner
    BY DEF Close
  <1>2. None # Gone /\ text \subseteq Notes
    BY IdAssumption DEF Typed, TypeOK
  <1>3. \A f \in text' : f \in text /\ note[f] \notin held[r]
    BY <1>1, <1>2 DEF NotesOn
  <1>4. \A f \in text' : note'[f] = note[f] /\ rec'[note[f]] = rec[note[f]]
    BY <1>1, <1>2, <1>3 DEF Written
  <1>5. Lasting
    BY <1>1, <1>2, <1>3, <1>4 DEF Lasting
  <1>6. Written'
    BY <1>3, <1>4 DEF Written
  <1> QED BY <1>5, <1>6

LEMMA StepLasts ==
    ASSUME Typed, Written, Asked, [Next]_vars
    PROVE  Lasting /\ Written'
  <1>1. ASSUME UNCHANGED <<owner, revoked, assess>> PROVE Lasting /\ Written'
    BY <1>1, SameLasts DEF assess, Written
  <1>2. CASE UNCHANGED vars \/ \E t \in Tokens : Expire(t)
    BY <1>1, <1>2 DEF Expire, vars, tables, tokens
  <1>3. ASSUME NEW r \in Requests, BeginRequest(r) PROVE Lasting /\ Written'
    BY <1>1, <1>3, BeginKeeps DEF tables, tokens
  <1>4. ASSUME NEW r \in Requests, Moves(r) \/ Rollback(r) PROVE Lasting /\ Written'
    BY <1>1, <1>4 DEF Moves, Rollback, tables, tokens
  <1>5. ASSUME NEW r \in Requests, Statement(r) PROVE Lasting /\ Written'
    <2>1. CASE IssuePair(r)
      BY <2>1, IssueLasts DEF IssuePair, assess, Written
    <2>2. CASE Persist(r) \/ Comment(r) \/ Close(r)
      BY <2>2, PersistLasts, CommentLasts, CloseLasts
    <2>3. CASE ~Commits(r)
      BY <1>4, <1>5, <2>3, StatementMoves
    <2> QED BY <2>1, <2>2, <2>3 DEF Commits
  <1> QED BY <1>2, <1>3, <1>4, <1>5 DEF Next, Abort

\* What lasts keeps a deletion on its way, while other requests move.
LEMMA ReachLasts ==
    ASSUME Typed, Typed', ReachInv, Lasting, NEW r \in Requests,
           pc'[r] = pc[r], loc'[r] = loc[r], held'[r] = held[r]
    PROVE  NotesReached(r)' /\ TokensReached(r)'
  <1>1. text \subseteq Notes /\ None \notin Users
    BY IdAssumption DEF Typed, TypeOK, Keys
  <1>2. NotesReached(r) /\ TokensReached(r)
    BY DEF ReachInv, InReach
  <1> SUFFICES ASSUME loc[r].op = "deleteAccount" PROVE NotesReached(r)' /\ TokensReached(r)'
    BY DEF NotesReached, TokensReached
  <1>3. NotesReached(r)'
    <2>1. \A f \in loc[r].promise \cap Notes : note'[f] # None /\ (f \in text' => f \in text)
      BY <1>2 DEF NotesReached, Lasting
    <2>2. text' \subseteq Notes
      BY DEF Typed, TypeOK
    <2>3. \A f \in loc[r].promise \cap text' :
            f \in loc[r].promise \cap text /\ note'[f] = note[f] /\ rec'[note[f]] = rec[note[f]]
      BY <2>1, <2>2 DEF Lasting
    <2> QED BY <1>2, <2>1, <2>3 DEF NotesReached
  <1>4. TokensReached(r)'
    <2>1. loc[r].user \in Users
      <3>1. Shape(pc[r], loc[r])
        BY DEF Typed, Formed
      <3> QED BY <3>1 DEF Shape, NoLoc
    <2> QED BY <1>1, <1>2, <2>1 DEF TokensReached, Lasting
  <1> QED BY <1>3, <1>4

\* A deletion finds what it has promised, row after row.
LEMMA ReachBegin ==
    ASSUME Typed, ReachInv, NEW r \in Requests, BeginDeleteAccount(r)
    PROVE  NotesReached(r)' /\ TokensReached(r)'
  <1> SUFFICES ASSUME NEW u, u = loc'[r].user PROVE NotesReached(r)' /\ TokensReached(r)'
    OBVIOUS
  <1>1. /\ UNCHANGED <<rec, note, text, owner, revoked>>
        /\ pc'[r] = "recs" /\ u \in Users /\ loc'[r].promise = Belongings(u)
    BY DeleteAccountBegins DEF tables, tokens, assess, Live
  <1>2. Notes \cap Tokens = {} /\ None \notin Recs /\ Notes \cap Recs = {}
    BY IdAssumption DEF Keys
  <1>3. \A f \in Belongings(u) \cap Notes : f \in text /\ rec[note[f]] = u /\ note[f] \in Recs
    BY <1>2 DEF Belongings, NotesOn, RecsOf
  <1>4. \A f \in Belongings(u) \cap text : f \in Notes
    BY DEF Typed, TypeOK
  <1>5. \A t \in Belongings(u) \cap Tokens : owner[t] = u
    <2>1. text \cap Tokens = {}
      BY <1>2 DEF Typed, TypeOK
    <2> QED BY <2>1 DEF Belongings
  <1>6. NotesReached(r)'
    BY <1>1, <1>2, <1>3, <1>4 DEF NotesReached
  <1>7. TokensReached(r)'
    BY <1>1, <1>5 DEF TokensReached
  <1> QED BY <1>6, <1>7

LEMMA ReachMoves ==
    ASSUME Typed, ReachInv, NEW r \in Requests, Statement(r), ~Commits(r), Moves(r)
    PROVE  NotesReached(r)' /\ TokensReached(r)'
  <1>1. /\ UNCHANGED <<rec, note, text, owner, revoked>>
        /\ loc'[r].op = loc[r].op /\ loc'[r].promise = loc[r].promise /\ held[r] \subseteq held'[r]
    BY DEF Moves, tables, tokens, assess
  <1>2. NotesReached(r) /\ TokensReached(r)
    BY DEF ReachInv, InReach
  <1> SUFFICES ASSUME loc[r].op = "deleteAccount" PROVE NotesReached(r)' /\ TokensReached(r)'
    BY <1>1 DEF NotesReached, TokensReached
  <1>3. pc[r] \in {"recs", "notes", "wipe", "tokens", "revokeAll", "softDelete", "close"}
    <2>1. Shape(pc[r], loc[r])
      BY DEF Typed, Formed
    <2> QED BY <2>1 DEF Shape, NoLoc
  <1>4. \A f \in loc[r].promise \cap text : f \in Notes /\ note[f] \in Recs
    BY DEF ReachInv, Written, Typed, TypeOK
  <1>5. FindRecs(r) \/ FindNotes(r) \/ Wipe(r) \/ FindTokens(r) \/ RevokeAll(r) \/ SoftDelete(r)
    BY <1>3 DEF Statement, FindByAddress, InsertUser, InsertUserFails, Attach, AttachFails,
       Revoke, CheckOwner, Commits, CommentFails, Erase
  <1>6. CASE FindRecs(r)
    <2>1. pc[r] = "recs" /\ Read(r, RecsOf(loc[r].user), "notes")
      BY <1>6 DEF FindRecs
    <2>2. pc'[r] = "notes" /\ loc'[r].user = loc[r].user /\ loc'[r].rows = RecsOf(loc[r].user)
      BY <2>1, ReadMoves
    <2>3. \A f \in loc[r].promise \cap text : note[f] \in RecsOf(loc[r].user)
      BY <1>2, <1>4, <2>1 DEF RecsOf, NotesReached
    <2> QED BY <1>1, <1>2, <2>1, <2>2, <2>3 DEF NotesReached, TokensReached
  <1>7. CASE FindNotes(r)
    <2>1. pc[r] = "notes" /\ Read(r, NotesOn(loc[r].rows), "wipe")
      BY <1>7 DEF FindNotes
    <2>2. pc'[r] = "wipe" /\ loc'[r].user = loc[r].user /\ loc'[r].rows = NotesOn(loc[r].rows)
      BY <2>1, ReadMoves
    <2>3. \A f \in loc[r].promise \cap text : f \in NotesOn(loc[r].rows)
      BY <1>2, <1>4, <2>1 DEF NotesOn, NotesReached
    <2> QED BY <1>1, <1>2, <2>1, <2>2, <2>3 DEF NotesReached, TokensReached
  <1>8. CASE Wipe(r)
    <2> SUFFICES ASSUME NEW K, K = {f \in loc[r].rows : note[f] # Gone}
                 PROVE  NotesReached(r)' /\ TokensReached(r)'
      OBVIOUS
    <2>1. pc[r] = "wipe" /\ Lock(r, K, "tokens")
      BY <1>8 DEF Wipe
    <2>2. pc'[r] = "tokens" /\ loc'[r] = loc[r] /\ held'[r] = held[r] \cup K
      BY <2>1, LockMoves
    <2>3. \A f \in loc[r].promise \cap text : f \in K
      BY <1>2, <1>4, <2>1, IdAssumption DEF NotesReached
    <2> QED BY <1>1, <1>2, <2>1, <2>2, <2>3 DEF NotesReached, TokensReached
  <1>9. CASE FindTokens(r)
    <2> SUFFICES ASSUME NEW S, S = {t \in Tokens : owner[t] = loc[r].user /\ t \notin revoked}
                 PROVE  NotesReached(r)' /\ TokensReached(r)'
      OBVIOUS
    <2>1. pc[r] = "tokens" /\ Read(r, S, "revokeAll")
      BY <1>9 DEF FindTokens
    <2>2. pc'[r] = "revokeAll" /\ loc'[r].user = loc[r].user /\ loc'[r].rows = S
      BY <2>1, ReadMoves
    <2>3. \A t \in (loc[r].promise \cap Tokens) \ revoked : t \in S
      BY <1>2, <2>1 DEF TokensReached
    <2> QED BY <1>1, <1>2, <2>1, <2>2, <2>3 DEF NotesReached, TokensReached
  <1>10. CASE RevokeAll(r)
    <2>1. pc[r] = "revokeAll" /\ Lock(r, loc[r].rows \ revoked, "softDelete")
      BY <1>10 DEF RevokeAll
    <2>2. /\ pc'[r] = "softDelete" /\ loc'[r] = loc[r]
          /\ held'[r] = held[r] \cup (loc[r].rows \ revoked)
      BY <2>1, LockMoves
    <2> QED BY <1>1, <1>2, <2>1, <2>2 DEF NotesReached, TokensReached
  <1>11. CASE SoftDelete(r)
    <2>1. pc[r] = "softDelete" /\ Lock(r, {loc[r].user}, "close")
      BY <1>11 DEF SoftDelete
    <2>2. pc'[r] = "close" /\ loc'[r] = loc[r]
      BY <2>1, LockMoves
    <2> QED BY <1>1, <1>2, <2>1, <2>2 DEF NotesReached, TokensReached
  <1> QED BY <1>5, <1>6, <1>7, <1>8, <1>9, <1>10, <1>11

LEMMA ReachEnd ==
    ASSUME Typed, NEW r \in Requests, End(r)
    PROVE  NotesReached(r)' /\ TokensReached(r)'
  BY EndForgets DEF NotesReached, TokensReached

LEMMA InReachStep ==
    ASSUME Typed, ReachInv, [Next]_vars
    PROVE  InReach'
  <1> SUFFICES ASSUME NEW q \in Requests PROVE NotesReached(q)' /\ TokensReached(q)'
    BY DEF InReach
  <1>1. Lasting /\ Typed'
    BY StepLasts, StepTyped DEF ReachInv
  <1>2. CASE UNCHANGED vars \/ \E t \in Tokens : Expire(t)
    BY <1>1, <1>2, ReachLasts DEF Expire, vars, flight
  <1>3. ASSUME NEW r \in Requests, BeginRequest(r) \/ Statement(r) \/ Abort(r), q # r
        PROVE  NotesReached(q)' /\ TokensReached(q)'
    BY <1>1, <1>3, OthersStay, ReachLasts
  <1>4. CASE BeginRequest(q)
    <2>1. CASE BeginDeleteAccount(q)
      BY <2>1, ReachBegin
    <2>2. CASE ~BeginDeleteAccount(q)
      BY <1>4, <2>2, MarkTells DEF NotesReached, TokensReached
    <2> QED BY <2>1, <2>2
  <1>5. CASE Statement(q)
    <2>1. CASE Commits(q)
      BY <2>1, ReachEnd DEF Commits, IssuePair, Persist, Comment, Close
    <2>2. CASE Rollback(q)
      BY <2>2, ReachEnd DEF Rollback
    <2> QED BY <1>5, <2>1, <2>2, StatementMoves, ReachMoves
  <1>6. CASE Abort(q)
    BY <1>6, ReachEnd DEF Abort, Rollback
  <1> QED BY <1>2, <1>3, <1>4, <1>5, <1>6 DEF Next

LEMMA AskedStep ==
    ASSUME Typed, ReachInv, [Next]_vars
    PROVE  Asked'
  <1> SUFFICES ASSUME NEW q \in Requests, loc'[q].op = "feedback"
               PROVE  rec'[loc'[q].about] # None
    BY DEF Asked
  <1>1. Lasting
    BY StepLasts DEF ReachInv
  <1>2. ASSUME loc'[q].op = loc[q].op, loc'[q].about = loc[q].about
        PROVE  rec'[loc'[q].about] # None
    <2>1. Shape(pc[q], loc[q])
      BY DEF Typed, Formed
    <2>2. loc[q].about \in Recs
      BY <1>2, <2>1 DEF Shape, NoLoc
    <2> QED BY <1>1, <1>2, <2>2 DEF ReachInv, Asked, Lasting
  <1>3. CASE UNCHANGED vars \/ \E t \in Tokens : Expire(t)
    BY <1>2, <1>3 DEF Expire, vars, flight
  <1>4. ASSUME NEW r \in Requests, BeginRequest(r) \/ Statement(r) \/ Abort(r), q # r
        PROVE  rec'[loc'[q].about] # None
    BY <1>2, <1>4, OthersStay
  <1>5. CASE BeginRequest(q)
    <2>1. loc'[q].about \in Recs /\ rec[loc'[q].about] \in Users \cup {Guest}
      BY <1>5, MarkTells, FeedbackBegins
    <2> QED BY <1>1, <2>1, IdAssumption DEF Lasting, Keys
  <1>6. ASSUME End(q) PROVE FALSE
    BY <1>6, EndForgets
  <1>7. CASE Statement(q)
    <2>1. ~Commits(q) /\ ~Rollback(q)
      BY <1>6 DEF Commits, IssuePair, Persist, Comment, Close, Rollback
    <2>2. Moves(q)
      BY <1>7, <2>1, StatementMoves
    <2> QED BY <1>2, <2>2 DEF Moves
  <1>8. ~Abort(q)
    BY <1>6 DEF Abort, Rollback
  <1> QED BY <1>3, <1>4, <1>5, <1>7, <1>8 DEF Next

\* The end of a deletion: nothing that it has promised is left.
LEMMA PromisedStep ==
    ASSUME Typed, ReachInv, [Next]_vars
    PROVE  Said' /\ DeletionReaches'
  <1>1. Lasting /\ Typed'
    BY StepLasts, StepTyped DEF ReachInv
  <1>2. text' \subseteq Notes
    BY <1>1 DEF Typed, TypeOK
  <1>3. ASSUME promised' = promised PROVE Said' /\ DeletionReaches'
    <2>1. Said'
      BY <1>1, <1>3 DEF ReachInv, Said, Lasting
    <2>2. DeletionReaches'
      BY <1>1, <1>2, <1>3 DEF ReachInv, Said, Lasting, DeletionReaches
    <2> QED BY <2>1, <2>2
  <1>4. ASSUME NEW r \in Requests, Close(r) PROVE Said' /\ DeletionReaches'
    <2> SUFFICES ASSUME NEW P, P = loc[r].promise PROVE Said' /\ DeletionReaches'
      OBVIOUS
    <2>1. /\ pc[r] = "close" /\ promised' = promised \cup P
          /\ revoked' = revoked \cup (held[r] \cap Tokens)
          /\ text' = text \ (held[r] \cup NotesOn(held[r]))
      BY <1>4 DEF Close
    <2>2. P = {} \/ loc[r].op = "deleteAccount"
      <3>1. Shape(pc[r], loc[r])
        BY DEF Typed, Formed
      <3> QED BY <2>1, <3>1 DEF Shape
    <2>3. NotesReached(r) /\ TokensReached(r)
      BY DEF ReachInv, InReach
    <2>4. \A f \in P \cap Notes : note[f] # None
      BY <2>2, <2>3 DEF NotesReached
    <2>5. P \cap text \subseteq held[r] /\ (P \cap Tokens) \ revoked \subseteq held[r]
      BY <2>1, <2>2, <2>3 DEF NotesReached, TokensReached
    <2>6. Said'
      BY <1>1, <2>1, <2>4 DEF ReachInv, Said, Lasting
    <2>7. P \cap (text' \cup (Tokens \ revoked')) = {}
      BY <2>1, <2>5
    <2>8. promised \cap (text' \cup (Tokens \ revoked')) = {}
      BY <1>1, <1>2 DEF ReachInv, Said, Lasting, DeletionReaches
    <2>9. DeletionReaches'
      BY <2>1, <2>7, <2>8 DEF DeletionReaches
    <2> QED BY <2>6, <2>9
  <1>5. CASE UNCHANGED vars \/ \E t \in Tokens : Expire(t)
    BY <1>3, <1>5 DEF Expire, vars, history
  <1>6. ASSUME NEW r \in Requests, BeginRequest(r) PROVE promised' = promised
    BY <1>6, BeginKeeps
  <1>7. ASSUME NEW r \in Requests, Statement(r), ~Close(r) PROVE promised' = promised
    <2>1. CASE Commits(r)
      BY <1>7, <2>1 DEF Commits, IssuePair, Persist, Comment
    <2>2. CASE Moves(r) \/ Rollback(r)
      BY <2>2 DEF Moves, Rollback, history
    <2> QED BY <1>7, <2>1, <2>2, StatementMoves
  <1>8. ASSUME NEW r \in Requests, Abort(r) PROVE promised' = promised
    BY <1>8 DEF Abort, Rollback
  <1> QED BY <1>3, <1>4, <1>5, <1>6, <1>7, <1>8 DEF Next

LEMMA ReachStep == ASSUME Typed, ReachInv, [Next]_vars PROVE ReachInv'
  BY StepLasts, InReachStep, AskedStep, PromisedStep DEF ReachInv

LEMMA InitReach == Init => ReachInv
  <1> SUFFICES ASSUME Init PROVE ReachInv
    OBVIOUS
  <1>1. \A r \in Requests : loc[r].op = "none"
    BY DEF Init, NoLoc
  <1>2. text = {} /\ promised = {}
    BY DEF Init
  <1> QED BY <1>1, <1>2 DEF ReachInv, Written, Asked, InReach, NotesReached, TokensReached, Said,
             DeletionReaches

\* Whatever other requests insert, revoke, erase or wait for meanwhile: the tokens that an
\* account had when its deletion began stay revoked once the deletion has ended, and the
\* comments on its recommendations are gone for good.
THEOREM Reaches == Spec => []DeletionReaches
  <1>1. Init => Typed /\ ReachInv
    BY InitTyped, InitReach
  <1>2. Typed /\ ReachInv /\ [Next]_vars => (Typed /\ ReachInv)'
    BY StepTyped, ReachStep
  <1>3. ReachInv => DeletionReaches
    BY DEF ReachInv
  <1> QED BY <1>1, <1>2, <1>3, PTL DEF Spec

-----------------------------------------------------------------------------
(* Whom an identity signs in *)

\* Only a request in flight runs a statement, and the one at "pair" commits.
LEMMA StatementInFlight ==
    ASSUME NEW r \in Requests, Statement(r)
    PROVE  pc[r] # "idle" /\ (pc[r] = "pair" => IssuePair(r))
  BY DEF Statement, FindByAddress, InsertUser, InsertUserFails, Attach, AttachFails, Revoke,
     CheckOwner, IssuePair, Persist, Comment, CommentFails, Erase, FindRecs, FindNotes, Wipe,
     FindTokens, RevokeAll, SoftDelete, Close

\* What a step can be, to who looks at users and identities only.
Settles(r) == End(r) /\ UNCHANGED <<email, owner, account, mixed>> /\ deleted \subseteq deleted'

LEMMA StepKinds ==
    ASSUME Typed, [Next]_vars
    PROVE  \/ UNCHANGED <<people, owner, account, flight, mixed, crowded>>
           \/ \E r \in Requests :
                /\ BeginRequest(r) \/ Statement(r) \/ Abort(r)
                /\ \/ BeginRequest(r)
                   \/ Statement(r) /\ ~Commits(r) /\ Moves(r)
                   \/ IssuePair(r)
                   \/ Settles(r)
  <1>1. CASE UNCHANGED vars \/ \E t \in Tokens : Expire(t)
    BY <1>1 DEF Expire, vars, tables, tokens, history
  <1>2. ASSUME NEW r \in Requests, Rollback(r) PROVE Settles(r)
    BY <1>2 DEF Rollback, Settles, tables, people, tokens
  <1>3. ASSUME NEW r \in Requests, Persist(r) \/ Comment(r) \/ Close(r) PROVE Settles(r)
    BY <1>3 DEF Persist, Comment, Close, Settles, people, tokens
  <1>4. CASE \E r \in Requests : BeginRequest(r)
    BY <1>4
  <1>5. CASE \E r \in Requests : Abort(r)
    BY <1>2, <1>5 DEF Abort
  <1>6. CASE \E r \in Requests : Statement(r)
    <2>1. PICK r \in Requests : Statement(r)
      BY <1>6
    <2>2. Moves(r) \/ Settles(r) \/ IssuePair(r)
      BY <1>2, <1>3, <2>1, StatementMoves DEF Commits
    <2>3. CASE Commits(r)
      BY <1>3, <2>1, <2>3 DEF Commits
    <2> QED BY <2>1, <2>2, <2>3
  <1> QED BY <1>1, <1>4, <1>5, <1>6 DEF Next

\* What the commit of a pair does to users and identities.
Creates(r, u) ==
    /\ u \in Users
    /\ \/ loc[r].user = u /\ email' = email
       \/ /\ loc[r].user = None /\ email[u] = None
          /\ email' = [email EXCEPT ![u] = loc[r].address]
          /\ loc[r].op \in {"register", "callback"} /\ loc[r].address \in Addresses
    /\ \/ account' = account
       \/ account' = [account EXCEPT ![loc[r].id] = u]
    /\ loc[r].id \in held[r] => account' = [account EXCEPT ![loc[r].id] = u]
                                /\ loc[r].op = "callback" /\ loc[r].id \in Identities
    /\ loc[r].id \notin held[r] => account' = account

LEMMA IssueCreates ==
    ASSUME Typed, NEW r \in Requests, IssuePair(r)
    PROVE  \E u, n : /\ Creates(r, u) /\ n \in Tokens /\ owner' = [owner EXCEPT ![n] = u]
                     /\ pc[r] = "pair" /\ End(r) /\ UNCHANGED <<deleted, mixed>>
  <1> SUFFICES ASSUME NEW u, u = IF loc[r].user = None THEN Fresh(Absent) ELSE loc[r].user,
                      NEW n, n = Fresh(Unissued)
               PROVE  /\ Creates(r, u) /\ n \in Tokens /\ owner' = [owner EXCEPT ![n] = u]
                      /\ pc[r] = "pair" /\ End(r) /\ UNCHANGED <<deleted, mixed>>
    OBVIOUS
  <1>1. /\ pc[r] = "pair" /\ Unissued # {} /\ (loc[r].user = None => Absent # {})
        /\ owner' = [owner EXCEPT ![n] = u]
        /\ email' = IF loc[r].user = None THEN [email EXCEPT ![u] = loc[r].address] ELSE email
        /\ account' = IF loc[r].id \in held[r] THEN [account EXCEPT ![loc[r].id] = u] ELSE account
        /\ End(r) /\ UNCHANGED <<deleted, mixed>>
    BY DEF IssuePair
  <1>2. Shape(pc[r], loc[r])
    BY DEF Typed, Formed
  <1>3. None \notin Users /\ None \notin Keys
    BY IdAssumption DEF Keys
  <1>4. n \in Tokens
    BY <1>1 DEF Fresh, Unissued
  <1>5. loc[r].id \in held[r] => loc[r].op = "callback" /\ loc[r].id \in Identities
    <2>1. held[r] \subseteq Keys
      BY DEF Typed, TypeOK
    <2> QED BY <1>1, <1>2, <1>3, <2>1 DEF Shape
  <1>6. CASE loc[r].user = None
    <2>1. loc[r].op \in {"register", "callback"} /\ loc[r].address \in Addresses
      BY <1>1, <1>2, <1>3, <1>6 DEF Shape
    <2>2. u \in Users /\ email[u] = None
      BY <1>1, <1>6 DEF Fresh, Absent
    <2> QED BY <1>1, <1>4, <1>5, <1>6, <2>1, <2>2 DEF Creates
  <1>7. CASE loc[r].user # None
    <2>1. loc[r].user \in Users
      BY <1>1, <1>2, <1>7 DEF Shape
    <2> QED BY <1>1, <1>4, <1>5, <1>7, <2>1 DEF Creates
  <1> QED BY <1>6, <1>7

\* A user keeps the address of its row, and a deleted one stays deleted.
UsersLast == /\ \A u \in Users : email[u] # None => email'[u] = email[u]
             /\ deleted \subseteq deleted' /\ mixed \subseteq mixed'

LEMMA StepUsersLast == ASSUME Typed, [Next]_vars PROVE UsersLast
  <1>1. ASSUME UNCHANGED email, deleted \subseteq deleted', mixed \subseteq mixed' PROVE UsersLast
    BY <1>1 DEF UsersLast
  <1>2. ASSUME NEW r \in Requests, BeginRequest(r) PROVE UsersLast
    <2>1. UNCHANGED <<email, deleted>>
      BY <1>2, BeginKeeps DEF tables, people
    <2>2. mixed \subseteq mixed'
      BY <1>2 DEF BeginRequest, BeginRegister, BeginLogin, BeginCallback, BeginRefresh,
         BeginLogout, BeginRecommend, BeginFeedback, BeginDeleteAssessment, BeginDeleteAccount,
         history
    <2> QED BY <1>1, <2>1, <2>2
  <1>3. ASSUME NEW r \in Requests, Moves(r) \/ Settles(r) PROVE UsersLast
    BY <1>1, <1>3 DEF Moves, Settles, tables, people, history
  <1>4. ASSUME NEW r \in Requests, IssuePair(r) PROVE UsersLast
    <2>1. PICK u, n : Creates(r, u) /\ UNCHANGED <<deleted, mixed>>
      BY <1>4, IssueCreates
    <2> QED BY <2>1 DEF UsersLast, Creates, Typed, TypeOK
  <1>5. CASE UNCHANGED <<people, owner, account, flight, mixed, crowded>>
    BY <1>1, <1>5 DEF people
  <1> QED BY <1>2, <1>3, <1>4, <1>5, StepKinds

LEMMA IdleStep == ASSUME Typed, IdleHolds, [Next]_vars PROVE IdleHolds'
  <1> SUFFICES ASSUME NEW q \in Requests, pc'[q] = "idle" PROVE held'[q] = {}
    BY DEF IdleHolds
  <1>1. CASE UNCHANGED <<people, owner, account, flight, mixed, crowded>>
    BY <1>1 DEF flight, IdleHolds
  <1>2. ASSUME NEW r \in Requests, BeginRequest(r) \/ Statement(r) \/ Abort(r), q # r
        PROVE  held'[q] = {}
    BY <1>2, OthersStay DEF IdleHolds
  <1>3. CASE BeginRequest(q)
    BY <1>3, BeginKeeps DEF IdleHolds
  <1>4. CASE Statement(q) /\ Moves(q)
    <2>1. loc[q].op # "none"
      <3>1. Shape(pc[q], loc[q]) /\ pc[q] # "idle"
        BY <1>4, StatementInFlight DEF Typed, Formed
      <3> QED BY <3>1 DEF Shape
    <2>2. loc'[q].op = "none"
      <3>1. Shape(pc'[q], loc'[q])
        BY StepTyped DEF Typed, Formed
      <3> QED BY <3>1 DEF Shape, NoLoc
    <2> QED BY <1>4, <2>1, <2>2 DEF Moves
  <1>5. CASE IssuePair(q) \/ Settles(q)
    BY <1>5, EndForgets DEF IssuePair, Settles
  <1> QED BY <1>1, <1>2, <1>3, <1>4, <1>5, StepKinds

\* Nobody is named before there is a row: the commit that names a user makes it.
LEMMA BeginNamesLive ==
    ASSUME Typed, Known, NEW r \in Requests, BeginRequest(r), loc'[r].user \in Users
    PROVE  email[loc'[r].user] # None
  <1>1. None \notin Users /\ Guest \notin Users
    BY IdAssumption DEF Keys
  <1>2. \A u \in Live : email[u] # None
    BY DEF Live
  <1>3. CASE BeginRefresh(r)
    BY <1>3, RefreshBegins DEF Known, Usable
  <1>4. CASE BeginCallback(r)
    BY <1>1, <1>2, <1>4, CallbackBegins DEF Own
  <1> QED BY <1>1, <1>2, <1>3, <1>4, RegisterBegins, LoginBegins, LogoutBegins, RecommendBegins,
             FeedbackBegins, DeleteAssessmentBegins, DeleteAccountBegins DEF BeginRequest

LEMMA KnownStep == ASSUME Typed, Known, [Next]_vars PROVE Known'
  <1>1. UsersLast
    BY StepUsersLast
  <1>2. None \notin Users /\ None \notin Addresses
    BY IdAssumption DEF Keys
  <1>3. ASSUME NEW q \in Requests, loc'[q].user = loc[q].user, loc'[q].user \in Users
        PROVE  email'[loc'[q].user] # None
    BY <1>1, <1>3 DEF Known, UsersLast
  <1>4. CASE UNCHANGED <<people, owner, account, flight, mixed, crowded>>
    BY <1>4 DEF people, flight, Known
  <1>5. ASSUME NEW r \in Requests, BeginRequest(r) \/ Statement(r) \/ Abort(r),
               loc'[r].user \in Users => email'[loc'[r].user] # None
        PROVE  \A q \in Requests : loc'[q].user \in Users => email'[loc'[q].user] # None
    BY <1>3, <1>5, OthersStay
  <1>6. ASSUME UNCHANGED <<owner, account>>
        PROVE  /\ \A t \in Tokens : owner'[t] # None => email'[owner'[t]] # None
               /\ \A o \in Identities : account'[o] # None => email'[account'[o]] # None
    BY <1>1, <1>6 DEF Known, UsersLast, Typed, TypeOK
  <1>7. ASSUME NEW r \in Requests, BeginRequest(r) PROVE Known'
    <2>1. UNCHANGED <<email, owner, account>>
      BY <1>7, BeginKeeps DEF tables, people, tokens
    <2>2. loc'[r].user \in Users => email'[loc'[r].user] # None
      BY <1>7, <2>1, BeginNamesLive
    <2> QED BY <1>5, <1>6, <1>7, <2>1, <2>2 DEF Known
  <1>8. ASSUME NEW r \in Requests, Statement(r), Moves(r) PROVE Known'
    <2>1. UNCHANGED <<email, owner, account>>
      BY <1>8 DEF Moves, tables, people, tokens
    <2>2. loc'[r].user \in Users => email'[loc'[r].user] # None
      BY <1>3, <1>8, <2>1 DEF Moves, Live
    <2> QED BY <1>5, <1>6, <1>8, <2>1, <2>2 DEF Known
  <1>9. ASSUME NEW r \in Requests, Statement(r) \/ Abort(r), Settles(r) PROVE Known'
    <2>1. loc'[r].user \in Users => email'[loc'[r].user] # None
      BY <1>2, <1>9, EndForgets DEF Settles
    <2> QED BY <1>5, <1>6, <1>9, <2>1 DEF Known, Settles
  <1>10. ASSUME NEW r \in Requests, IssuePair(r) PROVE Known'
    <2>1. PICK u, n : /\ Creates(r, u) /\ n \in Tokens /\ owner' = [owner EXCEPT ![n] = u]
                      /\ End(r)
      BY <1>10, IssueCreates
    <2>2. email'[u] # None
      BY <1>2, <2>1 DEF Creates, Known, Typed, TypeOK
    <2>3. \A t \in Tokens : owner'[t] # None => email'[owner'[t]] # None
      <3> SUFFICES ASSUME NEW t \in Tokens, owner'[t] # None PROVE email'[owner'[t]] # None
        OBVIOUS
      <3>1. owner'[t] = u \/ owner'[t] = owner[t]
        BY <2>1 DEF Typed, TypeOK
      <3>2. owner[t] \in Users \cup {None}
        BY DEF Typed, TypeOK
      <3> QED BY <1>1, <2>2, <3>1, <3>2 DEF Known, UsersLast
    <2>4. \A o \in Identities : account'[o] # None => email'[account'[o]] # None
      <3> SUFFICES ASSUME NEW o \in Identities, account'[o] # None PROVE email'[account'[o]] # None
        OBVIOUS
      <3>1. account'[o] = u \/ account'[o] = account[o]
        BY <2>1 DEF Creates, Typed, TypeOK
      <3>2. account[o] \in Users \cup {None}
        BY DEF Typed, TypeOK
      <3> QED BY <1>1, <2>2, <3>1, <3>2 DEF Known, UsersLast
    <2>5. loc'[r].user \in Users => email'[loc'[r].user] # None
      BY <1>2, <2>1, EndForgets
    <2> QED BY <1>5, <1>10, <2>3, <2>4, <2>5 DEF Known, Statement
  <1> QED BY <1>4, <1>7, <1>8, <1>9, <1>10, StepKinds

LEMMA MixingStep == ASSUME Typed, Mixing, [Next]_vars PROVE Mixing'
  <1>1. mixed \subseteq mixed'
    BY StepUsersLast DEF UsersLast
  <1>2. CASE UNCHANGED <<people, owner, account, flight, mixed, crowded>>
    BY <1>2 DEF flight, Mixing
  <1>3. ASSUME NEW r \in Requests, BeginRequest(r) \/ Statement(r) \/ Abort(r),
               loc'[r].op = "callback" => loc[r].op = "callback" /\ loc'[r].id = loc[r].id
        PROVE  Mixing'
    <2>1. \A q \in Requests \ {r} : loc'[q] = loc[q]
      BY <1>3, OthersStay
    <2> QED BY <1>1, <1>3, <2>1 DEF Mixing
  <1>4. ASSUME NEW r \in Requests, BeginRequest(r), loc'[r].op = "callback" PROVE Mixing'
    <2>1. \A q \in Requests \ {r} : loc'[q] = loc[q]
      BY <1>4, OthersStay
    <2>2. \A q \in InFlight("callback") : loc[q].id = loc'[r].id => loc'[r].id \in mixed'
      BY <1>4, MarkTells, CallbackBegins
    <2>3. \A q \in Requests \ {r} :
            loc[q].op = "callback" /\ loc[q].id = loc'[r].id => loc'[r].id \in mixed'
      BY <2>2, MarkedIsInFlight
    <2> QED BY <1>1, <2>1, <2>3 DEF Mixing
  <1>5. ASSUME NEW r \in Requests, Statement(r), Moves(r) PROVE Mixing'
    BY <1>3, <1>5 DEF Moves
  <1>6. ASSUME NEW r \in Requests, Statement(r) \/ Abort(r), Settles(r) \/ IssuePair(r)
        PROVE  Mixing'
    BY <1>3, <1>6, EndForgets DEF Settles, IssuePair
  <1> QED BY <1>2, <1>3, <1>4, <1>5, <1>6, StepKinds DEF Statement

LEMMA VacatedStep == ASSUME Typed, IdentityInv, [Next]_vars PROVE Vacated'
  <1> SUFFICES ASSUME NEW q \in Requests, loc'[q].op = "callback", loc'[q].id \notin mixed',
                      pc'[q] # "pair" \/ loc'[q].id \in held'[q]
               PROVE  account'[loc'[q].id] = None \/ account'[loc'[q].id] \in deleted'
    BY DEF Vacated
  <1>1. UsersLast /\ loc'[q].id \notin mixed
    BY StepUsersLast DEF UsersLast
  <1>2. ASSUME account[loc'[q].id] = None \/ account[loc'[q].id] \in deleted, account' = account
        PROVE  account'[loc'[q].id] = None \/ account'[loc'[q].id] \in deleted'
    BY <1>1, <1>2 DEF UsersLast
  <1>3. CASE UNCHANGED <<people, owner, account, flight, mixed, crowded>>
    BY <1>3 DEF people, flight, IdentityInv, Vacated
  <1>4. CASE BeginRequest(q)
    <2>1. BeginCallback(q)
      BY <1>4, MarkTells
    <2>2. UNCHANGED <<account, held, email>> /\ held[q] = {}
      BY <1>4, <2>1, BeginKeeps, CallbackBegins DEF tables, people, IdentityInv, IdleHolds
    <2>3. Own(loc'[q].id) = {} /\ loc'[q].id \in Identities
      BY <2>1, <2>2, CallbackBegins
    <2>4. account[loc'[q].id] = None \/ account[loc'[q].id] \in deleted
      BY <2>3 DEF Own, Live, IdentityInv, Known, Typed, TypeOK
    <2> QED BY <1>2, <2>2, <2>4
  <1>5. CASE Statement(q) /\ ~Commits(q) /\ Moves(q)
    <2>1. /\ account' = account /\ loc[q].op = "callback" /\ loc'[q].id = loc[q].id
          /\ pc[q] # "pair"
      BY <1>5, StatementInFlight DEF Moves, tables, Commits
    <2> QED BY <1>1, <1>2, <2>1 DEF IdentityInv, Vacated
  <1>6. ~End(q)
    BY EndForgets
  <1>7. ASSUME NEW r \in Requests, BeginRequest(r) \/ Statement(r) \/ Abort(r), q # r
        PROVE  account'[loc'[q].id] = None \/ account'[loc'[q].id] \in deleted'
    <2>1. pc'[q] = pc[q] /\ loc'[q] = loc[q] /\ held'[q] = held[q]
      BY <1>7, OthersStay
    <2>2. account[loc[q].id] = None \/ account[loc[q].id] \in deleted
      BY <1>1, <2>1 DEF IdentityInv, Vacated
    <2>3. CASE account' = account
      BY <1>2, <2>1, <2>2, <2>3
    <2>4. CASE IssuePair(r)
      <3>1. PICK u : Creates(r, u)
        BY <2>4, IssueCreates
      <3>2. CASE loc[r].id \in held[r]
        <4>1. loc[r].op = "callback" /\ account' = [account EXCEPT ![loc[r].id] = u]
          BY <3>1, <3>2 DEF Creates
        <4>2. loc[r].id # loc[q].id
          BY <1>1, <1>7, <2>1, <4>1 DEF IdentityInv, Mixing
        <4>3. account'[loc[q].id] = account[loc[q].id]
          BY <4>1, <4>2 DEF Typed, TypeOK
        <4> QED BY <1>1, <2>1, <2>2, <4>3 DEF UsersLast
      <3> QED BY <2>3, <3>1, <3>2 DEF Creates
    <2>5. CASE BeginRequest(r)
      BY <2>3, <2>5, BeginKeeps DEF tables
    <2>6. CASE Moves(r) \/ Settles(r)
      BY <2>3, <2>6 DEF Moves, Settles, tables
    <2>7. CASE Abort(r)
      BY <2>3, <2>7 DEF Abort, Rollback, tables
    <2>8. CASE Statement(r) /\ ~IssuePair(r)
      BY <2>3, <2>6, <2>8, StatementMoves DEF Commits, Persist, Comment, Close, Rollback, tables
    <2> QED BY <1>7, <2>4, <2>5, <2>7, <2>8
  <1> QED BY <1>3, <1>4, <1>5, <1>6, <1>7, StepKinds DEF Settles, IssuePair

LEMMA IdentityStep == ASSUME Typed, IdentityInv, [Next]_vars PROVE IdentityInv'
  BY IdleStep, KnownStep, MixingStep, VacatedStep DEF IdentityInv

LEMMA InitIdentity == Init => IdentityInv
  <1> SUFFICES ASSUME Init PROVE IdentityInv
    OBVIOUS
  <1>1. \A r \in Requests : loc[r].op = "none" /\ loc[r].user = None
    BY DEF Init, NoLoc
  <1> QED BY <1>1, IdAssumption DEF Init, IdentityInv, IdleHolds, Known, Mixing, Vacated, Keys

LEMMA IdentityAlways == Spec => [](Typed /\ IdentityInv)
  <1>1. Init => Typed /\ IdentityInv
    BY InitTyped, InitIdentity
  <1>2. Typed /\ IdentityInv /\ [Next]_vars => (Typed /\ IdentityInv)'
    BY StepTyped, IdentityStep
  <1> QED BY <1>1, <1>2, PTL DEF Spec

\* An identity is taken from a user only when that user is deleted.
LEMMA IdentityMoves ==
    ASSUME Typed, IdentityInv, [Next]_vars, NEW o \in Identities \ mixed',
           account'[o] # account[o]
    PROVE  account[o] = None \/ account[o] \in deleted
  <1>1. PICK r \in Requests : IssuePair(r)
    BY StepKinds, BeginKeeps DEF Moves, Settles, tables
  <1>2. PICK u : Creates(r, u) /\ mixed' = mixed /\ pc[r] = "pair"
    BY <1>1, IssueCreates
  <1>3. loc[r].id \in held[r] /\ loc[r].id = o /\ loc[r].op = "callback"
    BY <1>2 DEF Creates, Typed, TypeOK
  <1> QED BY <1>2, <1>3 DEF IdentityInv, Vacated

\* A sign-in through a provider never takes an identity away from a live account, unless
\* two callbacks of that identity overlapped.
THEOREM IdentityIsKept == Spec => IdentityStays
  <1>1. Typed /\ IdentityInv /\ [Next]_vars
        => [\A o \in Identities \ mixed' :
              account'[o] # account[o] => account[o] = None \/ account[o] \in deleted]_vars
    BY IdentityMoves
  <1> QED BY <1>1, IdentityAlways, PTL DEF Spec, IdentityStays

-----------------------------------------------------------------------------
(* A sign-in that is alone *)

LEMMA CrowdTells ==
    ASSUME Typed, NEW r \in Requests, Crowd(r)
    PROVE  /\ crowded \subseteq crowded'
           /\ \A q \in Requests \ {r} : SigningUp(q) => q \in crowded' /\ r \in crowded'
  <1>1. \A q \in Requests \ {r} : SigningUp(q) => q \in InFlight("register") \cup InFlight("callback")
    BY MarkedIsInFlight DEF SigningUp
  <1> SUFFICES ASSUME NEW S, S = {q \in InFlight("register") \cup InFlight("callback") : q # r}
               PROVE  /\ crowded \subseteq crowded'
                      /\ \A q \in Requests \ {r} : SigningUp(q) => q \in crowded' /\ r \in crowded'
    OBVIOUS
  <1>2. crowded' = IF S = {} THEN crowded ELSE crowded \cup S \cup {r}
    BY DEF Crowd
  <1>3. \A q \in Requests \ {r} : SigningUp(q) => q \in S
    BY <1>1
  <1> QED BY <1>2, <1>3

LEMMA BeginCrowds ==
    ASSUME Typed, NEW r \in Requests, BeginRequest(r)
    PROVE  /\ crowded \subseteq crowded'
           /\ SigningUp(r)' => \A q \in Requests \ {r} :
                                   SigningUp(q) => q \in crowded' /\ r \in crowded'
  <1>1. CASE BeginRegister(r) \/ BeginCallback(r)
    BY <1>1, CrowdTells DEF BeginRegister, BeginCallback
  <1>2. CASE ~BeginRegister(r) /\ ~BeginCallback(r)
    <2>1. ~SigningUp(r)'
      BY <1>2, MarkTells DEF SigningUp
    <2>2. crowded \subseteq crowded'
      BY <1>2 DEF BeginRequest, BeginLogin, BeginRefresh, BeginLogout, BeginRecommend,
         BeginFeedback, BeginDeleteAssessment, BeginDeleteAccount, history
    <2> QED BY <2>1, <2>2
  <1> QED BY <1>1, <1>2

LEMMA AloneStep == ASSUME Typed, Alone, [Next]_vars PROVE Alone'
  <1>1. CASE UNCHANGED <<people, owner, account, flight, mixed, crowded>>
    BY <1>1 DEF flight, Alone, SigningUp
  <1>2. ASSUME NEW r \in Requests, BeginRequest(r) PROVE Alone'
    <2>1. \A q \in Requests \ {r} : loc'[q] = loc[q]
      BY <1>2, OthersStay
    <2>2. \A q \in Requests \ {r} : SigningUp(q)' <=> SigningUp(q)
      BY <2>1 DEF SigningUp
    <2> QED BY <1>2, <2>2, BeginCrowds DEF Alone
  <1>3. ASSUME NEW r \in Requests, Statement(r), Moves(r) PROVE Alone'
    <2>1. \A q \in Requests : loc'[q].op = loc[q].op
      BY <1>3, OthersStay DEF Moves
    <2> QED BY <1>3, <2>1 DEF Alone, SigningUp, Moves, history
  <1>4. ASSUME NEW r \in Requests, Statement(r) \/ Abort(r), End(r) PROVE Alone'
    <2>1. \A q \in Requests \ {r} : loc'[q] = loc[q]
      BY <1>4, OthersStay
    <2>2. crowded' = crowded \ {r} /\ loc'[r].op = "none"
      BY <1>4, EndForgets
    <2> QED BY <2>1, <2>2 DEF Alone, SigningUp
  <1> QED BY <1>1, <1>2, <1>3, <1>4, StepKinds DEF Settles, IssuePair, Statement

LEMMA AddressedStep == ASSUME Typed, Addressed, [Next]_vars PROVE Addressed'
  <1> SUFFICES ASSUME NEW q \in Requests
               PROVE  /\ loc'[q].op = "register" => loc'[q].address \in Emails
                      /\ loc'[q].op = "callback"
                         => loc'[q].address \in Emails \cup {Synthetic[loc'[q].id]}
    BY DEF Addressed
  <1>1. CASE loc'[q].op = loc[q].op /\ loc'[q].address = loc[q].address /\ loc'[q].id = loc[q].id
    BY <1>1 DEF Addressed
  <1>2. CASE UNCHANGED <<people, owner, account, flight, mixed, crowded>>
    BY <1>1, <1>2 DEF flight
  <1>3. ASSUME NEW r \in Requests, BeginRequest(r) \/ Statement(r) \/ Abort(r), q # r
        PROVE  loc'[q] = loc[q]
    BY <1>3, OthersStay
  <1>4. CASE BeginRequest(q)
    BY <1>4, MarkTells, RegisterBegins, CallbackBegins
  <1>5. CASE Moves(q)
    BY <1>1, <1>5 DEF Moves
  <1>6. CASE End(q)
    BY <1>6, EndForgets
  <1> QED BY <1>1, <1>2, <1>3, <1>4, <1>5, <1>6, StepKinds DEF Settles, IssuePair

\* The statement that leads to "pair" in a callback is the one that locks the identity ...
LEMMA PairAfterAttach ==
    ASSUME Typed, NEW r \in Requests, Statement(r), ~Commits(r), Moves(r),
           loc[r].op = "callback", pc'[r] = "pair"
    PROVE  loc[r].id \in held'[r]
  <1>1. pc[r] \in {"byAddress", "insertUser", "attach"}
    <2>1. Shape(pc[r], loc[r])
      BY DEF Typed, Formed
    <2>2. pc[r] # "pair"
      BY StatementInFlight DEF Commits
    <2> QED BY <2>1, <2>2 DEF Shape, NoLoc
  <1>2. FindByAddress(r) \/ InsertUser(r) \/ Attach(r) \/ InsertUserFails(r) \/ AttachFails(r)
    BY <1>1 DEF Statement, Revoke, CheckOwner, IssuePair, Persist, Comment, CommentFails, Erase,
       FindRecs, FindNotes, Wipe, FindTokens, RevokeAll, SoftDelete, Close
  <1>3. ~FindByAddress(r)
    BY FindMoves
  <1>4. ~InsertUser(r)
    <2>1. ASSUME InsertUser(r) PROVE Lock(r, {loc[r].address}, "attach")
      BY <2>1 DEF InsertUser
    <2> QED BY <2>1, LockMoves
  <1>5. ~Rollback(r)
    BY EndForgets DEF Rollback
  <1>6. Lock(r, {loc[r].id}, "pair")
    BY <1>2, <1>3, <1>4, <1>5 DEF Attach, InsertUserFails, AttachFails
  <1> QED BY <1>6, LockMoves

\* ... and the one that leads to the insert has found nobody with the address.
LEMMA InsertAfterFind ==
    ASSUME Typed, NEW r \in Requests, Statement(r), ~Commits(r), Moves(r), pc'[r] = "insertUser"
    PROVE  WithEmail(loc[r].address) = {}
  <1>1. ASSUME NEW K, NEW s, Lock(r, K, s) \/ Read(r, K, s), s # "insertUser" PROVE FALSE
    BY <1>1, LockMoves, ReadMoves
  <1>2. ~Rollback(r)
    BY EndForgets DEF Rollback
  <1>3. FindByAddress(r)
    BY <1>1, <1>2 DEF Statement, Commits, InsertUser, InsertUserFails, Attach, AttachFails,
       Revoke, CheckOwner, CommentFails, Erase, FindRecs, FindNotes, Wipe, FindTokens, RevokeAll,
       SoftDelete
  <1> QED BY <1>3, FindMoves

LEMMA AttachedStep == ASSUME Typed, Attached, [Next]_vars PROVE Attached'
  <1> SUFFICES ASSUME NEW q \in Requests, loc'[q].op = "callback", pc'[q] = "pair",
                      loc'[q].user = None
               PROVE  loc'[q].id \in held'[q]
    BY DEF Attached
  <1>1. CASE UNCHANGED <<people, owner, account, flight, mixed, crowded>>
    BY <1>1 DEF flight, Attached
  <1>2. ASSUME NEW r \in Requests, BeginRequest(r) \/ Statement(r) \/ Abort(r), q # r
        PROVE  pc'[q] = pc[q] /\ loc'[q] = loc[q] /\ held'[q] = held[q]
    BY <1>2, OthersStay
  <1>3. ~BeginRequest(q)
    <2>1. ASSUME BeginCallback(q) PROVE FALSE
      <3>1. Own(loc'[q].id) # {} /\ loc'[q].user = account[loc'[q].id]
        BY <2>1, CallbackBegins
      <3>2. account[loc'[q].id] \in Users
        BY <3>1 DEF Own, Live
      <3> QED BY <3>1, <3>2, IdAssumption DEF Keys
    <2> QED BY <2>1, MarkTells
  <1>4. CASE Statement(q) /\ ~Commits(q) /\ Moves(q)
    BY <1>4, PairAfterAttach DEF Moves
  <1>5. ~End(q)
    BY EndForgets
  <1> QED BY <1>1, <1>2, <1>3, <1>4, <1>5, StepKinds DEF Settles, IssuePair, Attached

\* Users that are live after a step that creates nobody were so before.
LEMMA LiveShrinks ==
    ASSUME UNCHANGED email, deleted \subseteq deleted'
    PROVE  Live' \subseteq Live /\ \A a : WithEmail(a)' \subseteq WithEmail(a)
  BY DEF Live, WithEmail

LEMMA StandInStep == ASSUME Typed, IdentityInv, LoneInv, [Next]_vars PROVE StandIn'
  <1>1. UsersLast
    BY StepUsersLast
  <1>2. ASSUME UNCHANGED <<email, account>> PROVE StandIn'
    <2>1. Live' \subseteq Live
      BY <1>1, <1>2, LiveShrinks DEF UsersLast
    <2> QED BY <1>1, <1>2, <2>1 DEF LoneInv, StandIn, UsersLast
  <1>3. ASSUME NEW r \in Requests, IssuePair(r) PROVE StandIn'
    <2>1. PICK u : Creates(r, u) /\ pc[r] = "pair" /\ UNCHANGED <<deleted, mixed>>
      BY <1>3, IssueCreates
    <2> SUFFICES ASSUME NEW o \in Identities \ mixed, NEW w \in Users, email'[w] = Synthetic[o],
                        w \notin deleted
                 PROVE  account'[o] = w
      BY <2>1 DEF StandIn, Live
    <2>2. Synthetic[o] # None /\ None \notin Users
      BY IdAssumption DEF Keys, Addresses
    <2>3. ASSUME email[w] = email'[w] PROVE account'[o] = w
      <3>1. account[o] = w
        BY <2>2, <2>3 DEF LoneInv, StandIn, Live
      <3>2. CASE account' = account
        BY <3>1, <3>2
      <3>3. ASSUME loc[r].id \in held[r], loc[r].id = o PROVE FALSE
        <4>1. loc[r].op = "callback"
          BY <2>1, <3>3 DEF Creates
        <4>2. account[o] = None \/ account[o] \in deleted
          BY <3>3, <4>1 DEF IdentityInv, Vacated
        <4> QED BY <2>2, <3>1, <4>2
      <3> QED BY <2>1, <3>1, <3>2, <3>3 DEF Creates, Typed, TypeOK
    <2>4. ASSUME email[w] # email'[w] PROVE account'[o] = w
      <3>1. /\ w = u /\ loc[r].user = None /\ loc[r].op \in {"register", "callback"}
            /\ loc[r].address = Synthetic[o]
        BY <2>1, <2>4 DEF Creates, Typed, TypeOK
      <3>2. loc[r].op = "callback"
        BY <3>1, SyntheticAssumption DEF LoneInv, Addressed
      <3>3. loc[r].id \in held[r]
        BY <2>1, <3>1, <3>2 DEF LoneInv, Attached
      <3>4. loc[r].id \in Identities /\ account' = [account EXCEPT ![loc[r].id] = u]
        BY <2>1, <3>3 DEF Creates
      <3>5. loc[r].id = o
        <4>1. Synthetic[o] = Synthetic[loc[r].id]
          BY <3>1, <3>2, SyntheticAssumption DEF LoneInv, Addressed
        <4> QED BY <3>4, <4>1, SyntheticAssumption
      <3> QED BY <3>1, <3>4, <3>5 DEF Typed, TypeOK
    <2> QED BY <2>3, <2>4
  <1>4. CASE UNCHANGED <<people, owner, account, flight, mixed, crowded>>
    BY <1>2, <1>4 DEF people
  <1>5. ASSUME NEW r \in Requests, BeginRequest(r) PROVE StandIn'
    BY <1>2, <1>5, BeginKeeps DEF tables, people
  <1>6. ASSUME NEW r \in Requests, Moves(r) \/ Settles(r) PROVE StandIn'
    BY <1>2, <1>6 DEF Moves, Settles, tables, people
  <1> QED BY <1>3, <1>4, <1>5, <1>6, StepKinds

LEMMA LoneStep == ASSUME Typed, IdentityInv, LoneInv, [Next]_vars PROVE LoneSignInSucceeds'
  <1> SUFFICES ASSUME NEW q \in Requests, pc'[q] = "insertUser", q \notin crowded',
                      loc'[q].id \notin mixed',
                      NEW a, a = loc'[q].address
               PROVE  WithEmail(a)' = {}
    BY DEF LoneSignInSucceeds, Taken, WithEmail, Live
  <1>1. UsersLast /\ loc'[q].id \notin mixed
    BY StepUsersLast DEF UsersLast
  <1>2. ASSUME WithEmail(a) = {}, UNCHANGED email PROVE WithEmail(a)' = {}
    BY <1>1, <1>2, LiveShrinks DEF UsersLast
  <1>3. ASSUME pc[q] = "insertUser", loc'[q] = loc[q], q \notin crowded PROVE WithEmail(a) = {}
    BY <1>1, <1>3 DEF LoneInv, LoneSignInSucceeds, Taken
  <1>4. CASE UNCHANGED <<people, owner, account, flight, mixed, crowded>>
    BY <1>2, <1>3, <1>4 DEF people, flight
  <1>5. CASE BeginRequest(q)
    <2>1. UNCHANGED email
      BY <1>5, BeginKeeps DEF tables, people
    <2>2. CASE BeginRegister(q)
      BY <1>2, <2>1, <2>2, RegisterBegins
    <2>3. CASE BeginCallback(q)
      <3>1. /\ loc'[q].id \in Identities /\ a \in Emails \cup {Synthetic[loc'[q].id]}
            /\ Own(loc'[q].id) = {} /\ a \notin Emails
        BY <2>3, CallbackBegins
      <3>2. WithEmail(a) = {}
        BY <1>1, <3>1 DEF LoneInv, StandIn, WithEmail, Own
      <3> QED BY <1>2, <2>1, <3>2
    <2>4. CASE ~BeginRegister(q) /\ ~BeginCallback(q)
      BY <1>5, <2>4, LoginBegins, RefreshBegins, LogoutBegins, RecommendBegins, FeedbackBegins,
         DeleteAssessmentBegins, DeleteAccountBegins DEF BeginRequest
    <2> QED BY <2>2, <2>3, <2>4
  <1>6. CASE Statement(q) /\ ~Commits(q) /\ Moves(q)
    BY <1>2, <1>6, InsertAfterFind DEF Moves, tables, people
  <1>7. ~End(q)
    BY EndForgets
  <1>8. ASSUME NEW r \in Requests, BeginRequest(r) \/ Statement(r) \/ Abort(r), q # r,
               BeginRequest(r) \/ Moves(r) \/ Settles(r)
        PROVE  WithEmail(a)' = {}
    <2>1. pc'[q] = pc[q] /\ loc'[q] = loc[q]
      BY <1>8, OthersStay
    <2>2. UNCHANGED email
      BY <1>8, BeginKeeps DEF Moves, Settles, tables, people
    <2>3. q \notin crowded
      BY <1>8, BeginCrowds DEF Moves, Settles, End, history
    <2> QED BY <1>2, <1>3, <2>1, <2>2, <2>3
  <1>9. ASSUME NEW r \in Requests, IssuePair(r), q # r PROVE WithEmail(a)' = {}
    <2>1. pc'[q] = pc[q] /\ loc'[q] = loc[q]
      BY <1>9, OthersStay DEF Statement
    <2>2. q \notin crowded
      BY <1>9 DEF IssuePair, End
    <2>3. PICK u : Creates(r, u)
      BY <1>9, IssueCreates
    <2>4. CASE UNCHANGED email
      BY <1>2, <1>3, <2>1, <2>2, <2>4
    <2>5. CASE loc[r].op \in {"register", "callback"}
      <3>1. Shape(pc[q], loc[q])
        BY DEF Typed, Formed
      <3>2. SigningUp(q) /\ SigningUp(r)
        BY <2>1, <2>5, <3>1 DEF Shape, SigningUp
      <3> QED BY <1>9, <2>2, <3>2 DEF LoneInv, Alone
    <2> QED BY <2>3, <2>4, <2>5 DEF Creates
  <1> QED BY <1>4, <1>5, <1>6, <1>7, <1>8, <1>9, StepKinds DEF Settles, IssuePair

LEMMA LoneInvStep == ASSUME Typed, IdentityInv, LoneInv, [Next]_vars PROVE LoneInv'
  <1>1. Alone' /\ Addressed' /\ Attached'
    BY AloneStep, AddressedStep, AttachedStep DEF LoneInv
  <1> QED BY <1>1, StandInStep, LoneStep DEF LoneInv

LEMMA InitLone == Init => LoneInv
  <1> SUFFICES ASSUME Init PROVE LoneInv
    OBVIOUS
  <1>1. \A r \in Requests : loc[r].op = "none"
    BY DEF Init, NoLoc
  <1>2. Live = {} /\ \A r \in Requests : pc[r] = "idle"
    BY DEF Init, Live
  <1> QED BY <1>1, <1>2 DEF LoneInv, Alone, Addressed, Attached, StandIn, LoneSignInSucceeds,
             SigningUp

\* A sign-up or a sign-in through a provider that overlaps no other one finds the address
\* it inserts a user under free: the synthetic address of an identity belongs to nobody
\* but the account that the identity signs in.
THEOREM LoneSignIn == Spec => []LoneSignInSucceeds
  <1>1. Init => LoneInv
    BY InitLone
  <1>2. (Typed /\ IdentityInv) /\ LoneInv /\ [Next]_vars => LoneInv'
    BY LoneInvStep
  <1>3. LoneInv => LoneSignInSucceeds
    BY DEF LoneInv
  <1> QED BY <1>1, <1>2, <1>3, IdentityAlways, PTL DEF Spec

=============================================================================
