--------------------------- MODULE AccountsProofs ---------------------------
(***************************************************************************)
(* Proofs about Accounts for every number of users, tokens, identities,    *)
(* recommendations and concurrent requests.                                *)
(***************************************************************************)
EXTENDS Accounts, FiniteSetTheorems, TLAPS

-----------------------------------------------------------------------------
(* Type correctness *)

\* What a request at statement s holds in its locals l: each operation has its own
\* statements and its own arguments.
Shape(s, l) ==
    \/ s = "idle" /\ l = NoLoc
    \/ /\ l.op = "register" /\ s \in {"insertUser", "pair"}
       /\ l.address \in Addresses /\ l.user = None /\ l.id = None /\ l.token = None
       /\ l.promise = {}
    \/ /\ l.op = "login" /\ s = "pair"
       /\ l.user \in Users /\ l.id = None /\ l.token = None /\ l.promise = {}
    \/ /\ l.op = "callback" /\ s \in {"byAddress", "insertUser", "attach", "pair"}
       /\ l.address \in Addresses /\ l.id \in Identities /\ l.token = None /\ l.promise = {}
       /\ l.user \in Users \cup {None} /\ (s \in {"byAddress", "insertUser"} => l.user = None)
    \/ /\ l.op = "refresh" /\ s \in {"revoke", "owner", "pair"}
       /\ l.token \in Tokens /\ l.user \in Users /\ l.id = None /\ l.promise = {}
    \/ /\ l.op = "logout" /\ s \in {"revoke", "close"}
       /\ l.token \in Tokens /\ l.promise = {}
    \/ /\ l.op = "deleteAccount" /\ l.user \in Users
       /\ s \in {"recs", "notes", "wipe", "tokens", "revokeAll", "softDelete", "close"}
    \/ l.op = "recommend" /\ s = "persist" /\ l.user \in Users \cup {Guest}
    \/ l.op = "feedback" /\ s = "comment" /\ l.about \in Recs
    \/ /\ l.op = "deleteAssessment" /\ s \in {"erase", "close"}
       /\ l.about \in Recs /\ l.promise = {}

Formed == \A r \in Requests : Shape(pc[r], loc[r])

Typed == TypeOK /\ Formed

LEMMA InitTyped == Init => Typed
  <1> SUFFICES ASSUME Init PROVE Typed
    OBVIOUS
  <1>1. NoLoc \in Locals
    BY DEF NoLoc, Locals
  <1>2. Formed
    BY DEF Formed, Shape, Init
  <1>3. TypeOK
    BY <1>1 DEF Init, TypeOK, Statements
  <1> QED BY <1>2, <1>3 DEF Typed

LEMMA NoLocType == NoLoc \in Locals
  BY DEF NoLoc, Locals

\* The tables keep their types: what the steps that leave them alone need not repeat.
TablesOK ==
    /\ email \in [Users -> Addresses \cup {None}]
    /\ deleted \in SUBSET Users /\ password \in SUBSET Users
    /\ owner \in [Tokens -> Users \cup {None}]
    /\ revoked \in SUBSET Tokens /\ expired \in SUBSET Tokens
    /\ account \in [Identities -> Users \cup {None}]
    /\ rec \in [Recs -> Users \cup {None, Guest, Gone}]
    /\ note \in [Notes -> Recs \cup {None, Gone}] /\ text \in SUBSET Notes

HistoryOK ==
    /\ parent \in [Tokens -> Tokens \cup {None}]
    /\ contended \in SUBSET Tokens /\ mixed \in SUBSET Identities
    /\ crowded \in SUBSET Requests /\ promised \in SUBSET (Notes \cup Tokens)

FlightOK ==
    /\ pc \in [Requests -> Statements]
    /\ loc \in [Requests -> Locals]
    /\ held \in [Requests -> SUBSET Keys]
    /\ begun \in Nat

LEMMA TypeParts == TypeOK <=> TablesOK /\ HistoryOK /\ FlightOK
  BY DEF TypeOK, TablesOK, HistoryOK, FlightOK

\* A request that begins with well-formed locals is well formed.
LEMMA BeginTyped ==
    ASSUME Typed, NEW r \in Requests, NEW op \in Operations, NEW l \in Locals,
           NEW s \in Statements, Begin(r, op, l, s), Shape(s, [l EXCEPT !.op = op]),
           HistoryOK'
    PROVE  Typed'
  <1>1. [l EXCEPT !.op = op] \in Locals
    BY DEF Locals
  <1>2. FlightOK'
    BY <1>1 DEF Begin, Typed, TypeOK, FlightOK
  <1>3. TablesOK'
    BY DEF Begin, Typed, TypeOK, TablesOK, tables, people, tokens, assess
  <1>4. Formed'
    <2> SUFFICES ASSUME NEW q \in Requests PROVE Shape(pc'[q], loc'[q])
      BY DEF Formed
    <2>1. CASE q = r
      BY <2>1 DEF Begin, Typed, TypeOK
    <2>2. CASE q # r
      <3>1. pc'[q] = pc[q] /\ loc'[q] = loc[q]
        BY <2>2 DEF Begin, Typed, TypeOK
      <3> QED BY <3>1 DEF Typed, Formed
    <2> QED BY <2>1, <2>2
  <1> QED BY <1>2, <1>3, <1>4, TypeParts DEF Typed, TypeOK, TablesOK, HistoryOK, FlightOK

\* So is one that takes a lock and goes on ...
LEMMA LockTyped ==
    ASSUME Typed, NEW r \in Requests, NEW K \in SUBSET Keys, NEW s \in Statements,
           Lock(r, K, s), Shape(s, loc[r])
    PROVE  Typed'
  <1>1. FlightOK'
    BY DEF Lock, Typed, TypeOK, FlightOK
  <1>2. TablesOK' /\ HistoryOK'
    BY DEF Lock, Typed, TypeOK, TablesOK, HistoryOK, tables, people, tokens, assess, history
  <1>3. Formed'
    <2> SUFFICES ASSUME NEW q \in Requests PROVE Shape(pc'[q], loc'[q])
      BY DEF Formed
    <2>1. CASE q = r
      BY <2>1 DEF Lock, Typed, TypeOK
    <2>2. CASE q # r
      BY <2>2 DEF Lock, Typed, TypeOK, Formed
    <2> QED BY <2>1, <2>2
  <1> QED BY <1>1, <1>2, <1>3 DEF Typed, TypeOK, TablesOK, HistoryOK, FlightOK

\* ... one that reads ...
LEMMA ReadTyped ==
    ASSUME Typed, NEW r \in Requests, NEW S \in SUBSET (Recs \cup Notes \cup Tokens),
           NEW s \in Statements, Read(r, S, s), Shape(s, [loc[r] EXCEPT !.rows = S])
    PROVE  Typed'
  <1>1. [loc[r] EXCEPT !.rows = S] \in Locals
    <2>1. loc[r] \in Locals
      BY DEF Typed, TypeOK
    <2> QED BY <2>1 DEF Locals
  <1>2. FlightOK'
    BY <1>1 DEF Read, Typed, TypeOK, FlightOK
  <1>3. TablesOK' /\ HistoryOK'
    BY DEF Read, Typed, TypeOK, TablesOK, HistoryOK, tables, people, tokens, assess, history
  <1>4. Formed'
    <2> SUFFICES ASSUME NEW q \in Requests PROVE Shape(pc'[q], loc'[q])
      BY DEF Formed
    <2>1. CASE q = r
      BY <2>1 DEF Read, Typed, TypeOK
    <2>2. CASE q # r
      <3>1. pc'[q] = pc[q] /\ loc'[q] = loc[q]
        BY <2>2 DEF Read, Typed, TypeOK
      <3> QED BY <3>1 DEF Typed, Formed
    <2> QED BY <2>1, <2>2
  <1> QED BY <1>2, <1>3, <1>4 DEF Typed, TypeOK, TablesOK, HistoryOK, FlightOK

\* ... and one that ends and leaves well-typed tables behind.
LEMMA EndTyped ==
    ASSUME Typed, NEW r \in Requests, End(r), TablesOK',
           parent' \in [Tokens -> Tokens \cup {None}],
           contended' \in SUBSET Tokens, mixed' \in SUBSET Identities,
           promised' \in SUBSET (Notes \cup Tokens)
    PROVE  Typed'
  <1>1. FlightOK'
    BY NoLocType DEF End, Typed, TypeOK, FlightOK, Statements
  <1>2. HistoryOK'
    BY DEF End, Typed, TypeOK, HistoryOK
  <1>3. Formed'
    <2> SUFFICES ASSUME NEW q \in Requests PROVE Shape(pc'[q], loc'[q])
      BY DEF Formed
    <2>1. CASE q = r
      BY <2>1 DEF End, Typed, TypeOK, Shape
    <2>2. CASE q # r
      <3>1. pc'[q] = pc[q] /\ loc'[q] = loc[q]
        BY <2>2 DEF End, Typed, TypeOK
      <3> QED BY <3>1 DEF Typed, Formed
    <2> QED BY <2>1, <2>2
  <1> QED BY <1>1, <1>2, <1>3 DEF Typed, TypeOK, TablesOK, HistoryOK, FlightOK

LEMMA RollbackTyped == ASSUME Typed, NEW r \in Requests, Rollback(r) PROVE Typed'
  <1>1. TablesOK'
    BY DEF Rollback, Typed, TypeOK, TablesOK, tables, people, tokens, assess
  <1> QED BY <1>1, EndTyped DEF Rollback, Typed, TypeOK

\* The begin of every request.
LEMMA BeginRequestTyped == ASSUME Typed, NEW r \in Requests, BeginRequest(r) PROVE Typed'
  <1>1. CASE BeginRegister(r)
    <2>1. PICK e \in Emails : Begin(r, "register", [NoLoc EXCEPT !.address = e], "insertUser")
      BY <1>1 DEF BeginRegister
    <2>2. [NoLoc EXCEPT !.address = e] \in Locals
      BY DEF NoLoc, Locals, Addresses
    <2>3. Shape("insertUser", [[NoLoc EXCEPT !.address = e] EXCEPT !.op = "register"])
      BY DEF Shape, NoLoc, Addresses
    <2>4. HistoryOK'
      BY <1>1 DEF BeginRegister, Crowd, Typed, TypeOK, HistoryOK, InFlight
    <2> QED BY <2>1, <2>2, <2>3, <2>4, BeginTyped DEF Operations, Statements
  <1>2. CASE BeginLogin(r)
    <2>1. PICK u \in Live \cap password :
            Begin(r, "login", [NoLoc EXCEPT !.user = u, !.dead = deleted], "pair")
      BY <1>2 DEF BeginLogin
    <2>2. u \in Users
      BY DEF Live
    <2>3. [NoLoc EXCEPT !.user = u, !.dead = deleted] \in Locals
      BY <2>2 DEF NoLoc, Locals, Typed, TypeOK
    <2>4. Shape("pair", [[NoLoc EXCEPT !.user = u, !.dead = deleted] EXCEPT !.op = "login"])
      BY <2>2 DEF Shape, NoLoc
    <2>5. HistoryOK'
      BY <1>2 DEF BeginLogin, history, Typed, TypeOK, HistoryOK
    <2> QED BY <2>1, <2>3, <2>4, <2>5, BeginTyped DEF Operations, Statements
  <1>3. CASE BeginCallback(r)
    <2>1. HistoryOK'
      BY <1>3 DEF BeginCallback, Crowd, Typed, TypeOK, HistoryOK, InFlight
    <2>2. PICK o \in Identities, e \in Addresses :
            LET l == [NoLoc EXCEPT !.id = o, !.address = e, !.dead = deleted,
                                   !.seen = account[o] # None]
            IN  IF Own(o) # {}
                THEN Begin(r, "callback", [l EXCEPT !.user = account[o]], "pair")
                ELSE Begin(r, "callback", l, IF e \in Emails THEN "byAddress" ELSE "insertUser")
      BY <1>3 DEF BeginCallback, Addresses
    <2> DEFINE l == [NoLoc EXCEPT !.id = o, !.address = e, !.dead = deleted,
                                  !.seen = account[o] # None]
               s == IF e \in Emails THEN "byAddress" ELSE "insertUser"
    <2>3. l \in Locals
      <3>1. (account[o] # None) \in BOOLEAN
        OBVIOUS
      <3> QED BY <3>1 DEF NoLoc, Locals, Typed, TypeOK
    <2>4. CASE Own(o) # {}
      <3>1. account[o] \in Users
        BY <2>4 DEF Own, Live
      <3>2. [l EXCEPT !.user = account[o]] \in Locals
        BY <2>3, <3>1 DEF Locals
      <3>3. Shape("pair", [[l EXCEPT !.user = account[o]] EXCEPT !.op = "callback"])
        BY <3>1 DEF Shape, NoLoc
      <3> QED BY <2>1, <2>2, <2>4, <3>2, <3>3, BeginTyped DEF Operations, Statements
    <2>5. CASE Own(o) = {}
      <3>1. Shape(s, [l EXCEPT !.op = "callback"])
        BY DEF Shape, NoLoc
      <3> HIDE DEF l
      <3> QED BY <2>1, <2>2, <2>3, <2>5, <3>1, BeginTyped DEF Operations, Statements, l
    <2> QED BY <2>4, <2>5
  <1>4. CASE BeginRefresh(r)
    <2>1. PICK t \in Tokens :
            /\ Usable(t)
            /\ Begin(r, "refresh", [NoLoc EXCEPT !.token = t, !.user = owner[t],
                                                 !.dead = deleted], "revoke")
      BY <1>4 DEF BeginRefresh
    <2>2. owner[t] \in Users
      BY <2>1 DEF Usable, Typed, TypeOK
    <2>3. [NoLoc EXCEPT !.token = t, !.user = owner[t], !.dead = deleted] \in Locals
      BY <2>2 DEF NoLoc, Locals, Typed, TypeOK
    <2>4. Shape("revoke", [[NoLoc EXCEPT !.token = t, !.user = owner[t], !.dead = deleted]
                            EXCEPT !.op = "refresh"])
      BY <2>2 DEF Shape, NoLoc
    <2>5. HistoryOK'
      BY <1>4 DEF BeginRefresh, Typed, TypeOK, HistoryOK
    <2> QED BY <2>1, <2>3, <2>4, <2>5, BeginTyped DEF Operations, Statements
  <1>5. CASE BeginLogout(r)
    <2>1. PICK t \in Tokens : Begin(r, "logout", [NoLoc EXCEPT !.token = t], "revoke")
      BY <1>5 DEF BeginLogout
    <2>2. [NoLoc EXCEPT !.token = t] \in Locals
      BY DEF NoLoc, Locals
    <2>3. Shape("revoke", [[NoLoc EXCEPT !.token = t] EXCEPT !.op = "logout"])
      BY DEF Shape, NoLoc
    <2>4. HistoryOK'
      BY <1>5 DEF BeginLogout, history, Typed, TypeOK, HistoryOK
    <2> QED BY <2>1, <2>2, <2>3, <2>4, BeginTyped DEF Operations, Statements
  <1>6. CASE BeginRecommend(r)
    <2>1. PICK who \in Live \cup {Guest} :
            Begin(r, "recommend", [NoLoc EXCEPT !.user = who], "persist")
      BY <1>6 DEF BeginRecommend
    <2>2. who \in Users \cup {Guest}
      BY DEF Live
    <2>3. [NoLoc EXCEPT !.user = who] \in Locals
      BY <2>2 DEF NoLoc, Locals
    <2>4. Shape("persist", [[NoLoc EXCEPT !.user = who] EXCEPT !.op = "recommend"])
      BY <2>2 DEF Shape, NoLoc
    <2>5. HistoryOK'
      BY <1>6 DEF BeginRecommend, history, Typed, TypeOK, HistoryOK
    <2> QED BY <2>1, <2>3, <2>4, <2>5, BeginTyped DEF Operations, Statements
  <1>7. CASE BeginFeedback(r)
    <2>1. PICK x \in Recs : Begin(r, "feedback", [NoLoc EXCEPT !.about = x], "comment")
      BY <1>7 DEF BeginFeedback
    <2>2. [NoLoc EXCEPT !.about = x] \in Locals
      BY DEF NoLoc, Locals
    <2>3. Shape("comment", [[NoLoc EXCEPT !.about = x] EXCEPT !.op = "feedback"])
      BY DEF Shape, NoLoc
    <2>4. HistoryOK'
      BY <1>7 DEF BeginFeedback, history, Typed, TypeOK, HistoryOK
    <2> QED BY <2>1, <2>2, <2>3, <2>4, BeginTyped DEF Operations, Statements
  <1>8. CASE BeginDeleteAssessment(r)
    <2>1. PICK u \in Live, x \in Recs :
            Begin(r, "deleteAssessment", [NoLoc EXCEPT !.user = u, !.about = x], "erase")
      BY <1>8 DEF BeginDeleteAssessment
    <2>2. [NoLoc EXCEPT !.user = u, !.about = x] \in Locals
      BY DEF NoLoc, Locals, Live
    <2>3. Shape("erase", [[NoLoc EXCEPT !.user = u, !.about = x] EXCEPT !.op = "deleteAssessment"])
      BY DEF Shape, NoLoc
    <2>4. HistoryOK'
      BY <1>8 DEF BeginDeleteAssessment, history, Typed, TypeOK, HistoryOK
    <2> QED BY <2>1, <2>2, <2>3, <2>4, BeginTyped DEF Operations, Statements
  <1>9. CASE BeginDeleteAccount(r)
    <2> DEFINE P(u) == {t \in Tokens : owner[t] = u} \cup (text \cap NotesOn(RecsOf(u)))
    <2>1. PICK u \in Live :
            Begin(r, "deleteAccount", [NoLoc EXCEPT !.user = u, !.promise = P(u)], "recs")
      BY <1>9 DEF BeginDeleteAccount
    <2>2. P(u) \in SUBSET (Notes \cup Tokens)
      BY DEF Typed, TypeOK
    <2> HIDE DEF P
    <2>3. [NoLoc EXCEPT !.user = u, !.promise = P(u)] \in Locals
      BY <2>2 DEF NoLoc, Locals, Live
    <2>4. Shape("recs", [[NoLoc EXCEPT !.user = u, !.promise = P(u)]
                          EXCEPT !.op = "deleteAccount"])
      BY DEF Shape, NoLoc, Live
    <2>5. HistoryOK'
      BY <1>9 DEF BeginDeleteAccount, history, Typed, TypeOK, HistoryOK
    <2> QED BY <2>1, <2>3, <2>4, <2>5, BeginTyped DEF Operations, Statements
  <1> QED BY <1>1, <1>2, <1>3, <1>4, <1>5, <1>6, <1>7, <1>8, <1>9 DEF BeginRequest

\* Every later statement.
LEMMA StatementTyped == ASSUME Typed, NEW r \in Requests, Statement(r) PROVE Typed'
  <1> USE DEF Typed
  <1>a. Shape(pc[r], loc[r]) /\ loc[r] \in Locals
    BY DEF Formed, TypeOK
  <1>1. CASE FindByAddress(r)
    <2>1. pc[r] = "byAddress" /\ TablesOK' /\ HistoryOK'
      BY <1>1 DEF FindByAddress, TypeOK, TablesOK, HistoryOK, tables, people, tokens, assess,
                  history
    <2>2. /\ pc' \in [Requests -> Statements] /\ loc' \in [Requests -> Locals]
          /\ \A q \in Requests \ {r} : pc'[q] = pc[q] /\ loc'[q] = loc[q]
          /\ Shape(pc'[r], loc'[r])
      <3>1. CASE WithEmail(loc[r].address) = {}
        <4>1. pc' = [pc EXCEPT ![r] = "insertUser"] /\ loc' = loc
          BY <1>1, <3>1 DEF FindByAddress
        <4>2. Shape("insertUser", loc[r])
          BY <1>a, <2>1 DEF Shape
        <4> QED BY <4>1, <4>2 DEF TypeOK, Statements
      <3>2. CASE WithEmail(loc[r].address) # {}
        <4>1. PICK u \in WithEmail(loc[r].address) : /\ pc' = [pc EXCEPT ![r] = "attach"]
                                                     /\ loc' = [loc EXCEPT ![r].user = u]
          BY <1>1, <3>2 DEF FindByAddress
        <4>2. u \in Users
          BY DEF WithEmail, Live
        <4>3. [loc[r] EXCEPT !.user = u] \in Locals
          BY <1>a, <4>2 DEF Locals
        <4>4. Shape("attach", [loc[r] EXCEPT !.user = u])
          BY <1>a, <2>1, <4>2 DEF Shape, Locals
        <4> QED BY <4>1, <4>3, <4>4 DEF TypeOK, Statements
      <3> QED BY <3>1, <3>2
    <2>3. FlightOK'
      BY <1>1, <2>2 DEF FindByAddress, TypeOK, FlightOK
    <2>4. Formed'
      BY <2>2 DEF Formed
    <2> QED BY <2>1, <2>3, <2>4 DEF TypeOK, TablesOK, HistoryOK, FlightOK
  <1>2. CASE InsertUser(r)
    <2> DEFINE s == IF loc[r].op = "register" THEN "pair" ELSE "attach"
    <2>1. pc[r] = "insertUser" /\ Lock(r, {loc[r].address}, s)
      BY <1>2 DEF InsertUser
    <2>2. {loc[r].address} \in SUBSET Keys
      BY <1>a, <2>1 DEF Shape, Keys
    <2>3. Shape(s, loc[r])
      BY <1>a, <2>1 DEF Shape
    <2> QED BY <2>1, <2>2, <2>3, LockTyped DEF Statements
  <1>3. CASE InsertUserFails(r) \/ AttachFails(r) \/ CommentFails(r)
    BY <1>3, RollbackTyped DEF InsertUserFails, AttachFails, CommentFails
  <1>4. CASE Attach(r)
    <2>1. pc[r] = "attach" /\ Lock(r, {loc[r].id}, "pair")
      BY <1>4 DEF Attach
    <2>2. {loc[r].id} \in SUBSET Keys
      BY <1>a, <2>1 DEF Shape, Keys
    <2>3. Shape("pair", loc[r])
      BY <1>a, <2>1 DEF Shape
    <2> QED BY <2>1, <2>2, <2>3, LockTyped DEF Statements
  <1>5. CASE Revoke(r)
    <2> DEFINE s == IF loc[r].op = "refresh" THEN "owner" ELSE "close"
    <2>1. pc[r] = "revoke" /\ Lock(r, {loc[r].token}, s)
      BY <1>5 DEF Revoke
    <2>2. {loc[r].token} \in SUBSET Keys
      BY <1>a, <2>1 DEF Shape, Keys
    <2>3. Shape(s, loc[r])
      BY <1>a, <2>1 DEF Shape
    <2> QED BY <2>1, <2>2, <2>3, LockTyped DEF Statements
  <1>6. CASE CheckOwner(r)
    <2>1. pc[r] = "owner" /\ (Read(r, {}, "pair") \/ Rollback(r))
      BY <1>6 DEF CheckOwner
    <2>2. Shape("pair", [loc[r] EXCEPT !.rows = {}])
      BY <1>a, <2>1 DEF Shape, Locals
    <2> QED BY <2>1, <2>2, ReadTyped, RollbackTyped DEF Statements
  <1>7. CASE IssuePair(r)
    <2> DEFINE t == Fresh(Unissued)
               u == IF loc[r].user = None THEN Fresh(Absent) ELSE loc[r].user
    <2>1. /\ pc[r] = "pair" /\ Unissued # {} /\ (loc[r].user = None => Absent # {})
          /\ owner' = [owner EXCEPT ![t] = u]
          /\ parent' = [parent EXCEPT ![t] = loc[r].token]
          /\ email' = IF loc[r].user = None THEN [email EXCEPT ![u] = loc[r].address] ELSE email
          /\ password' = IF loc[r].op = "register" THEN password \cup {u} ELSE password
          /\ account' = IF loc[r].id \in held[r] THEN [account EXCEPT ![loc[r].id] = u]
                        ELSE account
          /\ revoked' = revoked \cup (held[r] \cap Tokens)
          /\ End(r)
          /\ UNCHANGED <<deleted, expired, assess, contended, mixed, promised>>
      BY <1>7 DEF IssuePair
    <2>2. t \in Tokens
      BY <2>1 DEF Fresh, Unissued
    <2>3. u \in Users
      <3>1. loc[r].user \in Users \cup {None}
        BY <1>a, <2>1 DEF Shape
      <3>2. CASE loc[r].user = None
        BY <2>1, <3>2 DEF Fresh, Absent
      <3>3. CASE loc[r].user # None
        BY <3>1, <3>3
      <3> QED BY <3>2, <3>3
    <2>4. /\ loc[r].user = None => loc[r].address \in Addresses
          /\ loc[r].token \in Tokens \cup {None}
          /\ loc[r].id \in Identities \cup {None}
      <3>1. loc[r].token \in Tokens \cup {None} /\ loc[r].id \in Identities \cup {None}
        BY <1>a DEF Locals
      <3>2. None \notin Users
        BY IdAssumption DEF Keys
      <3>3. loc[r].user = None => loc[r].address \in Addresses
        BY <1>a, <2>1, <3>2 DEF Shape
      <3> QED BY <3>1, <3>3
    <2> HIDE DEF t, u
    <2>5. TablesOK'
      BY <2>1, <2>2, <2>3, <2>4, IdAssumption DEF TablesOK, TypeOK, assess
    <2>6. parent' \in [Tokens -> Tokens \cup {None}]
      BY <2>1, <2>2, <2>4 DEF TypeOK
    <2> QED BY <2>1, <2>5, <2>6, EndTyped DEF TypeOK
  <1>8. CASE Persist(r)
    <2>1. /\ pc[r] = "persist" /\ Unstored # {} /\ End(r)
          /\ rec' = [rec EXCEPT ![Fresh(Unstored)] = loc[r].user]
          /\ UNCHANGED <<people, tokens, account, note, text, parent, contended, mixed, promised>>
      BY <1>8 DEF Persist
    <2>2. Fresh(Unstored) \in Recs /\ loc[r].user \in Users \cup {Guest}
      BY <1>a, <2>1 DEF Fresh, Unstored, Shape
    <2>3. TablesOK'
      BY <2>1, <2>2 DEF TablesOK, TypeOK, people, tokens
    <2> QED BY <2>1, <2>3, EndTyped DEF TypeOK
  <1>9. CASE Comment(r)
    <2>1. /\ pc[r] = "comment" /\ Unsaid # {} /\ End(r)
          /\ note' = [note EXCEPT ![Fresh(Unsaid)] = loc[r].about]
          /\ text' = text \cup {Fresh(Unsaid)}
          /\ UNCHANGED <<people, tokens, account, rec, parent, contended, mixed, promised>>
      BY <1>9 DEF Comment
    <2>2. Fresh(Unsaid) \in Notes /\ loc[r].about \in Recs
      BY <1>a, <2>1 DEF Fresh, Unsaid, Shape
    <2>3. TablesOK'
      BY <2>1, <2>2 DEF TablesOK, TypeOK, people, tokens
    <2> QED BY <2>1, <2>3, EndTyped DEF TypeOK
  <1>10. CASE Erase(r)
    <2>1. pc[r] = "erase" /\ Lock(r, {loc[r].about} \cup NotesOn({loc[r].about}), "close")
      BY <1>10 DEF Erase
    <2>2. {loc[r].about} \cup NotesOn({loc[r].about}) \in SUBSET Keys
      BY <1>a, <2>1 DEF Shape, Keys, NotesOn
    <2>3. Shape("close", loc[r])
      BY <1>a, <2>1 DEF Shape
    <2> QED BY <2>1, <2>2, <2>3, LockTyped DEF Statements
  <1>11. CASE FindRecs(r)
    <2>1. pc[r] = "recs" /\ Read(r, RecsOf(loc[r].user), "notes")
      BY <1>11 DEF FindRecs
    <2>2. RecsOf(loc[r].user) \in SUBSET (Recs \cup Notes \cup Tokens)
      BY DEF RecsOf
    <2>3. Shape("notes", [loc[r] EXCEPT !.rows = RecsOf(loc[r].user)])
      BY <1>a, <2>1 DEF Shape, Locals
    <2> QED BY <2>1, <2>2, <2>3, ReadTyped DEF Statements
  <1>12. CASE FindNotes(r)
    <2>1. pc[r] = "notes" /\ Read(r, NotesOn(loc[r].rows), "wipe")
      BY <1>12 DEF FindNotes
    <2>2. NotesOn(loc[r].rows) \in SUBSET (Recs \cup Notes \cup Tokens)
      BY DEF NotesOn
    <2>3. Shape("wipe", [loc[r] EXCEPT !.rows = NotesOn(loc[r].rows)])
      BY <1>a, <2>1 DEF Shape, Locals
    <2> QED BY <2>1, <2>2, <2>3, ReadTyped DEF Statements
  <1>13. CASE Wipe(r)
    <2>1. pc[r] = "wipe" /\ Lock(r, {f \in loc[r].rows : note[f] # Gone}, "tokens")
      BY <1>13 DEF Wipe
    <2>2. {f \in loc[r].rows : note[f] # Gone} \in SUBSET Keys
      BY <1>a DEF Locals, Keys
    <2>3. Shape("tokens", loc[r])
      BY <1>a, <2>1 DEF Shape
    <2> QED BY <2>1, <2>2, <2>3, LockTyped DEF Statements
  <1>14. CASE FindTokens(r)
    <2> DEFINE S == {t \in Tokens : owner[t] = loc[r].user /\ t \notin revoked}
    <2>1. pc[r] = "tokens" /\ Read(r, S, "revokeAll")
      BY <1>14 DEF FindTokens
    <2>2. S \in SUBSET (Recs \cup Notes \cup Tokens)
      OBVIOUS
    <2> HIDE DEF S
    <2>3. Shape("revokeAll", [loc[r] EXCEPT !.rows = S])
      BY <1>a, <2>1 DEF Shape, Locals
    <2> QED BY <2>1, <2>2, <2>3, ReadTyped DEF Statements
  <1>15. CASE RevokeAll(r)
    <2>1. pc[r] = "revokeAll" /\ Lock(r, loc[r].rows \ revoked, "softDelete")
      BY <1>15 DEF RevokeAll
    <2>2. loc[r].rows \ revoked \in SUBSET Keys
      BY <1>a DEF Locals, Keys
    <2>3. Shape("softDelete", loc[r])
      BY <1>a, <2>1 DEF Shape
    <2> QED BY <2>1, <2>2, <2>3, LockTyped DEF Statements
  <1>16. CASE SoftDelete(r)
    <2>1. pc[r] = "softDelete" /\ Lock(r, {loc[r].user}, "close")
      BY <1>16 DEF SoftDelete
    <2>2. {loc[r].user} \in SUBSET Keys
      BY <1>a, <2>1 DEF Shape, Keys
    <2>3. Shape("close", loc[r])
      BY <1>a, <2>1 DEF Shape
    <2> QED BY <2>1, <2>2, <2>3, LockTyped DEF Statements
  <1>17. CASE Close(r)
    <2>1. TablesOK'
      BY <1>17 DEF Close, TablesOK, TypeOK
    <2>2. promised' \in SUBSET (Notes \cup Tokens)
      BY <1>a, <1>17 DEF Close, TypeOK, Locals
    <2> QED BY <1>17, <2>1, <2>2, EndTyped DEF Close, TypeOK
  <1> QED BY <1>1, <1>2, <1>3, <1>4, <1>5, <1>6, <1>7, <1>8, <1>9, <1>10, <1>11, <1>12, <1>13,
             <1>14, <1>15, <1>16, <1>17 DEF Statement

LEMMA ExpireTyped == ASSUME Typed, NEW t \in Tokens, Expire(t) PROVE Typed'
  BY DEF Typed, TypeOK, Formed, Expire, people, assess, flight, history

LEMMA StutterTyped == ASSUME Typed, UNCHANGED vars PROVE Typed'
  BY DEF Typed, TypeOK, Formed, vars, tables, people, tokens, assess, flight, history

LEMMA StepTyped == ASSUME Typed, [Next]_vars PROVE Typed'
  BY BeginRequestTyped, StatementTyped, RollbackTyped, ExpireTyped, StutterTyped
  DEF Next, Abort

\* However requests interleave, fail and wait, the tables, the requests in flight
\* and what they hold stay well formed.
THEOREM Typing == Spec => []TypeOK
  <1>1. Typed => TypeOK
    BY DEF Typed
  <1> QED BY InitTyped, StepTyped, <1>1, PTL DEF Spec

-----------------------------------------------------------------------------
(* Locks and live users *)

\* No two transactions hold the same key ...
Exclusive == \A r, q \in Requests : r # q => held[r] \cap held[q] = {}

\* ... the holder of an address has made sure that no live user has it ...
Vacant == \A r \in Requests : \A a \in held[r] \cap Addresses : WithEmail(a) = {}

\* ... and who is about to create a user holds the address.
Creating == \A r \in Requests :
    (pc[r] \in {"attach", "pair"} /\ loc[r].user = None) => loc[r].address \in held[r]

\* The user a pair is meant for was not deleted when the request began.
Undead == \A r \in Requests :
    /\ loc[r].dead \subseteq deleted
    /\ pc[r] \in {"attach", "pair"} => loc[r].user \notin loc[r].dead

LiveInv == Exclusive /\ Vacant /\ Creating /\ Undead /\ OneLiveUserPerAddress

\* A step of one request leaves the others where they are.
LEMMA OthersStay ==
    ASSUME Typed, NEW r \in Requests, BeginRequest(r) \/ Statement(r) \/ Abort(r),
           NEW q \in Requests, q # r
    PROVE  pc'[q] = pc[q] /\ loc'[q] = loc[q] /\ held'[q] = held[q]
  <1> USE DEF Typed, TypeOK
  <1>1. ASSUME End(r) PROVE pc'[q] = pc[q] /\ loc'[q] = loc[q] /\ held'[q] = held[q]
    BY <1>1 DEF End
  <1>2. ASSUME NEW K, NEW s, Lock(r, K, s)
        PROVE  pc'[q] = pc[q] /\ loc'[q] = loc[q] /\ held'[q] = held[q]
    BY <1>2 DEF Lock
  <1>3. ASSUME NEW S, NEW s, Read(r, S, s)
        PROVE  pc'[q] = pc[q] /\ loc'[q] = loc[q] /\ held'[q] = held[q]
    BY <1>3 DEF Read
  <1>4. ASSUME NEW op, NEW l, NEW s, Begin(r, op, l, s)
        PROVE  pc'[q] = pc[q] /\ loc'[q] = loc[q] /\ held'[q] = held[q]
    BY <1>4 DEF Begin
  <1>5. CASE BeginRequest(r)
    BY <1>4, <1>5 DEF BeginRequest, BeginRegister, BeginLogin, BeginCallback, BeginRefresh,
       BeginLogout, BeginRecommend, BeginFeedback, BeginDeleteAssessment, BeginDeleteAccount
  <1>6. CASE Abort(r)
    BY <1>1, <1>6 DEF Abort, Rollback
  <1>7. CASE Statement(r)
    <2>1. CASE FindByAddress(r)
      BY <2>1 DEF FindByAddress
    <2>2. CASE InsertUser(r) \/ Attach(r) \/ Revoke(r) \/ Erase(r) \/ Wipe(r) \/ RevokeAll(r)
               \/ SoftDelete(r)
      BY <1>2, <2>2 DEF InsertUser, Attach, Revoke, Erase, Wipe, RevokeAll, SoftDelete
    <2>3. CASE FindRecs(r) \/ FindNotes(r) \/ FindTokens(r)
      BY <1>3, <2>3 DEF FindRecs, FindNotes, FindTokens
    <2>4. CASE CheckOwner(r)
      BY <1>1, <1>3, <2>4 DEF CheckOwner, Rollback
    <2>5. CASE \/ InsertUserFails(r) \/ AttachFails(r) \/ CommentFails(r)
               \/ Persist(r) \/ Comment(r) \/ Close(r)
      BY <1>1, <2>5 DEF InsertUserFails, AttachFails, CommentFails, Rollback, Persist, Comment,
         Close
    <2>6. CASE IssuePair(r)
      BY <1>1, <2>6 DEF IssuePair
    <2> QED BY <1>7, <2>1, <2>2, <2>3, <2>4, <2>5, <2>6 DEF Statement
  <1> QED BY <1>5, <1>6, <1>7

\* What a request knows when its first step is over.
LEMMA BeginOne ==
    ASSUME Typed, NEW r \in Requests, NEW op, NEW l \in Locals, NEW s, Begin(r, op, l, s)
    PROVE  /\ email' = email /\ deleted' = deleted /\ held' = held
           /\ pc'[r] = s /\ loc'[r].user = l.user /\ loc'[r].dead = l.dead
  BY DEF Begin, Typed, TypeOK, Locals, tables, people

\* A request that can go on to sign somebody in has found a user that is not deleted.
LEMMA BeginFacts ==
    ASSUME Typed, NEW r \in Requests, BeginRequest(r)
    PROVE  /\ email' = email /\ deleted' = deleted /\ held' = held
           /\ pc'[r] # "attach"
           /\ pc'[r] = "pair" => loc'[r].user \in Users \ deleted
           /\ loc'[r].dead \subseteq deleted
  <1>1. PICK op \in Operations, l \in Locals, s \in Statements :
            /\ Begin(r, op, l, s)
            /\ s # "attach" /\ l.dead \subseteq deleted
            /\ s = "pair" => l.user \in Users \ deleted
    <2>1. CASE BeginRegister(r)
      <3>1. PICK e \in Emails : Begin(r, "register", [NoLoc EXCEPT !.address = e], "insertUser")
        BY <2>1 DEF BeginRegister
      <3>2. [NoLoc EXCEPT !.address = e] \in Locals /\ [NoLoc EXCEPT !.address = e].dead = {}
        BY DEF NoLoc, Locals, Addresses
      <3> QED BY <3>1, <3>2 DEF Operations, Statements
    <2>2. CASE BeginLogin(r)
      <3>1. PICK u \in Live \cap password :
              Begin(r, "login", [NoLoc EXCEPT !.user = u, !.dead = deleted], "pair")
        BY <2>2 DEF BeginLogin
      <3> DEFINE l == [NoLoc EXCEPT !.user = u, !.dead = deleted]
      <3>2. u \in Users \ deleted
        BY DEF Live
      <3>3. l \in Locals /\ l.dead = deleted /\ l.user = u
        BY <3>2 DEF NoLoc, Locals, Typed, TypeOK
      <3> HIDE DEF l
      <3>4. Begin(r, "login", l, "pair")
        BY <3>1 DEF l
      <3> QED BY <3>2, <3>3, <3>4 DEF Operations, Statements
    <2>3. CASE BeginCallback(r)
      <3>1. PICK o \in Identities, e \in Addresses :
              LET l == [NoLoc EXCEPT !.id = o, !.address = e, !.dead = deleted,
                                     !.seen = account[o] # None]
              IN  IF Own(o) # {}
                  THEN Begin(r, "callback", [l EXCEPT !.user = account[o]], "pair")
                  ELSE Begin(r, "callback", l, IF e \in Emails THEN "byAddress" ELSE "insertUser")
        BY <2>3 DEF BeginCallback, Addresses
      <3> DEFINE l == [NoLoc EXCEPT !.id = o, !.address = e, !.dead = deleted,
                                    !.seen = account[o] # None]
                 m == [l EXCEPT !.user = account[o]]
                 s == IF e \in Emails THEN "byAddress" ELSE "insertUser"
      <3>2. l \in Locals /\ l.dead = deleted
        <4>1. (account[o] # None) \in BOOLEAN
          OBVIOUS
        <4> QED BY <4>1 DEF NoLoc, Locals, Typed, TypeOK
      <3>3. CASE Own(o) # {}
        <4>1. account[o] \in Users \ deleted
          BY <3>3 DEF Own, Live
        <4>2. m \in Locals /\ m.dead = deleted /\ m.user = account[o]
          <5> HIDE DEF l
          <5> QED BY <3>2, <4>1 DEF Locals
        <4>3. Begin(r, "callback", m, "pair")
          BY <3>1, <3>3
        <4> HIDE DEF m
        <4> QED BY <4>1, <4>2, <4>3 DEF Operations, Statements
      <3>4. CASE Own(o) = {}
        <4>1. Begin(r, "callback", l, s)
          BY <3>1, <3>4
        <4> HIDE DEF l
        <4> QED BY <3>2, <4>1 DEF Operations, Statements
      <3> QED BY <3>3, <3>4
    <2>4. CASE BeginRefresh(r)
      <3>1. PICK t \in Tokens :
              /\ Usable(t)
              /\ Begin(r, "refresh", [NoLoc EXCEPT !.token = t, !.user = owner[t],
                                                   !.dead = deleted], "revoke")
        BY <2>4 DEF BeginRefresh
      <3> DEFINE l == [NoLoc EXCEPT !.token = t, !.user = owner[t], !.dead = deleted]
      <3>2. l \in Locals /\ l.dead = deleted
        BY DEF NoLoc, Locals, Typed, TypeOK
      <3> HIDE DEF l
      <3>3. Begin(r, "refresh", l, "revoke")
        BY <3>1 DEF l
      <3> QED BY <3>2, <3>3 DEF Operations, Statements
    <2>5. CASE BeginLogout(r)
      <3>1. PICK t \in Tokens : Begin(r, "logout", [NoLoc EXCEPT !.token = t], "revoke")
        BY <2>5 DEF BeginLogout
      <3>2. [NoLoc EXCEPT !.token = t] \in Locals /\ [NoLoc EXCEPT !.token = t].dead = {}
        BY DEF NoLoc, Locals
      <3> QED BY <3>1, <3>2 DEF Operations, Statements
    <2>6. CASE BeginRecommend(r)
      <3>1. PICK who \in Live \cup {Guest} :
              Begin(r, "recommend", [NoLoc EXCEPT !.user = who], "persist")
        BY <2>6 DEF BeginRecommend
      <3>2. [NoLoc EXCEPT !.user = who] \in Locals /\ [NoLoc EXCEPT !.user = who].dead = {}
        BY DEF NoLoc, Locals, Live
      <3> QED BY <3>1, <3>2 DEF Operations, Statements
    <2>7. CASE BeginFeedback(r)
      <3>1. PICK x \in Recs : Begin(r, "feedback", [NoLoc EXCEPT !.about = x], "comment")
        BY <2>7 DEF BeginFeedback
      <3>2. [NoLoc EXCEPT !.about = x] \in Locals /\ [NoLoc EXCEPT !.about = x].dead = {}
        BY DEF NoLoc, Locals
      <3> QED BY <3>1, <3>2 DEF Operations, Statements
    <2>8. CASE BeginDeleteAssessment(r)
      <3>1. PICK u \in Live, x \in Recs :
              Begin(r, "deleteAssessment", [NoLoc EXCEPT !.user = u, !.about = x], "erase")
        BY <2>8 DEF BeginDeleteAssessment
      <3>2. /\ [NoLoc EXCEPT !.user = u, !.about = x] \in Locals
            /\ [NoLoc EXCEPT !.user = u, !.about = x].dead = {}
        BY DEF NoLoc, Locals, Live
      <3> QED BY <3>1, <3>2 DEF Operations, Statements
    <2>9. CASE BeginDeleteAccount(r)
      <3> DEFINE P(u) == {t \in Tokens : owner[t] = u} \cup (text \cap NotesOn(RecsOf(u)))
      <3>1. PICK u \in Live :
              Begin(r, "deleteAccount", [NoLoc EXCEPT !.user = u, !.promise = P(u)], "recs")
        BY <2>9 DEF BeginDeleteAccount
      <3>2. P(u) \in SUBSET (Notes \cup Tokens)
        BY DEF Typed, TypeOK
      <3> HIDE DEF P
      <3>3. /\ [NoLoc EXCEPT !.user = u, !.promise = P(u)] \in Locals
            /\ [NoLoc EXCEPT !.user = u, !.promise = P(u)].dead = {}
        BY <3>2 DEF NoLoc, Locals, Live
      <3> QED BY <3>1, <3>3 DEF Operations, Statements
    <2> QED BY <2>1, <2>2, <2>3, <2>4, <2>5, <2>6, <2>7, <2>8, <2>9 DEF BeginRequest
  <1> QED BY <1>1, BeginOne

\* Steps that take no address and create nobody keep the invariant: one that begins ...
LEMMA BeginLive == ASSUME Typed, LiveInv, NEW r \in Requests, BeginRequest(r) PROVE LiveInv'
  <1>1. /\ UNCHANGED <<email, deleted, held>>
        /\ pc'[r] # "attach" /\ (pc'[r] = "pair" => loc'[r].user \in Users \ deleted)
        /\ loc'[r].dead \subseteq deleted
    BY BeginFacts
  <1>2. \A q \in Requests \ {r} : pc'[q] = pc[q] /\ loc'[q] = loc[q]
    BY OthersStay
  <1>3. None \notin Users
    BY IdAssumption DEF Keys
  <1>4. Exclusive' /\ Vacant' /\ OneLiveUserPerAddress'
    BY <1>1 DEF LiveInv, Exclusive, Vacant, OneLiveUserPerAddress, WithEmail, Live
  <1>5. Creating' /\ Undead'
    BY <1>1, <1>2, <1>3 DEF LiveInv, Creating, Undead
  <1> QED BY <1>4, <1>5 DEF LiveInv

\* ... one that ends without a new address or one less deleted user ...
LEMMA EndLive == ASSUME Typed, LiveInv, NEW r \in Requests, End(r), UNCHANGED email,
                        deleted \subseteq deleted'
                 PROVE  LiveInv'
  <1> USE DEF Typed, TypeOK
  <1>1. /\ held'[r] = {} /\ pc'[r] = "idle" /\ loc'[r] = NoLoc
        /\ \A q \in Requests \ {r} : held'[q] = held[q] /\ pc'[q] = pc[q] /\ loc'[q] = loc[q]
    BY DEF End
  <1>2. Exclusive'
    BY <1>1 DEF LiveInv, Exclusive
  <1>3. \A a \in Addresses : WithEmail(a)' \subseteq WithEmail(a)
    BY DEF WithEmail, Live
  <1>4. Vacant'
    BY <1>1, <1>3 DEF LiveInv, Vacant
  <1>5. Creating' /\ Undead'
    BY <1>1 DEF LiveInv, Creating, Undead, NoLoc
  <1>6. OneLiveUserPerAddress'
    BY DEF LiveInv, OneLiveUserPerAddress, Live
  <1> QED BY <1>2, <1>4, <1>5, <1>6 DEF LiveInv

\* ... one that reads ...
LEMMA ReadLive == ASSUME Typed, LiveInv, NEW r \in Requests, NEW S, NEW s, Read(r, S, s),
                         s \in {"pair", "attach"} => loc[r].user \in Users \ deleted
                  PROVE  LiveInv'
  <1> USE DEF Typed, TypeOK
  <1>1. /\ UNCHANGED <<email, deleted, held>> /\ pc'[r] = s /\ loc'[r].user = loc[r].user
        /\ loc'[r].dead = loc[r].dead
        /\ \A q \in Requests \ {r} : pc'[q] = pc[q] /\ loc'[q] = loc[q]
    BY DEF Read, tables, people, Locals
  <1>2. None \notin Users
    BY IdAssumption DEF Keys
  <1>3. Exclusive' /\ Vacant' /\ OneLiveUserPerAddress'
    BY <1>1 DEF LiveInv, Exclusive, Vacant, OneLiveUserPerAddress, WithEmail, Live
  <1>4. Creating' /\ Undead'
    BY <1>1, <1>2 DEF LiveInv, Creating, Undead
  <1> QED BY <1>3, <1>4 DEF LiveInv

\* ... and one that locks other keys.
LEMMA LockLive == ASSUME Typed, LiveInv, NEW r \in Requests, NEW K, NEW s, Lock(r, K, s),
                         K \cap Addresses = {}, s # "attach", s = "pair" => pc[r] = "attach"
                  PROVE  LiveInv'
  <1> USE DEF Typed, TypeOK
  <1>1. /\ UNCHANGED <<email, deleted, loc>> /\ pc'[r] = s
        /\ Free(r, K) /\ held'[r] = held[r] \cup K
        /\ \A q \in Requests \ {r} : pc'[q] = pc[q] /\ held'[q] = held[q]
    BY DEF Lock, tables, people
  <1>2. Exclusive'
    BY <1>1 DEF LiveInv, Exclusive, Free
  <1>3. Vacant' /\ OneLiveUserPerAddress'
    BY <1>1 DEF LiveInv, Vacant, OneLiveUserPerAddress, WithEmail, Live
  <1>4. Creating' /\ Undead'
    BY <1>1 DEF LiveInv, Creating, Undead
  <1> QED BY <1>2, <1>3, <1>4 DEF LiveInv

\* A user is created under an address that the request holds, so no other request
\* does and no live user has it.
LEMMA IssueLive == ASSUME Typed, LiveInv, NEW r \in Requests, IssuePair(r) PROVE LiveInv'
  <1> USE DEF Typed, TypeOK
  <1>1. /\ pc[r] = "pair" /\ End(r) /\ deleted' = deleted
        /\ loc[r].user = None => Absent # {}
        /\ email' = IF loc[r].user = None
                    THEN [email EXCEPT ![Fresh(Absent)] = loc[r].address] ELSE email
    BY DEF IssuePair
  <1>2. CASE loc[r].user # None
    BY <1>1, <1>2, EndLive
  <1>3. CASE loc[r].user = None
    <2> DEFINE u == Fresh(Absent)
               a == loc[r].address
    <2>1. u \in Users /\ email[u] = None
      BY <1>1, <1>3 DEF Fresh, Absent
    <2> HIDE DEF u
    <2>2. /\ email' = [email EXCEPT ![u] = a] /\ a \in held[r]
          /\ a \in Addresses
      <3>1. Shape(pc[r], loc[r])
        BY DEF Formed
      <3>2. loc[r].op \in {"register", "callback"} /\ a \in Addresses
        BY <1>1, <1>3, <3>1, IdAssumption DEF Shape, Keys
      <3> QED BY <1>1, <1>3, <3>2 DEF LiveInv, Creating, u
    <2>3. WithEmail(a) = {}
      BY <2>2 DEF LiveInv, Vacant
    <2>4. \A w \in Users \ {u} : email'[w] = email[w]
      BY <2>2
    <2>5. Live' \subseteq Live \cup {u}
      BY <1>1, <2>4 DEF Live
    <2>6. \A b \in Addresses \ {a} : WithEmail(b)' \subseteq WithEmail(b)
      BY <2>1, <2>2, <2>4, <2>5 DEF WithEmail
    <2>7. /\ held'[r] = {} /\ pc'[r] = "idle" /\ loc'[r] = NoLoc
          /\ \A q \in Requests \ {r} : held'[q] = held[q] /\ pc'[q] = pc[q] /\ loc'[q] = loc[q]
      BY <1>1 DEF End
    <2>8. Exclusive'
      BY <2>7 DEF LiveInv, Exclusive
    <2>9. Vacant'
      <3> SUFFICES ASSUME NEW q \in Requests, NEW b \in held'[q] \cap Addresses
                   PROVE  WithEmail(b)' = {}
        BY DEF Vacant
      <3>1. q # r /\ b \in held[q]
        BY <2>7
      <3>2. b # a
        BY <2>2, <3>1 DEF LiveInv, Exclusive
      <3>3. WithEmail(b) = {}
        BY <3>1 DEF LiveInv, Vacant
      <3> QED BY <2>6, <3>2, <3>3
    <2>10. Creating' /\ Undead'
      BY <1>1, <2>7 DEF LiveInv, Creating, Undead, NoLoc
    <2>11. OneLiveUserPerAddress'
      <3> SUFFICES ASSUME NEW v \in Live', NEW w \in Live', email'[v] = email'[w]
                   PROVE  v = w
        BY DEF OneLiveUserPerAddress
      <3>1. \A x \in Live : email[x] # a
        BY <2>3 DEF WithEmail
      <3>2. \A x \in Live' : x \in Users
        BY DEF Live
      <3>3. email'[u] = a
        BY <2>1, <2>2
      <3>4. \A x \in Live' : x # u => x \in Live /\ email'[x] = email[x]
        BY <2>4, <2>5, <3>2
      <3>5. CASE v # u /\ w # u
        BY <3>4, <3>5 DEF LiveInv, OneLiveUserPerAddress
      <3>6. CASE v = u \/ w = u
        BY <3>1, <3>3, <3>4, <3>6
      <3> QED BY <3>5, <3>6
    <2> QED BY <2>8, <2>9, <2>10, <2>11 DEF LiveInv
  <1> QED BY <1>2, <1>3

\* An address is locked only while no live user has it.
LEMMA InsertLive == ASSUME Typed, LiveInv, NEW r \in Requests, InsertUser(r) PROVE LiveInv'
  <1> USE DEF Typed, TypeOK
  <1> DEFINE a == loc[r].address
  <1>1. /\ pc[r] = "insertUser" /\ WithEmail(a) = {} /\ Free(r, {a})
        /\ UNCHANGED <<email, deleted, loc>>
        /\ held'[r] = held[r] \cup {a}
        /\ \A q \in Requests \ {r} : pc'[q] = pc[q] /\ held'[q] = held[q]
    BY DEF InsertUser, Taken, Lock, tables, people
  <1>2. loc[r].user = None /\ loc[r].user \notin loc[r].dead
    <2>1. Shape(pc[r], loc[r]) /\ loc[r] \in Locals
      BY DEF Formed
    <2>2. loc[r].user = None
      BY <1>1, <2>1 DEF Shape
    <2> QED BY <2>1, <2>2, IdAssumption DEF Locals, Keys
  <1>3. Exclusive'
    BY <1>1 DEF LiveInv, Exclusive, Free
  <1>4. Vacant' /\ OneLiveUserPerAddress'
    BY <1>1 DEF LiveInv, Vacant, OneLiveUserPerAddress, WithEmail, Live
  <1>5. Creating'
    BY <1>1 DEF LiveInv, Creating
  <1>6. Undead'
    BY <1>1, <1>2 DEF LiveInv, Undead
  <1> QED BY <1>3, <1>4, <1>5, <1>6 DEF LiveInv

\* The callback joins the identity to a user it has found live.
LEMMA FindLive == ASSUME Typed, LiveInv, NEW r \in Requests, FindByAddress(r) PROVE LiveInv'
  <1> USE DEF Typed, TypeOK
  <1>1. /\ UNCHANGED <<email, deleted, held>>
        /\ \A q \in Requests \ {r} : pc'[q] = pc[q] /\ loc'[q] = loc[q]
    BY DEF FindByAddress, tables, people
  <1>2. loc'[r].dead = loc[r].dead
        /\ (pc'[r] \in {"attach", "pair"} => loc'[r].user \in Users \ deleted)
    <2>1. CASE WithEmail(loc[r].address) = {}
      BY <2>1 DEF FindByAddress
    <2>2. CASE WithEmail(loc[r].address) # {}
      <3>1. PICK u \in WithEmail(loc[r].address) : /\ pc' = [pc EXCEPT ![r] = "attach"]
                                                   /\ loc' = [loc EXCEPT ![r].user = u]
        BY <2>2 DEF FindByAddress
      <3>2. u \in Users \ deleted
        BY DEF WithEmail, Live
      <3>3. loc[r] \in Locals
        OBVIOUS
      <3>4. loc'[r].user = u /\ loc'[r].dead = loc[r].dead
        BY <3>1, <3>3 DEF Locals
      <3> QED BY <3>2, <3>4
    <2> QED BY <2>1, <2>2
  <1>3. None \notin Users
    BY IdAssumption DEF Keys
  <1>4. Exclusive' /\ Vacant' /\ OneLiveUserPerAddress'
    BY <1>1 DEF LiveInv, Exclusive, Vacant, OneLiveUserPerAddress, WithEmail, Live
  <1>5. Creating' /\ Undead'
    BY <1>1, <1>2, <1>3 DEF LiveInv, Creating, Undead
  <1> QED BY <1>4, <1>5 DEF LiveInv

LEMMA StatementLive == ASSUME Typed, LiveInv, NEW r \in Requests, Statement(r) PROVE LiveInv'
  <1>a. Shape(pc[r], loc[r]) /\ loc[r] \in Locals
    BY DEF Typed, Formed, TypeOK
  <1>b. Addresses \cap (Identities \cup Tokens \cup Recs \cup Notes \cup Users) = {}
    BY IdAssumption
  <1>1. CASE FindByAddress(r)
    BY <1>1, FindLive
  <1>2. CASE InsertUser(r)
    BY <1>2, InsertLive
  <1>3. CASE InsertUserFails(r) \/ AttachFails(r) \/ CommentFails(r) \/ Persist(r) \/ Comment(r)
    BY <1>3, EndLive DEF InsertUserFails, AttachFails, CommentFails, Rollback, Persist, Comment,
       tables, people
  <1>4. CASE Attach(r)
    <2>1. pc[r] = "attach" /\ Lock(r, {loc[r].id}, "pair")
      BY <1>4 DEF Attach
    <2>2. {loc[r].id} \cap Addresses = {}
      BY <1>a, <1>b, <2>1 DEF Shape
    <2> QED BY <2>1, <2>2, LockLive
  <1>5. CASE Revoke(r)
    <2>1. pc[r] = "revoke" /\ Lock(r, {loc[r].token},
                                   IF loc[r].op = "refresh" THEN "owner" ELSE "close")
      BY <1>5 DEF Revoke
    <2>2. {loc[r].token} \cap Addresses = {}
      BY <1>a, <1>b, <2>1 DEF Shape
    <2>3. (IF loc[r].op = "refresh" THEN "owner" ELSE "close") \notin {"attach", "pair"}
      OBVIOUS
    <2> QED BY <2>1, <2>2, <2>3, LockLive
  <1>6. CASE CheckOwner(r)
    <2>1. CASE loc[r].user \in Live
      BY <1>6, <2>1, ReadLive DEF CheckOwner, Live
    <2>2. CASE loc[r].user \notin Live
      BY <1>6, <2>2, EndLive DEF CheckOwner, Rollback, tables, people
    <2> QED BY <2>1, <2>2
  <1>7. CASE IssuePair(r)
    BY <1>7, IssueLive
  <1>8. CASE Erase(r)
    <2>1. pc[r] = "erase" /\ Lock(r, {loc[r].about} \cup NotesOn({loc[r].about}), "close")
      BY <1>8 DEF Erase
    <2>2. ({loc[r].about} \cup NotesOn({loc[r].about})) \cap Addresses = {}
      BY <1>a, <1>b, <2>1 DEF Shape, NotesOn
    <2> QED BY <2>1, <2>2, LockLive
  <1>9. CASE FindRecs(r) \/ FindNotes(r) \/ FindTokens(r)
    BY <1>9, ReadLive DEF FindRecs, FindNotes, FindTokens
  <1>10. CASE Wipe(r)
    <2>1. Lock(r, {f \in loc[r].rows : note[f] # Gone}, "tokens")
      BY <1>10 DEF Wipe
    <2>2. {f \in loc[r].rows : note[f] # Gone} \cap Addresses = {}
      BY <1>a, <1>b DEF Locals
    <2> QED BY <2>1, <2>2, LockLive
  <1>11. CASE RevokeAll(r)
    <2>1. Lock(r, loc[r].rows \ revoked, "softDelete")
      BY <1>11 DEF RevokeAll
    <2>2. (loc[r].rows \ revoked) \cap Addresses = {}
      BY <1>a, <1>b DEF Locals
    <2> QED BY <2>1, <2>2, LockLive
  <1>12. CASE SoftDelete(r)
    <2>1. pc[r] = "softDelete" /\ Lock(r, {loc[r].user}, "close")
      BY <1>12 DEF SoftDelete
    <2>2. {loc[r].user} \cap Addresses = {}
      BY <1>a, <1>b, <2>1 DEF Shape
    <2> QED BY <2>1, <2>2, LockLive
  <1>13. CASE Close(r)
    BY <1>13, EndLive DEF Close
  <1> QED BY <1>1, <1>2, <1>3, <1>4, <1>5, <1>6, <1>7, <1>8, <1>9, <1>10, <1>11, <1>12, <1>13
      DEF Statement

LEMMA LiveStep == ASSUME Typed, LiveInv, [Next]_vars PROVE LiveInv'
  <1>1. CASE UNCHANGED vars
    BY <1>1 DEF vars, tables, people, flight, LiveInv, Exclusive, Vacant, Creating, Undead,
       OneLiveUserPerAddress, WithEmail, Live
  <1>2. ASSUME NEW t \in Tokens, Expire(t) PROVE LiveInv'
    BY <1>2 DEF Expire, people, flight, LiveInv, Exclusive, Vacant, Creating, Undead,
       OneLiveUserPerAddress, WithEmail, Live
  <1>3. ASSUME NEW r \in Requests, Abort(r) PROVE LiveInv'
    BY <1>3, EndLive DEF Abort, Rollback, tables, people
  <1> QED BY <1>1, <1>2, <1>3, BeginLive, StatementLive DEF Next

LEMMA InitLive == Init => LiveInv
  BY IdAssumption DEF Init, LiveInv, Exclusive, Vacant, Creating, Undead, OneLiveUserPerAddress,
     Live, NoLoc, Keys

LEMMA LiveAlways == Spec => [](Typed /\ LiveInv)
  <1>1. Init => Typed /\ LiveInv
    BY InitTyped, InitLive
  <1>2. Typed /\ LiveInv /\ [Next]_vars => (Typed /\ LiveInv)'
    BY StepTyped, LiveStep
  <1> QED BY <1>1, <1>2, PTL DEF Spec

\* Whatever the interleaving of registrations, callbacks and deletions, two live
\* users never share an address.
THEOREM AddressIsUnique == Spec => []OneLiveUserPerAddress
  <1>1. LiveInv => OneLiveUserPerAddress
    BY DEF LiveInv
  <1> QED BY LiveAlways, <1>1, PTL

\* No request that began after the deletion of an account signs it in again.
THEOREM DeletedStaysOut == Spec => []NoPairAfterDeletion
  <1>1. LiveInv => NoPairAfterDeletion
    BY DEF LiveInv, Undead, NoPairAfterDeletion
  <1> QED BY LiveAlways, <1>1, PTL
=============================================================================
