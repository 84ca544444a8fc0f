------------------------------ MODULE Accounts ------------------------------
(***************************************************************************)
(* Accounts: users, refresh tokens, OAuth identities, stored assessments   *)
(* and the feedback on them (api/auth, api/routes/user.py, feedback.py,    *)
(* api/database/repository.py).                                            *)
(*                                                                         *)
(* Every request is one database transaction (get_db): it reads what other *)
(* requests have committed, statement by statement, locks the rows and the *)
(* unique-index entries it writes until it ends, and makes its writes      *)
(* visible in one step.  PostgreSQL runs at READ COMMITTED.  A statement   *)
(* that meets a locked row waits, then looks at the row again.             *)
(***************************************************************************)
EXTENDS Naturals, FiniteSets

CONSTANTS
    Users,       \* user ids
    Emails,      \* addresses people register with
    Tokens,      \* refresh tokens
    Identities,  \* accounts at an OAuth provider
    Synthetic,   \* Synthetic[o]: "<provider>_<id>@oauth.local", for lack of an address
    Recs,        \* stored recommendations, with their session and company
    Notes,       \* feedback rows
    Requests,    \* requests that can be in flight together
    None,        \* no such row, no address
    Guest,       \* the owner of an anonymous recommendation
    Gone,        \* a deleted recommendation or feedback: its id does not come back
    Ops,         \* the operations a run looks at
    Faults,      \* {"abort", "expire"}: a transaction may fail, a token may expire
    MaxRequests  \* bound: requests begun

Addresses == Emails \cup {Synthetic[o] : o \in Identities}
Keys == Users \cup Addresses \cup Tokens \cup Identities \cup Recs \cup Notes
Operations == {"register", "login", "refresh", "logout", "callback", "deleteAccount",
               "recommend", "feedback", "deleteAssessment"}

ASSUME IdAssumption ==
    /\ None \notin Keys /\ Guest \notin Users /\ Gone \notin Users
    /\ None \notin {Guest, Gone} /\ Guest # Gone /\ Gone \notin Recs
    /\ Users \cap (Addresses \cup Tokens \cup Identities \cup Recs \cup Notes) = {}
    /\ Tokens \cap (Addresses \cup Identities \cup Recs \cup Notes) = {}
    /\ Notes \cap (Addresses \cup Identities \cup Recs) = {}
    /\ Addresses \cap (Identities \cup Recs) = {} /\ Identities \cap Recs = {}
ASSUME SyntheticAssumption ==
    \A o \in Identities : /\ Synthetic[o] \notin Emails
                          /\ \A p \in Identities : Synthetic[o] = Synthetic[p] => o = p
ASSUME OpsAssumption == Ops \subseteq Operations
ASSUME BoundAssumption == MaxRequests \in Nat

VARIABLES
    email,      \* email[u]: the address of user u, None when there is no such row
    deleted,    \* users with a deleted_at
    password,   \* users with a password
    owner,      \* owner[t]: the user of token t, None when it was never issued
    revoked, expired,
    account,    \* account[o]: the user identity o signs in
    rec,        \* rec[x]: the owner of recommendation x
    note,       \* note[f]: the recommendation feedback f is about
    text,       \* feedback rows with a comment
    pc,         \* pc[r]: the next statement of request r
    loc,        \* loc[r]: what r was asked and has read
    held,       \* held[r]: rows and index entries r has written and not committed
    begun,
    parent,     \* history: parent[t] was exchanged for t
    contended,  \* history: tokens of which two refreshes overlapped
    mixed,      \* history: identities of which two callbacks overlapped
    crowded,    \* history: requests overlapped by another that creates users
    promised    \* history: tokens and comments of an account when its deletion began

people  == <<email, deleted, password>>
tokens  == <<owner, revoked, expired>>
assess  == <<rec, note, text>>
tables  == <<people, tokens, account, assess>>
flight  == <<pc, loc, held>>
history == <<parent, contended, mixed, crowded, promised>>
vars    == <<tables, flight, begun, history>>

-----------------------------------------------------------------------------
(* What a statement sees *)

Live == {u \in Users : email[u] # None /\ u \notin deleted}

\* get_user_by_email: deleted users do not count.
WithEmail(e) == {u \in Live : email[u] = e}

\* Mutant of Taken: there is no unique index.
NeverTaken(e) == FALSE

\* Mutant of Taken: the unique index also covers deleted users.
TakenForEver(e) == \E u \in Users : email[u] = e

\* ix_users_email_active, a unique index over the users that are not deleted.
Taken(e) == WithEmail(e) # {}

\* Mutant of Usable: the query forgets the revoked column.
UnexpiredOnly(t) == owner[t] # None /\ t \notin expired

\* RefreshTokenRepository.get_by_hash
Usable(t) == owner[t] # None /\ t \notin revoked /\ t \notin expired

\* A new uuid: ids are told apart by nothing else, so any unused one stands for it.
Fresh(S) == CHOOSE s \in S : TRUE
Unissued == {t \in Tokens : owner[t] = None}
Absent == {u \in Users : email[u] = None}
Unstored == {x \in Recs : rec[x] = None}
Unsaid == {f \in Notes : note[f] = None}
RecsOf(u) == {x \in Recs : rec[x] = u}
NotesOn(S) == {f \in Notes : note[f] \in S}

\* No other transaction has an uncommitted write on a key of K.
Free(r, K) == \A q \in Requests \ {r} : held[q] \cap K = {}

InFlight(op) == {r \in Requests : pc[r] # "idle" /\ loc[r].op = op}

-----------------------------------------------------------------------------
(* Typing *)

NoLoc == [op |-> "none", user |-> None, address |-> None, token |-> None, id |-> None,
          about |-> None, seen |-> FALSE, rows |-> {}, dead |-> {}, promise |-> {}]
Locals == [op : Operations \cup {"none"}, user : Users \cup {None, Guest},
           address : Addresses \cup {None}, token : Tokens \cup {None},
           id : Identities \cup {None}, about : Recs \cup {None}, seen : BOOLEAN,
           rows : SUBSET (Recs \cup Notes \cup Tokens), dead : SUBSET Users,
           promise : SUBSET (Notes \cup Tokens)]
Statements == {"idle", "insertUser", "byAddress", "attach", "revoke", "owner", "pair",
               "recs", "notes", "wipe", "tokens", "revokeAll", "softDelete", "erase",
               "persist", "comment", "close"}

TypeOK ==
    /\ email \in [Users -> Addresses \cup {None}]
    /\ deleted \in SUBSET Users /\ password \in SUBSET Users
    /\ owner \in [Tokens -> Users \cup {None}]
    /\ revoked \in SUBSET Tokens /\ expired \in SUBSET Tokens
    /\ account \in [Identities -> Users \cup {None}]
    /\ rec \in [Recs -> Users \cup {None, Guest, Gone}]
    /\ note \in [Notes -> Recs \cup {None, Gone}] /\ text \in SUBSET Notes
    /\ pc \in [Requests -> Statements]
    /\ loc \in [Requests -> Locals]
    /\ held \in [Requests -> SUBSET Keys]
    /\ begun \in Nat
    /\ parent \in [Tokens -> Tokens \cup {None}]
    /\ contended \in SUBSET Tokens /\ mixed \in SUBSET Identities
    /\ crowded \in SUBSET Requests /\ promised \in SUBSET (Notes \cup Tokens)

Init ==
    /\ email = [u \in Users |-> None] /\ deleted = {} /\ password = {}
    /\ owner = [t \in Tokens |-> None] /\ revoked = {} /\ expired = {}
    /\ account = [o \in Identities |-> None]
    /\ rec = [x \in Recs |-> None]
    /\ note = [f \in Notes |-> None] /\ text = {}
    /\ pc = [r \in Requests |-> "idle"]
    /\ loc = [r \in Requests |-> NoLoc]
    /\ held = [r \in Requests |-> {}]
    /\ begun = 0
    /\ parent = [t \in Tokens |-> None]
    /\ contended = {} /\ mixed = {} /\ crowded = {} /\ promised = {}

-----------------------------------------------------------------------------
(* Transactions *)

\* The request is read, and so is the first thing its handler looks up.
Begin(r, op, l, statement) ==
    /\ pc[r] = "idle" /\ op \in Ops /\ begun < MaxRequests
    /\ begun' = begun + 1
    /\ pc' = [pc EXCEPT ![r] = statement]
    /\ loc' = [loc EXCEPT ![r] = [l EXCEPT !.op = op]]
    /\ UNCHANGED <<tables, held>>

\* A statement that locks the keys K and goes on.
Lock(r, K, statement) ==
    /\ Free(r, K)
    /\ held' = [held EXCEPT ![r] = @ \cup K]
    /\ pc' = [pc EXCEPT ![r] = statement]
    /\ UNCHANGED <<tables, loc, begun, history>>

\* A statement that only reads.
Read(r, rows, statement) ==
    /\ pc' = [pc EXCEPT ![r] = statement]
    /\ loc' = [loc EXCEPT ![r].rows = rows]
    /\ UNCHANGED <<tables, held, begun, history>>

\* The transaction is over, committed or not, and its session closed.
End(r) ==
    /\ pc' = [pc EXCEPT ![r] = "idle"]
    /\ loc' = [loc EXCEPT ![r] = NoLoc]
    /\ held' = [held EXCEPT ![r] = {}]
    /\ crowded' = crowded \ {r}
    /\ UNCHANGED begun

\* Mutant of Rollback: the session of a failed request is never closed.
Leak(r) ==
    /\ pc' = [pc EXCEPT ![r] = "idle"]
    /\ loc' = [loc EXCEPT ![r] = NoLoc]
    /\ crowded' = crowded \ {r}
    /\ UNCHANGED <<tables, held, begun, parent, contended, mixed, promised>>

Rollback(r) == End(r) /\ UNCHANGED <<tables, parent, contended, mixed, promised>>

\* The connection is lost, the process dies, or PostgreSQL chooses a deadlock victim.
Abort(r) == pc[r] # "idle" /\ "abort" \in Faults /\ Rollback(r)

-----------------------------------------------------------------------------
(* Sign-up and sign-in *)

\* A request that may create a user spoils the solitude of the others of its kind.
Crowd(r) ==
    LET others == {q \in InFlight("register") \cup InFlight("callback") : q # r}
    IN  crowded' = IF others = {} THEN crowded ELSE crowded \cup others \cup {r}

BeginRegister(r) == \E e \in Emails :
    /\ WithEmail(e) = {}
    /\ Begin(r, "register", [NoLoc EXCEPT !.address = e], "insertUser")
    /\ Crowd(r)
    /\ UNCHANGED <<parent, contended, mixed, promised>>

\* An account made by a sign-in through a provider has no password to match.
BeginLogin(r) == \E u \in Live \cap password :
    /\ Begin(r, "login", [NoLoc EXCEPT !.user = u, !.dead = deleted], "pair")
    /\ UNCHANGED history

\* Mutant of Own: the address decides, whoever the identity belongs to.
NobodysOwn(o) == {}

\* The user identity o signs in, when there is one and it is not deleted.
Own(o) == {account[o]} \cap Live

\* The callback has the provider's answer, which may lack an address: get_by_provider.
BeginCallback(r) == \E o \in Identities : \E e \in Emails \cup {Synthetic[o]} :
    LET l == [NoLoc EXCEPT !.id = o, !.address = e, !.dead = deleted,
                           !.seen = account[o] # None] IN
    /\ IF Own(o) # {}
       THEN Begin(r, "callback", [l EXCEPT !.user = account[o]], "pair")
       ELSE Begin(r, "callback", l, IF e \in Emails THEN "byAddress" ELSE "insertUser")
    /\ mixed' = IF \E q \in InFlight("callback") : loc[q].id = o THEN mixed \cup {o} ELSE mixed
    /\ Crowd(r)
    /\ UNCHANGED <<parent, contended, promised>>

\* find_or_create_user falls back on the user with the address.
FindByAddress(r) ==
    /\ pc[r] = "byAddress"
    /\ IF WithEmail(loc[r].address) = {}
       THEN pc' = [pc EXCEPT ![r] = "insertUser"] /\ UNCHANGED loc
       ELSE \E u \in WithEmail(loc[r].address) :
                /\ pc' = [pc EXCEPT ![r] = "attach"]
                /\ loc' = [loc EXCEPT ![r].user = u]
    /\ UNCHANGED <<tables, held, begun, history>>

\* The unique index makes the second of two inserts wait, and then fail: 409 from
\* register, 500 from the callback.
InsertUser(r) ==
    /\ pc[r] = "insertUser"
    /\ ~Taken(loc[r].address)
    /\ Lock(r, {loc[r].address}, IF loc[r].op = "register" THEN "pair" ELSE "attach")

InsertUserFails(r) ==
    /\ pc[r] = "insertUser"
    /\ Free(r, {loc[r].address})
    /\ Taken(loc[r].address)
    /\ Rollback(r)

\* _attach updates the row it has seen or inserts one, which the unique index on
\* the identity refuses when another callback has inserted it since.
Attach(r) ==
    /\ pc[r] = "attach"
    /\ loc[r].seen \/ account[loc[r].id] = None
    /\ Lock(r, {loc[r].id}, "pair")

AttachFails(r) ==
    /\ pc[r] = "attach"
    /\ Free(r, {loc[r].id})
    /\ ~loc[r].seen /\ account[loc[r].id] # None
    /\ Rollback(r)

-----------------------------------------------------------------------------
(* Refresh tokens *)

BeginRefresh(r) == \E t \in Tokens :
    /\ Usable(t)
    /\ Begin(r, "refresh", [NoLoc EXCEPT !.token = t, !.user = owner[t], !.dead = deleted],
             "revoke")
    /\ contended' = IF \E q \in InFlight("refresh") : loc[q].token = t
                    THEN contended \cup {t} ELSE contended
    /\ UNCHANGED <<parent, mixed, crowded, promised>>

BeginLogout(r) == \E t \in Tokens :
    /\ owner[t] # None /\ t \notin revoked
    /\ Begin(r, "logout", [NoLoc EXCEPT !.token = t], "revoke")
    /\ UNCHANGED history

\* RefreshTokenRepository.revoke sets the row it has read, whatever it holds by now.
Revoke(r) ==
    /\ pc[r] = "revoke"
    /\ Lock(r, {loc[r].token}, IF loc[r].op = "refresh" THEN "owner" ELSE "close")

\* Mutant of CheckOwner: the account may be deleted.
AnyOwner(r) ==
    /\ pc[r] = "owner"
    /\ Read(r, {}, "pair")

\* "User account no longer active.": the exception rolls the revocation back.
CheckOwner(r) ==
    /\ pc[r] = "owner"
    /\ IF loc[r].user \in Live THEN Read(r, {}, "pair") ELSE Rollback(r)

\* _create_token_pair and the commit: everything the request has written appears.
IssuePair(r) ==
    /\ pc[r] = "pair"
    /\ Unissued # {} /\ (loc[r].user = None => Absent # {})
    /\ LET t == Fresh(Unissued)
           u == IF loc[r].user = None THEN Fresh(Absent) ELSE loc[r].user IN
        /\ owner' = [owner EXCEPT ![t] = u]
        /\ parent' = [parent EXCEPT ![t] = loc[r].token]
        /\ email' = IF loc[r].user = None THEN [email EXCEPT ![u] = loc[r].address] ELSE email
        /\ password' = IF loc[r].op = "register" THEN password \cup {u} ELSE password
        /\ account' = IF loc[r].id \in held[r] THEN [account EXCEPT ![loc[r].id] = u] ELSE account
    /\ revoked' = revoked \cup (held[r] \cap Tokens)
    /\ End(r)
    /\ UNCHANGED <<deleted, expired, assess, contended, mixed, promised>>

Expire(t) ==
    /\ "expire" \in Faults
    /\ owner[t] # None /\ t \notin expired
    /\ expired' = expired \cup {t}
    /\ UNCHANGED <<people, owner, revoked, account, assess, flight, begun, history>>

-----------------------------------------------------------------------------
(* Assessments and feedback *)

\* get_current_user_optional: the token of a deleted account counts as none.
BeginRecommend(r) == \E who \in Live \cup {Guest} :
    /\ Begin(r, "recommend", [NoLoc EXCEPT !.user = who], "persist")
    /\ UNCHANGED history

Persist(r) ==
    /\ pc[r] = "persist"
    /\ Unstored # {}
    /\ rec' = [rec EXCEPT ![Fresh(Unstored)] = loc[r].user]
    /\ End(r)
    /\ UNCHANGED <<people, tokens, account, note, text, parent, contended, mixed, promised>>

\* Anybody who knows the id may comment.
BeginFeedback(r) == \E x \in Recs :
    /\ rec[x] \in Users \cup {Guest}
    /\ Begin(r, "feedback", [NoLoc EXCEPT !.about = x], "comment")
    /\ UNCHANGED history

\* The foreign key waits for a deletion of the recommendation to end.
Comment(r) ==
    /\ pc[r] = "comment"
    /\ Free(r, {loc[r].about})
    /\ rec[loc[r].about] # Gone
    /\ Unsaid # {}
    /\ note' = [note EXCEPT ![Fresh(Unsaid)] = loc[r].about]
    /\ text' = text \cup {Fresh(Unsaid)}
    /\ End(r)
    /\ UNCHANGED <<people, tokens, account, rec, parent, contended, mixed, promised>>

CommentFails(r) ==
    /\ pc[r] = "comment"
    /\ Free(r, {loc[r].about})
    /\ rec[loc[r].about] = Gone
    /\ Rollback(r)

BeginDeleteAssessment(r) == \E u \in Live, x \in Recs :
    /\ rec[x] = u
    /\ Begin(r, "deleteAssessment", [NoLoc EXCEPT !.user = u, !.about = x], "erase")
    /\ UNCHANGED history

\* The session goes with its recommendation and the feedback on it.
Erase(r) ==
    /\ pc[r] = "erase"
    /\ Lock(r, {loc[r].about} \cup NotesOn({loc[r].about}), "close")

-----------------------------------------------------------------------------
(* Deleting an account *)

BeginDeleteAccount(r) == \E u \in Live :
    /\ Begin(r, "deleteAccount",
             [NoLoc EXCEPT !.user = u,
                           !.promise = {t \in Tokens : owner[t] = u}
                                       \cup (text \cap NotesOn(RecsOf(u)))], "recs")
    /\ UNCHANGED history

\* get_recommendation_ids_for_user
FindRecs(r) ==
    /\ pc[r] = "recs"
    /\ Read(r, RecsOf(loc[r].user), "notes")

\* The rows that anonymize_for_user's UPDATE sees ...
FindNotes(r) ==
    /\ pc[r] = "notes"
    /\ Read(r, NotesOn(loc[r].rows), "wipe")

\* ... and locks, leaving out what is gone by then.
Wipe(r) ==
    /\ pc[r] = "wipe"
    /\ Free(r, loc[r].rows)
    /\ Lock(r, {f \in loc[r].rows : note[f] # Gone}, "tokens")

\* Mutant of FindTokens: only one session is ended.
FindOneToken(r) ==
    /\ pc[r] = "tokens"
    /\ \E S \in SUBSET {t \in Tokens : owner[t] = loc[r].user /\ t \notin revoked} :
        Cardinality(S) <= 1 /\ Read(r, S, "revokeAll")

\* revoke_all_for_user, likewise in two steps: a token that another transaction
\* issues while the UPDATE waits for one it has locked is not seen.
FindTokens(r) ==
    /\ pc[r] = "tokens"
    /\ Read(r, {t \in Tokens : owner[t] = loc[r].user /\ t \notin revoked}, "revokeAll")

RevokeAll(r) ==
    /\ pc[r] = "revokeAll"
    /\ Free(r, loc[r].rows)
    /\ Lock(r, loc[r].rows \ revoked, "softDelete")

SoftDelete(r) ==
    /\ pc[r] = "softDelete"
    /\ Lock(r, {loc[r].user}, "close")

\* Mutant of Close: the token rows take the ids of all rows written.
CloseAll(r) ==
    /\ pc[r] = "close"
    /\ revoked' = revoked \cup held[r]
    /\ End(r)
    /\ UNCHANGED <<people, owner, expired, account, assess, parent, contended, mixed, promised>>

\* The commit of logout, delete_account and delete_assessment.
Close(r) ==
    /\ pc[r] = "close"
    /\ revoked' = revoked \cup (held[r] \cap Tokens)
    /\ deleted' = deleted \cup (held[r] \cap Users)
    /\ rec' = [x \in Recs |-> IF x \in held[r] THEN Gone ELSE rec[x]]
    /\ note' = [f \in Notes |-> IF note[f] \in held[r] THEN Gone ELSE note[f]]
    /\ text' = text \ (held[r] \cup NotesOn(held[r]))
    /\ promised' = promised \cup loc[r].promise
    /\ End(r)
    /\ UNCHANGED <<email, password, owner, expired, account, parent, contended, mixed>>

-----------------------------------------------------------------------------
BeginRequest(r) ==
    \/ BeginRegister(r) \/ BeginLogin(r) \/ BeginCallback(r) \/ BeginRefresh(r)
    \/ BeginLogout(r) \/ BeginRecommend(r) \/ BeginFeedback(r)
    \/ BeginDeleteAssessment(r) \/ BeginDeleteAccount(r)

Statement(r) ==
    \/ FindByAddress(r) \/ InsertUser(r) \/ InsertUserFails(r) \/ Attach(r) \/ AttachFails(r)
    \/ Revoke(r) \/ CheckOwner(r) \/ IssuePair(r)
    \/ Persist(r) \/ Comment(r) \/ CommentFails(r) \/ Erase(r)
    \/ FindRecs(r) \/ FindNotes(r) \/ Wipe(r) \/ FindTokens(r) \/ RevokeAll(r)
    \/ SoftDelete(r) \/ Close(r)

Next ==
    \/ \E r \in Requests : BeginRequest(r) \/ Statement(r) \/ Abort(r)
    \/ \E t \in Tokens : Expire(t)

Spec == Init /\ [][Next]_vars

\* A handler's thread runs its next statement, once PostgreSQL lets it.
FairSpec == Spec /\ \A r \in Requests : WF_vars(Statement(r))

-----------------------------------------------------------------------------
(* Properties *)

\* Registration checks and then inserts, the callback likewise: however they
\* interleave with each other and with deletions, an address has one live user.
OneLiveUserPerAddress == \A u, w \in Live : email[u] = email[w] => u = w

\* Refresh tokens rotate: a token is exchanged once and is dead afterwards, unless
\* two refreshes of it overlapped, each of which then gets a pair.
Heirs(t) == {h \in Tokens : parent[h] = t}
RotationIsAChain == \A t \in Tokens :
    /\ Heirs(t) # {} => t \in revoked
    /\ t \notin contended => Cardinality(Heirs(t)) <= 1

\* A request that begins after an account is deleted never issues a pair for it,
\* even with a refresh token that the deletion failed to see.
NoPairAfterDeletion == \A r \in Requests : pc[r] = "pair" => loc[r].user \notin loc[r].dead

\* A deletion reaches whatever was committed when it began: every token of the
\* account stays revoked and every comment on its recommendations is gone, also
\* those that other transactions were changing meanwhile.
DeletionReaches == promised \cap (text \cup (Tokens \ revoked)) = {}

\* An identity goes to another user only when its own is deleted, unless two
\* callbacks of the identity overlapped.
IdentityStays == [][\A o \in Identities \ mixed' :
    account'[o] # account[o] => account[o] = None \/ account[o] \in deleted]_vars

\* A callback that overlaps no other sign-up can create the user it needs: the
\* address in its hands, the synthetic one too, belongs to nobody.
LoneSignInSucceeds == \A r \in Requests :
    (pc[r] = "insertUser" /\ r \notin crowded /\ loc[r].id \notin mixed) => ~Taken(loc[r].address)

\* Requests wait for each other's rows, and every one gets an answer.
EveryRequestEnds == \A r \in Requests : pc[r] # "idle" ~> pc[r] = "idle"

\* user.py: "Account deleted. Your data has been anonymised per GDPR Article 17."
DeletedIsAnonymised == \A u \in deleted :
    /\ email[u] = None
    /\ \A o \in Identities : account[o] # u
    /\ \A x \in Recs : rec[x] # u
    /\ text \cap NotesOn(RecsOf(u)) = {}

=============================================================================
