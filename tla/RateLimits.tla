------------------------------ MODULE RateLimits ------------------------------
(***************************************************************************)
(* The lockout of POST /api/auth/login (api/auth/router.py) and the limit  *)
(* of POST /api/contact (api/routes/contact.py), with what the latter does *)
(* of a submission that passes.                                            *)
(*                                                                         *)
(* Both keep, for every client, a list of times in a dict of the process,  *)
(* without a lock: the handler of a request reads the clock, gets the list *)
(* from the dict, filters it into a list of its own and puts that one into *)
(* the dict, while the threads of other requests do the same.  Entries of  *)
(* different clients have nothing in common, so there is one client here.  *)
(***************************************************************************)
EXTENDS Integers, FiniteSets

CONSTANTS
    Requests,
    Kinds,     \* among "login", "contact"
    Limit,     \* Limit[k]: _LOGIN_MAX_FAILURES, _RATE_LIMIT
    Window,    \* Window[k]: _LOGIN_WINDOW_SEC, _RATE_WINDOW_SEC
    Faults,    \* among "db", "mail", "hook"
    MaxClock,  \* bound
    None

ASSUME RequestsAssumption == IsFiniteSet(Requests)
ASSUME KindsAssumption == Kinds \subseteq {"login", "contact"} /\ None \notin Kinds
ASSUME LimitAssumption == Limit \in [Kinds -> Nat] /\ Window \in [Kinds -> Nat]
ASSUME ClockAssumption == MaxClock \in Nat

VARIABLES
    clock,
    kind, pc, phase,  \* a login checks the list and, if it fails, records that
    now,       \* now[r]: the time r has read
    ref,       \* ref[r]: the list r got from the dict
    heap,      \* the lists: each request makes one per phase
    bucket,    \* bucket[k]: the list in the dict
    stamp, counted,   \* the entries of the lists, named by the request that made them
    stored, offered,  \* submissions in the database; mailed or posted to the webhook
    answer,
    crowded,   \* history: requests that were at the list at the same time as another
    forgiven,  \* history: failures before a success
    gone       \* history: the same, if nobody was at the list then

limiter == <<kind, phase, now, ref, heap, bucket, stamp, counted, crowded, forgiven, gone>>
intake  == <<stored, offered>>
vars    == <<clock, pc, limiter, intake, answer>>

-----------------------------------------------------------------------------
Phases == {"check", "record"}
Lists == Requests \X Phases
Times == 0..MaxClock
Steps == {"idle", "clock", "get", "filter", "put", "append", "verify", "clear",
          "insert", "mail", "hook", "commit", "done"}

Codes == {200, 201, 401, 429, 500}

ASSUME NoneAssumption == None \notin Lists /\ None \notin Codes

TypeOK ==
    /\ clock \in Times
    /\ kind \in [Requests -> Kinds \cup {None}]
    /\ pc \in [Requests -> Steps] /\ phase \in [Requests -> Phases]
    /\ now \in [Requests -> Times] /\ stamp \in [Requests -> Times]
    /\ ref \in [Requests -> Lists \cup {None}] /\ bucket \in [Kinds -> Lists \cup {None}]
    /\ heap \in [Lists -> SUBSET Requests]
    /\ counted \in SUBSET Requests
    /\ stored \in SUBSET Requests /\ offered \in SUBSET Requests
    /\ answer \in [Requests -> {None} \cup Codes]
    /\ crowded \in SUBSET Requests
    /\ forgiven \in SUBSET Requests /\ gone \in SUBSET forgiven

Init ==
    /\ clock = 0
    /\ kind = [r \in Requests |-> None]
    /\ pc = [r \in Requests |-> "idle"] /\ phase = [r \in Requests |-> "check"]
    /\ now = [r \in Requests |-> 0] /\ stamp = [r \in Requests |-> 0]
    /\ ref = [r \in Requests |-> None] /\ bucket = [k \in Kinds |-> None]
    /\ heap = [l \in Lists |-> {}]
    /\ counted = {} /\ stored = {} /\ offered = {}
    /\ answer = [r \in Requests |-> None]
    /\ crowded = {} /\ forgiven = {} /\ gone = {}

-----------------------------------------------------------------------------
(* The list of a client *)

Mine(r) == <<r, phase[r]>>
Held(l) == IF l = None THEN {} ELSE heap[l]
Counted(k) == {r \in counted : kind[r] = k}

\* Requests between the reading and the last use of the list.
AtList(k) == {r \in Requests : kind[r] = k /\ pc[r] \in {"filter", "put", "append"}}

Goto(r, step) == pc' = [pc EXCEPT ![r] = step]

Done(r, code) ==
    /\ Goto(r, "done")
    /\ answer' = [answer EXCEPT ![r] = code]

Begin(r) ==
    /\ pc[r] = "idle"
    /\ \E k \in Kinds : kind' = [kind EXCEPT ![r] = k]
    /\ Goto(r, "clock")
    /\ UNCHANGED <<clock, phase, now, ref, heap, bucket, stamp, counted, crowded, forgiven, gone,
                   intake, answer>>

\* Mutant of ReadClock: the time is rounded up.
ReadRounded(r) ==
    /\ pc[r] = "clock"
    /\ now' = [now EXCEPT ![r] = clock + 1]
    /\ Goto(r, "get")
    /\ UNCHANGED <<clock, kind, phase, ref, heap, bucket, stamp, counted, crowded, forgiven, gone,
                   intake, answer>>

ReadClock(r) ==
    /\ pc[r] = "clock"
    /\ now' = [now EXCEPT ![r] = clock]
    /\ Goto(r, "get")
    /\ UNCHANGED <<clock, kind, phase, ref, heap, bucket, stamp, counted, crowded, forgiven, gone,
                   intake, answer>>

Get(r) ==
    /\ pc[r] = "get"
    /\ ref' = [ref EXCEPT ![r] = bucket[kind[r]]]
    /\ crowded' = IF AtList(kind[r]) = {} THEN crowded ELSE crowded \cup AtList(kind[r]) \cup {r}
    /\ Goto(r, "filter")
    /\ UNCHANGED <<clock, kind, phase, now, heap, bucket, stamp, counted, forgiven, gone,
                   intake, answer>>

\* Mutant of Fresh: entries never expire.
Ever(r) == Held(ref[r])

Fresh(r) == {q \in Held(ref[r]) : now[r] - stamp[q] < Window[kind[r]]}

Filter(r) ==
    /\ pc[r] = "filter"
    /\ heap' = [heap EXCEPT ![Mine(r)] = Fresh(r)]
    /\ Goto(r, "put")
    /\ UNCHANGED <<clock, kind, phase, now, ref, bucket, stamp, counted, crowded, forgiven, gone,
                   intake, answer>>

Put(r) == bucket' = [bucket EXCEPT ![kind[r]] = Mine(r)]

\* Mutant of Full: one more than the limit.
OverFull(r) == Cardinality(heap[Mine(r)]) > Limit[kind[r]]

Full(r) == Cardinality(heap[Mine(r)]) >= Limit[kind[r]]

\* _login_is_locked, or _check_rate_limit of a client that has used up its requests.
Refuse(r) ==
    /\ pc[r] = "put" /\ phase[r] = "check" /\ Full(r)
    /\ Put(r)
    /\ Done(r, 429)
    /\ UNCHANGED <<clock, kind, phase, now, ref, heap, stamp, counted, crowded, forgiven, gone, intake>>

AdmitLogin(r) ==
    /\ pc[r] = "put" /\ phase[r] = "check" /\ kind[r] = "login" /\ ~Full(r)
    /\ Put(r)
    /\ Goto(r, "verify")
    /\ UNCHANGED <<clock, kind, phase, now, ref, heap, stamp, counted, crowded, forgiven, gone,
                   intake, answer>>

\* The submission is counted before anything is done with it.
AdmitContact(r) ==
    /\ pc[r] = "put" /\ kind[r] = "contact" /\ ~Full(r)
    /\ heap' = [heap EXCEPT ![Mine(r)] = @ \cup {r}]
    /\ stamp' = [stamp EXCEPT ![r] = now[r]]
    /\ counted' = counted \cup {r}
    /\ Put(r)
    /\ Goto(r, "insert")
    /\ UNCHANGED <<clock, kind, phase, now, ref, crowded, forgiven, gone, intake, answer>>

-----------------------------------------------------------------------------
(* Login *)

\* The user is unknown or the password wrong: _login_record_failure.
WrongPassword(r) ==
    /\ pc[r] = "verify"
    /\ phase' = [phase EXCEPT ![r] = "record"]
    /\ Goto(r, "clock")
    /\ UNCHANGED <<clock, kind, now, ref, heap, bucket, stamp, counted, crowded, forgiven, gone,
                   intake, answer>>

\* _login_recent_failures in _login_record_failure.
PutToRecord(r) ==
    /\ pc[r] = "put" /\ phase[r] = "record"
    /\ Put(r)
    /\ Goto(r, "append")
    /\ UNCHANGED <<clock, kind, phase, now, ref, heap, stamp, counted, crowded, forgiven, gone,
                   intake, answer>>

\* The time goes to the list that was put, wherever the dict may point by now.
Record(r) ==
    /\ pc[r] = "append"
    /\ heap' = [heap EXCEPT ![Mine(r)] = @ \cup {r}]
    /\ stamp' = [stamp EXCEPT ![r] = clock]
    /\ counted' = counted \cup {r}
    /\ Done(r, 401)
    /\ UNCHANGED <<clock, kind, phase, now, ref, bucket, crowded, forgiven, gone, intake>>

RightPassword(r) ==
    /\ pc[r] = "verify"
    /\ Goto(r, "clear")
    /\ UNCHANGED <<clock, limiter, intake, answer>>

UserQueryFails(r) ==
    /\ pc[r] = "verify" /\ "db" \in Faults
    /\ Done(r, 500)
    /\ UNCHANGED <<clock, limiter, intake>>

\* Mutant of Emptied: the list stays.
Kept(k) == bucket

Emptied(k) == [bucket EXCEPT ![k] = None]

\* _login_clear.  The pair of tokens that follows is in Accounts.
Clear(r) ==
    /\ pc[r] = "clear"
    /\ bucket' = Emptied("login")
    /\ crowded' = crowded \cup AtList("login")
    /\ forgiven' = forgiven \cup Counted("login")
    /\ gone' = IF AtList("login") = {} THEN gone \cup Counted("login") ELSE gone
    /\ Done(r, 200)
    /\ UNCHANGED <<clock, kind, phase, now, ref, heap, stamp, counted, intake>>

-----------------------------------------------------------------------------
(* Contact *)

Insert(r) ==
    /\ pc[r] = "insert"
    /\ Goto(r, "mail")
    /\ UNCHANGED <<clock, limiter, intake, answer>>

DatabaseFails(r) ==
    /\ pc[r] \in {"insert", "commit"} /\ "db" \in Faults
    /\ Done(r, 500)
    /\ UNCHANGED <<clock, limiter, intake>>

\* Not configured, or sent.
Mail(r) ==
    /\ pc[r] = "mail"
    /\ offered' \in {offered, offered \cup {r}}
    /\ Goto(r, "hook")
    /\ UNCHANGED <<clock, limiter, stored, answer>>

\* Mutant of MailFails: the exception leaves the handler.
MailRaises(r) ==
    /\ pc[r] = "mail" /\ "mail" \in Faults
    /\ Done(r, 500)
    /\ UNCHANGED <<clock, limiter, intake>>

MailFails(r) ==
    /\ pc[r] = "mail" /\ "mail" \in Faults
    /\ Goto(r, "hook")
    /\ UNCHANGED <<clock, limiter, intake, answer>>

Hook(r) ==
    /\ pc[r] = "hook"
    /\ offered' \in {offered, offered \cup {r}}
    /\ Goto(r, "commit")
    /\ UNCHANGED <<clock, limiter, stored, answer>>

HookFails(r) ==
    /\ pc[r] = "hook" /\ "hook" \in Faults
    /\ Goto(r, "commit")
    /\ UNCHANGED <<clock, limiter, intake, answer>>

Commit(r) ==
    /\ pc[r] = "commit"
    /\ stored' = stored \cup {r}
    /\ Done(r, 201)
    /\ UNCHANGED <<clock, limiter, offered>>

-----------------------------------------------------------------------------
Tick ==
    /\ clock < MaxClock
    /\ clock' = clock + 1
    /\ UNCHANGED <<pc, limiter, intake, answer>>

Step(r) ==
    \/ Begin(r) \/ ReadClock(r) \/ Get(r) \/ Filter(r)
    \/ Refuse(r) \/ AdmitLogin(r) \/ AdmitContact(r)
    \/ WrongPassword(r) \/ PutToRecord(r) \/ Record(r)
    \/ RightPassword(r) \/ UserQueryFails(r) \/ Clear(r)
    \/ Insert(r) \/ DatabaseFails(r) \/ Mail(r) \/ MailFails(r)
    \/ Hook(r) \/ HookFails(r) \/ Commit(r)

Next == Tick \/ \E r \in Requests : Step(r)

Spec == Init /\ [][Next]_vars

-----------------------------------------------------------------------------
(* Properties *)

\* Entries nothing could lose: made alone, and no success since.
Solid(k) == Counted(k) \ (crowded \cup forgiven)

Since(k, t) == {q \in Counted(k) : t - stamp[q] < Window[k]}

\* Nobody gets past the limit but by racing: whoever is admitted has found less than
\* Limit entries that were made alone within the window.
LimitHolds == [][\A r \in Requests :
    (AdmitLogin(r) \/ AdmitContact(r))
        => Cardinality(Solid(kind[r]) \cap Since(kind[r], clock)) < Limit[kind[r]]]_vars

\* Races do not lock anybody out: a refusal rests on Limit different requests of the
\* same client within the window.
RefusedForAReason == [][\A r \in Requests :
    Refuse(r) => Cardinality(Since(kind[r], now[r])) >= Limit[kind[r]]]_vars

\* A success that nobody races forgives: no later request counts an older failure.
SuccessForgives == \A r \in AtList("login") : pc[r] # "filter" => heap[Mine(r)] \cap gone = {}

\* A submission that was admitted is stored and answered 201, however its mail and its
\* webhook fare: only the database can make it fail.
SubmissionKept == [][\A r \in counted :
    kind[r] = "contact" /\ answer[r] = None /\ answer'[r] # None
        => (answer'[r] = 201 /\ r \in stored') \/ DatabaseFails(r)]_vars

=============================================================================
