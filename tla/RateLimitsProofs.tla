--------------------------- MODULE RateLimitsProofs ---------------------------
(***************************************************************************)
(* Proofs about RateLimits for any number of requests, limits and windows. *)
(***************************************************************************)
EXTENDS RateLimits, FiniteSetTheorems, TLAPS

-----------------------------------------------------------------------------
(* The invariant *)

\* Requests are at steps of their kind; an entry is made once, by a request that has
\* passed.
Staged == \A r \in Requests :
    /\ kind[r] = None <=> pc[r] = "idle"
    /\ answer[r] = None <=> pc[r] # "done"
    /\ pc[r] \in {"verify", "clear", "append"} \/ phase[r] = "record" => kind[r] = "login"
    /\ pc[r] \in {"idle", "verify"} => phase[r] = "check"
    /\ pc[r] \in {"insert", "mail", "hook", "commit"} => kind[r] = "contact"
    /\ r \in counted => pc[r] \in {"insert", "mail", "hook", "commit", "done"}
    /\ now[r] <= clock /\ stamp[r] <= clock

KindOf(l) == kind[l[1]]

\* A list holds entries of its kind only, and is reached under its kind only.
Listed ==
    /\ \A l \in Lists : \A q \in heap[l] : q \in counted /\ kind[q] = KindOf(l)
    /\ \A k \in Kinds : bucket[k] # None => KindOf(bucket[k]) = k
    /\ \A r \in Requests : pc[r] = "filter" /\ ref[r] # None => KindOf(ref[r]) = kind[r]

Unused(l) == (\A k \in Kinds : bucket[k] # l) /\ (\A r \in Requests : ref[r] # l)

\* A list is its request's own until it is put.
Private == \A r \in Requests :
    /\ pc[r] \in {"idle", "clock", "get", "filter", "put"} => Unused(Mine(r))
    /\ phase[r] = "check" => Unused(<<r, "record">>)

\* What has been filtered lies within the window.
Reason == \A r \in Requests : pc[r] = "put" => heap[Mine(r)] \subseteq Since(kind[r], now[r])

AtSteps == {"filter", "put", "append"}

Alone == \A p, r \in Requests :
    p # r /\ kind[p] = kind[r] /\ pc[p] \in AtSteps /\ pc[r] \in AtSteps => p \in crowded

\* A request that appends, and was alone, appends to the list in the dict.
Latest == \A r \in Requests : pc[r] = "append" /\ r \notin crowded => bucket[kind[r]] = Mine(r)

\* What a request at the list sees of it.
View(r) == IF pc[r] = "filter" THEN Held(ref[r]) ELSE heap[Mine(r)]

Recent(k) == Solid(k) \cap Since(k, clock)

\* Solid entries are in the list of the dict, and in those about to replace it.
Whole ==
    /\ \A k \in Kinds : Recent(k) \subseteq Held(bucket[k])
    /\ \A r \in Requests : pc[r] \in AtSteps => Recent(kind[r]) \subseteq View(r)

\* Entries that are gone are in none of them.
Clean ==
    /\ forgiven \subseteq Counted("login")
    /\ \A k \in Kinds : gone \cap Held(bucket[k]) = {}
    /\ \A r \in Requests : pc[r] \in AtSteps => gone \cap View(r) = {}

IInv == TypeOK /\ Staged /\ Listed /\ Private /\ Reason /\ Alone /\ Latest /\ Whole /\ Clean
LEMMA InitInv == Init => IInv
  <1> SUFFICES ASSUME Init PROVE IInv
    OBVIOUS
  <1>1. TypeOK
    BY ClockAssumption DEF Init, TypeOK, Lists, Phases, Times, Steps
  <1>2. Staged
    BY DEF Init, Staged
  <1>3. Listed
    BY DEF Init, Listed
  <1>6. Private
    BY NoneAssumption DEF Init, Private, Unused, Mine, Lists, Phases
  <1>4. Reason /\ Alone /\ Latest
    BY DEF Init, Reason, Alone, Latest, AtSteps
  <1>5. Whole /\ Clean
    BY DEF Init, Whole, Clean, Recent, Solid, Counted, AtSteps
  <1> QED BY <1>1, <1>2, <1>3, <1>4, <1>5, <1>6 DEF IInv

LEMMA Types ==
    ASSUME TypeOK, NEW r \in Requests
    PROVE  /\ Mine(r) \in Lists /\ Mine(r)[1] = r
           /\ clock \in Int /\ now[r] \in Int /\ stamp[r] \in Int
  BY ClockAssumption DEF TypeOK, Mine, Lists, Times

-----------------------------------------------------------------------------
(* Steps *)

\* A request goes on without touching a list.
LEMMA QuietInv ==
    ASSUME IInv, NEW r \in Requests, pc[r] \notin AtSteps,
           NEW s \in Steps \ AtSteps, pc' = [pc EXCEPT ![r] = s],
           UNCHANGED <<clock, kind, ref, heap, bucket, stamp, counted, crowded, forgiven, gone>>,
           \A q \in Requests \ {r} : now'[q] = now[q] /\ phase'[q] = phase[q],
           TypeOK', Staged', Private'
    PROVE  IInv'
  <1> USE DEF IInv
  <1>a. \A q \in Requests : pc'[q] \in AtSteps => q # r
    BY DEF TypeOK
  <1>b. \A q \in Requests : q # r => pc'[q] = pc[q] /\ Mine(q)' = Mine(q) /\ View(q)' = View(q)
    BY DEF TypeOK, Mine, View, Held
  <1>1. Listed'
    BY <1>a, <1>b DEF Listed, KindOf, AtSteps
  <1>2. Reason'
    BY <1>a, <1>b DEF Reason, AtSteps, Since, Counted
  <1>3. Alone' /\ Latest'
    BY <1>a, <1>b DEF Alone, Latest, AtSteps
  <1>4. \A k : Recent(k)' = Recent(k) /\ Counted(k)' = Counted(k)
    BY DEF Recent, Solid, Since, Counted
  <1>5. Whole' /\ Clean'
    BY <1>a, <1>b, <1>4 DEF Whole, Clean, Held
  <1> QED BY <1>1, <1>2, <1>3, <1>5

LEMMA BeginInv == ASSUME IInv, NEW r \in Requests, Begin(r) PROVE IInv'
  <1> USE DEF IInv, TypeOK
  <1>1. PICK k \in Kinds : kind' = [kind EXCEPT ![r] = k]
    BY DEF Begin
  <1>2. /\ pc[r] = "idle" /\ kind[r] = None /\ k # None /\ pc' = [pc EXCEPT ![r] = "clock"]
        /\ UNCHANGED <<clock, phase, now, ref, heap, bucket, stamp, counted, crowded, forgiven, gone,
                       stored, offered, answer>>
    BY KindsAssumption DEF Begin, Goto, intake, Staged
  <1>3. TypeOK'
    BY <1>1, <1>2 DEF Steps
  <1>4. Staged'
    BY <1>1, <1>2 DEF Staged
  <1>a. \A q \in Requests : q # r => /\ pc'[q] = pc[q] /\ kind'[q] = kind[q]
                                     /\ Mine(q)' = Mine(q) /\ View(q)' = View(q)
    BY <1>1, <1>2 DEF Mine, View, Held
  <1>b. \A q \in Requests : pc'[q] \in AtSteps \/ q \in counted => q # r
    BY <1>2 DEF Staged, AtSteps
  <1>d. Private'
    BY <1>2 DEF Private, Unused, Mine
  <1>5. Listed'
    <2>1. \A l \in Lists : l[1] \in Requests
      BY DEF Lists
    <2>2. \A l \in Lists : \A q \in heap[l] : q \in counted /\ kind[q] = KindOf(l) /\ kind[q] # None
      BY DEF Listed, Staged
    <2>3. \A l \in Lists : \A q \in heap[l] : q # r /\ l[1] # r
      BY <1>b, <1>2, <2>2 DEF KindOf
    <2>4. \A l \in Lists : \A q \in heap'[l] : q \in counted' /\ kind'[q] = KindOf(l)'
      BY <1>1, <1>2, <2>1, <2>2, <2>3 DEF KindOf
    <2>5. \A j \in Kinds : bucket'[j] # None => KindOf(bucket[j])' = j
      BY <1>1, <1>2, <2>1, KindsAssumption DEF Listed, KindOf
    <2>6. \A q \in Requests : pc'[q] = "filter" /\ ref'[q] # None => KindOf(ref[q])' = kind'[q]
      <3> SUFFICES ASSUME NEW q \in Requests, pc'[q] = "filter", ref[q] # None
                   PROVE  KindOf(ref[q])' = kind'[q]
        BY <1>2
      <3>1. q # r /\ pc[q] = "filter" /\ KindOf(ref[q]) = kind[q] /\ kind[q] # None
        BY <1>2 DEF Listed, Staged
      <3> QED BY <1>1, <1>2, <2>1, <3>1 DEF KindOf
    <2> QED BY <1>2, <2>4, <2>5, <2>6 DEF Listed, KindOf
  <1>6. \A j \in Kinds : Counted(j)' = Counted(j)
    BY <1>1, <1>2, <1>b DEF Counted
  <1>c. \A q \in Requests : pc'[q] \in AtSteps => kind[q] \in Kinds
    BY <1>a, <1>b DEF Staged, AtSteps
  <1>7. Reason'
    BY <1>2, <1>6, <1>a, <1>b, <1>c DEF Reason, AtSteps, Since
  <1>8. Alone' /\ Latest'
    BY <1>2, <1>a, <1>b DEF Alone, Latest, AtSteps
  <1>9. \A j \in Kinds : Recent(j)' = Recent(j)
    BY <1>2, <1>6 DEF Recent, Solid, Since
  <1>10. Whole'
    BY <1>2, <1>9, <1>a, <1>b, <1>c DEF Whole, Held
  <1>11. Clean'
    <2>1. forgiven' \subseteq Counted("login")'
      BY <1>1, <1>2, <1>b DEF Clean, Counted
    <2> QED BY <1>2, <1>a, <1>b, <2>1 DEF Clean, Held
  <1> QED BY <1>3, <1>4, <1>5, <1>7, <1>8, <1>10, <1>11, <1>d

LEMMA GetInv == ASSUME IInv, NEW r \in Requests, Get(r) PROVE IInv'
  <1> USE DEF IInv, TypeOK
  <1>1. /\ pc[r] = "get" /\ pc' = [pc EXCEPT ![r] = "filter"]
        /\ ref' = [ref EXCEPT ![r] = bucket[kind[r]]]
        /\ crowded' = IF AtList(kind[r]) = {} THEN crowded ELSE crowded \cup AtList(kind[r]) \cup {r}
        /\ UNCHANGED <<clock, kind, phase, now, heap, bucket, stamp, counted, forgiven, gone,
                       stored, offered, answer>>
    BY DEF Get, Goto, intake
  <1>2. kind[r] \in Kinds
    BY <1>1 DEF Staged
  <1>3. TypeOK'
    BY <1>1, <1>2 DEF Steps, AtList
  <1>4. Staged'
    BY <1>1 DEF Staged
  <1>5. \A q \in Requests : q # r => pc'[q] = pc[q] /\ View(q)' = View(q) /\ Mine(q)' = Mine(q)
    BY <1>1 DEF View, Held, Mine
  <1>6. View(r)' = Held(bucket[kind[r]])
    BY <1>1 DEF View, Held
  <1>d. Private'
    BY <1>1, <1>2 DEF Private, Unused, Mine
  <1>7. Listed'
    BY <1>1, <1>2 DEF Listed, KindOf
  <1>8. Reason'
    BY <1>1 DEF Reason, Mine, Since, Counted
  <1>9. Alone'
    BY <1>1 DEF Alone, AtSteps, AtList
  <1>10. Latest'
    BY <1>1, <1>5 DEF Latest
  <1>11. \A k \in Kinds : Recent(k)' \subseteq Recent(k)
    BY <1>1 DEF Recent, Solid, Since, Counted
  <1>12. Whole'
    <2>1. \A k \in Kinds : Held(bucket[k])' = Held(bucket[k])
      BY <1>1 DEF Held
    <2>2. \A q \in Requests : pc'[q] \in AtSteps => kind[q] \in Kinds
      BY <1>1, <1>2 DEF Staged, AtSteps
    <2>3. \A q \in Requests : q # r /\ pc'[q] \in AtSteps => Recent(kind[q]) \subseteq View(q)
      BY <1>5 DEF Whole
    <2>4. Recent(kind[r]) \subseteq View(r)'
      BY <1>2, <1>6 DEF Whole
    <2> QED BY <1>1, <1>5, <1>11, <2>1, <2>2, <2>3, <2>4 DEF Whole
  <1>13. Clean'
    <2>1. \A k \in Kinds : Held(bucket[k])' = Held(bucket[k])
      BY <1>1 DEF Held
    <2>2. \A q \in Requests : q # r /\ pc'[q] \in AtSteps => gone \cap View(q)' = {}
      BY <1>5 DEF Clean
    <2>3. gone \cap View(r)' = {}
      BY <1>2, <1>6 DEF Clean
    <2>4. forgiven' \subseteq Counted("login")'
      BY <1>1 DEF Clean, Counted
    <2> QED BY <1>1, <2>1, <2>2, <2>3, <2>4 DEF Clean
  <1> QED BY <1>3, <1>4, <1>7, <1>8, <1>9, <1>10, <1>12, <1>13, <1>d

LEMMA FilterInv == ASSUME IInv, NEW r \in Requests, Filter(r) PROVE IInv'
  <1> USE DEF IInv, TypeOK
  <1>1. /\ pc[r] = "filter" /\ pc' = [pc EXCEPT ![r] = "put"]
        /\ heap' = [heap EXCEPT ![Mine(r)] = Fresh(r)]
        /\ UNCHANGED <<clock, kind, phase, now, ref, bucket, stamp, counted, crowded, forgiven, gone,
                       stored, offered, answer>>
    BY DEF Filter, Goto, intake
  <1>2. kind[r] \in Kinds /\ Mine(r) \in Lists /\ Mine(r)[1] = r
    BY <1>1, Types DEF Staged
  <1>3. Fresh(r) \subseteq Held(ref[r]) /\ Held(ref[r]) \subseteq Requests
    BY DEF Fresh, Held
  <1>4. TypeOK'
    BY <1>1, <1>2, <1>3 DEF Steps
  <1>5. Staged'
    BY <1>1 DEF Staged
  <1>6. \A q \in Held(ref[r]) : q \in counted /\ kind[q] = kind[r]
    BY <1>1 DEF Held, Listed
  <1>7. \A l \in Lists : l # Mine(r) => heap'[l] = heap[l]
    BY <1>1
  <1>8. heap'[Mine(r)] = Fresh(r)
    BY <1>1, <1>2
  <1>9. Listed'
    <2>1. \A l \in Lists : \A q \in heap'[l] : q \in counted /\ kind[q] = KindOf(l)
      BY <1>2, <1>3, <1>6, <1>7, <1>8 DEF Listed, KindOf
    <2> QED BY <1>1, <2>1 DEF Listed, KindOf
  <1>10. Reason'
    <2>1. Fresh(r) \subseteq Since(kind[r], now[r])
      BY <1>6, <1>3 DEF Fresh, Since, Counted
    <2>2. \A q \in Requests : q # r => heap'[Mine(q)] = heap[Mine(q)]
      BY <1>7 DEF Mine, Lists
    <2> QED BY <1>1, <1>8, <2>1, <2>2 DEF Reason, Mine, Since, Counted
  <1>11. Alone' /\ Latest'
    BY <1>1 DEF Alone, Latest, AtSteps, Mine
  <1>12. Private'
    BY <1>1 DEF Private, Unused, Mine
  <1>13. \A k \in Kinds : Recent(k)' = Recent(k) /\ Held(bucket[k])' = Held(bucket[k])
    <2>1. \A k \in Kinds : bucket[k] # Mine(r)
      BY <1>1 DEF Private, Unused
    <2> QED BY <1>1, <1>7, <2>1 DEF Recent, Solid, Since, Counted, Held
  <1>14. \A q \in Requests : q # r => View(q)' = View(q)
    <2>1. \A q \in Requests : ref[q] # Mine(r)
      BY <1>1 DEF Private, Unused
    <2>2. \A q \in Requests : q # r => Mine(q) \in Lists /\ Mine(q) # Mine(r)
      BY DEF Mine, Lists
    <2> QED BY <1>1, <1>7, <2>1, <2>2 DEF View, Held, Mine
  <1>15. View(r)' = Fresh(r) /\ View(r) = Held(ref[r])
    BY <1>1, <1>8 DEF View, Mine
  <1>16. Recent(kind[r]) \subseteq Fresh(r)
    <2> SUFFICES ASSUME NEW q \in Recent(kind[r]) PROVE q \in Fresh(r)
      OBVIOUS
    <2>1. q \in Held(ref[r])
      BY <1>1, <1>15 DEF Whole, AtSteps
    <2>2. clock - stamp[q] < Window[kind[r]] /\ q \in Requests
      BY DEF Recent, Since, Counted, Solid
    <2>3. now[r] <= clock /\ now[r] \in Int /\ clock \in Int /\ stamp[q] \in Int
      BY <2>2, Types DEF Staged
    <2>4. Window[kind[r]] \in Int
      BY <1>2, LimitAssumption
    <2>5. now[r] - stamp[q] < Window[kind[r]]
      BY <2>2, <2>3, <2>4
    <2> QED BY <2>1, <2>5 DEF Fresh
  <1>17. \A q \in Requests : q # r /\ pc'[q] \in AtSteps => pc[q] \in AtSteps /\ kind[q] \in Kinds
    BY <1>1 DEF Staged, AtSteps
  <1>18. Whole'
    BY <1>1, <1>2, <1>13, <1>14, <1>15, <1>16, <1>17 DEF Whole
  <1>19. Clean'
    <2>1. gone \cap Fresh(r) = {}
      BY <1>1, <1>3, <1>15 DEF Clean, AtSteps
    <2>2. forgiven' \subseteq Counted("login")'
      BY <1>1 DEF Clean, Counted
    <2> QED BY <1>1, <1>13, <1>14, <1>15, <1>17, <2>1, <2>2 DEF Clean
  <1> QED BY <1>4, <1>5, <1>9, <1>10, <1>11, <1>12, <1>18, <1>19

\* The request puts its list into the dict.
LEMMA PutInv ==
    ASSUME IInv, NEW r \in Requests, pc[r] = "put",
           NEW s \in {"done", "verify", "append"}, pc' = [pc EXCEPT ![r] = s], Put(r),
           UNCHANGED <<clock, kind, phase, now, ref, heap, stamp, counted, crowded, forgiven, gone>>,
           TypeOK', Staged'
    PROVE  IInv'
  <1> USE DEF IInv, TypeOK
  <1>1. kind[r] \in Kinds /\ Mine(r) \in Lists /\ Mine(r)[1] = r
    BY Types DEF Staged
  <1>2. bucket' = [bucket EXCEPT ![kind[r]] = Mine(r)]
    BY DEF Put
  <1>3. Listed'
    BY <1>1, <1>2 DEF Listed, KindOf
  <1>4. Private'
    BY <1>2 DEF Private, Unused, Mine
  <1>5. Reason'
    BY DEF Reason, Mine, Since, Counted
  <1>6. Alone'
    BY DEF Alone, AtSteps
  <1>7. Latest'
    <2> SUFFICES ASSUME NEW q \in Requests, pc'[q] = "append", q \notin crowded
                 PROVE  bucket'[kind[q]] = Mine(q)
      BY DEF Latest, Mine
    <2>1. CASE q = r
      BY <1>1, <1>2, <2>1
    <2>2. CASE q # r
      <3>1. pc[q] = "append" /\ bucket[kind[q]] = Mine(q)
        BY <2>2 DEF Latest
      <3>2. kind[q] # kind[r]
        BY <2>2, <3>1 DEF Alone, AtSteps
      <3> QED BY <1>1, <1>2, <3>1, <3>2
    <2> QED BY <2>1, <2>2
  <1>8. \A k \in Kinds : Recent(k)' = Recent(k)
    BY DEF Recent, Solid, Since, Counted
  <1>9. Held(Mine(r)) = heap[Mine(r)] /\ View(r) = heap[Mine(r)]
    BY <1>1, NoneAssumption DEF Held, View
  <1>10. \A q \in Requests : pc'[q] \in AtSteps => pc[q] \in AtSteps /\ View(q)' = View(q)
    BY DEF View, Held, Mine, AtSteps
  <1>11. Held(bucket[kind[r]])' = View(r) /\ \A k \in Kinds : k # kind[r] => Held(bucket[k])' = Held(bucket[k])
    BY <1>1, <1>2, <1>9 DEF Held
  <1>12. Recent(kind[r]) \subseteq View(r) /\ gone \cap View(r) = {}
    BY DEF Whole, Clean, AtSteps
  <1>13. \A q \in Requests : pc[q] \in AtSteps => kind[q] \in Kinds
    BY DEF Staged, AtSteps
  <1>14. Whole'
    BY <1>8, <1>10, <1>11, <1>12, <1>13 DEF Whole
  <1>15. Clean'
    <2>1. forgiven' \subseteq Counted("login")'
      BY DEF Clean, Counted
    <2> QED BY <1>10, <1>11, <1>12, <2>1 DEF Clean
  <1> QED BY <1>3, <1>4, <1>5, <1>6, <1>7, <1>14, <1>15

\* A request adds itself to its list: an entry nobody has counted, forgiven or lost.
LEMMA AddInv ==
    ASSUME IInv, NEW r \in Requests, r \notin counted,
           \/ pc[r] = "put" /\ Put(r)
           \/ pc[r] = "append" /\ bucket' = bucket,
           NEW s \in {"insert", "done"}, pc' = [pc EXCEPT ![r] = s],
           heap' = [heap EXCEPT ![Mine(r)] = @ \cup {r}],
           counted' = counted \cup {r},
           NEW t \in Times, stamp' = [stamp EXCEPT ![r] = t],
           UNCHANGED <<clock, kind, phase, now, ref, crowded, forgiven, gone>>,
           TypeOK', Staged'
    PROVE  IInv'
  <1> USE DEF IInv, TypeOK
  <1>1. kind[r] \in Kinds /\ Mine(r) \in Lists /\ Mine(r)[1] = r
    BY Types DEF Staged
  <1>2. /\ heap'[Mine(r)] = heap[Mine(r)] \cup {r}
        /\ \A l \in Lists : l # Mine(r) => heap'[l] = heap[l]
    BY <1>1
  <1>3. \A l \in Lists : heap[l] \subseteq heap'[l] /\ heap'[l] \subseteq heap[l] \cup {r}
    BY <1>2
  <1>4. \A k \in Kinds : k # kind[r] => bucket'[k] = bucket[k]
    BY <1>1 DEF Put
  <1>5. bucket'[kind[r]] = Mine(r) \/ (pc[r] = "append" /\ bucket' = bucket)
    BY <1>1 DEF Put
  <1>6. Listed'
    <2>1. \A l \in Lists : \A q \in heap'[l] : q \in counted' /\ kind[q] = KindOf(l)
      BY <1>1, <1>2 DEF Listed, KindOf
    <2>2. \A k \in Kinds : bucket'[k] # None => KindOf(bucket'[k]) = k
      BY <1>1, <1>4, <1>5 DEF Listed, KindOf
    <2> QED BY <2>1, <2>2 DEF Listed, KindOf
  <1>7. Private'
    BY DEF Private, Unused, Mine, Put
  <1>8. Reason'
    <2> SUFFICES ASSUME NEW q \in Requests, pc'[q] = "put"
                 PROVE  heap'[Mine(q)] \subseteq Since(kind[q], now[q])'
      BY DEF Reason, Mine
    <2>1. q # r /\ pc[q] = "put" /\ Mine(q) \in Lists /\ Mine(q) # Mine(r)
      BY Types DEF Mine
    <2>2. heap'[Mine(q)] = heap[Mine(q)] /\ heap[Mine(q)] \subseteq Since(kind[q], now[q])
      BY <1>2, <2>1 DEF Reason
    <2>3. Since(kind[q], now[q]) \subseteq Since(kind[q], now[q])'
      BY DEF Since, Counted
    <2> QED BY <2>2, <2>3
  <1>9. Alone'
    BY DEF Alone, AtSteps
  <1>10. Latest'
    <2> SUFFICES ASSUME NEW q \in Requests, pc'[q] = "append", q \notin crowded
                 PROVE  bucket'[kind[q]] = Mine(q)
      BY DEF Latest, Mine
    <2>1. q # r /\ pc[q] = "append" /\ bucket[kind[q]] = Mine(q) /\ kind[q] \in Kinds
      BY DEF Latest, Staged
    <2>2. kind[q] # kind[r]
      BY <2>1 DEF Alone, AtSteps
    <2> QED BY <1>4, <2>1, <2>2
  <1>11. \A q \in Requests : pc'[q] \in AtSteps =>
            /\ q # r /\ pc[q] \in AtSteps /\ kind[q] \in Kinds
            /\ View(q) \subseteq View(q)' /\ View(q)' \subseteq View(q) \cup {r}
    <2> SUFFICES ASSUME NEW q \in Requests, pc'[q] \in AtSteps
                 PROVE  /\ q # r /\ pc[q] \in AtSteps /\ kind[q] \in Kinds
                        /\ View(q) \subseteq View(q)' /\ View(q)' \subseteq View(q) \cup {r}
      OBVIOUS
    <2>1. q # r /\ pc'[q] = pc[q] /\ kind[q] \in Kinds /\ Mine(q) \in Lists
      BY Types DEF AtSteps, Staged
    <2>2. View(q) \subseteq View(q)' /\ View(q)' \subseteq View(q) \cup {r}
      BY <1>3, <2>1 DEF View, Held, Mine
    <2> QED BY <2>1, <2>2
  <1>12. \A k \in Kinds : Recent(k)' \subseteq Recent(k) \cup (IF k = kind[r] /\ r \notin crowded THEN {r} ELSE {})
    BY DEF Recent, Solid, Since, Counted
  <1>13. pc[r] \in AtSteps /\ View(r) = heap[Mine(r)]
    BY DEF AtSteps, View
  <1>14. r \in crowded \/ bucket'[kind[r]] = Mine(r)
    BY <1>5 DEF Latest
  <1>15. \A k \in Kinds : Recent(k)' \subseteq Held(bucket[k])'
    <2> SUFFICES ASSUME NEW k \in Kinds PROVE Recent(k)' \subseteq Held(bucket[k])'
      OBVIOUS
    <2>1. CASE bucket'[k] = Mine(r)
      <3>1. k = kind[r]
        BY <1>6, <1>1, <2>1, NoneAssumption DEF Listed, KindOf
      <3>2. Held(bucket[k])' = heap[Mine(r)] \cup {r}
        BY <1>1, <1>2, <2>1, NoneAssumption DEF Held
      <3>3. Recent(k) \subseteq heap[Mine(r)]
        BY <3>1, <1>13 DEF Whole
      <3> QED BY <1>12, <3>2, <3>3
    <2>2. CASE bucket'[k] # Mine(r)
      <3>1. bucket'[k] = bucket[k]
        BY <1>4, <1>5, <2>2
      <3>2. Held(bucket[k])' = Held(bucket[k])
        BY <1>2, <2>2, <3>1 DEF Held
      <3>3. Recent(k)' \subseteq Recent(k)
        BY <1>12, <1>14, <2>2
      <3> QED BY <3>2, <3>3 DEF Whole
    <2> QED BY <2>1, <2>2
  <1>16. \A q \in Requests : pc'[q] \in AtSteps => Recent(kind[q])' \subseteq View(q)'
    <2> SUFFICES ASSUME NEW q \in Requests, pc'[q] \in AtSteps PROVE Recent(kind[q])' \subseteq View(q)'
      OBVIOUS
    <2>1. Recent(kind[q]) \subseteq View(q)'
      BY <1>11 DEF Whole
    <2>2. kind[q] = kind[r] => r \in crowded
      BY <1>11, <1>13 DEF Alone
    <2>3. Recent(kind[q])' \subseteq Recent(kind[q])
      BY <1>11, <1>12, <2>2
    <2> QED BY <2>1, <2>3
  <1>17. Whole'
    BY <1>15, <1>16 DEF Whole
  <1>18. r \notin gone
    BY DEF Clean, Counted
  <1>19. Clean'
    <2>1. forgiven' \subseteq Counted("login")'
      BY DEF Clean, Counted
    <2>2. \A k \in Kinds : gone \cap Held(bucket[k])' = {}
      <3> SUFFICES ASSUME NEW k \in Kinds PROVE gone \cap Held(bucket[k])' = {}
        OBVIOUS
      <3>1. CASE bucket'[k] = Mine(r)
        BY <1>1, <1>2, <1>13, <1>18, <3>1, NoneAssumption DEF Held, Clean
      <3>2. CASE bucket'[k] # Mine(r)
        <4>1. bucket'[k] = bucket[k]
          BY <1>4, <1>5, <3>2
        <4>2. Held(bucket[k])' = Held(bucket[k])
          BY <1>2, <3>2, <4>1 DEF Held
        <4> QED BY <4>2 DEF Clean
      <3> QED BY <3>1, <3>2
    <2>3. \A q \in Requests : pc'[q] \in AtSteps => gone \cap View(q)' = {}
      BY <1>11, <1>18 DEF Clean
    <2> QED BY <2>1, <2>2, <2>3 DEF Clean
  <1> QED BY <1>6, <1>7, <1>8, <1>9, <1>10, <1>17, <1>19

LEMMA ClearInv == ASSUME IInv, NEW r \in Requests, Clear(r) PROVE IInv'
  <1> USE DEF IInv, TypeOK
  <1>1. /\ pc[r] = "clear" /\ pc' = [pc EXCEPT ![r] = "done"]
        /\ answer' = [answer EXCEPT ![r] = 200]
        /\ bucket' = [bucket EXCEPT !["login"] = None]
        /\ crowded' = crowded \cup AtList("login")
        /\ forgiven' = forgiven \cup Counted("login")
        /\ gone' = IF AtList("login") = {} THEN gone \cup Counted("login") ELSE gone
        /\ UNCHANGED <<clock, kind, phase, now, ref, heap, stamp, counted, stored, offered>>
    BY DEF Clear, Done, Goto, Emptied, intake
  <1>2. kind[r] = "login" /\ "login" \in Kinds
    BY <1>1, KindsAssumption DEF Staged
  <1>3. TypeOK'
    BY <1>1, <1>2 DEF Steps, Codes, AtList, Counted
  <1>4. Staged'
    BY <1>1, NoneAssumption DEF Staged, Codes
  <1>5. Listed'
    BY <1>1, <1>2 DEF Listed, KindOf
  <1>6. Private'
    <2>1. \A q \in Requests : Mine(q) # None /\ <<q, "record">> # None
      BY NoneAssumption DEF Mine, Lists, Phases
    <2>2. \A k \in Kinds : bucket'[k] \in {bucket[k], None}
      BY <1>1
    <2> QED BY <1>1, <2>1, <2>2 DEF Private, Unused, Mine
  <1>7. Reason'
    BY <1>1 DEF Reason, Mine, Since, Counted
  <1>8. Alone'
    BY <1>1 DEF Alone, AtSteps
  <1>9. Latest'
    BY <1>1, <1>2 DEF Latest, AtList, Mine
  <1>10. Recent("login")' = {} /\ \A k \in Kinds : Recent(k)' \subseteq Recent(k)
    BY <1>1 DEF Recent, Solid, Since, Counted
  <1>11. \A q \in Requests : pc'[q] \in AtSteps =>
            q # r /\ pc[q] \in AtSteps /\ kind[q] \in Kinds /\ View(q)' = View(q)
    BY <1>1 DEF View, Held, Mine, AtSteps, Staged
  <1>12. \A k \in Kinds : k # "login" => Held(bucket[k])' = Held(bucket[k])
    BY <1>1 DEF Held
  <1>13. Held(bucket["login"])' = {}
    BY <1>1, <1>2 DEF Held
  <1>14. Whole'
    BY <1>1, <1>10, <1>11, <1>12, <1>13 DEF Whole
  <1>15. Clean'
    <2>1. forgiven' \subseteq Counted("login")'
      BY <1>1 DEF Clean, Counted
    <2>2. \A k \in Kinds : k # "login" => Counted("login") \cap Held(bucket[k]) = {}
      BY DEF Listed, Held, Counted
    <2>3. \A k \in Kinds : gone' \cap Held(bucket[k])' = {}
      BY <1>1, <1>12, <1>13, <2>2 DEF Clean
    <2>4. \A q \in Requests : pc'[q] \in AtSteps => gone' \cap View(q)' = {}
      <3> SUFFICES ASSUME NEW q \in Requests, pc'[q] \in AtSteps PROVE gone' \cap View(q)' = {}
        OBVIOUS
      <3>1. gone \cap View(q) = {}
        BY <1>11 DEF Clean
      <3>2. CASE AtList("login") # {}
        BY <1>1, <1>11, <3>1, <3>2
      <3>3. CASE AtList("login") = {}
        <4>1. kind[q] # "login"
          BY <1>11, <3>3 DEF AtList, AtSteps
        <4>2. Mine(q) \in Lists /\ KindOf(Mine(q)) = kind[q]
          BY Types DEF KindOf
        <4>3. \A p \in View(q) : kind[p] = kind[q]
          BY <4>2, <1>11 DEF View, Held, Listed
        <4> QED BY <1>1, <1>11, <3>1, <4>1, <4>3 DEF Counted
      <3> QED BY <3>2, <3>3
    <2> QED BY <2>1, <2>3, <2>4 DEF Clean
  <1> QED BY <1>3, <1>4, <1>5, <1>6, <1>7, <1>8, <1>9, <1>14, <1>15

LEMMA TickInv == ASSUME IInv, Tick PROVE IInv'
  <1> USE DEF IInv, TypeOK
  <1>1. /\ clock' = clock + 1 /\ clock < MaxClock
        /\ UNCHANGED <<kind, pc, phase, now, ref, heap, bucket, stamp, counted, stored, offered,
                       answer, crowded, forgiven, gone>>
    BY DEF Tick, limiter, intake
  <1>2. TypeOK'
    BY <1>1, ClockAssumption DEF Times
  <1>3. Staged'
    BY <1>1, ClockAssumption DEF Staged, Times
  <1>4. Listed'
    BY <1>1 DEF Listed, KindOf
  <1>5. Private'
    BY <1>1 DEF Private, Unused, Mine
  <1>6. Reason'
    BY <1>1 DEF Reason, Since, Counted, Mine
  <1>7. Alone' /\ Latest'
    BY <1>1 DEF Alone, Latest, Mine
  <1>8. \A k \in Kinds : Recent(k)' \subseteq Recent(k)
    <2> SUFFICES ASSUME NEW k \in Kinds, NEW q \in Recent(k)' PROVE q \in Recent(k)
      OBVIOUS
    <2>1. q \in Solid(k) /\ q \in Counted(k) /\ q \in Requests /\ clock' - stamp[q] < Window[k]
      BY <1>1 DEF Recent, Solid, Since, Counted
    <2>2. clock' = clock + 1 /\ clock \in Int /\ stamp[q] \in Int /\ Window[k] \in Int
      BY <1>1, <2>1, Types, LimitAssumption
    <2>3. clock - stamp[q] < Window[k]
      BY <2>1, <2>2
    <2> QED BY <2>1, <2>3 DEF Recent, Since
  <1>9. \A q \in Requests : View(q)' = View(q) /\ (pc[q] \in AtSteps => kind[q] \in Kinds)
    BY <1>1 DEF View, Held, Mine, Staged, AtSteps
  <1>10. Whole'
    BY <1>1, <1>8, <1>9 DEF Whole, Held
  <1>11. Clean'
    BY <1>1, <1>9 DEF Clean, Held, Counted
  <1> QED BY <1>2, <1>3, <1>4, <1>5, <1>6, <1>7, <1>10, <1>11

LEMMA StepInv == ASSUME IInv, NEW r \in Requests, Step(r) PROVE IInv'
  <1> USE DEF IInv, TypeOK
  <1>a. AtSteps \subseteq Steps /\ {"done", "verify", "append", "insert", "hook", "commit"} \subseteq Steps
    BY DEF AtSteps, Steps
  <1>1. CASE Begin(r) \/ Get(r) \/ Filter(r) \/ Clear(r)
    BY <1>1, BeginInv, GetInv, FilterInv, ClearInv
  <1>2. CASE Refuse(r)
    <2>1. /\ pc[r] = "put" /\ Put(r) /\ pc' = [pc EXCEPT ![r] = "done"]
          /\ answer' = [answer EXCEPT ![r] = 429]
          /\ UNCHANGED <<clock, kind, phase, now, ref, heap, stamp, counted, crowded, forgiven, gone>>
          /\ UNCHANGED <<stored, offered>>
      BY <1>2 DEF Refuse, Done, Goto, intake
    <2>2. kind[r] \in Kinds /\ Mine(r) \in Lists
      BY <2>1, Types DEF Staged
    <2>3. TypeOK'
      BY <1>a, <2>1, <2>2 DEF Codes, Put
    <2>4. Staged'
      BY <2>1, NoneAssumption DEF Staged, Codes
    <2> QED BY <2>1, <2>3, <2>4, PutInv
  <1>3. CASE AdmitLogin(r)
    <2>1. /\ pc[r] = "put" /\ Put(r) /\ pc' = [pc EXCEPT ![r] = "verify"]
          /\ kind[r] = "login" /\ phase[r] = "check"
          /\ UNCHANGED <<clock, kind, phase, now, ref, heap, stamp, counted, crowded, forgiven, gone>>
          /\ UNCHANGED <<stored, offered, answer>>
      BY <1>3 DEF AdmitLogin, Goto, intake
    <2>2. kind[r] \in Kinds /\ Mine(r) \in Lists
      BY <2>1, Types DEF Staged
    <2>3. TypeOK'
      BY <1>a, <2>1, <2>2 DEF Put
    <2>4. Staged'
      BY <2>1 DEF Staged
    <2> QED BY <2>1, <2>3, <2>4, PutInv
  <1>4. CASE PutToRecord(r)
    <2>1. /\ pc[r] = "put" /\ Put(r) /\ pc' = [pc EXCEPT ![r] = "append"]
          /\ phase[r] = "record"
          /\ UNCHANGED <<clock, kind, phase, now, ref, heap, stamp, counted, crowded, forgiven, gone>>
          /\ UNCHANGED <<stored, offered, answer>>
      BY <1>4 DEF PutToRecord, Goto, intake
    <2>2. kind[r] \in Kinds /\ Mine(r) \in Lists
      BY <2>1, Types DEF Staged
    <2>3. TypeOK'
      BY <1>a, <2>1, <2>2 DEF Put
    <2>4. Staged'
      BY <2>1 DEF Staged
    <2> QED BY <2>1, <2>3, <2>4, PutInv
  <1>5. CASE AdmitContact(r)
    <2>1. /\ pc[r] = "put" /\ Put(r) /\ pc' = [pc EXCEPT ![r] = "insert"]
          /\ kind[r] = "contact"
          /\ heap' = [heap EXCEPT ![Mine(r)] = @ \cup {r}]
          /\ stamp' = [stamp EXCEPT ![r] = now[r]] /\ counted' = counted \cup {r}
          /\ UNCHANGED <<clock, kind, phase, now, ref, crowded, forgiven, gone>>
          /\ UNCHANGED <<stored, offered, answer>>
      BY <1>5 DEF AdmitContact, Goto, intake
    <2>2. kind[r] \in Kinds /\ Mine(r) \in Lists /\ r \notin counted /\ now[r] \in Times
      BY <2>1, Types DEF Staged
    <2>3. TypeOK'
      BY <1>a, <2>1, <2>2 DEF Put
    <2>4. Staged'
      BY <2>1 DEF Staged
    <2> QED BY <2>1, <2>2, <2>3, <2>4, AddInv
  <1>6. CASE Record(r)
    <2>1. /\ pc[r] = "append" /\ pc' = [pc EXCEPT ![r] = "done"] /\ bucket' = bucket
          /\ answer' = [answer EXCEPT ![r] = 401]
          /\ heap' = [heap EXCEPT ![Mine(r)] = @ \cup {r}]
          /\ stamp' = [stamp EXCEPT ![r] = clock] /\ counted' = counted \cup {r}
          /\ UNCHANGED <<clock, kind, phase, now, ref, crowded, forgiven, gone>>
          /\ UNCHANGED <<stored, offered>>
      BY <1>6 DEF Record, Done, Goto, intake
    <2>2. Mine(r) \in Lists /\ r \notin counted /\ clock \in Times
      BY <2>1, Types DEF Staged
    <2>3. TypeOK'
      BY <1>a, <2>1, <2>2 DEF Codes
    <2>4. clock \in Int
      BY Types
    <2>5. Staged'
      BY <2>1, <2>4, NoneAssumption DEF Staged, Codes
    <2> QED BY <2>1, <2>2, <2>3, <2>5, AddInv
  <1>7. CASE ReadClock(r)
    <2>1. /\ pc[r] = "clock" /\ pc' = [pc EXCEPT ![r] = "get"]
          /\ now' = [now EXCEPT ![r] = clock]
          /\ UNCHANGED <<clock, kind, ref, heap, bucket, stamp, counted, crowded, forgiven, gone>>
          /\ UNCHANGED <<phase, stored, offered, answer>>
      BY <1>7 DEF ReadClock, Goto, intake
    <2>2. "get" \in Steps \ AtSteps /\ pc[r] \notin AtSteps
      BY <2>1 DEF Steps, AtSteps
    <2>3. TypeOK'
      BY <2>1, <2>2
    <2>4. clock \in Int
      BY Types
    <2>5. Staged'
      BY <2>1, <2>4 DEF Staged
    <2>6. Private'
      BY <2>1 DEF Private, Unused, Mine
    <2> QED BY <2>1, <2>2, <2>3, <2>5, <2>6, QuietInv
  <1>8. CASE WrongPassword(r)
    <2>1. /\ pc[r] = "verify" /\ pc' = [pc EXCEPT ![r] = "clock"]
          /\ phase' = [phase EXCEPT ![r] = "record"]
          /\ UNCHANGED <<clock, kind, ref, heap, bucket, stamp, counted, crowded, forgiven, gone>>
          /\ UNCHANGED <<now, stored, offered, answer>>
      BY <1>8 DEF WrongPassword, Goto, intake
    <2>2. "clock" \in Steps \ AtSteps /\ pc[r] \notin AtSteps
      BY <2>1 DEF Steps, AtSteps
    <2>3. TypeOK'
      BY <2>1, <2>2 DEF Phases
    <2>4. Staged'
      BY <2>1 DEF Staged
    <2>5. Private'
      BY <2>1 DEF Private, Unused, Mine, Staged
    <2> QED BY <2>1, <2>2, <2>3, <2>4, <2>5, QuietInv
  <1>9. CASE \/ RightPassword(r) \/ UserQueryFails(r) \/ Insert(r) \/ DatabaseFails(r) \/ Mail(r)
             \/ MailFails(r) \/ Hook(r) \/ HookFails(r) \/ Commit(r)
    <2>1. UNCHANGED <<clock, kind, phase, now, ref, heap, bucket, stamp, counted, crowded, forgiven, gone>>
      BY <1>9 DEF RightPassword, UserQueryFails, Insert, DatabaseFails, Mail, MailFails, Hook, HookFails,
         Commit, limiter
    <2>2. stored' \in SUBSET Requests /\ offered' \in SUBSET Requests
      BY <1>9 DEF RightPassword, UserQueryFails, Insert, DatabaseFails, Mail, MailFails, Hook, HookFails,
         Commit, intake
    <2>3. PICK s \in {"clear", "mail", "hook", "commit", "done"} :
            /\ pc' = [pc EXCEPT ![r] = s]
            /\ \/ s = "clear" /\ pc[r] = "verify" /\ answer' = answer
               \/ s \in {"mail", "hook", "commit"} /\ pc[r] \in {"insert", "mail", "hook"} /\ answer' = answer
               \/ /\ s = "done" /\ pc[r] \in {"verify", "insert", "commit"}
                  /\ \E c \in Codes : answer' = [answer EXCEPT ![r] = c]
      BY <1>9 DEF RightPassword, UserQueryFails, Insert, DatabaseFails, Mail, MailFails, Hook, HookFails,
         Commit, Done, Goto, Codes
    <2>4. s \in Steps \ AtSteps /\ pc[r] \notin AtSteps
      BY <2>3 DEF Steps, AtSteps
    <2>5. TypeOK'
      BY <2>1, <2>2, <2>3, <2>4
    <2>6. Staged'
      BY <2>1, <2>3, NoneAssumption DEF Staged
    <2>7. Private'
      BY <2>1, <2>3 DEF Private, Unused, Mine
    <2> QED BY <2>1, <2>3, <2>4, <2>5, <2>6, <2>7, QuietInv
  <1> QED BY <1>1, <1>2, <1>3, <1>4, <1>5, <1>6, <1>7, <1>8, <1>9 DEF Step

LEMMA NextInv == ASSUME IInv, [Next]_vars PROVE IInv'
  <1>1. CASE UNCHANGED vars
    BY <1>1 DEF vars, limiter, intake, IInv, TypeOK, Staged, Listed, KindOf, Private, Unused, Reason, Alone,
       Latest, Whole, Clean, Recent, Solid, Since, Counted, View, Held, Mine
  <1> QED BY <1>1, TickInv, StepInv DEF Next

LEMMA Invariance == Spec => []IInv
  BY InitInv, NextInv, PTL DEF Spec

-----------------------------------------------------------------------------
(* Theorems *)

\* The lists, the dict and the requests stay well formed.
THEOREM Typing == Spec => []TypeOK
  <1>1. IInv => TypeOK
    BY DEF IInv
  <1> QED BY Invariance, <1>1, PTL

\* Who is admitted has seen every solid entry, and they were fewer than the limit:
\* only requests that race can pass it.
THEOREM LimitsHold == Spec => LimitHolds
  <1>1. IInv /\ [Next]_vars => [\A r \in Requests :
          (AdmitLogin(r) \/ AdmitContact(r))
            => Cardinality(Solid(kind[r]) \cap Since(kind[r], clock)) < Limit[kind[r]]]_vars
    <2> SUFFICES ASSUME IInv, NEW r \in Requests, AdmitLogin(r) \/ AdmitContact(r)
                 PROVE  Cardinality(Solid(kind[r]) \cap Since(kind[r], clock)) < Limit[kind[r]]
      OBVIOUS
    <2> USE DEF IInv, TypeOK
    <2>1. pc[r] = "put" /\ ~Full(r)
      BY DEF AdmitLogin, AdmitContact
    <2>2. kind[r] \in Kinds /\ heap[Mine(r)] \subseteq Requests
      BY <2>1, Types DEF Staged
    <2>3. Recent(kind[r]) \subseteq heap[Mine(r)]
      BY <2>1 DEF Whole, View, AtSteps
    <2>4. IsFiniteSet(heap[Mine(r)])
      BY <2>2, RequestsAssumption, FS_Subset
    <2>5. /\ Cardinality(Recent(kind[r])) <= Cardinality(heap[Mine(r)])
          /\ Cardinality(Recent(kind[r])) \in Nat /\ Cardinality(heap[Mine(r)]) \in Nat
      BY <2>3, <2>4, FS_Subset, FS_CardinalityType
    <2>6. Limit[kind[r]] \in Nat
      BY <2>2, LimitAssumption
    <2>7. Cardinality(Recent(kind[r])) < Limit[kind[r]]
      BY <2>1, <2>5, <2>6 DEF Full
    <2> QED BY <2>7 DEF Recent
  <1> QED BY Invariance, <1>1, PTL DEF Spec, LimitHolds

\* Who is refused has that many requests of its own kind within its window, whatever
\* the races: no entry is ever there twice, or comes from nowhere.
THEOREM RefusalsRest == Spec => RefusedForAReason
  <1>1. IInv /\ [Next]_vars => [\A r \in Requests :
          Refuse(r) => Cardinality(Since(kind[r], now[r])) >= Limit[kind[r]]]_vars
    <2> SUFFICES ASSUME IInv, NEW r \in Requests, Refuse(r)
                 PROVE  Cardinality(Since(kind[r], now[r])) >= Limit[kind[r]]
      OBVIOUS
    <2> USE DEF IInv, TypeOK
    <2>1. pc[r] = "put" /\ Full(r)
      BY DEF Refuse
    <2>2. kind[r] \in Kinds
      BY <2>1 DEF Staged
    <2>3. heap[Mine(r)] \subseteq Since(kind[r], now[r])
      BY <2>1 DEF Reason
    <2>4. IsFiniteSet(Since(kind[r], now[r]))
      <3>1. Since(kind[r], now[r]) \subseteq Requests
        BY DEF Since, Counted
      <3> QED BY <3>1, RequestsAssumption, FS_Subset
    <2>5. /\ Cardinality(heap[Mine(r)]) <= Cardinality(Since(kind[r], now[r]))
          /\ Cardinality(heap[Mine(r)]) \in Nat /\ Cardinality(Since(kind[r], now[r])) \in Nat
      BY <2>3, <2>4, FS_Subset, FS_CardinalityType
    <2>6. Limit[kind[r]] \in Nat
      BY <2>2, LimitAssumption
    <2> QED BY <2>1, <2>5, <2>6 DEF Full
  <1> QED BY Invariance, <1>1, PTL DEF Spec, RefusedForAReason

\* A success that nobody races empties every list that a later request can reach.
THEOREM SuccessIsKept == Spec => []SuccessForgives
  <1>1. IInv => SuccessForgives
    <2> SUFFICES ASSUME IInv, NEW r \in AtList("login"), pc[r] # "filter"
                 PROVE  heap[Mine(r)] \cap gone = {}
      BY DEF SuccessForgives
    <2> QED BY DEF IInv, Clean, View, AtList, AtSteps
  <1> QED BY Invariance, <1>1, PTL

\* Once counted, a submission ends stored, or by a failure of the database.
THEOREM SubmissionsKept == Spec => SubmissionKept
  <1>1. IInv /\ [Next]_vars => [\A r \in counted :
          kind[r] = "contact" /\ answer[r] = None /\ answer'[r] # None
            => (answer'[r] = 201 /\ r \in stored') \/ DatabaseFails(r)]_vars
    <2> SUFFICES ASSUME IInv, Next, NEW r \in counted,
                        kind[r] = "contact", answer[r] = None, answer'[r] # None
                 PROVE  (answer'[r] = 201 /\ r \in stored') \/ DatabaseFails(r)
      BY DEF vars
    <2> USE DEF IInv, TypeOK
    <2>1. r \in Requests /\ pc[r] \in {"insert", "mail", "hook", "commit"}
      BY DEF Staged
    <2>2. PICK q \in Requests : Step(q)
      BY DEF Next, Tick
    <2>3. q = r
      <3>1. \E c \in Codes : answer' \in {answer, [answer EXCEPT ![q] = c]}
        BY <2>2 DEF Step, Begin, ReadClock, Get, Filter, Refuse, AdmitLogin, AdmitContact, WrongPassword,
           PutToRecord, Record, RightPassword, UserQueryFails, Clear, Insert, DatabaseFails, Mail,
           MailFails, Hook, HookFails, Commit, Done, Codes
      <3> QED BY <2>1, <3>1
    <2>4. Commit(r) \/ DatabaseFails(r)
      BY <2>1, <2>2, <2>3 DEF Step, Begin, ReadClock, Get, Filter, Refuse, AdmitLogin, AdmitContact,
         WrongPassword, PutToRecord, Record, RightPassword, UserQueryFails, Clear, Insert, Mail,
         MailFails, Hook, HookFails
    <2> QED BY <2>1, <2>4 DEF Commit, Done
  <1> QED BY Invariance, <1>1, PTL DEF Spec, SubmissionKept
=============================================================================
