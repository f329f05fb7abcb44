---------------------------- MODULE Redis_proofs ----------------------------
(***************************************************************************)
(* What holds of the two components that keep what they know in Redis: the *)
(* sessions of an account, for any number of tokens, links and requests in *)
(* flight, and of a browser that makes one request at a time; and the      *)
(* reminders of follow-ups, for any number of passes under way together.   *)
(***************************************************************************)
EXTENDS Sessions, Reminders, FiniteSetTheorems, TLAPS

-----------------------------------------------------------------------------
(* The inductive invariants.                                               *)

(* A request carries tokens that have been given out, and the next one is  *)
(* not the one it replaces.                                                *)
Presents(h) == h.kind \in {"check", "replay", "session", "revoke", "mark", "load", "cache", "replayed"}
Brings(h)   == h.kind \in {"keep", "cache", "answer", "replayed"}

RequestsIssued ==
    \A w \in Tabs \cup Desks :
       /\ Presents(op[w]) => op[w].token \in issued
       /\ Brings(op[w]) => op[w].next \in issued
       /\ op[w].kind = "keep" => op[w].token \in issued \cup {None}
       /\ op[w].kind \in {"keep", "cache"} => op[w].token # op[w].next

RepliesIssued == \A t \in Tokens : replay[t] # None => t \in issued

ShapeInv == TypeOK /\ RequestsIssued /\ RepliesIssued

(* Resets counts the links that have been used.                            *)
ResetsCounted == resets = Cardinality({l \in Links : link[l].state = "used"})

LinksInv == ResetsCounted /\ LinksEndWithReset

(* A browser with one request at a time, b, that has had every answer:     *)
(* the token of its cookie is neither spent nor answered, but for a time   *)
(* in which the request is about to bring the next one.                    *)
Fresh(t) == t \in issued /\ t \notin used /\ replay[t] = None

BrowserInv(b) ==
    errors = 0 =>
       /\ op[b].kind # "replayed"
       /\ op[b].kind \in {"check", "replay"} => op[b].token = cookie
       /\ cookie # None /\ op[b].kind \notin {"load", "keep", "cache", "answer"} => Fresh(cookie)
       /\ op[b].kind \in {"keep", "cache", "answer"} => Fresh(op[b].next)

BrowsersInv == \A b \in Tabs : BrowserInv(b)

-----------------------------------------------------------------------------
(* The requests and how they move on.                                      *)
Actors == Tabs \cup Desks
Checks == {"check", "replay", "session", "revoke", "mark", "load"}

LEMMA IdleIsRequest == Idle \in Request /\ Idle.kind = "idle"
BY DEF Idle, Request

LEMMA KeptBy ==
    ASSUME NEW h \in Request
    PROVE  /\ h.kind \in Checks \cup {"cache", "replayed", "logout"} => h.token \in Tokens
           /\ h.kind = "keep" => h.token \in Tokens \cup {None}
           /\ Brings(h) => h.next \in Tokens
           /\ h.kind = "reset" => h.link \in Links
BY DEF Request, Brings, Checks, MaybeToken

LEMMA MoveTyped ==
    ASSUME NEW h \in Request, NEW k
    PROVE  /\ h.kind \in Checks /\ k \in Checks =>
                 LET g == [h EXCEPT !.kind = k] IN g \in Request /\ g.kind = k /\ g.token = h.token
           /\ h.kind \in {"keep", "cache"} =>
                 LET g == [h EXCEPT !.kind = "answer"]
                 IN  g \in Request /\ g.kind = "answer" /\ g.next = h.next
           /\ h.kind = "keep" /\ h.token # None =>
                 LET g == [h EXCEPT !.kind = "cache"]
                 IN  g \in Request /\ g.kind = "cache" /\ g.next = h.next /\ g.token = h.token
<1>1. ASSUME h.kind \in Checks, k \in Checks
      PROVE  LET g == [h EXCEPT !.kind = k] IN g \in Request /\ g.kind = k /\ g.token = h.token
  <2>1. h \in [kind : Checks, token : Tokens]
    BY <1>1 DEF Request, Checks
  <2>2. [h EXCEPT !.kind = k] \in [kind : Checks, token : Tokens]
    BY <1>1, <2>1
  <2>3. QED BY <2>1, <2>2 DEF Request, Checks
<1>2. ASSUME h.kind = "keep"
      PROVE  h \in [kind : {"keep", "answer"}, token : MaybeToken, next : Tokens]
  BY <1>2 DEF Request
<1>3. ASSUME h.kind = "cache"
      PROVE  h \in [kind : {"cache", "replayed"}, token : Tokens, next : Tokens]
  BY <1>3 DEF Request
<1>4. ASSUME h.kind \in {"keep", "cache"}
      PROVE  LET g == [h EXCEPT !.kind = "answer"]
             IN  g \in Request /\ g.kind = "answer" /\ g.next = h.next
  <2>1. [h EXCEPT !.kind = "answer"] \in [kind : {"keep", "answer"}, token : MaybeToken, next : Tokens]
    BY <1>2, <1>3, <1>4 DEF MaybeToken
  <2>2. h = [kind |-> h.kind, token |-> h.token, next |-> h.next]
    BY <1>2, <1>3, <1>4
  <2>3. QED BY <2>1, <2>2 DEF Request
<1>5. ASSUME h.kind = "keep", h.token # None
      PROVE  LET g == [h EXCEPT !.kind = "cache"]
             IN  g \in Request /\ g.kind = "cache" /\ g.next = h.next /\ g.token = h.token
  <2>1. h.token \in Tokens
    BY <1>2, <1>5 DEF MaybeToken
  <2>2. [h EXCEPT !.kind = "cache"] \in [kind : {"cache", "replayed"}, token : Tokens, next : Tokens]
    BY <1>2, <1>5, <2>1
  <2>3. QED BY <1>2, <1>5, <2>2 DEF Request
<1>6. QED BY <1>1, <1>4, <1>5

(* What a written request must be for the requests to keep their shape.    *)
Sound(h) ==
    /\ h \in Request
    /\ Presents(h) => h.token \in issued'
    /\ Brings(h) => h.next \in issued'
    /\ h.kind = "keep" => h.token \in issued' \cup {None}
    /\ h.kind \in {"keep", "cache"} => h.token # h.next

LEMMA RequestsWritten ==
    ASSUME ShapeInv, issued \subseteq issued', NEW w \in Actors, NEW h, Sound(h), Become(w, h)
    PROVE  op' \in [Actors -> Request] /\ RequestsIssued' /\ op'[w] = h
           /\ \A v \in Actors \ {w} : op'[v] = op[v]
<1>1. op \in [Actors -> Request]
  BY DEF ShapeInv, TypeOK, Actors
<1>2. op' \in [Actors -> Request] /\ op'[w] = h /\ \A v \in Actors \ {w} : op'[v] = op[v]
  BY <1>1 DEF Become, Sound
<1>3. RequestsIssued'
  <2>1. ASSUME NEW v \in Actors
        PROVE  /\ Presents(op'[v]) => op'[v].token \in issued'
               /\ Brings(op'[v]) => op'[v].next \in issued'
               /\ op'[v].kind = "keep" => op'[v].token \in issued' \cup {None}
               /\ op'[v].kind \in {"keep", "cache"} => op'[v].token # op'[v].next
    <3>1. CASE v = w
      BY <1>2, <3>1 DEF Sound
    <3>2. CASE v # w
      BY <1>2, <3>2 DEF ShapeInv, RequestsIssued, Actors
    <3>3. QED BY <3>1, <3>2
  <2>2. QED BY <2>1 DEF RequestsIssued, Actors
<1>4. QED BY <1>2, <1>3

LEMMA RequestsSame ==
    ASSUME ShapeInv, issued \subseteq issued', op' = op
    PROVE  op' \in [Actors -> Request] /\ RequestsIssued'
BY DEF ShapeInv, TypeOK, RequestsIssued, Actors

-----------------------------------------------------------------------------
(* The links.                                                              *)
LinksTyped == link \in [Links -> Link] /\ resets \in Resets

LEMMA LinksKept ==
    ASSUME ShapeInv, LinksInv, LinksTyped', resets' = resets,
           \A l \in Links : /\ link'[l].state = "used" <=> link[l].state = "used"
                            /\ link'[l].state = "unused" => link'[l] = link[l] \/ link'[l].after = resets
    PROVE  LinksInv' /\ LinksTyped'
<1>1. {l \in Links : link'[l].state = "used"} = {l \in Links : link[l].state = "used"}
  OBVIOUS
<1>2. ResetsCounted'
  BY <1>1 DEF LinksInv, ResetsCounted
<1>3. LinksEndWithReset'
  BY DEF LinksInv, LinksEndWithReset
<1>4. QED BY <1>2, <1>3 DEF LinksInv

LEMMA LinksStep ==
    ASSUME ShapeInv, LinksInv, [Next]_vars
    PROVE  LinksInv' /\ LinksTyped'
<1> DEFINE U == {l \in Links : link[l].state = "used"}
<1>0. link \in [Links -> Link] /\ resets \in Resets /\ op \in [Actors -> Request]
  BY DEF ShapeInv, TypeOK, Actors
<1>1. CASE UNCHANGED <<link, resets>>
  BY <1>0, <1>1, LinksKept DEF LinksTyped, Resets
<1>2. ASSUME NEW w \in Desks, RequestReset(w)
      PROVE  LinksInv' /\ LinksTyped'
  <2>1. /\ link' = [l \in Links |-> IF link[l].state = "unused"
                                    THEN [link[l] EXCEPT !.state = "deleted"] ELSE link[l]]
        /\ resets' = resets
    BY <1>2 DEF RequestReset
  <2>2. ASSUME NEW l \in Links
        PROVE  /\ link'[l] \in Link /\ link'[l].state # "unused"
               /\ link'[l].state = "used" <=> link[l].state = "used"
    <3>1. link[l] \in Link
      BY <1>0
    <3>2. QED BY <2>1, <3>1 DEF Link
  <2>3. QED BY <1>0, <2>1, <2>2, LinksKept DEF LinksTyped, Resets
<1>3. ASSUME NEW w \in Desks, NEW l \in Links, SendLink(w, l)
      PROVE  LinksInv' /\ LinksTyped'
  <2>1. /\ link' = [link EXCEPT ![l] = [state |-> "unused", after |-> resets]]
        /\ resets' = resets /\ link[l].state = "none"
    BY <1>3 DEF SendLink
  <2>2. link'[l] = [state |-> "unused", after |-> resets] /\ \A k \in Links \ {l} : link'[k] = link[k]
    BY <1>0, <2>1
  <2>3. link' \in [Links -> Link]
    BY <1>0, <2>1 DEF Link
  <2>4. QED BY <1>0, <2>1, <2>2, <2>3, LinksKept DEF LinksTyped, Resets
<1>4. ASSUME NEW w \in Desks, ResetWrite(w)
      PROVE  LinksInv' /\ LinksTyped'
  <2>1. PICK m \in Links : m = op[w].link
    <3>1. op[w] \in Request /\ op[w].kind = "reset"
      BY <1>0, <1>4 DEF ResetWrite, At, Actors
    <3>2. QED BY <3>1, KeptBy
  <2>2. /\ link[m].state \in {"unused", "used"}
        /\ link' = [l \in Links |->
                      IF l = m THEN [link[l] EXCEPT !.state = "used"]
                      ELSE IF link[l].state = "unused" THEN [link[l] EXCEPT !.state = "deleted"]
                      ELSE link[l]]
        /\ resets' = IF link[m].state = "unused" THEN resets + 1 ELSE resets
    BY <1>4, <2>1 DEF ResetWrite
  <2>3. ASSUME NEW l \in Links
        PROVE  /\ link'[l] \in Link /\ link'[l].state # "unused"
               /\ l = m => link'[l].state = "used"
               /\ l # m => (link'[l].state = "used" <=> link[l].state = "used")
    <3>1. link[l] \in Link
      BY <1>0
    <3>2. CASE l = m
      <4>1. link'[l] = [link[l] EXCEPT !.state = "used"]
        BY <2>2, <3>2
      <4>2. link'[l] \in Link /\ link'[l].state = "used"
        BY <3>1, <4>1 DEF Link
      <4>3. QED BY <3>2, <4>2
    <3>3. CASE l # m /\ link[l].state = "unused"
      BY <2>2, <3>1, <3>3 DEF Link
    <3>4. CASE l # m /\ link[l].state # "unused"
      BY <2>2, <3>1, <3>4 DEF Link
    <3>5. QED BY <3>2, <3>3, <3>4
  <2>4. IsFiniteSet(U) /\ resets = Cardinality(U) /\ Cardinality(U) \in Nat
    BY SessionsAssumption, FS_Subset, FS_CardinalityType DEF LinksInv, ResetsCounted
  <2>5. {l \in Links : link'[l].state = "used"} = U \cup {m}
    BY <2>3
  <2>6. Cardinality(U \cup {m}) = resets'
    <3>1. CASE link[m].state = "unused"
      <4>1. m \notin U
        BY <3>1
      <4> HIDE DEF U
      <4>2. QED BY <2>2, <2>4, <3>1, <4>1, FS_AddElement
    <3>2. CASE link[m].state = "used"
      <4>1. U \cup {m} = U
        BY <3>2
      <4>2. QED BY <2>2, <2>4, <3>2, <4>1
    <3>3. QED BY <2>2, <3>1, <3>2
  <2>7. resets' \in Resets
    <3>1. U \cup {m} \subseteq Links
      OBVIOUS
    <3> HIDE DEF U
    <3>2. /\ Cardinality(U \cup {m}) <= Cardinality(Links) /\ Cardinality(U \cup {m}) \in Nat
          /\ Cardinality(Links) \in Nat
      BY <3>1, SessionsAssumption, FS_Subset, FS_CardinalityType
    <3>3. QED BY <2>6, <3>2 DEF Resets
  <2>8. ResetsCounted'
    BY <2>5, <2>6 DEF ResetsCounted
  <2>9. LinksEndWithReset'
    BY <2>3 DEF LinksEndWithReset
  <2>10. link' \in [Links -> Link]
    BY <2>2, <2>3
  <2>11. QED BY <2>7, <2>8, <2>9, <2>10 DEF LinksInv, LinksTyped, Resets
<1>5. ASSUME NEW w \in Tabs, TabStep(w)
      PROVE  UNCHANGED <<link, resets>>
  BY <1>5 DEF TabStep, Login, LoadUser, Refresh, CheckUsed, CheckFails, ReadReplay, ReadSession,
     Revoke, MarkUsed, StoreSession, CacheReplay, Answer, AnswerReplayed, ClearCookie,
     RefuseInactive, Logout, DeleteSession, Lose, Account
<1>6. ASSUME NEW w \in Desks, \/ ResetRefused(w) \/ ResetSweep(w) \/ Lose(w)
                              \/ \E l \in Links : ResetRead(w, l)
      PROVE  UNCHANGED <<link, resets>>
  BY <1>6 DEF ResetRefused, ResetSweep, Lose, ResetRead, Account
<1>7. CASE OtherSweep \/ Activate \/ RedisDown \/ RedisUp \/ (\E t \in Tokens : ForgetReplay(t))
           \/ UNCHANGED vars
  BY <1>1, <1>7 DEF OtherSweep, Activate, RedisDown, RedisUp, ForgetReplay, Account, vars
<1> HIDE DEF U
<1>8. QED BY <1>1, <1>2, <1>3, <1>4, <1>5, <1>6, <1>7 DEF Next, DeskStep

-----------------------------------------------------------------------------
(* The shape is kept.                                                      *)
StoreTyped ==
    /\ ready \in BOOLEAN /\ active \in BOOLEAN
    /\ issued \subseteq Tokens
    /\ session \subseteq issued /\ used \subseteq issued
    /\ replay \in [Tokens -> issued \cup {None}]
    /\ cookie \in issued \cup {None}
    /\ errors \in 0 .. MaxErrors

StoreShaped == StoreTyped /\ RepliesIssued

(* More tokens are given out, and what is remembered stays among them.     *)
LEMMA StoreGrows ==
    ASSUME StoreShaped, issued \subseteq issued', issued' \subseteq Tokens,
           ready' \in BOOLEAN, active' \in BOOLEAN, errors' \in 0 .. MaxErrors,
           session' \subseteq issued', used' \subseteq issued',
           \/ replay' = replay
           \/ replay' = [t \in Tokens |-> None]
           \/ \E t \in issued : \E n \in issued \cup {None} : replay' = [replay EXCEPT ![t] = n],
           cookie' \in issued' \cup {None}
    PROVE  StoreShaped'
<1>1. replay \in [Tokens -> issued \cup {None}] /\ issued \subseteq Tokens
  BY DEF StoreShaped, StoreTyped
<1>2. replay' \in [Tokens -> issued' \cup {None}]
  BY <1>1
<1>3. \A t \in Tokens : replay'[t] # None => t \in issued'
  BY <1>1, SessionsAssumption DEF StoreShaped, RepliesIssued
<1>4. QED BY <1>2, <1>3 DEF StoreShaped, StoreTyped, RepliesIssued

LEMMA ErrorCounted ==
    ASSUME errors \in 0 .. MaxErrors, errors < MaxErrors
    PROVE  errors + 1 \in 0 .. MaxErrors
BY SessionsAssumption

(* One step of a tab.                                                      *)
LEMMA TabShape ==
    ASSUME ShapeInv, NEW w \in Tabs, TabStep(w)
    PROVE  /\ StoreShaped' /\ issued \subseteq issued'
           /\ \E h : Sound(h) /\ Become(w, h)
<1> DEFINE h == op[w]
<1>0. /\ StoreShaped /\ StoreTyped /\ h \in Request /\ w \in Actors
      /\ Presents(h) => h.token \in issued
      /\ Brings(h) => h.next \in issued
      /\ h.kind = "keep" => h.token \in issued \cup {None}
      /\ h.kind \in {"keep", "cache"} => h.token # h.next
  BY DEF ShapeInv, TypeOK, StoreShaped, StoreTyped, RequestsIssued, Actors
<1>1. Sound(Idle)
  BY IdleIsRequest DEF Sound, Presents, Brings
<1>2. ASSUME NEW k \in {"refuse", "clear"}
      PROVE  Sound([kind |-> k])
  BY DEF Sound, Presents, Brings, Request
<1>3. ASSUME NEW t \in issued', NEW k \in Checks \cup {"logout"}, issued' \subseteq Tokens
      PROVE  Sound([kind |-> k, token |-> t])
  BY <1>3 DEF Sound, Presents, Brings, Request, Checks
<1>4. ASSUME h.kind \in Checks, NEW k \in Checks, issued \subseteq issued'
      PROVE  Sound([h EXCEPT !.kind = k])
  <2>1. LET g == [h EXCEPT !.kind = k] IN g \in Request /\ g.kind = k /\ g.token = h.token
    BY <1>0, <1>4, MoveTyped
  <2>2. h.token \in issued
    BY <1>0, <1>4 DEF Presents, Checks
  <2>3. QED BY <1>4, <2>1, <2>2 DEF Sound, Presents, Brings, Checks
<1>5. ASSUME UNCHANGED <<ready, redis, issued, cookie, Account>>, errors' \in 0 .. MaxErrors
      PROVE  StoreShaped' /\ issued' = issued
  BY <1>0, <1>5, StoreGrows DEF StoreTyped, redis, Account
<1> HIDE DEF h
<1>6. ASSUME NEW n \in Tokens, Login(w, n) \/ LoadUser(w, n)
      PROVE  StoreShaped' /\ issued \subseteq issued' /\ \E g : Sound(g) /\ Become(w, g)
  <2>1. /\ UNCHANGED <<ready, redis, cookie, active, errors>> /\ n \notin issued
        /\ issued' = issued \cup {n}
    BY <1>6 DEF Login, LoadUser, Account
  <2>2. StoreShaped'
    BY <1>0, <2>1, StoreGrows DEF StoreTyped, redis
  <2>3. \/ Become(w, [kind |-> "keep", token |-> None, next |-> n])
        \/ h.kind = "load" /\ Become(w, [kind |-> "keep", token |-> h.token, next |-> n])
    BY <1>6 DEF Login, LoadUser, Begin, At, h
  <2>4. Sound([kind |-> "keep", token |-> None, next |-> n])
    BY <2>1, SessionsAssumption DEF Sound, Presents, Brings, Request, MaybeToken
  <2>5. h.kind = "load" => Sound([kind |-> "keep", token |-> h.token, next |-> n])
    <3>1. h.kind = "load" => h.token \in issued /\ h.token \in Tokens
      BY <1>0, KeptBy DEF Presents, Checks
    <3>2. QED BY <2>1, <3>1 DEF Sound, Presents, Brings, Request, MaybeToken
  <2>6. QED BY <2>1, <2>2, <2>3, <2>4, <2>5
<1>7. ASSUME Refresh(w) \/ Logout(w)
      PROVE  StoreShaped' /\ issued \subseteq issued' /\ \E g : Sound(g) /\ Become(w, g)
  <2>1. UNCHANGED <<ready, redis, issued, cookie, Account, errors>> /\ cookie # None
    BY <1>7 DEF Refresh, Logout
  <2>2. StoreShaped' /\ cookie \in issued' /\ issued' \subseteq Tokens
    BY <1>0, <1>5, <2>1 DEF StoreTyped
  <2>3. \E k \in Checks \cup {"logout"} : Become(w, [kind |-> k, token |-> cookie])
    BY <1>7 DEF Refresh, Logout, Begin, Checks
  <2>4. QED BY <1>3, <2>1, <2>2, <2>3
<1>8. ASSUME CheckUsed(w) \/ CheckFails(w) \/ ReadReplay(w) \/ ReadSession(w)
      PROVE  StoreShaped' /\ issued \subseteq issued' /\ \E g : Sound(g) /\ Become(w, g)
  <2>1. /\ UNCHANGED <<ready, redis, issued, cookie, Account>> /\ errors' \in 0 .. MaxErrors
        /\ h.kind \in {"check", "replay", "session"}
    BY <1>0, <1>8, ErrorCounted
       DEF CheckUsed, CheckFails, ReadReplay, ReadSession, StoreTyped, At, h
  <2>2. StoreShaped' /\ issued' = issued
    BY <1>5, <2>1
  <2>3. \/ Become(w, [kind |-> "refuse"])
        \/ \E k \in Checks : Become(w, [h EXCEPT !.kind = k])
        \/ /\ h.kind = "replay" /\ replay[h.token] # None
           /\ Become(w, [kind |-> "replayed", token |-> h.token, next |-> replay[h.token]])
    BY <1>8 DEF CheckUsed, CheckFails, ReadReplay, ReadSession, Go, At, Checks, h
  <2>4. h.kind = "replay" /\ replay[h.token] # None =>
           Sound([kind |-> "replayed", token |-> h.token, next |-> replay[h.token]])
    <3>1. h.kind = "replay" => h.token \in issued /\ h.token \in Tokens
      BY <1>0, KeptBy DEF Presents, Checks
    <3>2. h.kind = "replay" /\ replay[h.token] # None =>
             replay[h.token] \in issued /\ replay[h.token] \in Tokens
      BY <1>0, <3>1 DEF StoreTyped
    <3>3. QED BY <2>2, <3>1, <3>2 DEF Sound, Presents, Brings, Request
  <2>5. h.kind \in Checks
    BY <2>1 DEF Checks
  <2>6. QED BY <1>2, <1>4, <2>2, <2>3, <2>4, <2>5
<1>9. ASSUME Revoke(w) \/ MarkUsed(w)
      PROVE  StoreShaped' /\ issued \subseteq issued' /\ \E g : Sound(g) /\ Become(w, g)
  <2>1. h.kind \in Checks /\ UNCHANGED <<ready, replay, issued, cookie, active, errors>>
        /\ \E k \in Checks : Become(w, [h EXCEPT !.kind = k])
    BY <1>9 DEF Revoke, MarkUsed, Go, At, Checks, Account, h
  <2>2. h.token \in issued
    BY <1>0, <2>1 DEF Presents, Checks
  <2>3. session' \subseteq issued /\ used' \subseteq issued
    BY <1>0, <1>9, <2>2 DEF Revoke, MarkUsed, StoreTyped, h
  <2>4. StoreShaped'
    BY <1>0, <2>1, <2>3, StoreGrows DEF StoreTyped
  <2>5. QED BY <1>4, <2>1, <2>4
<1>10. ASSUME StoreSession(w)
       PROVE  StoreShaped' /\ issued \subseteq issued' /\ \E g : Sound(g) /\ Become(w, g)
  <2>1. h.kind = "keep" /\ UNCHANGED <<ready, used, replay, issued, cookie, active, errors>>
    BY <1>10 DEF StoreSession, At, Account, h
  <2>2. h.next \in issued
    BY <1>0, <2>1 DEF Brings
  <2>3. session' \subseteq issued
    BY <1>0, <1>10, <2>2 DEF StoreSession, StoreTyped, h
  <2>4. StoreShaped'
    BY <1>0, <2>1, <2>3, StoreGrows DEF StoreTyped
  <2>5. \/ Become(w, [h EXCEPT !.kind = "answer"])
        \/ h.token # None /\ Become(w, [h EXCEPT !.kind = "cache"])
    BY <1>10 DEF StoreSession, Go, h
  <2>6. Sound([h EXCEPT !.kind = "answer"])
    <3>1. LET g == [h EXCEPT !.kind = "answer"] IN g \in Request /\ g.kind = "answer" /\ g.next = h.next
      BY <1>0, <2>1, MoveTyped
    <3>2. QED BY <2>1, <2>2, <3>1 DEF Sound, Presents, Brings
  <2>7. h.token # None => Sound([h EXCEPT !.kind = "cache"])
    <3>1. h.token # None => LET g == [h EXCEPT !.kind = "cache"]
                            IN  g \in Request /\ g.kind = "cache" /\ g.next = h.next /\ g.token = h.token
      BY <1>0, <2>1, MoveTyped
    <3>2. QED BY <1>0, <2>1, <2>2, <3>1 DEF Sound, Presents, Brings
  <2>8. QED BY <2>1, <2>4, <2>5, <2>6, <2>7
<1>11. ASSUME CacheReplay(w)
       PROVE  StoreShaped' /\ issued \subseteq issued' /\ \E g : Sound(g) /\ Become(w, g)
  <2>1. /\ h.kind = "cache" /\ UNCHANGED <<ready, session, used, issued, cookie, active, errors>>
        /\ replay' = replay \/ replay' = [replay EXCEPT ![h.token] = h.next]
        /\ Become(w, [h EXCEPT !.kind = "answer"])
    BY <1>11 DEF CacheReplay, Go, At, Account, h
  <2>2. h.next \in issued /\ h.token \in issued
    BY <1>0, <2>1 DEF Brings, Presents
  <2>3. StoreShaped'
    BY <1>0, <2>1, <2>2, StoreGrows DEF StoreTyped
  <2>4. LET g == [h EXCEPT !.kind = "answer"] IN g \in Request /\ g.kind = "answer" /\ g.next = h.next
    BY <1>0, <2>1, MoveTyped
  <2>5. Sound([h EXCEPT !.kind = "answer"])
    BY <2>1, <2>2, <2>4 DEF Sound, Presents, Brings
  <2>6. QED BY <2>1, <2>3, <2>5
<1>12. ASSUME Answer(w) \/ AnswerReplayed(w) \/ ClearCookie(w)
       PROVE  StoreShaped' /\ issued \subseteq issued' /\ \E g : Sound(g) /\ Become(w, g)
  <2>1. /\ UNCHANGED <<ready, redis, issued, active, errors>> /\ Become(w, Idle)
        /\ \/ cookie' \in {cookie, None}
           \/ h.kind \in {"answer", "replayed"} /\ cookie' = h.next
    BY <1>12 DEF Answer, AnswerReplayed, ClearCookie, Finish, At, Account, h
  <2>2. cookie' \in issued \cup {None}
    BY <1>0, <2>1 DEF Brings, StoreTyped
  <2>3. StoreShaped'
    BY <1>0, <2>1, <2>2, StoreGrows DEF StoreTyped, redis
  <2>4. QED BY <1>1, <2>1, <2>3
<1>13. ASSUME Lose(w) \/ RefuseInactive(w)
       PROVE  StoreShaped' /\ issued \subseteq issued' /\ \E g : Sound(g) /\ Become(w, g)
  <2>1. /\ UNCHANGED <<ready, redis, issued, cookie, Account>> /\ errors' \in 0 .. MaxErrors
        /\ Become(w, Idle)
    BY <1>0, <1>13, ErrorCounted DEF Lose, RefuseInactive, StoreTyped, Finish
  <2>2. QED BY <1>1, <1>5, <2>1
<1>14. ASSUME DeleteSession(w)
       PROVE  StoreShaped' /\ issued \subseteq issued' /\ \E g : Sound(g) /\ Become(w, g)
  <2>1. /\ UNCHANGED <<ready, used, replay, issued, cookie, active, errors>>
        /\ session' \subseteq session /\ Become(w, [kind |-> "clear"])
    BY <1>14 DEF DeleteSession, Account
  <2>2. StoreShaped'
    BY <1>0, <2>1, StoreGrows DEF StoreTyped
  <2>3. QED BY <1>2, <2>1, <2>2
<1>15. QED BY <1>6, <1>7, <1>8, <1>9, <1>10, <1>11, <1>12, <1>13, <1>14 DEF TabStep

LEMMA DeskShape ==
    ASSUME ShapeInv, NEW w \in Desks, DeskStep(w)
    PROVE  /\ StoreShaped' /\ issued \subseteq issued'
           /\ \E h : Sound(h) /\ Become(w, h)
<1>0. StoreShaped /\ StoreTyped
  BY DEF ShapeInv, TypeOK, StoreShaped, StoreTyped
<1>1. Sound(Idle) /\ Sound([kind |-> "send"]) /\ Sound([kind |-> "sweep"])
      /\ \A l \in Links : Sound([kind |-> "reset", link |-> l])
  BY IdleIsRequest DEF Sound, Presents, Brings, Request
<1>2. \/ Become(w, Idle) \/ Become(w, [kind |-> "send"]) \/ Become(w, [kind |-> "sweep"])
      \/ \E l \in Links : Become(w, [kind |-> "reset", link |-> l])
  BY DEF DeskStep, RequestReset, ResetWrite, ResetRefused, ResetSweep, Lose, SendLink, ResetRead,
     Begin, Finish
<1>3. /\ UNCHANGED <<ready, replay, issued, cookie, active>> /\ errors' \in 0 .. MaxErrors
      /\ session' \in {session, {}} /\ used' \in {used, {}}
  BY <1>0, ErrorCounted DEF DeskStep, RequestReset, ResetWrite, ResetRefused, ResetSweep, Lose,
     SendLink, ResetRead, Sweep, redis, Account, StoreTyped
<1>4. StoreShaped'
  BY <1>0, <1>3, StoreGrows DEF StoreTyped
<1>5. QED BY <1>1, <1>2, <1>3, <1>4

(* The account and Redis on their own.                                     *)
Surroundings ==
    OtherSweep \/ Activate \/ RedisDown \/ RedisUp \/ (\E t \in Tokens : ForgetReplay(t))

LEMMA SurroundingsShape ==
    ASSUME ShapeInv, Surroundings
    PROVE  StoreShaped' /\ issued \subseteq issued' /\ op' = op
<1>0. StoreShaped /\ StoreTyped /\ (active \in BOOLEAN => (~active) \in BOOLEAN)
  BY DEF ShapeInv, TypeOK, StoreShaped, StoreTyped
<1>1. /\ UNCHANGED <<issued, cookie, op, errors>>
      /\ session' \in {session, {}} /\ used' \in {used, {}}
      /\ \/ replay' = replay \/ replay' = [t \in Tokens |-> None]
         \/ \E t \in issued : replay' = [replay EXCEPT ![t] = None]
  BY DEF ShapeInv, RepliesIssued, Surroundings, OtherSweep, Activate, RedisDown, RedisUp,
     ForgetReplay, Sweep, redis, Account
<1>2. ready' \in BOOLEAN
  BY <1>0 DEF StoreTyped, Surroundings, OtherSweep, Activate, RedisDown, RedisUp, ForgetReplay
<1>3. active' \in BOOLEAN
  BY <1>0, Zenon DEF StoreTyped, Surroundings, OtherSweep, Activate, RedisDown, RedisUp,
     ForgetReplay, Account
<1>4. StoreShaped'
  <2>1. \/ replay' = replay \/ replay' = [t \in Tokens |-> None]
        \/ \E t \in issued : \E n \in issued \cup {None} : replay' = [replay EXCEPT ![t] = n]
    BY <1>1
  <2>2. QED BY <1>0, <1>1, <1>2, <1>3, <2>1, StoreGrows DEF StoreTyped
<1>5. QED BY <1>1, <1>4

IInv == ShapeInv /\ LinksInv

LEMMA ShapeNext ==
    ASSUME IInv, [Next]_vars
    PROVE  IInv' /\ issued \subseteq issued'
<1>1. /\ StoreShaped' /\ issued \subseteq issued'
      /\ op' \in [Actors -> Request] /\ RequestsIssued'
  <2>1. ASSUME NEW w \in Tabs, TabStep(w)
        PROVE  /\ StoreShaped' /\ issued \subseteq issued'
               /\ op' \in [Actors -> Request] /\ RequestsIssued'
    <3>1. PICK h : Sound(h) /\ Become(w, h)
      BY <2>1, TabShape DEF IInv
    <3>2. StoreShaped' /\ issued \subseteq issued' /\ w \in Actors
      BY <2>1, TabShape DEF IInv, Actors
    <3>3. QED BY <3>1, <3>2, RequestsWritten DEF IInv
  <2>2. ASSUME NEW w \in Desks, DeskStep(w)
        PROVE  /\ StoreShaped' /\ issued \subseteq issued'
               /\ op' \in [Actors -> Request] /\ RequestsIssued'
    <3>1. PICK h : Sound(h) /\ Become(w, h)
      BY <2>2, DeskShape DEF IInv
    <3>2. StoreShaped' /\ issued \subseteq issued' /\ w \in Actors
      BY <2>2, DeskShape DEF IInv, Actors
    <3>3. QED BY <3>1, <3>2, RequestsWritten DEF IInv
  <2>3. CASE Surroundings
    BY <2>3, SurroundingsShape, RequestsSame DEF IInv
  <2>4. CASE UNCHANGED vars
    <3>1. op' = op /\ issued \subseteq issued'
      BY <2>4 DEF vars
    <3>2. StoreShaped'
      BY <2>4 DEF vars, redis, IInv, ShapeInv, TypeOK, StoreShaped, StoreTyped, RepliesIssued
    <3>3. QED BY <3>1, <3>2, RequestsSame DEF IInv
  <2>5. QED BY <2>1, <2>2, <2>3, <2>4 DEF Next, Surroundings
<1>2. LinksInv' /\ LinksTyped'
  BY LinksStep DEF IInv
<1>3. TypeOK'
  BY <1>1, <1>2 DEF TypeOK, StoreShaped, StoreTyped, LinksTyped, Resets, MaybeToken, Actors
<1>4. QED BY <1>1, <1>2, <1>3 DEF IInv, ShapeInv, StoreShaped

LEMMA ShapeInit == Init => IInv
<1> SUFFICES ASSUME Init PROVE IInv
  OBVIOUS
<1>1. Cardinality(Links) \in Nat /\ Cardinality({}) = 0
  BY SessionsAssumption, FS_CardinalityType, FS_EmptySet
<1>2. link \in [Links -> Link] /\ resets \in Resets /\ resets = 0
      /\ \A l \in Links : link[l].state = "none"
  BY <1>1 DEF Init, Link, Resets
<1>3. TypeOK
  BY <1>2, IdleIsRequest, SessionsAssumption DEF Init, TypeOK
<1>4. \A w \in Tabs \cup Desks : op[w].kind = "idle"
  BY IdleIsRequest DEF Init
<1>5. RequestsIssued /\ RepliesIssued
  BY <1>4 DEF Init, RequestsIssued, RepliesIssued, Presents, Brings
<1>6. {l \in Links : link[l].state = "used"} = {}
  BY <1>2
<1>7. ResetsCounted
  BY <1>1, <1>2, <1>6 DEF ResetsCounted
<1>8. LinksEndWithReset
  BY <1>2 DEF LinksEndWithReset
<1>9. QED BY <1>3, <1>5, <1>7, <1>8 DEF IInv, ShapeInv, LinksInv

LEMMA Always == Spec => []IInv
<1>1. IInv /\ [Next]_vars => IInv'
  BY ShapeNext
<1>2. QED BY <1>1, ShapeInit, PTL DEF Spec

(* Redis remembers only tokens that were given out, whatever it forgets    *)
(* and whenever it is away, and the requests of tabs and desks keep theirs.*)
THEOREM TypeCorrect == Spec => []TypeOK
<1>1. IInv => TypeOK
  BY DEF IInv, ShapeInv
<1>2. QED BY <1>1, Always, PTL

(* However requests for links and uses of them overlap, and wherever they  *)
(* stop, a link that is unused was created after the last reset.           *)
THEOREM NoLinkOutlivesReset == Spec => []LinksEndWithReset
<1>1. IInv => LinksEndWithReset
  BY DEF IInv, LinksInv
<1>2. QED BY <1>1, Always, PTL

-----------------------------------------------------------------------------
(* A browser with one request at a time.                                   *)

(* A token that is fresh stays so until a request spends it or remembers   *)
(* an answer to it.                                                        *)
LEMMA FreshKept ==
    ASSUME IInv, NEW t, Fresh(t), issued \subseteq issued', used' \subseteq used,
           \/ replay' = replay \/ replay' = [u \in Tokens |-> None]
           \/ \E u \in Tokens : replay' = [replay EXCEPT ![u] = None]
           \/ \E u, n \in Tokens : u # t /\ replay' = [replay EXCEPT ![u] = n]
    PROVE  Fresh(t)'
<1>1. replay \in [Tokens -> issued \cup {None}] /\ issued \subseteq Tokens
  BY DEF IInv, ShapeInv, TypeOK
<1>2. QED BY <1>1 DEF Fresh

(* What happens elsewhere leaves the request of the browser alone.         *)
LEMMA BrowserAside ==
    ASSUME IInv, NEW b \in Tabs, BrowserInv(b), issued \subseteq issued',
           \/ Surroundings \/ UNCHANGED vars
           \/ \E w \in Desks : DeskStep(w)
    PROVE  BrowserInv(b)'
<1> SUFFICES ASSUME errors' = 0
             PROVE  BrowserInv(b)'
  BY DEF BrowserInv
<1>0. TypeOK /\ op \in [Actors -> Request] /\ b \in Actors /\ errors \in Nat
  BY DEF IInv, ShapeInv, TypeOK, Actors
<1>1. /\ used' \subseteq used /\ cookie' = cookie /\ errors = 0
      /\ \/ replay' = replay \/ replay' = [u \in Tokens |-> None]
         \/ \E u \in Tokens : replay' = [replay EXCEPT ![u] = None]
  <2>1. CASE Surroundings \/ UNCHANGED vars
    BY <2>1 DEF Surroundings, OtherSweep, Activate, RedisDown, RedisUp, ForgetReplay, Sweep,
       redis, Account, vars
  <2>2. ASSUME NEW w \in Desks, DeskStep(w)
        PROVE  used' \subseteq used /\ cookie' = cookie /\ errors = 0 /\ replay' = replay
    <3>1. ~Lose(w)
      BY <1>0 DEF Lose
    <3>2. used' \subseteq used /\ cookie' = cookie /\ errors' = errors /\ replay' = replay
      BY <2>2, <3>1 DEF DeskStep, RequestReset, ResetWrite, ResetRefused, ResetSweep, SendLink,
         ResetRead, Sweep, redis, Account
    <3>3. QED BY <3>2
  <2>3. QED BY <2>1, <2>2
<1>2. \A t : Fresh(t) => Fresh(t)'
  BY <1>1, FreshKept
<1>3. CASE op'[b] = op[b]
  <2>1. Fresh(op[b].next) => Fresh(op[b].next)'
    BY <1>1, <1>2, <1>3 DEF Fresh
  <2>2. Fresh(cookie) => Fresh(cookie)'
    BY <1>1, <1>2 DEF Fresh
  <2>3. QED BY <1>1, <1>3, <2>1, <2>2 DEF BrowserInv
<1>4. CASE op'[b] # op[b]
  <2>1. /\ op[b].kind \in {"idle", "send", "reset", "sweep"}
        /\ op'[b].kind \in {"idle", "send", "reset", "sweep"}
    <3>1. PICK w \in Desks : DeskStep(w)
      BY <1>4 DEF Surroundings, OtherSweep, Activate, RedisDown, RedisUp, ForgetReplay, vars
    <3>2. ~Lose(w)
      BY <1>0, <1>1 DEF Lose
    <3>3. w = b
      BY <1>0, <1>4, <3>1, <3>2 DEF DeskStep, RequestReset, ResetWrite, ResetRefused, ResetSweep,
         SendLink, ResetRead, Begin, Finish, Become
    <3>4. /\ op[w] = Idle \/ op[w].kind \in {"send", "reset", "sweep"}
          /\ \/ op' = [op EXCEPT ![w] = Idle] \/ op' = [op EXCEPT ![w] = [kind |-> "send"]]
             \/ op' = [op EXCEPT ![w] = [kind |-> "sweep"]]
             \/ \E l \in Links : op' = [op EXCEPT ![w] = [kind |-> "reset", link |-> l]]
      BY <3>1, <3>2 DEF DeskStep, RequestReset, ResetWrite, ResetRefused, ResetSweep, SendLink,
         ResetRead, Begin, Finish, Become, At
    <3>5. QED BY <1>0, <3>3, <3>4 DEF Idle
  <2>2. Fresh(cookie) => Fresh(cookie)'
    BY <1>1, <1>2 DEF Fresh
  <2>3. QED BY <1>1, <2>1, <2>2 DEF BrowserInv
<1>5. QED BY <1>3, <1>4

LEMMA BrowserTab ==
    ASSUME IInv, NEW b \in Tabs, BrowserInv(b), issued \subseteq issued', TabStep(b)
    PROVE  BrowserInv(b)'
<1> SUFFICES ASSUME errors' = 0
             PROVE  BrowserInv(b)'
  BY DEF BrowserInv
<1>a. PICK h : h = op[b]
  OBVIOUS
<1>0. /\ TypeOK /\ op \in [Actors -> Request] /\ b \in Actors /\ errors \in Nat /\ h \in Request
      /\ replay \in [Tokens -> issued \cup {None}] /\ issued \subseteq Tokens /\ None \notin Tokens
      /\ used \subseteq issued /\ cookie \in issued \cup {None}
      /\ Presents(h) => h.token \in issued
      /\ Brings(h) => h.next \in issued
      /\ h.kind \in {"keep", "cache"} => h.token # h.next
      /\ \A t \in Tokens : replay[t] # None => t \in issued
  BY <1>a, SessionsAssumption DEF IInv, ShapeInv, TypeOK, Actors, RequestsIssued, RepliesIssued
<1>1. ~(CheckFails(b) \/ Lose(b) \/ RefuseInactive(b))
  BY <1>0 DEF CheckFails, Lose, RefuseInactive
<1>2. errors = 0
  BY <1>1 DEF TabStep, Login, LoadUser, Refresh, CheckUsed, ReadReplay, ReadSession, Revoke, MarkUsed,
     StoreSession, CacheReplay, Answer, AnswerReplayed, ClearCookie, Logout, DeleteSession
<1>3. /\ h.kind # "replayed"
      /\ h.kind \in {"check", "replay"} => h.token = cookie
      /\ cookie # None /\ h.kind \notin {"load", "keep", "cache", "answer"} => Fresh(cookie)
      /\ h.kind \in {"keep", "cache", "answer"} => Fresh(h.next)
  BY <1>2, <1>a DEF BrowserInv
<1>4. \A g : Become(b, g) => op'[b] = g
  BY <1>0 DEF Become
<1>b. ASSUME NEW k \in Checks, h.kind \in Checks, Go(b, k)
      PROVE  op'[b].kind = k /\ op'[b].token = h.token
  <2>1. op'[b] = [h EXCEPT !.kind = k]
    BY <1>4, <1>a, <1>b DEF Go
  <2>2. QED BY <1>0, <1>b, <2>1, MoveTyped
<1>c. ASSUME h.kind \in {"keep", "cache"},
             \/ Go(b, "answer")
             \/ h.kind = "keep" /\ h.token # None /\ Go(b, "cache")
      PROVE  op'[b].kind \in {"answer", "cache"} /\ op'[b].next = h.next
             /\ (Go(b, "answer") => op'[b].kind = "answer")
  <2>1. Go(b, "answer") => op'[b] = [h EXCEPT !.kind = "answer"]
    BY <1>4, <1>a DEF Go
  <2>2. Go(b, "cache") => op'[b] = [h EXCEPT !.kind = "cache"]
    BY <1>4, <1>a DEF Go
  <2>3. LET g == [h EXCEPT !.kind = "answer"] IN g.kind = "answer" /\ g.next = h.next
    BY <1>0, <1>c, MoveTyped
  <2>4. h.kind = "keep" /\ h.token # None =>
           LET g == [h EXCEPT !.kind = "cache"] IN g.kind = "cache" /\ g.next = h.next
    BY <1>0, MoveTyped
  <2>5. QED BY <1>c, <2>1, <2>2, <2>3, <2>4
(* Beginnings.                                                             *)
<1>5. ASSUME NEW n \in Tokens, Login(b, n) \/ LoadUser(b, n)
      PROVE  BrowserInv(b)'
  <2>1. /\ UNCHANGED <<used, replay, cookie>> /\ n \notin issued /\ issued' = issued \cup {n}
        /\ \E t : op'[b] = [kind |-> "keep", token |-> t, next |-> n]
    BY <1>4, <1>5 DEF Login, LoadUser, Begin, redis
  <2>2. op'[b].kind = "keep" /\ op'[b].next = n
    BY <2>1
  <2>3. Fresh(op[b].next)'
    BY <1>0, <2>1, <2>2 DEF Fresh
  <2>4. QED BY <2>2, <2>3 DEF BrowserInv
<1>6. ASSUME Refresh(b) \/ Logout(b)
      PROVE  BrowserInv(b)'
  <2>1. /\ UNCHANGED <<issued, used, replay, cookie>> /\ h.kind = "idle"
        /\ op'[b] = [kind |-> "check", token |-> cookie] \/ op'[b] = [kind |-> "logout", token |-> cookie]
    BY <1>4, <1>6, <1>a DEF Refresh, Logout, Begin, redis, Idle
  <2>2. QED BY <1>3, <2>1 DEF BrowserInv, Fresh
(* A token of the cookie is found neither spent nor answered.              *)
<1>7. ASSUME CheckUsed(b) \/ ReadReplay(b) \/ ReadSession(b) \/ Revoke(b) \/ DeleteSession(b)
      PROVE  BrowserInv(b)'
  <2>1. /\ UNCHANGED <<issued, used, replay, cookie>>
        /\ h.kind \in {"check", "replay", "session", "revoke", "logout"}
    BY <1>7, <1>a DEF CheckUsed, ReadReplay, ReadSession, Revoke, DeleteSession, redis, At
  <2>2. /\ op'[b].kind \in {"refuse", "replay", "session", "revoke", "load", "mark", "clear"}
        /\ op'[b].kind = "replay" => op'[b].token = cookie
    <3>1. CASE CheckUsed(b)
      <4>1. h.kind = "check" /\ (op'[b] = [kind |-> "refuse"] \/ Go(b, "replay"))
        BY <1>4, <1>a, <3>1 DEF CheckUsed, At
      <4>2. QED BY <1>3, <1>b, <4>1 DEF Checks
    <3>2. CASE ReadReplay(b)
      <4>1. h.kind = "replay" /\ h.token \in issued
        BY <1>0, <1>a, <3>2 DEF ReadReplay, At, Presents
      <4>2. replay[h.token] = None
        BY <1>0, <1>3, <4>1 DEF Fresh
      <4>3. Go(b, "session")
        BY <1>a, <3>2, <4>2 DEF ReadReplay
      <4>4. QED BY <1>b, <4>1, <4>3 DEF Checks
    <3>3. CASE ReadSession(b) \/ Revoke(b)
      <4>1. h.kind \in Checks /\ \E k \in {"revoke", "load", "mark"} : Go(b, k)
        BY <1>a, <3>3 DEF ReadSession, Revoke, At, Checks
      <4>2. QED BY <1>b, <4>1 DEF Checks
    <3>4. CASE DeleteSession(b)
      <4>1. op'[b] = [kind |-> "clear"]
        BY <1>4, <3>4 DEF DeleteSession
      <4>2. QED BY <4>1
    <3>5. QED BY <1>7, <3>1, <3>2, <3>3, <3>4
  <2>3. QED BY <1>3, <2>1, <2>2 DEF BrowserInv, Fresh
<1>8. ASSUME MarkUsed(b)
      PROVE  BrowserInv(b)'
  <2>1. op'[b].kind = "load"
    BY <1>8, <1>a, <1>b DEF MarkUsed, At, Checks
  <2>2. QED BY <2>1 DEF BrowserInv
(* The next one is on its way.                                             *)
<1>9. ASSUME StoreSession(b)
      PROVE  BrowserInv(b)'
  <2>1. UNCHANGED <<issued, used, replay>> /\ h.kind = "keep"
    BY <1>9, <1>a DEF StoreSession, At
  <2>2. op'[b].kind \in {"answer", "cache"} /\ op'[b].next = h.next
    BY <1>9, <1>a, <1>c, <2>1 DEF StoreSession
  <2>3. QED BY <1>3, <2>1, <2>2 DEF BrowserInv, Fresh
<1>10. ASSUME CacheReplay(b)
       PROVE  BrowserInv(b)'
  <2>1. /\ UNCHANGED <<issued, used>> /\ h.kind = "cache" /\ h.token \in issued /\ h.next \in issued
        /\ \/ replay' = replay \/ replay' = [replay EXCEPT ![h.token] = h.next]
    BY <1>0, <1>10, <1>a DEF CacheReplay, At, Presents, Brings
  <2>2. op'[b].kind = "answer" /\ op'[b].next = h.next
    BY <1>10, <1>c, <2>1 DEF CacheReplay
  <2>3. replay'[h.next] = replay[h.next]
    BY <1>0, <2>1
  <2>4. QED BY <1>3, <2>1, <2>2, <2>3 DEF BrowserInv, Fresh
<1>11. ASSUME Answer(b) \/ AnswerReplayed(b) \/ ClearCookie(b)
       PROVE  BrowserInv(b)'
  <2>1. UNCHANGED <<issued, used, replay>> /\ op'[b] = Idle
    BY <1>4, <1>11 DEF Answer, AnswerReplayed, ClearCookie, Finish, redis
  <2>2. cookie' # None => Fresh(cookie')
    BY <1>3, <1>11, <1>a DEF Answer, AnswerReplayed, ClearCookie, At
  <2>3. QED BY <2>1, <2>2 DEF BrowserInv, Fresh, Idle
<1>12. QED BY <1>1, <1>5, <1>6, <1>7, <1>8, <1>9, <1>10, <1>11 DEF TabStep

(* Every refresh of a browser that waits for its answers is let in, though *)
(* Redis goes away, comes back empty or is swept at any step of it: its    *)
(* cookie never holds a token that has been spent.  A browser with two     *)
(* requests in flight is not so lucky.                                     *)
THEOREM OneRequestKeepsSession ==
    ASSUME NEW b, Tabs = {b}
    PROVE  Spec => []KeepsSession
<1> DEFINE Inv == IInv /\ BrowserInv(b)
<1>1. Init => Inv
  <2>1. ASSUME Init
        PROVE  BrowserInv(b)
    <3>1. op[b].kind = "idle" /\ cookie = None
      BY <2>1, IdleIsRequest DEF Init
    <3>2. QED BY <3>1 DEF BrowserInv
  <2>2. QED BY <2>1, ShapeInit
<1>2. Inv /\ [Next]_vars => Inv'
  <2> SUFFICES ASSUME IInv, BrowserInv(b), [Next]_vars
               PROVE  Inv'
    OBVIOUS
  <2>1. IInv' /\ issued \subseteq issued'
    BY ShapeNext
  <2>2. CASE \E w \in Tabs : TabStep(w)
    BY <2>1, <2>2, BrowserTab
  <2>3. CASE Surroundings \/ UNCHANGED vars \/ \E w \in Desks : DeskStep(w)
    BY <2>1, <2>3, BrowserAside
  <2>4. QED BY <2>2, <2>3 DEF Next, Surroundings
<1>3. Inv => KeepsSession
  <2>1. b \in Tabs
    OBVIOUS
  <2>2. QED BY <2>1 DEF BrowserInv, KeepsSession, Fresh, Idle
<1>4. QED BY <1>1, <1>2, <1>3, PTL DEF Spec

-----------------------------------------------------------------------------
(* The reminders.                                                          *)

(* A pass has each follow-up at most once, and at most a batch of them.    *)
Distinct(items) == \A i, j \in items : i.row = j.row => i = j

PassSound(h) ==
    /\ h \in Pass
    /\ h.phase # "idle" =>
          /\ IsFiniteSet(h.todo) /\ Cardinality(h.todo) < Batch
          /\ Distinct(h.todo) /\ \A i \in h.todo : i.row # h.item.row

RowsTyped ==
    /\ now \in Moments /\ online \in BOOLEAN
    /\ row \in [Rows -> [open : BOOLEAN, at : Moments]]
    /\ key \in [Channels -> [Rows -> 0 .. (Last + Tail + Floor)]]
    /\ sent \in [Channels -> [Rows -> 0 .. 2]]
    /\ excused \subseteq Channels \X Rows /\ moved \subseteq Rows
    /\ count \in [cuts : 0 .. MaxCuts, refusals : 0 .. MaxRefusals]
PassesSound == pass \in [Passes -> Pass] /\ \A q \in Passes : PassSound(pass[q])
ReminderShape == RowsTyped /\ PassesSound

(* The reminder of r by c is with the pass q, to be sent or to be marked.  *)
Holds(q, c, r) == pass[q].phase \in {"send", "mark"} /\ pass[q].chan = c /\ pass[q].item.row = r
Timely(q, r)   == pass[q].item.at = row[r].at
Late(r)        == now >= row[r].at + Tail

(* Unless the reminder may have been doubled: it is with one pass at most; *)
(* whoever is about to send it for the present time is the first; whoever  *)
(* has it for an earlier time came before it was sent, or too late to      *)
(* matter; and once it was sent it is about to be marked, or its key       *)
(* lives until it is too late to ask.                                      *)
InOneHand(c, r)  == \A p, q \in Passes : Holds(p, c, r) /\ Holds(q, c, r) => p = q
SentByNone(c, r) ==
    \A q \in Passes : Holds(q, c, r) =>
       /\ Timely(q, r) /\ pass[q].phase = "send" => sent[c][r] = 0
       /\ ~Timely(q, r) => sent[c][r] = 0 \/ Late(r)
SentIsKept(c, r) ==
    sent[c][r] # 0 => \/ \E q \in Passes : Holds(q, c, r) /\ pass[q].phase = "mark" /\ Timely(q, r)
                      \/ key[c][r] >= row[r].at + Tail
                      \/ Late(r)
Once(c, r) ==
    <<c, r>> \notin excused =>
       InOneHand(c, r) /\ SentByNone(c, r) /\ SentIsKept(c, r) /\ sent[c][r] # 2

OnceInv == \A c \in Channels, r \in Rows : Once(c, r)

LEMMA PassTyped ==
    ASSUME NEW h \in Pass, h.phase # "idle"
    PROVE  /\ h.phase \in {"ask", "send", "mark"} /\ h.chan \in Channels
           /\ h.item \in Item /\ h.todo \subseteq Item
           /\ h.item.row \in Rows /\ h.item.at \in Moments
BY DEF Pass, Item

LEMMA OnwardSound ==
    ASSUME NEW todo \in SUBSET Item, IsFiniteSet(todo), Distinct(todo), Cardinality(todo) <= Batch,
           NEW h \in Onward(todo)
    PROVE  PassSound(h) /\ h.phase \in {"idle", "ask"}
<1>1. CASE todo = {}
  BY <1>1 DEF Onward, Resting, PassSound, Pass
<1>2. CASE todo # {}
  <2>1. PICK i \in todo : h = [phase |-> "ask", chan |-> "mail", item |-> i, todo |-> todo \ {i}]
    BY <1>2 DEF Onward
  <2>2. h \in Pass
    BY <2>1 DEF Pass, Channels
  <2>3. IsFiniteSet(todo \ {i}) /\ Cardinality(todo \ {i}) < Batch
    <3>1. IsFiniteSet(todo \ {i}) /\ Cardinality(todo \ {i}) = Cardinality(todo) - 1
      BY FS_RemoveElement
    <3>2. Cardinality(todo) \in Nat /\ Batch \in Nat
      BY FS_CardinalityType, RemindersAssumption
    <3>3. QED BY <3>1, <3>2
  <2>4. Distinct(todo \ {i}) /\ \A j \in todo \ {i} : j.row # i.row
    BY DEF Distinct
  <2>5. QED BY <2>1, <2>2, <2>3, <2>4 DEF PassSound
<1>3. QED BY <1>1, <1>2

LEMMA AfterSound ==
    ASSUME NEW h, PassSound(h), h.phase # "idle", NEW g \in After(h)
    PROVE  PassSound(g) /\ g.phase \in {"idle", "ask"}
<1>1. h \in Pass /\ h \in [phase : {"ask", "send", "mark"}, chan : Channels, item : Item, todo : SUBSET Item]
  BY DEF PassSound, Pass
<1>2. CASE h.chan = "mail"
  <2>1. g = [h EXCEPT !.phase = "ask", !.chan = "push"]
    BY <1>2 DEF After
  <2>2. /\ g.phase = "ask" /\ g.chan = "push" /\ g.item = h.item /\ g.todo = h.todo
        /\ g \in Pass
    BY <1>1, <2>1 DEF Pass, Channels
  <2>3. QED BY <2>2 DEF PassSound
<1>3. CASE h.chan # "mail"
  <2>1. g \in Onward(h.todo)
    BY <1>3 DEF After
  <2>2. /\ h.todo \in SUBSET Item /\ IsFiniteSet(h.todo) /\ Distinct(h.todo)
        /\ Cardinality(h.todo) <= Batch
    BY <1>1, FS_CardinalityType, RemindersAssumption DEF PassSound
  <2>3. QED BY <2>1, <2>2, OnwardSound
<1>4. QED BY <1>2, <1>3

(* What is not resting keeps its follow-ups when only its phase changes.   *)
LEMMA PhaseSound ==
    ASSUME NEW h, PassSound(h), h.phase # "idle", NEW f \in {"ask", "send", "mark"}
    PROVE  /\ PassSound([h EXCEPT !.phase = f])
           /\ [h EXCEPT !.phase = f].phase = f
           /\ [h EXCEPT !.phase = f].chan = h.chan
           /\ [h EXCEPT !.phase = f].item = h.item
<1>1. h \in [phase : {"ask", "send", "mark"}, chan : Channels, item : Item, todo : SUBSET Item]
  BY DEF PassSound, Pass
<1> DEFINE g == [h EXCEPT !.phase = f]
<1>2. /\ g.phase = f /\ g.chan = h.chan /\ g.item = h.item /\ g.todo = h.todo
      /\ g \in [phase : {"ask", "send", "mark"}, chan : Channels, item : Item, todo : SUBSET Item]
  BY <1>1
<1>3. g \in Pass
  BY <1>2 DEF Pass
<1> HIDE DEF g
<1>4. PassSound(g)
  BY <1>2, <1>3 DEF PassSound
<1>5. QED BY <1>2, <1>4 DEF g

(* What a pass that goes on becomes.                                       *)
LEMMA PassWritten ==
    ASSUME PassesSound, NEW q \in Passes, NEW S, Proceed(q, S), \A h \in S : PassSound(h)
    PROVE  /\ PassesSound' /\ pass'[q] \in S
           /\ \A p \in Passes : p # q => pass'[p] = pass[p]
<1>1. PICK h \in S : pass' = [pass EXCEPT ![q] = h]
  BY DEF Proceed
<1>2. h \in Pass
  BY <1>1 DEF PassSound
<1>3. QED BY <1>1, <1>2 DEF PassesSound

(* The keys never outlive the bound, and one that is set now lives at      *)
(* least Tail beyond the time it was set for.                              *)
LEMMA ExpiryTyped ==
    ASSUME now \in Moments, NEW at \in Moments
    PROVE  Expiry(at) \in 0 .. (Last + Tail + Floor) /\ Expiry(at) >= at + Tail
BY RemindersAssumption DEF Expiry, Moments

-----------------------------------------------------------------------------
(* Shape.                                                                  *)
LEMMA TakenSound ==
    ASSUME RowsTyped, NEW B \in SUBSET Rows, IsFiniteSet(B), Cardinality(B) <= Batch,
           NEW h \in Onward({[row |-> b, at |-> row[b].at] : b \in B})
    PROVE  PassSound(h) /\ h.phase \in {"idle", "ask"}
<1> DEFINE items == {[row |-> b, at |-> row[b].at] : b \in B}
           f == [b \in B |-> [row |-> b, at |-> row[b].at]]
<1>1. items \in SUBSET Item
  BY DEF RowsTyped, Item
<1>2. Distinct(items)
  BY DEF Distinct
<1>3. f \in Surjection(B, items)
  BY DEF Surjection
<1>4. IsFiniteSet(items) /\ Cardinality(items) <= Cardinality(B)
  BY <1>3, FS_Surjection
<1>5. Cardinality(items) <= Batch
  <2>1. Cardinality(items) \in Nat /\ Cardinality(B) \in Nat /\ Batch \in Nat
    BY <1>4, FS_CardinalityType, RemindersAssumption
  <2>2. QED BY <1>4, <2>1
<1> HIDE DEF items
<1>6. QED BY <1>1, <1>2, <1>4, <1>5, OnwardSound DEF items

LEMMA StartPassShaped ==
    ASSUME ReminderShape, NEW q \in Passes, StartPass(q)
    PROVE  PassesSound' /\ pass'[q].phase \in {"idle", "ask"} /\ \A p \in Passes : p # q => pass'[p] = pass[p]
<1>1. PICK B \in SUBSET {r \in Rows : Due(r)} :
         /\ Cardinality(B) <= Batch
         /\ Proceed(q, Onward({[row |-> b, at |-> row[b].at] : b \in B}))
  BY DEF StartPass
<1>2. B \in SUBSET Rows /\ IsFiniteSet(B)
  BY <1>1, RemindersAssumption, FS_Subset
<1>3. \A h \in Onward({[row |-> b, at |-> row[b].at] : b \in B}) : PassSound(h) /\ h.phase \in {"idle", "ask"}
  BY <1>1, <1>2, TakenSound DEF ReminderShape
<1> DEFINE S == Onward({[row |-> b, at |-> row[b].at] : b \in B})
<1>4. Proceed(q, S) /\ PassesSound /\ \A h \in S : PassSound(h) /\ h.phase \in {"idle", "ask"}
  BY <1>1, <1>3 DEF ReminderShape
<1> HIDE DEF S
<1>5. QED BY <1>4, PassWritten

(* What a pass does at its item, when it moves on and when it stays.       *)
LEMMA MovesOn ==
    ASSUME PassesSound, NEW q \in Passes, pass[q].phase # "idle", Proceed(q, After(pass[q]))
    PROVE  PassesSound' /\ pass'[q].phase \in {"idle", "ask"} /\ \A p \in Passes : p # q => pass'[p] = pass[p]
<1>1. \A h \in After(pass[q]) : PassSound(h) /\ h.phase \in {"idle", "ask"}
  BY AfterSound DEF PassesSound
<1>2. QED BY <1>1, PassWritten

LEMMA StaysOn ==
    ASSUME PassesSound, NEW q \in Passes, pass[q].phase # "idle", NEW f \in {"ask", "send", "mark"},
           Proceed(q, {[pass[q] EXCEPT !.phase = f]})
    PROVE  /\ PassesSound' /\ \A p \in Passes : p # q => pass'[p] = pass[p]
           /\ pass'[q].phase = f /\ pass'[q].chan = pass[q].chan /\ pass'[q].item = pass[q].item
<1>1. PassSound(pass[q])
  BY DEF PassesSound
<1> DEFINE g == [pass[q] EXCEPT !.phase = f]
<1>2. PassSound(g) /\ g.phase = f /\ g.chan = pass[q].chan /\ g.item = pass[q].item
  BY <1>1, PhaseSound
<1> HIDE DEF g
<1>3. Proceed(q, {g})
  BY DEF g
<1>4. QED BY <1>2, <1>3, PassWritten

LEMMA AtItem ==
    ASSUME PassesSound, NEW q \in Passes, pass[q].phase # "idle"
    PROVE  /\ pass[q].chan \in Channels
           /\ pass[q].item.row \in Rows /\ pass[q].item.at \in Moments
BY PassTyped DEF PassesSound, PassSound

LEMMA HandTyped ==
    ASSUME PassesSound, NEW q \in Passes
    PROVE  InHand(q) \subseteq Channels \X Rows
BY AtItem DEF InHand, InPhase

(* The connection takes with it what was under way in the passes R.        *)
LEMMA CutShaped ==
    ASSUME PassesSound, Disconnect
    PROVE  /\ PassesSound'
           /\ \A q \in Passes :
                 \/ pass'[q] = pass[q]
                 \/ (pass'[q].phase \in {"idle", "ask"} /\ InHand(q) \subseteq excused')
           /\ excused \subseteq excused' /\ excused' \subseteq excused \cup (Channels \X Rows)
<1>1. PICK R \in SUBSET {q \in Passes : InPhase(q, "ask") \/ InPhase(q, "mark")} :
         /\ pass' \in [Passes -> UNION {After(pass[q]) : q \in R} \cup {pass[q] : q \in Passes}]
         /\ \A q \in Passes : pass'[q] \in IF q \in R THEN After(pass[q]) ELSE {pass[q]}
         /\ excused' = excused \cup UNION {InHand(q) : q \in R}
  BY DEF Disconnect
<1>2. \A q \in R : q \in Passes /\ pass[q].phase # "idle"
  BY DEF InPhase
<1>3. ASSUME NEW q \in Passes
      PROVE  /\ PassSound(pass'[q])
             /\ \/ pass'[q] = pass[q]
                \/ (pass'[q].phase \in {"idle", "ask"} /\ InHand(q) \subseteq excused')
  <2>1. CASE q \in R
    <3>1. pass'[q] \in After(pass[q]) /\ PassSound(pass[q]) /\ pass[q].phase # "idle"
      BY <1>1, <1>2, <2>1 DEF PassesSound
    <3>2. QED BY <1>1, <2>1, <3>1, AfterSound
  <2>2. CASE q \notin R
    BY <1>1, <2>2 DEF PassesSound
  <2>3. QED BY <2>1, <2>2
<1>4. pass' \in [Passes -> Pass]
  BY <1>1, <1>3 DEF PassSound
<1>5. excused' \subseteq excused \cup (Channels \X Rows)
  BY <1>1, <1>2, HandTyped
<1>6. QED BY <1>1, <1>3, <1>4, <1>5 DEF PassesSound

LEMMA ReminderShapeInit == ReminderInit => ReminderShape
<1> SUFFICES ASSUME ReminderInit PROVE ReminderShape
  OBVIOUS
<1>1. RowsTyped
  <2>1. 0 \in Moments /\ 0 \in 0 .. (Last + Tail + Floor) /\ 0 \in 0 .. 2
    BY RemindersAssumption DEF Moments
  <2>2. count \in [cuts : 0 .. MaxCuts, refusals : 0 .. MaxRefusals]
    BY RemindersAssumption DEF ReminderInit
  <2>3. row \in [Rows -> [open : BOOLEAN, at : Moments]]
    BY DEF ReminderInit
  <2>4. QED BY <2>1, <2>2, <2>3 DEF ReminderInit, RowsTyped
<1>2. PassSound(Resting)
  BY DEF PassSound, Resting, Pass
<1>3. PassesSound
  BY <1>2 DEF ReminderInit, PassesSound, PassSound
<1>4. QED BY <1>1, <1>3 DEF ReminderShape

LEMMA SpentTyped ==
    ASSUME RowsTyped, NEW f \in {"cuts", "refusals"}, Spent(f),
           count[f] < IF f = "cuts" THEN MaxCuts ELSE MaxRefusals
    PROVE  count' \in [cuts : 0 .. MaxCuts, refusals : 0 .. MaxRefusals]
<1>1. count.cuts \in 0 .. MaxCuts /\ count.refusals \in 0 .. MaxRefusals
  BY DEF RowsTyped
<1>2. CASE f = "cuts"
  BY <1>1, <1>2, RemindersAssumption DEF RowsTyped, Spent
<1>3. CASE f = "refusals"
  BY <1>1, <1>3, RemindersAssumption DEF RowsTyped, Spent
<1>4. QED BY <1>2, <1>3

LEMMA ReminderShapeNext ==
    ASSUME ReminderShape, [ReminderNext]_reminderVars
    PROVE  ReminderShape'
<1> USE DEF ReminderShape
<1>1. CASE Poll
  <2>1. PICK q \in Passes : StartPass(q)
    BY <1>1 DEF Poll
  <2>2. RowsTyped'
    BY <2>1 DEF StartPass, RowsTyped, Counts
  <2>3. QED BY <2>1, <2>2, StartPassShaped
<1>2. ASSUME NEW q \in Passes, Ask(q) PROVE ReminderShape'
  <2>1. pass[q].phase = "ask"
    BY <1>2 DEF Ask, InPhase
  <2>2. PassesSound'
    BY <1>2, <2>1, MovesOn, StaysOn DEF Ask
  <2>3. excused' \subseteq Channels \X Rows
    BY <1>2, <2>1, AtItem DEF Ask, Doubtful, RowsTyped
  <2>4. QED BY <1>2, <2>2, <2>3 DEF Ask, RowsTyped, Counts
<1>3. ASSUME NEW q \in Passes, Send(q) PROVE ReminderShape'
  <2>1. pass[q].phase = "send"
    BY <1>3 DEF Send, InPhase
  <2>2. PassesSound'
    BY <1>3, <2>1, StaysOn DEF Send
  <2>3. sent' \in [Channels -> [Rows -> 0 .. 2]]
    <3>1. pass[q].chan \in Channels /\ pass[q].item.row \in Rows
      BY <2>1, AtItem
    <3>2. \/ sent' = sent
          \/ sent' = [sent EXCEPT ![pass[q].chan][pass[q].item.row] = 1]
          \/ sent' = [sent EXCEPT ![pass[q].chan][pass[q].item.row] = 2]
      BY <1>3 DEF Send
    <3>3. ASSUME NEW n \in 0 .. 2, sent' = [sent EXCEPT ![pass[q].chan][pass[q].item.row] = n]
          PROVE  sent' \in [Channels -> [Rows -> 0 .. 2]]
      BY <3>1, <3>3 DEF RowsTyped
    <3>4. CASE sent' = sent
      BY <3>4 DEF RowsTyped
    <3>5. QED BY <3>2, <3>3, <3>4
  <2>4. QED BY <1>3, <2>2, <2>3 DEF Send, RowsTyped, Counts
<1>4. ASSUME NEW q \in Passes, Refused(q) PROVE ReminderShape'
  <2>1. pass[q].phase = "send"
    BY <1>4 DEF Refused, InPhase
  <2>2. PassesSound'
    BY <1>4, <2>1, MovesOn DEF Refused
  <2>3. count' \in [cuts : 0 .. MaxCuts, refusals : 0 .. MaxRefusals]
    BY <1>4, SpentTyped DEF Refused
  <2>4. QED BY <1>4, <2>2, <2>3 DEF Refused, RowsTyped
<1>5. ASSUME NEW q \in Passes, Mark(q) PROVE ReminderShape'
  <2>1. pass[q].phase = "mark"
    BY <1>5 DEF Mark, InPhase
  <2>2. PassesSound'
    BY <1>5, <2>1, MovesOn DEF Mark
  <2>3. Expiry(pass[q].item.at) \in 0 .. (Last + Tail + Floor)
    BY <2>1, AtItem, ExpiryTyped DEF RowsTyped
  <2>4. key' \in [Channels -> [Rows -> 0 .. (Last + Tail + Floor)]]
    BY <1>5, <2>3 DEF Mark, RowsTyped
  <2>5. QED BY <1>5, <2>2, <2>4 DEF Mark, RowsTyped, Counts
<1>6. CASE Disconnect
  <2>1. PassesSound' /\ excused' \subseteq Channels \X Rows
    BY <1>6, CutShaped DEF RowsTyped
  <2>2. count' \in [cuts : 0 .. MaxCuts, refusals : 0 .. MaxRefusals]
    BY <1>6, SpentTyped DEF Disconnect
  <2>3. QED BY <1>6, <2>1, <2>2 DEF Disconnect, RowsTyped
<1>7. CASE Reconnect
  BY <1>7 DEF Reconnect, RowsTyped, PassesSound, PassSound, Counts
<1>8. CASE Restart
  <2>1. PassSound(Resting)
    BY DEF PassSound, Resting, Pass
  <2>2. PassesSound'
    BY <1>8, <2>1 DEF Restart, PassesSound, PassSound
  <2>3. excused' \subseteq Channels \X Rows
    BY <1>8, HandTyped DEF Restart, RowsTyped
  <2>4. count' \in [cuts : 0 .. MaxCuts, refusals : 0 .. MaxRefusals]
    BY <1>8, SpentTyped DEF Restart
  <2>5. QED BY <1>8, <2>2, <2>3, <2>4 DEF Restart, RowsTyped
<1>9. CASE Tick
  <2>1. now' \in Moments
    BY <1>9, RemindersAssumption DEF Tick, RowsTyped, Moments
  <2>2. key' \in [Channels -> [Rows -> 0 .. (Last + Tail + Floor)]]
    BY <1>9, RemindersAssumption DEF Tick, RowsTyped
  <2>3. QED BY <1>9, <2>1, <2>2 DEF Tick, RowsTyped, PassesSound, PassSound, Counts
<1>10. ASSUME NEW r \in Rows, Complete(r) PROVE ReminderShape'
  BY <1>10 DEF Complete, RowsTyped, PassesSound, PassSound, Counts
<1>11. ASSUME NEW r \in Rows, NEW at \in Moments, Move(r, at) PROVE ReminderShape'
  <2>1. row' \in [Rows -> [open : BOOLEAN, at : Moments]] /\ moved' \subseteq Rows
    BY <1>11 DEF Move, RowsTyped
  <2>2. sent' \in [Channels -> [Rows -> 0 .. 2]]
    BY <1>11 DEF Move, RowsTyped
  <2>3. QED BY <1>11, <2>1, <2>2 DEF Move, RowsTyped, PassesSound, PassSound
<1>12. CASE UNCHANGED reminderVars
  BY <1>12 DEF reminderVars, RowsTyped, PassesSound, PassSound
<1>13. QED
  BY <1>1, <1>2, <1>3, <1>4, <1>5, <1>6, <1>7, <1>8, <1>9, <1>10, <1>11, <1>12 DEF ReminderNext, Work

LEMMA ShapeIsType == ReminderShape => ReminderTypeOK
BY DEF ReminderShape, RowsTyped, PassesSound, PassSound, ReminderTypeOK, InPhase

-----------------------------------------------------------------------------
(* Once.  A step that leaves the times, the keys and what was sent alone   *)
(* keeps it when no pass takes the reminder up, and none that sent it      *)
(* leaves it unmarked.                                                     *)
LEMMA LettingGo ==
    ASSUME NEW c \in Channels, NEW r \in Rows, Once(c, r),
           now' = now, row'[r].at = row[r].at, key'[c][r] = key[c][r], sent'[c][r] = sent[c][r],
           excused \subseteq excused',
           \A q \in Passes : Holds(q, c, r)' => pass'[q] = pass[q],
           <<c, r>> \notin excused' =>
              \A q \in Passes : Holds(q, c, r) /\ pass[q].phase = "mark" => pass'[q] = pass[q]
    PROVE  Once(c, r)'
<1> SUFFICES ASSUME <<c, r>> \notin excused'
             PROVE  (InOneHand(c, r) /\ SentByNone(c, r) /\ SentIsKept(c, r) /\ sent[c][r] # 2)'
  BY DEF Once
<1>1. InOneHand(c, r) /\ SentByNone(c, r) /\ SentIsKept(c, r) /\ sent[c][r] # 2
  BY DEF Once
<1>2. \A q \in Passes : Holds(q, c, r)' => Holds(q, c, r)
  BY DEF Holds
<1>3. InOneHand(c, r)'
  BY <1>1, <1>2 DEF InOneHand
<1>4. SentByNone(c, r)'
  BY <1>1, <1>2 DEF SentByNone, Timely, Late
<1>5. SentIsKept(c, r)'
  <2>1. CASE \E q \in Passes : Holds(q, c, r) /\ pass[q].phase = "mark" /\ Timely(q, r)
    BY <2>1 DEF SentIsKept, Holds, Timely
  <2>2. QED BY <1>1, <2>1 DEF SentIsKept, Late
<1>6. QED BY <1>1, <1>3, <1>4, <1>5

(* A pass that is not at this reminder, and is not after its step.         *)
LEMMA Elsewhere ==
    ASSUME NEW q \in Passes, NEW c \in Channels, NEW r \in Rows, Once(c, r),
           now' = now, row' = row, key'[c][r] = key[c][r], sent'[c][r] = sent[c][r],
           excused \subseteq excused', \A p \in Passes : p # q => pass'[p] = pass[p],
           ~Holds(q, c, r)', Holds(q, c, r) => pass[q].phase # "mark"
    PROVE  Once(c, r)'
BY LettingGo

LEMMA AskOnce ==
    ASSUME ReminderShape, NEW q \in Passes, Ask(q), NEW c \in Channels, NEW r \in Rows, Once(c, r)
    PROVE  Once(c, r)'
<1>1. pass[q].phase = "ask" /\ PassesSound /\ now \in Nat /\ row[r].at \in Nat /\ key[c][r] \in Nat
  BY RemindersAssumption DEF Ask, InPhase, ReminderShape, RowsTyped, Moments
<1>2. now' = now /\ row' = row /\ key' = key /\ sent' = sent /\ excused \subseteq excused'
  BY DEF Ask, Counts
<1>3. ~Holds(q, c, r)
  BY <1>1 DEF Holds
<1>4. CASE Proceed(q, After(pass[q]))
  <2>1. pass'[q].phase \in {"idle", "ask"} /\ \A p \in Passes : p # q => pass'[p] = pass[p]
    BY <1>1, <1>4, MovesOn
  <2>2. ~Holds(q, c, r)'
    BY <2>1 DEF Holds
  <2>3. QED BY <1>2, <1>3, <2>1, <2>2, Elsewhere
<1>5. CASE /\ ~Known(pass[q].chan, pass[q].item.row)
           /\ Proceed(q, {[pass[q] EXCEPT !.phase = "send"]})
           /\ excused' = excused \cup Doubtful(q)
  <2>1. /\ \A p \in Passes : p # q => pass'[p] = pass[p]
        /\ pass'[q].phase = "send" /\ pass'[q].chan = pass[q].chan /\ pass'[q].item = pass[q].item
    BY <1>1, <1>5, StaysOn
  <2>2. CASE pass[q].chan # c \/ pass[q].item.row # r
    BY <1>2, <1>3, <2>1, <2>2, Elsewhere DEF Holds
  <2>3. CASE pass[q].chan = c /\ pass[q].item.row = r
    <3>1. SUFFICES ASSUME <<c, r>> \notin excused'
                   PROVE  (InOneHand(c, r) /\ SentByNone(c, r) /\ SentIsKept(c, r) /\ sent[c][r] # 2)'
      BY DEF Once
    <3>2. InOneHand(c, r) /\ SentByNone(c, r) /\ SentIsKept(c, r) /\ sent[c][r] # 2
      BY <1>2, <3>1 DEF Once
    <3>3. Doubtful(q) # {<<c, r>>}
      BY <1>5, <3>1
    <3>4. (\A p \in Passes : ~Holds(p, c, r)) /\ ~(now >= pass[q].item.at + Tail)
      BY <2>3, <3>3 DEF Doubtful, InHand, InPhase, Holds
    <3>5. sent[c][r] # 0 => now >= row[r].at + Tail
      BY <1>1, <1>5, <2>3, <3>2, <3>4, RemindersAssumption DEF SentIsKept, Known, Late
    <3>6. \A p \in Passes : Holds(p, c, r)' => p = q
      BY <2>1, <3>4 DEF Holds
    <3>7. InOneHand(c, r)'
      BY <3>6 DEF InOneHand
    <3>8. SentByNone(c, r)'
      BY <1>2, <2>1, <3>4, <3>5, <3>6 DEF SentByNone, Timely, Late
    <3>9. SentIsKept(c, r)'
      BY <1>2, <3>5 DEF SentIsKept, Late
    <3>10. QED BY <1>2, <3>2, <3>7, <3>8, <3>9
  <2>4. QED BY <2>2, <2>3
<1>6. QED BY <1>4, <1>5 DEF Ask

LEMMA SendOnce ==
    ASSUME ReminderShape, NEW q \in Passes, Send(q), NEW c \in Channels, NEW r \in Rows, Once(c, r)
    PROVE  Once(c, r)'
<1>1. pass[q].phase = "send" /\ PassesSound
  BY DEF Send, InPhase, ReminderShape
<1>2. now' = now /\ row' = row /\ key' = key /\ excused' = excused
  BY DEF Send, Counts
<1>3. /\ \A p \in Passes : p # q => pass'[p] = pass[p]
      /\ pass'[q].phase = "mark" /\ pass'[q].chan = pass[q].chan /\ pass'[q].item = pass[q].item
  BY <1>1, StaysOn DEF Send
<1>4. pass[q].chan \in Channels /\ pass[q].item.row \in Rows
  BY <1>1, AtItem
<1>5. /\ pass[q].item.at # row[pass[q].item.row].at => sent' = sent
      /\ pass[q].item.at = row[pass[q].item.row].at =>
            sent' = [sent EXCEPT ![pass[q].chan][pass[q].item.row] = IF @ = 0 THEN 1 ELSE 2]
  BY DEF Send
<1>6. sent \in [Channels -> [Rows -> 0 .. 2]]
  BY DEF ReminderShape, RowsTyped
<1>7. CASE pass[q].chan # c \/ pass[q].item.row # r
  <2>1. sent'[c][r] = sent[c][r]
    BY <1>4, <1>5, <1>6, <1>7
  <2>2. ~Holds(q, c, r) /\ ~Holds(q, c, r)'
    BY <1>3, <1>7 DEF Holds
  <2>3. QED BY <1>2, <1>3, <2>1, <2>2, Elsewhere
<1>8. CASE pass[q].chan = c /\ pass[q].item.row = r
  <2>1. SUFFICES ASSUME <<c, r>> \notin excused
                 PROVE  (InOneHand(c, r) /\ SentByNone(c, r) /\ SentIsKept(c, r) /\ sent[c][r] # 2)'
    BY <1>2 DEF Once
  <2>2. InOneHand(c, r) /\ SentByNone(c, r) /\ SentIsKept(c, r) /\ sent[c][r] # 2
    BY <2>1 DEF Once
  <2>3. Holds(q, c, r) /\ \A p \in Passes : Holds(p, c, r) => p = q
    BY <1>1, <1>8, <2>2 DEF Holds, InOneHand
  <2>4. \A p \in Passes : Holds(p, c, r)' => p = q
    BY <1>3, <2>3 DEF Holds
  <2>5. InOneHand(c, r)'
    BY <2>4 DEF InOneHand
  <2>6. CASE Timely(q, r)
    <3>1. sent[c][r] = 0
      BY <1>1, <2>2, <2>3, <2>6 DEF SentByNone
    <3>2. sent'[c][r] = 1
      BY <1>4, <1>5, <1>6, <1>8, <2>6, <3>1 DEF Timely
    <3>3. Holds(q, c, r)' /\ Timely(q, r)'
      BY <1>2, <1>3, <1>8, <2>6 DEF Holds, Timely
    <3>4. SentByNone(c, r)'
      BY <1>3, <2>4, <3>3 DEF SentByNone
    <3>5. SentIsKept(c, r)'
      BY <1>3, <3>3 DEF SentIsKept
    <3>6. QED BY <2>5, <3>2, <3>4, <3>5
  <2>7. CASE ~Timely(q, r)
    <3>1. sent' = sent
      BY <1>5, <1>8, <2>7 DEF Timely
    <3>2. sent[c][r] = 0 \/ Late(r)
      BY <2>2, <2>3, <2>7 DEF SentByNone
    <3>3. ~Timely(q, r)' /\ (Late(r) => Late(r)')
      BY <1>2, <1>3, <2>7 DEF Timely, Late
    <3>4. SentByNone(c, r)'
      BY <2>4, <3>1, <3>2, <3>3 DEF SentByNone
    <3>5. SentIsKept(c, r)'
      BY <3>1, <3>2, <3>3 DEF SentIsKept
    <3>6. QED BY <2>2, <2>5, <3>1, <3>4, <3>5
  <2>8. QED BY <2>6, <2>7
<1>9. QED BY <1>7, <1>8

LEMMA MarkOnce ==
    ASSUME ReminderShape, NEW q \in Passes, Mark(q), NEW c \in Channels, NEW r \in Rows, Once(c, r)
    PROVE  Once(c, r)'
<1>1. pass[q].phase = "mark" /\ PassesSound
  BY DEF Mark, InPhase, ReminderShape
<1>2. now' = now /\ row' = row /\ sent' = sent /\ excused' = excused
  BY DEF Mark, Counts
<1>3. pass'[q].phase \in {"idle", "ask"} /\ \A p \in Passes : p # q => pass'[p] = pass[p]
  BY <1>1, MovesOn DEF Mark
<1>4. pass[q].chan \in Channels /\ pass[q].item.row \in Rows /\ pass[q].item.at \in Moments
  BY <1>1, AtItem
<1>5. /\ key' = [key EXCEPT ![pass[q].chan][pass[q].item.row] = Expiry(pass[q].item.at)]
      /\ key \in [Channels -> [Rows -> 0 .. (Last + Tail + Floor)]]
  BY DEF Mark, ReminderShape, RowsTyped
<1>6. ~Holds(q, c, r)'
  BY <1>3 DEF Holds
<1>7. CASE pass[q].chan # c \/ pass[q].item.row # r
  <2>1. key'[c][r] = key[c][r] /\ ~Holds(q, c, r)
    BY <1>4, <1>5, <1>7 DEF Holds
  <2>2. QED BY <1>2, <1>3, <1>6, <2>1, Elsewhere
<1>8. CASE pass[q].chan = c /\ pass[q].item.row = r
  <2>1. SUFFICES ASSUME <<c, r>> \notin excused
                 PROVE  (InOneHand(c, r) /\ SentByNone(c, r) /\ SentIsKept(c, r) /\ sent[c][r] # 2)'
    BY <1>2 DEF Once
  <2>2. InOneHand(c, r) /\ SentByNone(c, r) /\ SentIsKept(c, r) /\ sent[c][r] # 2
    BY <2>1 DEF Once
  <2>3. \A p \in Passes : ~Holds(p, c, r)'
    BY <1>1, <1>3, <1>6, <1>8, <2>2 DEF Holds, InOneHand
  <2>4. InOneHand(c, r)' /\ SentByNone(c, r)'
    BY <2>3 DEF InOneHand, SentByNone
  <2>5. Timely(q, r) => key'[c][r] >= row'[r].at + Tail
    <3>1. key'[c][r] = Expiry(pass[q].item.at)
      BY <1>5, <1>8
    <3>2. Expiry(pass[q].item.at) >= pass[q].item.at + Tail
      BY <1>4, ExpiryTyped DEF ReminderShape, RowsTyped
    <3>3. QED BY <1>2, <3>1, <3>2 DEF Timely
  <2>6. ~Timely(q, r) => sent[c][r] = 0 \/ Late(r)
    BY <1>1, <1>8, <2>2 DEF SentByNone, Holds
  <2>7. SentIsKept(c, r)'
    BY <1>2, <2>5, <2>6 DEF SentIsKept, Late
  <2>8. QED BY <1>2, <2>2, <2>4, <2>7
<1>9. QED BY <1>7, <1>8

LEMMA TickOnce ==
    ASSUME ReminderShape, Tick, NEW c \in Channels, NEW r \in Rows, Once(c, r)
    PROVE  Once(c, r)'
<1> SUFFICES ASSUME <<c, r>> \notin excused'
             PROVE  (InOneHand(c, r) /\ SentByNone(c, r) /\ SentIsKept(c, r) /\ sent[c][r] # 2)'
  BY DEF Once
<1>1. row' = row /\ pass' = pass /\ sent' = sent /\ excused' = excused
  BY DEF Tick, Counts
<1>2. InOneHand(c, r) /\ SentByNone(c, r) /\ SentIsKept(c, r) /\ sent[c][r] # 2
  BY <1>1 DEF Once
<1>3. now \in Nat /\ row[r].at \in Nat /\ key[c][r] \in Nat /\ now' = now + 1 /\ Tail \in Nat
  BY RemindersAssumption DEF Tick, ReminderShape, RowsTyped, Moments
<1>4. key'[c][r] = IF key[c][r] > now' THEN key[c][r] ELSE 0
  BY DEF Tick
<1>5. (Late(r) => Late(r)') /\ (key[c][r] >= row[r].at + Tail => key'[c][r] >= row[r].at + Tail \/ Late(r)')
  BY <1>1, <1>3, <1>4 DEF Late
<1>6. InOneHand(c, r)' /\ SentByNone(c, r)'
  BY <1>1, <1>2, <1>5 DEF InOneHand, SentByNone, Holds, Timely
<1>7. SentIsKept(c, r)'
  BY <1>1, <1>2, <1>5 DEF SentIsKept, Holds, Timely
<1>8. QED BY <1>1, <1>2, <1>6, <1>7

LEMMA MoveOnce ==
    ASSUME ReminderShape, NEW s \in Rows, NEW at \in Moments, Move(s, at),
           NEW c \in Channels, NEW r \in Rows, Once(c, r)
    PROVE  Once(c, r)'
<1>1. now' = now /\ key' = key /\ pass' = pass /\ excused' = excused
  BY DEF Move
<1>2. row' = [row EXCEPT ![s].at = at] /\ sent' = [d \in Channels |-> [sent[d] EXCEPT ![s] = 0]]
  BY DEF Move
<1>3. sent[c] \in [Rows -> 0 .. 2] /\ row \in [Rows -> [open : BOOLEAN, at : Moments]]
  BY DEF ReminderShape, RowsTyped
<1>4. CASE r # s
  <2>1. row'[r].at = row[r].at /\ sent'[c][r] = sent[c][r]
    BY <1>2, <1>3, <1>4
  <2>2. QED BY <1>1, <2>1, LettingGo
<1>5. CASE r = s
  <2>1. sent'[c][r] = 0
    BY <1>2, <1>3, <1>5
  <2>2. <<c, r>> \notin excused' => InOneHand(c, r)'
    BY <1>1 DEF Once, InOneHand, Holds
  <2>3. SentByNone(c, r)' /\ SentIsKept(c, r)'
    BY <2>1 DEF SentByNone, SentIsKept
  <2>4. QED BY <2>1, <2>2, <2>3 DEF Once
<1>6. QED BY <1>4, <1>5

LEMMA OnceNext ==
    ASSUME ReminderShape, OnceInv, [ReminderNext]_reminderVars
    PROVE  OnceInv'
<1> SUFFICES ASSUME NEW c \in Channels, NEW r \in Rows PROVE Once(c, r)'
  BY DEF OnceInv, Channels
<1>0. Once(c, r) /\ PassesSound
  BY DEF OnceInv, ReminderShape
<1>1. CASE Poll
  <2>1. PICK q \in Passes : StartPass(q)
    BY <1>1 DEF Poll
  <2>2. pass'[q].phase \in {"idle", "ask"} /\ \A p \in Passes : p # q => pass'[p] = pass[p]
    BY <2>1, StartPassShaped
  <2>3. ~Holds(q, c, r)' /\ ~Holds(q, c, r)
    BY <2>1, <2>2 DEF Holds, StartPass, InPhase
  <2>4. now' = now /\ row' = row /\ key' = key /\ sent' = sent /\ excused' = excused
    BY <2>1 DEF StartPass
  <2>5. QED BY <1>0, <2>2, <2>3, <2>4, Elsewhere
<1>2. ASSUME NEW q \in Passes, Ask(q) PROVE Once(c, r)'
  BY <1>0, <1>2, AskOnce
<1>3. ASSUME NEW q \in Passes, Send(q) PROVE Once(c, r)'
  BY <1>0, <1>3, SendOnce
<1>4. ASSUME NEW q \in Passes, Refused(q) PROVE Once(c, r)'
  <2>1. pass[q].phase = "send" /\ Proceed(q, After(pass[q]))
    BY <1>4 DEF Refused, InPhase
  <2>2. pass'[q].phase \in {"idle", "ask"} /\ \A p \in Passes : p # q => pass'[p] = pass[p]
    BY <1>0, <2>1, MovesOn
  <2>3. ~Holds(q, c, r)'
    BY <2>2 DEF Holds
  <2>4. now' = now /\ row' = row /\ key' = key /\ sent' = sent /\ excused' = excused
    BY <1>4 DEF Refused
  <2>5. QED BY <1>0, <2>1, <2>2, <2>3, <2>4, Elsewhere
<1>5. ASSUME NEW q \in Passes, Mark(q) PROVE Once(c, r)'
  BY <1>0, <1>5, MarkOnce
<1>6. CASE Disconnect
  <2>1. now' = now /\ row' = row /\ key' = key /\ sent' = sent
    BY <1>6 DEF Disconnect
  <2>2. \A q \in Passes : Holds(q, c, r)' => pass'[q] = pass[q]
    BY <1>0, <1>6, CutShaped DEF Holds
  <2>3. \A q \in Passes : Holds(q, c, r) => <<c, r>> \in InHand(q)
    BY DEF Holds, InHand, InPhase
  <2>4. QED BY <1>0, <1>6, <2>1, <2>2, <2>3, CutShaped, LettingGo
<1>7. CASE Reconnect
  BY <1>0, <1>7, LettingGo DEF Reconnect, Counts
<1>8. CASE Restart
  <2>1. now' = now /\ row' = row /\ key' = key /\ sent' = sent /\ excused \subseteq excused'
    BY <1>8 DEF Restart
  <2>2. \A q \in Passes : ~Holds(q, c, r)'
    BY <1>8 DEF Restart, Resting, Holds
  <2>3. \A q \in Passes : Holds(q, c, r) => <<c, r>> \in excused'
    BY <1>8 DEF Restart, Holds, InHand, InPhase
  <2>4. QED BY <1>0, <2>1, <2>2, <2>3, LettingGo
<1>9. CASE Tick
  BY <1>0, <1>9, TickOnce
<1>10. ASSUME NEW s \in Rows, Complete(s) PROVE Once(c, r)'
  <2>1. row'[r].at = row[r].at
    BY <1>10 DEF Complete, ReminderShape, RowsTyped
  <2>2. QED BY <1>0, <1>10, <2>1, LettingGo DEF Complete, Counts
<1>11. ASSUME NEW s \in Rows, NEW at \in Moments, Move(s, at) PROVE Once(c, r)'
  BY <1>0, <1>11, MoveOnce
<1>12. CASE UNCHANGED reminderVars
  BY <1>0, <1>12, LettingGo DEF reminderVars
<1>13. QED
  BY <1>1, <1>2, <1>3, <1>4, <1>5, <1>6, <1>7, <1>8, <1>9, <1>10, <1>11, <1>12 DEF ReminderNext, Work

LEMMA OnceInit == ReminderInit => OnceInv
BY DEF ReminderInit, OnceInv, Once, InOneHand, SentByNone, SentIsKept, Holds, Resting

LEMMA RemindersAlways == ReminderSpec => [](ReminderShape /\ OnceInv)
<1>1. ReminderInit => ReminderShape /\ OnceInv
  BY ReminderShapeInit, OnceInit
<1>2. ReminderShape /\ OnceInv /\ [ReminderNext]_reminderVars => (ReminderShape /\ OnceInv)'
  BY ReminderShapeNext, OnceNext
<1>3. QED BY <1>1, <1>2, PTL DEF ReminderSpec

(* The state of the reminder loop keeps its shape, however many passes     *)
(* are under way: no pass has a follow-up twice or more than a batch of    *)
(* them (getReminderCandidates, loopOnce).                                 *)
THEOREM ReminderTypeCorrect == ReminderSpec => []ReminderTypeOK
BY RemindersAlways, ShapeIsType, PTL

(* For any number of passes, follow-ups, cuts and refusals, the reminder   *)
(* of one time goes out twice only where a pass asked while another had    *)
(* it in hand or too late, or was cut off before it marked: asking before, *)
(* marking after and the life of a key do the rest (loopOnce).             *)
THEOREM NoReminderTwice == ReminderSpec => []RemindedOnce
<1>1. OnceInv => RemindedOnce
  BY DEF OnceInv, Once, RemindedOnce
<1>2. QED BY <1>1, RemindersAlways, PTL
=============================================================================
