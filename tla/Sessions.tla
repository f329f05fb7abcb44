------------------------------ MODULE Sessions ------------------------------
(***************************************************************************)
(* The sessions of one account.  A browser keeps a refresh token in a      *)
(* cookie; the server keeps in Redis which tokens have a session, which    *)
(* have been spent, and for a short while the answer each spent one got.   *)
(* A refresh spends the token and answers with the next.  Beside it, the   *)
(* links that reset a forgotten password, of which only the newest is      *)
(* meant to work, and which end all sessions when one is used.             *)
(*                                                                         *)
(* Every access to Redis or to the database is a step; Redis may be away   *)
(* at any of them, in which case reads find nothing and writes are skipped.*)
(*                                                                         *)
(* Abstracted: signatures and the seven days all of this lasts; whether    *)
(* the credentials, the role and the workspace are right, which refuses a  *)
(* login before anything is written; the repair of the owner's role and of *)
(* the onboarding flag; device tracking and the audit log.  Keys have no   *)
(* prefix (REDIS_KEY_PREFIX is unset), and the cookie and the body of a    *)
(* request carry the same token.  A link does not expire here.             *)
(***************************************************************************)
EXTENDS Naturals, FiniteSets

CONSTANTS
    Tokens,      \* refresh tokens, by tokenId
    Tabs,        \* requests of the browser that can be in flight together
    Links,       \* password reset links
    Desks,       \* requests about links that can be in flight together
    MaxErrors,   \* bound: answers that are errors or get lost
    None         \* no token

ASSUME SessionsAssumption ==
    None \notin Tokens /\ IsFiniteSet(Links) /\ MaxErrors \in Nat

VARIABLES
    ready,       \* redisClient.isReady
    session,     \* refresh:<id>
    used,        \* refresh:used:<id>
    replay,      \* refresh:replay:<id>, the token in the remembered answer
    issued,      \* tokens ever given out
    cookie,      \* the token the browser holds
    active,      \* user.isActive
    link,        \* PasswordResetToken rows
    resets,      \* links used so far, as their number
    op,          \* the request in each tab and at each desk
    errors       \* answers lost or failed so far

redis == <<session, used, replay>>
vars  == <<ready, session, used, replay, issued, cookie, active, link, resets, op, errors>>

-----------------------------------------------------------------------------
MaybeToken == Tokens \cup {None}
Resets     == 0 .. Cardinality(Links)
Link       == [state : {"none", "unused", "used", "deleted"}, after : Resets]

Request ==
    [kind : {"idle"}]
      \cup [kind : {"check", "replay", "session", "revoke", "mark", "load"}, token : Tokens]
      \cup [kind : {"keep", "answer"}, token : MaybeToken, next : Tokens]
      \cup [kind : {"cache", "replayed"}, token : Tokens, next : Tokens]
      \cup [kind : {"refuse", "clear"}]
      \cup [kind : {"logout"}, token : Tokens]
      \cup [kind : {"send", "sweep"}]
      \cup [kind : {"reset"}, link : Links]

(* Shape of the variables; what is remembered of a token was given out.    *)
TypeOK ==
    /\ ready \in BOOLEAN /\ active \in BOOLEAN
    /\ issued \subseteq Tokens
    /\ session \subseteq issued /\ used \subseteq issued
    /\ replay \in [Tokens -> issued \cup {None}]
    /\ cookie \in issued \cup {None}
    /\ link \in [Links -> Link] /\ resets \in Resets
    /\ op \in [Tabs \cup Desks -> Request]
    /\ errors \in 0 .. MaxErrors

-----------------------------------------------------------------------------
Idle         == [kind |-> "idle"]
Become(w, h) == op' = [op EXCEPT ![w] = h]
Begin(w, h)  == op[w] = Idle /\ Become(w, h)
Finish(w)    == Become(w, Idle)
At(w, kind)  == op[w].kind = kind
Go(w, kind)  == Become(w, [op[w] EXCEPT !.kind = kind])
Account      == <<active, link, resets>>

-----------------------------------------------------------------------------
(* login and googleLogin: a new token, remembered if Redis is there.       *)
Login(w, next) ==
    /\ active /\ next \notin issued
    /\ Begin(w, [kind |-> "keep", token |-> None, next |-> next])
    /\ issued' = issued \cup {next}
    /\ UNCHANGED <<ready, redis, cookie, Account, errors>>

(* refreshToken.  waitForRedisReady answers 503 and the browser keeps its  *)
(* cookie; nothing has begun.                                              *)
Refresh(w) ==
    /\ cookie # None /\ ready
    /\ Begin(w, [kind |-> "check", token |-> cookie])
    /\ UNCHANGED <<ready, redis, issued, cookie, Account, errors>>

(* A token that has been spent is refused before the remembered answer is  *)
(* looked at.                                                              *)
CheckUsed(w) ==
    /\ At(w, "check")
    /\ IF ready /\ op[w].token \in used THEN Become(w, [kind |-> "refuse"]) ELSE Go(w, "replay")
    /\ UNCHANGED <<ready, redis, issued, cookie, Account, errors>>

(* A command that fails in the middle counts as a bad token too.           *)
CheckFails(w) ==
    /\ At(w, "check") /\ errors < MaxErrors
    /\ errors' = errors + 1
    /\ Become(w, [kind |-> "refuse"])
    /\ UNCHANGED <<ready, redis, issued, cookie, Account>>

ReadReplay(w) ==
    /\ At(w, "replay")
    /\ LET kept == replay[op[w].token]
       IN  IF ready /\ kept # None
           THEN Become(w, [kind |-> "replayed", token |-> op[w].token, next |-> kept])
           ELSE Go(w, "session")
    /\ UNCHANGED <<ready, redis, issued, cookie, Account, errors>>

(* A session that is not found is restored from the token alone.           *)
ReadSession(w) ==
    /\ At(w, "session")
    /\ Go(w, IF ready /\ op[w].token \in session THEN "revoke" ELSE "load")
    /\ UNCHANGED <<ready, redis, issued, cookie, Account, errors>>

Revoke(w) ==
    /\ At(w, "revoke")
    /\ session' = IF ready THEN session \ {op[w].token} ELSE session
    /\ Go(w, "mark")
    /\ UNCHANGED <<ready, used, replay, issued, cookie, Account, errors>>

MarkUsed(w) ==
    /\ At(w, "mark")
    /\ used' = IF ready THEN used \cup {op[w].token} ELSE used
    /\ Go(w, "load")
    /\ UNCHANGED <<ready, session, replay, issued, cookie, Account, errors>>

(* The account is loaded; an inactive one is answered 403 and the cookie   *)
(* stays.                                                                  *)
LoadUser(w, next) ==
    /\ At(w, "load") /\ active
    /\ next \notin issued
    /\ issued' = issued \cup {next}
    /\ Become(w, [kind |-> "keep", token |-> op[w].token, next |-> next])
    /\ UNCHANGED <<ready, redis, cookie, Account, errors>>

StoreSpent(w) ==                                                     \* mutant
    /\ At(w, "keep")
    /\ session' = IF ready THEN session \cup {op[w].next} ELSE session
    /\ used' = IF ready THEN used \cup {op[w].next} ELSE used
    /\ Go(w, IF op[w].token = None THEN "answer" ELSE "cache")
    /\ UNCHANGED <<ready, replay, issued, cookie, Account, errors>>

StoreAndCache(w) ==                                                  \* mutant
    /\ At(w, "keep")
    /\ session' = IF ready THEN session \cup {op[w].next} ELSE session
    /\ Go(w, "cache")
    /\ UNCHANGED <<ready, used, replay, issued, cookie, Account, errors>>

StoreSession(w) ==
    /\ At(w, "keep")
    /\ session' = IF ready THEN session \cup {op[w].next} ELSE session
    /\ Go(w, IF op[w].token = None THEN "answer" ELSE "cache")
    /\ UNCHANGED <<ready, used, replay, issued, cookie, Account, errors>>

CacheReplay(w) ==
    /\ At(w, "cache")
    /\ replay' = IF ready THEN [replay EXCEPT ![op[w].token] = op[w].next] ELSE replay
    /\ Go(w, "answer")
    /\ UNCHANGED <<ready, session, used, issued, cookie, Account, errors>>

(* The answers that reach the browser.  401 clears the cookie; a           *)
(* remembered answer sets none, the client may take the token of its body. *)
Answer(w) ==
    /\ At(w, "answer")
    /\ cookie' = op[w].next
    /\ Finish(w)
    /\ UNCHANGED <<ready, redis, issued, Account, errors>>

AnswerReplayed(w) ==
    /\ At(w, "replayed")
    /\ cookie' \in {cookie, op[w].next}
    /\ Finish(w)
    /\ UNCHANGED <<ready, redis, issued, Account, errors>>

ClearCookie(w) ==
    /\ At(w, "refuse") \/ At(w, "clear")
    /\ cookie' = None
    /\ Finish(w)
    /\ UNCHANGED <<ready, redis, issued, Account, errors>>

(* An answer is an error or is lost, or the process dies: the browser      *)
(* keeps what it has.                                                      *)
Lose(w) ==
    /\ op[w] # Idle /\ errors < MaxErrors
    /\ errors' = errors + 1
    /\ Finish(w)
    /\ UNCHANGED <<ready, redis, issued, cookie, Account>>

RefuseInactive(w) ==
    /\ At(w, "load") /\ ~active /\ errors < MaxErrors
    /\ errors' = errors + 1
    /\ Finish(w)
    /\ UNCHANGED <<ready, redis, issued, cookie, Account>>

(* logout: the cookie is cleared with the answer.                          *)
Logout(w) ==
    /\ cookie # None
    /\ Begin(w, [kind |-> "logout", token |-> cookie])
    /\ UNCHANGED <<ready, redis, issued, cookie, Account, errors>>

DeleteSession(w) ==
    /\ At(w, "logout")
    /\ session' = session \ {op[w].token}
    /\ Become(w, [kind |-> "clear"])
    /\ UNCHANGED <<ready, used, replay, issued, cookie, Account, errors>>

-----------------------------------------------------------------------------
(* invalidateUserSessions deletes every key that starts with refresh: and  *)
(* holds the account, the marks of spent tokens among them.                *)
Sweep == /\ session' = IF ready THEN {} ELSE session
         /\ used' = IF ready THEN {} ELSE used
         /\ UNCHANGED replay

(* requestReset: the unused links are deleted, then one is created.        *)
RequestReset(w) ==
    /\ active
    /\ Begin(w, [kind |-> "send"])
    /\ link' = [l \in Links |-> IF link[l].state = "unused"
                                THEN [link[l] EXCEPT !.state = "deleted"] ELSE link[l]]
    /\ UNCHANGED <<ready, redis, issued, cookie, active, resets, errors>>

SendLink(w, l) ==
    /\ At(w, "send") /\ link[l].state = "none"
    /\ link' = [link EXCEPT ![l] = [state |-> "unused", after |-> resets]]
    /\ Finish(w)
    /\ UNCHANGED <<ready, redis, issued, cookie, active, resets, errors>>

(* resetPassword: the link is looked up, and the password, the link and    *)
(* the other unused links are written together.                            *)
ResetRead(w, l) ==
    /\ active /\ link[l].state = "unused"
    /\ Begin(w, [kind |-> "reset", link |-> l])
    /\ UNCHANGED <<ready, redis, issued, cookie, Account, errors>>

ResetThisOnly(w) ==                                                  \* mutant
    /\ At(w, "reset") /\ link[op[w].link].state \in {"unused", "used"}
    /\ link' = [link EXCEPT ![op[w].link].state = "used"]
    /\ resets' = IF link[op[w].link].state = "unused" THEN resets + 1 ELSE resets
    /\ Become(w, [kind |-> "sweep"])
    /\ UNCHANGED <<ready, redis, issued, cookie, active, errors>>

ResetWrite(w) ==
    /\ At(w, "reset") /\ link[op[w].link].state \in {"unused", "used"}
    /\ link' = [l \in Links |->
                  IF l = op[w].link THEN [link[l] EXCEPT !.state = "used"]
                  ELSE IF link[l].state = "unused" THEN [link[l] EXCEPT !.state = "deleted"]
                  ELSE link[l]]
    /\ resets' = IF link[op[w].link].state = "unused" THEN resets + 1 ELSE resets
    /\ Become(w, [kind |-> "sweep"])
    /\ UNCHANGED <<ready, redis, issued, cookie, active, errors>>

(* The link went away meanwhile: the transaction fails.                    *)
ResetRefused(w) ==
    /\ At(w, "reset") /\ link[op[w].link].state = "deleted"
    /\ Finish(w)
    /\ UNCHANGED <<ready, redis, issued, cookie, Account, errors>>

ResetSweep(w) ==
    /\ At(w, "sweep")
    /\ Sweep
    /\ Finish(w)
    /\ UNCHANGED <<ready, issued, cookie, Account, errors>>

(* resetPasswordWithToken, and the lock of an account: a sweep too.        *)
OtherSweep ==
    /\ Sweep
    /\ UNCHANGED <<ready, issued, cookie, Account, op, errors>>

(* The account is deactivated or activated again (module Seats).           *)
Activate ==
    /\ active' = ~active
    /\ UNCHANGED <<ready, redis, issued, cookie, link, resets, op, errors>>

-----------------------------------------------------------------------------
(* Redis goes away and comes back, with its keys or without.               *)
RedisDown == ready /\ ready' = FALSE
             /\ UNCHANGED <<redis, issued, cookie, Account, op, errors>>
RedisUp ==
    /\ ~ready /\ ready' = TRUE
    /\ \/ UNCHANGED redis
       \/ session' = {} /\ used' = {} /\ replay' = [t \in Tokens |-> None]
    /\ UNCHANGED <<issued, cookie, Account, op, errors>>

(* A remembered answer lasts REFRESH_REPLAY_TTL_SEC.                       *)
ForgetReplay(t) ==
    /\ replay[t] # None
    /\ replay' = [replay EXCEPT ![t] = None]
    /\ UNCHANGED <<ready, session, used, issued, cookie, Account, op, errors>>

Init ==
    /\ ready = TRUE /\ active = TRUE
    /\ session = {} /\ used = {} /\ issued = {}
    /\ replay = [t \in Tokens |-> None]
    /\ cookie = None
    /\ link = [l \in Links |-> [state |-> "none", after |-> 0]]
    /\ resets = 0 /\ errors = 0
    /\ op = [w \in Tabs \cup Desks |-> Idle]

TabStep(w) ==
    \/ \E t \in Tokens : Login(w, t) \/ LoadUser(w, t)
    \/ Refresh(w) \/ CheckUsed(w) \/ CheckFails(w) \/ ReadReplay(w) \/ ReadSession(w)
    \/ Revoke(w) \/ MarkUsed(w) \/ StoreSession(w) \/ CacheReplay(w) \/ Answer(w) \/ AnswerReplayed(w)
    \/ ClearCookie(w) \/ RefuseInactive(w)
    \/ Logout(w) \/ DeleteSession(w) \/ Lose(w)

DeskStep(w) ==
    \/ RequestReset(w) \/ ResetWrite(w) \/ ResetRefused(w) \/ ResetSweep(w)
    \/ Lose(w)
    \/ \E l \in Links : SendLink(w, l) \/ ResetRead(w, l)

Next ==
    \/ \E w \in Tabs : TabStep(w)
    \/ \E w \in Desks : DeskStep(w)
    \/ OtherSweep \/ Activate \/ RedisDown \/ RedisUp
    \/ \E t \in Tokens : ForgetReplay(t)

Spec == Init /\ [][Next]_vars

-----------------------------------------------------------------------------
(* Redis may fail, forget or be swept at any step of a refresh: a browser  *)
(* with one request at a time that has had every answer holds a token that *)
(* has not been spent, and its next refresh is not refused.  (With two, an *)
(* answer that is overtaken by the next refresh brings a spent token back.)*)
KeepsSession ==
    (errors = 0 /\ cookie # None /\ \A w \in Tabs : op[w] = Idle) => cookie \notin used

(* However requests for links and uses of them overlap, no link outlives   *)
(* the use of another: an unused one was created after the last reset.     *)
LinksEndWithReset ==
    \A l \in Links : link[l].state = "unused" => link[l].after = resets

(* "Rotate (replay cache above handles parallel callers with the same      *)
(* token)", says authController.ts:1018.  A caller that comes back with a   *)
(* spent token, for want of an answer or beside another, is refused before *)
(* that cache is read.                                                     *)
ParallelCallersAnswered ==
    \A w \in Tabs : At(w, "refuse") => cookie = None
=============================================================================
