------------------------------- MODULE WebAuth -------------------------------
(***************************************************************************)
(* The login session in the browser: the tabs of the web front end, their  *)
(* shared cookie jar, and the server they refresh against                  *)
(* (web/src/lib/auth-session.ts, auth-session-sync.ts, http-client.ts,     *)
(* stores/auth-store.ts, routes/__root.tsx, features/auth/api.ts;          *)
(* controller/auth_session.go and service/auth_session.go).                *)
(*                                                                         *)
(* Every tab keeps the access token in memory and shares the refresh       *)
(* cookie with the others.  A refresh rotates the cookie; a replayed old   *)
(* cookie makes the server revoke the whole session.  Tabs coordinate by a *)
(* browser lock, by an epoch that makes answers to old refreshes void, and *)
(* by broadcast events.                                                    *)
(*                                                                         *)
(* A refresh secret is represented by its age in its session: 0 is the     *)
(* current one, 1 the previous one, 2 any older one; a rotation ages every *)
(* copy wherever it is.  The epoch is represented by its only use: whether *)
(* it still is what it was when the refresh in flight began.               *)
(***************************************************************************)
EXTENDS Integers, Sequences, FiniteSets

CONSTANTS
    Tabs,           \* open tabs of one browser
    Sids,           \* login sessions that can be created, all of one user
    First,          \* the session the tabs begin with
    NoSid,          \* no session
    NoTab,          \* nobody holds the browser lock
    HasLocks,       \* navigator.locks exists (a secure context)
    MaxAdvance,     \* bound: security changes that advance a session's version
    MaxUses,        \* bound: what users and pages begin besides logging in
    Faults,         \* subset of FaultKinds that may happen
    MaxFaults       \* bound: answers and events that go astray

\* "lost": an answer does not arrive; "failing": the server answers 5xx or 429;
\* "race": it answers AUTH_REFRESH_RACE; "odd": it answers something else; "late":
\* a broadcast event is ignored; "reload": the user loads the page again.
FaultKinds == {"lost", "failing", "race", "odd", "late", "reload"}

ASSUME WebAuthAssumption ==
    /\ NoSid \notin Sids /\ First \in Sids
    /\ NoTab \notin Tabs
    /\ HasLocks \in BOOLEAN
    /\ MaxAdvance \in Nat
    /\ MaxUses \in Nat
    /\ Faults \subseteq FaultKinds
    /\ MaxFaults \in Nat

VARIABLES
    row,        \* user_sessions: status, version, is the previous secret valid,
                \* did the user's security change since the session was issued
    jar,        \* the refresh cookie
    store,      \* useAuthStore of each tab: session and its token's version
    ref,        \* refreshPromise of each tab and the runner behind it
    call,       \* an api request of the tab that got 401 and waits or retries
    op,         \* login, logout or security change of the tab in flight
    inbox,      \* broadcast events not yet delivered to a tab
    lock,       \* holder of 'new-api:auth-refresh'
    orphans,    \* refresh requests whose page is gone
    history,    \* did an answer get lost; did the server see a replay
    uses        \* what users and pages began, and what went astray, so far

vars == <<row, jar, store, ref, call, op, inbox, lock, orphans, history, uses>>

-----------------------------------------------------------------------------
(* Values *)

SidOrNone == Sids \cup {NoSid}
Cookies == [sid : SidOrNone, age : 0..2]
NoCookie == [sid |-> NoSid, age |-> 0]
Versions == 0..MaxAdvance

\* What the runner makes of an HTTP answer, and what the answer does to the jar.
Codes == {"ok", "race", "mismatch", "denied", "transient", "odd"}
JarEffects == {"keep", "clear", "set"}
Answers == [code : Codes, jar : JarEffects, cookie : Cookies, ver : Versions]
Answer(code, effect, cookie, ver) ==
    [code |-> code, jar |-> effect, cookie |-> cookie, ver |-> ver]
NoAnswer == Answer("odd", "keep", NoCookie, 0)

Steps == {"none", "lock", "sent", "back", "wait"}
Refreshes == [pc : Steps, cur : BOOLEAN, race : 0..3, retry : BOOLEAN,
              exp : SidOrNone, cookie : Cookies, ans : Answers]
NoRefresh == [pc |-> "none", cur |-> FALSE, race |-> 0, retry |-> FALSE,
              exp |-> NoSid, cookie |-> NoCookie, ans |-> NoAnswer]

\* The request leaves, in the same turn of the event loop, with the session
\* the tab believes in and the cookie of the browser.
Sending(r, sid, cookie) ==
    [r EXCEPT !.pc = "sent", !.exp = sid, !.cookie = cookie, !.ans = NoAnswer]

\* refreshAuthentication: one promise per tab, begun in the current epoch by a
\* tab that has session sid, with the given cookie in the jar.
NewRefresh(sid, cookie) ==
    LET r == [NoRefresh EXCEPT !.cur = TRUE, !.retry = TRUE] IN
    IF HasLocks THEN [r EXCEPT !.pc = "lock"] ELSE Sending(r, sid, cookie)
JoinRefresh(t) == IF ref[t].pc = "none" THEN NewRefresh(store[t].sid, jar) ELSE ref[t]

OpKinds == {"none", "login", "logout", "logoutRefresh", "logoutAgain",
            "logoutDone", "revoke", "advance", "advanceAlone", "rotation"}
Ops == [kind : OpKinds, sid : SidOrNone, ver : Versions, clear : BOOLEAN]
Op(kind, sid, ver, clear) ==
    [kind |-> kind, sid |-> sid, ver |-> ver, clear |-> clear]
NoOp == Op("none", NoSid, 0, FALSE)

Events == [kind : {"authenticated", "signed_out"}, sid : Sids]

\* An access token: its session and the version it was issued for.
Tokens == [sid : SidOrNone, ver : Versions]
SignedOut == [sid |-> NoSid, ver |-> 0]

\* The api request and the token it was repeated with.
Calls == [pc : {"none", "await", "retry", "refused", "leave"}, token : Tokens]
Call(pc) == [pc |-> pc, token |-> SignedOut]
Rows == [status : {"none", "active", "revoked"}, grace : BOOLEAN, ver : Versions,
         old : BOOLEAN]

-----------------------------------------------------------------------------
(* The tab's own operations on its state *)

\* authEpoch += 1, as far as the refresh in flight can tell.
Supersede(r) == [r EXCEPT !.cur = FALSE]

\* publishAuthSessionEvent: to every tab but the publisher.
Publish(t, kind, sid) ==
    [u \in Tabs |-> IF u = t THEN inbox[u]
                    ELSE Append(inbox[u], [kind |-> kind, sid |-> sid])]

\* applyAuthBundle(bundle): setBundle, new epoch, event when the session changed.
ApplyAuthBundle(t, sid, ver, sync) ==
    /\ store' = [store EXCEPT ![t] = [sid |-> sid, ver |-> ver]]
    /\ inbox' = IF sync /\ store[t].sid # sid
                THEN Publish(t, "authenticated", sid) ELSE inbox

\* clearAuthentication: reset, new epoch, event when there was a session.
ClearAuthentication(t, sync) ==
    /\ store' = [store EXCEPT ![t] = SignedOut]
    /\ inbox' = IF sync /\ store[t].sid # NoSid
                THEN Publish(t, "signed_out", store[t].sid) ELSE inbox

\* The browser applies Set-Cookie when the answer arrives, whoever waits for it.
StoreCookie(ans) ==
    CASE ans.jar = "set"   -> ans.cookie
      [] ans.jar = "clear" -> NoCookie
      [] ans.jar = "keep"  -> jar

-----------------------------------------------------------------------------
(* The server *)

Ageing(c, s) == IF c.sid = s /\ c.age < 2 THEN [c EXCEPT !.age = @ + 1] ELSE c

\* The copies of a cookie outside the answer being made, one rotation later.
AgeRefresh(r, s) ==
    [r EXCEPT !.cookie = Ageing(@, s), !.ans.cookie = Ageing(@, s)]

\* RefreshAuth, RefreshLoginSession and RotateUserSessionRefresh: what the
\* server answers to the cookie c and the X-Auth-Session header exp.
RefreshAnswer(c, exp) ==
    CASE c.sid = NoSid ->
            Answer("denied", "clear", NoCookie, 0)
      [] c.sid # NoSid /\ exp \notin {NoSid, c.sid} ->
            Answer("mismatch", "keep", NoCookie, 0)
      [] c.sid # NoSid /\ exp \in {NoSid, c.sid} /\ row[c.sid].status = "active"
         /\ ~row[c.sid].old /\ (c.age = 0 \/ (c.age = 1 /\ row[c.sid].grace)) ->
            Answer("ok", "set", [c EXCEPT !.age = 0], row[c.sid].ver)
      [] OTHER ->
            Answer("denied", "clear", NoCookie, 0)

\* The current secret rotates; the previous one is answered with the secret
\* derived from it inside the replay window and revokes the session after it.
Rotates(c, exp) == RefreshAnswer(c, exp).code = "ok" /\ c.age = 0
Addressed(c, exp) == /\ c.sid # NoSid /\ exp \in {NoSid, c.sid}
                     /\ row[c.sid].status = "active"
Replayed(c, exp) == /\ Addressed(c, exp) /\ ~row[c.sid].old
                    /\ c.age = 1 /\ ~row[c.sid].grace

\* A session older than the user's last security change is revoked as well,
\* whatever the secret.
Outdated(c, exp) == Addressed(c, exp) /\ row[c.sid].old

ServerEffect(c, exp) ==
    /\ row' = IF Rotates(c, exp) THEN [row EXCEPT ![c.sid].grace = TRUE]
              ELSE IF Replayed(c, exp) \/ Outdated(c, exp) THEN [row EXCEPT ![c.sid].status = "revoked"]
              ELSE row
    /\ history' = [history EXCEPT !.replayed = @ \/ Replayed(c, exp)]

\* Every copy of the cookie ages when the session rotates.
AgedRefreshes(c, exp) ==
    IF Rotates(c, exp) THEN [t \in Tabs |-> AgeRefresh(ref[t], c.sid)] ELSE ref
AgedOrphans(rest, c, exp) ==
    IF Rotates(c, exp) THEN {[o EXCEPT !.cookie = Ageing(@, c.sid)] : o \in rest}
    ELSE rest

\* The answer travels back; the cookie the request carried is not needed any more.
Answered(r, ans) == [r EXCEPT !.pc = "back", !.ans = ans, !.cookie = NoCookie]

\* The server handles the refresh request of tab t.
ServerRefresh(t) ==
    /\ ref[t].pc = "sent"
    /\ LET c == ref[t].cookie  exp == ref[t].exp IN
        /\ ServerEffect(c, exp)
        /\ ref' = [AgedRefreshes(c, exp) EXCEPT
                      ![t] = Answered(ref[t], RefreshAnswer(c, exp))]
        /\ jar' = IF Rotates(c, exp) THEN Ageing(jar, c.sid) ELSE jar
        /\ orphans' = AgedOrphans(orphans, c, exp)
    /\ UNCHANGED <<store, call, op, inbox, lock>>

\* The same for a request whose page was reloaded: nobody gets the answer.
ServerOrphan(o) ==
    /\ o \in orphans
    /\ ServerEffect(o.cookie, o.exp)
    /\ ref' = AgedRefreshes(o.cookie, o.exp)
    /\ jar' = IF Rotates(o.cookie, o.exp) THEN Ageing(jar, o.cookie.sid) ELSE jar
    /\ orphans' = AgedOrphans(orphans \ {o}, o.cookie, o.exp)
    /\ UNCHANGED <<store, call, op, inbox, lock>>

\* RefreshReplayWindow ends for the previous secret of s.
GraceEnds(s) ==
    /\ row[s].grace
    /\ row' = [row EXCEPT ![s].grace = FALSE]
    /\ UNCHANGED <<jar, store, ref, call, op, inbox, lock, orphans, history>>

\* The server answers the refresh of tab t with code and does nothing.
ServerRefuses(t, code) ==
    /\ ref[t].pc = "sent"
    /\ ref' = [ref EXCEPT ![t] = Answered(@, Answer(code, "keep", NoCookie, 0))]
    /\ UNCHANGED <<row, jar, store, call, op, inbox, lock, orphans, history>>

\* A server that does not derive secrets reports a race.
ServerRace(t) ==
    /\ "race" \in Faults /\ ref[t].cookie.age = 1
    /\ ServerRefuses(t, "race")

\* The faults of one request: the server fails (5xx or 429), or the client does
\* not understand the answer; it, or its answer, is lost.
ServerFault(t) ==
    \/ "failing" \in Faults /\ ServerRefuses(t, "transient")
    \/ "odd" \in Faults /\ ServerRefuses(t, "odd")

AnswerLost(t) ==
    /\ "lost" \in Faults
    /\ ref[t].pc = "back"
    /\ ref[t].ans.code # "transient"
    /\ ref' = [ref EXCEPT ![t].ans = Answer("transient", "keep", NoCookie, 0)]
    /\ history' = [history EXCEPT !.lost = TRUE]
    /\ UNCHANGED <<row, jar, store, call, op, inbox, lock, orphans>>

-----------------------------------------------------------------------------
(* The refresh runner of a tab: createRefreshRunner, runRefresh *)

\* The promise of refreshAuthentication resolves: the lock is released, a
\* waiting api request repeats, fails or leaves the page, and a waiting logout
\* goes on with the outcome.
Settle(t, outcome) ==
    /\ ref' = [ref EXCEPT ![t] = NoRefresh]
    /\ lock' = IF lock = t THEN NoTab ELSE lock
    /\ call' = IF call[t].pc # "await" THEN call
               ELSE [call EXCEPT ![t] =
                  CASE outcome = "authenticated" -> [pc |-> "retry", token |-> store'[t]]
                    [] outcome = "transient_error" -> Call("none")
                    [] OTHER -> Call("leave")]
    /\ op' = IF op[t].kind # "logoutRefresh" THEN op
             ELSE [op EXCEPT ![t] =
                     CASE outcome = "authenticated" -> Op("logoutAgain", NoSid, 0, FALSE)
                       [] outcome = "anonymous" -> Op("logoutDone", NoSid, 0, FALSE)
                       [] OTHER -> NoOp]

\* Mutant of RefreshLock: the refresh does not wait for the lock.
RefreshWithoutLock(t) ==
    /\ ref[t].pc = "lock"
    /\ ref[t].cur
    /\ lock' = t
    /\ ref' = [ref EXCEPT ![t] = Sending(@, store[t].sid, jar)]
    /\ UNCHANGED <<row, jar, store, call, op, inbox, orphans, history>>

\* performRefreshWithBrowserLock: the lock is granted and the runner starts.
RefreshLock(t) ==
    /\ ref[t].pc = "lock"
    /\ lock = NoTab
    /\ ref[t].cur
    /\ lock' = t
    /\ ref' = [ref EXCEPT ![t] = Sending(@, store[t].sid, jar)]
    /\ UNCHANGED <<row, jar, store, call, op, inbox, orphans, history>>

\* A refresh begun in an earlier epoch sends nothing more and changes nothing,
\* but the browser keeps the cookie of its answer.
RefreshSuperseded(t) ==
    /\ ~ref[t].cur
    /\ \/ ref[t].pc = "lock" /\ lock = NoTab /\ UNCHANGED jar
       \/ ref[t].pc = "wait" /\ UNCHANGED jar
       \/ ref[t].pc = "back" /\ jar' = StoreCookie(ref[t].ans)
    /\ Settle(t, "transient_error")
    /\ UNCHANGED <<row, store, inbox, orphans, history>>

\* Mutant of Landing: the epoch is not looked at again after the request.
LandingInAnyEpoch(t, codes) ==
    /\ ref[t].pc = "back"
    /\ ref[t].ans.code \in codes
    /\ jar' = StoreCookie(ref[t].ans)

\* The answer to a refresh that is still current.
Landing(t, codes) ==
    /\ ref[t].pc = "back"
    /\ ref[t].cur
    /\ ref[t].ans.code \in codes
    /\ jar' = StoreCookie(ref[t].ans)

RefreshAccepted(t) ==
    /\ Landing(t, {"ok"})
    /\ ApplyAuthBundle(t, ref[t].ans.cookie.sid, ref[t].ans.ver, FALSE)
    /\ Settle(t, "authenticated")
    /\ UNCHANGED <<row, orphans, history>>

\* Mutant of RefreshRaced: one wait too many.
RefreshRacedOnceMore(t) ==
    /\ Landing(t, {"race"})
    /\ ref' = [ref EXCEPT ![t].pc = "wait", ![t].race = @ + 1, ![t].ans = NoAnswer]
    /\ UNCHANGED <<row, store, call, op, inbox, lock, orphans, history>>

\* AUTH_REFRESH_RACE: wait and try again, three times.
RefreshRaced(t) ==
    /\ Landing(t, {"race"})
    /\ ref[t].race < 3
    /\ ref' = [ref EXCEPT ![t].pc = "wait", ![t].race = @ + 1, ![t].ans = NoAnswer]
    /\ UNCHANGED <<row, store, call, op, inbox, lock, orphans, history>>

RefreshWaited(t) ==
    /\ ref[t].pc = "wait"
    /\ ref[t].cur
    /\ ref' = [ref EXCEPT ![t] = Sending(@, store[t].sid, jar)]
    /\ UNCHANGED <<row, jar, store, call, op, inbox, lock, orphans, history>>

\* AUTH_SESSION_MISMATCH: forget the session, in the same epoch, and take
\* whatever session the cookie is for.
RefreshMismatch(t) ==
    /\ Landing(t, {"mismatch"})
    /\ ref[t].retry
    /\ store' = [store EXCEPT ![t] = SignedOut]
    /\ ref' = [ref EXCEPT ![t] =
                 [Sending(@, NoSid, jar) EXCEPT !.race = 0, !.retry = FALSE]]
    /\ UNCHANGED <<row, call, op, inbox, lock, orphans, history>>

\* Everything else but a temporary failure signs the tab out locally.
RefreshOutOfSync(t) ==
    /\ Landing(t, {"odd", "race", "mismatch"})
    /\ ref[t].ans.code = "race" => ref[t].race = 3
    /\ ref[t].ans.code = "mismatch" => ~ref[t].retry
    /\ ClearAuthentication(t, FALSE)
    /\ Settle(t, "out_of_sync")
    /\ UNCHANGED <<row, orphans, history>>

\* Mutant of RefreshDenied: the tab keeps its session.
RefreshDeniedKeeps(t) ==
    /\ Landing(t, {"denied"})
    /\ Settle(t, "anonymous")
    /\ UNCHANGED <<row, store, inbox, orphans, history>>

\* 401: the other tabs of the session are told.
RefreshDenied(t) ==
    /\ Landing(t, {"denied"})
    /\ ClearAuthentication(t, TRUE)
    /\ Settle(t, "anonymous")
    /\ UNCHANGED <<row, orphans, history>>

RefreshTransient(t) ==
    /\ Landing(t, {"transient"})
    /\ Settle(t, "transient_error")
    /\ UNCHANGED <<row, store, inbox, orphans, history>>

-----------------------------------------------------------------------------
(* Who starts a refresh *)

\* bootstrapAuthentication on a navigation, and getFreshAuthHeaders when the access token is about to expire.
StartRefresh(t) ==
    /\ ref[t].pc = "none"
    /\ ref' = [ref EXCEPT ![t] = NewRefresh(store[t].sid, jar)]
    /\ UNCHANGED <<row, jar, store, call, op, inbox, lock, orphans, history>>

\* ValidateLoginSession
Valid(token) == /\ token.sid # NoSid
                /\ row[token.sid].status = "active"
                /\ row[token.sid].ver = token.ver
                /\ ~row[token.sid].old

\* An api request is answered with 401 (http-client): it joins the refresh.
ApiUnauthorized(t) ==
    /\ call[t].pc = "none"
    /\ call' = [call EXCEPT ![t] = Call("await")]
    /\ ref' = [ref EXCEPT ![t] = JoinRefresh(t)]
    /\ UNCHANGED <<row, jar, store, op, inbox, lock, orphans, history>>

\* The token is of a session that was revoked.
Dead(t) == store[t].sid # NoSid /\ row[store[t].sid].status = "revoked"
DeadTokenUsed(t) == Dead(t) /\ ApiUnauthorized(t)

\* The token has expired or is of an old version, or there is none.
ExpiredTokenUsed(t) == ~Dead(t) /\ ApiUnauthorized(t)

\* What the answer to a login, logout or revocation does to the jar.
OpCookie(t) ==
    IF op[t].kind = "login" THEN [sid |-> op[t].sid, age |-> 0]
    ELSE IF op[t].clear THEN NoCookie
    ELSE jar

\* window.location.reload / replace: the page and all it had in flight is gone.
\* The cookies of answers on their way may or may not be kept, and a security
\* change goes on without the page.  The new page has no session yet and starts
\* with a refresh (bootstrapAuthentication in beforeLoad of the root route).
LateCookies(t) ==
    {jar, OpCookie(t)} \cup (IF ref[t].pc = "back" THEN {StoreCookie(ref[t].ans)} ELSE {})

PageLoad(t) ==
    /\ store' = [store EXCEPT ![t] = SignedOut]
    /\ jar' \in LateCookies(t)
    /\ ref' = [ref EXCEPT ![t] = NewRefresh(NoSid, jar')]
    /\ lock' = IF lock = t THEN NoTab ELSE lock
    /\ call' = [call EXCEPT ![t] = Call("none")]
    /\ op' = [op EXCEPT ![t] = IF @.kind \in {"advance", "advanceAlone"}
                               THEN [@ EXCEPT !.kind = "advanceAlone"] ELSE NoOp]
    /\ inbox' = [inbox EXCEPT ![t] = <<>>]
    /\ orphans' = IF ref[t].pc # "sent" THEN orphans
                  ELSE orphans \cup {[cookie |-> ref[t].cookie, exp |-> ref[t].exp]}
    /\ history' = [history EXCEPT !.lost = @ \/ ref[t].pc \in {"sent", "back"}]
    /\ UNCHANGED row

\* The request was repeated once, with the token the refresh brought; the server
\* checks that token, whatever the tab has become since.
ApiRetry(t) ==
    /\ call[t].pc = "retry"
    /\ call' = [call EXCEPT ![t] = IF Valid(@.token) THEN Call("none") ELSE Call("refused")]
    /\ UNCHANGED <<row, jar, store, ref, op, inbox, lock, orphans, history>>

\* The second 401 arrives: it signs the tab out, also of a session it has got in
\* the meantime, and leaves the page.
ApiRefused(t) ==
    /\ call[t].pc = "refused"
    /\ call' = [call EXCEPT ![t] = Call("leave")]
    /\ ClearAuthentication(t, FALSE)
    /\ ref' = [ref EXCEPT ![t] = Supersede(@)]
    /\ UNCHANGED <<row, jar, op, lock, orphans, history>>

\* redirectToSignIn: nothing to do for a tab that is there already.
RedirectToSignIn(t) ==
    /\ call[t].pc = "leave"
    /\ \/ PageLoad(t)
       \/ /\ call' = [call EXCEPT ![t] = Call("none")]
          /\ UNCHANGED <<row, jar, store, ref, op, inbox, lock, orphans, history>>

Reload(t) ==
    /\ "reload" \in Faults
    /\ PageLoad(t)

-----------------------------------------------------------------------------
(* Login, logout, security changes, session list *)

\* The server handles a login, a logout or a security change in the step that
\* sends the request.  The answer, with its cookie, arrives later.
LoginRequest(t, s) ==
    /\ op[t].kind = "none"
    /\ store[t].sid = NoSid
    /\ row[s].status = "none"
    /\ row' = [row EXCEPT ![s].status = "active"]
    /\ op' = [op EXCEPT ![t] = Op("login", s, 0, FALSE)]
    /\ UNCHANGED <<jar, store, ref, call, inbox, lock, orphans, history>>

LoginArrives(t) ==
    /\ op[t].kind = "login"
    /\ jar' = OpCookie(t)
    /\ ApplyAuthBundle(t, op[t].sid, 0, TRUE)
    /\ ref' = [ref EXCEPT ![t] = Supersede(@)]
    /\ op' = [op EXCEPT ![t] = NoOp]
    /\ UNCHANGED <<row, call, lock, orphans, history>>

\* AuthLogout: by the bearer token when it parses (it may have expired),
\* otherwise by the cookie, whose secret must be current or in its window.
LogoutByBearer(t) ==
    /\ store[t].sid # NoSid
    /\ row' = [row EXCEPT ![store[t].sid].status = "revoked"]
    /\ op' = [op EXCEPT ![t] = Op("logout", NoSid, 0, jar.sid = store[t].sid)]

LogoutByCookie(t) ==
    /\ row' = IF jar.sid # NoSid /\ (jar.age = 0 \/ (jar.age = 1 /\ row[jar.sid].grace))
              THEN [row EXCEPT ![jar.sid].status = "revoked"] ELSE row
    /\ op' = [op EXCEPT ![t] = Op("logout", NoSid, 0, TRUE)]

Mismatched(t) == store[t].sid # NoSid /\ jar.sid \notin {NoSid, store[t].sid}

LogoutRequest(t) ==
    /\ ~Mismatched(t)
    /\ LogoutByBearer(t) \/ LogoutByCookie(t)
    /\ UNCHANGED <<jar, store, ref, call, inbox, lock, orphans, history>>

\* executeLogout: on a mismatch refresh first, then log out what that found;
\* a second mismatch is an error.
LogoutMismatch(t) ==
    /\ Mismatched(t)
    /\ op' = [op EXCEPT ![t] = Op("logoutRefresh", NoSid, 0, FALSE)]
    /\ ref' = [ref EXCEPT ![t] = JoinRefresh(t)]
    /\ UNCHANGED <<row, jar, store, call, inbox, lock, orphans, history>>

LogoutStart(t) ==
    /\ op[t].kind = "none"
    /\ store[t].sid # NoSid
    /\ LogoutRequest(t) \/ LogoutMismatch(t)

LogoutAgain(t) ==
    /\ op[t].kind = "logoutAgain"
    /\ IF ~Mismatched(t) THEN LogoutRequest(t)
       ELSE /\ op' = [op EXCEPT ![t] = NoOp]
            /\ UNCHANGED <<row, jar, store, ref, call, inbox, lock, orphans, history>>

\* The dialog clears this tab and tells the others; so does the session list
\* when the current session was the one signed out.
LogoutArrives(t) ==
    /\ op[t].kind \in {"logout", "logoutDone"}
    /\ jar' = OpCookie(t)
    /\ ClearAuthentication(t, TRUE)
    /\ ref' = [ref EXCEPT ![t] = Supersede(@)]
    /\ op' = [op EXCEPT ![t] = NoOp]
    /\ UNCHANGED <<row, call, lock, orphans, history>>

\* DeleteLoginSession of a session of the list by a valid tab.  The answer also
\* clears a cookie of the session, and signs the tab out if the session was its.
RevokeLoginSession(t, s) ==
    /\ op[t].kind = "none"
    /\ Valid(store[t])
    /\ row[s].status = "active"
    /\ row' = [row EXCEPT ![s].status = "revoked"]
    /\ op' = [op EXCEPT ![t] = Op(IF s = store[t].sid THEN "logout" ELSE "revoke",
                                  NoSid, 0, jar.sid = s)]
    /\ UNCHANGED <<jar, store, ref, call, inbox, lock, orphans, history>>

RevokeArrives(t) ==
    /\ op[t].kind = "revoke"
    /\ jar' = OpCookie(t)
    /\ op' = [op EXCEPT ![t] = NoOp]
    /\ UNCHANGED <<row, store, ref, call, inbox, lock, orphans, history>>

\* The answer to a login, logout, revocation or security change is lost or is an
\* error although the server did its part: the tab only shows a message.  Of a
\* request the server refuses nothing at all remains.
OpLost(t) ==
    /\ "lost" \in Faults
    /\ op[t].kind \in {"login", "logout", "revoke", "advance", "rotation"}
    /\ jar' \in {jar, OpCookie(t)}
    /\ op' = [op EXCEPT ![t] = IF @.kind = "advance"
                               THEN [@ EXCEPT !.kind = "advanceAlone"] ELSE NoOp]
    /\ UNCHANGED <<row, store, ref, call, inbox, lock, orphans, history>>

\* A change of password, passkey or second factor, with a new authentication
\* version of the user: every session is outdated from here on.
SecurityChange(t) ==
    /\ op[t].kind = "none"
    /\ Valid(store[t])
    /\ store[t].ver < MaxAdvance
    /\ row' = [s \in Sids |-> [row[s] EXCEPT !.old = row[s].status = "active"]]
    /\ op' = [op EXCEPT ![t] = Op("advance", store[t].sid, store[t].ver, FALSE)]
    /\ UNCHANGED <<jar, store, ref, call, inbox, lock, orphans, history>>

\* AdvanceCurrentSessionToUserVersion: the session of the request follows, if it
\* is still there, and the user's other sessions are revoked; the answer carries
\* a new access token.
AdvanceSession(t) ==
    /\ op[t].kind \in {"advance", "advanceAlone"}
    /\ IF row[op[t].sid].status = "active" /\ row[op[t].sid].ver = op[t].ver
       THEN /\ row' = [s \in Sids |->
                 IF s = op[t].sid THEN [row[s] EXCEPT !.ver = @ + 1, !.old = FALSE]
                 ELSE IF row[s].status = "active" THEN [row[s] EXCEPT !.status = "revoked"]
                 ELSE row[s]]
            /\ op' = [op EXCEPT ![t] = IF @.kind = "advanceAlone" THEN NoOp
                                       ELSE Op("rotation", @.sid, @.ver + 1, FALSE)]
       ELSE /\ UNCHANGED row
            /\ op' = [op EXCEPT ![t] = NoOp]
    /\ UNCHANGED <<jar, store, ref, call, inbox, lock, orphans, history>>

\* The second part of the change fails: every session stays outdated.
AdvanceFails(t) ==
    /\ "failing" \in Faults
    /\ op[t].kind \in {"advance", "advanceAlone"}
    /\ op' = [op EXCEPT ![t] = NoOp]
    /\ UNCHANGED <<row, jar, store, ref, call, inbox, lock, orphans, history>>

\* applyAuthRotation: only for the session the tab still has.
AdvanceArrives(t) ==
    /\ op[t].kind = "rotation"
    /\ IF op[t].sid = store[t].sid
       THEN /\ ApplyAuthBundle(t, op[t].sid, op[t].ver, FALSE)
            /\ ref' = [ref EXCEPT ![t] = Supersede(@)]
       ELSE UNCHANGED <<store, inbox, ref>>
    /\ op' = [op EXCEPT ![t] = NoOp]
    /\ UNCHANGED <<row, jar, call, lock, orphans, history>>

-----------------------------------------------------------------------------
(* Broadcast events: the listener of RootComponent *)

\* Another session was opened: drop this one and load the page again.
EventAuthenticated(t) ==
    /\ inbox[t] # <<>>
    /\ Head(inbox[t]).kind = "authenticated"
    /\ IF Head(inbox[t]).sid = store[t].sid
       THEN /\ inbox' = [inbox EXCEPT ![t] = Tail(@)]
            /\ UNCHANGED <<row, jar, store, ref, call, op, lock, orphans, history>>
       ELSE PageLoad(t)

\* This session was signed out elsewhere.
EventSignedOut(t) ==
    /\ inbox[t] # <<>>
    /\ Head(inbox[t]).kind = "signed_out"
    /\ inbox' = [inbox EXCEPT ![t] = Tail(@)]
    /\ IF store[t].sid = Head(inbox[t]).sid
       THEN /\ store' = [store EXCEPT ![t] = SignedOut]
            /\ ref' = [ref EXCEPT ![t] = Supersede(@)]
       ELSE UNCHANGED <<store, ref>>
    /\ UNCHANGED <<row, jar, call, op, lock, orphans, history>>

\* An event that is more than a minute old (a frozen tab) is ignored.
EventTooLate(t) ==
    /\ "late" \in Faults
    /\ inbox[t] # <<>>
    /\ inbox' = [inbox EXCEPT ![t] = Tail(@)]
    /\ UNCHANGED <<row, jar, store, ref, call, op, lock, orphans, history>>

-----------------------------------------------------------------------------
\* Every tab has loaded the same login: one tab logged in, the others took the
\* session over from its cookie, and everything then in flight has ended.
Init ==
    /\ row = [s \in Sids |-> [status |-> IF s = First THEN "active" ELSE "none",
                             grace |-> FALSE, ver |-> 0, old |-> FALSE]]
    /\ jar = [sid |-> First, age |-> 0]
    /\ store = [t \in Tabs |-> [sid |-> First, ver |-> 0]]
    /\ ref = [t \in Tabs |-> NoRefresh]
    /\ call = [t \in Tabs |-> Call("none")]
    /\ op = [t \in Tabs |-> NoOp]
    /\ inbox = [t \in Tabs |-> <<>>]
    /\ lock = NoTab
    /\ orphans = {}
    /\ history = [lost |-> FALSE, replayed |-> FALSE]
    /\ uses = [begun |-> 0, astray |-> 0]

RunnerStep(t) ==
    \/ RefreshLock(t) \/ RefreshSuperseded(t)
    \/ RefreshAccepted(t) \/ RefreshRaced(t) \/ RefreshWaited(t)
    \/ RefreshMismatch(t) \/ RefreshOutOfSync(t) \/ RefreshDenied(t)
    \/ RefreshTransient(t)

\* What a user or a page begins, MaxUses times.
UserStep(t) ==
    /\ uses.begun < MaxUses
    /\ uses' = [uses EXCEPT !.begun = @ + 1]
    /\ \/ StartRefresh(t) \/ ExpiredTokenUsed(t) \/ Reload(t)
       \/ LogoutStart(t) \/ SecurityChange(t)
       \/ \E s \in Sids : RevokeLoginSession(t, s)

\* An answer or an event that goes astray, MaxFaults times.
FaultStep(t) ==
    /\ uses.astray < MaxFaults
    /\ uses' = [uses EXCEPT !.astray = @ + 1]
    /\ \/ ServerFault(t) \/ AnswerLost(t) \/ OpLost(t) \/ AdvanceFails(t)
       \/ EventTooLate(t)

ServerStep(t) == ServerRefresh(t) \/ ServerRace(t)
OpStep(t) ==
    \/ LoginArrives(t) \/ LogoutArrives(t) \/ RevokeArrives(t) \/ AdvanceArrives(t)
    \/ LogoutAgain(t) \/ AdvanceSession(t)
EventStep(t) == EventAuthenticated(t) \/ EventSignedOut(t)
CallStep(t) == DeadTokenUsed(t) \/ ApiRetry(t) \/ ApiRefused(t) \/ RedirectToSignIn(t)

Next ==
    \/ \E t \in Tabs : UserStep(t) \/ FaultStep(t)
    \/ \E t \in Tabs :
        /\ \/ ServerStep(t) \/ RunnerStep(t) \/ OpStep(t) \/ EventStep(t) \/ CallStep(t)
           \/ \E s \in Sids : LoginRequest(t, s)
        /\ UNCHANGED uses
    \/ \E o \in orphans : ServerOrphan(o) /\ UNCHANGED uses
    \/ \E s \in Sids : GraceEnds(s) /\ UNCHANGED uses

\* What goes on by itself: requests are answered, or fail after the browser's
\* timeout; promises, events and navigator.locks are served by the event loop;
\* a page goes on using its token.  In what order a tab does these is left open.
Fairness ==
    \A t \in Tabs :
        WF_vars(/\ ServerStep(t) \/ RunnerStep(t) \/ OpStep(t) \/ EventStep(t) \/ CallStep(t)
                /\ UNCHANGED uses)

Spec == Init /\ [][Next]_vars
FairSpec == Spec /\ Fairness

-----------------------------------------------------------------------------
\* Every variable has its type; in particular a refresh waits for a race three
\* times at most (refreshRaceDelays).
TypeOK ==
    /\ row \in [Sids -> Rows]
    /\ jar \in Cookies
    /\ store \in [Tabs -> Tokens]
    /\ ref \in [Tabs -> Refreshes]
    /\ call \in [Tabs -> Calls]
    /\ op \in [Tabs -> Ops]
    /\ inbox \in [Tabs -> Seq(Events)]
    /\ lock \in Tabs \cup {NoTab}
    /\ orphans \subseteq [cookie : Cookies, exp : SidOrNone]
    /\ history \in [lost : BOOLEAN, replayed : BOOLEAN]
    /\ uses \in [begun : 0..MaxUses, astray : 0..MaxFaults]

\* With the browser lock the tabs never make the server believe that a refresh
\* token was stolen: RefreshReuse is reported only after an answer was lost
\* (performRefreshWithBrowserLock; RotateUserSessionRefresh).
NoFalseReuse == HasLocks /\ history.replayed => history.lost

\* refreshAuthentication: the answer that signs a tab in finds the session the
\* request was sent for, and never an older token than the tab has.
NoStaleRefresh ==
    [][\A t \in Tabs : RefreshAccepted(t) =>
          /\ store[t].sid = ref[t].exp
          /\ store[t].sid = store'[t].sid => store'[t].ver >= store[t].ver]_vars

\* A refresh, its retries, a login, a logout and a repeated request all come to
\* an end, and a tab does not stay with a session that was revoked.
Settled(t) == /\ ref[t].pc = "none" /\ op[t].kind = "none" /\ call[t].pc = "none"
              /\ ~Dead(t)
TabsSettle == \A t \in Tabs : []<>Settled(t)
=============================================================================
