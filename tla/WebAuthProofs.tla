--------------------------- MODULE WebAuthProofs ---------------------------
(***************************************************************************)
(* Proofs about WebAuth, for every number of tabs and sessions, every      *)
(* number of uses and every set of failures.                               *)
(***************************************************************************)
EXTENDS WebAuth, TLAPS

\* A token is a record of a session and a version in every proof below.
USE DEF Tokens

-----------------------------------------------------------------------------
(* The values the actions are made of *)

\* The values that stand for nothing have their types.
LEMMA ConstantTypes ==
  /\ NoSid \in SidOrNone /\ Sids \subseteq SidOrNone
  /\ NoCookie \in Cookies /\ NoAnswer \in Answers
  /\ 0 \in Versions
  BY WebAuthAssumption
  DEF SidOrNone, NoCookie, Cookies, NoAnswer, Answer, Answers, Codes, JarEffects, Versions

\* A cookie that ages stays a cookie of its session.
LEMMA AgeingType ==
  ASSUME NEW c \in Cookies, NEW s
  PROVE  Ageing(c, s) \in Cookies /\ Ageing(c, s).sid = c.sid
<1>1. c.age \in 0..2 /\ c.sid \in SidOrNone
  BY DEF Cookies
<1>2. CASE c.sid = s /\ c.age < 2
  <2>1. c.age + 1 \in 0..2
    BY <1>1, <1>2
  <2> QED
    BY <1>2, <2>1 DEF Ageing, Cookies
<1>3. CASE ~(c.sid = s /\ c.age < 2)
  BY <1>3 DEF Ageing
<1> QED
  BY <1>2, <1>3

\* A rotation changes nothing of a refresh but the ages of its cookies.
SameBut(r, q) ==
    /\ r.pc = q.pc /\ r.cur = q.cur /\ r.race = q.race /\ r.retry = q.retry
    /\ r.exp = q.exp /\ r.ans.code = q.ans.code /\ r.ans.ver = q.ans.ver
    /\ r.ans.cookie.sid = q.ans.cookie.sid

\* Ageing keeps a refresh a refresh, of the same session.
LEMMA AgeRefreshType ==
  ASSUME NEW r \in Refreshes, NEW s
  PROVE  AgeRefresh(r, s) \in Refreshes /\ SameBut(AgeRefresh(r, s), r)
<1>1. /\ r.cookie \in Cookies /\ r.ans \in Answers /\ r.ans.cookie \in Cookies
  BY DEF Refreshes, Answers
<1>2. /\ Ageing(r.cookie, s) \in Cookies
      /\ Ageing(r.ans.cookie, s) \in Cookies /\ Ageing(r.ans.cookie, s).sid = r.ans.cookie.sid
  BY <1>1, AgeingType
<1>3. [r.ans EXCEPT !.cookie = Ageing(@, s)] \in Answers
  BY <1>1, <1>2 DEF Answers
<1> QED
  BY <1>1, <1>2, <1>3 DEF AgeRefresh, Refreshes, Answers, SameBut

\* An answer has the parts it was made of.
LEMMA AnswerType ==
  ASSUME NEW code \in Codes, NEW effect \in JarEffects, NEW cookie \in Cookies, NEW ver \in Versions
  PROVE  /\ Answer(code, effect, cookie, ver) \in Answers
         /\ Answer(code, effect, cookie, ver).code = code
         /\ Answer(code, effect, cookie, ver).cookie = cookie
         /\ Answer(code, effect, cookie, ver).ver = ver
  BY DEF Answer, Answers

\* The server signs a token of the session's own version.
LEMMA RefreshAnswerType ==
  ASSUME TypeOK, NEW c \in Cookies, NEW exp \in SidOrNone
  PROVE  /\ RefreshAnswer(c, exp) \in Answers
         /\ RefreshAnswer(c, exp).code = "ok" =>
              /\ c.sid \in Sids /\ RefreshAnswer(c, exp).cookie.sid = c.sid
              /\ exp \in {NoSid, c.sid}
              /\ RefreshAnswer(c, exp).ver = row[c.sid].ver
<1>0. {"ok", "denied", "mismatch"} \subseteq Codes /\ {"set", "clear", "keep"} \subseteq JarEffects
  BY DEF Codes, JarEffects
<1>1. CASE c.sid = NoSid
  <2>1. RefreshAnswer(c, exp) = Answer("denied", "clear", NoCookie, 0)
    BY <1>1 DEF RefreshAnswer
  <2> QED
    BY <1>0, <2>1, AnswerType, ConstantTypes
<1>2. CASE c.sid # NoSid
  <2>0. c.sid \in Sids /\ row[c.sid] \in Rows /\ row[c.sid].ver \in Versions
    BY <1>2 DEF TypeOK, Cookies, SidOrNone, Rows
  <2>1. CASE exp \notin {NoSid, c.sid}
    <3>1. RefreshAnswer(c, exp) = Answer("mismatch", "keep", NoCookie, 0)
      BY <1>2, <2>1 DEF RefreshAnswer
    <3> QED
      BY <1>0, <3>1, AnswerType, ConstantTypes
  <2>2. CASE exp \in {NoSid, c.sid}
    <3> DEFINE good == /\ row[c.sid].status = "active"
                       /\ ~row[c.sid].old /\ (c.age = 0 \/ (c.age = 1 /\ row[c.sid].grace))
    <3>1. CASE good
      <4>1. RefreshAnswer(c, exp) = Answer("ok", "set", [c EXCEPT !.age = 0], row[c.sid].ver)
        BY <1>2, <2>2, <3>1 DEF RefreshAnswer
      <4>2. [c EXCEPT !.age = 0] \in Cookies /\ [c EXCEPT !.age = 0].sid = c.sid
        BY DEF Cookies
      <4>3. /\ RefreshAnswer(c, exp) \in Answers
            /\ RefreshAnswer(c, exp).cookie = [c EXCEPT !.age = 0]
            /\ RefreshAnswer(c, exp).ver = row[c.sid].ver
        BY <1>0, <2>0, <4>1, <4>2, AnswerType
      <4> QED
        BY <2>0, <2>2, <4>2, <4>3
    <3>2. CASE ~good
      <4>1. RefreshAnswer(c, exp) = Answer("denied", "clear", NoCookie, 0)
        BY <1>2, <2>2, <3>2 DEF RefreshAnswer
      <4> QED
        BY <1>0, <4>1, AnswerType, ConstantTypes
    <3> QED
      BY <3>1, <3>2
  <2> QED
    BY <2>1, <2>2
<1> QED
  BY <1>1, <1>2

\* The tab without a refresh.
LEMMA NoRefreshType ==
  /\ NoRefresh \in Refreshes
  /\ NoRefresh.pc = "none" /\ NoRefresh.ans.code = "odd"
  BY ConstantTypes DEF NoRefresh, Refreshes, Steps, NoAnswer, Answer

\* A request leaves with the session it is given.
LEMMA SendingType ==
  ASSUME NEW r \in Refreshes, NEW sid \in SidOrNone, NEW cookie \in Cookies
  PROVE  /\ Sending(r, sid, cookie) \in Refreshes
         /\ Sending(r, sid, cookie).pc = "sent" /\ Sending(r, sid, cookie).exp = sid
  BY ConstantTypes DEF Sending, Refreshes, Steps

\* The second attempt after a mismatch counts its races anew.
LEMMA FreshType ==
  ASSUME NEW r \in Refreshes
  PROVE  /\ [r EXCEPT !.race = 0, !.retry = FALSE] \in Refreshes
         /\ [r EXCEPT !.race = 0, !.retry = FALSE].pc = r.pc
         /\ [r EXCEPT !.race = 0, !.retry = FALSE].exp = r.exp
<1> DEFINE q == [r EXCEPT !.race = 0]
<1>1. q \in Refreshes /\ q.pc = r.pc /\ q.exp = r.exp
  BY DEF Refreshes
<1>2. [r EXCEPT !.race = 0, !.retry = FALSE] = [q EXCEPT !.retry = FALSE]
  OBVIOUS
<1> HIDE DEF q
<1>3. /\ [q EXCEPT !.retry = FALSE] \in Refreshes
      /\ [q EXCEPT !.retry = FALSE].pc = q.pc /\ [q EXCEPT !.retry = FALSE].exp = q.exp
  BY <1>1 DEF Refreshes
<1> QED
  BY <1>1, <1>2, <1>3

\* A new refresh waits for the lock or leaves for the tab's session; joining
\* one gives it or the refresh that is there.
LEMMA NewRefreshType ==
  ASSUME NEW sid \in SidOrNone, NEW cookie \in Cookies
  PROVE  /\ NewRefresh(sid, cookie) \in Refreshes
         /\ NewRefresh(sid, cookie).pc \in {"lock", "sent"}
         /\ NewRefresh(sid, cookie).pc = "sent" => NewRefresh(sid, cookie).exp = sid
         /\ HasLocks => NewRefresh(sid, cookie).pc = "lock"
<1> DEFINE r == [NoRefresh EXCEPT !.cur = TRUE, !.retry = TRUE]
<1>1. r \in Refreshes
  BY NoRefreshType DEF Refreshes
<1>2. [r EXCEPT !.pc = "lock"] \in Refreshes /\ [r EXCEPT !.pc = "lock"].pc = "lock"
  BY <1>1 DEF Refreshes, Steps
<1>3. NewRefresh(sid, cookie) = IF HasLocks THEN [r EXCEPT !.pc = "lock"] ELSE Sending(r, sid, cookie)
  BY DEF NewRefresh
<1> HIDE DEF r
<1> QED
  BY <1>1, <1>2, <1>3, SendingType

\* A tab joins the refresh that is there or begins one for its own session.
LEMMA JoinRefreshType ==
  ASSUME TypeOK, NEW t \in Tabs
  PROVE  /\ store[t].sid \in SidOrNone /\ jar \in Cookies
         /\ JoinRefresh(t) \in Refreshes
         /\ JoinRefresh(t) \in {ref[t], NewRefresh(store[t].sid, jar)}
<1>1. store[t].sid \in SidOrNone /\ jar \in Cookies /\ ref[t] \in Refreshes
  BY DEF TypeOK
<1> QED
  BY <1>1, NewRefreshType DEF JoinRefresh

\* A call without a token.
LEMMA CallType ==
  ASSUME NEW pc \in {"none", "await", "retry", "refused", "leave"}
  PROVE  Call(pc) \in Calls
  BY ConstantTypes DEF Call, Calls, SignedOut

\* What Set-Cookie leaves in the jar is a cookie.
LEMMA StoreCookieType ==
  ASSUME TypeOK, NEW ans \in Answers
  PROVE  StoreCookie(ans) \in Cookies
  BY ConstantTypes DEF TypeOK, StoreCookie, Answers, JarEffects

\* An operation has the parts it was made of.
LEMMA OpType ==
  ASSUME NEW kind \in OpKinds, NEW sid \in SidOrNone, NEW ver \in Versions, NEW clear \in BOOLEAN
  PROVE  /\ Op(kind, sid, ver, clear) \in Ops
         /\ Op(kind, sid, ver, clear).kind = kind /\ Op(kind, sid, ver, clear).sid = sid
         /\ Op(kind, sid, ver, clear).ver = ver
  BY DEF Op, Ops

\* An operation's answer leaves the jar alone, clears it or brings a new cookie.
LEMMA OpCookieType ==
  ASSUME TypeOK, NEW t \in Tabs, op[t].kind = "login" => op[t].sid \in Sids
  PROVE  OpCookie(t) \in Cookies /\ (OpCookie(t) = jar \/ OpCookie(t).age = 0)
  BY ConstantTypes DEF OpCookie, TypeOK, NoCookie, Cookies

\* The tab without an operation.
LEMMA NoOpType == NoOp \in Ops /\ NoOp.kind = "none"
  BY ConstantTypes DEF NoOp, Op, Ops, OpKinds

\* Publishing keeps every inbox a sequence of events.
LEMMA PublishType ==
  ASSUME TypeOK, NEW t \in Tabs, NEW kind \in {"authenticated", "signed_out"}, NEW sid \in Sids
  PROVE  Publish(t, kind, sid) \in [Tabs -> Seq(Events)]
<1>1. [kind |-> kind, sid |-> sid] \in Events
  BY DEF Events
<1>2. \A u \in Tabs : Append(inbox[u], [kind |-> kind, sid |-> sid]) \in Seq(Events)
  BY <1>1 DEF TypeOK
<1> QED
  BY <1>2 DEF Publish, TypeOK

-----------------------------------------------------------------------------
(* Types *)

\* A login or security change in flight names its session, and a version that
\* is still to advance is below the bound.
OpShape(t) ==
    /\ op[t].kind \in {"login", "advance", "advanceAlone", "rotation"} => op[t].sid \in Sids
    /\ op[t].kind \in {"advance", "advanceAlone"} => op[t].ver < MaxAdvance

TypeInv == TypeOK /\ \A t \in Tabs : OpShape(t)

\* When a refresh settles, its tab has none, the other tabs keep theirs, and a
\* waiting logout goes on or ends.
LEMMA SettleType ==
  ASSUME TypeInv, NEW t \in Tabs, NEW outcome, Settle(t, outcome), store' \in [Tabs -> Tokens]
  PROVE  /\ ref' \in [Tabs -> Refreshes] /\ lock' \in Tabs \cup {NoTab}
         /\ call' \in [Tabs -> Calls] /\ op' \in [Tabs -> Ops]
         /\ ref'[t] = NoRefresh
         /\ \A u \in Tabs : u # t => ref'[u] = ref[u]
         /\ \A u \in Tabs : op'[u] = op[u] \/ op'[u].kind \in {"none", "logoutAgain", "logoutDone"}
<1>1. ref' \in [Tabs -> Refreshes] /\ ref'[t] = NoRefresh /\ \A u \in Tabs : u # t => ref'[u] = ref[u]
  BY NoRefreshType DEF TypeInv, TypeOK, Settle
<1>2. lock' \in Tabs \cup {NoTab}
  BY DEF TypeInv, TypeOK, Settle
<1>3. call' \in [Tabs -> Calls]
  <2>1. /\ [pc |-> "retry", token |-> store'[t]] \in Calls
        /\ Call("none") \in Calls /\ Call("leave") \in Calls
    BY CallType DEF Calls
  <2>2. call' = call \/ \E c \in Calls : call' = [call EXCEPT ![t] = c]
    BY <2>1 DEF Settle
  <2> QED
    BY <2>2 DEF TypeInv, TypeOK
<1>4. /\ op' \in [Tabs -> Ops]
      /\ \A u \in Tabs : op'[u] = op[u] \/ op'[u].kind \in {"none", "logoutAgain", "logoutDone"}
  <2> DEFINE A == Op("logoutAgain", NoSid, 0, FALSE)
             B == Op("logoutDone", NoSid, 0, FALSE)
  <2>1. A \in Ops /\ A.kind = "logoutAgain" /\ B \in Ops /\ B.kind = "logoutDone"
    BY ConstantTypes DEF Op, Ops, OpKinds
  <2>2. op' = op \/ \E o \in {A, B, NoOp} : op' = [op EXCEPT ![t] = o]
    BY DEF Settle
  <2> HIDE DEF A, B
  <2>3. CASE op' = op
    BY <2>3 DEF TypeInv, TypeOK
  <2>4. CASE \E o \in {A, B, NoOp} : op' = [op EXCEPT ![t] = o]
    BY <2>1, <2>4, NoOpType DEF TypeInv, TypeOK
  <2> QED
    BY <2>2, <2>3, <2>4
<1> QED
  BY <1>1, <1>2, <1>3, <1>4

\* applyAuthBundle gives the tab, and no other, the session and version.
LEMMA ApplyType ==
  ASSUME TypeInv, NEW t \in Tabs, NEW sid \in SidOrNone, NEW ver \in Versions, NEW sync \in BOOLEAN,
         sync => sid \in Sids, ApplyAuthBundle(t, sid, ver, sync)
  PROVE  /\ store' \in [Tabs -> Tokens]
         /\ inbox' \in [Tabs -> Seq(Events)]
         /\ store'[t].sid = sid /\ store'[t].ver = ver
         /\ \A u \in Tabs : u # t => store'[u] = store[u]
<1>1. /\ store' \in [Tabs -> Tokens]
      /\ store'[t].sid = sid /\ store'[t].ver = ver
      /\ \A u \in Tabs : u # t => store'[u] = store[u]
  BY DEF TypeInv, TypeOK, ApplyAuthBundle
<1>2. CASE inbox' = inbox
  BY <1>1, <1>2 DEF TypeInv, TypeOK
<1>3. CASE sync /\ inbox' = Publish(t, "authenticated", sid)
  BY <1>1, <1>3, PublishType DEF TypeInv
<1> QED
  BY <1>2, <1>3 DEF ApplyAuthBundle

\* clearAuthentication takes the session from the tab, and from no other.
LEMMA ClearType ==
  ASSUME TypeInv, NEW t \in Tabs, NEW sync \in BOOLEAN, ClearAuthentication(t, sync)
  PROVE  /\ store' \in [Tabs -> Tokens]
         /\ inbox' \in [Tabs -> Seq(Events)]
         /\ store'[t].sid = NoSid
         /\ \A u \in Tabs : u # t => store'[u] = store[u]
<1>1. /\ store' \in [Tabs -> Tokens]
      /\ store'[t].sid = NoSid
      /\ \A u \in Tabs : u # t => store'[u] = store[u]
  BY ConstantTypes DEF TypeInv, TypeOK, ClearAuthentication, SignedOut
<1>2. CASE inbox' = inbox
  BY <1>1, <1>2 DEF TypeInv, TypeOK
<1>3. CASE store[t].sid # NoSid /\ inbox' = Publish(t, "signed_out", store[t].sid)
  <2>1. store[t].sid \in Sids
    BY <1>3 DEF TypeInv, TypeOK, SidOrNone
  <2> QED
    BY <1>1, <1>3, <2>1, PublishType DEF TypeInv
<1> QED
  BY <1>2, <1>3 DEF ClearAuthentication

\* Superseding a refresh leaves a refresh that is not current.
LEMMA SupersedeType ==
  ASSUME TypeInv, NEW t \in Tabs, ref' = [ref EXCEPT ![t] = Supersede(@)]
  PROVE  /\ ref' \in [Tabs -> Refreshes]
         /\ ~ref'[t].cur /\ ref'[t].pc = ref[t].pc /\ ref'[t].ans = ref[t].ans
         /\ \A u \in Tabs : u # t => ref'[u] = ref[u]
<1>1. ref[t] \in Refreshes /\ ref'[t] = Supersede(ref[t])
  BY DEF TypeInv, TypeOK
<1>2. /\ Supersede(ref[t]) \in Refreshes /\ ~Supersede(ref[t]).cur
      /\ Supersede(ref[t]).pc = ref[t].pc /\ Supersede(ref[t]).ans = ref[t].ans
  BY <1>1 DEF Supersede, Refreshes
<1> QED
  BY <1>1, <1>2 DEF TypeInv, TypeOK

\* Whatever the server does to a refresh leaves the versions as they are.
LEMMA ServerEffectType ==
  ASSUME TypeInv, NEW c \in Cookies, NEW exp \in SidOrNone, ServerEffect(c, exp)
  PROVE  /\ row' \in [Sids -> Rows] /\ history' \in [lost : BOOLEAN, replayed : BOOLEAN]
         /\ \A s \in Sids : row'[s].ver = row[s].ver
<1>1. /\ Rotates(c, exp) => c.sid \in Sids
      /\ Replayed(c, exp) \/ Outdated(c, exp) => c.sid \in Sids
  BY RefreshAnswerType DEF TypeInv, Rotates, Replayed, Outdated, Addressed, Cookies, SidOrNone
<1>2. \/ row' = row
      \/ c.sid \in Sids /\ row' = [row EXCEPT ![c.sid].grace = TRUE]
      \/ c.sid \in Sids /\ row' = [row EXCEPT ![c.sid].status = "revoked"]
  BY <1>1 DEF ServerEffect
<1>3. row' \in [Sids -> Rows] /\ \A s \in Sids : row'[s].ver = row[s].ver
  <2>0. row \in [Sids -> Rows]
    BY DEF TypeInv, TypeOK
  <2>1. CASE c.sid \in Sids /\ row' = [row EXCEPT ![c.sid].grace = TRUE]
    <3>1. /\ [row[c.sid] EXCEPT !.grace = TRUE] \in Rows
          /\ [row[c.sid] EXCEPT !.grace = TRUE].ver = row[c.sid].ver
      BY <2>0, <2>1 DEF Rows
    <3> QED
      BY <2>0, <2>1, <3>1
  <2>2. CASE c.sid \in Sids /\ row' = [row EXCEPT ![c.sid].status = "revoked"]
    <3>1. /\ [row[c.sid] EXCEPT !.status = "revoked"] \in Rows
          /\ [row[c.sid] EXCEPT !.status = "revoked"].ver = row[c.sid].ver
      BY <2>0, <2>2 DEF Rows
    <3> QED
      BY <2>0, <2>2, <3>1
  <2> QED
    BY <1>2, <2>0, <2>1, <2>2
<1>4. history' \in [lost : BOOLEAN, replayed : BOOLEAN]
  <2>1. history \in [lost : BOOLEAN, replayed : BOOLEAN]
    BY DEF TypeInv, TypeOK
  <2>2. (history.replayed \/ Replayed(c, exp)) \in BOOLEAN
    OBVIOUS
  <2> QED
    BY <2>1, <2>2 DEF ServerEffect
<1> QED
  BY <1>3, <1>4

\* A rotation ages copies and changes nothing else.
LEMMA AgedType ==
  ASSUME TypeInv, NEW c \in Cookies, NEW exp \in SidOrNone, NEW rest \in SUBSET orphans
  PROVE  /\ AgedRefreshes(c, exp) \in [Tabs -> Refreshes]
         /\ \A t \in Tabs : SameBut(AgedRefreshes(c, exp)[t], ref[t])
         /\ AgedOrphans(rest, c, exp) \subseteq [cookie : Cookies, exp : SidOrNone]
         /\ Ageing(jar, c.sid) \in Cookies
<1>1. \A t \in Tabs : ref[t] \in Refreshes
  BY DEF TypeInv, TypeOK
<1>2. \A t \in Tabs : AgeRefresh(ref[t], c.sid) \in Refreshes /\ SameBut(AgeRefresh(ref[t], c.sid), ref[t])
  BY <1>1, AgeRefreshType
<1>3. \A t \in Tabs : SameBut(ref[t], ref[t])
  BY DEF SameBut
<1>4. /\ AgedRefreshes(c, exp) \in [Tabs -> Refreshes]
      /\ \A t \in Tabs : SameBut(AgedRefreshes(c, exp)[t], ref[t])
  <2>1. CASE Rotates(c, exp)
    BY <1>2, <2>1 DEF AgedRefreshes
  <2>2. CASE ~Rotates(c, exp)
    BY <1>3, <2>2 DEF AgedRefreshes, TypeInv, TypeOK
  <2> QED
    BY <2>1, <2>2
<1>5. AgedOrphans(rest, c, exp) \subseteq [cookie : Cookies, exp : SidOrNone]
  <2>1. \A o \in rest : [o EXCEPT !.cookie = Ageing(@, c.sid)] \in [cookie : Cookies, exp : SidOrNone]
    <3> SUFFICES ASSUME NEW o \in rest
                 PROVE  [o EXCEPT !.cookie = Ageing(@, c.sid)] \in [cookie : Cookies, exp : SidOrNone]
      OBVIOUS
    <3>1. o \in [cookie : Cookies, exp : SidOrNone]
      BY DEF TypeInv, TypeOK
    <3>2. Ageing(o.cookie, c.sid) \in Cookies
      BY <3>1, AgeingType
    <3> QED
      BY <3>1, <3>2
  <2>2. rest \subseteq [cookie : Cookies, exp : SidOrNone]
    BY DEF TypeInv, TypeOK
  <2> QED
    BY <2>1, <2>2 DEF AgedOrphans
<1>6. Ageing(jar, c.sid) \in Cookies
  BY AgeingType DEF TypeInv, TypeOK
<1> QED
  BY <1>4, <1>5, <1>6

-----------------------------------------------------------------------------
(* Versions and sessions *)

\* What a tab, its refresh and its security change know is never ahead of the
\* session's row; a current refresh was sent for the session the tab still has,
\* and its answer is not older than the tab's token.
Follows(t) ==
    /\ ref[t].pc \in {"sent", "back"} /\ ref[t].cur => ref[t].exp = store[t].sid
    /\ ref[t].pc = "back" /\ ref[t].ans.code = "ok" =>
          /\ ref[t].ans.cookie.sid \in Sids
          /\ ref[t].ans.ver <= row[ref[t].ans.cookie.sid].ver
          /\ ref[t].cur /\ ref[t].ans.cookie.sid = store[t].sid => store[t].ver <= ref[t].ans.ver
    /\ store[t].sid # NoSid => store[t].ver <= row[store[t].sid].ver
    /\ op[t].kind = "rotation" => op[t].ver <= row[op[t].sid].ver

\* TypeOK without the bound on what users begin.
Typed ==
    /\ row \in [Sids -> Rows]
    /\ jar \in Cookies
    /\ store \in [Tabs -> Tokens]
    /\ ref \in [Tabs -> Refreshes]
    /\ call \in [Tabs -> Calls]
    /\ op \in [Tabs -> Ops]
    /\ inbox \in [Tabs -> Seq(Events)]
    /\ lock \in Tabs \cup {NoTab}
    /\ orphans \subseteq [cookie : Cookies, exp : SidOrNone]
    /\ history \in [lost : BOOLEAN, replayed : BOOLEAN]

Good == Typed /\ \A t \in Tabs : OpShape(t) /\ Follows(t)

GoodInv == TypeInv /\ \A t \in Tabs : Follows(t)

\* The versions that are compared are integers.
LEMMA VersionTypes ==
  ASSUME TypeInv
  PROVE  /\ \A s \in Sids : row[s].ver \in Int
         /\ \A t \in Tabs : /\ store[t].ver \in Int /\ op[t].ver \in Int
                            /\ ref[t].ans.ver \in Int
                            /\ store[t].sid \in SidOrNone
<1>1. Versions \subseteq Int
  BY WebAuthAssumption DEF Versions
<1>2. \A s \in Sids : row[s].ver \in Versions
  BY DEF TypeInv, TypeOK, Rows
<1>3. \A t \in Tabs : store[t].ver \in Versions /\ store[t].sid \in SidOrNone /\ op[t].ver \in Versions
  BY DEF TypeInv, TypeOK, Ops
<1>4. \A t \in Tabs : ref[t].ans.ver \in Versions
  BY DEF TypeInv, TypeOK, Refreshes, Answers
<1> QED
  BY <1>1, <1>2, <1>3, <1>4

\* The row's version grows.
Grows == row' \in [Sids -> Rows] /\ \A s \in Sids : row'[s].ver \in Int /\ row'[s].ver >= row[s].ver

\* A tab that a step leaves alone keeps up with the rows.
LEMMA FollowsKept ==
  ASSUME TypeInv, NEW u \in Tabs, Follows(u), OpShape(u), Grows,
         SameBut(ref'[u], ref[u]), store'[u] = store[u], op'[u] = op[u]
  PROVE  Follows(u)' /\ OpShape(u)'
<1>1. /\ \A s \in Sids : row[s].ver \in Int
      /\ store[u].ver \in Int /\ op[u].ver \in Int /\ ref[u].ans.ver \in Int
      /\ store[u].sid \in Sids \cup {NoSid}
  BY VersionTypes DEF SidOrNone
<1>2. OpShape(u)'
  BY DEF OpShape
<1>3. op[u].kind = "rotation" => op[u].sid \in Sids
  BY DEF OpShape
<1> QED
  BY <1>1, <1>2, <1>3 DEF Follows, Grows, SameBut

\* One tab acts: the others are left alone.
LEMMA OneTab ==
  ASSUME GoodInv, NEW t \in Tabs, Typed', Grows, Follows(t)', OpShape(t)',
         \A u \in Tabs : u # t => /\ SameBut(ref'[u], ref[u])
                                  /\ store'[u] = store[u] /\ op'[u] = op[u]
  PROVE  Good'
<1>1. ASSUME NEW u \in Tabs, u # t PROVE Follows(u)' /\ OpShape(u)'
  BY <1>1, FollowsKept DEF GoodInv, TypeInv
<1> QED
  BY <1>1 DEF Good

\* A refresh that a step leaves alone is the same.
LEMMA SameRefresh == \A u \in Tabs : ref'[u] = ref[u] => SameBut(ref'[u], ref[u])
  BY DEF SameBut

\* Rows whose versions stay do grow, trivially.
LEMMA RowsKept ==
  ASSUME TypeInv, row' \in [Sids -> Rows], \A s \in Sids : row'[s].ver = row[s].ver
  PROVE  Grows
  BY VersionTypes DEF Grows

-----------------------------------------------------------------------------
(* The server *)

\* The server answers with the row's own version, so the answer cannot be older
\* than the token of a tab that has kept the session.
LEMMA GoodServerRefresh ==
  ASSUME GoodInv, NEW t \in Tabs, ServerRefresh(t)
  PROVE  Good'
<1> DEFINE c == ref[t].cookie
           exp == ref[t].exp
           ans == RefreshAnswer(c, exp)
<1>0. TypeInv /\ TypeOK /\ ref[t] \in Refreshes /\ c \in Cookies /\ exp \in SidOrNone
  BY DEF GoodInv, TypeInv, TypeOK, Refreshes
<1>1. /\ ref[t].pc = "sent" /\ ServerEffect(c, exp)
      /\ ref' = [AgedRefreshes(c, exp) EXCEPT ![t] = Answered(ref[t], ans)]
      /\ jar' = IF Rotates(c, exp) THEN Ageing(jar, c.sid) ELSE jar
      /\ orphans' = AgedOrphans(orphans, c, exp)
      /\ UNCHANGED <<store, call, op, inbox, lock>>
  BY DEF ServerRefresh
<1>2. /\ ans \in Answers
      /\ ans.code = "ok" => /\ c.sid \in Sids /\ ans.cookie.sid = c.sid
                            /\ exp \in {NoSid, c.sid} /\ ans.ver = row[c.sid].ver
  BY <1>0, RefreshAnswerType
<1>3. /\ AgedRefreshes(c, exp) \in [Tabs -> Refreshes]
      /\ \A u \in Tabs : SameBut(AgedRefreshes(c, exp)[u], ref[u])
      /\ AgedOrphans(orphans, c, exp) \subseteq [cookie : Cookies, exp : SidOrNone]
      /\ Ageing(jar, c.sid) \in Cookies
  BY <1>0, AgedType
<1>4. /\ row' \in [Sids -> Rows] /\ history' \in [lost : BOOLEAN, replayed : BOOLEAN]
      /\ \A s \in Sids : row'[s].ver = row[s].ver
  BY <1>0, <1>1, ServerEffectType
<1> HIDE DEF c, exp, ans
<1>5. /\ Answered(ref[t], ans) \in Refreshes
      /\ Answered(ref[t], ans).ans = ans
      /\ Answered(ref[t], ans).cur = ref[t].cur /\ Answered(ref[t], ans).exp = ref[t].exp
  BY <1>0, <1>2, ConstantTypes DEF Answered, Refreshes, Steps
<1>6. ref' \in [Tabs -> Refreshes] /\ ref'[t] = Answered(ref[t], ans)
      /\ \A u \in Tabs : u # t => SameBut(ref'[u], ref[u])
  BY <1>1, <1>3, <1>5
<1>7. Typed'
  BY <1>0, <1>1, <1>3, <1>4, <1>6 DEF Typed, TypeOK
<1>8. Follows(t)'
  <2>1. Follows(t) /\ store'[t] = store[t] /\ op'[t] = op[t]
    BY <1>1 DEF GoodInv
  <2>2. store[t].sid # NoSid => store[t].sid \in Sids
    BY <1>0, VersionTypes DEF SidOrNone
  <2>3. op[t].kind = "rotation" => op[t].sid \in Sids
    BY <1>0 DEF TypeInv, OpShape
  <2>4. ref'[t].cur => ref'[t].exp = store[t].sid
    BY <1>1, <1>5, <1>6, <2>1 DEF Follows
  <2>5. /\ \A s \in Sids : row[s].ver \in Int
        /\ store[t].ver \in Int
    BY <1>0, VersionTypes
  <2>6. ans.code = "ok" => /\ ans.cookie.sid \in Sids /\ ans.ver <= row'[ans.cookie.sid].ver
                           /\ ans.cookie.sid = store[t].sid => store[t].ver <= ans.ver
    BY <1>2, <1>4, <2>1, <2>2, <2>5, WebAuthAssumption DEF Follows
  <2>7. ref'[t].ans = ans
    BY <1>5, <1>6
  <2>8. /\ store[t].sid # NoSid => store[t].ver <= row'[store[t].sid].ver
        /\ op[t].kind = "rotation" => op[t].ver <= row'[op[t].sid].ver
    BY <1>4, <2>1, <2>2, <2>3 DEF Follows
  <2> QED
    BY <2>1, <2>4, <2>6, <2>7, <2>8 DEF Follows
<1>9. OpShape(t)'
  BY <1>0, <1>1 DEF TypeInv, OpShape
<1> QED
  BY <1>0, <1>1, <1>4, <1>6, <1>7, <1>8, <1>9, OneTab, RowsKept

\* The server handles a request nobody waits for.
LEMMA GoodServerOrphan ==
  ASSUME GoodInv, NEW o \in orphans, ServerOrphan(o)
  PROVE  Good'
<1>0. TypeInv /\ TypeOK /\ o.cookie \in Cookies /\ o.exp \in SidOrNone /\ orphans \ {o} \in SUBSET orphans
  BY DEF GoodInv, TypeInv, TypeOK
<1>1. /\ AgedRefreshes(o.cookie, o.exp) \in [Tabs -> Refreshes]
      /\ \A u \in Tabs : SameBut(AgedRefreshes(o.cookie, o.exp)[u], ref[u])
      /\ AgedOrphans(orphans \ {o}, o.cookie, o.exp) \subseteq [cookie : Cookies, exp : SidOrNone]
      /\ Ageing(jar, o.cookie.sid) \in Cookies
  BY <1>0, AgedType
<1>2. /\ row' \in [Sids -> Rows] /\ history' \in [lost : BOOLEAN, replayed : BOOLEAN]
      /\ \A s \in Sids : row'[s].ver = row[s].ver
  BY <1>0, ServerEffectType DEF ServerOrphan
<1>3. Typed'
  BY <1>0, <1>1, <1>2 DEF Typed, TypeOK, ServerOrphan
<1>4. \A u \in Tabs : SameBut(ref'[u], ref[u]) /\ store'[u] = store[u] /\ op'[u] = op[u]
  BY <1>1 DEF ServerOrphan
<1>5. Grows
  BY <1>0, <1>2, RowsKept
<1>6. \A u \in Tabs : Follows(u)' /\ OpShape(u)'
  BY <1>0, <1>4, <1>5, FollowsKept DEF GoodInv, TypeInv
<1> QED
  BY <1>3, <1>6 DEF Good

\* What the server may answer without doing anything.
Refused == {"transient", "race", "odd"}

\* A race, a failure or an odd answer is such an answer.
LEMMA RefusesIfFaulty ==
  ASSUME NEW t \in Tabs, ServerRace(t) \/ ServerFault(t)
  PROVE  \E code \in Refused : ServerRefuses(t, code)
  BY DEF ServerRace, ServerFault, Refused

\* The window of a previous secret ends; an answer fails or gets lost.
LEMMA GoodFaults ==
  ASSUME GoodInv
  PROVE  /\ \A s \in Sids : GraceEnds(s) => Good'
         /\ \A t \in Tabs : \A code \in Refused : ServerRefuses(t, code) => Good'
         /\ \A t \in Tabs : AnswerLost(t) => Good'
<1>0. TypeInv /\ TypeOK
  BY DEF GoodInv, TypeInv
<1>1. ASSUME NEW s \in Sids, GraceEnds(s) PROVE Good'
  <2>0. [row[s] EXCEPT !.grace = FALSE] \in Rows /\ [row[s] EXCEPT !.grace = FALSE].ver = row[s].ver
    BY <1>0 DEF TypeOK, Rows
  <2>1. row' \in [Sids -> Rows] /\ \A u \in Sids : row'[u].ver = row[u].ver
    BY <1>0, <1>1, <2>0 DEF TypeOK, GraceEnds
  <2>2. UNCHANGED <<jar, store, ref, call, op, inbox, lock, orphans, history>>
    BY <1>1 DEF GraceEnds
  <2>3. Grows
    BY <1>0, <2>1, RowsKept
  <2>4. \A u \in Tabs : Follows(u)' /\ OpShape(u)'
    BY <1>0, <2>2, <2>3, FollowsKept, SameRefresh DEF GoodInv, TypeInv
  <2> QED
    BY <1>0, <2>1, <2>2, <2>4 DEF Good, Typed, TypeOK
<1>2. ASSUME NEW t \in Tabs, (\E code \in Refused : ServerRefuses(t, code)) \/ AnswerLost(t) PROVE Good'
  <2>0. ref[t] \in Refreshes /\ Follows(t) /\ OpShape(t)
    BY <1>0 DEF TypeOK, GoodInv, TypeInv
  <2>1. PICK ans \in Answers : /\ ans.code # "ok" /\ ref[t].pc \in {"sent", "back"}
                               /\ \/ ref' = [ref EXCEPT ![t] = Answered(@, ans)]
                                  \/ ref' = [ref EXCEPT ![t].ans = ans] /\ ref[t].pc = "back"
    <3>1. \A code \in Refused :
              /\ Answer(code, "keep", NoCookie, 0) \in Answers
              /\ Answer(code, "keep", NoCookie, 0).code = code
              /\ code # "ok"
      BY ConstantTypes DEF Answer, Answers, Codes, JarEffects, Refused
    <3>2. CASE \E code \in Refused : ServerRefuses(t, code)
      BY <3>1, <3>2 DEF ServerRefuses
    <3>3. CASE AnswerLost(t)
      BY <3>1, <3>3 DEF AnswerLost, Refused
    <3> QED
      BY <1>2, <3>2, <3>3
  <2>2. /\ ref' \in [Tabs -> Refreshes] /\ ref'[t].ans = ans
        /\ ref'[t].cur = ref[t].cur /\ ref'[t].exp = ref[t].exp
        /\ \A u \in Tabs : u # t => ref'[u] = ref[u]
    <3>1. CASE ref' = [ref EXCEPT ![t] = Answered(@, ans)]
      <4>1. /\ Answered(ref[t], ans) \in Refreshes /\ Answered(ref[t], ans).ans = ans
            /\ Answered(ref[t], ans).cur = ref[t].cur /\ Answered(ref[t], ans).exp = ref[t].exp
        BY <2>0, ConstantTypes DEF Answered, Refreshes, Steps
      <4> QED
        BY <1>0, <3>1, <4>1 DEF TypeOK
    <3>2. CASE ref' = [ref EXCEPT ![t].ans = ans]
      BY <1>0, <2>0, <3>2 DEF TypeOK, Refreshes
    <3> QED
      BY <2>1, <3>1, <3>2
  <2>3. /\ UNCHANGED <<row, jar, store, call, op, inbox, lock, orphans>>
        /\ history' \in [lost : BOOLEAN, replayed : BOOLEAN]
    BY <1>0, <1>2 DEF TypeOK, ServerRefuses, AnswerLost
  <2>4. Typed'
    BY <1>0, <2>2, <2>3 DEF Typed, TypeOK
  <2>5. Follows(t)' /\ OpShape(t)'
    BY <2>0, <2>1, <2>2, <2>3 DEF Follows, OpShape
  <2>6. Grows
    BY <1>0, <2>3, RowsKept DEF TypeOK
  <2> QED
    BY <2>2, <2>3, <2>4, <2>5, <2>6, OneTab, SameRefresh
<1> QED
  BY <1>1, <1>2

-----------------------------------------------------------------------------
(* The refresh runner *)

\* A tab whose refresh is neither sent nor answered, or no longer current, and
\* whose store and security change keep up with the rows.
LEMMA Quiet ==
  ASSUME NEW t \in Tabs, Follows(t), row' = row,
         \/ ref'[t].pc \notin {"sent", "back"}
         \/ ref'[t].pc = "sent" /\ (ref'[t].cur => ref'[t].exp = store'[t].sid)
         \/ ~ref'[t].cur /\ ref'[t].pc = ref[t].pc /\ ref'[t].ans = ref[t].ans,
         store'[t].sid # NoSid => store'[t].ver <= row[store'[t].sid].ver,
         op'[t].kind = "rotation" => op'[t] = op[t]
  PROVE  Follows(t)'
<1>1. CASE ref'[t].pc \notin {"sent", "back"}
  BY <1>1 DEF Follows
<1>2. CASE ref'[t].pc = "sent" /\ (ref'[t].cur => ref'[t].exp = store'[t].sid)
  BY <1>2 DEF Follows
<1>3. CASE ~ref'[t].cur /\ ref'[t].pc = ref[t].pc /\ ref'[t].ans = ref[t].ans
  BY <1>3 DEF Follows
<1> QED
  BY <1>1, <1>2, <1>3

\* A refresh leaves for the session of the tab's store.
LEMMA GoodSending ==
  ASSUME GoodInv, NEW t \in Tabs, RefreshLock(t) \/ RefreshWaited(t)
  PROVE  Good'
<1>0. TypeInv /\ TypeOK /\ ref[t] \in Refreshes /\ Follows(t) /\ OpShape(t)
  BY DEF GoodInv, TypeInv, TypeOK
<1>1. /\ Sending(ref[t], store[t].sid, jar) \in Refreshes
      /\ Sending(ref[t], store[t].sid, jar).pc = "sent"
      /\ Sending(ref[t], store[t].sid, jar).exp = store[t].sid
  BY <1>0, SendingType DEF TypeOK
<1>2. /\ ref' = [ref EXCEPT ![t] = Sending(@, store[t].sid, jar)]
      /\ UNCHANGED <<row, jar, store, call, op, inbox, orphans, history>>
      /\ lock' \in {lock, t}
  BY DEF RefreshLock, RefreshWaited
<1>3. /\ ref' \in [Tabs -> Refreshes] /\ ref'[t] = Sending(ref[t], store[t].sid, jar)
      /\ \A u \in Tabs : u # t => ref'[u] = ref[u]
  BY <1>0, <1>1, <1>2 DEF TypeOK
<1>4. Typed'
  BY <1>0, <1>2, <1>3 DEF Typed, TypeOK
<1>5. Follows(t)'
  BY <1>0, <1>1, <1>2, <1>3, Quiet DEF Follows
<1>6. OpShape(t)' /\ Grows
  BY <1>0, <1>2, RowsKept DEF OpShape, TypeOK
<1> QED
  BY <1>2, <1>3, <1>4, <1>5, <1>6, OneTab, SameRefresh

\* The refresh ends, whatever it does to the store.
LEMMA GoodSettled ==
  ASSUME GoodInv, NEW t \in Tabs, NEW outcome, Settle(t, outcome),
         UNCHANGED <<row, orphans, history>>,
         jar' \in Cookies, inbox' \in [Tabs -> Seq(Events)],
         store' \in [Tabs -> Tokens],
         \A u \in Tabs : u # t => store'[u] = store[u],
         store'[t].sid # NoSid => store'[t].ver <= row[store'[t].sid].ver
  PROVE  Good'
<1>0. TypeInv /\ TypeOK /\ Follows(t) /\ \A u \in Tabs : OpShape(u)
  BY DEF GoodInv, TypeInv
<1>1. /\ ref' \in [Tabs -> Refreshes] /\ lock' \in Tabs \cup {NoTab}
      /\ call' \in [Tabs -> Calls] /\ op' \in [Tabs -> Ops]
      /\ ref'[t] = NoRefresh
      /\ \A u \in Tabs : u # t => ref'[u] = ref[u]
      /\ \A u \in Tabs : op'[u] = op[u] \/ op'[u].kind \in {"none", "logoutAgain", "logoutDone"}
  BY <1>0, SettleType
<1>2. Typed'
  BY <1>0, <1>1 DEF Typed, TypeOK
<1>3. Follows(t)'
  BY <1>0, <1>1, NoRefreshType, Quiet
<1>4. OpShape(t)'
  BY <1>0, <1>1 DEF OpShape
<1>5. \A u \in Tabs : u # t => op'[u] = op[u]
  BY <1>0 DEF Settle, TypeOK
<1>6. Grows
  BY <1>0, RowsKept DEF TypeOK
<1> QED
  BY <1>1, <1>2, <1>3, <1>4, <1>5, <1>6, OneTab, SameRefresh

\* The five ways a refresh ends.
LEMMA GoodEnds ==
  ASSUME GoodInv, NEW t \in Tabs,
         \/ RefreshSuperseded(t) \/ RefreshAccepted(t) \/ RefreshOutOfSync(t)
         \/ RefreshDenied(t) \/ RefreshTransient(t)
  PROVE  Good'
<1>0. /\ TypeInv /\ TypeOK /\ Follows(t) /\ ref[t] \in Refreshes /\ ref[t].ans \in Answers
      /\ store \in [Tabs -> Tokens]
      /\ inbox \in [Tabs -> Seq(Events)] /\ jar \in Cookies
      /\ store[t].sid # NoSid => store[t].ver <= row[store[t].sid].ver
  BY DEF GoodInv, TypeInv, TypeOK, Refreshes, Follows
<1>1. StoreCookie(ref[t].ans) \in Cookies
  BY <1>0, StoreCookieType
<1>2. CASE RefreshSuperseded(t)
  <2>1. jar' \in Cookies /\ UNCHANGED <<row, store, inbox, orphans, history>>
        /\ Settle(t, "transient_error")
    BY <1>0, <1>1, <1>2 DEF RefreshSuperseded
  <2> QED
    BY <1>0, <2>1, GoodSettled
<1>3. CASE RefreshTransient(t)
  <2>1. jar' \in Cookies /\ UNCHANGED <<row, store, inbox, orphans, history>>
        /\ Settle(t, "transient_error")
    BY <1>1, <1>3 DEF RefreshTransient, Landing
  <2> QED
    BY <1>0, <2>1, GoodSettled
<1>4. CASE RefreshAccepted(t)
  <2>1. /\ ref[t].pc = "back" /\ ref[t].ans.code = "ok" /\ jar' \in Cookies
        /\ ApplyAuthBundle(t, ref[t].ans.cookie.sid, ref[t].ans.ver, FALSE)
        /\ Settle(t, "authenticated") /\ UNCHANGED <<row, orphans, history>>
    BY <1>1, <1>4 DEF RefreshAccepted, Landing
  <2>2. /\ ref[t].ans.cookie.sid \in Sids /\ ref[t].ans.cookie.sid \in SidOrNone
        /\ ref[t].ans.ver <= row[ref[t].ans.cookie.sid].ver
        /\ ref[t].ans.ver \in Versions
    BY <1>0, <2>1, ConstantTypes DEF Follows, Answers
  <2>3. /\ store' \in [Tabs -> Tokens]
        /\ inbox' \in [Tabs -> Seq(Events)]
        /\ store'[t].sid = ref[t].ans.cookie.sid /\ store'[t].ver = ref[t].ans.ver
        /\ \A u \in Tabs : u # t => store'[u] = store[u]
    BY <1>0, <2>1, <2>2, ApplyType
  <2> QED
    BY <2>1, <2>2, <2>3, GoodSettled
<1>5. CASE RefreshOutOfSync(t)
  <2>1. /\ jar' \in Cookies /\ ClearAuthentication(t, FALSE)
        /\ Settle(t, "out_of_sync") /\ UNCHANGED <<row, orphans, history>>
    BY <1>1, <1>5 DEF RefreshOutOfSync, Landing
  <2>2. /\ store' \in [Tabs -> Tokens]
        /\ inbox' \in [Tabs -> Seq(Events)] /\ store'[t].sid = NoSid
        /\ \A u \in Tabs : u # t => store'[u] = store[u]
    BY <1>0, <2>1, ClearType
  <2> QED
    BY <2>1, <2>2, GoodSettled
<1>6. CASE RefreshDenied(t)
  <2>1. /\ jar' \in Cookies /\ ClearAuthentication(t, TRUE)
        /\ Settle(t, "anonymous") /\ UNCHANGED <<row, orphans, history>>
    BY <1>1, <1>6 DEF RefreshDenied, Landing
  <2>2. /\ store' \in [Tabs -> Tokens]
        /\ inbox' \in [Tabs -> Seq(Events)] /\ store'[t].sid = NoSid
        /\ \A u \in Tabs : u # t => store'[u] = store[u]
    BY <1>0, <2>1, ClearType
  <2> QED
    BY <2>1, <2>2, GoodSettled
<1> QED
  BY <1>2, <1>3, <1>4, <1>5, <1>6

\* A race waits, at most three times; a mismatch forgets the session and asks
\* again for whatever the cookie is for.
LEMMA GoodRetries ==
  ASSUME GoodInv, NEW t \in Tabs, RefreshRaced(t) \/ RefreshMismatch(t)
  PROVE  Good'
<1>0. /\ TypeInv /\ TypeOK /\ Follows(t) /\ OpShape(t) /\ ref[t] \in Refreshes /\ ref[t].ans \in Answers
      /\ ref \in [Tabs -> Refreshes] /\ jar \in Cookies
  BY DEF GoodInv, TypeInv, TypeOK, Refreshes
<1>1. StoreCookie(ref[t].ans) \in Cookies
  BY <1>0, StoreCookieType
<1>2. UNCHANGED <<row, call, op, inbox, lock, orphans, history>> /\ jar' \in Cookies
  BY <1>1 DEF RefreshRaced, RefreshMismatch, Landing
<1>3. /\ ref' \in [Tabs -> Refreshes] /\ store' \in [Tabs -> Tokens]
      /\ \A u \in Tabs : u # t => ref'[u] = ref[u] /\ store'[u] = store[u]
      /\ \/ ref'[t].pc = "wait" /\ store' = store
         \/ ref'[t].pc = "sent" /\ ref'[t].exp = NoSid /\ store'[t].sid = NoSid
  <2>1. CASE RefreshRaced(t)
    <3>1. ref[t].race + 1 \in 0..3
      BY <1>0, <2>1 DEF RefreshRaced, Refreshes
    <3>2. ref' = [ref EXCEPT ![t].pc = "wait", ![t].race = @ + 1, ![t].ans = NoAnswer] /\ store' = store
      BY <2>1 DEF RefreshRaced
    <3>3. ref'[t] \in Refreshes /\ ref'[t].pc = "wait"
      BY <1>0, <3>1, <3>2, ConstantTypes DEF Refreshes, Steps
    <3> QED
      BY <1>0, <3>2, <3>3 DEF TypeOK
  <2>2. CASE RefreshMismatch(t)
    <3> DEFINE r == Sending(ref[t], NoSid, jar)
               q == [r EXCEPT !.race = 0, !.retry = FALSE]
    <3>1. r \in Refreshes /\ r.pc = "sent" /\ r.exp = NoSid
      BY <1>0, SendingType, ConstantTypes
    <3>2. ref' = [ref EXCEPT ![t] = q] /\ store' = [store EXCEPT ![t] = SignedOut]
      BY <2>2 DEF RefreshMismatch
    <3> HIDE DEF r
    <3>3. q \in Refreshes /\ q.pc = "sent" /\ q.exp = NoSid
      BY <3>1, FreshType, Zenon
    <3> HIDE DEF q
    <3>4. /\ store' \in [Tabs -> Tokens] /\ store'[t].sid = NoSid
          /\ \A u \in Tabs : u # t => store'[u] = store[u]
      BY <1>0, <3>2, ConstantTypes DEF TypeOK, SignedOut
    <3>5. /\ ref' \in [Tabs -> Refreshes] /\ ref'[t] = q
          /\ \A u \in Tabs : u # t => ref'[u] = ref[u]
      BY <1>0, <3>2, <3>3
    <3> QED
      BY <3>3, <3>4, <3>5
  <2> QED
    BY <2>1, <2>2
<1>4. Typed'
  BY <1>0, <1>2, <1>3 DEF Typed, TypeOK
<1>5. Follows(t)'
  BY <1>0, <1>2, <1>3, Quiet DEF Follows
<1>6. OpShape(t)' /\ Grows
  BY <1>0, <1>2, RowsKept DEF OpShape, TypeOK
<1> QED
  BY <1>2, <1>3, <1>4, <1>5, <1>6, OneTab, SameRefresh

\* Every step of the refresh runner.
LEMMA GoodRunner ==
  ASSUME GoodInv, NEW t \in Tabs, RunnerStep(t)
  PROVE  Good'
  BY GoodSending, GoodEnds, GoodRetries DEF RunnerStep

-----------------------------------------------------------------------------
(* What starts a refresh, and page loads *)

\* A refresh begins or goes on, and the tab's operation changes with the rows.
LEMMA GoodOp ==
  ASSUME GoodInv, NEW t \in Tabs, Grows,
         UNCHANGED <<store, inbox, lock, orphans, history>>, jar' \in Cookies,
         call' \in [Tabs -> Calls], op' \in [Tabs -> Ops],
         \/ ref' = ref
         \/ ref' = [ref EXCEPT ![t] = NewRefresh(store[t].sid, jar)],
         \A u \in Tabs : u # t => op'[u] = op[u],
         OpShape(t)',
         op'[t].kind = "rotation" => op'[t].ver <= row'[op'[t].sid].ver
  PROVE  Good'
<1>0. TypeInv /\ TypeOK /\ Follows(t) /\ ref \in [Tabs -> Refreshes]
  BY DEF GoodInv, TypeInv, TypeOK
<1> DEFINE new == NewRefresh(store[t].sid, jar)
<1>1. /\ new \in Refreshes /\ new.pc \in {"lock", "sent"}
      /\ new.pc = "sent" => new.exp = store[t].sid
  BY <1>0, JoinRefreshType, NewRefreshType
<1> HIDE DEF new
<1>2. /\ ref' \in [Tabs -> Refreshes] /\ ref'[t] \in {ref[t], new}
      /\ \A u \in Tabs : u # t => ref'[u] = ref[u]
  BY <1>0, <1>1 DEF new
<1>3. Typed'
  BY <1>0, <1>2 DEF Typed, TypeOK, Grows
<1>4. /\ \A s \in Sids : row[s].ver \in Int
      /\ store[t].ver \in Int /\ ref[t].ans.ver \in Int
      /\ store[t].sid \in Sids \cup {NoSid}
  BY <1>0, VersionTypes DEF SidOrNone
<1>5. Follows(t)'
  <2>1. CASE ref'[t] = ref[t]
    BY <1>0, <1>4, <2>1 DEF Follows, Grows
  <2>2. CASE ref'[t] = new
    BY <1>0, <1>1, <1>4, <2>2 DEF Follows, Grows
  <2> QED
    BY <1>2, <2>1, <2>2
<1> QED
  BY <1>2, <1>3, <1>5, OneTab, SameRefresh

\* A page or an api request starts or joins a refresh.
LEMMA GoodStarts ==
  ASSUME GoodInv, NEW t \in Tabs, StartRefresh(t) \/ ApiUnauthorized(t)
  PROVE  Good'
<1>0. TypeInv /\ TypeOK /\ Follows(t) /\ OpShape(t) /\ ref \in [Tabs -> Refreshes]
  BY DEF GoodInv, TypeInv, TypeOK
<1>1. JoinRefresh(t) \in {ref[t], NewRefresh(store[t].sid, jar)} /\ jar \in Cookies
  BY <1>0, JoinRefreshType
<1>2. /\ ref' = [ref EXCEPT ![t] = NewRefresh(store[t].sid, jar)] \/ ref' = ref
      /\ UNCHANGED <<row, jar, store, op, inbox, lock, orphans, history>>
      /\ call' \in [Tabs -> Calls]
  <2>1. CASE StartRefresh(t)
    BY <1>0, <2>1 DEF StartRefresh, TypeOK
  <2>2. CASE ApiUnauthorized(t)
    <3>1. /\ ref' = [ref EXCEPT ![t] = JoinRefresh(t)] /\ call' = [call EXCEPT ![t] = Call("await")]
          /\ UNCHANGED <<row, jar, store, op, inbox, lock, orphans, history>>
      BY <2>2 DEF ApiUnauthorized
    <3>2. [ref EXCEPT ![t] = ref[t]] = ref
      BY <1>0
    <3>3. call' \in [Tabs -> Calls]
      BY <1>0, <3>1, CallType DEF TypeOK
    <3> QED
      BY <1>1, <3>1, <3>2, <3>3
  <2> QED
    BY <2>1, <2>2
<1>3. /\ \A u \in Tabs : op'[u] = op[u]
      /\ OpShape(t)' /\ op' \in [Tabs -> Ops]
      /\ op'[t].kind = "rotation" => op'[t].ver <= row'[op'[t].sid].ver
  BY <1>0, <1>2 DEF OpShape, Follows, TypeOK
<1>4. Grows
  BY <1>0, <1>2, RowsKept DEF TypeOK
<1> QED
  BY <1>1, <1>2, <1>3, <1>4, GoodOp

\* A page load forgets everything of the tab but a security change on its way,
\* and begins with a refresh for no session in particular.
LEMMA GoodPageLoad ==
  ASSUME GoodInv, NEW t \in Tabs, PageLoad(t)
  PROVE  Good'
<1>0. /\ TypeInv /\ TypeOK /\ Follows(t) /\ OpShape(t) /\ ref[t] \in Refreshes /\ op[t] \in Ops
      /\ ref[t].ans \in Answers /\ ref[t].cookie \in Cookies /\ ref[t].exp \in SidOrNone
  BY DEF GoodInv, TypeInv, TypeOK, Refreshes
<1>1. /\ store' \in [Tabs -> Tokens] /\ store'[t].sid = NoSid
      /\ \A u \in Tabs : u # t => store'[u] = store[u]
  BY <1>0, ConstantTypes DEF TypeOK, PageLoad, SignedOut
<1>2. jar' \in Cookies
  <2>1. StoreCookie(ref[t].ans) \in Cookies
    BY <1>0, StoreCookieType
  <2>2. OpCookie(t) \in Cookies
    BY <1>0, OpCookieType DEF OpShape
  <2>3. LateCookies(t) \subseteq Cookies
    BY <1>0, <2>1, <2>2 DEF LateCookies, TypeOK
  <2> QED
    BY <2>3 DEF PageLoad
<1>3. /\ lock' \in Tabs \cup {NoTab} /\ call' \in [Tabs -> Calls]
      /\ inbox' \in [Tabs -> Seq(Events)] /\ row' = row
  <2>1. <<>> \in Seq(Events)
    OBVIOUS
  <2> QED
    BY <1>0, <2>1, CallType DEF TypeOK, PageLoad
<1>4. /\ op' \in [Tabs -> Ops] /\ OpShape(t)' /\ op'[t].kind # "rotation"
      /\ \A u \in Tabs : u # t => op'[u] = op[u]
  <2> DEFINE alone == [op[t] EXCEPT !.kind = "advanceAlone"]
  <2>1. alone \in Ops /\ alone.kind = "advanceAlone" /\ alone.sid = op[t].sid /\ alone.ver = op[t].ver
    BY <1>0 DEF Ops, OpKinds
  <2>2. op' = [op EXCEPT ![t] = IF op[t].kind \in {"advance", "advanceAlone"} THEN alone ELSE NoOp]
    BY DEF PageLoad
  <2> HIDE DEF alone
  <2>3. CASE op[t].kind \in {"advance", "advanceAlone"}
    BY <1>0, <2>1, <2>2, <2>3 DEF TypeOK, OpShape
  <2>4. CASE op[t].kind \notin {"advance", "advanceAlone"}
    BY <1>0, <2>2, <2>4, NoOpType DEF TypeOK, OpShape
  <2> QED
    BY <2>3, <2>4
<1>5. orphans' \subseteq [cookie : Cookies, exp : SidOrNone]
  <2>1. [cookie |-> ref[t].cookie, exp |-> ref[t].exp] \in [cookie : Cookies, exp : SidOrNone]
    BY <1>0
  <2> QED
    BY <1>0, <2>1 DEF TypeOK, PageLoad
<1>6. /\ ref' \in [Tabs -> Refreshes]
      /\ ref'[t].pc \in {"lock", "sent"} /\ (ref'[t].pc = "sent" => ref'[t].exp = NoSid)
      /\ \A u \in Tabs : u # t => ref'[u] = ref[u]
  <2> DEFINE new == NewRefresh(NoSid, jar')
  <2>1. /\ new \in Refreshes /\ new.pc \in {"lock", "sent"}
        /\ new.pc = "sent" => new.exp = NoSid
    BY <1>2, ConstantTypes, NewRefreshType
  <2>2. ref' = [ref EXCEPT ![t] = new]
    BY DEF PageLoad
  <2> HIDE DEF new
  <2> QED
    BY <1>0, <2>1, <2>2 DEF TypeOK
<1>7. history' \in [lost : BOOLEAN, replayed : BOOLEAN]
  <2>1. history \in [lost : BOOLEAN, replayed : BOOLEAN]
    BY <1>0 DEF TypeOK
  <2>2. (history.lost \/ ref[t].pc \in {"sent", "back"}) \in BOOLEAN
    OBVIOUS
  <2> QED
    BY <2>1, <2>2 DEF PageLoad
<1>8. Typed'
  BY <1>0, <1>1, <1>2, <1>3, <1>4, <1>5, <1>6, <1>7 DEF Typed, TypeOK
<1>9. Follows(t)'
  BY <1>0, <1>1, <1>3, <1>4, <1>6, Quiet
<1>10. Grows
  BY <1>0, <1>3, RowsKept DEF TypeOK
<1> QED
  BY <1>1, <1>4, <1>6, <1>8, <1>9, <1>10, OneTab, SameRefresh

-----------------------------------------------------------------------------
(* The api request, the broadcast events *)

\* A tab whose store is emptied, or given a token of a version its row has
\* reached, with the refresh superseded and the operation over or as it was.
LEMMA GoodSuperseded ==
  ASSUME GoodInv, NEW t \in Tabs, ref' = [ref EXCEPT ![t] = Supersede(@)],
         UNCHANGED <<row, lock, orphans, history>>,
         jar' \in Cookies, inbox' \in [Tabs -> Seq(Events)], call' \in [Tabs -> Calls],
         op' = op \/ op' = [op EXCEPT ![t] = NoOp],
         store' \in [Tabs -> Tokens],
         \A u \in Tabs : u # t => store'[u] = store[u],
         store'[t].sid # NoSid => store'[t].ver <= row[store'[t].sid].ver
  PROVE  Good'
<1>0. TypeInv /\ TypeOK /\ Follows(t) /\ OpShape(t) /\ op \in [Tabs -> Ops]
  BY DEF GoodInv, TypeInv, TypeOK
<1>1. /\ ref' \in [Tabs -> Refreshes]
      /\ ~ref'[t].cur /\ ref'[t].pc = ref[t].pc /\ ref'[t].ans = ref[t].ans
      /\ \A u \in Tabs : u # t => ref'[u] = ref[u]
  BY <1>0, SupersedeType
<1>2. /\ op' \in [Tabs -> Ops]
      /\ op'[t] = op[t] \/ op'[t].kind = "none"
      /\ \A u \in Tabs : u # t => op'[u] = op[u]
  BY <1>0, NoOpType
<1>3. OpShape(t)'
  BY <1>0, <1>2 DEF OpShape
<1>4. Typed'
  BY <1>0, <1>1, <1>2 DEF Typed, TypeOK
<1>5. Follows(t)'
  BY <1>0, <1>1, <1>2, Quiet
<1>6. Grows
  BY <1>0, RowsKept DEF TypeOK
<1> QED
  BY <1>1, <1>2, <1>3, <1>4, <1>5, <1>6, OneTab, SameRefresh

\* Only the request or the inbox of a tab changes.
LEMMA GoodIdle ==
  ASSUME GoodInv, NEW t \in Tabs,
         UNCHANGED <<row, jar, store, ref, op, lock, orphans, history>>,
         inbox' \in [Tabs -> Seq(Events)], call' \in [Tabs -> Calls]
  PROVE  Good'
<1>0. TypeInv /\ TypeOK /\ Follows(t) /\ OpShape(t)
  BY DEF GoodInv, TypeInv
<1>1. Typed' /\ Grows
  BY <1>0, RowsKept DEF Typed, TypeOK
<1>2. SameBut(ref'[t], ref[t])
  BY DEF SameBut
<1> QED
  BY <1>0, <1>1, <1>2, FollowsKept, OneTab, SameRefresh

\* The repeated api request, and the page it may leave.
LEMMA GoodApi ==
  ASSUME GoodInv, NEW t \in Tabs, ApiRetry(t) \/ ApiRefused(t) \/ RedirectToSignIn(t)
  PROVE  Good'
<1>0. /\ TypeInv /\ TypeOK /\ inbox \in [Tabs -> Seq(Events)] /\ jar \in Cookies
      /\ call \in [Tabs -> Calls]
  BY DEF GoodInv, TypeInv, TypeOK
<1>1. \A pc \in {"none", "refused", "leave"} : [call EXCEPT ![t] = Call(pc)] \in [Tabs -> Calls]
  BY <1>0, CallType
<1>2. CASE ApiRetry(t)
  <2>1. call' = [call EXCEPT ![t] = Call("none")] \/ call' = [call EXCEPT ![t] = Call("refused")]
    BY <1>2 DEF ApiRetry
  <2> QED
    BY <1>0, <1>1, <1>2, <2>1, GoodIdle DEF ApiRetry
<1>3. CASE ApiRefused(t)
  <2>1. /\ ClearAuthentication(t, FALSE) /\ ref' = [ref EXCEPT ![t] = Supersede(@)]
        /\ call' = [call EXCEPT ![t] = Call("leave")]
        /\ UNCHANGED <<row, jar, op, lock, orphans, history>>
    BY <1>3 DEF ApiRefused
  <2>2. /\ store' \in [Tabs -> Tokens]
        /\ inbox' \in [Tabs -> Seq(Events)] /\ store'[t].sid = NoSid
        /\ \A u \in Tabs : u # t => store'[u] = store[u]
    BY <1>0, <2>1, ClearType
  <2> QED
    BY <1>0, <1>1, <2>1, <2>2, GoodSuperseded
<1>4. CASE RedirectToSignIn(t)
  BY <1>0, <1>1, <1>4, GoodIdle, GoodPageLoad DEF RedirectToSignIn
<1> QED
  BY <1>2, <1>3, <1>4

\* The broadcast events.
LEMMA GoodEvents ==
  ASSUME GoodInv, NEW t \in Tabs, EventStep(t) \/ EventTooLate(t)
  PROVE  Good'
<1>0. /\ TypeInv /\ TypeOK /\ inbox \in [Tabs -> Seq(Events)] /\ jar \in Cookies
      /\ call \in [Tabs -> Calls] /\ inbox[t] # <<>> /\ Follows(t)
  BY DEF GoodInv, TypeInv, TypeOK, EventStep, EventAuthenticated, EventSignedOut, EventTooLate
<1>1. [inbox EXCEPT ![t] = Tail(@)] \in [Tabs -> Seq(Events)]
  <2>1. inbox[t] \in Seq(Events) /\ Tail(inbox[t]) \in Seq(Events)
    BY <1>0
  <2> QED
    BY <1>0, <2>1
<1>2. CASE EventAuthenticated(t)
  BY <1>0, <1>1, <1>2, GoodIdle, GoodPageLoad DEF EventAuthenticated
<1>3. CASE EventTooLate(t)
  BY <1>0, <1>1, <1>3, GoodIdle DEF EventTooLate
<1>4. CASE EventSignedOut(t)
  <2>1. CASE store[t].sid = Head(inbox[t]).sid
    <3>1. /\ store' = [store EXCEPT ![t] = SignedOut] /\ ref' = [ref EXCEPT ![t] = Supersede(@)]
          /\ inbox' = [inbox EXCEPT ![t] = Tail(@)]
          /\ UNCHANGED <<row, jar, call, op, lock, orphans, history>>
      BY <1>4, <2>1 DEF EventSignedOut
    <3>2. /\ store' \in [Tabs -> Tokens] /\ store'[t].sid = NoSid
          /\ \A u \in Tabs : u # t => store'[u] = store[u]
      BY <1>0, <3>1, ConstantTypes DEF TypeOK, SignedOut
    <3> QED
      BY <1>0, <1>1, <3>1, <3>2, GoodSuperseded
  <2>2. CASE store[t].sid # Head(inbox[t]).sid
    BY <1>0, <1>1, <1>4, <2>2, GoodIdle DEF EventSignedOut
  <2> QED
    BY <2>1, <2>2
<1> QED
  BY <1>2, <1>3, <1>4 DEF EventStep

-----------------------------------------------------------------------------
(* Login, logout, security changes *)

\* Opening and revoking a session leave its version as it is.
LEMMA StatusSet ==
  ASSUME TypeInv, NEW s \in Sids, NEW status \in {"active", "revoked"},
         row' = [row EXCEPT ![s].status = status]
  PROVE  Grows
<1>1. row \in [Sids -> Rows]
  BY DEF TypeInv, TypeOK
<1>2. [row[s] EXCEPT !.status = status] \in Rows /\ [row[s] EXCEPT !.status = status].ver = row[s].ver
  BY <1>1 DEF Rows
<1>3. row' \in [Sids -> Rows] /\ \A u \in Sids : row'[u].ver = row[u].ver
  BY <1>1, <1>2
<1> QED
  BY <1>3, RowsKept

\* A step that gives the tab another operation, not yet answered.
LEMMA GoodNewOp ==
  ASSUME GoodInv, NEW t \in Tabs, NEW o \in Ops, Grows, op' = [op EXCEPT ![t] = o],
         UNCHANGED <<store, call, inbox, lock, orphans, history>>, jar' = jar \/ jar' \in Cookies,
         \/ ref' = ref
         \/ ref' = [ref EXCEPT ![t] = NewRefresh(store[t].sid, jar)],
         o.kind \in {"login", "advance", "advanceAlone", "rotation"} => o.sid \in Sids,
         o.kind \in {"advance", "advanceAlone"} => o.ver < MaxAdvance,
         o.kind = "rotation" => o.ver <= row'[o.sid].ver
  PROVE  Good'
<1>1. op \in [Tabs -> Ops] /\ call \in [Tabs -> Calls] /\ jar' \in Cookies
  BY DEF GoodInv, TypeInv, TypeOK
<1>2. op' \in [Tabs -> Ops] /\ op'[t] = o /\ \A u \in Tabs : u # t => op'[u] = op[u]
  BY <1>1
<1>3. OpShape(t)' /\ (op'[t].kind = "rotation" => op'[t].ver <= row'[op'[t].sid].ver)
  BY <1>2 DEF OpShape
<1> QED
  BY <1>1, <1>2, <1>3, GoodOp

\* A login opens a session.
LEMMA GoodLogin ==
  ASSUME GoodInv, NEW t \in Tabs, NEW s \in Sids, LoginRequest(t, s)
  PROVE  Good'
<1>1. Grows
  BY StatusSet DEF GoodInv, LoginRequest
<1>2. /\ Op("login", s, 0, FALSE) \in Ops
      /\ Op("login", s, 0, FALSE).kind = "login" /\ Op("login", s, 0, FALSE).sid = s
  BY ConstantTypes DEF Op, Ops, OpKinds
<1> QED
  BY <1>1, <1>2, GoodNewOp DEF LoginRequest

\* A logout on its way, whether or not a session was found to revoke.
LEMMA LogoutOp ==
  ASSUME NEW kind \in {"logout", "logoutRefresh", "revoke"}, NEW clear \in BOOLEAN
  PROVE  Op(kind, NoSid, 0, clear) \in Ops /\ Op(kind, NoSid, 0, clear).kind = kind
<1>1. kind \in OpKinds
  BY DEF OpKinds
<1> QED
  BY <1>1, ConstantTypes, OpType

\* A logout by token or by cookie.
LEMMA GoodLogoutRequest ==
  ASSUME GoodInv, NEW t \in Tabs, LogoutRequest(t)
  PROVE  Good'
<1>0. TypeInv /\ TypeOK /\ store[t].sid \in SidOrNone /\ jar.sid \in SidOrNone
  BY DEF GoodInv, TypeInv, TypeOK, Cookies
<1>1. CASE LogoutByBearer(t)
  <2>1. Grows
    BY <1>0, <1>1, StatusSet DEF LogoutByBearer, SidOrNone
  <2>2. (jar.sid = store[t].sid) \in BOOLEAN
    OBVIOUS
  <2> QED
    BY <1>1, <2>1, <2>2, LogoutOp, GoodNewOp DEF LogoutByBearer, LogoutRequest
<1>2. CASE LogoutByCookie(t)
  <2>1. Grows
    <3>1. CASE row' = row
      BY <1>0, <3>1, RowsKept DEF TypeOK
    <3>2. CASE jar.sid # NoSid /\ row' = [row EXCEPT ![jar.sid].status = "revoked"]
      BY <1>0, <3>2, StatusSet DEF SidOrNone
    <3> QED
      BY <1>2, <3>1, <3>2 DEF LogoutByCookie
  <2> QED
    BY <1>2, <2>1, LogoutOp, GoodNewOp DEF LogoutByCookie, LogoutRequest
<1> QED
  BY <1>1, <1>2 DEF LogoutRequest

\* A logout begins, waits for a refresh, or goes on after it.
LEMMA GoodLogout ==
  ASSUME GoodInv, NEW t \in Tabs, LogoutStart(t) \/ LogoutAgain(t)
  PROVE  Good'
<1>0. TypeInv /\ TypeOK /\ ref \in [Tabs -> Refreshes]
  BY DEF GoodInv, TypeInv, TypeOK
<1>1. CASE LogoutRequest(t)
  BY <1>1, GoodLogoutRequest
<1>2. CASE LogoutMismatch(t)
  <2>1. [ref EXCEPT ![t] = ref[t]] = ref
    BY <1>0
  <2>2. ref' = ref \/ ref' = [ref EXCEPT ![t] = NewRefresh(store[t].sid, jar)]
    BY <1>0, <1>2, <2>1, JoinRefreshType DEF LogoutMismatch
  <2>3. Grows
    BY <1>0, <1>2, RowsKept DEF LogoutMismatch, TypeOK
  <2> QED
    BY <1>2, <2>2, <2>3, LogoutOp, GoodNewOp DEF LogoutMismatch
<1>3. CASE /\ op' = [op EXCEPT ![t] = NoOp]
           /\ UNCHANGED <<row, jar, store, ref, call, inbox, lock, orphans, history>>
  <2>1. Grows
    BY <1>0, <1>3, RowsKept DEF TypeOK
  <2> QED
    BY <1>3, <2>1, NoOpType, GoodNewOp
<1> QED
  BY <1>1, <1>2, <1>3 DEF LogoutStart, LogoutAgain

\* A session of the list is signed out.
LEMMA GoodRevoke ==
  ASSUME GoodInv, NEW t \in Tabs, NEW s \in Sids, RevokeLoginSession(t, s)
  PROVE  Good'
<1>0. TypeInv /\ TypeOK /\ op \in [Tabs -> Ops]
  BY DEF GoodInv, TypeInv, TypeOK
<1>1. Grows
  BY <1>0, StatusSet DEF RevokeLoginSession
<1>2. PICK kind \in {"logout", "revoke"} : op' = [op EXCEPT ![t] = Op(kind, NoSid, 0, jar.sid = s)]
  BY DEF RevokeLoginSession
<1>3. (jar.sid = s) \in BOOLEAN
  OBVIOUS
<1>4. Op(kind, NoSid, 0, jar.sid = s) \in Ops /\ Op(kind, NoSid, 0, jar.sid = s).kind = kind
  BY <1>3, LogoutOp
<1> QED
  BY <1>1, <1>2, <1>4, GoodNewOp DEF RevokeLoginSession

\* An operation ends, or goes on without its page, whatever its answer did to
\* the jar.
LEMMA GoodOpEnds ==
  ASSUME GoodInv, NEW t \in Tabs, RevokeArrives(t) \/ OpLost(t) \/ AdvanceFails(t)
  PROVE  Good'
<1>0. /\ TypeInv /\ TypeOK /\ jar \in Cookies /\ op[t] \in Ops /\ OpShape(t) /\ row \in [Sids -> Rows]
  BY DEF GoodInv, TypeInv, TypeOK
<1>1. OpCookie(t) \in Cookies
  BY <1>0, OpCookieType DEF OpShape
<1>2. /\ jar' \in Cookies
      /\ UNCHANGED <<row, store, ref, call, inbox, lock, orphans, history>>
  BY <1>0, <1>1 DEF RevokeArrives, OpLost, AdvanceFails
<1>3. Grows
  BY <1>0, <1>2, RowsKept
<1> DEFINE alone == [op[t] EXCEPT !.kind = "advanceAlone"]
<1>4. alone \in Ops /\ alone.kind = "advanceAlone" /\ alone.sid = op[t].sid /\ alone.ver = op[t].ver
  BY <1>0 DEF Ops, OpKinds
<1>5. \/ op' = [op EXCEPT ![t] = NoOp]
      \/ op[t].kind = "advance" /\ op' = [op EXCEPT ![t] = alone]
  BY DEF RevokeArrives, OpLost, AdvanceFails
<1> HIDE DEF alone
<1>6. CASE op' = [op EXCEPT ![t] = NoOp]
  BY <1>2, <1>3, <1>6, NoOpType, GoodNewOp
<1>7. CASE op[t].kind = "advance" /\ op' = [op EXCEPT ![t] = alone]
  <2>1. op[t].sid \in Sids /\ op[t].ver < MaxAdvance
    BY <1>0, <1>7 DEF OpShape
  <2> QED
    BY <1>2, <1>3, <1>4, <1>7, <2>1, GoodNewOp
<1> QED
  BY <1>5, <1>6, <1>7

\* A security change is sent with a version below the bound.
LEMMA GoodSecurityChange ==
  ASSUME GoodInv, NEW t \in Tabs, SecurityChange(t)
  PROVE  Good'
<1>0. /\ TypeInv /\ TypeOK /\ row \in [Sids -> Rows]
      /\ store[t].sid \in SidOrNone /\ store[t].ver \in Versions
  BY DEF GoodInv, TypeInv, TypeOK
<1>1. Grows
  <2>1. row' = [s \in Sids |-> [row[s] EXCEPT !.old = row[s].status = "active"]]
    BY DEF SecurityChange
  <2>2. \A s \in Sids : /\ [row[s] EXCEPT !.old = row[s].status = "active"] \in Rows
                        /\ [row[s] EXCEPT !.old = row[s].status = "active"].ver = row[s].ver
    <3> SUFFICES ASSUME NEW s \in Sids
                 PROVE  /\ [row[s] EXCEPT !.old = row[s].status = "active"] \in Rows
                        /\ [row[s] EXCEPT !.old = row[s].status = "active"].ver = row[s].ver
      OBVIOUS
    <3>1. ASSUME NEW b \in BOOLEAN
          PROVE  [row[s] EXCEPT !.old = b] \in Rows /\ [row[s] EXCEPT !.old = b].ver = row[s].ver
      BY <1>0 DEF Rows
    <3>2. (row[s].status = "active") \in BOOLEAN
      OBVIOUS
    <3> QED
      BY <3>1, <3>2
  <2> QED
    BY <1>0, <2>1, <2>2, RowsKept
<1>2. /\ store[t].sid \in Sids /\ store[t].ver < MaxAdvance
      /\ op' = [op EXCEPT ![t] = Op("advance", store[t].sid, store[t].ver, FALSE)]
      /\ UNCHANGED <<jar, store, ref, call, inbox, lock, orphans, history>>
  BY <1>0 DEF SecurityChange, Valid, SidOrNone
<1>3. /\ Op("advance", store[t].sid, store[t].ver, FALSE) \in Ops
      /\ Op("advance", store[t].sid, store[t].ver, FALSE).kind = "advance"
      /\ Op("advance", store[t].sid, store[t].ver, FALSE).sid = store[t].sid
      /\ Op("advance", store[t].sid, store[t].ver, FALSE).ver = store[t].ver
  BY <1>0 DEF Op, Ops, OpKinds
<1> QED
  BY <1>1, <1>2, <1>3, GoodNewOp

\* The session follows the security change: its version grows with the row.
LEMMA GoodAdvance ==
  ASSUME GoodInv, NEW t \in Tabs, AdvanceSession(t)
  PROVE  Good'
<1> DEFINE o == op[t]
           rotation == Op("rotation", o.sid, o.ver + 1, FALSE)
           advanced == row[o.sid].status = "active" /\ row[o.sid].ver = o.ver
<1>0. /\ TypeInv /\ TypeOK /\ row \in [Sids -> Rows] /\ o \in Ops /\ op \in [Tabs -> Ops]
      /\ o.kind \in {"advance", "advanceAlone"} /\ o.sid \in Sids /\ o.ver < MaxAdvance
      /\ o.ver \in Versions /\ o.sid \in SidOrNone
  <2>1. o.kind \in {"advance", "advanceAlone"}
    BY Zenon DEF AdvanceSession
  <2> QED
    BY <2>1, ConstantTypes DEF GoodInv, TypeInv, TypeOK, OpShape, Ops
<1>1. UNCHANGED <<jar, store, ref, call, inbox, lock, orphans, history>>
  BY Zenon DEF AdvanceSession
<1>2. CASE ~advanced
  <2>1. row' = row /\ op' = [op EXCEPT ![t] = NoOp]
    BY <1>2, Zenon DEF AdvanceSession
  <2>2. Grows
    BY <1>0, <2>1, RowsKept
  <2> QED
    BY <1>1, <2>1, <2>2, NoOpType, GoodNewOp
<1>3. CASE advanced
  <2>1. /\ row' = [s \in Sids |->
                     IF s = o.sid THEN [row[s] EXCEPT !.ver = @ + 1, !.old = FALSE]
                     ELSE IF row[s].status = "active" THEN [row[s] EXCEPT !.status = "revoked"]
                     ELSE row[s]]
        /\ op' = [op EXCEPT ![t] = IF o.kind = "advanceAlone" THEN NoOp ELSE rotation]
    BY <1>3, Zenon DEF AdvanceSession
  <2>2. o.ver + 1 \in Versions /\ o.ver + 1 \in Int /\ o.ver \in Int
    BY <1>0, WebAuthAssumption DEF Versions
  <2>3. row'[o.sid] \in Rows /\ row'[o.sid].ver = o.ver + 1
    <3> DEFINE q == [row[o.sid] EXCEPT !.ver = o.ver + 1]
    <3>1. q \in Rows /\ q.ver = o.ver + 1
      BY <1>0, <2>2 DEF Rows
    <3>2. row'[o.sid] = [row[o.sid] EXCEPT !.ver = @ + 1, !.old = FALSE]
      BY <1>0, <2>1, Zenon
    <3>3. row'[o.sid] = [q EXCEPT !.old = FALSE]
      BY <1>3, <3>2
    <3> HIDE DEF q
    <3> QED
      BY <3>1, <3>3 DEF Rows
  <2>4. ASSUME NEW s \in Sids, s # o.sid
        PROVE  row'[s] \in Rows /\ row'[s].ver = row[s].ver
    <3>1. row'[s] = row[s] \/ row'[s] = [row[s] EXCEPT !.status = "revoked"]
      BY <2>1, <2>4, Zenon
    <3> QED
      BY <1>0, <3>1 DEF Rows
  <2>5. \A s \in Sids : row[s].ver \in Int
    BY <1>0, VersionTypes
  <2>6. rotation \in Ops /\ rotation.kind = "rotation" /\ rotation.sid = o.sid /\ rotation.ver = o.ver + 1
    BY <1>0, <2>2 DEF Op, Ops, OpKinds
  <2> HIDE DEF rotation
  <2>7. /\ row' \in [Sids -> Rows] /\ row'[o.sid].ver = o.ver + 1
        /\ \A s \in Sids : s # o.sid => row'[s].ver = row[s].ver
    <3>1. DOMAIN row' = Sids /\ row' = [s \in DOMAIN row' |-> row'[s]]
      BY <2>1, Zenon
    <3> QED
      BY <2>3, <2>4, <3>1
  <2>8. Grows
    BY <1>3, <2>2, <2>5, <2>7 DEF Grows
  <2>9. o.ver + 1 <= row'[o.sid].ver
    BY <2>2, <2>7
  <2>10. CASE op' = [op EXCEPT ![t] = NoOp]
    BY <1>1, <2>8, <2>10, NoOpType, GoodNewOp
  <2>11. CASE op' = [op EXCEPT ![t] = rotation]
    BY <1>0, <1>1, <2>6, <2>8, <2>9, <2>11, GoodNewOp
  <2>12. op' = [op EXCEPT ![t] = NoOp] \/ op' = [op EXCEPT ![t] = rotation]
    BY <2>1, Zenon
  <2> QED
    BY <2>10, <2>11, <2>12
<1> QED
  BY <1>2, <1>3

\* The answers to logins, logouts and security changes.
LEMMA GoodArrivals ==
  ASSUME GoodInv, NEW t \in Tabs, LoginArrives(t) \/ LogoutArrives(t) \/ AdvanceArrives(t)
  PROVE  Good'
<1>0. /\ TypeInv /\ TypeOK /\ jar \in Cookies /\ call \in [Tabs -> Calls] /\ op[t] \in Ops
      /\ op[t].ver \in Versions /\ Follows(t) /\ OpShape(t) /\ inbox \in [Tabs -> Seq(Events)]
      /\ row \in [Sids -> Rows]
  BY DEF GoodInv, TypeInv, TypeOK, Ops
<1>1. CASE LoginArrives(t)
  <2>1. op[t].sid \in Sids /\ op[t].sid \in SidOrNone /\ 0 <= row[op[t].sid].ver
    <3>1. op[t].sid \in Sids /\ op[t].sid \in SidOrNone
      BY <1>0, <1>1, ConstantTypes DEF LoginArrives, OpShape
    <3>2. row[op[t].sid].ver \in 0..MaxAdvance
      BY <1>0, <3>1 DEF Rows, Versions
    <3> QED
      BY <3>1, <3>2, WebAuthAssumption
  <2>2. /\ ApplyAuthBundle(t, op[t].sid, 0, TRUE) /\ ref' = [ref EXCEPT ![t] = Supersede(@)]
        /\ jar' = OpCookie(t) /\ op' = [op EXCEPT ![t] = NoOp]
        /\ UNCHANGED <<row, call, lock, orphans, history>>
    BY <1>1 DEF LoginArrives
  <2>3. jar' \in Cookies
    BY <1>0, <2>1, <2>2, OpCookieType
  <2>4. /\ store' \in [Tabs -> Tokens]
        /\ inbox' \in [Tabs -> Seq(Events)]
        /\ store'[t].sid = op[t].sid /\ store'[t].ver = 0
        /\ \A u \in Tabs : u # t => store'[u] = store[u]
    BY <1>0, <2>1, <2>2, ConstantTypes, ApplyType
  <2> QED
    BY <1>0, <2>1, <2>2, <2>3, <2>4, GoodSuperseded
<1>2. CASE LogoutArrives(t)
  <2>1. /\ ClearAuthentication(t, TRUE) /\ ref' = [ref EXCEPT ![t] = Supersede(@)]
        /\ jar' \in Cookies /\ op' = [op EXCEPT ![t] = NoOp]
        /\ UNCHANGED <<row, call, lock, orphans, history>>
    BY <1>0, <1>2, OpCookieType DEF LogoutArrives, OpShape
  <2>2. /\ store' \in [Tabs -> Tokens]
        /\ inbox' \in [Tabs -> Seq(Events)] /\ store'[t].sid = NoSid
        /\ \A u \in Tabs : u # t => store'[u] = store[u]
    BY <1>0, <2>1, ClearType
  <2> QED
    BY <1>0, <2>1, <2>2, GoodSuperseded
<1>3. CASE AdvanceArrives(t) /\ op[t].sid = store[t].sid
  <2>1. /\ ApplyAuthBundle(t, op[t].sid, op[t].ver, FALSE) /\ ref' = [ref EXCEPT ![t] = Supersede(@)]
        /\ op[t].kind = "rotation" /\ op' = [op EXCEPT ![t] = NoOp]
        /\ UNCHANGED <<row, jar, call, lock, orphans, history>>
    BY <1>3 DEF AdvanceArrives
  <2>2. op[t].sid \in SidOrNone /\ op[t].ver <= row[op[t].sid].ver
    BY <1>0, <2>1, ConstantTypes DEF OpShape, Follows
  <2>3. /\ store' \in [Tabs -> Tokens]
        /\ inbox' \in [Tabs -> Seq(Events)]
        /\ store'[t].sid = op[t].sid /\ store'[t].ver = op[t].ver
        /\ \A u \in Tabs : u # t => store'[u] = store[u]
    BY <1>0, <2>1, <2>2, ApplyType
  <2> QED
    BY <1>0, <2>1, <2>2, <2>3, GoodSuperseded
<1>4. CASE AdvanceArrives(t) /\ op[t].sid # store[t].sid
  <2>1. /\ op' = [op EXCEPT ![t] = NoOp]
        /\ UNCHANGED <<row, jar, store, ref, call, inbox, lock, orphans, history>>
    BY <1>4 DEF AdvanceArrives
  <2>2. Grows
    BY <1>0, <2>1, RowsKept
  <2> QED
    BY <2>1, <2>2, NoOpType, GoodNewOp
<1> QED
  BY <1>1, <1>2, <1>3, <1>4

\* Every step of an operation.
LEMMA GoodOps ==
  ASSUME GoodInv, NEW t \in Tabs, OpStep(t)
  PROVE  Good'
  BY GoodArrivals, GoodOpEnds, GoodLogout, GoodAdvance DEF OpStep

-----------------------------------------------------------------------------
(* The whole *)

\* The invariant holds when every tab has loaded the same login.
LEMMA GoodInit ==
  ASSUME Init
  PROVE  GoodInv
<1>1. /\ row = [u \in Sids |-> [status |-> IF u = First THEN "active" ELSE "none",
                               grace |-> FALSE, ver |-> 0, old |-> FALSE]]
      /\ jar = [sid |-> First, age |-> 0]
      /\ store = [t \in Tabs |-> [sid |-> First, ver |-> 0]]
      /\ First \in Sids
  BY WebAuthAssumption DEF Init
<1>2. row \in [Sids -> Rows] /\ row[First].ver = 0
  BY <1>1, ConstantTypes DEF Rows
<1>3. jar \in Cookies /\ store \in [Tabs -> Tokens]
  BY <1>1, ConstantTypes DEF Cookies
<1>4. /\ ref \in [Tabs -> Refreshes] /\ \A t \in Tabs : ref[t].pc = "none"
      /\ op \in [Tabs -> Ops] /\ \A t \in Tabs : op[t].kind = "none"
  BY NoRefreshType, NoOpType DEF Init
<1>5. inbox \in [Tabs -> Seq(Events)]
  <2>1. <<>> \in Seq(Events)
    OBVIOUS
  <2> QED
    BY <2>1 DEF Init
<1>6. /\ call \in [Tabs -> Calls] /\ lock \in Tabs \cup {NoTab} /\ orphans = {}
      /\ history \in [lost : BOOLEAN, replayed : BOOLEAN]
      /\ uses \in [begun : 0..MaxUses, astray : 0..MaxFaults]
  BY WebAuthAssumption, CallType DEF Init
<1>7. TypeOK
  BY <1>2, <1>3, <1>4, <1>5, <1>6 DEF TypeOK
<1>8. \A t \in Tabs : OpShape(t) /\ Follows(t)
  BY <1>1, <1>2, <1>4 DEF OpShape, Follows
<1> QED
  BY <1>7, <1>8 DEF GoodInv, TypeInv

\* The replay window ends.
LEMMA GoodGraceEnds ==
  ASSUME GoodInv, NEW s \in Sids, GraceEnds(s)
  PROVE  Good'
<1>0. TypeInv /\ TypeOK /\ row \in [Sids -> Rows]
  BY DEF GoodInv, TypeInv, TypeOK
<1>1. [row[s] EXCEPT !.grace = FALSE] \in Rows /\ [row[s] EXCEPT !.grace = FALSE].ver = row[s].ver
  BY <1>0 DEF Rows
<1>2. row' \in [Sids -> Rows] /\ \A u \in Sids : row'[u].ver = row[u].ver
  BY <1>0, <1>1 DEF GraceEnds
<1>3. Typed' /\ Grows
  BY <1>0, <1>2, RowsKept DEF Typed, TypeOK, GraceEnds
<1>4. \A u \in Tabs : Follows(u)' /\ OpShape(u)'
  BY <1>0, <1>3, FollowsKept, SameRefresh DEF GraceEnds, GoodInv, TypeInv
<1> QED
  BY <1>3, <1>4 DEF Good

\* Every step keeps the invariant.
LEMMA GoodNext ==
  ASSUME GoodInv, [Next]_vars
  PROVE  GoodInv'
<1> DEFINE counts == [begun : 0..MaxUses, astray : 0..MaxFaults]
<1>0. TypeInv /\ TypeOK /\ uses \in counts
  BY DEF GoodInv, TypeInv, TypeOK
<1>1. ASSUME Good', uses' \in counts
      PROVE  GoodInv'
  BY <1>1 DEF Good, Typed, GoodInv, TypeInv, TypeOK
<1>2. CASE UNCHANGED vars
  BY <1>2 DEF vars, GoodInv, TypeInv, TypeOK, OpShape, Follows
<1>3. ASSUME NEW t \in Tabs, UserStep(t) PROVE GoodInv'
  <2>1. uses' \in counts
    BY <1>0, <1>3, WebAuthAssumption DEF UserStep
  <2>2. Good'
    BY <1>3, GoodStarts, GoodPageLoad, GoodLogout, GoodSecurityChange, GoodRevoke
    DEF UserStep, ExpiredTokenUsed, Reload
  <2> QED
    BY <1>1, <2>1, <2>2
<1>4. ASSUME NEW t \in Tabs, FaultStep(t) PROVE GoodInv'
  <2>1. uses' \in counts
    BY <1>0, <1>4, WebAuthAssumption DEF FaultStep
  <2>2. Good'
    BY <1>4, RefusesIfFaulty, GoodFaults, GoodOpEnds, GoodEvents DEF FaultStep
  <2> QED
    BY <1>1, <2>1, <2>2
<1>5. ASSUME NEW t \in Tabs, UNCHANGED uses,
             \/ ServerStep(t) \/ RunnerStep(t) \/ OpStep(t) \/ EventStep(t) \/ CallStep(t)
             \/ \E s \in Sids : LoginRequest(t, s)
      PROVE  GoodInv'
  <2>1. ASSUME ServerStep(t) PROVE Good'
    BY <2>1, GoodServerRefresh, RefusesIfFaulty, GoodFaults DEF ServerStep
  <2>2. ASSUME CallStep(t) PROVE Good'
    BY <2>2, GoodStarts, GoodApi DEF CallStep, DeadTokenUsed
  <2>3. Good'
    BY <1>5, <2>1, <2>2, GoodRunner, GoodOps, GoodEvents, GoodLogin
  <2> QED
    BY <1>0, <1>1, <1>5, <2>3
<1>6. ASSUME NEW o \in orphans, ServerOrphan(o), UNCHANGED uses PROVE GoodInv'
  BY <1>0, <1>1, <1>6, GoodServerOrphan
<1>7. ASSUME NEW s \in Sids, GraceEnds(s), UNCHANGED uses PROVE GoodInv'
  BY <1>0, <1>1, <1>7, GoodGraceEnds
<1> QED
  BY <1>2, <1>3, <1>4, <1>5, <1>6, <1>7 DEF Next

\* Every state of the tabs, the browser and the sessions has its type, with any
\* number of tabs and sessions: in particular a refresh waits for a race three
\* times at most (runRefresh), and no version passes the security changes made.
THEOREM WebTypeCorrect == Spec => []TypeOK
<1>1. Init => GoodInv
  BY GoodInit
<1>2. GoodInv /\ [Next]_vars => GoodInv'
  BY GoodNext
<1>3. GoodInv => TypeOK
  BY DEF GoodInv, TypeInv
<1> QED
  BY <1>1, <1>2, <1>3, PTL DEF Spec

\* refreshAuthentication, in any number of tabs: an answer is taken only for the
\* session its request was sent for, and never gives a tab an older token than
\* it has.
THEOREM RefreshNeverStale == Spec => NoStaleRefresh
<1>1. Init => GoodInv
  BY GoodInit
<1>2. GoodInv /\ [Next]_vars => GoodInv'
  BY GoodNext
<1>3. ASSUME GoodInv, NEW t \in Tabs, RefreshAccepted(t)
      PROVE  /\ store[t].sid = ref[t].exp
             /\ store[t].sid = store'[t].sid => store'[t].ver >= store[t].ver
  <2>1. /\ TypeInv /\ Follows(t) /\ ref[t].pc = "back" /\ ref[t].cur /\ ref[t].ans.code = "ok"
        /\ ApplyAuthBundle(t, ref[t].ans.cookie.sid, ref[t].ans.ver, FALSE)
    BY <1>3 DEF GoodInv, RefreshAccepted, Landing
  <2>2. /\ store[t].sid = ref[t].exp
        /\ ref[t].ans.cookie.sid = store[t].sid => store[t].ver <= ref[t].ans.ver
    BY <2>1 DEF Follows
  <2>3. store'[t].sid = ref[t].ans.cookie.sid /\ store'[t].ver = ref[t].ans.ver
    BY <2>1 DEF ApplyAuthBundle, TypeInv, TypeOK
  <2>4. store[t].ver \in Int /\ ref[t].ans.ver \in Int
    BY <2>1, VersionTypes
  <2> QED
    BY <2>2, <2>3, <2>4
<1>4. GoodInv /\ [Next]_vars =>
        [\A t \in Tabs : RefreshAccepted(t) =>
            /\ store[t].sid = ref[t].exp
            /\ store[t].sid = store'[t].sid => store'[t].ver >= store[t].ver]_vars
  BY <1>3
<1> QED
  BY <1>1, <1>2, <1>4, PTL DEF Spec, NoStaleRefresh
-----------------------------------------------------------------------------
(* The refresh token is never replayed *)

\* From its grant to its settlement the refresh of a tab holds the browser lock.
Active(r) == r.pc \in {"sent", "back", "wait"}

\* A newer cookie than the browser's is on its way to tab t.
Renewing(t) == ref[t].pc = "back" /\ ref[t].ans.jar = "set"

\* The refresh of tab t: it holds the lock, sends the session's current secret
\* and, if the server rotates it, is answered with the new one.
RefreshSound(t) ==
    /\ Active(ref[t]) => lock = t
    /\ ref[t].pc = "sent" => ref[t].cookie.age = 0
    /\ Renewing(t) => ref[t].ans.cookie.age = 0 /\ ref[t].ans.code = "ok"

\* No answer was lost: the browser's cookie is the current secret of its
\* session, but for the time in which the new one travels to the lock's holder.
Calm ==
    /\ ~history.replayed
    /\ orphans = {}
    /\ jar.age = 0 \/ \E t \in Tabs : Renewing(t)
    /\ \A t \in Tabs : RefreshSound(t)

CalmUnlessLost == HasLocks => history.lost \/ Calm

\* A refresh that is the same for the browser's cookie.
Alike(q, r) ==
    \/ q.pc = r.pc /\ q.cookie = r.cookie /\ q.ans = r.ans
    \/ ~Active(q) /\ ~Active(r)

\* Only the lock's holder can be waiting for a newer cookie.
LEMMA JarCurrent ==
  ASSUME Calm, lock = NoTab \/ \E t \in Tabs : Active(ref[t]) /\ ~Renewing(t)
  PROVE  jar.age = 0
<1>1. ASSUME NEW u \in Tabs, Renewing(u) PROVE FALSE
  <2>1. Active(ref[u]) /\ lock = u
    BY <1>1 DEF Calm, RefreshSound, Renewing, Active
  <2> QED
    BY <1>1, <2>1, WebAuthAssumption DEF Calm, RefreshSound
<1> QED
  BY <1>1 DEF Calm

\* A step of tab t: the others hold no lock they did not hold before.
LEMMA CalmOneTab ==
  ASSUME Calm, NEW t \in Tabs, ~history'.replayed, orphans' = {},
         RefreshSound(t)',
         jar'.age = 0 \/ \E u \in Tabs : Renewing(u)',
         \A u \in Tabs : u # t => Alike(ref'[u], ref[u]),
         lock' = lock \/ \A u \in Tabs : u # t => lock # u
  PROVE  Calm'
<1>1. ASSUME NEW u \in Tabs, u # t PROVE RefreshSound(u)'
  <2>1. CASE ~Active(ref'[u])
    BY <2>1 DEF RefreshSound, Renewing, Active
  <2>2. CASE Active(ref'[u])
    <3>1. ref'[u].pc = ref[u].pc /\ ref'[u].cookie = ref[u].cookie /\ ref'[u].ans = ref[u].ans
      BY <1>1, <2>2 DEF Alike
    <3>2. RefreshSound(u) /\ Active(ref[u]) /\ lock = u
      BY <2>2, <3>1 DEF Calm, RefreshSound, Active
    <3> QED
      BY <1>1, <3>1, <3>2 DEF RefreshSound, Renewing, Active
  <2> QED
    BY <2>1, <2>2
<1> QED
  BY <1>1 DEF Calm

\* A step that leaves the lock, the requests and their answers alone.
LEMMA CalmKept ==
  ASSUME Calm, UNCHANGED <<lock, orphans, history>>, jar' = jar \/ jar'.age = 0,
         \A u \in Tabs : Alike(ref'[u], ref[u])
  PROVE  Calm'
<1>1. ASSUME NEW u \in Tabs PROVE RefreshSound(u)' /\ (Renewing(u) => Renewing(u)')
  <2>1. CASE ~Active(ref'[u]) /\ ~Active(ref[u])
    BY <2>1 DEF RefreshSound, Renewing, Active
  <2>2. CASE ref'[u].pc = ref[u].pc /\ ref'[u].cookie = ref[u].cookie /\ ref'[u].ans = ref[u].ans
    BY <2>2 DEF RefreshSound, Renewing, Active, Calm
  <2> QED
    BY <1>1, <2>1, <2>2 DEF Alike
<1> QED
  BY <1>1 DEF Calm

LEMMA AlikeItself == \A q, r : q = r => Alike(q, r)
  BY DEF Alike

\* The server sets a cookie when it rotates, and then it is the current one.
LEMMA AnswerFresh ==
  ASSUME TypeOK, NEW c \in Cookies, NEW exp \in SidOrNone
  PROVE  /\ RefreshAnswer(c, exp).code = "ok" <=> RefreshAnswer(c, exp).jar = "set"
         /\ RefreshAnswer(c, exp).jar = "set" => RefreshAnswer(c, exp).cookie.age = 0
<1>1. [c EXCEPT !.age = 0].age = 0
  BY DEF Cookies
<1>2. \/ RefreshAnswer(c, exp) = Answer("denied", "clear", NoCookie, 0)
      \/ RefreshAnswer(c, exp) = Answer("mismatch", "keep", NoCookie, 0)
      \/ RefreshAnswer(c, exp) = Answer("ok", "set", [c EXCEPT !.age = 0], row[c.sid].ver)
  BY DEF RefreshAnswer
<1>3. CASE RefreshAnswer(c, exp) = Answer("denied", "clear", NoCookie, 0)
  <2>1. RefreshAnswer(c, exp).code = "denied" /\ RefreshAnswer(c, exp).jar = "clear"
    BY <1>3 DEF Answer
  <2> QED
    BY <2>1
<1>4. CASE RefreshAnswer(c, exp) = Answer("mismatch", "keep", NoCookie, 0)
  <2>1. RefreshAnswer(c, exp).code = "mismatch" /\ RefreshAnswer(c, exp).jar = "keep"
    BY <1>4 DEF Answer
  <2> QED
    BY <2>1
<1>5. CASE RefreshAnswer(c, exp) = Answer("ok", "set", [c EXCEPT !.age = 0], row[c.sid].ver)
  <2>1. /\ RefreshAnswer(c, exp).code = "ok" /\ RefreshAnswer(c, exp).jar = "set"
        /\ RefreshAnswer(c, exp).cookie = [c EXCEPT !.age = 0]
    BY <1>5 DEF Answer
  <2> QED
    BY <1>1, <2>1
<1> QED
  BY <1>2, <1>3, <1>4, <1>5

\* The answer arrives and with it the current secret.
LEMMA CalmLanding ==
  ASSUME Calm, TypeOK, NEW t \in Tabs, ref[t].pc = "back"
  PROVE  StoreCookie(ref[t].ans).age = 0
<1>1. ref[t].ans.jar \in JarEffects
  BY DEF TypeOK, Refreshes, Answers
<1>2. CASE Renewing(t)
  BY <1>2 DEF Renewing, StoreCookie, Calm, RefreshSound
<1>3. CASE ~Renewing(t)
  <2>1. jar.age = 0
    BY <1>3, JarCurrent DEF Active
  <2> QED
    BY <1>1, <1>3, <2>1 DEF Renewing, StoreCookie, NoCookie, JarEffects
<1> QED
  BY <1>2, <1>3

\* The lock's holder sends the current secret, so the server rotates it, and
\* the new secret is the answer.
LEMMA CalmServerRefresh ==
  ASSUME Calm, TypeInv, NEW t \in Tabs, ServerRefresh(t)
  PROVE  Calm'
<1> DEFINE c == ref[t].cookie
           exp == ref[t].exp
           ans == RefreshAnswer(c, exp)
<1>0. /\ TypeOK /\ ref[t] \in Refreshes /\ c \in Cookies /\ exp \in SidOrNone
      /\ ref \in [Tabs -> Refreshes] /\ history \in [lost : BOOLEAN, replayed : BOOLEAN]
  BY DEF TypeInv, TypeOK, Refreshes
<1>1. /\ ref[t].pc = "sent" /\ ServerEffect(c, exp)
      /\ ref' = [AgedRefreshes(c, exp) EXCEPT ![t] = Answered(ref[t], ans)]
      /\ jar' = IF Rotates(c, exp) THEN Ageing(jar, c.sid) ELSE jar
      /\ orphans' = AgedOrphans(orphans, c, exp)
      /\ UNCHANGED lock
  BY DEF ServerRefresh
<1>2. Active(ref[t]) /\ ~Renewing(t) /\ lock = t /\ c.age = 0
  BY <1>1 DEF Calm, RefreshSound, Active, Renewing
<1>3. jar.age = 0
  BY <1>2, JarCurrent
<1>4. ~history'.replayed
  <2>1. ~Replayed(c, exp)
    BY <1>2 DEF Replayed
  <2> QED
    BY <1>0, <1>1, <2>1 DEF ServerEffect, Calm
<1>5. orphans' = {}
  BY <1>1 DEF AgedOrphans, Calm
<1>6. /\ AgedRefreshes(c, exp) \in [Tabs -> Refreshes]
      /\ \A u \in Tabs : SameBut(AgedRefreshes(c, exp)[u], ref[u])
  BY <1>0, AgedType DEF TypeInv
<1>7. ref'[t] = Answered(ref[t], ans) /\ \A u \in Tabs : u # t => ref'[u] = AgedRefreshes(c, exp)[u]
  BY <1>1, <1>6
<1>8. ref'[t].pc = "back" /\ ref'[t].ans = ans
  BY <1>0, <1>7 DEF Answered, Refreshes
<1>9. /\ ans.code = "ok" <=> ans.jar = "set"
      /\ ans.jar = "set" => ans.cookie.age = 0
  BY <1>0, AnswerFresh
<1>10. RefreshSound(t)'
  BY <1>1, <1>2, <1>8, <1>9 DEF RefreshSound, Renewing
<1>11. jar'.age = 0 \/ Renewing(t)'
  BY <1>1, <1>2, <1>3, <1>8, <1>9 DEF Rotates, Renewing
<1>12. ASSUME NEW u \in Tabs, u # t PROVE Alike(ref'[u], ref[u])
  <2>1. ~Active(ref[u])
    BY <1>2, <1>12 DEF Calm, RefreshSound
  <2>2. ref'[u].pc = ref[u].pc
    BY <1>6, <1>7, <1>12 DEF SameBut
  <2> QED
    BY <2>1, <2>2 DEF Alike, Active
<1> QED
  BY <1>1, <1>4, <1>5, <1>10, <1>11, <1>12, CalmOneTab

\* A request that fails has changed nothing on the server.
LEMMA CalmRefuses ==
  ASSUME Calm, TypeInv, NEW t \in Tabs, NEW code \in Refused, ServerRefuses(t, code)
  PROVE  Calm'
<1>0. ref[t] \in Refreshes /\ ref \in [Tabs -> Refreshes]
  BY DEF TypeInv, TypeOK
<1>1. ref' = [ref EXCEPT ![t] = Answered(@, Answer(code, "keep", NoCookie, 0))]
  BY DEF ServerRefuses
<1>2. ref[t].pc = "sent" /\ UNCHANGED <<jar, lock, orphans, history>>
  BY DEF ServerRefuses
<1>3. /\ ref'[t].pc = "back" /\ ref'[t].ans = Answer(code, "keep", NoCookie, 0)
      /\ \A u \in Tabs : u # t => ref'[u] = ref[u]
  BY <1>0, <1>1 DEF Answered, Refreshes
<1>4. ref'[t].ans.jar = "keep"
  BY <1>3 DEF Answer
<1>5. Active(ref[t]) /\ ~Renewing(t) /\ lock = t
  BY <1>2 DEF Calm, RefreshSound, Active, Renewing
<1>6. jar'.age = 0
  BY <1>2, <1>5, JarCurrent
<1>7. RefreshSound(t)'
  BY <1>2, <1>3, <1>4, <1>5 DEF RefreshSound, Renewing
<1> QED
  BY <1>2, <1>3, <1>6, <1>7, AlikeItself, CalmOneTab DEF Calm

\* With the lock free, or held by this tab, the cookie that is sent is current.
LEMMA CalmSending ==
  ASSUME Calm, TypeInv, NEW t \in Tabs, RefreshLock(t) \/ RefreshWaited(t)
  PROVE  Calm'
<1>0. ref[t] \in Refreshes /\ ref \in [Tabs -> Refreshes]
  BY DEF TypeInv, TypeOK
<1>1. /\ ref' = [ref EXCEPT ![t] = Sending(@, store[t].sid, jar)]
      /\ UNCHANGED <<jar, orphans, history>>
  BY DEF RefreshLock, RefreshWaited
<1>2. /\ lock = NoTab \/ (Active(ref[t]) /\ ~Renewing(t))
      /\ lock' = t
      /\ \A u \in Tabs : u # t => lock # u
  BY WebAuthAssumption DEF RefreshLock, RefreshWaited, Calm, RefreshSound, Active, Renewing
<1>3. jar.age = 0
  BY <1>2, JarCurrent
<1>4. /\ ref'[t].pc = "sent" /\ ref'[t].cookie = jar
      /\ \A u \in Tabs : u # t => ref'[u] = ref[u]
  BY <1>0, <1>1 DEF Sending, Refreshes
<1>5. RefreshSound(t)'
  BY <1>1, <1>2, <1>3, <1>4 DEF RefreshSound, Renewing
<1> QED
  BY <1>1, <1>2, <1>3, <1>4, <1>5, AlikeItself, CalmOneTab DEF Calm

\* The refresh settles and the lock is free again.
LEMMA CalmSettled ==
  ASSUME Calm, TypeInv, NEW t \in Tabs, NEW outcome, Settle(t, outcome),
         UNCHANGED <<orphans, history>>, jar'.age = 0
  PROVE  Calm'
<1>1. ref'[t] = NoRefresh /\ \A u \in Tabs : u # t => ref'[u] = ref[u]
  BY DEF Settle, TypeInv, TypeOK
<1>2. lock' = lock \/ \A u \in Tabs : u # t => lock # u
  BY DEF Settle
<1>3. RefreshSound(t)'
  BY <1>1, NoRefreshType DEF RefreshSound, Renewing, Active
<1> QED
  BY <1>1, <1>2, <1>3, AlikeItself, CalmOneTab DEF Calm

LEMMA CalmEnds ==
  ASSUME Calm, TypeInv, NEW t \in Tabs,
         \/ RefreshSuperseded(t) \/ RefreshAccepted(t) \/ RefreshOutOfSync(t)
         \/ RefreshDenied(t) \/ RefreshTransient(t)
  PROVE  Calm'
<1>0. TypeOK
  BY DEF TypeInv
<1>1. PICK outcome : Settle(t, outcome)
  BY DEF RefreshSuperseded, RefreshAccepted, RefreshOutOfSync, RefreshDenied, RefreshTransient
<1>2. UNCHANGED <<orphans, history>>
  BY DEF RefreshSuperseded, RefreshAccepted, RefreshOutOfSync, RefreshDenied, RefreshTransient
<1>3. \/ ref[t].pc = "back" /\ jar' = StoreCookie(ref[t].ans)
      \/ ref[t].pc = "lock" /\ lock = NoTab /\ jar' = jar
      \/ ref[t].pc = "wait" /\ jar' = jar
  BY DEF RefreshSuperseded, RefreshAccepted, RefreshOutOfSync, RefreshDenied, RefreshTransient, Landing
<1>4. jar'.age = 0
  <2>1. CASE ref[t].pc = "back" /\ jar' = StoreCookie(ref[t].ans)
    BY <1>0, <2>1, CalmLanding
  <2>2. CASE ref[t].pc = "lock" /\ lock = NoTab /\ jar' = jar
    BY <2>2, JarCurrent
  <2>3. CASE ref[t].pc = "wait" /\ jar' = jar
    BY <2>3, JarCurrent DEF Active, Renewing
  <2> QED
    BY <1>3, <2>1, <2>2, <2>3
<1> QED
  BY <1>1, <1>2, <1>4, CalmSettled

\* A race waits with the lock, a mismatch sends again with it.
LEMMA CalmRetries ==
  ASSUME Calm, TypeInv, NEW t \in Tabs, RefreshRaced(t) \/ RefreshMismatch(t)
  PROVE  Calm'
<1>0. TypeOK /\ ref[t] \in Refreshes /\ ref \in [Tabs -> Refreshes] /\ jar \in Cookies
  BY DEF TypeInv, TypeOK
<1>1. /\ ref[t].pc = "back" /\ ref[t].ans.code # "ok"
      /\ jar' = StoreCookie(ref[t].ans) /\ UNCHANGED <<lock, orphans, history>>
  BY DEF RefreshRaced, RefreshMismatch, Landing
<1>2. jar'.age = 0
  BY <1>0, <1>1, CalmLanding
<1>3. Active(ref[t]) /\ ~Renewing(t) /\ lock = t
  BY <1>1 DEF Calm, RefreshSound, Active, Renewing
<1>4. jar.age = 0
  BY <1>3, JarCurrent
<1>5. /\ ref'[t].pc = "wait" \/ (ref'[t].pc = "sent" /\ ref'[t].cookie = jar)
      /\ \A u \in Tabs : u # t => ref'[u] = ref[u]
  <2>1. CASE RefreshRaced(t)
    <3>1. ref' = [ref EXCEPT ![t].pc = "wait", ![t].race = @ + 1, ![t].ans = NoAnswer]
      BY <2>1 DEF RefreshRaced
    <3> QED
      BY <1>0, <3>1 DEF Refreshes
  <2>2. CASE RefreshMismatch(t)
    <3> DEFINE q == Sending(ref[t], NoSid, jar)
    <3>1. ref' = [ref EXCEPT ![t] = [q EXCEPT !.race = 0, !.retry = FALSE]]
      BY <2>2 DEF RefreshMismatch
    <3>2. q \in Refreshes /\ q.pc = "sent" /\ q.cookie = jar
      BY <1>0, ConstantTypes, SendingType DEF Sending, Refreshes
    <3> HIDE DEF q
    <3>3. [q EXCEPT !.race = 0, !.retry = FALSE].pc = "sent" /\ [q EXCEPT !.race = 0, !.retry = FALSE].cookie = jar
      BY <3>2 DEF Refreshes
    <3> QED
      BY <1>0, <3>1, <3>3
  <2> QED
    BY <2>1, <2>2
<1>6. RefreshSound(t)'
  BY <1>1, <1>3, <1>4, <1>5 DEF RefreshSound, Renewing
<1> QED
  BY <1>1, <1>2, <1>5, <1>6, AlikeItself, CalmOneTab DEF Calm

\* With browser locks a new refresh waits for the lock.
LEMMA CalmStarts ==
  ASSUME HasLocks, Calm, TypeInv, NEW t \in Tabs, UNCHANGED <<jar, lock, orphans, history>>,
         \/ ref[t].pc = "none" /\ ref' = [ref EXCEPT ![t] = NewRefresh(store[t].sid, jar)]
         \/ ref' = [ref EXCEPT ![t] = JoinRefresh(t)]
  PROVE  Calm'
<1>0. ref \in [Tabs -> Refreshes]
  BY DEF TypeInv, TypeOK
<1>1. NewRefresh(store[t].sid, jar).pc = "lock"
  BY JoinRefreshType, NewRefreshType DEF TypeInv
<1>2. /\ \A u \in Tabs : u # t => ref'[u] = ref[u]
      /\ ref'[t] = ref[t] \/ (ref[t].pc = "none" /\ ref'[t] = NewRefresh(store[t].sid, jar))
  BY <1>0 DEF JoinRefresh
<1>3. \A u \in Tabs : Alike(ref'[u], ref[u])
  BY <1>1, <1>2 DEF Alike, Active
<1> QED
  BY <1>3, CalmKept

\* A page that is left takes its requests with it: a request or an answer under
\* way is lost.
LEMMA CalmPageLoad ==
  ASSUME HasLocks, Calm, TypeInv, NEW t \in Tabs, PageLoad(t)
  PROVE  history'.lost \/ Calm'
<1>0. ref \in [Tabs -> Refreshes] /\ history \in [lost : BOOLEAN, replayed : BOOLEAN]
  BY DEF TypeInv, TypeOK
<1>1. history' = [history EXCEPT !.lost = @ \/ ref[t].pc \in {"sent", "back"}]
  BY DEF PageLoad
<1>2. CASE ref[t].pc \in {"sent", "back"}
  BY <1>0, <1>1, <1>2
<1>3. CASE ref[t].pc \notin {"sent", "back"}
  <2>1. /\ ref' = [ref EXCEPT ![t] = NewRefresh(NoSid, jar')] /\ jar' \in LateCookies(t)
        /\ orphans' = orphans /\ (lock' = lock \/ \A u \in Tabs : u # t => lock # u)
    BY <1>3 DEF PageLoad
  <2>0. OpCookie(t) \in Cookies /\ (OpCookie(t) = jar \/ OpCookie(t).age = 0) /\ jar \in Cookies
    BY OpCookieType DEF TypeInv, OpShape, TypeOK
  <2>2. ref'[t].pc = "lock" /\ \A u \in Tabs : u # t => ref'[u] = ref[u]
    <3>1. jar' \in Cookies
      BY <1>3, <2>0, <2>1 DEF LateCookies
    <3>2. NewRefresh(NoSid, jar').pc = "lock"
      BY <3>1, ConstantTypes, NewRefreshType
    <3> QED
      BY <1>0, <2>1, <3>2
  <2>3. ~history'.replayed
    BY <1>0, <1>1 DEF Calm
  <2>4. jar' = jar \/ jar'.age = 0
    BY <1>3, <2>0, <2>1 DEF LateCookies
  <2>5. jar'.age = 0 \/ \E u \in Tabs : Renewing(u)'
    <3>1. CASE jar'.age = 0
      BY <3>1
    <3>2. CASE jar' = jar /\ jar.age # 0
      <4>1. PICK u \in Tabs : Renewing(u)
        BY <3>2 DEF Calm
      <4>2. u # t
        BY <1>3, <4>1 DEF Renewing
      <4> QED
        BY <2>2, <4>1, <4>2 DEF Renewing
    <3> QED
      BY <2>4, <3>1, <3>2
  <2>6. RefreshSound(t)'
    BY <2>2 DEF RefreshSound, Renewing, Active
  <2>7. Calm'
    BY <2>1, <2>2, <2>3, <2>5, <2>6, AlikeItself, CalmOneTab DEF Calm
  <2> QED
    BY <2>7
<1> QED
  BY <1>2, <1>3

\* A refresh that is only superseded still holds the lock and lands.
LEMMA SupersedeAlike ==
  ASSUME TypeInv, NEW t \in Tabs, ref' = ref \/ ref' = [ref EXCEPT ![t] = Supersede(@)]
  PROVE  \A u \in Tabs : Alike(ref'[u], ref[u])
<1>0. ref \in [Tabs -> Refreshes] /\ ref[t] \in Refreshes
  BY DEF TypeInv, TypeOK
<1>1. \A u \in Tabs : ref'[u] = ref[u] \/ ref'[u] = Supersede(ref[u])
  BY <1>0
<1>2. \A u \in Tabs : /\ Supersede(ref[u]).pc = ref[u].pc
                      /\ Supersede(ref[u]).cookie = ref[u].cookie
                      /\ Supersede(ref[u]).ans = ref[u].ans
  BY <1>0 DEF Supersede, Refreshes
<1> QED
  BY <1>1, <1>2 DEF Alike

\* What users, answers and events do besides starting refreshes and loading pages.
LEMMA CalmElse ==
  ASSUME Calm, TypeInv, NEW t \in Tabs, ref' = ref \/ ref' = [ref EXCEPT ![t] = Supersede(@)],
         UNCHANGED <<lock, orphans, history>>, jar' = jar \/ jar'.age = 0
  PROVE  Calm'
  BY SupersedeAlike, CalmKept

LEMMA CalmUser ==
  ASSUME HasLocks, Calm, TypeInv, NEW t \in Tabs, UserStep(t)
  PROVE  history'.lost \/ Calm'
<1>1. CASE StartRefresh(t) \/ ExpiredTokenUsed(t)
  BY <1>1, CalmStarts DEF StartRefresh, ExpiredTokenUsed, ApiUnauthorized
<1>2. CASE Reload(t)
  BY <1>2, CalmPageLoad DEF Reload
<1>3. CASE LogoutStart(t)
  <2>1. CASE LogoutRequest(t)
    BY <2>1, CalmElse DEF LogoutRequest
  <2>2. CASE LogoutMismatch(t)
    BY <2>2, CalmStarts DEF LogoutMismatch
  <2> QED
    BY <1>3, <2>1, <2>2 DEF LogoutStart
<1>4. CASE SecurityChange(t)
  BY <1>4, CalmElse DEF SecurityChange
<1>5. ASSUME NEW s \in Sids, RevokeLoginSession(t, s) PROVE Calm'
  BY <1>5, CalmElse DEF RevokeLoginSession
<1> QED
  BY <1>1, <1>2, <1>3, <1>4, <1>5 DEF UserStep

\* The steps of an operation; its answer, or what is left of it, brings no old
\* cookie.
LEMMA CalmOps ==
  ASSUME Calm, TypeInv, NEW t \in Tabs, OpStep(t) \/ OpLost(t) \/ AdvanceFails(t)
  PROVE  Calm'
<1>0. OpCookie(t) = jar \/ OpCookie(t).age = 0
  BY OpCookieType DEF TypeInv, OpShape
<1>1. CASE LoginArrives(t)
  BY <1>0, <1>1, CalmElse DEF LoginArrives
<1>2. CASE LogoutArrives(t)
  BY <1>0, <1>2, CalmElse DEF LogoutArrives
<1>3. CASE RevokeArrives(t)
  BY <1>0, <1>3, CalmElse DEF RevokeArrives
<1>4. CASE AdvanceArrives(t)
  BY <1>4, CalmElse DEF AdvanceArrives
<1>5. CASE LogoutAgain(t)
  BY <1>5, CalmElse DEF LogoutAgain, LogoutRequest
<1>6. CASE AdvanceSession(t)
  <2>1. UNCHANGED <<jar, ref, lock, orphans, history>>
    BY <1>6, Zenon DEF AdvanceSession
  <2> QED
    BY <2>1, CalmElse
<1>7. CASE OpLost(t)
  BY <1>0, <1>7, CalmElse DEF OpLost
<1>8. CASE AdvanceFails(t)
  BY <1>8, CalmElse DEF AdvanceFails
<1> QED
  BY <1>1, <1>2, <1>3, <1>4, <1>5, <1>6, <1>7, <1>8 DEF OpStep

\* The broadcast events and the api request.
LEMMA CalmPage ==
  ASSUME HasLocks, Calm, TypeInv, NEW t \in Tabs,
         \/ EventStep(t) \/ EventTooLate(t) \/ CallStep(t)
         \/ \E s \in Sids : LoginRequest(t, s)
  PROVE  history'.lost \/ Calm'
<1>1. CASE EventAuthenticated(t)
  BY <1>1, CalmElse, CalmPageLoad DEF EventAuthenticated
<1>2. CASE EventSignedOut(t)
  BY <1>2, CalmElse DEF EventSignedOut
<1>3. CASE EventTooLate(t)
  BY <1>3, CalmElse DEF EventTooLate
<1>4. CASE DeadTokenUsed(t)
  BY <1>4, CalmStarts DEF DeadTokenUsed, ApiUnauthorized
<1>5. CASE ApiRetry(t)
  BY <1>5, CalmElse DEF ApiRetry
<1>6. CASE ApiRefused(t)
  BY <1>6, CalmElse DEF ApiRefused
<1>7. CASE RedirectToSignIn(t)
  BY <1>7, CalmElse, CalmPageLoad DEF RedirectToSignIn
<1>8. ASSUME NEW s \in Sids, LoginRequest(t, s) PROVE Calm'
  BY <1>8, CalmElse DEF LoginRequest
<1> QED
  BY <1>1, <1>2, <1>3, <1>4, <1>5, <1>6, <1>7, <1>8 DEF EventStep, CallStep

\* What was lost stays lost.
LEMMA LostStays ==
  ASSUME TypeInv, history.lost, [Next]_vars
  PROVE  history'.lost
<1>0. history \in [lost : BOOLEAN, replayed : BOOLEAN]
  BY DEF TypeInv, TypeOK
<1>1. ASSUME NEW c, NEW exp, ServerEffect(c, exp) PROVE history'.lost
  BY <1>0, <1>1 DEF ServerEffect
<1>2. ASSUME NEW t \in Tabs, PageLoad(t) PROVE history'.lost
  BY <1>0, <1>2 DEF PageLoad
<1>3. ASSUME NEW t \in Tabs, AnswerLost(t) PROVE history'.lost
  BY <1>0, <1>3 DEF AnswerLost
<1>4. ASSUME NEW t \in Tabs, UserStep(t) PROVE history'.lost
  BY <1>2, <1>4
  DEF UserStep, StartRefresh, ExpiredTokenUsed, ApiUnauthorized, Reload, LogoutStart,
      LogoutRequest, LogoutMismatch, SecurityChange, RevokeLoginSession
<1>5. ASSUME NEW t \in Tabs, RunnerStep(t) PROVE history'.lost
  BY <1>5
  DEF RunnerStep, RefreshLock, RefreshSuperseded, RefreshAccepted, RefreshRaced, RefreshWaited,
      RefreshMismatch, RefreshOutOfSync, RefreshDenied, RefreshTransient
<1>6. ASSUME NEW t \in Tabs, EventStep(t) \/ EventTooLate(t) PROVE history'.lost
  BY <1>2, <1>6 DEF EventStep, EventAuthenticated, EventSignedOut, EventTooLate
<1>7. ASSUME NEW t \in Tabs, CallStep(t) \/ \E s \in Sids : LoginRequest(t, s)
      PROVE  history'.lost
  BY <1>2, <1>7
  DEF CallStep, DeadTokenUsed, ApiUnauthorized, ApiRetry, ApiRefused, RedirectToSignIn, LoginRequest
<1>8. ASSUME NEW t \in Tabs, OpStep(t) \/ OpLost(t) \/ AdvanceFails(t) PROVE history'.lost
  <2>1. CASE AdvanceSession(t)
    BY <2>1, Zenon DEF AdvanceSession
  <2> QED
    BY <1>8, <2>1
    DEF OpStep, LoginArrives, LogoutArrives, RevokeArrives, AdvanceArrives, LogoutAgain,
        LogoutRequest, OpLost, AdvanceFails
<1>9. ASSUME NEW t \in Tabs, NEW code \in Refused, ServerRefuses(t, code) PROVE history'.lost
  BY <1>9 DEF ServerRefuses
<1>10. ASSUME NEW t \in Tabs, ServerStep(t) PROVE history'.lost
  BY <1>1, <1>9, <1>10, RefusesIfFaulty DEF ServerStep, ServerRefresh
<1>11. ASSUME NEW t \in Tabs, FaultStep(t) PROVE history'.lost
  BY <1>3, <1>6, <1>8, <1>9, <1>11, RefusesIfFaulty DEF FaultStep
<1>12. ASSUME NEW o \in orphans, ServerOrphan(o) PROVE history'.lost
  BY <1>1, <1>12 DEF ServerOrphan
<1>13. ASSUME NEW s \in Sids, GraceEnds(s) PROVE history'.lost
  BY <1>13 DEF GraceEnds
<1>14. CASE UNCHANGED vars
  BY <1>14 DEF vars
<1> QED
  BY <1>4, <1>5, <1>6, <1>7, <1>8, <1>10, <1>11, <1>12, <1>13, <1>14 DEF Next

LEMMA CalmNext ==
  ASSUME HasLocks, TypeInv, Calm, [Next]_vars
  PROVE  history'.lost \/ Calm'
<1>1. ASSUME NEW t \in Tabs, AnswerLost(t) PROVE history'.lost
  <2>1. history \in [lost : BOOLEAN, replayed : BOOLEAN]
    BY DEF TypeInv, TypeOK
  <2> QED
    BY <1>1, <2>1 DEF AnswerLost
<1>2. ASSUME NEW t \in Tabs, RunnerStep(t) PROVE Calm'
  BY <1>2, CalmSending, CalmEnds, CalmRetries DEF RunnerStep
<1>3. ASSUME NEW o \in orphans PROVE FALSE
  BY <1>3 DEF Calm
<1>4. ASSUME NEW s \in Sids, GraceEnds(s) PROVE Calm'
  BY <1>4, AlikeItself, CalmKept DEF GraceEnds
<1>5. CASE UNCHANGED vars
  BY <1>5, AlikeItself, CalmKept DEF vars
<1>6. ASSUME NEW t \in Tabs, ServerStep(t) PROVE Calm'
  BY <1>6, CalmServerRefresh, CalmRefuses, RefusesIfFaulty DEF ServerStep
<1>7. ASSUME NEW t \in Tabs, FaultStep(t) PROVE history'.lost \/ Calm'
  BY <1>1, <1>7, CalmRefuses, RefusesIfFaulty, CalmOps, CalmPage DEF FaultStep
<1> QED
  BY <1>2, <1>3, <1>4, <1>5, <1>6, <1>7, CalmUser, CalmOps, CalmPage DEF Next

\* With the browser lock, any number of tabs that refresh, log in and out, load
\* and leave pages concurrently never make the server take a token for stolen,
\* unless an answer on its way to a tab was lost.
THEOREM TabsNeverReplay == Spec => []NoFalseReuse
<1>1. Init => GoodInv /\ CalmUnlessLost
  <2> SUFFICES ASSUME Init PROVE CalmUnlessLost
    BY GoodInit
  <2>1. jar.age = 0 /\ orphans = {} /\ ~history.replayed /\ \A t \in Tabs : ref[t] = NoRefresh
    BY DEF Init
  <2> QED
    BY <2>1, NoRefreshType DEF CalmUnlessLost, Calm, RefreshSound, Renewing, Active
<1>2. GoodInv /\ CalmUnlessLost /\ [Next]_vars => GoodInv' /\ CalmUnlessLost'
  <2> SUFFICES ASSUME GoodInv, CalmUnlessLost, [Next]_vars PROVE CalmUnlessLost'
    BY GoodNext
  <2>1. TypeInv
    BY DEF GoodInv
  <2> QED
    BY <2>1, CalmNext, LostStays DEF CalmUnlessLost
<1>3. CalmUnlessLost => NoFalseReuse
  BY DEF CalmUnlessLost, Calm, NoFalseReuse
<1> QED
  BY <1>1, <1>2, <1>3, PTL DEF Spec
=============================================================================
