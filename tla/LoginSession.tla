---------------------------- MODULE LoginSession ----------------------------
(***************************************************************************)
(* The server side of one login session (model/user_session.go): its row,  *)
(* its Redis entry, and the calls that run concurrently on any node:       *)
(* CreateUserSession, GetUserSessionCached, RevokeUserSession,             *)
(* revokeUserSessions, RevokeUserSessionByRefreshHash,                     *)
(* RotateUserSessionRefresh and AdvanceUserSessionAuthVersion.             *)
(*                                                                         *)
(* Every database statement or transaction, every Redis command and every  *)
(* reading of the clock that is used later is a step, so that any delay    *)
(* may come between two of them.  A node that crashes is a call that takes *)
(* no further step.  Refresh secrets are represented by their number in    *)
(* the chain of rotations.  One clock stands for those of the nodes and of *)
(* Redis, as the code, which sends Redis an absolute expiry, assumes.      *)
(***************************************************************************)
EXTENDS Integers

CONSTANTS
    Calls,          \* calls that are made
    TTL,            \* userCacheTTLSeconds
    Grace,          \* RefreshReplayWindow
    End,            \* the session's ExpiresAt
    MaxTime,        \* bound of the clock
    MaxVersion,     \* bound of the session's version
    Faults          \* subset of FaultKinds that may happen

\* "read": Redis cannot be read; "fill", "fence", "final": an active entry, the
\* fence before a revocation, the tombstone after it cannot be written; "tx":
\* the revoking transaction fails.
FaultKinds == {"read", "fill", "fence", "final", "tx"}

ASSUME LoginSessionAssumption ==
    /\ TTL \in Nat \ {0}
    /\ Grace \in Nat
    /\ End \in Nat \ {0}
    /\ MaxTime \in Nat
    /\ MaxVersion \in Nat \ {0}
    /\ Faults \subseteq FaultKinds

VARIABLES
    now,        \* the clock
    row,        \* user_sessions: status, version, number and window of the secret
    cache,      \* the Redis entry: status, version, when it expires
    call,       \* the calls
    published   \* the tombstone of a revocation was accepted by Redis

vars == <<now, row, cache, call, published>>

-----------------------------------------------------------------------------
(* Values *)

Times == 0..(MaxTime + TTL + Grace)
Versions == 1..MaxVersion
Rows == [status : {"active", "revoked"}, ver : Versions, gen : Nat, until : Times]
Entries == [status : {"none", "active", "revoking", "revoked"}, ver : 0..MaxVersion,
            exp : Times]
NoEntry == [status |-> "none", ver |-> 0, exp |-> 0]

Kinds == {"create", "check", "revoke", "bulk", "cookie", "rotate", "advance"}
Steps == {"idle", "cache", "capture", "read", "fill", "filled", "confirm", "tomb",
          "swap", "fence", "revoke", "final", "done"}
Results == {"none", "ok", "denied", "nothing", "error", "race", "invalid", "reuse"}
Calling ==
    [kind : Kinds \cup {"none"}, pc : Steps, ver : Versions, deadline : Times,
     at : Times, arg : Nat, tries : 0..2, late : BOOLEAN, res : Results]
NoCall ==
    [kind |-> "none", pc |-> "idle", ver |-> 1, deadline |-> 0, at |-> 0, arg |-> 0,
     tries |-> 0, late |-> FALSE, res |-> "none"]

Active(r, t) == r.status = "active" /\ t < End
Smaller(a, b) == IF a < b THEN a ELSE b

\* The script of writeUserSessionCache: an active entry does not replace a deny
\* entry, and no entry replaces one of a newer version.
Deny == {"revoking", "revoked"}
Accepts(status, ver) ==
    /\ ~(status = "active" /\ cache.status \in Deny)
    /\ cache.ver <= ver

\* Mutant of DenyUntil: the rest of the session's life, even when that is over.
DenyUntilEnd == now + Smaller(End - now, TTL)

\* A deny entry lives for the cache's time from the moment it is published.
DenyUntil == now + (IF End <= now THEN 1 ELSE Smaller(End - now, TTL))
DenyEntry(status, ver) == [status |-> status, ver |-> ver, exp |-> DenyUntil]

\* An active entry lives until the deadline of its observation.
ActiveEntry(c) ==
    [status |-> "active", ver |-> call[c].ver,
     exp |-> Smaller(call[c].deadline, End)]

-----------------------------------------------------------------------------
(* Progress of a call *)

At(c, pc) == call[c].pc = pc
Goto(c, pc) == call' = [call EXCEPT ![c].pc = pc]
Return(c, res) ==
    call' = [call EXCEPT ![c] = [NoCall EXCEPT !.kind = call[c].kind, !.pc = "done",
                                               !.arg = call[c].arg,
                                               !.late = call[c].late, !.res = res]]

\* A call begins; arg is the secret or the version it presents.
Begin(c, kind, pc, arg) ==
    /\ call[c].kind = "none"
    /\ call' = [call EXCEPT ![c].kind = kind, ![c].pc = pc, ![c].arg = arg,
                            ![c].at = IF kind = "check" THEN 0 ELSE now,
                            ![c].late = published]
    /\ UNCHANGED <<now, row, cache, published>>

CheckBegins(c) == Begin(c, "check", "cache", 0)
RevokeBegins(c) == \E kind \in {"revoke", "bulk"} : Begin(c, kind, "read", 0)
CookieBegins(c) == \E g \in 0..row.gen : Begin(c, "cookie", "read", g)
RotateBegins(c) == \E g \in 0..row.gen : Begin(c, "rotate", "capture", g)
AdvanceBegins(c) ==
    \E v \in Versions : v <= row.ver /\ v < MaxVersion /\ Begin(c, "advance", "capture", v)

\* getUserSessionCache
ReadCache(c) ==
    /\ At(c, "cache")
    /\ \/ cache.status = "active" /\ now < End /\ Return(c, "ok")
       \/ (cache.status \in Deny \/ (cache.status = "active" /\ End <= now))
          /\ Return(c, "denied")
       \/ cache.status = "none" /\ Goto(c, "capture")
       \/ "read" \in Faults /\ Goto(c, "capture")
    /\ UNCHANGED <<now, row, cache, published>>

\* userSessionCacheDeadline, before the row is read or changed.
Capture(c) ==
    /\ At(c, "capture")
    /\ call' = [call EXCEPT ![c].pc = IF call[c].kind = "advance" THEN "swap" ELSE "read",
                            ![c].deadline = now + TTL]
    /\ UNCHANGED <<now, row, cache, published>>

-----------------------------------------------------------------------------
(* GetUserSessionCached and the cache of active snapshots *)

CheckRead(c) ==
    /\ At(c, "read") /\ call[c].kind = "check"
    /\ call' = [call EXCEPT ![c].ver = row.ver,
                            ![c].pc = IF Active(row, now) THEN "fill" ELSE "tomb"]
    /\ UNCHANGED <<now, row, cache, published>>

\* The row was not active: publish that, whether or not it succeeds.
CheckTomb(c) ==
    /\ At(c, "tomb")
    /\ cache' = IF Accepts("revoked", call[c].ver)
                THEN DenyEntry("revoked", call[c].ver) ELSE cache
    /\ Return(c, "denied")
    /\ UNCHANGED <<now, row, published>>

\* Mutant of Fill: the deadline is taken when the entry is written.
FillFromNow(c) ==
    /\ At(c, "fill")
    /\ now < End
    /\ IF Accepts("active", call[c].ver)
       THEN /\ cache' = [ActiveEntry(c) EXCEPT !.exp = Smaller(now + TTL, End)]
            /\ Goto(c, "filled")
       ELSE UNCHANGED cache /\ Return(c, "denied")
    /\ UNCHANGED <<now, row, published>>

\* writeUserSessionCache of an active snapshot in time.
Fill(c) ==
    /\ At(c, "fill")
    /\ now < Smaller(call[c].deadline, End)
    /\ IF Accepts("active", call[c].ver)
       THEN cache' = ActiveEntry(c) /\ Goto(c, "filled")
       ELSE UNCHANGED cache /\ Return(c, "denied")
    /\ UNCHANGED <<now, row, published>>

\* An observation past its deadline is confirmed against the row, one of a
\* session that is over is denied.
TooLate(c) == IF call[c].deadline <= now THEN Goto(c, "confirm") ELSE Return(c, "denied")

\* The deadline has passed: nothing is sent, or the command that was still sent
\* in time is executed too late, and its entry expires at once or is refused.
FillTooLate(c) ==
    /\ At(c, "fill")
    /\ Smaller(call[c].deadline, End) <= now
    /\ \/ UNCHANGED cache /\ TooLate(c)
       \/ Accepts("active", call[c].ver) /\ cache' = NoEntry /\ TooLate(c)
       \/ ~Accepts("active", call[c].ver) /\ UNCHANGED cache /\ Return(c, "denied")
    /\ UNCHANGED <<now, row, published>>

\* The write fails: the snapshot is used all the same, except by the advance.
FillFails(c) ==
    /\ "fill" \in Faults
    /\ At(c, "fill")
    /\ Return(c, IF call[c].kind = "advance" THEN "error" ELSE "ok")
    /\ UNCHANGED <<now, row, cache, published>>

\* The clock is read once more after the write.
Filled(c) ==
    /\ At(c, "filled")
    /\ CASE call[c].deadline <= now -> Goto(c, "confirm")
         [] now < call[c].deadline /\ End <= now -> Return(c, "denied")
         [] OTHER -> Return(c, "ok")
    /\ UNCHANGED <<now, row, cache, published>>

\* confirmUserSessionActiveSnapshot
Confirm(c) ==
    /\ At(c, "confirm")
    /\ Return(c, IF Active(row, now) /\ row.ver = call[c].ver THEN "ok" ELSE "denied")
    /\ UNCHANGED <<now, row, cache, published>>

-----------------------------------------------------------------------------
(* Revocation: fence, row, tombstone *)

\* The candidate is read; a logout by cookie must present the current secret,
\* or the previous one inside its window.
KnowsSecret(c) ==
    \/ call[c].kind # "cookie"
    \/ call[c].arg = row.gen
    \/ call[c].arg + 1 = row.gen /\ call[c].at <= row.until

RevokeRead(c) ==
    /\ At(c, "read") /\ call[c].kind \in {"revoke", "bulk", "cookie"}
    /\ IF Active(row, call[c].at) /\ KnowsSecret(c)
       THEN call' = [call EXCEPT ![c].ver = row.ver, ![c].pc = "fence"]
       ELSE Return(c, "nothing")
    /\ UNCHANGED <<now, row, cache, published>>

\* writeUserSessionDenyFence: no revocation without it.
Fence(c) ==
    /\ At(c, "fence")
    /\ \/ /\ Accepts("revoking", call[c].ver)
          /\ cache' = DenyEntry("revoking", call[c].ver)
          /\ Goto(c, "revoke")
       \/ /\ ~Accepts("revoking", call[c].ver) \/ "fence" \in Faults
          /\ UNCHANGED cache
          /\ Return(c, "error")
    /\ UNCHANGED <<now, row, published>>

\* The transaction: the row is revoked if it still is active.  The bulk call
\* goes on with the row it locked, the others with the one they read before.
RevokeRow(c) ==
    /\ At(c, "revoke")
    /\ IF Active(row, call[c].at)
       THEN /\ row' = [row EXCEPT !.status = "revoked"]
            /\ call' = [call EXCEPT ![c].pc = "final",
                                    ![c].ver = IF call[c].kind = "bulk" THEN row.ver ELSE @]
       ELSE /\ UNCHANGED row
            /\ Return(c, IF call[c].kind = "rotate" THEN "denied" ELSE "nothing")
    /\ UNCHANGED <<now, cache, published>>

RevokeFails(c) ==
    /\ "tx" \in Faults
    /\ At(c, "revoke")
    /\ Return(c, "error")
    /\ UNCHANGED <<now, row, cache, published>>

\* The tombstone; the revocation counts whether or not it can be written.
Final(c) ==
    /\ At(c, "final")
    /\ \/ /\ Accepts("revoked", call[c].ver)
          /\ cache' = DenyEntry("revoked", call[c].ver)
          /\ published' = TRUE
       \/ /\ ~Accepts("revoked", call[c].ver) \/ "final" \in Faults
          /\ UNCHANGED <<cache, published>>
    /\ Return(c, IF call[c].kind = "rotate" THEN "reuse" ELSE "ok")
    /\ UNCHANGED <<now, row>>

-----------------------------------------------------------------------------
(* RotateUserSessionRefresh and AdvanceUserSessionAuthVersion *)

\* What the row says of the secret: current, previous, unknown.
RotateRead(c) ==
    /\ At(c, "read") /\ call[c].kind = "rotate"
    /\ LET to(pc) == call' = [call EXCEPT ![c].ver = row.ver, ![c].pc = pc] IN
       \/ ~Active(row, call[c].at) /\ Return(c, "denied")
       \/ Active(row, call[c].at) /\ call[c].arg = row.gen /\ to("swap")
       \/ /\ Active(row, call[c].at) /\ call[c].arg + 1 = row.gen
          /\ IF call[c].at <= row.until THEN Return(c, "race") ELSE to("fence")
       \/ Active(row, call[c].at) /\ call[c].arg + 1 < row.gen /\ Return(c, "invalid")
    /\ UNCHANGED <<now, row, cache, published>>

\* Mutant of RotateSwap: the secret is not compared again.
RotateUnconditionally(c) ==
    /\ At(c, "swap") /\ call[c].kind = "rotate"
    /\ row' = [row EXCEPT !.gen = @ + 1, !.until = call[c].at + Grace]
    /\ Goto(c, "fill")
    /\ UNCHANGED <<now, cache, published>>

\* The compare-and-swap of the secret; a loser reads again, three times in all.
RotateSwap(c) ==
    /\ At(c, "swap") /\ call[c].kind = "rotate"
    /\ IF Active(row, call[c].at) /\ row.gen = call[c].arg
       THEN /\ row' = [row EXCEPT !.gen = @ + 1, !.until = call[c].at + Grace]
            /\ Goto(c, "fill")
       ELSE /\ UNCHANGED row
            /\ IF call[c].tries = 2 THEN Return(c, "invalid")
               ELSE call' = [call EXCEPT ![c].pc = "capture", ![c].tries = @ + 1]
    /\ UNCHANGED <<now, cache, published>>

\* The version of the session and of its token advance together.
AdvanceSwap(c) ==
    /\ At(c, "swap") /\ call[c].kind = "advance"
    /\ IF Active(row, call[c].at) /\ row.ver = call[c].arg
       THEN /\ row' = [row EXCEPT !.ver = @ + 1]
            /\ call' = [call EXCEPT ![c].ver = row'.ver, ![c].pc = "fill"]
       ELSE UNCHANGED row /\ Return(c, "denied")
    /\ UNCHANGED <<now, cache, published>>

-----------------------------------------------------------------------------
\* Time passes; Redis drops what has expired.
Tick ==
    /\ now < MaxTime
    /\ now' = now + 1
    /\ cache' = IF cache.exp <= now' THEN NoEntry ELSE cache
    /\ UNCHANGED <<row, call, published>>

\* CreateUserSession has inserted the row at time 0; its write of the cache is
\* still to come, has succeeded or has failed.
Creation == [NoCall EXCEPT !.kind = "create", !.pc = "fill", !.deadline = TTL]
Init ==
    /\ now = 0
    /\ row = [status |-> "active", ver |-> 1, gen |-> 0, until |-> 0]
    /\ \/ /\ cache = NoEntry
          /\ \E c \in Calls : call = [[d \in Calls |-> NoCall] EXCEPT ![c] = Creation]
       \/ /\ cache \in {NoEntry, [status |-> "active", ver |-> 1, exp |-> Smaller(TTL, End)]}
          /\ call = [d \in Calls |-> NoCall]
    /\ published = FALSE

CallStep(c) ==
    \/ CheckBegins(c) \/ RevokeBegins(c) \/ CookieBegins(c)
    \/ RotateBegins(c) \/ AdvanceBegins(c)
    \/ ReadCache(c) \/ Capture(c) \/ CheckRead(c) \/ CheckTomb(c)
    \/ Fill(c) \/ FillTooLate(c) \/ FillFails(c) \/ Filled(c) \/ Confirm(c)
    \/ RevokeRead(c) \/ Fence(c) \/ RevokeRow(c) \/ RevokeFails(c) \/ Final(c)
    \/ RotateRead(c) \/ RotateSwap(c) \/ AdvanceSwap(c)

Next == Tick \/ \E c \in Calls : CallStep(c)

Spec == Init /\ [][Next]_vars

-----------------------------------------------------------------------------
\* Every variable has its type, and what is in Redis has not expired.
TypeOK ==
    /\ now \in 0..MaxTime
    /\ row \in Rows
    /\ cache \in Entries /\ (cache # NoEntry => now < cache.exp)
    /\ call \in [Calls -> Calling]
    /\ published \in BOOLEAN

\* Once the tombstone of a revocation was published, Redis has no active entry
\* of the session and no check that begins afterwards lets it in, however late a
\* snapshot that was read before the revocation is written, and although the
\* tombstone itself expires (GetUserSessionCached, writeUserSessionCache,
\* RevokeUserSession).
RevokedStaysOut ==
    published =>
        /\ cache.status # "active"
        /\ \A c \in Calls : call[c].kind = "check" /\ call[c].late => call[c].res # "ok"

\* Of the refreshes that present the same secret one at most gets the next one
\* by rotating, whatever the interleaving of their reads and updates; the
\* others learn of the race, or that the session is gone
\* (RotateUserSessionRefresh).
OneWinner ==
    \A c, d \in Calls :
        /\ call[c].kind = "rotate" /\ call[c].res = "ok"
        /\ call[d].kind = "rotate" /\ call[d].res = "ok"
        /\ call[c].arg = call[d].arg
        => c = d
=============================================================================
