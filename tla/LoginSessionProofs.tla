------------------------ MODULE LoginSessionProofs ------------------------
(***************************************************************************)
(* Proofs about LoginSession, for every number of calls, every lifetime,   *)
(* every replay window and every set of failures.                          *)
(***************************************************************************)
EXTENDS LoginSession, TLAPS

-----------------------------------------------------------------------------
(* Types *)

\* What the types need: a call began in the past, it has an outcome only when
\* it is done, and a version change asks for a version below the bound.
CallShape(c) ==
    /\ call[c].at <= now
    /\ call[c].deadline <= now + TTL
    /\ call[c].pc # "done" => call[c].res = "none"
    /\ call[c].kind = "none" => call[c].pc = "idle"
    /\ call[c].pc = "cache" => call[c].kind = "check"
    /\ call[c].kind = "advance" /\ call[c].pc \in {"capture", "swap"}
          => call[c].arg < MaxVersion

Shape == \A c \in Calls : CallShape(c)

TypeInv == TypeOK /\ Shape

\* The call that is not there.
LEMMA NoCallType ==
  /\ NoCall \in Calling
  /\ NoCall.at = 0 /\ NoCall.deadline = 0 /\ NoCall.res = "none"
  /\ NoCall.kind = "none" /\ NoCall.pc = "idle" /\ NoCall.arg = 0 /\ ~NoCall.late
  BY LoginSessionAssumption DEF NoCall, Calling, Kinds, Steps, Results, Versions, Times

\* A call that returns, or goes on, is a call.
LEMMA ReturnShape ==
  ASSUME TypeInv, NEW c \in Calls, NEW res \in Results, call[c].pc # "idle",
         Return(c, res), now' = now
  PROVE  call' \in [Calls -> Calling] /\ Shape'
<1>1. call'[c] \in Calling /\ CallShape(c)'
  <2>1. call'[c] = [NoCall EXCEPT !.kind = call[c].kind, !.pc = "done", !.arg = call[c].arg,
                                  !.late = call[c].late, !.res = res]
    BY DEF TypeInv, TypeOK, Return
  <2>2. call'[c] \in Calling /\ call'[c].at = 0 /\ call'[c].deadline = 0
        /\ call'[c].kind = call[c].kind /\ call'[c].pc = "done"
    BY <2>1, NoCallType DEF TypeInv, TypeOK, Calling, Results, Steps
  <2>3. call[c].kind # "none"
    BY DEF TypeInv, Shape, CallShape
  <2> QED
    BY <2>2, <2>3, LoginSessionAssumption DEF TypeInv, TypeOK, CallShape
<1>2. \A d \in Calls : d # c => call'[d] = call[d]
  BY DEF TypeInv, TypeOK, Return
<1>3. call' \in [Calls -> Calling]
  BY <1>1, <1>2 DEF TypeInv, TypeOK, Return
<1> QED
  BY <1>1, <1>2, <1>3 DEF TypeInv, Shape, CallShape

\* Moving a call to another step of its kind keeps its shape.
LEMMA GotoShape ==
  ASSUME TypeInv, NEW c \in Calls, NEW pc \in Steps \ {"cache", "capture", "swap"},
         call[c].kind # "none", call[c].pc # "done", Goto(c, pc), now' = now
  PROVE  call' \in [Calls -> Calling] /\ Shape'
<1>1. call'[c] \in Calling /\ CallShape(c)'
  BY DEF TypeInv, TypeOK, Goto, Calling, Steps, Shape, CallShape
<1>2. \A d \in Calls : d # c => call'[d] = call[d]
  BY DEF TypeInv, TypeOK, Goto
<1> QED
  BY <1>1, <1>2 DEF TypeInv, TypeOK, Goto, Shape, CallShape

\* The life of a deny entry is positive and within the bound of time.
LEMMA DenyEntryType ==
  ASSUME TypeInv, NEW status \in Deny, NEW ver \in Versions, now' = now
  PROVE  /\ DenyEntry(status, ver) \in Entries
         /\ DenyEntry(status, ver).exp > now
         /\ DenyEntry(status, ver).status = status
<1>1. DenyUntil \in Times /\ DenyUntil > now
  BY LoginSessionAssumption DEF TypeInv, TypeOK, DenyUntil, Smaller, Times
<1> QED
  BY <1>1, LoginSessionAssumption DEF DenyEntry, Entries, Deny, Versions

-----------------------------------------------------------------------------
\* The invariant of types holds initially.
LEMMA TypeInit == Init => TypeInv
<1> SUFFICES ASSUME Init PROVE TypeInv
  OBVIOUS
<1>1. /\ Creation \in Calling
      /\ Creation.at = 0 /\ Creation.deadline = TTL /\ Creation.res = "none"
      /\ Creation.kind = "create" /\ Creation.pc = "fill" /\ ~Creation.late
  <2>1. TTL \in Times
    BY LoginSessionAssumption DEF Times
  <2>2. /\ "create" \in Kinds \cup {"none"} /\ "fill" \in Steps
    BY DEF Kinds, Steps
  <2> QED
    BY <2>1, <2>2, NoCallType DEF Creation, Calling
<1>2. call \in [Calls -> Calling] /\ \A c \in Calls : call[c] \in {NoCall, Creation}
  <2>1. CASE \E c \in Calls : call = [[d \in Calls |-> NoCall] EXCEPT ![c] = Creation]
    BY <1>1, <2>1, NoCallType
  <2>2. CASE call = [d \in Calls |-> NoCall]
    BY <2>2, NoCallType
  <2> QED
    BY <2>1, <2>2 DEF Init
<1>3. now = 0 /\ now \in 0..MaxTime /\ row \in Rows /\ published \in BOOLEAN
  <2>1. 1 \in Versions /\ 0 \in Times
    BY LoginSessionAssumption DEF Versions, Times
  <2> QED
    <3>1. row = [status |-> "active", ver |-> 1, gen |-> 0, until |-> 0]
      BY DEF Init
    <3>2. row \in Rows
      BY <2>1, <3>1 DEF Rows
    <3>3. now = 0 /\ published = FALSE
      BY DEF Init
    <3>4. 0 \in 0..MaxTime
      BY LoginSessionAssumption
    <3> QED
      BY <3>2, <3>3, <3>4
<1>4. cache \in Entries /\ (cache # NoEntry => now < cache.exp)
  <2> DEFINE E == [status |-> "active", ver |-> 1, exp |-> Smaller(TTL, End)]
  <2>1. Smaller(TTL, End) \in Times /\ Smaller(TTL, End) > 0
    BY LoginSessionAssumption DEF Smaller, Times
  <2>2. NoEntry \in Entries /\ E \in Entries /\ E.exp > 0
    BY <2>1, LoginSessionAssumption DEF NoEntry, Entries, Times
  <2>3. cache \in {NoEntry, E}
    BY DEF Init
  <2> QED
    BY <1>3, <2>2, <2>3
<1>5. Shape
  <2> SUFFICES ASSUME NEW c \in Calls PROVE CallShape(c)
    BY DEF Shape
  <2>1. CASE call[c] = NoCall
    BY <1>3, <2>1, NoCallType, LoginSessionAssumption DEF CallShape
  <2>2. CASE call[c] = Creation
    BY <1>1, <1>3, <2>2, LoginSessionAssumption DEF CallShape
  <2> QED
    BY <1>2, <2>1, <2>2
<1> QED
  BY <1>2, <1>3, <1>4, <1>5 DEF TypeInv, TypeOK

\* A call that begins has its type.
LEMMA TypeBegin ==
  ASSUME TypeInv, NEW c \in Calls, NEW kind \in Kinds, NEW arg \in Nat,
         NEW pc \in {"cache", "capture", "read"}, pc = "cache" => kind = "check",
         kind = "advance" => arg < MaxVersion, Begin(c, kind, pc, arg)
  PROVE  TypeInv'
<1>1. call'[c] \in Calling /\ CallShape(c)'
  BY LoginSessionAssumption
  DEF TypeInv, TypeOK, Begin, Calling, Shape, CallShape, Steps, Kinds, Times
<1>2. \A d \in Calls : d # c => call'[d] = call[d]
  BY DEF TypeInv, TypeOK, Begin
<1> QED
  BY <1>1, <1>2 DEF TypeInv, TypeOK, Begin, Shape, CallShape

\* The same for each kind of call.
LEMMA TypeBegins ==
  ASSUME TypeInv, NEW c \in Calls,
         CheckBegins(c) \/ RevokeBegins(c) \/ CookieBegins(c) \/ RotateBegins(c) \/ AdvanceBegins(c)
  PROVE  TypeInv'
<1>0. row.gen \in Nat /\ 0..row.gen \subseteq Nat
  BY DEF TypeInv, TypeOK, Rows
<1>1. CASE CheckBegins(c)
  BY <1>1, TypeBegin DEF CheckBegins, Kinds
<1>2. CASE RevokeBegins(c)
  BY <1>2, TypeBegin DEF RevokeBegins, Kinds
<1>3. CASE CookieBegins(c)
  BY <1>0, <1>3, TypeBegin DEF CookieBegins, Kinds
<1>4. CASE RotateBegins(c)
  BY <1>0, <1>4, TypeBegin DEF RotateBegins, Kinds
<1>5. CASE AdvanceBegins(c)
  <2>1. PICK v \in Versions : v < MaxVersion /\ Begin(c, "advance", "capture", v)
    BY <1>5 DEF AdvanceBegins
  <2> QED
    BY <2>1, TypeBegin DEF Kinds, Versions
<1> QED
  BY <1>1, <1>2, <1>3, <1>4, <1>5

\* The steps of a check and of the writing of an active snapshot.
LEMMA TypeChecking ==
  ASSUME TypeInv, NEW c \in Calls,
         \/ ReadCache(c) \/ Capture(c) \/ CheckRead(c) \/ CheckTomb(c) \/ Fill(c)
         \/ FillTooLate(c) \/ FillFails(c) \/ Filled(c) \/ Confirm(c)
  PROVE  TypeInv'
<1>a. call[c].pc # "idle"
  BY DEF At, ReadCache, Capture, CheckRead, CheckTomb, Fill, FillTooLate, FillFails, Filled, Confirm
<1> USE DEF TypeInv
<1>0. /\ call \in [Calls -> Calling] /\ CallShape(c)
      /\ call[c].ver \in Versions /\ call[c].deadline \in Times
      /\ row \in Rows
  BY DEF TypeOK, Calling, Shape
<1>1. CASE ReadCache(c)
  <2>1. UNCHANGED <<now, row, cache, published>>
    BY <1>1 DEF ReadCache
  <2>2. \A d \in Calls : d # c => call'[d] = call[d]
    BY <1>0, <1>1 DEF ReadCache, Return, Goto
  <2>3. CASE Goto(c, "capture")
    <3>1. call'[c] \in Calling /\ CallShape(c)'
      BY <1>0, <1>1, <2>1, <2>3 DEF ReadCache, At, Goto, Calling, Steps, CallShape
    <3> QED
      BY <1>0, <2>1, <2>2, <2>3, <3>1 DEF TypeOK, Goto, Shape, CallShape
  <2>4. CASE Return(c, "ok") \/ Return(c, "denied")
    BY <2>1, <2>4, <1>a, ReturnShape DEF TypeOK, Results
  <2> QED
    BY <1>1, <2>3, <2>4 DEF ReadCache
<1>2. CASE Capture(c)
  <2>1. call'[c] \in Calling /\ CallShape(c)'
    <3>1. now + TTL \in Times /\ now + TTL <= now + TTL
      BY LoginSessionAssumption DEF Times, TypeOK
    <3>2. call'[c] \in Calling
      BY <1>0, <1>2, <3>1 DEF Capture, Calling, Steps
    <3> QED
      BY <1>0, <1>2, <3>1, <3>2 DEF Capture, At, Steps, CallShape
  <2>2. \A d \in Calls : d # c => call'[d] = call[d]
    BY <1>0, <1>2 DEF Capture
  <2> QED
    BY <1>0, <1>2, <2>1, <2>2 DEF Capture, TypeOK, Shape, CallShape
<1>3. CASE CheckRead(c)
  <2>1. call'[c] \in Calling /\ CallShape(c)'
    BY <1>0, <1>3 DEF CheckRead, At, Calling, Steps, CallShape, Rows, Kinds
  <2>2. \A d \in Calls : d # c => call'[d] = call[d]
    BY <1>0, <1>3 DEF CheckRead
  <2> QED
    BY <1>0, <1>3, <2>1, <2>2 DEF CheckRead, TypeOK, Shape, CallShape
<1>4. CASE CheckTomb(c)
  <2>1. cache' \in Entries /\ (cache' # NoEntry => now < cache'.exp)
    BY <1>0, <1>4, DenyEntryType DEF CheckTomb, TypeOK, Deny
  <2> QED
    BY <1>4, <2>1, <1>a, ReturnShape DEF CheckTomb, TypeOK, Results
<1>5. CASE Fill(c)
  <2>1. ActiveEntry(c) \in Entries /\ ActiveEntry(c).exp = Smaller(call[c].deadline, End)
    BY <1>0, LoginSessionAssumption DEF ActiveEntry, Entries, Smaller, Times, Versions
  <2>2. cache' \in Entries /\ (cache' # NoEntry => now < cache'.exp)
    BY <1>5, <2>1 DEF Fill, TypeOK
  <2>3. call[c].kind # "none" /\ call[c].pc # "done"
    BY <1>0, <1>5 DEF Fill, At, CallShape
  <2>4. CASE Goto(c, "filled")
    BY <1>5, <2>2, <2>3, <2>4, GotoShape DEF Fill, TypeOK, Steps
  <2>5. CASE Return(c, "denied")
    BY <1>5, <2>2, <2>5, <1>a, ReturnShape DEF Fill, TypeOK, Results
  <2> QED
    BY <1>5, <2>4, <2>5 DEF Fill
<1>6. CASE FillTooLate(c)
  <2>1. NoEntry \in Entries
    BY LoginSessionAssumption DEF NoEntry, Entries, Times
  <2>2. cache' \in Entries /\ (cache' # NoEntry => now < cache'.exp)
    BY <1>6, <2>1 DEF FillTooLate, TypeOK
  <2>3. call[c].kind # "none" /\ call[c].pc # "done"
    BY <1>0, <1>6 DEF FillTooLate, At, CallShape
  <2>4. CASE Goto(c, "confirm")
    BY <1>6, <2>2, <2>3, <2>4, GotoShape DEF FillTooLate, TypeOK, Steps
  <2>5. CASE Return(c, "denied")
    BY <1>6, <2>2, <2>5, <1>a, ReturnShape DEF FillTooLate, TypeOK, Results
  <2> QED
    BY <1>6, <2>4, <2>5 DEF FillTooLate, TooLate
<1>7. CASE FillFails(c)
  BY <1>7, <1>a, ReturnShape DEF FillFails, TypeOK, Results
<1>8. CASE Filled(c)
  <2>3. call[c].kind # "none" /\ call[c].pc # "done"
    BY <1>0, <1>8 DEF Filled, At, CallShape
  <2>4. CASE Goto(c, "confirm")
    BY <1>8, <2>3, <2>4, GotoShape DEF Filled, TypeOK, Steps
  <2>5. CASE Return(c, "denied") \/ Return(c, "ok")
    BY <1>8, <2>5, <1>a, ReturnShape DEF Filled, TypeOK, Results
  <2> QED
    BY <1>8, <2>4, <2>5 DEF Filled
<1>9. CASE Confirm(c)
  BY <1>9, <1>a, ReturnShape DEF Confirm, TypeOK, Results
<1> QED
  BY <1>1, <1>2, <1>3, <1>4, <1>5, <1>6, <1>7, <1>8, <1>9

\* The steps of a revocation.
LEMMA TypeRevoking ==
  ASSUME TypeInv, NEW c \in Calls,
         RevokeRead(c) \/ Fence(c) \/ RevokeRow(c) \/ RevokeFails(c) \/ Final(c)
  PROVE  TypeInv'
<1>a. call[c].pc # "idle"
  BY DEF At, RevokeRead, Fence, RevokeRow, RevokeFails, Final
<1> USE DEF TypeInv
<1>0. /\ call \in [Calls -> Calling] /\ CallShape(c)
      /\ call[c].ver \in Versions
      /\ row \in Rows
  BY DEF TypeOK, Calling, Shape
<1>1. CASE RevokeRead(c)
  <2>1. CASE Return(c, "nothing")
    BY <1>1, <2>1, <1>a, ReturnShape DEF RevokeRead, TypeOK, Results
  <2>2. CASE call' = [call EXCEPT ![c].ver = row.ver, ![c].pc = "fence"]
    <3>1. call'[c] \in Calling /\ CallShape(c)'
      BY <1>0, <1>1, <2>2 DEF RevokeRead, At, Calling, Steps, CallShape, Rows
    <3> QED
      BY <1>0, <1>1, <2>2, <3>1 DEF RevokeRead, TypeOK, Shape, CallShape
  <2> QED
    BY <1>1, <2>1, <2>2 DEF RevokeRead
<1>2. CASE Fence(c)
  <2>1. cache' \in Entries /\ (cache' # NoEntry => now < cache'.exp)
    BY <1>0, <1>2, DenyEntryType DEF Fence, TypeOK, Deny
  <2>2. call[c].kind # "none" /\ call[c].pc # "done"
    BY <1>0, <1>2 DEF Fence, At, CallShape
  <2>3. CASE Goto(c, "revoke")
    BY <1>2, <2>1, <2>2, <2>3, GotoShape DEF Fence, TypeOK, Steps
  <2>4. CASE Return(c, "error")
    BY <1>2, <2>1, <2>4, <1>a, ReturnShape DEF Fence, TypeOK, Results
  <2> QED
    BY <1>2, <2>3, <2>4 DEF Fence
<1>3. CASE RevokeRow(c)
  <2>1. row' \in Rows
    BY <1>0, <1>3 DEF RevokeRow, Rows
  <2>2. CASE Active(row, call[c].at)
    <3>1. call'[c] \in Calling /\ CallShape(c)'
      BY <1>0, <1>3, <2>2 DEF RevokeRow, At, Calling, Steps, CallShape, Rows
    <3> QED
      BY <1>0, <1>3, <2>1, <2>2, <3>1 DEF RevokeRow, TypeOK, Shape, CallShape
  <2>3. CASE ~Active(row, call[c].at)
    BY <1>3, <2>1, <2>3, <1>a, ReturnShape DEF RevokeRow, TypeOK, Results
  <2> QED
    BY <2>2, <2>3
<1>4. CASE RevokeFails(c)
  BY <1>4, <1>a, ReturnShape DEF RevokeFails, TypeOK, Results
<1>5. CASE Final(c)
  <2>1. cache' \in Entries /\ (cache' # NoEntry => now < cache'.exp)
    BY <1>0, <1>5, DenyEntryType DEF Final, TypeOK, Deny
  <2> QED
    BY <1>5, <2>1, <1>a, ReturnShape DEF Final, TypeOK, Results
<1> QED
  BY <1>1, <1>2, <1>3, <1>4, <1>5

\* The compare-and-swap of the secret and of the version.
LEMMA TypeSwapping ==
  ASSUME TypeInv, NEW c \in Calls, RotateRead(c) \/ RotateSwap(c) \/ AdvanceSwap(c)
  PROVE  TypeInv'
<1>a. call[c].pc # "idle"
  BY DEF At, RotateRead, RotateSwap, AdvanceSwap
<1> USE DEF TypeInv
<1>0. /\ call \in [Calls -> Calling] /\ CallShape(c)
      /\ call[c].ver \in Versions
      /\ row \in Rows
  BY DEF TypeOK, Calling, Shape
<1>1. CASE RotateRead(c)
  <2>1. CASE Return(c, "denied") \/ Return(c, "race") \/ Return(c, "invalid")
    BY <1>1, <2>1, <1>a, ReturnShape DEF RotateRead, TypeOK, Results
  <2>2. ASSUME NEW pc \in {"swap", "fence"}, call' = [call EXCEPT ![c].ver = row.ver, ![c].pc = pc]
        PROVE  TypeInv'
    <3>1. call'[c] \in Calling /\ CallShape(c)'
      BY <1>0, <1>1, <2>2 DEF RotateRead, At, Calling, Steps, CallShape, Rows
    <3> QED
      BY <1>0, <1>1, <2>2, <3>1 DEF RotateRead, TypeOK, Shape, CallShape
  <2> QED
    BY <1>1, <2>1, <2>2 DEF RotateRead
<1>2. CASE RotateSwap(c)
  <2>1. row' \in Rows
    <3>1. call[c].at \in Times /\ call[c].at <= now /\ now \in 0..MaxTime
      BY <1>0 DEF Calling, CallShape, TypeOK
    <3>2. call[c].at + Grace \in Times
      BY <3>1, LoginSessionAssumption DEF Times
    <3>3. row.gen + 1 \in Nat
      BY <1>0 DEF Rows
    <3> QED
      BY <1>0, <1>2, <3>2, <3>3 DEF RotateSwap, Rows
  <2>2. CASE Goto(c, "fill")
    <3>1. call[c].kind # "none" /\ call[c].pc # "done"
      BY <1>2 DEF RotateSwap, At
    <3> QED
      BY <1>2, <2>1, <2>2, <3>1, GotoShape DEF RotateSwap, TypeOK, Steps
  <2>3. CASE Return(c, "invalid")
    BY <1>2, <2>1, <2>3, <1>a, ReturnShape DEF RotateSwap, TypeOK, Results
  <2>4. CASE call[c].tries # 2 /\ call' = [call EXCEPT ![c].pc = "capture", ![c].tries = @ + 1]
    <3>1. call'[c] \in Calling /\ CallShape(c)'
      BY <1>0, <1>2, <2>4 DEF RotateSwap, At, Calling, Steps, CallShape
    <3> QED
      BY <1>0, <1>2, <2>1, <2>4, <3>1 DEF RotateSwap, TypeOK, Shape, CallShape
  <2> QED
    BY <1>2, <2>2, <2>3, <2>4 DEF RotateSwap
<1>3. CASE AdvanceSwap(c)
  <2>1. CASE Active(row, call[c].at) /\ row.ver = call[c].arg
    <3>1. row' \in Rows
      <4>1. row.ver \in Versions /\ row.ver < MaxVersion
        BY <1>0, <1>3, <2>1 DEF AdvanceSwap, At, Rows, CallShape
      <4>2. row.ver + 1 \in Versions
        BY <4>1, LoginSessionAssumption DEF Versions
      <4> QED
        BY <1>0, <1>3, <2>1, <4>2 DEF AdvanceSwap, Rows
    <3>2. call'[c] \in Calling /\ CallShape(c)'
      BY <1>0, <1>3, <2>1, <3>1 DEF AdvanceSwap, At, Calling, Steps, CallShape, Rows
    <3> QED
      BY <1>0, <1>3, <2>1, <3>1, <3>2 DEF AdvanceSwap, TypeOK, Shape, CallShape
  <2>2. CASE ~(Active(row, call[c].at) /\ row.ver = call[c].arg)
    BY <1>3, <2>2, <1>a, ReturnShape DEF AdvanceSwap, TypeOK, Results
  <2> QED
    BY <2>1, <2>2
<1> QED
  BY <1>1, <1>2, <1>3

\* The clock and the expiry of entries keep the types.
LEMMA TypeTick ==
  ASSUME TypeInv, Tick
  PROVE  TypeInv'
<1>1. NoEntry \in Entries
  BY LoginSessionAssumption DEF NoEntry, Entries, Times
<1>2. cache' \in Entries /\ (cache' # NoEntry => now' < cache'.exp)
  BY <1>1, LoginSessionAssumption DEF TypeInv, TypeOK, Tick, Entries, Times
<1>3. now' \in 0..MaxTime
  BY LoginSessionAssumption DEF TypeInv, TypeOK, Tick
<1>4. Shape'
  BY LoginSessionAssumption DEF TypeInv, TypeOK, Shape, CallShape, Tick, Calling, Times
<1> QED
  BY <1>2, <1>3, <1>4 DEF TypeInv, TypeOK, Tick

\* Every step keeps the types.
LEMMA TypeNext == TypeInv /\ [Next]_vars => TypeInv'
<1> SUFFICES ASSUME TypeInv, [Next]_vars PROVE TypeInv'
  OBVIOUS
<1>1. CASE Tick
  BY <1>1, TypeTick
<1>2. ASSUME NEW c \in Calls, CallStep(c)
      PROVE  TypeInv'
  BY <1>2, TypeBegins, TypeChecking, TypeRevoking, TypeSwapping DEF CallStep
<1>3. CASE UNCHANGED vars
  BY <1>3 DEF vars, TypeInv, TypeOK, Shape, CallShape
<1> QED
  BY <1>1, <1>2, <1>3 DEF Next

\* Every variable has its type, and nothing in Redis has expired: the lifetime
\* writeUserSessionCache gives an entry is positive, whatever the delays.
THEOREM SessionTypeCorrect == Spec => []TypeOK
<1>1. Spec => []TypeInv
  BY TypeInit, TypeNext, PTL DEF Spec
<1> QED
  BY <1>1, PTL DEF TypeInv

-----------------------------------------------------------------------------
(* One rotation per secret *)

\* The refresh has rotated its secret, and has not failed since.
Winner(c) ==
    /\ call[c].kind = "rotate"
    /\ call[c].pc \in {"fill", "filled", "confirm"} \/ call[c].res = "ok"

\* Secrets that were rotated are behind the current one.
Behind == \A c \in Calls : Winner(c) => call[c].arg < row.gen

OneRotation ==
    \A c, d \in Calls : Winner(c) /\ Winner(d) /\ call[c].arg = call[d].arg => c = d

WinInv == Behind /\ OneRotation

\* What a step does to the refreshes and the secret: every call but one stays as
\* it is; that one may become a winner only by the compare-and-swap.
LEMMA WinnerStep ==
  ASSUME TypeInv, NEW c \in Calls, CallStep(c)
  PROVE  /\ \A d \in Calls : d # c => call'[d] = call[d]
         /\ row'.gen >= row.gen
         /\ Winner(c)' => \/ Winner(c) /\ call'[c].arg = call[c].arg
                          \/ /\ call'[c].arg = row.gen
                             /\ row'.gen = row.gen + 1
<1> USE DEF TypeInv, TypeOK
<1>0. /\ call \in [Calls -> Calling] /\ call[c] \in Calling /\ CallShape(c)
      /\ row \in Rows /\ row.gen \in Nat
  BY DEF Shape, Rows
<1>1. ASSUME NEW kind, NEW pc \in {"cache", "capture", "read"}, NEW arg, Begin(c, kind, pc, arg)
      PROVE  /\ \A d \in Calls : d # c => call'[d] = call[d]
             /\ row' = row /\ ~Winner(c)'
  BY <1>0, <1>1 DEF Begin, Winner, CallShape, Calling
<1>2. ASSUME NEW res \in Results, Return(c, res), res = "ok" => call[c].kind # "rotate" \/ Winner(c)
      PROVE  /\ \A d \in Calls : d # c => call'[d] = call[d]
             /\ Winner(c)' => Winner(c) /\ call'[c].arg = call[c].arg
  <2>1. call'[c] = [NoCall EXCEPT !.kind = call[c].kind, !.pc = "done", !.arg = call[c].arg,
                                  !.late = call[c].late, !.res = res]
    BY <1>0, <1>2 DEF Return
  <2>2. /\ call'[c].kind = call[c].kind /\ call'[c].pc = "done"
        /\ call'[c].arg = call[c].arg /\ call'[c].res = res
    BY <2>1, NoCallType DEF Calling
  <2> QED
    BY <1>0, <1>2, <2>2 DEF Return, Winner
<1>3. ASSUME NEW pc \in Steps, Goto(c, pc), call[c].pc # "done",
             pc \in {"filled", "confirm"} => call[c].pc \in {"fill", "filled"},
             pc # "fill"
      PROVE  /\ \A d \in Calls : d # c => call'[d] = call[d]
             /\ Winner(c)' => Winner(c) /\ call'[c].arg = call[c].arg
  BY <1>0, <1>3 DEF Goto, Winner, CallShape, Calling
<1>4. CASE \/ CheckBegins(c) \/ RevokeBegins(c) \/ CookieBegins(c)
           \/ RotateBegins(c) \/ AdvanceBegins(c)
  <2>1. \E kind \in Kinds, pc \in {"cache", "capture", "read"}, arg \in Nat : Begin(c, kind, pc, arg)
    <3>1. CASE CheckBegins(c)
      BY <3>1 DEF CheckBegins, Kinds
    <3>2. CASE RevokeBegins(c)
      BY <3>2 DEF RevokeBegins, Kinds
    <3>3. CASE CookieBegins(c)
      BY <1>0, <3>3 DEF CookieBegins, Kinds
    <3>4. CASE RotateBegins(c)
      BY <1>0, <3>4 DEF RotateBegins, Kinds
    <3>5. CASE AdvanceBegins(c)
      BY <3>5 DEF AdvanceBegins, Kinds, Versions
    <3> QED
      BY <1>4, <3>1, <3>2, <3>3, <3>4, <3>5
  <2>2. PICK kind \in Kinds, pc \in {"cache", "capture", "read"}, arg \in Nat : Begin(c, kind, pc, arg)
    BY <2>1
  <2>3. /\ \A d \in Calls : d # c => call'[d] = call[d]
        /\ row' = row /\ ~Winner(c)'
    BY <1>1, <2>2
  <2> QED
    BY <1>0, <2>3
<1>5. CASE ReadCache(c)
  BY <1>0, <1>2, <1>3, <1>5 DEF ReadCache, At, CallShape, Results, Steps
<1>6. CASE Capture(c)
  BY <1>0, <1>6 DEF Capture, At, Winner, CallShape, Calling
<1>7. CASE CheckRead(c)
  BY <1>0, <1>7 DEF CheckRead, At, Winner, CallShape, Calling
<1>8. CASE CheckTomb(c)
  BY <1>0, <1>2, <1>8 DEF CheckTomb, At, Results
<1>9. CASE Fill(c)
  BY <1>0, <1>2, <1>3, <1>9 DEF Fill, At, Results, Steps
<1>10. CASE FillTooLate(c)
  BY <1>0, <1>2, <1>3, <1>10 DEF FillTooLate, TooLate, At, Results, Steps
<1>11. CASE FillFails(c)
  BY <1>0, <1>2, <1>11 DEF FillFails, At, Results, Winner
<1>12. CASE Filled(c)
  BY <1>0, <1>2, <1>3, <1>12 DEF Filled, At, Results, Steps, Winner
<1>13. CASE Confirm(c)
  BY <1>0, <1>2, <1>13 DEF Confirm, At, Results, Winner
<1>14. CASE RevokeRead(c)
  <2>1. CASE Return(c, "nothing")
    BY <1>0, <1>2, <1>14, <2>1 DEF RevokeRead, Results
  <2>2. CASE call' = [call EXCEPT ![c].ver = row.ver, ![c].pc = "fence"]
    BY <1>0, <1>14, <2>2 DEF RevokeRead, At, Winner, CallShape, Calling
  <2> QED
    BY <1>14, <2>1, <2>2 DEF RevokeRead
<1>15. CASE Fence(c)
  BY <1>0, <1>2, <1>3, <1>15 DEF Fence, At, Results, Steps
<1>16. CASE RevokeRow(c)
  <2>1. row'.gen = row.gen
    BY <1>0, <1>16 DEF RevokeRow, Rows
  <2>2. CASE Active(row, call[c].at)
    BY <1>0, <1>16, <2>1, <2>2 DEF RevokeRow, At, Winner, CallShape, Calling
  <2>3. CASE ~Active(row, call[c].at)
    BY <1>0, <1>2, <1>16, <2>1, <2>3 DEF RevokeRow, Results
  <2> QED
    BY <2>2, <2>3
<1>17. CASE RevokeFails(c)
  BY <1>0, <1>2, <1>17 DEF RevokeFails, Results
<1>18. CASE Final(c)
  BY <1>0, <1>2, <1>18 DEF Final, Results
<1>19. CASE RotateRead(c)
  <2>1. CASE Return(c, "denied") \/ Return(c, "race") \/ Return(c, "invalid")
    BY <1>0, <1>2, <1>19, <2>1 DEF RotateRead, Results
  <2>2. ASSUME NEW pc \in {"swap", "fence"}, call' = [call EXCEPT ![c].ver = row.ver, ![c].pc = pc]
        PROVE  ~Winner(c)' /\ \A d \in Calls : d # c => call'[d] = call[d]
    BY <1>0, <1>19, <2>2 DEF RotateRead, At, Winner, CallShape, Calling
  <2> QED
    BY <1>0, <1>19, <2>1, <2>2 DEF RotateRead
<1>20. CASE RotateSwap(c)
  <2>1. CASE Active(row, call[c].at) /\ row.gen = call[c].arg
    <3>1. row'.gen = row.gen + 1
      BY <1>0, <1>20, <2>1 DEF RotateSwap, Rows
    <3>2. call' = [call EXCEPT ![c].pc = "fill"]
      BY <1>20, <2>1 DEF RotateSwap, Goto
    <3>3. call'[c].arg = call[c].arg /\ \A d \in Calls : d # c => call'[d] = call[d]
      BY <1>0, <3>2 DEF Calling
    <3> QED
      BY <1>0, <2>1, <3>1, <3>3
  <2>2. CASE Return(c, "invalid") /\ UNCHANGED row
    BY <1>0, <1>2, <2>2 DEF Results
  <2>3. CASE call' = [call EXCEPT ![c].pc = "capture", ![c].tries = @ + 1] /\ UNCHANGED row
    BY <1>0, <1>20, <2>3 DEF RotateSwap, At, Winner, CallShape, Calling
  <2> QED
    BY <1>20, <2>1, <2>2, <2>3 DEF RotateSwap
<1>21. CASE AdvanceSwap(c)
  <2>1. CASE Active(row, call[c].at) /\ row.ver = call[c].arg
    BY <1>0, <1>21, <2>1 DEF AdvanceSwap, At, Winner, Rows, Calling
  <2>2. CASE Return(c, "denied") /\ UNCHANGED row
    BY <1>0, <1>2, <2>2 DEF Results
  <2> QED
    BY <1>21, <2>1, <2>2 DEF AdvanceSwap
<1> QED
  BY <1>4, <1>5, <1>6, <1>7, <1>8, <1>9, <1>10, <1>11, <1>12, <1>13, <1>14, <1>15, <1>16,
     <1>17, <1>18, <1>19, <1>20, <1>21 DEF CallStep

\* Every step keeps the invariant behind OneWinner.
LEMMA WinNext == TypeInv /\ WinInv /\ [Next]_vars => WinInv'
<1> SUFFICES ASSUME TypeInv, WinInv, [Next]_vars PROVE WinInv'
  OBVIOUS
<1>1. CASE UNCHANGED <<row, call>>
  BY <1>1 DEF WinInv, Behind, OneRotation, Winner
<1>2. ASSUME NEW c \in Calls, CallStep(c)
      PROVE  WinInv'
  <2>0. /\ row.gen \in Nat /\ row'.gen \in Nat
        /\ \A d \in Calls : call[d].arg \in Nat
    BY TypeNext DEF TypeInv, TypeOK, Rows, Calling
  <2>1. \A d \in Calls : d # c => call'[d] = call[d] /\ (Winner(d)' <=> Winner(d))
    BY <1>2, WinnerStep DEF Winner
  <2>2. CASE Winner(c)' => Winner(c) /\ call'[c].arg = call[c].arg
    BY <1>2, <2>0, <2>1, <2>2, WinnerStep DEF WinInv, Behind, OneRotation
  <2>3. CASE call'[c].arg = row.gen /\ row'.gen = row.gen + 1
    BY <1>2, <2>0, <2>1, <2>3 DEF WinInv, Behind, OneRotation
  <2> QED
    BY <1>2, <2>2, <2>3, WinnerStep
<1> QED
  BY <1>1, <1>2 DEF Next, Tick, vars

\* However many refreshes present the same secret, and however their reads and
\* updates interleave, one at most is answered by rotating it: the UPDATE of
\* RotateUserSessionRefresh is its own compare-and-swap.
THEOREM RotatedOnce == Spec => []OneWinner
<1>1. Init => WinInv
  <2> SUFFICES ASSUME Init, NEW c \in Calls PROVE ~Winner(c)
    BY DEF WinInv, Behind, OneRotation
  <2>1. call[c].kind # "rotate"
    <3>1. Creation.kind = "create"
      BY NoCallType DEF Creation, Calling
    <3>2. CASE \E d \in Calls : call = [[e \in Calls |-> NoCall] EXCEPT ![d] = Creation]
      BY <3>1, <3>2, NoCallType
    <3>3. CASE call = [d \in Calls |-> NoCall]
      BY <3>3, NoCallType
    <3> QED
      BY <3>2, <3>3 DEF Init
  <2> QED
    BY <2>1 DEF Winner
<1>2. WinInv => OneWinner
  BY DEF WinInv, OneRotation, OneWinner, Winner
<1>3. Spec => []TypeInv
  BY TypeInit, TypeNext, PTL DEF Spec
<1> QED
  BY <1>1, <1>2, <1>3, WinNext, PTL DEF Spec

-----------------------------------------------------------------------------
(* A revoked session stays out *)

\* How long the snapshot of a call may stay in Redis.
Until(c) == Smaller(call[c].deadline, End)

\* A tombstone is published for a revoked row only.
RowGone ==
    /\ \A c \in Calls : At(c, "final") => row.status = "revoked"
    /\ published => row.status = "revoked"

\* A snapshot that still waits to be written is either too old, or kept out by
\* a deny entry that lives at least as long.
Covered(c) ==
    \/ Until(c) <= now
    \/ cache.status \in Deny /\ Until(c) <= cache.exp

NoRevival ==
    published => /\ cache.status # "active"
                 /\ \A c \in Calls : At(c, "fill") => Covered(c)

\* A check that began after the publication gets as far as its own tombstone.
LateChecks ==
    \A c \in Calls : call[c].late =>
        /\ published
        /\ call[c].kind = "check" =>
              /\ call[c].pc \in {"cache", "capture", "read", "tomb", "done"}
              /\ call[c].res # "ok"

GoneInv == RowGone /\ NoRevival /\ LateChecks

\* The deny entry written now covers every snapshot taken until now, because its
\* life is counted from its publication and theirs from their observation.
LEMMA DenyCovers ==
  ASSUME TypeInv, NEW c \in Calls
  PROVE  Until(c) <= now \/ Until(c) <= DenyUntil
<1>1. /\ now \in Nat /\ End \in Nat /\ TTL \in Nat \ {0}
      /\ call[c].deadline \in Nat /\ call[c].deadline <= now + TTL
  BY LoginSessionAssumption DEF TypeInv, TypeOK, Shape, CallShape, Calling, Times
<1> QED
  BY <1>1 DEF Until, DenyUntil, Smaller

\* What a step of a call may do to the row, to Redis and to its own place.
StepEffect(c) ==
    /\ now' = now
    /\ \A d \in Calls : d # c => call'[d] = call[d]
    /\ row.status = "revoked" => row'.status = "revoked"
    /\ \/ cache' = cache
       \/ cache'.status \in Deny /\ cache'.exp = DenyUntil
       \/ cache' = NoEntry /\ cache.status \notin Deny
       \/ At(c, "fill") /\ now < Until(c) /\ cache.status \notin Deny
    /\ At(c, "fill")' => row.status = "active"
    /\ At(c, "final")' => row'.status = "revoked"
    /\ published => published'
    /\ published' => \/ published
                     \/ At(c, "final") /\ cache'.status \in Deny /\ cache'.exp = DenyUntil

LateCheck(c) ==
    call[c].late =>
        /\ published
        /\ call[c].kind = "check" =>
              /\ call[c].pc \in {"cache", "capture", "read", "tomb", "done"}
              /\ call[c].res # "ok"

\* Every step of a call keeps the invariant behind RevokedStaysOut.
LEMMA GoneStep ==
  ASSUME TypeInv, GoneInv, NEW c \in Calls, CallStep(c)
  PROVE  StepEffect(c) /\ LateCheck(c)'
<1> USE DEF TypeInv, TypeOK
<1>0. /\ call \in [Calls -> Calling] /\ call[c] \in Calling /\ CallShape(c)
      /\ row \in Rows /\ LateCheck(c)
      /\ published => row.status = "revoked" /\ cache.status # "active"
  BY DEF Shape, GoneInv, LateChecks, LateCheck, RowGone, NoRevival
<1>1. ASSUME NEW kind, NEW pc \in {"cache", "capture", "read"}, NEW arg, Begin(c, kind, pc, arg)
      PROVE  StepEffect(c) /\ LateCheck(c)'
  <2>1. call[c].res = "none"
    BY <1>0, <1>1 DEF Begin, CallShape
  <2>2. /\ call'[c].pc = pc /\ call'[c].res = "none" /\ call'[c].late = published
        /\ \A d \in Calls : d # c => call'[d] = call[d]
    BY <1>0, <1>1, <2>1 DEF Begin, Calling
  <2> QED
    BY <1>1, <2>2 DEF Begin, StepEffect, LateCheck, At
<1>2. ASSUME NEW res \in Results, Return(c, res)
      PROVE  /\ \A d \in Calls : d # c => call'[d] = call[d]
             /\ call'[c].kind = call[c].kind /\ call'[c].late = call[c].late
             /\ call'[c].pc = "done" /\ call'[c].res = res
  <2>1. call'[c] = [NoCall EXCEPT !.kind = call[c].kind, !.pc = "done", !.arg = call[c].arg,
                                  !.late = call[c].late, !.res = res]
    BY <1>0, <1>2 DEF Return
  <2>2. /\ call'[c].kind = call[c].kind /\ call'[c].late = call[c].late
        /\ call'[c].pc = "done" /\ call'[c].res = res
    BY <2>1, NoCallType DEF Calling
  <2> QED
    BY <1>0, <1>2, <2>2 DEF Return
<1>3. ASSUME NEW pc, Goto(c, pc)
      PROVE  /\ \A d \in Calls : d # c => call'[d] = call[d]
             /\ call'[c].kind = call[c].kind /\ call'[c].late = call[c].late
             /\ call'[c].pc = pc /\ call'[c].res = call[c].res
  BY <1>0, <1>3 DEF Goto, Calling
<1>b. \A status \in Deny, ver \in Versions :
         DenyEntry(status, ver).status \in Deny /\ DenyEntry(status, ver).exp = DenyUntil
  BY DEF DenyEntry
<1>c. call[c].ver \in Versions /\ "revoked" \in Deny /\ "revoking" \in Deny
  BY <1>0 DEF Calling, Deny
<1>4. CASE \/ CheckBegins(c) \/ RevokeBegins(c) \/ CookieBegins(c)
           \/ RotateBegins(c) \/ AdvanceBegins(c)
  <2>1. \E kind \in Kinds, pc \in {"cache", "capture", "read"} : \E arg : Begin(c, kind, pc, arg)
    BY <1>4 DEF CheckBegins, RevokeBegins, CookieBegins, RotateBegins, AdvanceBegins, Kinds
  <2> QED
    BY <1>1, <2>1
<1>5. CASE ReadCache(c)
  <2>1. CASE Goto(c, "capture")
    BY <1>0, <1>3, <1>5, <2>1 DEF ReadCache, StepEffect, LateCheck, At
  <2>2. CASE Return(c, "denied")
    BY <1>0, <1>2, <1>5, <2>2 DEF ReadCache, StepEffect, LateCheck, At, Results
  <2>3. CASE Return(c, "ok") /\ cache.status = "active"
    BY <1>0, <1>2, <1>5, <2>3 DEF ReadCache, StepEffect, LateCheck, At, Results
  <2> QED
    BY <1>5, <2>1, <2>2, <2>3 DEF ReadCache
<1>6. CASE Capture(c)
  <2>1. /\ call'[c].pc \in {"swap", "read"} /\ call'[c].res = call[c].res
        /\ call'[c].kind = call[c].kind /\ call'[c].late = call[c].late
        /\ call[c].kind = "check" => call'[c].pc = "read"
        /\ \A d \in Calls : d # c => call'[d] = call[d]
    BY <1>0, <1>6 DEF Capture, Calling
  <2> QED
    BY <1>0, <1>6, <2>1 DEF Capture, StepEffect, LateCheck, At
<1>7. CASE CheckRead(c)
  <2>1. /\ call'[c].pc = IF Active(row, now) THEN "fill" ELSE "tomb"
        /\ call'[c].kind = call[c].kind /\ call'[c].late = call[c].late
        /\ call'[c].res = call[c].res
        /\ \A d \in Calls : d # c => call'[d] = call[d]
    BY <1>0, <1>7 DEF CheckRead, Calling
  <2> QED
    BY <1>0, <1>7, <2>1 DEF CheckRead, StepEffect, LateCheck, At, Active
<1>8. CASE CheckTomb(c)
  BY <1>0, <1>2, <1>b, <1>c, <1>8 DEF CheckTomb, StepEffect, LateCheck, At, Results
<1>9. CASE Fill(c)
  <2>1. CASE Accepts("active", call[c].ver)
    BY <1>0, <1>3, <1>9, <2>1 DEF Fill, Until, Accepts, StepEffect, LateCheck, At
  <2>2. CASE ~Accepts("active", call[c].ver)
    BY <1>0, <1>2, <1>9, <2>2 DEF Fill, StepEffect, LateCheck, At, Results
  <2> QED
    BY <2>1, <2>2
<1>10. CASE FillTooLate(c)
  <2>1. cache' = cache \/ (cache' = NoEntry /\ cache.status \notin Deny)
    BY <1>10 DEF FillTooLate, Accepts
  <2>2. CASE Goto(c, "confirm")
    BY <1>0, <1>3, <1>10, <2>1, <2>2 DEF FillTooLate, StepEffect, LateCheck, At
  <2>3. CASE Return(c, "denied")
    BY <1>0, <1>2, <1>10, <2>1, <2>3 DEF FillTooLate, StepEffect, LateCheck, At, Results
  <2> QED
    BY <1>10, <2>2, <2>3 DEF FillTooLate, TooLate
<1>11. CASE FillFails(c)
  BY <1>0, <1>2, <1>11 DEF FillFails, StepEffect, LateCheck, At, Results
<1>12. CASE Filled(c)
  <2>1. CASE Goto(c, "confirm")
    BY <1>0, <1>3, <1>12, <2>1 DEF Filled, StepEffect, LateCheck, At
  <2>2. CASE Return(c, "denied") \/ Return(c, "ok")
    BY <1>0, <1>2, <1>12, <2>2 DEF Filled, StepEffect, LateCheck, At, Results
  <2> QED
    BY <1>12, <2>1, <2>2 DEF Filled
<1>13. CASE Confirm(c)
  BY <1>0, <1>2, <1>13 DEF Confirm, StepEffect, LateCheck, At, Results
<1>14. CASE RevokeRead(c)
  <2>1. CASE Return(c, "nothing")
    BY <1>0, <1>2, <1>14, <2>1 DEF RevokeRead, StepEffect, LateCheck, At, Results
  <2>2. CASE call' = [call EXCEPT ![c].ver = row.ver, ![c].pc = "fence"]
    BY <1>0, <1>14, <2>2 DEF RevokeRead, StepEffect, LateCheck, At, Calling
  <2> QED
    BY <1>14, <2>1, <2>2 DEF RevokeRead
<1>15. CASE Fence(c)
  <2>1. CASE Goto(c, "revoke") /\ cache' = DenyEntry("revoking", call[c].ver)
    BY <1>0, <1>3, <1>b, <1>c, <1>15, <2>1 DEF Fence, StepEffect, LateCheck, At
  <2>2. CASE Return(c, "error") /\ UNCHANGED cache
    BY <1>0, <1>2, <1>15, <2>2 DEF Fence, StepEffect, LateCheck, At, Results
  <2> QED
    BY <1>15, <2>1, <2>2 DEF Fence
<1>16. CASE RevokeRow(c)
  <2>1. CASE Active(row, call[c].at)
    <3>1. row'.status = "revoked"
      BY <1>0, <1>16, <2>1 DEF RevokeRow, Rows
    <3>2. /\ call'[c].pc = "final" /\ call'[c].res = call[c].res
          /\ call'[c].kind = call[c].kind /\ call'[c].late = call[c].late
          /\ \A d \in Calls : d # c => call'[d] = call[d]
      BY <1>0, <1>16, <2>1 DEF RevokeRow, Calling
    <3> QED
      BY <1>0, <1>16, <3>1, <3>2 DEF RevokeRow, StepEffect, LateCheck, At
  <2>2. CASE ~Active(row, call[c].at)
    BY <1>0, <1>2, <1>16, <2>2 DEF RevokeRow, StepEffect, LateCheck, At, Results
  <2> QED
    BY <2>1, <2>2
<1>17. CASE RevokeFails(c)
  BY <1>0, <1>2, <1>17 DEF RevokeFails, StepEffect, LateCheck, At, Results
<1>18. CASE Final(c)
  <2>1. /\ call'[c].pc = "done" /\ call'[c].late = call[c].late /\ call'[c].kind = call[c].kind
        /\ \A d \in Calls : d # c => call'[d] = call[d]
    BY <1>2, <1>18 DEF Final, Results
  <2>2. \/ cache'.status \in Deny /\ cache'.exp = DenyUntil
        \/ cache' = cache /\ published' = published
    BY <1>b, <1>c, <1>18 DEF Final
  <2> QED
    BY <1>0, <1>18, <2>1, <2>2 DEF Final, StepEffect, LateCheck, At
<1>19. CASE RotateRead(c)
  <2>1. CASE Return(c, "denied") \/ Return(c, "race") \/ Return(c, "invalid")
    BY <1>0, <1>2, <1>19, <2>1 DEF RotateRead, StepEffect, LateCheck, At, Results
  <2>2. ASSUME NEW pc \in {"swap", "fence"}, call' = [call EXCEPT ![c].ver = row.ver, ![c].pc = pc]
        PROVE  StepEffect(c) /\ LateCheck(c)'
    BY <1>0, <1>19, <2>2 DEF RotateRead, StepEffect, LateCheck, At, Calling
  <2> QED
    BY <1>19, <2>1, <2>2 DEF RotateRead
<1>20. CASE RotateSwap(c)
  <2>1. row' = row \/ (row.status = "active" /\ row'.status = "active")
    BY <1>0, <1>20 DEF RotateSwap, Rows, Active
  <2>2. CASE Active(row, call[c].at) /\ row.gen = call[c].arg
    BY <1>0, <1>3, <1>20, <2>1, <2>2 DEF RotateSwap, StepEffect, LateCheck, At, Active
  <2>3. CASE Return(c, "invalid") /\ UNCHANGED row
    BY <1>0, <1>2, <1>20, <2>3 DEF RotateSwap, StepEffect, LateCheck, At, Results
  <2>4. CASE call' = [call EXCEPT ![c].pc = "capture", ![c].tries = @ + 1] /\ UNCHANGED row
    BY <1>0, <1>20, <2>4 DEF RotateSwap, StepEffect, LateCheck, At, Calling
  <2> QED
    BY <1>20, <2>2, <2>3, <2>4 DEF RotateSwap
<1>21. CASE AdvanceSwap(c)
  <2>1. CASE Active(row, call[c].at) /\ row.ver = call[c].arg
    <3>1. row.status = "active" /\ row'.status = "active"
      BY <1>0, <1>21, <2>1 DEF AdvanceSwap, Rows, Active
    <3>2. /\ call'[c].pc = "fill" /\ call'[c].res = call[c].res
          /\ call'[c].kind = "advance" /\ call'[c].late = call[c].late
          /\ \A d \in Calls : d # c => call'[d] = call[d]
      BY <1>0, <1>21, <2>1 DEF AdvanceSwap, Calling
    <3> QED
      BY <1>0, <1>21, <3>1, <3>2 DEF AdvanceSwap, StepEffect, LateCheck, At
  <2>2. CASE Return(c, "denied") /\ UNCHANGED row
    BY <1>0, <1>2, <1>21, <2>2 DEF AdvanceSwap, StepEffect, LateCheck, At, Results
  <2> QED
    BY <1>21, <2>1, <2>2 DEF AdvanceSwap
<1> QED
  BY <1>4, <1>5, <1>6, <1>7, <1>8, <1>9, <1>10, <1>11, <1>12, <1>13, <1>14, <1>15, <1>16,
     <1>17, <1>18, <1>19, <1>20, <1>21 DEF CallStep

\* Every step keeps it.
LEMMA GoneNext == TypeInv /\ GoneInv /\ [Next]_vars => GoneInv'
<1> SUFFICES ASSUME TypeInv, GoneInv, [Next]_vars PROVE GoneInv'
  OBVIOUS
<1>1. CASE UNCHANGED vars
  BY <1>1 DEF vars, GoneInv, RowGone, NoRevival, LateChecks, Covered, Until, At
<1>2. CASE Tick
  <2>1. now' = now + 1 /\ UNCHANGED <<row, call, published>>
    BY <1>2 DEF Tick
  <2>2. now \in Nat /\ cache.exp \in Nat /\ \A c \in Calls : Until(c) \in Nat
    BY LoginSessionAssumption DEF TypeInv, TypeOK, Entries, Times, Calling, Until, Smaller
  <2>3. \A c \in Calls : Until(c)' = Until(c)
    BY <2>1 DEF Until
  <2>4. NoRevival'
    <3> SUFFICES ASSUME published
                 PROVE  /\ cache'.status # "active"
                        /\ \A c \in Calls : At(c, "fill") => Covered(c)'
      BY <2>1 DEF NoRevival, At
    <3>1. CASE cache.exp <= now'
      <4>1. cache' = NoEntry
        BY <1>2, <3>1 DEF Tick
      <4> QED
        BY <2>1, <2>2, <2>3, <3>1, <4>1 DEF NoEntry, GoneInv, NoRevival, Covered
    <3>2. CASE ~(cache.exp <= now')
      <4>1. cache' = cache
        BY <1>2, <3>2 DEF Tick
      <4> QED
        BY <2>1, <2>2, <2>3, <4>1 DEF GoneInv, NoRevival, Covered
    <3> QED
      BY <3>1, <3>2
  <2> QED
    BY <2>1, <2>4 DEF GoneInv, RowGone, LateChecks, At
<1>3. ASSUME NEW c \in Calls, CallStep(c)
      PROVE  GoneInv'
  <2>1. StepEffect(c) /\ LateCheck(c)'
    BY <1>3, GoneStep
  <2>2. RowGone'
    BY <2>1 DEF StepEffect, GoneInv, RowGone, At
  <2>3. LateChecks'
    BY <2>1 DEF StepEffect, GoneInv, LateChecks, LateCheck
  <2>4. NoRevival'
    <3> SUFFICES ASSUME published'
                 PROVE  /\ cache'.status # "active"
                        /\ \A d \in Calls : At(d, "fill")' => Covered(d)'
      BY DEF NoRevival
    <3>1. now' = now /\ \A d \in Calls : d # c => call'[d] = call[d] /\ Until(d)' = Until(d)
      BY <2>1 DEF StepEffect, Until
    <3>2. row.status = "revoked" /\ ~At(c, "fill")'
      BY <2>1 DEF StepEffect, GoneInv, RowGone
    <3>3. CASE cache'.status \in Deny /\ cache'.exp = DenyUntil
      BY <3>1, <3>2, <3>3, DenyCovers DEF Covered, Deny, At
    <3>4. CASE published
      <4>1. CASE cache' = cache
        BY <3>1, <3>2, <3>4, <4>1 DEF GoneInv, NoRevival, Covered, At
      <4>2. CASE cache' = NoEntry /\ cache.status \notin Deny
        BY <3>1, <3>2, <3>4, <4>2 DEF GoneInv, NoRevival, Covered, At, NoEntry
      <4>3. ~(At(c, "fill") /\ now < Until(c) /\ cache.status \notin Deny)
        <5>1. Until(c) \in Int /\ now \in Int
          BY LoginSessionAssumption DEF TypeInv, TypeOK, Calling, Times, Until, Smaller
        <5> QED
          BY <3>4, <5>1 DEF GoneInv, NoRevival, Covered
      <4> QED
        BY <2>1, <3>3, <4>1, <4>2, <4>3 DEF StepEffect
    <3> QED
      BY <2>1, <3>3, <3>4 DEF StepEffect
  <2> QED
    BY <2>2, <2>3, <2>4 DEF GoneInv
<1> QED
  BY <1>1, <1>2, <1>3 DEF Next

\* After the tombstone of a revocation was published no check lets the session
\* in and Redis has no active entry of it, for ever, although tombstones expire
\* and snapshots are written arbitrarily late: the deadline of writeUserSessionCache
\* is taken before the row is read.  Revocations and their tombstones may fail.
THEOREM RevocationHolds == Spec => []RevokedStaysOut
<1>1. Init => GoneInv
  <2> SUFFICES ASSUME Init PROVE GoneInv
    OBVIOUS
  <2>1. Creation.pc = "fill" /\ ~Creation.late
    BY NoCallType DEF Creation, Calling
  <2>2. \A c \in Calls : call[c] \in {NoCall, Creation}
    <3>1. CASE \E c \in Calls : call = [[d \in Calls |-> NoCall] EXCEPT ![c] = Creation]
      BY <3>1
    <3>2. CASE call = [d \in Calls |-> NoCall]
      BY <3>2
    <3> QED
      BY <3>1, <3>2 DEF Init
  <2>3. \A c \in Calls : call[c].pc # "final" /\ ~call[c].late
    BY <2>1, <2>2, NoCallType
  <2>4. ~published
    BY DEF Init
  <2> QED
    BY <2>3, <2>4 DEF GoneInv, RowGone, NoRevival, LateChecks, At
<1>2. GoneInv => RevokedStaysOut
  BY DEF GoneInv, NoRevival, LateChecks, RevokedStaysOut
<1>3. Spec => []TypeInv
  BY TypeInit, TypeNext, PTL DEF Spec
<1> QED
  BY <1>1, <1>2, <1>3, GoneNext, PTL DEF Spec
=============================================================================
