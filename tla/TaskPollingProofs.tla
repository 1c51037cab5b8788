--------------------------- MODULE TaskPollingProofs ---------------------------
(***************************************************************************)
(* Proofs about TaskPolling for any number of polling passes and status    *)
(* queries, any prices and any number of failures.                         *)
(***************************************************************************)
EXTENDS TaskPolling, TLAPS

-----------------------------------------------------------------------------
(* The disjuncts of Next, grouped by what they touch. *)

Outside ==
    \/ \E pre, q \in Quotas : \E c \in Charges(pre, q) : Submit(c, q)
    \/ \E q \in Quotas : SubmitLost(q)
    \/ Age
    \/ \E s \in Final : Work(s)

\* Steps of one goroutine that leave the row and the charge alone.
Reading(a) ==
    \/ SweepRead(a) \/ SweepNone(a) \/ PollRead(a) \/ PollNone(a) \/ FetchRead(a)
    \/ (\E s \in {remote, "FAILURE"} : Answer(a, s)) \/ NoAnswer(a)
    \/ UpdateLoses(a) \/ UpdateError(a)

Writing(a) == BulkFail(a) \/ UpdateWins(a)

LEMMA NextCases ==
  ASSUME [Next]_vars
  PROVE  \/ Outside
         \/ \E a \in Actors : Reading(a) \/ Writing(a) \/ Bill(a) \/ Crash(a)
         \/ UNCHANGED vars
  BY DEF Next, Outside, Reading, Writing, PollStep, FetchStep, Update, Actors

-----------------------------------------------------------------------------
(* Types. *)

LEMMA TypeInit == Init => TypeOK
  BY TaskConstants DEF Init, TypeOK, Idle, Statuses, Active, Final, Pcs

LEMMA TypeNext ==
  ASSUME TypeOK, [Next]_vars
  PROVE  TypeOK'
<1> USE DEF TypeOK, Statuses, Active, Final, Pcs, Billing
<1>1. CASE Outside
  BY <1>1, TaskConstants DEF Outside, Submit, SubmitLost, Charges, Age, Work, Fault, Unfinished
<1>2. ASSUME NEW a \in Actors, Reading(a) PROVE TypeOK'
  <2>1. CASE SweepRead(a) \/ SweepNone(a)
    BY <2>1 DEF SweepRead, SweepNone, TimedOut, Goto
  <2>2. CASE PollRead(a) \/ PollNone(a) \/ FetchRead(a)
    BY <2>2 DEF PollRead, PollNone, FetchRead, Unfinished, Goto
  <2>3. CASE (\E s \in {remote, "FAILURE"} : Answer(a, s)) \/ NoAnswer(a)
    BY <2>3 DEF Answer, NoAnswer, Leave, Idle
  <2>4. CASE UpdateLoses(a) \/ UpdateError(a)
    BY <2>4 DEF UpdateLoses, UpdateError, Leave, Idle, Fault
  <2> QED
    BY <1>2, <2>1, <2>2, <2>3, <2>4 DEF Reading
<1>3. ASSUME NEW a \in Actors, Writing(a) PROVE TypeOK'
  <2>1. CASE BulkFail(a)
    BY <2>1 DEF BulkFail, Leave, Idle, Fault
  <2>2. CASE UpdateWins(a)
    BY <2>2 DEF UpdateWins, SubmitTime, AfterWin, Matches, Goto, Leave, Idle
  <2> QED
    BY <1>3, <2>1, <2>2 DEF Writing
<1>4. ASSUME NEW a \in Actors, Bill(a) PROVE TypeOK'
  <2>1. ASSUME NEW n \in Actuals, Settle(a, n) PROVE TypeOK'
    BY <2>1, TaskConstants DEF Settle, Leave, Idle
  <2>2. CASE Fund(a) \/ FundError(a)
    BY <2>2 DEF Fund, FundError, Delta, Fault, Goto, Leave, Idle
  <2>3. CASE Token(a)
    BY <2>3 DEF Token, AfterToken, Delta, Fault, Goto
  <2>4. CASE Used(a)
    <3>1. Delta(a) \in Int
      BY DEF Delta
    <3>2. paid' \in [fund : Int, token : Int, used : Int]
      BY <2>4, <3>1 DEF Used
    <3> QED
      BY <2>4, <3>2 DEF Used, AfterUsed, Goto, Leave, Idle
  <2>5. CASE Save(a)
    BY <2>5 DEF Save, AfterSave, Goto, Leave, Idle
  <2>6. CASE SaveError(a)
    BY <2>6 DEF SaveError, AfterSave, Fault, Goto, Leave, Idle
  <2> QED
    BY <1>4, <2>1, <2>2, <2>3, <2>4, <2>5, <2>6 DEF Bill
<1>5. ASSUME NEW a \in Actors, Crash(a) PROVE TypeOK'
  BY <1>5 DEF Crash, Fault, Idle
<1>6. CASE UNCHANGED vars
  BY <1>6 DEF vars
<1> QED
  BY <1>1, <1>2, <1>3, <1>4, <1>5, <1>6, NextCases

\* Row, charge and jobs stay well formed and no stored cost is negative.
THEOREM PollTypeCorrect == Spec => []TypeOK
<1>1. TypeOK /\ [Next]_vars => TypeOK'
  BY TypeNext
<1> QED
  BY TypeInit, <1>1, PTL DEF Spec

-----------------------------------------------------------------------------
(* One winner. *)

LEMMA PassesNext ==
  ASSUME TypeOK, PassesSound, [Next]_vars
  PROVE  PassesSound'
<1> USE DEF TypeOK, Statuses, Active, Final, Pcs, Billing, PassesSound
<1>1. CASE Outside
  BY <1>1, TaskConstants DEF Outside, Submit, SubmitLost, Charges, Age, Work, Fault, Unfinished
<1>2. ASSUME NEW a \in Actors, Reading(a) PROVE PassesSound'
  <2>1. CASE SweepRead(a) \/ SweepNone(a)
    BY <2>1 DEF SweepRead, SweepNone, TimedOut, Goto
  <2>2. CASE PollRead(a) \/ PollNone(a) \/ FetchRead(a)
    BY <2>2 DEF PollRead, PollNone, FetchRead, Unfinished, Goto
  <2>3. CASE (\E s \in {remote, "FAILURE"} : Answer(a, s)) \/ NoAnswer(a)
    BY <2>3 DEF Answer, NoAnswer, Leave, Idle
  <2>4. CASE UpdateLoses(a) \/ UpdateError(a)
    BY <2>4 DEF UpdateLoses, UpdateError, Leave, Idle, Fault
  <2> QED
    BY <1>2, <2>1, <2>2, <2>3, <2>4 DEF Reading
<1>3. ASSUME NEW a \in Actors, Writing(a) PROVE PassesSound'
  <2>1. CASE BulkFail(a)
    BY <2>1 DEF BulkFail, Leave, Idle, Fault
  <2>2. CASE UpdateWins(a)
    BY <2>2 DEF UpdateWins, SubmitTime, AfterWin, Matches, Goto, Leave, Idle
  <2> QED
    BY <1>3, <2>1, <2>2 DEF Writing
<1>4. ASSUME NEW a \in Actors, Bill(a) PROVE PassesSound'
  <2>1. ASSUME NEW n \in Actuals, Settle(a, n) PROVE PassesSound'
    BY <2>1, TaskConstants DEF Settle, Leave, Idle
  <2>2. CASE Fund(a) \/ FundError(a)
    BY <2>2 DEF Fund, FundError, Delta, Fault, Goto, Leave, Idle
  <2>3. CASE Token(a)
    BY <2>3 DEF Token, AfterToken, Delta, Fault, Goto
  <2>4. CASE Used(a)
    BY <2>4 DEF Used, AfterUsed, Delta, Goto, Leave, Idle
  <2>5. CASE Save(a)
    BY <2>5 DEF Save, AfterSave, Goto, Leave, Idle
  <2>6. CASE SaveError(a)
    BY <2>6 DEF SaveError, AfterSave, Fault, Goto, Leave, Idle
  <2> QED
    BY <1>4, <2>1, <2>2, <2>3, <2>4, <2>5, <2>6 DEF Bill
<1>5. ASSUME NEW a \in Actors, Crash(a) PROVE PassesSound'
  BY <1>5 DEF Crash, Fault, Idle
<1>6. CASE UNCHANGED vars
  BY <1>6 DEF vars
<1> QED
  BY <1>1, <1>2, <1>3, <1>4, <1>5, <1>6, NextCases

LEMMA CopiesNext ==
  ASSUME overwritten = 0, overwritten' = 0,
         TypeOK, PassesSound, CopiesSound, BillsFinal, [Next]_vars
  PROVE  CopiesSound'
<1> USE DEF TypeOK, Statuses, Active, Final, Pcs, Billing, PassesSound, CopiesSound, BillsFinal
<1>1. CASE Outside
  BY <1>1, TaskConstants DEF Outside, Submit, SubmitLost, Charges, Age, Work, Fault, Unfinished
<1>2. ASSUME NEW a \in Actors, Reading(a) PROVE CopiesSound'
  <2>1. CASE SweepRead(a) \/ SweepNone(a)
    BY <2>1 DEF SweepRead, SweepNone, TimedOut, Goto
  <2>2. CASE PollRead(a) \/ PollNone(a) \/ FetchRead(a)
    BY <2>2 DEF PollRead, PollNone, FetchRead, Unfinished, Goto
  <2>3. CASE (\E s \in {remote, "FAILURE"} : Answer(a, s)) \/ NoAnswer(a)
    BY <2>3 DEF Answer, NoAnswer, Leave, Idle
  <2>4. CASE UpdateLoses(a) \/ UpdateError(a)
    BY <2>4 DEF UpdateLoses, UpdateError, Leave, Idle, Fault
  <2> QED
    BY <1>2, <2>1, <2>2, <2>3, <2>4 DEF Reading
<1>3. ASSUME NEW a \in Actors, Writing(a) PROVE CopiesSound'
  <2>1. CASE BulkFail(a)
    BY <2>1 DEF BulkFail, Leave, Idle, Fault
  <2>2. CASE UpdateWins(a)
    BY <2>2 DEF UpdateWins, SubmitTime, AfterWin, Matches, Goto, Leave, Idle
  <2> QED
    BY <1>3, <2>1, <2>2 DEF Writing
<1>4. ASSUME NEW a \in Actors, Bill(a) PROVE CopiesSound'
  <2>1. ASSUME NEW n \in Actuals, Settle(a, n) PROVE CopiesSound'
    BY <2>1, TaskConstants DEF Settle, Leave, Idle
  <2>2. CASE Fund(a) \/ FundError(a)
    BY <2>2 DEF Fund, FundError, Delta, Fault, Goto, Leave, Idle
  <2>3. CASE Token(a)
    BY <2>3 DEF Token, AfterToken, Delta, Fault, Goto
  <2>4. CASE Used(a)
    BY <2>4 DEF Used, AfterUsed, Delta, Goto, Leave, Idle
  <2>5. CASE Save(a)
    BY <2>5 DEF Save, AfterSave, Goto, Leave, Idle
  <2>6. CASE SaveError(a)
    BY <2>6 DEF SaveError, AfterSave, Fault, Goto, Leave, Idle
  <2> QED
    BY <1>4, <2>1, <2>2, <2>3, <2>4, <2>5, <2>6 DEF Bill
<1>5. ASSUME NEW a \in Actors, Crash(a) PROVE CopiesSound'
  BY <1>5 DEF Crash, Fault, Idle
<1>6. CASE UNCHANGED vars
  BY <1>6 DEF vars
<1> QED
  BY <1>1, <1>2, <1>3, <1>4, <1>5, <1>6, NextCases

LEMMA BillsFinalNext ==
  ASSUME overwritten = 0, overwritten' = 0,
         TypeOK, PassesSound, CopiesSound, BillsFinal, OneBiller, [Next]_vars
  PROVE  BillsFinal'
<1> USE DEF TypeOK, Statuses, Active, Final, Pcs, Billing, PassesSound, CopiesSound, BillsFinal, OneBiller
<1>1. CASE Outside
  BY <1>1, TaskConstants DEF Outside, Submit, SubmitLost, Charges, Age, Work, Fault, Unfinished
<1>2. ASSUME NEW a \in Actors, Reading(a) PROVE BillsFinal'
  <2>1. CASE SweepRead(a) \/ SweepNone(a)
    BY <2>1 DEF SweepRead, SweepNone, TimedOut, Goto
  <2>2. CASE PollRead(a) \/ PollNone(a) \/ FetchRead(a)
    BY <2>2 DEF PollRead, PollNone, FetchRead, Unfinished, Goto
  <2>3. CASE (\E s \in {remote, "FAILURE"} : Answer(a, s)) \/ NoAnswer(a)
    BY <2>3 DEF Answer, NoAnswer, Leave, Idle
  <2>4. CASE UpdateLoses(a) \/ UpdateError(a)
    BY <2>4 DEF UpdateLoses, UpdateError, Leave, Idle, Fault
  <2> QED
    BY <1>2, <2>1, <2>2, <2>3, <2>4 DEF Reading
<1>3. ASSUME NEW a \in Actors, Writing(a) PROVE BillsFinal'
  <2>1. CASE BulkFail(a)
    BY <2>1 DEF BulkFail, Leave, Idle, Fault
  <2>2. CASE UpdateWins(a)
    BY <2>2 DEF UpdateWins, SubmitTime, AfterWin, Matches, Goto, Leave, Idle
  <2> QED
    BY <1>3, <2>1, <2>2 DEF Writing
<1>4. ASSUME NEW a \in Actors, Bill(a) PROVE BillsFinal'
  <2>1. ASSUME NEW n \in Actuals, Settle(a, n) PROVE BillsFinal'
    BY <2>1, TaskConstants DEF Settle, Leave, Idle
  <2>2. CASE Fund(a) \/ FundError(a)
    BY <2>2 DEF Fund, FundError, Delta, Fault, Goto, Leave, Idle
  <2>3. CASE Token(a)
    BY <2>3 DEF Token, AfterToken, Delta, Fault, Goto
  <2>4. CASE Used(a)
    BY <2>4 DEF Used, AfterUsed, Delta, Goto, Leave, Idle
  <2>5. CASE Save(a)
    BY <2>5 DEF Save, AfterSave, Goto, Leave, Idle
  <2>6. CASE SaveError(a)
    BY <2>6 DEF SaveError, AfterSave, Fault, Goto, Leave, Idle
  <2> QED
    BY <1>4, <2>1, <2>2, <2>3, <2>4, <2>5, <2>6 DEF Bill
<1>5. ASSUME NEW a \in Actors, Crash(a) PROVE BillsFinal'
  BY <1>5 DEF Crash, Fault, Idle
<1>6. CASE UNCHANGED vars
  BY <1>6 DEF vars
<1> QED
  BY <1>1, <1>2, <1>3, <1>4, <1>5, <1>6, NextCases

LEMMA OneBillerNext ==
  ASSUME overwritten = 0, overwritten' = 0,
         TypeOK, PassesSound, CopiesSound, BillsFinal, OneBiller, [Next]_vars
  PROVE  OneBiller'
<1> USE DEF TypeOK, Statuses, Active, Final, Pcs, Billing, PassesSound, CopiesSound, BillsFinal, OneBiller
<1>1. CASE Outside
  BY <1>1, TaskConstants DEF Outside, Submit, SubmitLost, Charges, Age, Work, Fault, Unfinished
<1>2. ASSUME NEW a \in Actors, Reading(a) PROVE OneBiller'
  <2>1. CASE SweepRead(a) \/ SweepNone(a)
    BY <2>1 DEF SweepRead, SweepNone, TimedOut, Goto
  <2>2. CASE PollRead(a) \/ PollNone(a) \/ FetchRead(a)
    BY <2>2 DEF PollRead, PollNone, FetchRead, Unfinished, Goto
  <2>3. CASE (\E s \in {remote, "FAILURE"} : Answer(a, s)) \/ NoAnswer(a)
    BY <2>3 DEF Answer, NoAnswer, Leave, Idle
  <2>4. CASE UpdateLoses(a) \/ UpdateError(a)
    BY <2>4 DEF UpdateLoses, UpdateError, Leave, Idle, Fault
  <2> QED
    BY <1>2, <2>1, <2>2, <2>3, <2>4 DEF Reading
<1>3. ASSUME NEW a \in Actors, Writing(a) PROVE OneBiller'
  <2>1. CASE BulkFail(a)
    BY <2>1 DEF BulkFail, Leave, Idle, Fault
  <2>2. CASE UpdateWins(a)
    BY <2>2 DEF UpdateWins, SubmitTime, AfterWin, Matches, Goto, Leave, Idle
  <2> QED
    BY <1>3, <2>1, <2>2 DEF Writing
<1>4. ASSUME NEW a \in Actors, Bill(a) PROVE OneBiller'
  <2>1. ASSUME NEW n \in Actuals, Settle(a, n) PROVE OneBiller'
    BY <2>1, TaskConstants DEF Settle, Leave, Idle
  <2>2. CASE Fund(a) \/ FundError(a)
    BY <2>2 DEF Fund, FundError, Delta, Fault, Goto, Leave, Idle
  <2>3. CASE Token(a)
    BY <2>3 DEF Token, AfterToken, Delta, Fault, Goto
  <2>4. CASE Used(a)
    BY <2>4 DEF Used, AfterUsed, Delta, Goto, Leave, Idle
  <2>5. CASE Save(a)
    BY <2>5 DEF Save, AfterSave, Goto, Leave, Idle
  <2>6. CASE SaveError(a)
    BY <2>6 DEF SaveError, AfterSave, Fault, Goto, Leave, Idle
  <2> QED
    BY <1>4, <2>1, <2>2, <2>3, <2>4, <2>5, <2>6 DEF Bill
<1>5. ASSUME NEW a \in Actors, Crash(a) PROVE OneBiller'
  BY <1>5 DEF Crash, Fault, Idle
<1>6. CASE UNCHANGED vars
  BY <1>6 DEF vars
<1> QED
  BY <1>1, <1>2, <1>3, <1>4, <1>5, <1>6, NextCases

-----------------------------------------------------------------------------
(* The charge. *)

LEMMA BillsSoundNext ==
  ASSUME overwritten = 0, overwritten' = 0,
         "settle" \notin Faults, TypeOK, PassesSound, CopiesSound, BillsFinal,
         OneBiller, BillsSound, RestSound, NeverPaidOut, [Next]_vars
  PROVE  BillsSound'
<1> USE DEF TypeOK, Statuses, Active, Final, Pcs, Billing,
            PassesSound, CopiesSound, BillsFinal, OneBiller, BillsSound, RestSound, NeverPaidOut
<1>1. CASE Outside
  BY <1>1, TaskConstants DEF Outside, Submit, SubmitLost, Charges, Age, Work, Fault, Unfinished
<1>2. ASSUME NEW a \in Actors, Reading(a) PROVE BillsSound'
  <2>1. CASE SweepRead(a) \/ SweepNone(a)
    BY <2>1 DEF SweepRead, SweepNone, TimedOut, Goto
  <2>2. CASE PollRead(a) \/ PollNone(a) \/ FetchRead(a)
    BY <2>2 DEF PollRead, PollNone, FetchRead, Unfinished, Goto
  <2>3. CASE (\E s \in {remote, "FAILURE"} : Answer(a, s)) \/ NoAnswer(a)
    BY <2>3 DEF Answer, NoAnswer, Leave, Idle
  <2>4. CASE UpdateLoses(a) \/ UpdateError(a)
    BY <2>4 DEF UpdateLoses, UpdateError, Leave, Idle, Fault
  <2> QED
    BY <1>2, <2>1, <2>2, <2>3, <2>4 DEF Reading
<1>3. ASSUME NEW a \in Actors, Writing(a) PROVE BillsSound'
  <2>1. CASE BulkFail(a)
    BY <2>1 DEF BulkFail, Leave, Idle, Fault
  <2>2. CASE UpdateWins(a)
    BY <2>2 DEF UpdateWins, SubmitTime, AfterWin, Matches, Goto, Leave, Idle
  <2> QED
    BY <1>3, <2>1, <2>2 DEF Writing
<1>4. ASSUME NEW a \in Actors, Bill(a) PROVE BillsSound'
  <2>1. ASSUME NEW n \in Actuals, Settle(a, n) PROVE BillsSound'
    BY <2>1, TaskConstants DEF Settle, Leave, Idle
  <2>2. CASE Fund(a) \/ FundError(a)
    BY <2>2 DEF Fund, FundError, Delta, Fault, Goto, Leave, Idle
  <2>3. CASE Token(a)
    BY <2>3 DEF Token, AfterToken, Delta, Fault, Goto
  <2>4. CASE Used(a)
    BY <2>4 DEF Used, AfterUsed, Delta, Goto, Leave, Idle
  <2>5. CASE Save(a)
    BY <2>5 DEF Save, AfterSave, Goto, Leave, Idle
  <2>6. CASE SaveError(a)
    BY <2>6 DEF SaveError, AfterSave, Fault, Goto, Leave, Idle
  <2> QED
    BY <1>4, <2>1, <2>2, <2>3, <2>4, <2>5, <2>6 DEF Bill
<1>5. ASSUME NEW a \in Actors, Crash(a) PROVE BillsSound'
  BY <1>5 DEF Crash, Fault, Idle
<1>6. CASE UNCHANGED vars
  BY <1>6 DEF vars
<1> QED
  BY <1>1, <1>2, <1>3, <1>4, <1>5, <1>6, NextCases

LEMMA RestSoundNext ==
  ASSUME overwritten = 0, overwritten' = 0,
         "settle" \notin Faults, TypeOK, PassesSound, CopiesSound, BillsFinal,
         OneBiller, BillsSound, RestSound, NeverPaidOut, [Next]_vars
  PROVE  RestSound'
<1> USE DEF TypeOK, Statuses, Active, Final, Pcs, Billing,
            PassesSound, CopiesSound, BillsFinal, OneBiller, BillsSound, RestSound, NeverPaidOut
<1>1. CASE Outside
  BY <1>1, TaskConstants DEF Outside, Submit, SubmitLost, Charges, Age, Work, Fault, Unfinished
<1>2. ASSUME NEW a \in Actors, Reading(a) PROVE RestSound'
  <2>1. CASE SweepRead(a) \/ SweepNone(a)
    BY <2>1 DEF SweepRead, SweepNone, TimedOut, Goto
  <2>2. CASE PollRead(a) \/ PollNone(a) \/ FetchRead(a)
    BY <2>2 DEF PollRead, PollNone, FetchRead, Unfinished, Goto
  <2>3. CASE (\E s \in {remote, "FAILURE"} : Answer(a, s)) \/ NoAnswer(a)
    BY <2>3 DEF Answer, NoAnswer, Leave, Idle
  <2>4. CASE UpdateLoses(a) \/ UpdateError(a)
    BY <2>4 DEF UpdateLoses, UpdateError, Leave, Idle, Fault
  <2> QED
    BY <1>2, <2>1, <2>2, <2>3, <2>4 DEF Reading
<1>3. ASSUME NEW a \in Actors, Writing(a) PROVE RestSound'
  <2>1. CASE BulkFail(a)
    BY <2>1 DEF BulkFail, Leave, Idle, Fault
  <2>2. CASE UpdateWins(a)
    BY <2>2 DEF UpdateWins, SubmitTime, AfterWin, Matches, Goto, Leave, Idle
  <2> QED
    BY <1>3, <2>1, <2>2 DEF Writing
<1>4. ASSUME NEW a \in Actors, Bill(a) PROVE RestSound'
  <2>1. ASSUME NEW n \in Actuals, Settle(a, n) PROVE RestSound'
    BY <2>1, TaskConstants DEF Settle, Leave, Idle
  <2>2. CASE Fund(a) \/ FundError(a)
    BY <2>2 DEF Fund, FundError, Delta, Fault, Goto, Leave, Idle
  <2>3. CASE Token(a)
    BY <2>3 DEF Token, AfterToken, Delta, Fault, Goto
  <2>4. CASE Used(a)
    BY <2>4 DEF Used, AfterUsed, Delta, Goto, Leave, Idle
  <2>5. CASE Save(a)
    BY <2>5 DEF Save, AfterSave, Goto, Leave, Idle
  <2>6. CASE SaveError(a)
    BY <2>6 DEF SaveError, AfterSave, Fault, Goto, Leave, Idle
  <2> QED
    BY <1>4, <2>1, <2>2, <2>3, <2>4, <2>5, <2>6 DEF Bill
<1>5. ASSUME NEW a \in Actors, Crash(a) PROVE RestSound'
  BY <1>5 DEF Crash, Fault, Idle
<1>6. CASE UNCHANGED vars
  BY <1>6 DEF vars
<1> QED
  BY <1>1, <1>2, <1>3, <1>4, <1>5, <1>6, NextCases

LEMMA PaidNext ==
  ASSUME overwritten = 0, overwritten' = 0,
         "settle" \notin Faults, TypeOK, PassesSound, CopiesSound, BillsFinal,
         OneBiller, BillsSound, RestSound, NeverPaidOut, [Next]_vars
  PROVE  NeverPaidOut'
<1> USE DEF TypeOK, Statuses, Active, Final, Pcs, Billing,
            PassesSound, CopiesSound, BillsFinal, OneBiller, BillsSound, RestSound, NeverPaidOut
<1>1. CASE Outside
  BY <1>1, TaskConstants DEF Outside, Submit, SubmitLost, Charges, Age, Work, Fault, Unfinished
<1>2. ASSUME NEW a \in Actors, Reading(a) PROVE NeverPaidOut'
  <2>1. CASE SweepRead(a) \/ SweepNone(a)
    BY <2>1 DEF SweepRead, SweepNone, TimedOut, Goto
  <2>2. CASE PollRead(a) \/ PollNone(a) \/ FetchRead(a)
    BY <2>2 DEF PollRead, PollNone, FetchRead, Unfinished, Goto
  <2>3. CASE (\E s \in {remote, "FAILURE"} : Answer(a, s)) \/ NoAnswer(a)
    BY <2>3 DEF Answer, NoAnswer, Leave, Idle
  <2>4. CASE UpdateLoses(a) \/ UpdateError(a)
    BY <2>4 DEF UpdateLoses, UpdateError, Leave, Idle, Fault
  <2> QED
    BY <1>2, <2>1, <2>2, <2>3, <2>4 DEF Reading
<1>3. ASSUME NEW a \in Actors, Writing(a) PROVE NeverPaidOut'
  <2>1. CASE BulkFail(a)
    BY <2>1 DEF BulkFail, Leave, Idle, Fault
  <2>2. CASE UpdateWins(a)
    BY <2>2 DEF UpdateWins, SubmitTime, AfterWin, Matches, Goto, Leave, Idle
  <2> QED
    BY <1>3, <2>1, <2>2 DEF Writing
<1>4. ASSUME NEW a \in Actors, Bill(a) PROVE NeverPaidOut'
  <2>1. ASSUME NEW n \in Actuals, Settle(a, n) PROVE NeverPaidOut'
    BY <2>1, TaskConstants DEF Settle, Leave, Idle
  <2>2. CASE Fund(a) \/ FundError(a)
    BY <2>2 DEF Fund, FundError, Delta, Fault, Goto, Leave, Idle
  <2>3. CASE Token(a)
    BY <2>3 DEF Token, AfterToken, Delta, Fault, Goto
  <2>4. CASE Used(a)
    BY <2>4 DEF Used, AfterUsed, Delta, Goto, Leave, Idle
  <2>5. CASE Save(a)
    BY <2>5 DEF Save, AfterSave, Goto, Leave, Idle
  <2>6. CASE SaveError(a)
    BY <2>6 DEF SaveError, AfterSave, Fault, Goto, Leave, Idle
  <2> QED
    BY <1>4, <2>1, <2>2, <2>3, <2>4, <2>5, <2>6 DEF Bill
<1>5. ASSUME NEW a \in Actors, Crash(a) PROVE NeverPaidOut'
  BY <1>5 DEF Crash, Fault, Idle
<1>6. CASE UNCHANGED vars
  BY <1>6 DEF vars
<1> QED
  BY <1>1, <1>2, <1>3, <1>4, <1>5, <1>6, NextCases

-----------------------------------------------------------------------------
(* Theorems. *)

LEMMA PollInvInit == Init => PollInv
  BY TypeInit DEF Init, Idle, PollInv, WinInv, PassesSound, CopiesSound, BillsFinal, OneBiller,
                  BillsSound, RestSound, NeverPaidOut, Active, Final, Statuses, Billing, Actors

\* What was written over stays written over.
LEMMA OverwrittenGrows ==
  ASSUME TypeOK, [Next]_vars, overwritten' = 0
  PROVE  overwritten = 0
<1> USE DEF TypeOK
<1>1. CASE Outside
  BY <1>1 DEF Outside, Submit, SubmitLost, Age, Work
<1>2. ASSUME NEW a \in Actors, Reading(a) PROVE overwritten = 0
  BY <1>2 DEF Reading, SweepRead, SweepNone, PollRead, PollNone, FetchRead, Answer,
              NoAnswer, UpdateLoses, UpdateError
<1>3. ASSUME NEW a \in Actors, Writing(a) PROVE overwritten = 0
  BY <1>3 DEF Writing, BulkFail, UpdateWins
<1>4. ASSUME NEW a \in Actors, Bill(a) PROVE overwritten = 0
  BY <1>4 DEF Bill, Settle, Fund, FundError, Token, Used, Save, SaveError
<1>5. ASSUME NEW a \in Actors, Crash(a) PROVE overwritten = 0
  BY <1>5 DEF Crash
<1>6. CASE UNCHANGED vars
  BY <1>6 DEF vars
<1> QED
  BY <1>1, <1>2, <1>3, <1>4, <1>5, <1>6, NextCases

LEMMA WinInvNext ==
  ASSUME WinInv, [Next]_vars
  PROVE  WinInv'
<1>1. TypeOK' /\ PassesSound'
  BY TypeNext, PassesNext DEF WinInv
<1>2. CASE overwritten' = 0
  <2>1. overwritten = 0
    BY <1>2, OverwrittenGrows DEF WinInv
  <2>2. CopiesSound' /\ BillsFinal' /\ OneBiller'
    BY <1>2, <2>1, CopiesNext, BillsFinalNext, OneBillerNext DEF WinInv
  <2> QED
    BY <1>1, <2>2 DEF WinInv
<1>3. CASE overwritten' # 0
  BY <1>1, <1>3 DEF WinInv, OneBiller
<1> QED
  BY <1>2, <1>3

LEMMA WinInvariant == Spec => []WinInv
<1>1. Init => WinInv
  BY PollInvInit DEF PollInv
<1>2. WinInv /\ [Next]_vars => WinInv'
  BY WinInvNext
<1> QED
  BY <1>1, <1>2, PTL DEF Spec

LEMMA PollInvNext ==
  ASSUME "settle" \notin Faults, PollInv, [Next]_vars
  PROVE  PollInv'
<1>1. WinInv'
  BY WinInvNext DEF PollInv
<1>2. CASE overwritten' = 0
  <2>1. overwritten = 0
    BY <1>2, OverwrittenGrows DEF PollInv, WinInv
  <2>2. BillsSound' /\ RestSound' /\ NeverPaidOut'
    BY <1>2, <2>1, BillsSoundNext, RestSoundNext, PaidNext DEF PollInv, WinInv
  <2> QED
    BY <1>1, <2>2 DEF PollInv
<1>3. CASE overwritten' # 0
  BY <1>1, <1>3 DEF PollInv, NeverPaidOut
<1> QED
  BY <1>2, <1>3

LEMMA PollInvariant ==
  ASSUME "settle" \notin Faults
  PROVE  Spec => []PollInv
<1>1. PollInv /\ [Next]_vars => PollInv'
  BY PollInvNext
<1> QED
  BY PollInvInit, <1>1, PTL DEF Spec

\* A task is billed by the one actor that won its final status, for any number
\* of overlapping passes and status queries, until a status query writes over
\* the finished task.
THEOREM BilledByOne == Spec => []OneBiller
<1>1. WinInv => OneBiller
  BY DEF WinInv
<1> QED
  BY WinInvariant, <1>1, PTL

\* The program never pays back more than it took for a task that no status
\* query has written over, if submissions settle.
THEOREM NothingPaidOut ==
  ASSUME "settle" \notin Faults
  PROVE  Spec => []NeverPaidOut
<1>1. PollInv => NeverPaidOut
  BY DEF PollInv
<1> QED
  BY PollInvariant, <1>1, PTL

\* The quota of the row is the amount the user paid, except inside a bill, after
\* a failure the program can only log, or once a status query wrote over the
\* finished task.
THEOREM ChargeReadable ==
  ASSUME "settle" \notin Faults
  PROVE  Spec => []RowTellsCharge
<1>1. PollInv => RowTellsCharge
  <2> SUFFICES ASSUME PollInv, legacy = "no", row.quota # paid.fund, torn # "yes",
                      ~(overwritten > 0),
                      \A a \in Actors : job[a].pc \notin {"token", "used", "save"}
               PROVE  FALSE
    BY DEF RowTellsCharge
  <2>1. torn = "no" /\ overwritten = 0
    BY DEF PollInv, WinInv, TypeOK
  <2>2. PICK a \in Actors : job[a].pc \in {"settle", "fund"}
    BY <2>1 DEF PollInv, RestSound, Billing
  <2> QED
    BY <2>1, <2>2 DEF PollInv, BillsSound
<1> QED
  BY PollInvariant, <1>1, PTL

\* The writers that may change a finished task's status.
MayReopen ==
    row.status \in Final /\ row'.status # row.status =>
        \E a \in Actors : /\ job'[a] # job[a]
                          /\ \/ job[a].phase = "fetch"
                             \/ job[a].pc = "ask" /\ row'.status = "FAILURE"

LEMMA FinalNext ==
  ASSUME TypeOK, PassesSound, [Next]_vars
  PROVE  MayReopen
<1> SUFFICES ASSUME row.status \in Final, row'.status # row.status
             PROVE  \E a \in Actors : /\ job'[a] # job[a]
                                      /\ \/ job[a].phase = "fetch"
                                         \/ job[a].pc = "ask" /\ row'.status = "FAILURE"
  BY DEF MayReopen
<1> USE DEF TypeOK, Final, Active
<1>1. CASE Outside
  BY <1>1 DEF Outside, Submit, SubmitLost, Age, Work
<1>2. ASSUME NEW a \in Actors, Reading(a) PROVE FALSE
  BY <1>2 DEF Reading, SweepRead, SweepNone, PollRead, PollNone, FetchRead, Answer,
              NoAnswer, UpdateLoses, UpdateError
<1>3. ASSUME NEW a \in Actors, BulkFail(a)
      PROVE  job'[a] # job[a] /\ job[a].pc = "ask" /\ row'.status = "FAILURE"
  BY <1>3 DEF BulkFail, Leave, Idle
<1>4. ASSUME NEW a \in Actors, UpdateWins(a) PROVE job'[a] # job[a] /\ job[a].phase = "fetch"
  <2>1. job[a].phase = "fetch"
    BY <1>4 DEF UpdateWins, Matches, PassesSound
  <2>2. job[a].pc = "cas" /\ job'[a].pc # "cas"
    BY <1>4 DEF UpdateWins, AfterWin, Goto, Leave, Idle
  <2> QED
    BY <2>1, <2>2
<1>5. ASSUME NEW a \in Actors, Bill(a) PROVE FALSE
  BY <1>5 DEF Bill, Settle, Fund, FundError, Token, Used, Save, SaveError
<1>6. ASSUME NEW a \in Actors, Crash(a) PROVE FALSE
  BY <1>6 DEF Crash
<1>7. CASE UNCHANGED vars
  BY <1>7 DEF vars
<1> QED
  BY <1>1, <1>2, <1>3, <1>4, <1>5, <1>6, <1>7, NextCases DEF Writing

\* No pass, sweep or bill changes the status of a finished task, for any number
\* of them and although status queries may bring finished tasks back.
THEOREM FinishedForPasses == Spec => PassesKeepFinal
<1>1. WinInv /\ [Next]_vars => [MayReopen]_vars
  BY FinalNext DEF WinInv
<1> QED
  BY WinInvariant, <1>1, PTL DEF Spec, PassesKeepFinal, MayReopen
=============================================================================
