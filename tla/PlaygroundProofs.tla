-------------------------- MODULE PlaygroundProofs --------------------------
(***************************************************************************)
(* Proofs about Playground, for every number of requests and uses and      *)
(* every script.                                                           *)
(*                                                                         *)
(* RunUpdaters is a fold, which a recursive function over sets of          *)
(* positions defines: its one step, RunAppend, is proved from the least    *)
(* queue without a run.  All else speaks of the conversation after the     *)
(* queue (View), of the same if the generation ended first (Base), and of  *)
(* the request that is running.                                            *)
(***************************************************************************)
EXTENDS Playground, SetSums, SequenceTheorems

-----------------------------------------------------------------------------
(* Running a queue of updaters *)

\* h[s] is what the updaters at the positions s make of ms.
IsRun(h, us, ms, g, S) ==
    h = [s \in SUBSET S |-> IF s = {} THEN ms ELSE RunUpdater(us[Max(s)], h[s \ {Max(s)}], g)]

\* Queues that agree on A, runs that agree on the subsets of A and B, and a
\* subset without its maximum.
Agree(us, vs, A) == \A i \in A : us[i] = vs[i]
RunsAgree(h, k, A, B) == \A s : s \subseteq A /\ s \subseteq B => h[s] = k[s]
MaxLeaves(B, A) == \A s : s \subseteq B /\ s # {} => s \ {Max(s)} \subseteq A

\* The run over S.
TheRun(us, ms, g, S) == CHOOSE h : IsRun(h, us, ms, g, S)

\* A finite, non-empty set of integers has the maximum that Max chooses.
LEMMA MaxIn ==
  ASSUME NEW s, IsFiniteSet(s), s \subseteq Int, s # {}
  PROVE  Max(s) \in s /\ \A y \in s : Max(s) >= y
<1> DEFINE up(x) == {y \in s : y >= x}
           T == {up(x) : x \in s}
<1>1. T \subseteq SUBSET s
  OBVIOUS
<1>2. T # {}
  OBVIOUS
<1>3. PICK m \in T : \A t \in T : t \subseteq m => t = m
  <2> HIDE DEF T
  <2> QED BY ONLY IsFiniteSet(s), <1>1, <1>2, MinimalSubset, SMT
<1>4. PICK x \in s : m = up(x)
  OBVIOUS
<1>5. ASSUME NEW y \in s PROVE x >= y
  <2>1. SUFFICES ASSUME y > x PROVE FALSE
    OBVIOUS
  <2>2. up(y) \subseteq up(x) /\ x \in up(x) /\ x \notin up(y)
    <3>1. x \in Int /\ y \in Int /\ x >= x /\ ~ (x >= y)
      BY <2>1
    <3>2. \A z \in s : z >= y => z >= x
      BY <2>1
    <3> QED BY ONLY <3>1, <3>2, x \in s, Zenon DEF up
  <2>5. up(y) \in T
    OBVIOUS
  <2>3. up(y) = up(x)
    <3> HIDE DEF T, up
    <3> QED BY <1>3, <1>4, <2>2, <2>5, Zenon
  <2> QED BY <2>2, <2>3, Zenon
<1> QED BY <1>5 DEF Max

\* Two runs of the same updaters agree.
LEMMA RunUnique ==
  ASSUME NEW A, IsFiniteSet(A), A \subseteq Int, NEW B, NEW us, NEW vs, NEW ms, NEW g,
         NEW h, NEW k, Agree(us, vs, A),
         IsRun(h, us, ms, g, A), IsRun(k, vs, ms, g, B)
  PROVE  RunsAgree(h, k, A, B)
<1> DEFINE Bad == {s \in SUBSET A : s \subseteq B /\ h[s] # k[s]}
<1>1. SUFFICES ASSUME Bad # {} PROVE FALSE
  BY Zenon DEF Bad, RunsAgree
<1>2. PICK m \in Bad : \A t \in Bad : t \subseteq m => t = m
  <2>1. Bad \subseteq SUBSET A
    OBVIOUS
  <2> HIDE DEF Bad
  <2> QED BY ONLY IsFiniteSet(A), <1>1, <2>1, MinimalSubset, SMT
<1>3. m \in SUBSET A /\ m \in SUBSET B /\ h[m] # k[m]
  BY Zenon
<1> HIDE DEF Bad
<1>a. h[m] = IF m = {} THEN ms ELSE RunUpdater(us[Max(m)], h[m \ {Max(m)}], g)
  BY <1>3, Zenon DEF IsRun
<1>b. k[m] = IF m = {} THEN ms ELSE RunUpdater(vs[Max(m)], k[m \ {Max(m)}], g)
  BY <1>3, Zenon DEF IsRun
<1>4. m # {}
  BY <1>3, <1>a, <1>b, Zenon
<1>5. h[m] = RunUpdater(us[Max(m)], h[m \ {Max(m)}], g)
  BY <1>4, <1>a, Zenon
<1>6. k[m] = RunUpdater(vs[Max(m)], k[m \ {Max(m)}], g)
  BY <1>4, <1>b, Zenon
<1>7. IsFiniteSet(m) /\ m \subseteq Int
  BY <1>3, FS_Subset
<1>8. Max(m) \in m
  BY ONLY <1>7, <1>4, MaxIn, Zenon
<1>9. us[Max(m)] = vs[Max(m)]
  BY <1>3, <1>8, Zenon DEF Agree
<1>10. m \ {Max(m)} \notin Bad
  BY <1>2, <1>8
<1>11. h[m \ {Max(m)}] = k[m \ {Max(m)}]
  BY <1>3, <1>10, Zenon DEF Bad
<1> QED BY <1>3, <1>5, <1>6, <1>9, <1>11, Zenon

\* The maximum of a part of a finite set of integers.
LEMMA PartMax ==
  ASSUME NEW A, IsFiniteSet(A), A \subseteq Int, NEW s, s \subseteq A, s # {}
  PROVE  Max(s) \in s /\ \A y \in s : Max(s) >= y
<1>1. IsFiniteSet(s) /\ s \subseteq Int
  BY FS_Subset
<1> QED BY <1>1, MaxIn

\* Without its largest number, a part of 1..(n + 1) is a part of 1..n.
LEMMA RestOfInterval ==
  ASSUME NEW n \in Nat, NEW s, s \subseteq 1..(n + 1), s # {}
  PROVE  s \ {Max(s)} \subseteq 1..n
<1> DEFINE A == 1..(n + 1)
<1>1. IsFiniteSet(A)
  BY FS_Interval
<1>2. A \subseteq Int
  OBVIOUS
<1>3. s \subseteq A
  OBVIOUS
<1>4. Max(s) \in s /\ \A y \in s : Max(s) >= y
  <2> HIDE DEF A
  <2> QED BY ONLY <1>1, <1>2, <1>3, s # {}, PartMax, Zenon
<1>5. ASSUME NEW y \in s, y # Max(s) PROVE y \in 1..n
  <2>1. Max(s) \in 1..(n + 1) /\ y \in 1..(n + 1) /\ Max(s) >= y
    BY <1>4, Zenon
  <2> QED BY ONLY <2>1, <1>5, n \in Nat
<1> QED BY <1>5, Zenon

\* A run of the updaters at A can be extended to B if taking the largest
\* position out of a part of B leaves a part of A.
LEMMA RunLonger ==
  ASSUME NEW A, NEW B, A \subseteq B, MaxLeaves(B, A),
         NEW us, NEW ms, NEW g, NEW h, IsRun(h, us, ms, g, A)
  PROVE  \E k : IsRun(k, us, ms, g, B)
<1> DEFINE rest(s) == s \ {Max(s)}
           K == [s \in SUBSET B |-> IF s = {} THEN ms ELSE RunUpdater(us[Max(s)], h[rest(s)], g)]
<1>2. ASSUME NEW s \in SUBSET A PROVE K[s] = h[s]
  <2>1. s \in SUBSET B
    BY Zenon
  <2>2. K[s] = IF s = {} THEN ms ELSE RunUpdater(us[Max(s)], h[rest(s)], g)
    BY <2>1, Zenon
  <2>3. h[s] = IF s = {} THEN ms ELSE RunUpdater(us[Max(s)], h[rest(s)], g)
    <3> HIDE DEF K
    <3> QED BY Zenon DEF IsRun
  <2> QED BY <2>2, <2>3, Zenon
<1>3. ASSUME NEW s \in SUBSET B
      PROVE  K[s] = IF s = {} THEN ms ELSE RunUpdater(us[Max(s)], K[rest(s)], g)
  <2>1. K[s] = IF s = {} THEN ms ELSE RunUpdater(us[Max(s)], h[rest(s)], g)
    BY Zenon
  <2>2. s # {} => rest(s) \in SUBSET A
    BY Zenon DEF MaxLeaves
  <2>3. s # {} => K[rest(s)] = h[rest(s)]
    <3> HIDE DEF K, rest
    <3> QED BY <2>2, <1>2, Zenon
  <2> QED BY <2>1, <2>3, Zenon
<1>4. IsRun(K, us, ms, g, B)
  <2>1. K = [s \in SUBSET B |-> K[s]]
    OBVIOUS
  <2> HIDE DEF K
  <2> QED BY <2>1, <1>3, Zenon DEF IsRun
<1> QED BY <1>4, Zenon

\* The runs over the positions 1..n exist, for every n: the least n without one is reached from n - 1.
LEMMA RunExists ==
  ASSUME NEW us, NEW ms, NEW g
  PROVE  \A n \in Nat : \E h : IsRun(h, us, ms, g, 1..n)
<1> DEFINE P(n) == \E h : IsRun(h, us, ms, g, 1..n)
<1>1. P(0)
  <2> DEFINE h == [s \in SUBSET (1..0) |-> ms]
  <2>1. 1..0 = {}
    OBVIOUS
  <2>2. ASSUME NEW s \in SUBSET (1..0) PROVE h[s] = IF s = {} THEN ms ELSE RunUpdater(us[Max(s)], h[s \ {Max(s)}], g)
    <3>1. s = {}
      BY <2>1
    <3> QED BY <3>1, Zenon
  <2>3. h = [s \in SUBSET (1..0) |-> h[s]]
    OBVIOUS
  <2> HIDE DEF h
  <2>4. IsRun(h, us, ms, g, 1..0)
    BY <2>2, <2>3, Zenon DEF IsRun
  <2> QED BY <2>4, Zenon
<1>2. ASSUME NEW n \in Nat, P(n) PROVE P(n + 1)
  <2>1. PICK h : IsRun(h, us, ms, g, 1..n)
    BY <1>2, Zenon
  <2>2. 1..n \subseteq 1..(n + 1)
    OBVIOUS
  <2>3. MaxLeaves(1..(n + 1), 1..n)
    BY RestOfInterval, Zenon DEF MaxLeaves
  <2>4. \E k : IsRun(k, us, ms, g, 1..(n + 1))
    <3> DEFINE A == 1..n  B == 1..(n + 1)
    <3>1. A \subseteq B /\ MaxLeaves(B, A) /\ IsRun(h, us, ms, g, A)
      BY <2>1, <2>2, <2>3
    <3> HIDE DEF A, B
    <3>2. \E k : IsRun(k, us, ms, g, B)
      BY ONLY <3>1, RunLonger, SMT
    <3> QED BY <3>2 DEF B
  <2> QED BY <2>4
<1> HIDE DEF P
<1>3. ASSUME NEW N \in Nat, ~P(N) PROVE FALSE
  <2> DEFINE T == {1..n : n \in {k \in 0..N : ~P(k)}}
  <2>1. T \subseteq SUBSET (1..N)
    OBVIOUS
  <2>2. T # {}
    BY <1>3
  <2>3. IsFiniteSet(1..N)
    BY FS_Interval
  <2>4. PICK m \in T : \A t \in T : t \subseteq m => t = m
    <3> DEFINE S == 1..N
    <3> HIDE DEF T, S
    <3>1. T \subseteq SUBSET S
      BY <2>1 DEF S
    <3>2. IsFiniteSet(S)
      BY <2>3 DEF S
    <3> QED BY ONLY <3>1, <3>2, <2>2, MinimalSubset, SMT
  <2>5. PICK n \in 0..N : ~P(n) /\ m = 1..n
    OBVIOUS
  <2>6. n # 0
    BY <1>1, <2>5
  <2>7. n - 1 \in Nat /\ (n - 1) + 1 = n /\ n - 1 \in 0..N
    BY <2>6
  <2>8. ~P(n - 1)
    BY <1>2, <2>5, <2>7
  <2>9. 1..(n - 1) \in T
    BY <2>7, <2>8
  <2>10. 1..(n - 1) \subseteq 1..n
    BY <2>7
  <2>11. 1..(n - 1) = 1..n
    <3> HIDE DEF T
    <3> QED BY <2>4, <2>5, <2>9, <2>10, Zenon
  <2>12. n \in 1..n /\ n \notin 1..(n - 1)
    BY <2>7
  <2> QED BY <2>11, <2>12, Zenon
<1>4. \A n \in Nat : P(n)
  BY <1>3
<1> QED BY <1>4 DEF P

\* The chosen run unfolds at the last position.
LEMMA RunUnfold ==
  ASSUME NEW us, NEW ms, NEW g
  PROVE  RunUpdaters(us, ms, g) = TheRun(us, ms, g, DOMAIN us)[DOMAIN us]
BY Zenon DEF RunUpdaters, FoldLeft, MapThenFoldSet, TheRun, IsRun

\* No updater leaves the conversation alone; one more is run last.
LEMMA RunEmpty ==
  ASSUME NEW ms, NEW g
  PROVE  RunUpdaters(<<>>, ms, g) = ms
<1>1. DOMAIN <<>> = {} /\ 1..0 = {}
  OBVIOUS
<1>2. \E h : IsRun(h, <<>>, ms, g, {})
  BY <1>1, RunExists
<1>3. IsRun(TheRun(<<>>, ms, g, {}), <<>>, ms, g, {})
  BY <1>2, Zenon DEF TheRun
<1>5. TheRun(<<>>, ms, g, {})[{}] = ms
  BY <1>3, Zenon DEF IsRun
<1> QED BY <1>1, <1>5, RunUnfold, Zenon

\* Running one more updater at the end.
LEMMA RunStep ==
  ASSUME NEW us, NEW vs, NEW ms, NEW g, NEW n \in Nat,
         DOMAIN us = 1..n, DOMAIN vs = 1..(n + 1), \A i \in 1..n : us[i] = vs[i]
  PROVE  RunUpdaters(vs, ms, g) = RunUpdater(vs[n + 1], RunUpdaters(us, ms, g), g)
<1> DEFINE h == TheRun(us, ms, g, 1..n)  k == TheRun(vs, ms, g, 1..(n + 1))
           u == vs[n + 1]
<1>1. /\ n \in Nat /\ n + 1 \in Nat
      /\ DOMAIN us = 1..n /\ DOMAIN vs = 1..(n + 1)
      /\ \A i \in 1..n : us[i] = vs[i]
      /\ vs[n + 1] = u
  OBVIOUS
<1>2. IsRun(h, us, ms, g, 1..n) /\ IsRun(k, vs, ms, g, 1..(n + 1))
  <2>1. (\E x : IsRun(x, us, ms, g, 1..n)) /\ (\E x : IsRun(x, vs, ms, g, 1..(n + 1)))
    BY <1>1, RunExists, Zenon
  <2> QED BY <2>1, Zenon DEF TheRun
<1> HIDE DEF h, k
<1> DEFINE A == 1..n  S == 1..(n + 1)
<1>3. IsFiniteSet(A)
  BY <1>1, FS_Interval
<1>4. A \subseteq Int /\ A \subseteq S /\ Agree(us, vs, A)
  BY <1>1 DEF Agree
<1>5. Max(S) = n + 1 /\ S \ {Max(S)} = A /\ S # {}
  <2>a. n + 1 \in S /\ n + 1 \notin A
    BY <1>1
  <2>b. \A i \in S : i # n + 1 => i \in A
    BY <1>1
  <2>1. S # {} /\ n + 1 \in S /\ n + 1 \notin A /\ S \subseteq A \cup {n + 1}
    BY ONLY <2>a, <2>b, Zenon
  <2>2. S \ {Max(S)} \subseteq A
    BY ONLY <1>1, <2>1, RestOfInterval, Zenon
  <2>3. Max(S) = n + 1
    BY <2>1, <2>2, Zenon
  <2> HIDE DEF A, S
  <2> QED BY <1>4, <2>1, <2>3
<1> HIDE DEF A, S
<1>8. k[S] = RunUpdater(u, k[A], g)
  <2>1. IsRun(k, vs, ms, g, S)
    BY <1>2 DEF S
  <2>2. k[S] = IF S = {} THEN ms ELSE RunUpdater(vs[Max(S)], k[S \ {Max(S)}], g)
    BY ONLY <2>1, Zenon DEF IsRun
  <2> QED BY ONLY <1>1, <1>5, <2>2, Zenon
<1>9. h[A] = k[A]
  <2>2. IsRun(h, us, ms, g, A) /\ IsRun(k, vs, ms, g, S)
    BY <1>2 DEF A, S
  <2>3. RunsAgree(h, k, A, S)
    <3>1. IsFiniteSet(A) /\ A \subseteq Int /\ Agree(us, vs, A)
      BY ONLY <1>3, <1>4
    <3> QED BY ONLY <3>1, <2>2, RunUnique, Zenon
  <2> QED BY ONLY <1>4, <2>3, Zenon DEF RunsAgree
<1>6. RunUpdaters(us, ms, g) = h[A]
  BY <1>1, RunUnfold, Zenon DEF h, A
<1>7. RunUpdaters(vs, ms, g) = k[S]
  BY <1>1, RunUnfold, Zenon DEF k, S
<1> QED BY <1>8, <1>9, <1>6, <1>7, Zenon

\* RunUpdaters of an extended queue: the new updater runs on what the queue makes.
LEMMA RunAppend ==
  ASSUME NEW U, NEW us \in Seq(U), NEW u \in U, NEW ms, NEW g
  PROVE  RunUpdaters(Append(us, u), ms, g) = RunUpdater(u, RunUpdaters(us, ms, g), g)
<1> DEFINE n == Len(us)  vs == Append(us, u)
<1>1. /\ n \in Nat /\ DOMAIN us = 1..n /\ DOMAIN vs = 1..(n + 1)
      /\ \A i \in 1..n : us[i] = vs[i]
      /\ vs[n + 1] = u
  OBVIOUS
<1> HIDE DEF n, vs
<1>2. RunUpdaters(vs, ms, g) = RunUpdater(vs[n + 1], RunUpdaters(us, ms, g), g)
  BY <1>1, RunStep
<1> QED BY <1>1, <1>2, Zenon DEF vs

-----------------------------------------------------------------------------
(* The conversation as the next render will show it, and as it would be if the
   generation ended first. *)

View == RunUpdaters(queue, messages, gen)
Base == RunUpdaters(queue, messages, gen + 1)

\* The current request is still to be answered.
Running == (ctl # 0 /\ req[ctl].phase # "over") \/ abort # 0

-----------------------------------------------------------------------------
(* Control *)

\* A request as the handler knows it.
ReqType == [gen : Nat \ {0}, phase : {"headers", "open", "silent", "waiting", "over"}, sent : 0..Len(Script)]

\* Only the latest request of the current generation has the controller, the
\* stream or the AbortController, and while it runs the stop button is shown.
HandlerSound ==
    /\ req \in Seq(ReqType)
    /\ pend.gen = gen
    /\ ctl # 0 => ctl = Len(req) /\ req[ctl].gen = gen
    /\ ctl # 0 => req[ctl].phase \in {"headers", "open", "silent", "over"}
    /\ source # 0 => ctl = source /\ req[source].phase \in {"open", "silent"}
    /\ ctl # 0 /\ req[ctl].phase \in {"open", "silent"} => source = ctl
    /\ abort # 0 => abort = Len(req) /\ req[abort].gen = gen /\ req[abort].phase = "waiting" /\ ctl = 0
    /\ Running => requesting
    /\ requesting => shown
    /\ timer # 0 => source # 0
    /\ pend.text # <<>> => timer # 0
    /\ queue # <<>> => shown

\* A generation is begun by a request, a stop or leaving the page, and there is
\* at most one stop for every request.
GensBounded == gen + (IF shown THEN 1 ELSE 0) <= 2 * Len(req) + uses

\* What may be queued.
UpdaterKinds == {"flush", "done", "stop", "error", "answer"}
Updaters ==
    [kind : UpdaterKinds, gen : Nat, req : Asked, text : Texts]
      \cup [kind : {"set"}, msgs : Seq(Messages)]

-----------------------------------------------------------------------------
(* Text *)

\* text is of request r: letters of Script at growing positions after lo up to hi.
Ordered(text, r, lo, hi) ==
    \E at \in [DOMAIN text -> (lo + 1)..hi] :
        /\ \A j \in DOMAIN text : text[j] = [req |-> r, letter |-> Script[at[j]]]
        /\ \A j, k \in DOMAIN text : j < k => at[j] < at[k]

\* The text of m is of its own request.
OwnMessage(m) == Ordered(m.text, m.key.id, 0, Len(Script))

\* A conversation in which n requests were made.
Fine(ms, n) ==
    /\ ms \in Seq(Messages)
    /\ \A i \in DOMAIN ms : OwnMessage(ms[i]) /\ ms[i].key.id <= n
    /\ \A i, j \in DOMAIN ms : ms[i].key = ms[j].key => i = j
    /\ \A i \in DOMAIN ms : IsPending(ms[i]) => i = Len(ms) /\ ms[i].key.from = "assistant"

\* b is what a becomes without a new request: finished answers stay.
Later(a, b) ==
    /\ Len(a) = Len(b)
    /\ \A i \in DOMAIN a : a[i].key = b[i].key /\ (IsFinal(a[i]) => b[i] = a[i])

-----------------------------------------------------------------------------
(* Types of the operators *)

\* The assumptions on the constants, in the form the proofs use.
LEMMA Constants ==
  /\ MaxRequests \in Nat /\ MaxUses \in Nat /\ 0 \in Asked
  /\ Script \in Seq(STRING) /\ Len(Script) \in Nat \ {0} /\ DOMAIN Script = 1..Len(Script)
BY PlaygroundAssumption, EmptySeq DEF Asked

\* A delta is a text, letter by letter.
LEMMA DeltaType ==
  ASSUME NEW r \in Asked, NEW lo \in Nat, NEW hi \in lo..Len(Script)
  PROVE  /\ Delta(r, lo, hi) \in Texts /\ Len(Delta(r, lo, hi)) = hi - lo
         /\ \A i \in 1..(hi - lo) : Delta(r, lo, hi)[i] = [req |-> r, letter |-> Script[lo + i]]
         /\ lo < hi => Delta(r, lo, hi) # <<>>
<1> DEFINE n == hi - lo  d == Delta(r, lo, hi)
<1>0. n \in Nat /\ Len(Script) \in Nat /\ hi \in Nat /\ (lo < hi => n # 0)
  BY Constants
<1>1. ASSUME NEW i \in 1..n PROVE [req |-> r, letter |-> Script[lo + i]] \in Letters
  <2>1. lo + i \in DOMAIN Script
    BY <1>0, Constants
  <2> QED BY <2>1 DEF Letters, Range
<1>2. d \in [1..n -> Letters] /\ \A i \in 1..n : d[i] = [req |-> r, letter |-> Script[lo + i]]
  BY <1>1, Zenon DEF Delta
<1> HIDE DEF d, n
<1>3. d \in Seq(Letters) /\ Len(d) = n
  BY <1>0, <1>2
<1>4. lo < hi => d # <<>>
  BY <1>0, <1>3
<1> QED BY <1>2, <1>3, <1>4 DEF d, n, Texts

\* A whole answer is a text.
LEMMA FullTextType ==
  ASSUME NEW r \in Asked
  PROVE  FullText(r) \in Texts /\ Len(FullText(r)) = Len(Script)
<1>1. Len(Script) \in Nat /\ Len(Script) \in 0..Len(Script) /\ Len(Script) - 0 = Len(Script)
  BY Constants
<1> QED BY <1>1, DeltaType DEF FullText

\* A merged chunk is a text.
LEMMA MergeType ==
  ASSUME NEW a \in Texts, NEW b \in Texts
  PROVE  MergeChunk(a, b) \in Texts /\ (b # <<>> => MergeChunk(a, b) # <<>>)
BY DEF MergeChunk, Texts

PlainUpdaters == [kind : UpdaterKinds, gen : Nat, req : Asked, text : Texts]

\* The updaters made by Updater are plain ones.
LEMMA UpdaterPlain ==
  ASSUME NEW k \in UpdaterKinds, NEW g \in Nat, NEW r \in Asked, NEW t \in Texts
  PROVE  /\ Updater(k, g, r, t) \in PlainUpdaters /\ Updater(k, g, r, t) \in Updaters
         /\ Updater(k, g, r, t).kind = k /\ Updater(k, g, r, t).gen = g
         /\ Updater(k, g, r, t).req = r /\ Updater(k, g, r, t).text = t
BY DEF Updater, PlainUpdaters, Updaters

\* A replacement of the conversation is an updater.
LEMMA SetUpdater ==
  ASSUME NEW ms \in Seq(Messages)
  PROVE  SetMessages(ms) \in Updaters /\ SetMessages(ms).kind = "set" /\ SetMessages(ms).msgs = ms
BY DEF SetMessages, Updaters

\* Every plain updater leaves a message with its key.
LEMMA UpdateMessageType ==
  ASSUME NEW u \in PlainUpdaters, NEW m \in Messages
  PROVE  UpdateMessage(u, m) \in Messages /\ UpdateMessage(u, m).key = m.key
<1>1. m.key \in Keys /\ m.status \in Statuses /\ m.text \in Texts /\ u.text \in Texts /\ u.req \in Asked
  BY DEF Messages, PlainUpdaters
<1>2. MergeChunk(m.text, u.text) \in Texts /\ FullText(u.req) \in Texts /\ <<>> \in Texts
  BY <1>1, MergeType, FullTextType DEF Texts
<1>3. CASE u.kind = "flush"
  BY <1>1, <1>2, <1>3 DEF UpdateMessage, Messages, Statuses
<1>4. CASE u.kind = "done"
  BY <1>1, <1>2, <1>4 DEF UpdateMessage, Messages, Statuses
<1>5. CASE u.kind = "stop"
  BY <1>1, <1>2, <1>5 DEF UpdateMessage, Messages, Statuses
<1>6. CASE u.kind = "error"
  BY <1>1, <1>2, <1>6 DEF UpdateMessage, Messages, Statuses
<1>7. CASE u.kind = "answer"
  BY <1>1, <1>2, <1>7 DEF UpdateMessage, Messages, Statuses
<1> QED BY <1>3, <1>4, <1>5, <1>6, <1>7 DEF PlainUpdaters, UpdaterKinds

\* Updating the last answer leaves a conversation.
LEMMA UpdateLastType ==
  ASSUME NEW u \in PlainUpdaters, NEW ms \in Seq(Messages)
  PROVE  UpdateLast(u, ms) \in Seq(Messages)
<1>1. CASE ms = <<>> \/ Last(ms).key.from = "user"
  BY <1>1 DEF UpdateLast
<1>2. CASE ~ (ms = <<>> \/ Last(ms).key.from = "user")
  <2>1. ms[Len(ms)] \in Messages
    BY <1>2
  <2>2. UpdateMessage(u, ms[Len(ms)]) \in Messages
    BY <2>1, UpdateMessageType
  <2> HIDE DEF UpdateMessage
  <2> QED BY <1>2, <2>2 DEF UpdateLast
<1> QED BY <1>1, <1>2

\* What an updater does: a "set" replaces, one of another generation nothing,
\* any other updates the last answer.
LEMMA RunSet ==
  ASSUME NEW a, NEW ms, NEW g
  PROVE  RunUpdater(SetMessages(a), ms, g) = a
BY DEF RunUpdater, SetMessages

\* A plain updater acts only in its own generation.
LEMMA RunPlain ==
  ASSUME NEW u \in PlainUpdaters, NEW ms, NEW g
  PROVE  RunUpdater(u, ms, g) = IF u.gen # g THEN ms ELSE UpdateLast(u, ms)
<1>1. u.kind # "set" /\ u.kind # "delete"
  BY DEF PlainUpdaters, UpdaterKinds
<1> QED BY <1>1 DEF RunUpdater

\* Every updater leaves a conversation.
LEMMA RunType ==
  ASSUME NEW u \in Updaters, NEW ms \in Seq(Messages), NEW g
  PROVE  RunUpdater(u, ms, g) \in Seq(Messages)
<1>1. CASE u \in PlainUpdaters
  BY <1>1, RunPlain, UpdateLastType
<1>2. CASE u \in [kind : {"set"}, msgs : Seq(Messages)]
  BY <1>2 DEF RunUpdater
<1> QED BY <1>1, <1>2 DEF Updaters, PlainUpdaters

\* A deletion leaves a conversation.
LEMMA WithoutType ==
  ASSUME NEW ms \in Seq(Messages), NEW k
  PROVE  Without(ms, k) \in Seq(Messages)
<1>1. CASE \E i \in DOMAIN ms : ms[i].key = k
  <2> DEFINE p == Position(ms, k)
  <2>1. p \in DOMAIN ms
    BY <1>1 DEF Position
  <2> HIDE DEF p
  <2>2. RemoveAt(ms, p) \in Seq(Messages)
    BY <2>1 DEF RemoveAt
  <2> QED BY <1>1, <2>2 DEF Without, p
<1>2. CASE ~ \E i \in DOMAIN ms : ms[i].key = k
  BY <1>2 DEF Without
<1> QED BY <1>1, <1>2

\* A queued deletion runs as Without.
LEMMA RunDelete ==
  ASSUME NEW k, NEW ms, NEW g
  PROVE  RunUpdater(DeleteMessage(k), ms, g) = Without(ms, k)
BY DEF RunUpdater, DeleteMessage

\* The messages of a new request.
LEMMA MessageTypes ==
  ASSUME NEW r \in Asked
  PROVE  UserMessage(r) \in Messages /\ LoadingMessage(r) \in Messages
BY DEF UserMessage, LoadingMessage, Messages, Keys, Statuses, Texts

\* Loading repairs a conversation into a conversation.
LEMMA RepairType ==
  ASSUME NEW ms \in Seq(Messages)
  PROVE  Normalized(ms) \in Seq(Messages) /\ Sanitized(ms) \in Seq(Messages)
<1>1. ASSUME NEW i \in 1..Len(ms)
      PROVE  [ms[i] EXCEPT !.status = "complete"] \in Messages /\ [ms[i] EXCEPT !.status = "error"] \in Messages
             /\ ms[i] \in Messages
  <2>1. ms[i] \in Messages
    OBVIOUS
  <2> QED BY <2>1 DEF Messages, Statuses
<1>2. DOMAIN ms = 1..Len(ms) /\ Len(ms) \in Nat
  OBVIOUS
<1>3. Normalized(ms) \in [1..Len(ms) -> Messages]
  BY <1>1, <1>2, Zenon DEF Normalized
<1>4. Sanitized(ms) \in [1..Len(ms) -> Messages]
  BY <1>1, <1>2, Zenon DEF Sanitized
<1> HIDE DEF Normalized, Sanitized
<1> QED BY <1>2, <1>3, <1>4

\* The stored conversation of an earlier visit.
LEMMA EarlierType == Earlier \in Seq(Messages)
<1>1. UserMessage(0) \in Messages /\ LoadingMessage(0) \in Messages /\ FullText(0) \in Texts
  BY Constants, MessageTypes, FullTextType
<1>2. [LoadingMessage(0) EXCEPT !.status = "complete", !.text = FullText(0)] \in Messages
  BY <1>1 DEF Messages, Statuses
<1> QED BY <1>1, <1>2 DEF Earlier

-----------------------------------------------------------------------------
(* What the steps do to the conversation *)

\* The variables the views are made of are typed.
Conv ==
    /\ queue \in Seq(Updaters)
    /\ messages \in Seq(Messages) /\ latest \in Seq(Messages) /\ saved \in Seq(Messages)
    /\ View \in Seq(Messages) /\ Base \in Seq(Messages)

\* RunAppend for queues of known updaters.
LEMMA QueueAppend ==
  ASSUME NEW us \in Seq(Updaters), NEW u \in Updaters, NEW ms, NEW g
  PROVE  RunUpdaters(Append(us, u), ms, g) = RunUpdater(u, RunUpdaters(us, ms, g), g)
BY ONLY us \in Seq(Updaters), u \in Updaters, RunAppend

\* Steps that touch neither the queue, the conversation nor the generation.
LEMMA QuietViews ==
  ASSUME UNCHANGED <<queue, messages, gen>>
  PROVE  View' = View /\ Base' = Base
BY Zenon DEF View, Base

\* With nothing queued the screen is up to date.
LEMMA EmptyViews == queue = <<>> => View = messages /\ Base = messages
BY RunEmpty, Zenon DEF View, Base

\* The same after a step that empties the queue.
LEMMA EmptyViewsPrime ==
  ASSUME queue' = <<>>
  PROVE  View' = messages' /\ Base' = messages'
BY RunEmpty, Zenon DEF View, Base

\* One updater of the current generation is handed over.
LEMMA EnqueueOne ==
  ASSUME Conv, gen \in Nat, NEW u \in PlainUpdaters, u.gen = gen, gen' = gen, Enqueue(<<u>>)
  PROVE  /\ View' = UpdateLast(u, View)
         /\ Base' \in {Base, UpdateLast(u, View)}
         /\ latest' \in {latest, UpdateLast(u, View)}
         /\ queue' \in Seq(Updaters) /\ queue' # <<>>
<1>1. u \in Updaters /\ queue \in Seq(Updaters) /\ messages' = messages
  BY DEF Conv, Updaters, PlainUpdaters, Enqueue
<1>0. View' = RunUpdaters(queue', messages, gen) /\ Base' = RunUpdaters(queue', messages, gen + 1)
  BY <1>1, Zenon DEF View, Base
<1>2. <<u>> # <<>> /\ Head(<<u>>) = u /\ Tail(<<u>>) = <<>> /\ queue \o <<u>> = Append(queue, u)
  BY <1>1
<1>3. \/ queue' = Append(queue, u) /\ latest' = latest
      \/ /\ queue = <<>>
         /\ queue' = <<SetMessages(RunUpdater(u, messages, gen))>>
         /\ latest' \in {latest, RunUpdater(u, messages, gen)}
  <2>1. queue' \in Queued(<<u>>) /\ latest' = IF queue' # <<>> /\ queue' # queue \o <<u>> THEN queue'[1].msgs ELSE latest
    BY DEF Enqueue
  <2>2. CASE queue' = queue \o <<u>>
    BY <1>2, <2>1, <2>2
  <2>3. CASE queue' # queue \o <<u>>
    <3> DEFINE v == SetMessages(RunUpdater(u, messages, gen))
    <3>1. queue = <<>> /\ queue' \in {<<v>> \o Tail(<<u>>)}
      BY <1>2, <2>1, <2>3, Zenon DEF Queued
    <3>2. v.msgs = RunUpdater(u, messages, gen)
      BY DEF SetMessages
    <3> HIDE DEF v
    <3>3. queue' = <<v>>
      BY <3>1, <1>2
    <3> QED BY <2>1, <3>1, <3>2, <3>3 DEF v
  <2> QED BY <2>2, <2>3
<1>4. CASE queue' = Append(queue, u) /\ latest' = latest
  <2>1. View' = RunUpdater(u, View, gen)
    BY <1>1, <1>4, RunAppend DEF View
  <2>2. Base' = RunUpdater(u, Base, gen + 1)
    BY <1>1, <1>4, RunAppend DEF Base
  <2>3. Base' = Base
    BY <2>2, RunPlain
  <2>4. View' = UpdateLast(u, View)
    BY <2>1, RunPlain
  <2> QED BY <1>1, <1>4, <2>3, <2>4
<1>5. CASE /\ queue = <<>>
           /\ queue' = <<SetMessages(RunUpdater(u, messages, gen))>>
           /\ latest' \in {latest, RunUpdater(u, messages, gen)}
  <2> DEFINE w == UpdateLast(u, messages)  v == SetMessages(w)
  <2>1. RunUpdater(u, messages, gen) = w
    BY RunPlain
  <2>2. w \in Seq(Messages)
    BY UpdateLastType DEF Conv
  <2>3. v \in Updaters
    BY <2>2, SetUpdater
  <2>4. View = messages
    BY <1>5, EmptyViews
  <2> HIDE DEF w, v
  <2>5. queue' = Append(<<>>, v)
    BY <1>5, <2>1 DEF v
  <2>6. View' = w /\ Base' = w
    <3>1. <<>> \in Seq(Updaters)
      OBVIOUS
    <3>2. \A g : RunUpdaters(Append(<<>>, v), messages, g) = w
      <4>1. v \in Updaters
        BY <2>3
      <4>2. \A g : RunUpdaters(Append(<<>>, v), messages, g) = RunUpdater(v, RunUpdaters(<<>>, messages, g), g)
        BY ONLY <3>1, <4>1, QueueAppend, ZenonT(10)
      <4> QED BY <4>2, RunSet DEF v
    <3> QED BY <1>0, <2>5, <3>2, Zenon
  <2> QED BY <1>5, <2>1, <2>3, <2>4, <2>5, <2>6 DEF w
<1> QED BY <1>3, <1>4, <1>5

\* A flush and an outcome are handed over.
LEMMA EnqueueTwo ==
  ASSUME Conv, gen \in Nat, NEW u \in PlainUpdaters, u.gen = gen, NEW x \in PlainUpdaters, x.gen = gen,
         gen' = gen, Enqueue(<<u, x>>)
  PROVE  /\ View' = UpdateLast(x, UpdateLast(u, View))
         /\ Base' \in {Base, UpdateLast(u, View)}
         /\ latest' \in {latest, UpdateLast(u, View)}
         /\ queue' \in Seq(Updaters) /\ queue' # <<>>
<1>1. u \in Updaters /\ x \in Updaters /\ queue \in Seq(Updaters) /\ messages' = messages
  BY DEF Conv, Updaters, PlainUpdaters, Enqueue
<1>0. View' = RunUpdaters(queue', messages, gen) /\ Base' = RunUpdaters(queue', messages, gen + 1)
  BY <1>1, Zenon DEF View, Base
<1>2. <<u, x>> # <<>> /\ Head(<<u, x>>) = u /\ Tail(<<u, x>>) = <<x>> /\ queue \o <<u, x>> = Append(Append(queue, u), x)
  BY <1>1
<1>3. \/ queue' = Append(Append(queue, u), x) /\ latest' = latest
      \/ /\ queue = <<>>
         /\ queue' = <<SetMessages(RunUpdater(u, messages, gen)), x>>
         /\ latest' \in {latest, RunUpdater(u, messages, gen)}
  <2>1. queue' \in Queued(<<u, x>>) /\ latest' = IF queue' # <<>> /\ queue' # queue \o <<u, x>> THEN queue'[1].msgs ELSE latest
    BY DEF Enqueue
  <2>2. CASE queue' = queue \o <<u, x>>
    BY <1>2, <2>1, <2>2
  <2>3. CASE queue' # queue \o <<u, x>>
    <3> DEFINE v == SetMessages(RunUpdater(u, messages, gen))
    <3>1. queue = <<>> /\ queue' \in {<<v>> \o Tail(<<u, x>>)}
      BY <1>2, <2>1, <2>3, Zenon DEF Queued
    <3>2. v.msgs = RunUpdater(u, messages, gen)
      BY DEF SetMessages
    <3> HIDE DEF v
    <3>3. queue' = <<v, x>>
      BY <3>1, <1>2
    <3> QED BY <2>1, <3>1, <3>2, <3>3 DEF v
  <2> QED BY <2>2, <2>3
<1>4. CASE queue' = Append(Append(queue, u), x) /\ latest' = latest
  <2> DEFINE q == Append(queue, u)
  <2>1. q \in Seq(Updaters)
    BY <1>1
  <2>2. RunUpdaters(q, messages, gen) = RunUpdater(u, View, gen) /\ RunUpdaters(q, messages, gen + 1) = RunUpdater(u, Base, gen + 1)
    BY <1>1, RunAppend DEF View, Base
  <2> HIDE DEF q
  <2>a. \A g : RunUpdaters(Append(q, x), messages, g) = RunUpdater(x, RunUpdaters(q, messages, g), g)
    BY <1>1, <2>1, RunAppend
  <2>3. View' = RunUpdater(x, RunUpdater(u, View, gen), gen)
    BY <1>0, <1>4, <2>2, <2>a, Zenon DEF q
  <2>4. Base' = RunUpdater(x, RunUpdater(u, Base, gen + 1), gen + 1)
    BY <1>0, <1>4, <2>2, <2>a, Zenon DEF q
  <2>5. Base' = Base
    BY <2>4, RunPlain
  <2>6. View' = UpdateLast(x, UpdateLast(u, View))
    BY <2>3, RunPlain
  <2>7. queue' \in Seq(Updaters) /\ queue' # <<>>
    BY <1>1, <1>4, <2>1 DEF q
  <2> QED BY <1>4, <2>5, <2>6, <2>7
<1>5. CASE /\ queue = <<>>
           /\ queue' = <<SetMessages(RunUpdater(u, messages, gen)), x>>
           /\ latest' \in {latest, RunUpdater(u, messages, gen)}
  <2> DEFINE w == UpdateLast(u, messages)  v == SetMessages(w)
  <2>1. RunUpdater(u, messages, gen) = w
    BY RunPlain
  <2>2. w \in Seq(Messages)
    BY UpdateLastType DEF Conv
  <2>3. v \in Updaters
    BY <2>2, SetUpdater
  <2>4. View = messages
    BY <1>5, EmptyViews
  <2> HIDE DEF w, v
  <2>5. queue' = Append(Append(<<>>, v), x) /\ Append(<<>>, v) \in Seq(Updaters)
    BY <1>5, <2>1, <2>3 DEF v
  <2>6. View' = UpdateLast(x, w) /\ Base' = w
    <3>1. <<>> \in Seq(Updaters)
      OBVIOUS
    <3>2. \A g : RunUpdaters(Append(<<>>, v), messages, g) = w
      <4>1. v \in Updaters
        BY <2>3
      <4>2. \A g : RunUpdaters(Append(<<>>, v), messages, g) = RunUpdater(v, RunUpdaters(<<>>, messages, g), g)
        BY ONLY <3>1, <4>1, QueueAppend, ZenonT(10)
      <4> QED BY <4>2, RunSet DEF v
    <3>5. \A g : RunUpdaters(Append(Append(<<>>, v), x), messages, g) = RunUpdater(x, RunUpdaters(Append(<<>>, v), messages, g), g)
      <4>1. Append(<<>>, v) \in Seq(Updaters)
        BY <2>5
      <4>2. x \in Updaters
        BY <1>1
      <4> QED BY ONLY <4>1, <4>2, QueueAppend, ZenonT(10)
    <3>3. View' = RunUpdater(x, w, gen)
      BY <1>0, <2>5, <3>2, <3>5, Zenon
    <3>4. Base' = RunUpdater(x, w, gen + 1)
      BY <1>0, <2>5, <3>2, <3>5, Zenon
    <3> QED BY <3>3, <3>4, RunPlain
  <2>7. queue' \in Seq(Updaters) /\ queue' # <<>>
    BY <1>1, <2>5
  <2> QED BY <1>5, <2>1, <2>4, <2>6, <2>7 DEF w
<1> QED BY <1>3, <1>4, <1>5

\* Handing over nothing changes nothing.
LEMMA EnqueueNone ==
  ASSUME Conv, gen' = gen, Enqueue(<<>>)
  PROVE  queue' = queue /\ latest' = latest /\ View' = View /\ Base' = Base
<1>1. queue \o <<>> = queue
  BY DEF Conv
<1>2. queue' = queue /\ latest' = latest /\ messages' = messages
  BY <1>1 DEF Enqueue, Queued
<1> QED BY <1>2, QuietViews

\* What a flush and a stop hand over.
FlushUpdater == Updater("flush", gen, 0, pend.text)
StopUpdater == Updater("stop", gen + 1, 0, <<>>)

\* What the buffer of streamed text is.
PendType == pend \in [gen : Nat, text : Texts] /\ gen \in Nat

\* The updaters of a flush and of a stop.
LEMMA FlushPlain ==
  ASSUME PendType
  PROVE  /\ FlushUpdater \in PlainUpdaters /\ FlushUpdater.gen = gen
         /\ StopUpdater \in PlainUpdaters /\ StopUpdater.gen = gen + 1
<1>1. pend.text \in Texts /\ <<>> \in Texts /\ gen \in Nat /\ gen + 1 \in Nat
  BY DEF PendType, Texts
<1>2. "flush" \in UpdaterKinds /\ "stop" \in UpdaterKinds /\ 0 \in Asked
  BY Constants DEF UpdaterKinds
<1>3. FlushUpdater \in PlainUpdaters /\ FlushUpdater.gen = gen
  <2>1. \A t \in Texts : Updater("flush", gen, 0, t) \in PlainUpdaters /\ Updater("flush", gen, 0, t).gen = gen
    BY <1>1, <1>2, UpdaterPlain
  <2> QED BY <1>1, <2>1, Zenon DEF FlushUpdater
<1>4. StopUpdater \in PlainUpdaters /\ StopUpdater.gen = gen + 1
  <2>1. \A g \in Nat : Updater("stop", g, 0, <<>>) \in PlainUpdaters /\ Updater("stop", g, 0, <<>>).gen = g
    BY <1>1, <1>2, UpdaterPlain
  <2> QED BY <1>1, <2>1, Zenon DEF StopUpdater
<1> QED BY <1>3, <1>4

\* flushStreamUpdates hands over one updater or none.
LEMMA FlushShape ==
  ASSUME NEW g
  PROVE  \/ FlushOf(g) = <<>> /\ ~ (g = gen /\ pend.gen = g /\ pend.text # <<>>)
         \/ FlushOf(g) = <<FlushUpdater>> /\ g = gen /\ pend.gen = g /\ pend.text # <<>>
BY DEF FlushOf, FlushUpdater

\* After a render nothing is queued.
LEMMA RenderViews ==
  ASSUME NEW q, RenderWith(q)
  PROVE  /\ queue' = <<>> /\ View' = messages' /\ Base' = messages'
         /\ latest' \in {latest, messages'}
         /\ messages' = RunUpdaters(q, messages, gen')
<1>1. queue' = <<>> /\ latest' \in {latest, messages'} /\ messages' = RunUpdaters(q, messages, gen')
  BY Zenon DEF RenderWith
<1> QED BY <1>1, EmptyViewsPrime, Zenon

\* A render shows what was queued.
LEMMA RenderConv ==
  ASSUME Render
  PROVE  messages' = View
<1>1. RenderWith(queue) /\ gen' = gen
  BY DEF Render, chat
<1>2. messages' = RunUpdaters(queue, messages, gen')
  BY <1>1, RenderViews
<1> QED BY <1>1, <1>2, Zenon DEF View

\* A replacement wins over everything queued before it.
LEMMA SetConv ==
  ASSUME Conv, NEW ms \in Seq(Messages), RenderWith(Append(queue, SetMessages(ms)))
  PROVE  messages' = ms
<1> DEFINE v == SetMessages(ms)
<1>1. v \in Updaters /\ queue \in Seq(Updaters)
  BY SetUpdater DEF Conv
<1>2. messages' = RunUpdaters(Append(queue, v), messages, gen')
  BY RenderViews, Zenon
<1> HIDE DEF v
<1>3. \A g : RunUpdaters(Append(queue, v), messages, g) = RunUpdater(v, RunUpdaters(queue, messages, g), g)
  BY <1>1, RunAppend
<1>4. messages' = RunUpdater(v, RunUpdaters(queue, messages, gen'), gen')
  BY <1>2, <1>3, Zenon
<1> QED BY <1>4, RunSet, Zenon DEF v

\* A deletion is made in what was queued before it.
LEMMA DeleteConv ==
  ASSUME Conv, NEW k, RenderWith(Append(queue, DeleteMessage(k))), gen' = gen
  PROVE  messages' = Without(View, k)
<1> DEFINE v == DeleteMessage(k)  U == Updaters \cup {v}
<1>1. messages' = RunUpdaters(Append(queue, v), messages, gen)
  BY RenderViews, Zenon
<1> HIDE DEF v
<1>2. v \in U /\ queue \in Seq(U)
  BY DEF Conv
<1> HIDE DEF U
<1>3. RunUpdaters(Append(queue, v), messages, gen) = RunUpdater(v, View, gen)
  BY <1>2, RunAppend DEF View
<1> QED BY <1>1, <1>3, RunDelete, Zenon DEF v

\* A stop flushes what is pending, in this generation, and completes the answer
\* in the next one, in which nothing queued before counts any more.
LEMMA StopConv ==
  ASSUME Conv, PendType, StopGeneration
  PROVE  \/ messages' = UpdateLast(StopUpdater, Base)
         \/ /\ pend.text # <<>>
            /\ messages' = UpdateLast(StopUpdater, UpdateLast(FlushUpdater, View))
<1> DEFINE s == StopUpdater  f == FlushUpdater
<1>1. PICK q \in Queued(FlushOf(gen)) : RenderWith(Append(q, s))
  BY DEF StopGeneration, StopUpdater
<1>2. gen' = gen + 1 /\ gen \in Nat
  BY DEF StopGeneration, PendType
<1>3. /\ s \in PlainUpdaters /\ s.gen = gen + 1 /\ s \in Updaters
      /\ f \in PlainUpdaters /\ f.gen = gen /\ f \in Updaters
      /\ queue \in Seq(Updaters)
  BY FlushPlain DEF Conv, Updaters, PlainUpdaters
<1> HIDE DEF s, f
<1>4. messages' = RunUpdaters(Append(q, s), messages, gen + 1)
  BY <1>1, <1>2, RenderViews, Zenon
<1>5. q \in Seq(Updaters) => messages' = UpdateLast(s, RunUpdaters(q, messages, gen + 1))
  <2>1. HAVE q \in Seq(Updaters)
  <2>2. RunUpdaters(Append(q, s), messages, gen + 1) = RunUpdater(s, RunUpdaters(q, messages, gen + 1), gen + 1)
    BY <1>3, <2>1, RunAppend
  <2> QED BY <1>3, <1>4, <2>2, RunPlain
<1>6. CASE q = queue \o FlushOf(gen)
  <2>1. CASE FlushOf(gen) = <<>>
    <3>1. q = queue
      BY <1>3, <1>6, <2>1
    <3> QED BY <1>3, <1>5, <3>1 DEF Base, s
  <2>2. CASE FlushOf(gen) = <<f>>
    <3>1. q = Append(queue, f) /\ q \in Seq(Updaters)
      BY <1>3, <1>6, <2>2
    <3>2. RunUpdaters(Append(queue, f), messages, gen + 1) = RunUpdater(f, Base, gen + 1)
      BY <1>3, RunAppend DEF Base
    <3>3. RunUpdater(f, Base, gen + 1) = Base
      BY <1>2, <1>3, RunPlain
    <3> QED BY <1>5, <3>1, <3>2, <3>3 DEF s
  <2> QED BY <2>1, <2>2, FlushShape DEF f
<1>7. CASE q # queue \o FlushOf(gen)
  <2>1. /\ queue = <<>> /\ FlushOf(gen) # <<>>
        /\ q = <<SetMessages(RunUpdater(Head(FlushOf(gen)), messages, gen))>> \o Tail(FlushOf(gen))
    BY <1>1, <1>7, Zenon DEF Queued
  <2>2. FlushOf(gen) = <<f>> /\ pend.text # <<>>
    BY <2>1, FlushShape DEF f
  <2> DEFINE w == UpdateLast(f, View)  v == SetMessages(w)
  <2>3. RunUpdater(f, messages, gen) = w
    BY <1>3, <2>1, RunPlain, EmptyViews
  <2>4. v \in Updaters
    BY <1>3, UpdateLastType, SetUpdater DEF Conv
  <2> HIDE DEF w, v
  <2>5. q = Append(<<>>, v) /\ q \in Seq(Updaters) /\ <<>> \in Seq(Updaters)
    BY <2>1, <2>2, <2>3, <2>4 DEF v
  <2>6. RunUpdaters(Append(<<>>, v), messages, gen + 1) = RunUpdater(v, RunUpdaters(<<>>, messages, gen + 1), gen + 1)
    <3>1. <<>> \in Seq(Updaters)
      OBVIOUS
    <3>2. \A g : RunUpdaters(Append(<<>>, v), messages, g) = RunUpdater(v, RunUpdaters(<<>>, messages, g), g)
      BY ONLY <2>4, <3>1, QueueAppend, ZenonT(10)
    <3> QED BY ONLY <3>2, Zenon
  <2>7. RunUpdaters(q, messages, gen + 1) = w
    BY <2>5, <2>6, RunSet, Zenon DEF v
  <2> QED BY <1>5, <2>2, <2>5, <2>7 DEF w, s, f
<1> QED BY <1>6, <1>7

-----------------------------------------------------------------------------
(* Control: which request holds what *)

\* The types and the control of the handler.
CtlInv ==
    /\ page \in {"away", "loading", "ready"}
    /\ shown \in BOOLEAN /\ requesting \in BOOLEAN /\ saving \in BOOLEAN
    /\ timer \in {0, gen} /\ uses \in 0..MaxUses
    /\ {ctl, source, abort} \subseteq Requests \cup {0}
    /\ PendType
    /\ Len(req) <= MaxRequests
    /\ editing \in Keys \cup {NoKey}
    /\ HandlerSound
    /\ GensBounded

\* The phases of a request.
Phases == {"headers", "open", "silent", "waiting", "over"}

\* A request whose phase changes.
LEMMA ReqPhase ==
  ASSUME req \in Seq(ReqType), NEW r \in DOMAIN req, NEW p \in Phases,
         req' = [req EXCEPT ![r].phase = p]
  PROVE  /\ req' \in Seq(ReqType) /\ Len(req') = Len(req)
         /\ \A i \in 1..Len(req) : i # r => req'[i] = req[i]
         /\ req'[r].phase = p /\ req'[r].gen = req[r].gen /\ req'[r].sent = req[r].sent
<1>1. req[r] \in ReqType
  OBVIOUS
<1>2. [req[r] EXCEPT !.phase = p] \in ReqType
  BY <1>1 DEF ReqType, Phases
<1>3. /\ [req[r] EXCEPT !.phase = p].phase = p
      /\ [req[r] EXCEPT !.phase = p].gen = req[r].gen
      /\ [req[r] EXCEPT !.phase = p].sent = req[r].sent
  BY <1>1 DEF ReqType
<1> DEFINE q == [req[r] EXCEPT !.phase = p]
<1>4. req' = [req EXCEPT ![r] = q]
  OBVIOUS
<1>5. q \in ReqType /\ q.phase = p /\ q.gen = req[r].gen /\ q.sent = req[r].sent
  BY <1>2, <1>3
<1> HIDE DEF q
<1> QED BY <1>4, <1>5

\* A request that receives a delta.
LEMMA ReqSent ==
  ASSUME req \in Seq(ReqType), NEW r \in DOMAIN req, NEW n \in 0..Len(Script),
         req' = [req EXCEPT ![r].sent = n]
  PROVE  /\ req' \in Seq(ReqType) /\ Len(req') = Len(req)
         /\ \A i \in 1..Len(req) : i # r => req'[i] = req[i]
         /\ req'[r].phase = req[r].phase /\ req'[r].gen = req[r].gen /\ req'[r].sent = n
<1>1. req[r] \in ReqType
  OBVIOUS
<1> DEFINE q == [req[r] EXCEPT !.sent = n]
<1>3. req' = [req EXCEPT ![r] = q]
  OBVIOUS
<1>4. q \in ReqType /\ q.phase = req[r].phase /\ q.gen = req[r].gen /\ q.sent = n
  BY <1>1 DEF ReqType
<1> HIDE DEF q
<1> QED BY <1>3, <1>4

\* Where a delta lies in the answer.
LEMMA DeltaBounds ==
  ASSUME req \in Seq(ReqType), NEW r \in DOMAIN req, NEW n \in DOMAIN Script, StreamDelta(r, n)
  PROVE  /\ req[r].sent \in Nat /\ n \in Nat /\ n \in 0..Len(Script) /\ n \in req[r].sent..Len(Script)
         /\ req[r].sent < n /\ n <= Len(Script) /\ Len(Script) \in Nat
<1>1. req[r] \in ReqType
  OBVIOUS
<1>2. req[r].sent \in 0..Len(Script) /\ n > req[r].sent
  BY <1>1 DEF ReqType, StreamDelta
<1> QED BY <1>2, Constants

\* A held stream belongs to the latest request, which is running.
LEMMA CurrentRuns ==
  ASSUME CtlInv, source # 0
  PROVE  Running /\ requesting /\ shown /\ source \in DOMAIN req /\ ctl = source /\ source = Len(req)
         /\ req[source].gen = gen /\ req[source].phase \in {"open", "silent"} /\ abort = 0
BY DEF CtlInv, HandlerSound, Running, Requests

\* Steps that leave the chat handler alone.
LEMMA QuietCtl ==
  ASSUME CtlInv, UNCHANGED <<page, shown, queue, chat, uses>>,
         saving' \in BOOLEAN, editing' \in Keys \cup {NoKey}
  PROVE  CtlInv'
BY DEF CtlInv, HandlerSound, Running, GensBounded, PendType, chat

\* Only the request with the controller opens its stream.
LEMMA HeadersReadyCtl ==
  ASSUME CtlInv, NEW r \in DOMAIN req, HeadersReady(r)
  PROVE  CtlInv'
<1>1. /\ req[r].phase = "headers" /\ req \in Seq(ReqType)
      /\ UNCHANGED <<gen, requesting, pend, timer, ctl, abort, page, shown, queue, editing, saving, uses>>
  BY DEF CtlInv, HandlerSound, HeadersReady, Ignored
<1>2. CASE ctl # r
  <2>1. UNCHANGED source /\ req' = [req EXCEPT ![r].phase = "over"]
    BY <1>2 DEF HeadersReady, Ignored
  <2>2. /\ req' \in Seq(ReqType) /\ Len(req') = Len(req)
        /\ \A i \in 1..Len(req) : i # r => req'[i] = req[i]
    BY <1>1, <2>1, ReqPhase DEF Phases
  <2> QED BY <1>1, <1>2, <2>1, <2>2 DEF CtlInv, HandlerSound, Running, GensBounded, PendType, Requests
<1>3. CASE ctl = r
  <2>1. source' = r /\ req' = [req EXCEPT ![r].phase = "open"]
    BY <1>3 DEF HeadersReady
  <2>2. /\ req' \in Seq(ReqType) /\ Len(req') = Len(req)
        /\ \A i \in 1..Len(req) : i # r => req'[i] = req[i]
        /\ req'[r].phase = "open" /\ req'[r].gen = req[r].gen
    BY <1>1, <2>1, ReqPhase DEF Phases
  <2> QED BY <1>1, <1>3, <2>1, <2>2 DEF CtlInv, HandlerSound, Running, GensBounded, PendType, Requests
<1> QED BY <1>2, <1>3

\* An event nobody listens to any more.
LEMMA IgnoredCtl ==
  ASSUME CtlInv, NEW r \in DOMAIN req, Ignored(r), ctl # r \/ req[r].phase = "waiting", source # r, abort # r
  PROVE  CtlInv'
<1>1. /\ req \in Seq(ReqType) /\ req' = [req EXCEPT ![r].phase = "over"]
      /\ UNCHANGED <<gen, requesting, pend, timer, ctl, source, abort, page, shown, queue, editing, saving, uses>>
  BY DEF CtlInv, HandlerSound, Ignored
<1>2. /\ req' \in Seq(ReqType) /\ Len(req') = Len(req)
      /\ \A i \in 1..Len(req) : i # r => req'[i] = req[i]
  BY <1>1, ReqPhase DEF Phases
<1>3. ctl # r
  BY DEF CtlInv, HandlerSound, Requests
<1> QED BY <1>1, <1>2, <1>3 DEF CtlInv, HandlerSound, Running, GensBounded, PendType, Requests

\* The outcome of the current request.
LEMMA OutcomeCtl ==
  ASSUME CtlInv, NEW r \in DOMAIN req, NEW kind, Outcome(r, kind), req[r].gen = gen, shown,
         r = Len(req), ctl # 0 => ctl = r, abort' = 0, source' = 0, page' = page,
         queue' # <<>> => shown'
  PROVE  CtlInv'
<1>1. /\ req \in Seq(ReqType) /\ req' = [req EXCEPT ![r].phase = "over"]
      /\ UNCHANGED <<gen, ctl, shown, editing, uses>>
      /\ timer' = 0 /\ pend' = NoText(gen) /\ requesting' = FALSE /\ saving' \in BOOLEAN
  BY DEF CtlInv, HandlerSound, Outcome, Enqueue
<1>2. /\ req' \in Seq(ReqType) /\ Len(req') = Len(req)
      /\ req'[r].phase = "over" /\ req'[r].gen = req[r].gen
  BY <1>1, ReqPhase DEF Phases
<1>3. pend' \in [gen : Nat, text : Texts] /\ pend'.gen = gen /\ pend'.text = <<>>
  BY <1>1 DEF NoText, CtlInv, PendType, Texts
<1> QED BY <1>1, <1>2, <1>3 DEF CtlInv, HandlerSound, Running, GensBounded, PendType, Requests

\* A stream that is cut off keeps the controller.
LEMMA StreamCutCtl ==
  ASSUME CtlInv, NEW r \in DOMAIN req, StreamCut(r)
  PROVE  CtlInv'
<1>1. /\ req[r].phase = "open" /\ req \in Seq(ReqType) /\ ctl = r /\ source = r
      /\ UNCHANGED <<gen, requesting, pend, timer, ctl, source, abort, page, shown, queue, editing, saving, uses>>
      /\ req' = [req EXCEPT ![r].phase = "silent"]
  BY DEF CtlInv, HandlerSound, StreamCut, IsCurrent
<1>2. /\ req' \in Seq(ReqType) /\ Len(req') = Len(req)
      /\ \A i \in 1..Len(req) : i # r => req'[i] = req[i]
      /\ req'[r].phase = "silent" /\ req'[r].gen = req[r].gen
  BY <1>1, ReqPhase DEF Phases
<1> QED BY <1>1, <1>2 DEF CtlInv, HandlerSound, Running, GensBounded, PendType, Requests

\* A delta is buffered only with the flush timer armed.
LEMMA StreamDeltaCtl ==
  ASSUME CtlInv, NEW r \in DOMAIN req, NEW n \in DOMAIN Script, StreamDelta(r, n)
  PROVE  CtlInv'
<1>1. /\ req \in Seq(ReqType)
      /\ UNCHANGED <<gen, requesting, ctl, source, abort, page, shown, queue, editing, saving, uses>>
  BY DEF CtlInv, HandlerSound, StreamDelta
<1>2. CASE IsCurrent(r) /\ req[r].gen = gen /\ pend.gen = gen
  <2>0. req[r].sent \in Nat /\ n \in 0..Len(Script) /\ n \in req[r].sent..Len(Script)
    BY <1>1, DeltaBounds
  <2>1. /\ req' = [req EXCEPT ![r].sent = n]
        /\ pend' = [pend EXCEPT !.text = MergeChunk(@, Delta(r, req[r].sent, n))]
        /\ timer' = IF timer = 0 THEN gen ELSE timer
    BY <1>2 DEF StreamDelta
  <2>2. /\ req' \in Seq(ReqType) /\ Len(req') = Len(req)
        /\ \A i \in 1..Len(req) : i # r => req'[i] = req[i]
        /\ req'[r].phase = req[r].phase /\ req'[r].gen = req[r].gen
    BY <1>1, <2>0, <2>1, ReqSent
  <2>3. r \in Asked /\ pend.text \in Texts
    <3>1. r \in 1..Len(req) /\ Len(req) \in Nat /\ Len(req) <= MaxRequests
      BY <1>1 DEF CtlInv
    <3>2. pend.text \in Texts
      BY DEF CtlInv, PendType
    <3> QED BY <3>1, <3>2, Constants DEF Asked
  <2> DEFINE t == MergeChunk(pend.text, Delta(r, req[r].sent, n))
  <2>4. t \in Texts
    BY <2>0, <2>3, DeltaType, MergeType
  <2>5. pend' = [pend EXCEPT !.text = t]
    BY <2>1
  <2> HIDE DEF t
  <2>6. pend' \in [gen : Nat, text : Texts] /\ pend'.gen = pend.gen /\ pend'.text = t
    BY <2>4, <2>5 DEF CtlInv, PendType
  <2>7. source # 0 /\ gen # 0
    <3>1. req[r] \in ReqType
      BY <1>1
    <3>2. req[r].gen # 0
      BY <3>1 DEF ReqType
    <3> QED BY <1>1, <1>2, <3>2 DEF IsCurrent
  <2> QED BY <1>1, <1>2, <2>1, <2>2, <2>6, <2>7 DEF CtlInv, HandlerSound, Running, GensBounded, PendType, Requests, IsCurrent
<1>3. CASE ~ (IsCurrent(r) /\ req[r].gen = gen /\ pend.gen = gen)
  <2>1. UNCHANGED <<req, pend, timer>>
    BY <1>3 DEF StreamDelta
  <2> QED BY <1>1, <2>1, QuietCtl DEF chat, CtlInv
<1> QED BY <1>2, <1>3

\* A sequence of one.
LEMMA OneSeq == ASSUME NEW a PROVE Append(<<>>, a) = <<a>>
OBVIOUS

\* A sequence of two.
LEMMA PairSeq ==
  ASSUME NEW U, NEW a \in U, NEW b \in U
  PROVE  Append(<<a>>, b) = <<a, b>>
<1>1. ASSUME NEW q, q = <<a, b>> PROVE q = Append(Append(<<>>, a), b)
  BY <1>1
<1>2. <<a, b>> = Append(Append(<<>>, a), b)
  BY <1>1, Zenon
<1> QED BY <1>2, OneSeq, Zenon

\* What an outcome hands over.
OutcomeUpdater(kind, r) == Updater(kind, gen, r, <<>>)

\* The updater of an outcome.
LEMMA OutcomePlain ==
  ASSUME gen \in Nat, NEW r \in Asked, NEW kind \in {"done", "error", "answer"}
  PROVE  /\ OutcomeUpdater(kind, r) \in PlainUpdaters /\ OutcomeUpdater(kind, r).gen = gen
         /\ OutcomeUpdater(kind, r).kind = kind /\ OutcomeUpdater(kind, r).req = r
<1>1. <<>> \in Texts /\ kind \in UpdaterKinds
  BY DEF Texts, UpdaterKinds
<1> QED BY <1>1, UpdaterPlain DEF OutcomeUpdater

\* The outcome of the current request: what is pending is flushed before it.
LEMMA OutcomeViews ==
  ASSUME Conv, PendType, pend.gen = gen, NEW r \in Asked, NEW kind \in {"done", "error", "answer"},
         req[r].gen = gen, Outcome(r, kind)
  PROVE  /\ UNCHANGED <<messages, saved, page, shown, gen>>
         /\ queue' \in Seq(Updaters) /\ queue' # <<>>
         /\ \/ /\ pend.text = <<>>
               /\ View' = UpdateLast(OutcomeUpdater(kind, r), View)
               /\ Base' \in {Base, View'}
               /\ latest' \in {latest, View'}
            \/ /\ pend.text # <<>>
               /\ View' = UpdateLast(OutcomeUpdater(kind, r), UpdateLast(FlushUpdater, View))
               /\ Base' \in {Base, UpdateLast(FlushUpdater, View)}
               /\ latest' \in {latest, UpdateLast(FlushUpdater, View)}
<1> DEFINE x == OutcomeUpdater(kind, r)  f == FlushUpdater
<1>1. Enqueue(Append(FlushOf(gen), x)) /\ gen' = gen
  BY DEF Outcome, OutcomeUpdater
<1>2. x \in PlainUpdaters /\ x.gen = gen /\ f \in PlainUpdaters /\ f.gen = gen /\ gen \in Nat
  BY OutcomePlain, FlushPlain DEF PendType
<1> HIDE DEF x, f
<1>3. UNCHANGED <<messages, saved, page, shown>>
  BY <1>1 DEF Enqueue
<1>4. CASE pend.text = <<>>
  <2>1. FlushOf(gen) = <<>>
    BY <1>4, FlushShape
  <2>2. Append(<<>>, x) = <<x>>
    BY OneSeq
  <2>3. Enqueue(<<x>>)
    BY <1>1, <2>1, <2>2
  <2>4. /\ View' = UpdateLast(x, View) /\ Base' \in {Base, UpdateLast(x, View)}
        /\ latest' \in {latest, UpdateLast(x, View)} /\ queue' \in Seq(Updaters) /\ queue' # <<>>
    BY <1>1, <1>2, <2>3, EnqueueOne
  <2> QED BY <1>1, <1>3, <1>4, <2>4 DEF x, f
<1>5. CASE pend.text # <<>>
  <2>1. FlushOf(gen) = <<f>>
    BY <1>5, FlushShape DEF f
  <2>2. Append(<<f>>, x) = <<f, x>>
    BY <1>2, PairSeq
  <2>3. Enqueue(<<f, x>>)
    BY <1>1, <2>1, <2>2
  <2>4. /\ View' = UpdateLast(x, UpdateLast(f, View)) /\ Base' \in {Base, UpdateLast(f, View)}
        /\ latest' \in {latest, UpdateLast(f, View)} /\ queue' \in Seq(Updaters) /\ queue' # <<>>
    BY <1>1, <1>2, <2>3, EnqueueTwo
  <2> QED BY <1>1, <1>3, <1>5, <2>4 DEF x, f
<1> QED BY <1>4, <1>5

\* The flush timer: nothing to flush, or all that is pending.
LEMMA FlushViews ==
  ASSUME Conv, PendType, FlushTimer, timer = gen, pend.gen = gen
  PROVE  /\ UNCHANGED <<messages, saved, page, shown, gen, req, ctl, source, abort, requesting>>
         /\ queue' \in Seq(Updaters)
         /\ \/ /\ pend.text = <<>> /\ UNCHANGED <<queue, latest, pend>>
               /\ View' = View /\ Base' = Base
            \/ /\ pend.text # <<>> /\ pend' = NoText(gen)
               /\ View' = UpdateLast(FlushUpdater, View)
               /\ Base' \in {Base, View'}
               /\ latest' \in {latest, View'}
<1> DEFINE f == FlushUpdater
<1>1. f \in PlainUpdaters /\ f.gen = gen /\ gen \in Nat /\ queue \in Seq(Updaters)
  BY FlushPlain DEF PendType, Conv
<1>2. /\ UNCHANGED <<messages, saved, page, shown, gen, req, ctl, source, abort, requesting>>
      /\ Enqueue(FlushOf(gen)) /\ pend' = IF FlushOf(gen) = <<>> THEN pend ELSE NoText(gen)
  BY DEF FlushTimer, Enqueue
<1> HIDE DEF f
<1>3. CASE pend.text = <<>>
  <2>1. FlushOf(gen) = <<>>
    BY <1>3, FlushShape
  <2>2. queue' = queue /\ latest' = latest /\ View' = View /\ Base' = Base
    BY <1>2, <2>1, EnqueueNone
  <2> QED BY <1>1, <1>2, <1>3, <2>1, <2>2
<1>4. CASE pend.text # <<>>
  <2>1. FlushOf(gen) = <<f>>
    BY <1>4, FlushShape DEF f
  <2>2. /\ View' = UpdateLast(f, View) /\ Base' \in {Base, UpdateLast(f, View)}
        /\ latest' \in {latest, UpdateLast(f, View)} /\ queue' \in Seq(Updaters) /\ queue' # <<>>
    BY <1>1, <1>2, <2>1, EnqueueOne
  <2>3. <<f>> # <<>>
    OBVIOUS
  <2> QED BY <1>1, <1>2, <1>4, <2>1, <2>2, <2>3 DEF f
<1> QED BY <1>3, <1>4

\* A new request: the conversation is the one it was sent with.
LEMMA SendViews ==
  ASSUME Conv, NEW ms \in Seq(Messages), SendChat(ms)
  PROVE  /\ messages' = ms /\ View' = ms /\ Base' = ms /\ queue' = <<>>
         /\ latest' \in {latest, ms} /\ saved' = saved
<1>1. RenderWith(Append(queue, SetMessages(ms))) /\ saved' = saved
  BY DEF SendChat
<1>2. messages' = ms
  BY <1>1, SetConv
<1> QED BY <1>1, <1>2, RenderViews

\* A send moves everything to the new request and generation.
LEMMA SendCtl ==
  ASSUME CtlInv, NEW ms, SendChat(ms), editing' \in Keys \cup {NoKey}
  PROVE  CtlInv'
<1> DEFINE n == Len(req) + 1
<1>1. /\ n \in Requests /\ gen' = gen + 1 /\ pend' = NoText(gen + 1) /\ timer' = 0 /\ requesting' = TRUE
      /\ source' = 0 /\ queue' = <<>> /\ shown' = TRUE /\ UNCHANGED <<page, uses>>
      /\ saving' \in BOOLEAN
  BY DEF SendChat, RenderWith, NextRequest, CtlInv
<1>2. \E p \in {"headers", "waiting"} :
         /\ req' = Append(req, [gen |-> gen + 1, phase |-> p, sent |-> 0])
         /\ \/ p = "headers" /\ ctl' = n /\ abort' = 0
            \/ p = "waiting" /\ ctl' = 0 /\ abort' = n
  BY DEF SendChat, StartStream, StartPlain, NextRequest
<1>3. PICK p \in {"headers", "waiting"} :
         /\ req' = Append(req, [gen |-> gen + 1, phase |-> p, sent |-> 0])
         /\ \/ p = "headers" /\ ctl' = n /\ abort' = 0
            \/ p = "waiting" /\ ctl' = 0 /\ abort' = n
  BY <1>2
<1>4. gen \in Nat /\ gen + 1 \in Nat \ {0} /\ req \in Seq(ReqType) /\ n = Len(req) + 1 /\ Len(req) \in Nat
  BY DEF CtlInv, PendType, HandlerSound
<1>5. [gen |-> gen + 1, phase |-> p, sent |-> 0] \in ReqType
  BY <1>4, Constants DEF ReqType
<1>6. /\ req' \in Seq(ReqType) /\ Len(req') = n /\ req'[n].gen = gen + 1 /\ req'[n].phase = p
  BY <1>3, <1>4, <1>5
<1>7. pend' \in [gen : Nat, text : Texts] /\ pend'.gen = gen + 1 /\ pend'.text = <<>>
  BY <1>1, <1>4 DEF NoText, Texts
<1>8. n <= MaxRequests
  BY <1>1, Constants DEF Requests
<1> HIDE DEF n
<1>9. HandlerSound'
  BY <1>1, <1>3, <1>4, <1>6, <1>7 DEF HandlerSound, Running
<1>10. GensBounded'
  <2>1. gen <= 2 * Len(req) + uses /\ uses \in Nat
    BY <1>4, Constants DEF CtlInv, GensBounded
  <2>2. gen' = gen + 1 /\ uses' = uses /\ Len(req') = Len(req) + 1
    BY <1>1, <1>4, <1>6
  <2>3. (gen + 1) + 1 <= 2 * (Len(req) + 1) + uses
    BY <1>4, <2>1
  <2> QED BY <1>4, <2>1, <2>2, <2>3 DEF GensBounded
<1> QED BY <1>1, <1>3, <1>4, <1>6, <1>7, <1>8, <1>9, <1>10 DEF CtlInv, PendType, Requests

\* The inductive invariant behind TypeOK.
TypeInv == CtlInv /\ Conv

\* Steps that change at most the editor and the stored copies.
LEMMA QuietType ==
  ASSUME TypeInv, UNCHANGED <<page, messages, shown, queue, chat, uses>>,
         saving' \in BOOLEAN, editing' \in Keys \cup {NoKey},
         latest' \in Seq(Messages), saved' \in Seq(Messages)
  PROVE  TypeInv'
<1>1. CtlInv'
  BY QuietCtl DEF TypeInv
<1>2. gen' = gen
  BY DEF chat
<1>3. View' = View /\ Base' = Base
  BY <1>2, QuietViews
<1> QED BY <1>1, <1>3 DEF TypeInv, Conv

\* Steps that leave the conversation alone.
LEMMA ConvKept ==
  ASSUME Conv, UNCHANGED <<messages, queue, gen, latest, saved>>
  PROVE  Conv'
<1>1. View' = View /\ Base' = Base
  BY QuietViews
<1> QED BY <1>1 DEF Conv

\* Steps after which nothing is queued.
LEMMA ConvRendered ==
  ASSUME Conv, queue' = <<>>, messages' \in Seq(Messages), View' = messages', Base' = messages',
         latest' \in {latest, messages'}, saved' = saved
  PROVE  Conv'
BY DEF Conv

\* The request an event is for, when the event counts.
LEMMA CurrentRequest ==
  ASSUME CtlInv, NEW r \in DOMAIN req,
         (ctl = r /\ req[r].phase = "headers") \/ source = r \/ abort = r
  PROVE  /\ r \in Asked /\ r = Len(req) /\ req[r].gen = gen /\ pend.gen = gen
         /\ Running /\ shown /\ requesting /\ (ctl # 0 => ctl = r)
<1>1. r \in 1..Len(req) /\ Len(req) \in Nat /\ Len(req) <= MaxRequests /\ r # 0
  BY DEF CtlInv, HandlerSound
<1>2. r \in Asked
  BY <1>1, Constants DEF Asked
<1>3. Running /\ r = Len(req) /\ req[r].gen = gen /\ (ctl # 0 => ctl = r)
  BY <1>1 DEF CtlInv, HandlerSound, Running
<1> QED BY <1>2, <1>3 DEF CtlInv, HandlerSound

\* The end of the current request keeps the types.
LEMMA OutcomeType ==
  ASSUME TypeInv, NEW r \in DOMAIN req, NEW kind \in {"done", "error", "answer"}, Outcome(r, kind),
         (ctl = r /\ req[r].phase = "headers") \/ source = r \/ abort = r,
         abort' = 0, source' = 0
  PROVE  TypeInv'
<1>1. CtlInv /\ Conv /\ PendType
  BY DEF TypeInv, CtlInv
<1>2. /\ r \in Asked /\ r = Len(req) /\ req[r].gen = gen /\ pend.gen = gen /\ shown /\ (ctl # 0 => ctl = r)
  BY <1>1, CurrentRequest
<1>3. /\ UNCHANGED <<messages, saved, page, shown, gen>>
      /\ queue' \in Seq(Updaters) /\ queue' # <<>>
      /\ \/ /\ pend.text = <<>>
            /\ View' = UpdateLast(OutcomeUpdater(kind, r), View)
            /\ Base' \in {Base, View'}
            /\ latest' \in {latest, View'}
         \/ /\ pend.text # <<>>
            /\ View' = UpdateLast(OutcomeUpdater(kind, r), UpdateLast(FlushUpdater, View))
            /\ Base' \in {Base, UpdateLast(FlushUpdater, View)}
            /\ latest' \in {latest, UpdateLast(FlushUpdater, View)}
  BY <1>1, <1>2, OutcomeViews
<1>4. CtlInv'
  BY <1>1, <1>2, <1>3, OutcomeCtl
<1>5. OutcomeUpdater(kind, r) \in PlainUpdaters /\ FlushUpdater \in PlainUpdaters
  BY <1>1, <1>2, OutcomePlain, FlushPlain DEF PendType
<1>6. UpdateLast(FlushUpdater, View) \in Seq(Messages) /\ View' \in Seq(Messages)
  BY <1>1, <1>3, <1>5, UpdateLastType DEF Conv
<1> QED BY <1>1, <1>3, <1>4, <1>6 DEF TypeInv, Conv

\* Everything the network does keeps the types.
LEMMA NetworkType ==
  ASSUME TypeInv, NEW r \in DOMAIN req, Network(r)
  PROVE  TypeInv'
<1>0. CtlInv /\ Conv
  BY DEF TypeInv
<1>1. CASE HeadersReady(r)
  <2>1. CtlInv'
    BY <1>0, <1>1, HeadersReadyCtl
  <2>2. UNCHANGED <<messages, queue, gen, latest, saved>>
    BY <1>1 DEF HeadersReady, Ignored
  <2> QED BY <1>0, <2>1, <2>2, ConvKept DEF TypeInv
<1>2. CASE HeadersFailed(r)
  <2>1. source = 0 /\ abort = 0
    BY <1>0, <1>2 DEF HeadersFailed, CtlInv, HandlerSound
  <2>2. ctl = r /\ req[r].phase = "headers" /\ Outcome(r, "error") /\ abort' = 0 /\ source' = 0
    BY <1>2, <2>1 DEF HeadersFailed
  <2> QED BY <2>2, OutcomeType
<1>3. ASSUME NEW n \in DOMAIN Script, StreamDelta(r, n)
      PROVE  TypeInv'
  <2>1. CtlInv'
    BY <1>0, <1>3, StreamDeltaCtl
  <2>2. UNCHANGED <<messages, queue, gen, latest, saved>>
    BY <1>3 DEF StreamDelta
  <2> QED BY <1>0, <2>1, <2>2, ConvKept DEF TypeInv
<1>4. ASSUME NEW kind \in {"done", "error"}, StreamEnds(r, kind)
      PROVE  TypeInv'
  <2>1. CASE ~IsCurrent(r)
    <3>1. Ignored(r) /\ req[r].phase = "open"
      BY <1>4, <2>1 DEF StreamEnds, Delivered
    <3>2. ctl # r /\ source # r /\ abort # r
      BY <1>0, <2>1, <3>1 DEF CtlInv, HandlerSound, IsCurrent
    <3>3. CtlInv'
      BY <1>0, <3>1, <3>2, IgnoredCtl
    <3>4. UNCHANGED <<messages, queue, gen, latest, saved>>
      BY <3>1 DEF Ignored
    <3> QED BY <1>0, <3>3, <3>4, ConvKept DEF TypeInv
  <2>2. CASE IsCurrent(r)
    <3>1. Outcome(r, kind) /\ source' = 0 /\ abort' = abort /\ source = r /\ ctl = r
      BY <1>4, <2>2 DEF StreamEnds, IsCurrent
    <3>2. abort = 0
      BY <1>0, <3>1 DEF CtlInv, HandlerSound
    <3> QED BY <3>1, <3>2, OutcomeType
  <2> QED BY <2>1, <2>2
<1>5. ASSUME NEW kind \in {"answer", "error"}, PlainEnds(r, kind)
      PROVE  TypeInv'
  <2>0. req[r].phase = "waiting"
    BY <1>5 DEF PlainEnds
  <2>1. CASE abort # r \/ req[r].gen # gen
    <3>1. Ignored(r)
      BY <1>5, <2>1 DEF PlainEnds
    <3>2. source # r /\ abort # r
      BY <1>0, <2>0, <2>1 DEF CtlInv, HandlerSound
    <3>3. CtlInv'
      BY <1>0, <2>0, <3>1, <3>2, IgnoredCtl
    <3>4. UNCHANGED <<messages, queue, gen, latest, saved>>
      BY <3>1 DEF Ignored
    <3> QED BY <1>0, <3>3, <3>4, ConvKept DEF TypeInv
  <2>2. CASE ~ (abort # r \/ req[r].gen # gen)
    <3>1. Outcome(r, kind) /\ abort' = 0 /\ source' = source /\ abort = r
      BY <1>5, <2>2 DEF PlainEnds
    <3>2. source = 0
      BY <1>0, <3>1 DEF CtlInv, HandlerSound
    <3> QED BY <3>1, <3>2, OutcomeType
  <2> QED BY <2>1, <2>2
<1>6. CASE StreamCut(r)
  <2>1. CtlInv'
    BY <1>0, <1>6, StreamCutCtl
  <2>2. UNCHANGED <<messages, queue, gen, latest, saved>>
    BY <1>6 DEF StreamCut
  <2> QED BY <1>0, <2>1, <2>2, ConvKept DEF TypeInv
<1> QED BY <1>1, <1>2, <1>3, <1>4, <1>5, <1>6 DEF Network

\* A render of the present chat: the stop button is shown only if it was.
LEMMA RenderedCtl ==
  ASSUME CtlInv, UNCHANGED <<page, chat>>, queue' = <<>>, shown' = (requesting \/ source # 0),
         saving' \in BOOLEAN, editing' \in Keys \cup {NoKey}, uses' \in {uses, uses + 1}, uses' <= MaxUses
  PROVE  CtlInv'
<1>1. shown' \in BOOLEAN /\ (shown' => shown) /\ (requesting => shown')
  <2>1. source # 0 => requesting
    BY CurrentRuns
  <2>2. (requesting => shown) /\ requesting \in BOOLEAN
    BY DEF CtlInv, HandlerSound
  <2> QED BY <2>1, <2>2
<1>2. uses \in Nat /\ uses' \in Nat /\ uses <= uses' /\ uses' \in 0..MaxUses /\ gen \in Nat /\ Len(req) \in Nat
  BY Constants DEF CtlInv, PendType, HandlerSound
<1>3. GensBounded'
  BY <1>1, <1>2 DEF CtlInv, GensBounded, chat
<1>4. HandlerSound'
  BY <1>1 DEF CtlInv, HandlerSound, Running, chat
<1> QED BY <1>1, <1>2, <1>3, <1>4 DEF CtlInv, PendType, chat

\* What a render does beside the conversation.
LEMMA RenderFacts ==
  ASSUME NEW q, RenderWith(q), UNCHANGED chat, saving \in BOOLEAN
  PROVE  queue' = <<>> /\ shown' = (requesting \/ source # 0) /\ saving' \in BOOLEAN
BY DEF RenderWith, chat

\* A render keeps the types.
LEMMA RenderType ==
  ASSUME TypeInv, Render
  PROVE  TypeInv'
<1>1. RenderWith(queue) /\ UNCHANGED chat /\ UNCHANGED <<page, editing, saved, uses>>
  BY DEF Render
<1>2. queue' = <<>> /\ shown' = (requesting \/ source # 0) /\ saving' \in BOOLEAN
  BY <1>1, RenderFacts DEF TypeInv, CtlInv
<1>3. CtlInv'
  BY <1>1, <1>2, RenderedCtl, Constants DEF TypeInv, CtlInv
<1>4. View' = messages' /\ Base' = messages' /\ latest' \in {latest, messages'} /\ messages' = View
  BY <1>1, RenderViews, RenderConv
<1> QED BY <1>1, <1>2, <1>3, <1>4, ConvRendered DEF TypeInv, Conv

\* The flush timer keeps the types.
LEMMA FlushType ==
  ASSUME TypeInv, FlushTimer
  PROVE  TypeInv'
<1>1. CtlInv /\ Conv /\ PendType /\ timer = gen /\ timer # 0 /\ pend.gen = gen /\ timer' = 0
  BY DEF TypeInv, CtlInv, HandlerSound, FlushTimer
<1>2. /\ UNCHANGED <<messages, saved, page, shown, gen, req, ctl, source, abort, requesting>>
      /\ queue' \in Seq(Updaters)
      /\ \/ /\ pend.text = <<>> /\ UNCHANGED <<queue, latest, pend>>
            /\ View' = View /\ Base' = Base
         \/ /\ pend.text # <<>> /\ pend' = NoText(gen)
            /\ View' = UpdateLast(FlushUpdater, View)
            /\ Base' \in {Base, View'}
            /\ latest' \in {latest, View'}
  BY <1>1, FlushViews
<1>3. UpdateLast(FlushUpdater, View) \in Seq(Messages)
  BY <1>1, FlushPlain, UpdateLastType DEF Conv
<1>4. Conv'
  BY <1>1, <1>2, <1>3 DEF Conv
<1>5. shown /\ source # 0
  BY <1>1, CurrentRuns DEF CtlInv, HandlerSound
<1>6. pend' \in [gen : Nat, text : Texts] /\ pend'.gen = gen /\ pend'.text = <<>>
  <2>1. CASE pend.text = <<>>
    BY <1>1, <1>2, <2>1 DEF PendType
  <2>2. CASE pend' = NoText(gen)
    BY <1>1, <2>2 DEF NoText, PendType, Texts
  <2> QED BY <1>2, <2>1, <2>2
<1>7. UNCHANGED <<editing, uses>> /\ saving' \in BOOLEAN
  BY <1>1 DEF FlushTimer, Enqueue, CtlInv
<1>8. CtlInv'
  BY <1>1, <1>2, <1>5, <1>6, <1>7 DEF CtlInv, HandlerSound, Running, GensBounded, PendType
<1> QED BY <1>4, <1>8 DEF TypeInv

\* A send keeps the types.
LEMMA SendType ==
  ASSUME TypeInv, NEW ms \in Seq(Messages), SendChat(ms), editing' \in Keys \cup {NoKey}
  PROVE  TypeInv'
<1>1. CtlInv'
  BY SendCtl DEF TypeInv
<1>2. /\ messages' = ms /\ View' = ms /\ Base' = ms /\ queue' = <<>>
      /\ latest' \in {latest, ms} /\ saved' = saved
  BY SendViews DEF TypeInv
<1> QED BY <1>1, <1>2, ConvRendered DEF TypeInv

\* The number of a new request is within the bound.
LEMMA SentMessages ==
  ASSUME CtlInv, NextRequest \in Requests
  PROVE  UserMessage(NextRequest) \in Messages /\ LoadingMessage(NextRequest) \in Messages
<1>1. NextRequest \in Asked
  BY Constants DEF Requests, Asked
<1> QED BY <1>1, MessageTypes

\* A key on the screen has a position.
LEMMA PositionIn ==
  ASSUME NEW k \in Keys0
  PROVE  Position(messages, k) \in DOMAIN messages /\ messages[Position(messages, k)].key = k
BY DEF Keys0, Position

\* createRegeneratedMessages keeps a prefix that ends at or before the message.
LEMMA UpToType ==
  ASSUME messages \in Seq(Messages), NEW k \in Keys0
  PROVE  \E n \in 0..Len(messages) : UpTo(k) = SubSeq(messages, 1, n) /\ UpTo(k) \in Seq(Messages)
           /\ n \in {Position(messages, k), Position(messages, k) - 1}
<1> DEFINE i == Position(messages, k)
<1>1. i \in 1..Len(messages)
  BY PositionIn
<1> HIDE DEF i
<1>2. CASE k.from = "user"
  <2>1. UpTo(k) = SubSeq(messages, 1, i)
    BY <1>2 DEF UpTo, i
  <2>2. SubSeq(messages, 1, i) \in Seq(Messages) /\ i \in 0..Len(messages)
    BY <1>1
  <2> QED BY <2>1, <2>2 DEF i
<1>3. CASE k.from # "user"
  <2>1. UpTo(k) = SubSeq(messages, 1, i - 1)
    BY <1>3 DEF UpTo, i
  <2>2. SubSeq(messages, 1, i - 1) \in Seq(Messages) /\ i - 1 \in 0..Len(messages)
    BY <1>1
  <2> QED BY <2>1, <2>2 DEF i
<1> QED BY <1>2, <1>3

\* A stop keeps the types.
LEMMA StopType ==
  ASSUME TypeInv, StopGeneration
  PROVE  TypeInv'
<1>1. CtlInv /\ Conv /\ PendType
  BY DEF TypeInv, CtlInv
<1>2. PICK q : RenderWith(q)
  BY DEF StopGeneration
<1>3. /\ queue' = <<>> /\ View' = messages' /\ Base' = messages' /\ latest' \in {latest, messages'}
  BY <1>2, RenderViews
<1>4. messages' \in Seq(Messages)
  BY <1>1, StopConv, FlushPlain, UpdateLastType DEF Conv
<1>5. Conv'
  BY <1>1, <1>3, <1>4, ConvRendered DEF StopGeneration
<1>6. /\ shown /\ gen' = gen + 1 /\ pend' = NoText(gen + 1) /\ timer' = 0 /\ requesting' = FALSE /\ ctl' = 0
      /\ source' = 0 /\ abort' = 0 /\ UNCHANGED <<req, page, editing, uses>>
  BY DEF StopGeneration
<1>7. shown' = FALSE /\ saving' \in BOOLEAN
  BY <1>1, <1>2, <1>6 DEF RenderWith, CtlInv
<1>8. gen \in Nat /\ pend' \in [gen : Nat, text : Texts] /\ pend'.gen = gen + 1 /\ pend'.text = <<>>
  BY <1>1, <1>6 DEF NoText, PendType, Texts
<1>9. CtlInv'
  <2>1. HandlerSound'
    BY <1>1, <1>3, <1>6, <1>7, <1>8 DEF CtlInv, HandlerSound, Running
  <2>2. GensBounded'
    BY <1>1, <1>6, <1>7, <1>8 DEF CtlInv, HandlerSound, GensBounded
  <2> QED BY <1>1, <1>6, <1>7, <1>8, <2>1, <2>2 DEF CtlInv, PendType
<1> QED BY <1>5, <1>9 DEF TypeInv

\* Leaving the page keeps the types.
LEMMA GoneType ==
  ASSUME TypeInv, Gone, saved' \in {saved, latest}
  PROVE  TypeInv'
<1>1. CtlInv /\ Conv /\ PendType
  BY DEF TypeInv, CtlInv
<1>2. /\ uses < MaxUses /\ uses' = uses + 1 /\ page' = "away" /\ gen' = gen + 1 /\ pend' = NoText(gen + 1)
      /\ timer' = 0 /\ requesting' = FALSE /\ ctl' = 0 /\ source' = 0 /\ abort' = 0
      /\ messages' = <<>> /\ latest' = <<>> /\ shown' = FALSE /\ queue' = <<>> /\ editing' = NoKey
      /\ saving' = FALSE /\ req' = req
  BY DEF Gone, Use
<1>3. View' = <<>> /\ Base' = <<>>
  BY <1>2, EmptyViewsPrime
<1>4. Conv'
  BY <1>1, <1>2, <1>3 DEF Conv
<1>5. gen \in Nat /\ pend' \in [gen : Nat, text : Texts] /\ pend'.gen = gen + 1 /\ pend'.text = <<>>
  BY <1>1, <1>2 DEF NoText, PendType, Texts
<1>6. CtlInv'
  <2>1. HandlerSound'
    BY <1>1, <1>2, <1>5 DEF CtlInv, HandlerSound, Running
  <2>2. GensBounded'
    BY <1>1, <1>2, <1>5 DEF CtlInv, HandlerSound, GensBounded
  <2>3. uses' \in 0..MaxUses /\ PendType'
    BY <1>1, <1>2, <1>5, Constants DEF CtlInv, PendType
  <2>4. {ctl', source', abort'} \subseteq Requests \cup {0} /\ timer' \in {0, gen'}
    BY <1>2
  <2>5. Len(req') <= MaxRequests
    BY <1>1, <1>2 DEF CtlInv
  <2> QED BY <1>2, <2>1, <2>2, <2>3, <2>4, <2>5 DEF CtlInv
<1> QED BY <1>4, <1>6 DEF TypeInv

\* Loading keeps the types.
LEMMA LoadType ==
  ASSUME TypeInv, Load
  PROVE  TypeInv'
<1>1. CtlInv /\ Conv
  BY DEF TypeInv
<1>2. /\ page' = "ready" /\ messages' = Sanitized(Normalized(saved)) /\ queue' = <<>> /\ latest' = messages'
      /\ saved' = messages' /\ UNCHANGED <<shown, chat, editing, saving, uses>>
  BY DEF Load
<1>3. messages' \in Seq(Messages)
  BY <1>1, <1>2, RepairType DEF Conv
<1>4. View' = messages' /\ Base' = messages'
  BY <1>2, EmptyViewsPrime
<1>5. Conv'
  BY <1>2, <1>3, <1>4 DEF Conv
<1>6. CtlInv'
  BY <1>1, <1>2 DEF CtlInv, HandlerSound, Running, GensBounded, PendType, chat
<1> QED BY <1>5, <1>6 DEF TypeInv

\* Everything the user does keeps the types.
LEMMA UserType ==
  ASSUME TypeInv, User
  PROVE  TypeInv'
<1>0. CtlInv /\ Conv /\ messages \in Seq(Messages) /\ latest \in Seq(Messages) /\ saved \in Seq(Messages)
  BY DEF TypeInv, Conv
<1>1. CASE Send
  <2>1. NextRequest \in Requests
    BY <1>1 DEF Send, SendChat
  <2>2. UserMessage(NextRequest) \in Messages /\ LoadingMessage(NextRequest) \in Messages
    BY <1>0, <2>1, SentMessages
  <2> DEFINE ms == messages \o <<UserMessage(NextRequest), LoadingMessage(NextRequest)>>
  <2>3. ms \in Seq(Messages)
    BY <1>0, <2>2
  <2>4. SendChat(ms) /\ editing' = editing
    BY <1>1 DEF Send
  <2> HIDE DEF ms
  <2> QED BY <1>0, <2>3, <2>4, SendType DEF CtlInv
<1>2. CASE StopGeneration
  BY <1>2, StopType
<1>3. CASE SaveEdit
  <2>1. RenderWith(Append(queue, SetMessages(messages))) /\ UNCHANGED chat /\ UNCHANGED <<page, saved, uses>> /\ editing' = NoKey
    BY <1>3 DEF SaveEdit
  <2>2. queue' = <<>> /\ shown' = (requesting \/ source # 0) /\ saving' \in BOOLEAN
    BY <1>0, <2>1, RenderFacts DEF CtlInv
  <2>3. CtlInv'
    BY <1>0, <2>1, <2>2, RenderedCtl, Constants DEF CtlInv
  <2>4. View' = messages' /\ Base' = messages' /\ latest' \in {latest, messages'} /\ messages' = messages
    BY <1>0, <2>1, RenderViews, SetConv
  <2> QED BY <1>0, <2>1, <2>2, <2>3, <2>4, ConvRendered DEF TypeInv
<1>4. CASE SubmitEdit
  <2>1. NextRequest \in Requests /\ editing \in Keys0 /\ editing' = NoKey
    BY <1>4 DEF SubmitEdit, SendChat
  <2> DEFINE ms == Append(UpTo(editing), LoadingMessage(NextRequest))
  <2>2. ms \in Seq(Messages)
    BY <1>0, <2>1, SentMessages, UpToType
  <2>3. SendChat(ms)
    BY <1>4 DEF SubmitEdit
  <2> HIDE DEF ms
  <2> QED BY <2>1, <2>2, <2>3, SendType
<1>5. CASE CancelEdit
  BY <1>0, <1>5, QuietType DEF CancelEdit, CtlInv
<1>6. CASE ClearMessages
  <2>1. RenderWith(Append(queue, SetMessages(<<>>))) /\ UNCHANGED chat /\ UNCHANGED <<page, saved>> /\ editing' = NoKey
        /\ uses < MaxUses /\ uses' = uses + 1
    BY <1>6 DEF ClearMessages, Use
  <2>2. queue' = <<>> /\ shown' = (requesting \/ source # 0) /\ saving' \in BOOLEAN
    BY <1>0, <2>1, RenderFacts DEF CtlInv
  <2>3. CtlInv'
    BY <1>0, <2>1, <2>2, RenderedCtl, Constants DEF CtlInv
  <2>4. <<>> \in Seq(Messages)
    OBVIOUS
  <2>5. View' = messages' /\ Base' = messages' /\ latest' \in {latest, messages'} /\ messages' = <<>>
    BY <1>0, <2>1, <2>4, RenderViews, SetConv
  <2> QED BY <1>0, <2>1, <2>2, <2>3, <2>4, <2>5, ConvRendered DEF TypeInv
<1>7. ASSUME NEW k \in Keys0, Regenerate(k) PROVE TypeInv'
  <2>1. NextRequest \in Requests /\ editing' = editing
    BY <1>7 DEF Regenerate, SendChat
  <2> DEFINE ms == Append(UpTo(k), LoadingMessage(NextRequest))
  <2>2. ms \in Seq(Messages)
    BY <1>0, <2>1, SentMessages, UpToType
  <2>3. SendChat(ms)
    BY <1>7 DEF Regenerate
  <2> HIDE DEF ms
  <2> QED BY <1>0, <2>1, <2>2, <2>3, SendType DEF CtlInv
<1>8. ASSUME NEW k \in Keys0, OpenEditor(k) PROVE TypeInv'
  <2>1. /\ UNCHANGED <<page, messages, shown, queue, chat, latest, saving, saved>>
        /\ editing' = k /\ uses < MaxUses /\ uses' = uses + 1
    BY <1>8 DEF OpenEditor, Use
  <2>2. k \in Keys
    <3>1. PICK i \in DOMAIN messages : k = messages[i].key
      BY DEF Keys0
    <3>2. messages[i] \in Messages
      BY <1>0
    <3> QED BY <3>1, <3>2 DEF Messages
  <2>3. CtlInv'
    BY <1>0, <2>1, <2>2, Constants DEF CtlInv, HandlerSound, Running, GensBounded, PendType, chat
  <2>4. UNCHANGED <<messages, queue, gen, latest, saved>>
    BY <2>1 DEF chat
  <2> QED BY <1>0, <2>3, <2>4, ConvKept DEF TypeInv
<1>9. ASSUME NEW k \in Keys0, Delete(k) PROVE TypeInv'
  <2>1. RenderWith(Append(queue, DeleteMessage(k))) /\ UNCHANGED chat /\ UNCHANGED <<page, saved, editing>>
        /\ uses < MaxUses /\ uses' = uses + 1 /\ gen' = gen
    BY <1>9 DEF Delete, Use, chat
  <2>2. queue' = <<>> /\ shown' = (requesting \/ source # 0) /\ saving' \in BOOLEAN
    BY <1>0, <2>1, RenderFacts DEF CtlInv
  <2>3. CtlInv'
    BY <1>0, <2>1, <2>2, RenderedCtl, Constants DEF CtlInv
  <2>4. messages' \in Seq(Messages)
    BY <1>0, <2>1, DeleteConv, WithoutType DEF Conv
  <2>5. View' = messages' /\ Base' = messages' /\ latest' \in {latest, messages'}
    BY <2>1, RenderViews
  <2> QED BY <1>0, <2>1, <2>2, <2>3, <2>4, <2>5, ConvRendered DEF TypeInv
<1> QED BY <1>1, <1>2, <1>3, <1>4, <1>5, <1>6, <1>7, <1>8, <1>9 DEF User

\* TypeInv is inductive.
LEMMA TypeStep == TypeInv /\ [Next]_vars => TypeInv'
<1> SUFFICES ASSUME TypeInv, [Next]_vars PROVE TypeInv'
  OBVIOUS
<1>0. CtlInv /\ Conv
  BY DEF TypeInv
<1>1. CASE \E r \in DOMAIN req : Network(r)
  BY <1>1, NetworkType
<1>2. CASE Render
  BY <1>2, RenderType
<1>3. CASE FlushTimer
  BY <1>3, FlushType
<1>4. CASE SaveTimer
  BY <1>0, <1>4, QuietType DEF SaveTimer, CtlInv, Conv
<1>5. CASE Load
  BY <1>5, LoadType
<1>6. CASE User
  BY <1>6, UserType
<1>7. CASE Enter
  <2>1. page' = "loading" /\ UNCHANGED <<messages, shown, queue, chat, editing, latest, saving, saved, uses>>
    BY <1>7 DEF Enter
  <2>2. CtlInv'
    BY <1>0, <2>1 DEF CtlInv, HandlerSound, Running, GensBounded, PendType, chat
  <2>3. UNCHANGED <<messages, queue, gen, latest, saved>>
    BY <2>1 DEF chat
  <2> QED BY <1>0, <2>2, <2>3, ConvKept DEF TypeInv
<1>8. CASE Unmount
  <2>1. Gone /\ saved' \in {saved, latest}
    BY <1>8 DEF Unmount
  <2> QED BY <2>1, GoneType
<1>9. CASE Close
  <2>1. Gone /\ saved' \in {saved, latest}
    BY <1>9 DEF Close
  <2> QED BY <2>1, GoneType
<1>10. CASE UNCHANGED vars
  BY <1>0, <1>10, QuietType DEF vars, CtlInv, Conv
<1> QED BY <1>1, <1>2, <1>3, <1>4, <1>5, <1>6, <1>7, <1>8, <1>9, <1>10 DEF Next

\* The first state.
LEMMA TypeInit == Init => TypeInv
<1> SUFFICES ASSUME Init PROVE TypeInv
  OBVIOUS
<1>1. View = <<>> /\ Base = <<>>
  BY EmptyViews DEF Init
<1>2. Conv
  BY <1>1, EarlierType DEF Init, Conv
<1>3. pend \in [gen : Nat, text : Texts] /\ pend.gen = 0 /\ pend.text = <<>>
  BY DEF Init, NoText, Texts
<1>4. HandlerSound
  BY <1>3 DEF Init, HandlerSound, Running
<1>5. GensBounded
  BY DEF Init, GensBounded
<1>6. CtlInv
  <2>1. uses \in 0..MaxUses /\ PendType /\ Len(req) <= MaxRequests
    BY <1>3, Constants DEF Init, PendType
  <2>2. {ctl, source, abort} \subseteq Requests \cup {0} /\ timer \in {0, gen}
    BY DEF Init
  <2> QED BY <1>4, <1>5, <2>1, <2>2 DEF Init, CtlInv
<1> QED BY <1>2, <1>6 DEF TypeInv

\* TypeInv is stronger than TypeOK.
LEMMA TypeImplies == TypeInv => TypeOK
<1> SUFFICES ASSUME TypeInv PROVE TypeOK
  OBVIOUS
<1>1. gen \in Gens
  <2>1. gen \in Nat /\ Len(req) \in Nat /\ uses \in Nat /\ uses <= MaxUses /\ Len(req) <= MaxRequests
    BY Constants DEF TypeInv, CtlInv, PendType, HandlerSound
  <2>2. gen <= 2 * Len(req) + uses
    BY <2>1 DEF TypeInv, CtlInv, GensBounded
  <2> QED BY <2>1, <2>2, Constants DEF Gens
<1> QED BY <1>1 DEF TypeInv, CtlInv, Conv, TypeOK, PendType, HandlerSound

\* TypeOK holds for every number of requests, every script and every set of
\* faults: in particular the timer armed by scheduleStreamFlush always belongs
\* to the generation in requestGenerationRef, and the generations are bounded.
THEOREM PlaygroundTypeCorrect == Spec => []TypeOK
<1>1. Spec => []TypeInv
  BY TypeInit, TypeStep, PTL DEF Spec
<1> QED BY <1>1, TypeImplies, PTL

-----------------------------------------------------------------------------
(* Texts in order *)

\* The empty text is in order.
LEMMA OrderedEmpty ==
  ASSUME NEW r, NEW lo \in Nat, NEW hi \in Nat
  PROVE  Ordered(<<>>, r, lo, hi)
<1> DEFINE at == [j \in {} |-> 0]
<1>1. DOMAIN <<>> = {}
  OBVIOUS
<1>2. at \in [DOMAIN <<>> -> (lo + 1)..hi]
  BY <1>1
<1> QED BY <1>1, <1>2, Zenon DEF Ordered

\* Text in order within wider bounds.
LEMMA OrderedWiden ==
  ASSUME NEW t \in Texts, NEW r, NEW lo \in Nat, NEW hi \in Nat, NEW lo2 \in Nat, NEW hi2 \in Nat,
         lo2 <= lo, hi <= hi2, Ordered(t, r, lo, hi)
  PROVE  Ordered(t, r, lo2, hi2)
<1>1. PICK at \in [DOMAIN t -> (lo + 1)..hi] :
         /\ \A j \in DOMAIN t : t[j] = [req |-> r, letter |-> Script[at[j]]]
         /\ \A j, k \in DOMAIN t : j < k => at[j] < at[k]
  BY Zenon DEF Ordered
<1>2. (lo + 1)..hi \subseteq (lo2 + 1)..hi2
  OBVIOUS
<1>3. at \in [DOMAIN t -> (lo2 + 1)..hi2]
  BY <1>2
<1> QED BY <1>1, <1>3, Zenon DEF Ordered

\* Text in order followed by later text in order.
LEMMA OrderedConcat ==
  ASSUME NEW a \in Texts, NEW b \in Texts, NEW r, NEW lo \in Nat, NEW m \in Nat, NEW hi \in Nat,
         lo <= m, m <= hi, Ordered(a, r, lo, m), Ordered(b, r, m, hi)
  PROVE  Ordered(a \o b, r, lo, hi)
<1>1. PICK f \in [DOMAIN a -> (lo + 1)..m] :
         /\ \A j \in DOMAIN a : a[j] = [req |-> r, letter |-> Script[f[j]]]
         /\ \A j, k \in DOMAIN a : j < k => f[j] < f[k]
  BY Zenon DEF Ordered
<1>2. PICK g \in [DOMAIN b -> (m + 1)..hi] :
         /\ \A j \in DOMAIN b : b[j] = [req |-> r, letter |-> Script[g[j]]]
         /\ \A j, k \in DOMAIN b : j < k => g[j] < g[k]
  BY Zenon DEF Ordered
<1>3. /\ Len(a) \in Nat /\ Len(b) \in Nat /\ DOMAIN a = 1..Len(a) /\ DOMAIN b = 1..Len(b)
      /\ DOMAIN (a \o b) = 1..(Len(a) + Len(b))
      /\ \A j \in 1..Len(a) : (a \o b)[j] = a[j]
      /\ \A j \in (Len(a) + 1)..(Len(a) + Len(b)) : (a \o b)[j] = b[j - Len(a)]
  BY DEF Texts
<1> DEFINE n == Len(a)  p == Len(b)  c == a \o b
           h == [j \in 1..(n + p) |-> IF j <= n THEN f[j] ELSE g[j - n]]
<1> HIDE DEF n, p, c
<1>4. ASSUME NEW j \in 1..(n + p)
      PROVE  /\ h[j] \in (lo + 1)..hi /\ c[j] = [req |-> r, letter |-> Script[h[j]]]
             /\ j <= n => j \in 1..n /\ h[j] = f[j] /\ f[j] \in (lo + 1)..m
             /\ ~ (j <= n) => j - n \in 1..p /\ h[j] = g[j - n] /\ g[j - n] \in (m + 1)..hi
  <2>0. n \in Nat /\ p \in Nat /\ DOMAIN a = 1..n /\ DOMAIN b = 1..p
    BY <1>3 DEF n, p
  <2>1. CASE j <= n
    <3>1. j \in 1..n /\ h[j] = f[j]
      BY <2>0, <2>1
    <3>2. f[j] \in (lo + 1)..m
      BY <2>0, <3>1
    <3>3. c[j] = [req |-> r, letter |-> Script[f[j]]]
      BY <1>1, <1>3, <2>0, <3>1, Zenon DEF c, n
    <3> QED BY <2>1, <3>1, <3>2, <3>3
  <2>2. CASE ~ (j <= n)
    <3>1. j - n \in 1..p /\ h[j] = g[j - n] /\ j \in (n + 1)..(n + p)
      BY <2>0, <2>2
    <3>2. g[j - n] \in (m + 1)..hi
      BY <2>0, <3>1
    <3>3. c[j] = [req |-> r, letter |-> Script[g[j - n]]]
      BY <1>2, <1>3, <2>0, <3>1, Zenon DEF c, n, p
    <3> QED BY <2>2, <3>1, <3>2, <3>3
  <2> QED BY <2>1, <2>2
<1>5. ASSUME NEW j \in 1..(n + p), NEW k \in 1..(n + p), j < k PROVE h[j] < h[k]
  <2>0. n \in Nat /\ p \in Nat /\ DOMAIN a = 1..n /\ DOMAIN b = 1..p
    BY <1>3 DEF n, p
  <2>1. /\ j <= n => j \in 1..n /\ h[j] = f[j] /\ f[j] \in (lo + 1)..m
        /\ ~ (j <= n) => j - n \in 1..p /\ h[j] = g[j - n] /\ g[j - n] \in (m + 1)..hi
    BY <1>4
  <2>2. /\ k <= n => k \in 1..n /\ h[k] = f[k] /\ f[k] \in (lo + 1)..m
        /\ ~ (k <= n) => k - n \in 1..p /\ h[k] = g[k - n] /\ g[k - n] \in (m + 1)..hi
    BY <1>4
  <2> HIDE DEF h
  <2>3. CASE k <= n
    <3>1. j <= n /\ k <= n
      BY <1>5, <2>0, <2>3
    <3>2. f[j] < f[k]
      BY <1>1, <1>5, <2>0, <2>1, <2>2, <3>1, Zenon
    <3> QED BY <2>1, <2>2, <3>1, <3>2, Zenon
  <2>4. CASE j <= n /\ ~ (k <= n)
    BY <2>1, <2>2, <2>4
  <2>5. CASE ~ (j <= n)
    <3>1. ~ (k <= n) /\ j - n < k - n
      BY <1>5, <2>0, <2>5
    <3> QED BY <1>2, <2>0, <2>1, <2>2, <2>5, <3>1
  <2> QED BY <2>3, <2>4, <2>5
<1>6. h \in [DOMAIN c -> (lo + 1)..hi] /\ DOMAIN c = 1..(n + p)
  <2>1. DOMAIN c = 1..(n + p)
    BY <1>3 DEF c, n, p
  <2> QED BY <1>4, <2>1
<1> HIDE DEF h
<1>7. Ordered(c, r, lo, hi)
  <2>1. \A j \in DOMAIN c : c[j] = [req |-> r, letter |-> Script[h[j]]]
    BY <1>4, <1>6, Zenon
  <2>2. \A j, k \in DOMAIN c : j < k => h[j] < h[k]
    BY <1>5, <1>6, Zenon
  <2> QED BY <1>6, <2>1, <2>2, Zenon DEF Ordered
<1> QED BY <1>7 DEF c

\* A delta is in order.
LEMMA OrderedDelta ==
  ASSUME NEW r \in Asked, NEW lo \in Nat, NEW hi \in lo..Len(Script)
  PROVE  Ordered(Delta(r, lo, hi), r, lo, hi)
<1> DEFINE n == hi - lo  d == Delta(r, lo, hi)  at == [j \in 1..n |-> lo + j]
<1>1. d \in Texts /\ Len(d) = n /\ \A j \in 1..n : d[j] = [req |-> r, letter |-> Script[lo + j]]
  BY DeltaType
<1>2. n \in Nat /\ lo + n = hi
  BY Constants
<1> HIDE DEF n, d
<1>3. DOMAIN d = 1..n
  BY <1>1 DEF Texts
<1>4. at \in [1..n -> (lo + 1)..hi] /\ \A j \in 1..n : at[j] = lo + j
  BY <1>2
<1>5. \A j, k \in 1..n : j < k => at[j] < at[k]
  BY <1>2, <1>4
<1> HIDE DEF at
<1>6. \A j \in 1..n : d[j] = [req |-> r, letter |-> Script[at[j]]]
  BY <1>1, <1>4
<1>7. Ordered(d, r, lo, hi)
  BY <1>3, <1>4, <1>5, <1>6, Zenon DEF Ordered
<1> QED BY <1>7 DEF d

\* A whole answer is in order.
LEMMA OrderedFull ==
  ASSUME NEW r \in Asked
  PROVE  Ordered(FullText(r), r, 0, Len(Script))
<1>1. Len(Script) \in 0..Len(Script) /\ 0 \in Nat
  BY Constants
<1> QED BY <1>1, OrderedDelta DEF FullText

\* A chunk of letters that came after the text keeps the text in order, whether
\* it is appended or taken for the whole text.
LEMMA OrderedMerge ==
  ASSUME NEW a \in Texts, NEW b \in Texts, NEW r, NEW lo \in Nat, NEW m \in Nat, NEW hi \in Nat,
         lo <= m, m <= hi, Ordered(a, r, lo, m), Ordered(b, r, m, hi)
  PROVE  Ordered(MergeChunk(a, b), r, lo, hi)
<1>1. Ordered(a \o b, r, lo, hi)
  BY OrderedConcat
<1>2. Ordered(b, r, lo, hi)
  BY OrderedWiden
<1> QED BY <1>1, <1>2, Zenon DEF MergeChunk

\* What OwnText asks of a message.
LEMMA OrderedOwn ==
  ASSUME NEW t, NEW r, Ordered(t, r, 0, Len(Script))
  PROVE  /\ \A j \in DOMAIN t : t[j].req = r
         /\ \A j, k \in DOMAIN t : j < k =>
              \E p, q \in DOMAIN Script : p < q /\ t[j].letter = Script[p] /\ t[k].letter = Script[q]
<1>1. PICK at \in [DOMAIN t -> (0 + 1)..Len(Script)] :
         /\ \A j \in DOMAIN t : t[j] = [req |-> r, letter |-> Script[at[j]]]
         /\ \A j, k \in DOMAIN t : j < k => at[j] < at[k]
  BY Zenon DEF Ordered
<1>2. ASSUME NEW j \in DOMAIN t PROVE t[j].req = r /\ t[j].letter = Script[at[j]] /\ at[j] \in DOMAIN Script
  <2>1. at[j] \in (0 + 1)..Len(Script)
    OBVIOUS
  <2>2. at[j] \in DOMAIN Script
    BY <2>1, Constants
  <2> QED BY <1>1, <2>2
<1> QED BY <1>1, <1>2, Zenon

-----------------------------------------------------------------------------
(* Sound conversations *)

\* A conversation stays sound when more requests are made.
LEMMA FineMore ==
  ASSUME NEW ms, NEW n \in Nat, NEW n2 \in Nat, n <= n2, Fine(ms, n)
  PROVE  Fine(ms, n2)
<1>1. ASSUME NEW i \in DOMAIN ms PROVE ms[i].key.id <= n2
  <2>1. ms[i].key.id <= n /\ ms[i] \in Messages
    BY DEF Fine
  <2>2. ms[i].key.id \in Int
    BY <2>1, Constants DEF Messages, Keys, Asked
  <2> QED BY <2>1, <2>2
<1> QED BY <1>1 DEF Fine

\* The empty conversation is sound.
LEMMA FineEmpty == ASSUME NEW n PROVE Fine(<<>>, n)
BY DEF Fine

\* A conversation that does not change.
LEMMA LaterSame ==
  ASSUME NEW ms
  PROVE  Later(ms, ms)
BY DEF Later

\* What the last message becomes when an updater runs on it.
LEMMA UpdateLastAt ==
  ASSUME NEW u \in PlainUpdaters, NEW ms \in Seq(Messages), ms # <<>>, Last(ms).key.from = "assistant"
  PROVE  /\ UpdateLast(u, ms) \in Seq(Messages) /\ Len(UpdateLast(u, ms)) = Len(ms)
         /\ DOMAIN ms = 1..Len(ms) /\ Len(ms) \in Nat \ {0}
         /\ \A i \in 1..Len(ms) : i # Len(ms) => UpdateLast(u, ms)[i] = ms[i]
         /\ UpdateLast(u, ms)[Len(ms)] = UpdateMessage(u, ms[Len(ms)])
         /\ Last(UpdateLast(u, ms)) = UpdateMessage(u, Last(ms))
         /\ UpdateMessage(u, ms[Len(ms)]).key = ms[Len(ms)].key
         /\ UpdateLast(u, ms) # <<>>
<1> DEFINE n == Len(ms)  w == UpdateMessage(u, ms[n])  v == UpdateLast(u, ms)
<1>1. n \in Nat \ {0} /\ ms[n] \in Messages /\ DOMAIN ms = 1..n
  BY EmptySeq
<1>2. w \in Messages /\ w.key = ms[n].key
  BY <1>1, UpdateMessageType
<1>3. v = [ms EXCEPT ![n] = w]
  BY DEF UpdateLast
<1> HIDE DEF n, w, v
<1>4. v \in Seq(Messages) /\ Len(v) = n /\ (\A i \in 1..n : i # n => v[i] = ms[i]) /\ v[n] = w
  <2>1. n = Len(ms)
    BY DEF n
  <2>2. v \in Seq(Messages) /\ Len(v) = n
    BY ONLY <1>1, <1>2, <1>3, <2>1, ms \in Seq(Messages)
  <2>3. (\A i \in 1..n : i # n => v[i] = ms[i]) /\ v[n] = w
    BY ONLY <1>1, <1>3
  <2> QED BY <2>2, <2>3
<1>5. v # <<>>
  BY <1>1, <1>4
<1>6. Last(v) = w /\ w = UpdateMessage(u, Last(ms))
  BY <1>4 DEF Last, n, w
<1> QED BY <1>1, <1>2, <1>4, <1>5, <1>6 DEF n, w, v

\* Updating the last answer keeps the conversation sound if the answer is.
LEMMA UpdateFine ==
  ASSUME NEW u \in PlainUpdaters, NEW ms, NEW n \in Nat, Fine(ms, n), ms # <<>>,
         Last(ms).key.from = "assistant", OwnMessage(UpdateMessage(u, Last(ms)))
  PROVE  Fine(UpdateLast(u, ms), n)
<1> DEFINE v == UpdateLast(u, ms)  L == Len(ms)
<1>1. ms \in Seq(Messages)
  BY DEF Fine
<1>2. /\ v \in Seq(Messages) /\ Len(v) = L /\ DOMAIN ms = 1..L /\ L \in Nat \ {0}
      /\ \A i \in 1..L : i # L => v[i] = ms[i]
      /\ v[L] = UpdateMessage(u, ms[L]) /\ UpdateMessage(u, ms[L]).key = ms[L].key
  BY <1>1, UpdateLastAt
<1>3. DOMAIN v = 1..L
  BY <1>2
<1>4. OwnMessage(v[L]) /\ ms[L].key.from = "assistant"
  BY <1>2 DEF Last
<1> HIDE DEF v, L
<1>5. \A i \in 1..L : v[i].key = ms[i].key
  BY <1>2
<1>6. ASSUME NEW i \in 1..L PROVE OwnMessage(v[i]) /\ v[i].key.id <= n
  BY <1>2, <1>3, <1>4, <1>5 DEF Fine
<1>7. ASSUME NEW i \in 1..L, NEW j \in 1..L, v[i].key = v[j].key PROVE i = j
  BY <1>2, <1>5, <1>7 DEF Fine
<1>8. ASSUME NEW i \in 1..L, IsPending(v[i]) PROVE i = L /\ v[i].key.from = "assistant"
  <2>1. CASE i = L
    BY <1>4, <1>5, <2>1
  <2>2. CASE i # L
    BY <1>2, <1>8, <2>2 DEF Fine, L
  <2> QED BY <2>1, <2>2
<1> QED BY <1>2, <1>3, <1>6, <1>7, <1>8 DEF Fine, v

\* Updating a pending answer leaves the finished ones.
LEMMA UpdateLater ==
  ASSUME NEW u \in PlainUpdaters, NEW a, NEW ms \in Seq(Messages), ms # <<>>, Later(a, ms),
         a \in Seq(Messages), Last(ms).key.from = "assistant", IsPending(Last(ms))
  PROVE  Later(a, UpdateLast(u, ms))
<1> DEFINE v == UpdateLast(u, ms)  L == Len(ms)
<1>1. /\ v \in Seq(Messages) /\ Len(v) = L /\ DOMAIN ms = 1..L /\ L \in Nat \ {0}
      /\ \A i \in 1..L : i # L => v[i] = ms[i]
      /\ v[L] = UpdateMessage(u, ms[L]) /\ UpdateMessage(u, ms[L]).key = ms[L].key
  BY UpdateLastAt
<1>2. Len(a) = L /\ DOMAIN a = 1..L
  BY DEF Later
<1>3. ~IsFinal(ms[L])
  BY DEF IsPending, IsFinal, Last
<1> HIDE DEF v, L
<1>4. ASSUME NEW i \in 1..L PROVE a[i].key = v[i].key /\ (IsFinal(a[i]) => v[i] = a[i])
  <2>1. a[i].key = ms[i].key /\ (IsFinal(a[i]) => ms[i] = a[i])
    BY <1>2 DEF Later
  <2>2. CASE i # L
    BY <1>1, <2>1, <2>2
  <2>3. CASE i = L
    BY <1>1, <1>3, <2>1, <2>3
  <2> QED BY <2>2, <2>3
<1> QED BY <1>1, <1>2, <1>4 DEF Later, v

\* A stop leaves nothing pending and changes nothing else.
\* Nothing in ms is being generated.
NonePending(ms) == \A i \in DOMAIN ms : ~IsPending(ms[i])

\* A stop leaves no message pending and no finished answer changed.
LEMMA StopSound ==
  ASSUME NEW u \in PlainUpdaters, u.kind = "stop", NEW ms, NEW n \in Nat, Fine(ms, n)
  PROVE  /\ Fine(UpdateLast(u, ms), n) /\ NonePending(UpdateLast(u, ms))
         /\ \A a \in Seq(Messages) : Later(a, ms) => Later(a, UpdateLast(u, ms))
<1> DEFINE v == UpdateLast(u, ms)  L == Len(ms)
<1>0. ms \in Seq(Messages)
  BY DEF Fine
<1>1. CASE ms = <<>> \/ Last(ms).key.from = "user"
  <2>1. UpdateLast(u, ms) = ms
    BY <1>1, Zenon DEF UpdateLast
  <2>2. NonePending(ms)
    BY <1>0, <1>1 DEF NonePending, Fine, Last
  <2> QED BY <2>1, <2>2
<1>2. CASE ~ (ms = <<>> \/ Last(ms).key.from = "user")
  <2>1. ms # <<>> /\ Last(ms) \in Messages
    BY <1>0, <1>2, EmptySeq DEF Last
  <2>2. Last(ms).key.from = "assistant"
    BY <1>2, <2>1 DEF Messages, Keys
  <2>3. /\ v \in Seq(Messages) /\ Len(v) = L /\ DOMAIN ms = 1..L /\ L \in Nat \ {0}
        /\ \A i \in 1..L : i # L => v[i] = ms[i]
        /\ v[L] = UpdateMessage(u, ms[L]) /\ UpdateMessage(u, ms[L]).key = ms[L].key
    BY <1>0, <2>1, <2>2, UpdateLastAt
  <2>4. /\ ~IsPending(UpdateMessage(u, ms[L])) /\ UpdateMessage(u, ms[L]).text = ms[L].text
        /\ IsFinal(ms[L]) => UpdateMessage(u, ms[L]) = ms[L]
    <3>0. ms[L] \in Messages
      BY <2>1 DEF Last
    <3>1. CASE IsPending(ms[L])
      <4>1. UpdateMessage(u, ms[L]) = [ms[L] EXCEPT !.status = "complete"]
        BY <3>1 DEF UpdateMessage
      <4> HIDE DEF UpdateMessage
      <4> QED BY <3>0, <3>1, <4>1 DEF Messages, IsPending, IsFinal
    <3>2. CASE ~IsPending(ms[L])
      <4>1. UpdateMessage(u, ms[L]) = ms[L]
        BY <3>2 DEF UpdateMessage
      <4> QED BY <3>2, <4>1
    <3> QED BY <3>1, <3>2
  <2>5. OwnMessage(UpdateMessage(u, Last(ms)))
    <3>1. L \in DOMAIN ms
      BY <2>3
    <3>2. OwnMessage(ms[L])
      BY <3>1, Zenon DEF Fine
    <3> QED BY <2>3, <2>4, <3>2 DEF OwnMessage, Last
  <2>6. Fine(v, n)
    BY <2>1, <2>2, <2>5, UpdateFine
  <2> HIDE DEF v, L
  <2>7. NonePending(v)
    <3>1. SUFFICES ASSUME NEW i \in 1..L, IsPending(v[i]) PROVE FALSE
      BY <2>3 DEF NonePending
    <3>2. i = L
      BY <2>3, <2>6, <3>1 DEF Fine
    <3> QED BY <2>3, <2>4, <3>1, <3>2
  <2>8. ASSUME NEW a \in Seq(Messages), Later(a, ms) PROVE Later(a, v)
    <3>1. Len(a) = L /\ DOMAIN a = 1..L
      BY <2>8 DEF Later, L
    <3>2. ASSUME NEW i \in 1..L PROVE a[i].key = v[i].key /\ (IsFinal(a[i]) => v[i] = a[i])
      <4>1. a[i].key = ms[i].key /\ (IsFinal(a[i]) => ms[i] = a[i])
        BY <2>8, <3>1 DEF Later
      <4>2. CASE i # L
        BY <2>3, <4>1, <4>2
      <4>3. CASE i = L
        BY <2>3, <2>4, <4>1, <4>3
      <4> QED BY <4>2, <4>3
    <3> QED BY <2>3, <3>1, <3>2 DEF Later
  <2> QED BY <2>6, <2>7, <2>8 DEF v
<1> QED BY <1>1, <1>2

\* What the updaters of a running request do to its answer.
LEMMA FlushMessage ==
  ASSUME NEW u \in PlainUpdaters, u.kind = "flush", NEW m \in Messages, IsPending(m)
  PROVE  /\ UpdateMessage(u, m).text = MergeChunk(m.text, u.text)
         /\ IsPending(UpdateMessage(u, m)) /\ UpdateMessage(u, m).key = m.key
<1>1. m.status # "error"
  BY DEF IsPending
<1>2. UpdateMessage(u, m) = [m EXCEPT !.text = MergeChunk(@, u.text), !.status = "streaming"]
  BY <1>1 DEF UpdateMessage
<1> HIDE DEF UpdateMessage
<1> QED BY <1>2 DEF Messages, IsPending

\* Every outcome leaves the answer final, with text of its own request.
LEMMA OutcomeMessage ==
  ASSUME NEW u \in PlainUpdaters, u.kind \in {"done", "error", "answer"}, NEW m \in Messages, IsPending(m),
         m.key.id = u.req, OwnMessage(m)
  PROVE  ~IsPending(UpdateMessage(u, m)) /\ OwnMessage(UpdateMessage(u, m)) /\ UpdateMessage(u, m).key = m.key
<1>0. u.req \in Asked /\ ~IsFinal(m)
  BY DEF PlainUpdaters, IsPending, IsFinal
<1>1. CASE u.kind = "done"
  <2>1. UpdateMessage(u, m) = [m EXCEPT !.status = "complete"]
    BY <1>0, <1>1 DEF UpdateMessage
  <2> HIDE DEF UpdateMessage
  <2> QED BY <2>1 DEF Messages, IsPending, OwnMessage
<1>2. CASE u.kind = "error"
  <2>1. UpdateMessage(u, m) = [m EXCEPT !.status = "error", !.text = <<>>]
    BY <1>2 DEF UpdateMessage
  <2>2. Ordered(<<>>, m.key.id, 0, Len(Script))
    BY Constants, OrderedEmpty
  <2> HIDE DEF UpdateMessage
  <2> QED BY <2>1, <2>2 DEF Messages, IsPending, OwnMessage
<1>3. CASE u.kind = "answer"
  <2>1. UpdateMessage(u, m) = [m EXCEPT !.status = "complete", !.text = FullText(u.req)]
    BY <1>3 DEF UpdateMessage
  <2>2. Ordered(FullText(u.req), m.key.id, 0, Len(Script))
    BY <1>0, OrderedFull
  <2> HIDE DEF UpdateMessage, FullText
  <2> QED BY <2>1, <2>2 DEF Messages, IsPending, OwnMessage
<1> QED BY <1>1, <1>2, <1>3

\* The positions of an extended sequence.
LEMMA AppendAt ==
  ASSUME NEW T, NEW c \in Seq(T), NEW m \in T
  PROVE  /\ Append(c, m) \in Seq(T) /\ Len(Append(c, m)) = Len(c) + 1 /\ Len(c) \in Nat
         /\ DOMAIN Append(c, m) = 1..(Len(c) + 1) /\ DOMAIN c = 1..Len(c)
         /\ \A i \in 1..Len(c) : Append(c, m)[i] = c[i]
         /\ Append(c, m)[Len(c) + 1] = m /\ Append(c, m) # <<>> /\ Last(Append(c, m)) = m
<1>1. Append(c, m) \in Seq(T) /\ Len(Append(c, m)) = Len(c) + 1 /\ Len(c) \in Nat
  OBVIOUS
<1>2. DOMAIN Append(c, m) = 1..(Len(c) + 1) /\ DOMAIN c = 1..Len(c)
  OBVIOUS
<1>3. \A i \in 1..Len(c) : Append(c, m)[i] = c[i]
  OBVIOUS
<1>4. Append(c, m)[Len(c) + 1] = m /\ Append(c, m) # <<>>
  OBVIOUS
<1>5. Last(Append(c, m)) = m
  BY <1>1, <1>4 DEF Last
<1> QED BY <1>1, <1>2, <1>3, <1>4, <1>5

\* The positions of a sequence after a removal.
LEMMA RemoveAtAt ==
  ASSUME NEW T, NEW s \in Seq(T), NEW p \in 1..Len(s)
  PROVE  /\ Len(RemoveAt(s, p)) = Len(s) - 1
         /\ \A j \in 1..(Len(s) - 1) : RemoveAt(s, p)[j] = s[IF j < p THEN j ELSE j + 1]
<1> DEFINE a == SubSeq(s, 1, p - 1)  b == SubSeq(s, p + 1, Len(s))
<1>1. a \in Seq(T) /\ Len(a) = p - 1 /\ \A j \in 1..(p - 1) : a[j] = s[j]
  OBVIOUS
<1>2. b \in Seq(T) /\ Len(b) = Len(s) - p /\ \A j \in 1..(Len(s) - p) : b[j] = s[p + j]
  OBVIOUS
<1>3. RemoveAt(s, p) = a \o b
  BY DEF RemoveAt
<1>4. p \in Nat /\ Len(s) \in Nat /\ p >= 1 /\ p <= Len(s)
  OBVIOUS
<1> HIDE DEF a, b
<1>5. Len(a \o b) = Len(s) - 1
  <2>1. Len(a \o b) = Len(a) + Len(b)
    <3>1. a \in Seq(T)
      BY <1>1
    <3>2. b \in Seq(T)
      BY <1>2
    <3> QED BY ONLY <3>1, <3>2, ConcatProperties
  <2>2. Len(a \o b) = (p - 1) + (Len(s) - p)
    BY <1>1, <1>2, <2>1
  <2> QED BY <1>4, <2>2
<1>6. ASSUME NEW j \in 1..(Len(s) - 1) PROVE (a \o b)[j] = s[IF j < p THEN j ELSE j + 1]
  <2>1. CASE j < p
    <3>1. j \in 1..Len(a)
      BY <1>1, <1>4, <2>1
    <3>2. (a \o b)[j] = a[j]
      BY <1>1, <1>2, <3>1
    <3> QED BY <1>1, <2>1, <3>1, <3>2
  <2>2. CASE ~ (j < p)
    <3>1. j - (p - 1) \in 1..(Len(s) - p) /\ p + (j - (p - 1)) = j + 1
      BY <1>4, <2>2
    <3>2. (a \o b)[j] = b[j - Len(a)]
      BY <1>1, <1>2, <1>4, <2>2
    <3>3. (a \o b)[j] = b[j - (p - 1)]
      BY <1>1, <3>2
    <3>4. b[j - (p - 1)] = s[p + (j - (p - 1))]
      BY <1>2, <3>1
    <3> QED BY <2>2, <3>1, <3>3, <3>4
  <2> QED BY <2>1, <2>2
<1> QED BY <1>3, <1>5, <1>6

\* The message m is added to the conversation c.
LEMMA AddMessage ==
  ASSUME NEW c, NEW n \in Nat, Fine(c, n), NonePending(c), NEW m \in Messages, m.key.id <= n, OwnMessage(m),
         \A i \in DOMAIN c : c[i].key # m.key, IsPending(m) => m.key.from = "assistant"
  PROVE  /\ Fine(Append(c, m), n) /\ Append(c, m) # <<>> /\ Last(Append(c, m)) = m
         /\ \A i \in DOMAIN Append(c, m) : IsPending(Append(c, m)[i]) => Append(c, m)[i] = m
<1> DEFINE d == Append(c, m)  L == Len(c)
<1>1. c \in Seq(Messages)
  BY DEF Fine
<1>2. /\ d \in Seq(Messages) /\ Len(d) = L + 1 /\ DOMAIN d = 1..(L + 1) /\ DOMAIN c = 1..L /\ L \in Nat
      /\ (\A i \in 1..L : d[i] = c[i]) /\ d[L + 1] = m /\ d # <<>> /\ Last(d) = m
  BY <1>1, AppendAt
<1> HIDE DEF d, L
<1>3. ASSUME NEW i \in 1..(L + 1) PROVE i = L + 1 \/ i \in 1..L
  BY <1>2
<1>4. ASSUME NEW i \in 1..(L + 1) PROVE OwnMessage(d[i]) /\ d[i].key.id <= n
  BY <1>2, <1>3 DEF Fine
<1>5. ASSUME NEW i \in 1..(L + 1), NEW j \in 1..(L + 1), d[i].key = d[j].key PROVE i = j
  <2>1. CASE i = L + 1 /\ j = L + 1
    BY <2>1
  <2>2. CASE i = L + 1 /\ j \in 1..L
    BY <1>2, <1>5, <2>2
  <2>3. CASE i \in 1..L /\ j = L + 1
    BY <1>2, <1>5, <2>3
  <2>4. CASE i \in 1..L /\ j \in 1..L
    BY <1>2, <1>5, <2>4 DEF Fine
  <2> QED BY <1>3, <2>1, <2>2, <2>3, <2>4
<1>6. ASSUME NEW i \in 1..(L + 1), IsPending(d[i]) PROVE i = L + 1 /\ d[i].key.from = "assistant" /\ d[i] = m
  <2>1. i = L + 1
    BY <1>2, <1>3, <1>6 DEF NonePending
  <2> QED BY <1>2, <1>6, <2>1
<1>7. Fine(d, n)
  BY <1>2, <1>4, <1>5, <1>6 DEF Fine
<1>8. \A i \in DOMAIN d : IsPending(d[i]) => d[i] = m
  BY <1>2, <1>6
<1> QED BY <1>2, <1>7, <1>8 DEF d

\* A prefix without pending messages.
LEMMA PrefixFine ==
  ASSUME NEW ms, NEW n \in Nat, Fine(ms, n), NEW p \in 0..Len(ms), \A i \in 1..p : ~IsPending(ms[i])
  PROVE  /\ Fine(SubSeq(ms, 1, p), n) /\ NonePending(SubSeq(ms, 1, p))
         /\ DOMAIN SubSeq(ms, 1, p) = 1..p /\ DOMAIN ms = 1..Len(ms) /\ \A i \in 1..p : SubSeq(ms, 1, p)[i] = ms[i]
<1> DEFINE c == SubSeq(ms, 1, p)
<1>1. ms \in Seq(Messages)
  BY DEF Fine
<1>2. /\ c \in Seq(Messages) /\ Len(c) = p /\ DOMAIN c = 1..p /\ (\A i \in 1..p : c[i] = ms[i] /\ i \in DOMAIN ms)
      /\ DOMAIN ms = 1..Len(ms)
  BY <1>1
<1> HIDE DEF c
<1>3. Fine(c, n)
  BY <1>2 DEF Fine
<1>4. NonePending(c)
  BY <1>2 DEF NonePending
<1> QED BY <1>2, <1>3, <1>4 DEF c

\* Every message of b is one of a or of a request after n.
FromOld(a, b, n) ==
    \A j \in DOMAIN b : (\E i \in DOMAIN a : b[j] = a[i]) \/ b[j].key.id = n + 1

\* A conversation that keeps the first p messages and ends with a new answer.
LEMMA PrefixSend ==
  ASSUME NEW ms, NEW n \in Nat, n + 1 \in Asked, Fine(ms, n), NEW p \in 0..Len(ms),
         \A i \in 1..p : ~IsPending(ms[i]), NEW c, c = Append(SubSeq(ms, 1, p), LoadingMessage(n + 1))
  PROVE  /\ Fine(c, n + 1) /\ c # <<>> /\ Last(c) = LoadingMessage(n + 1) /\ FromOld(ms, c, n)
<1> DEFINE a == SubSeq(ms, 1, p)  m == LoadingMessage(n + 1)
<1>1. /\ Fine(a, n) /\ NonePending(a) /\ DOMAIN a = 1..p /\ (\A i \in 1..p : a[i] = ms[i]) /\ DOMAIN ms = 1..Len(ms)
  BY PrefixFine
<1>2. Fine(a, n + 1) /\ n + 1 \in Nat
  BY <1>1, FineMore
<1>3. m \in Messages /\ m.key.id = n + 1 /\ m.key.from = "assistant" /\ m.text = <<>>
  BY MessageTypes DEF LoadingMessage
<1>4. OwnMessage(m)
  BY <1>2, <1>3, OrderedEmpty, Constants DEF OwnMessage
<1> HIDE DEF a, m
<1>5. \A i \in DOMAIN a : a[i].key # m.key
  <2>1. ASSUME NEW i \in DOMAIN a PROVE a[i].key.id # n + 1
    <3>1. a[i].key.id <= n /\ a[i] \in Messages
      BY <1>1 DEF Fine
    <3>2. a[i].key.id \in Int
      BY <3>1, Constants DEF Messages, Keys, Asked
    <3> QED BY <3>1, <3>2
  <2> QED BY <1>3, <2>1
<1>6. n + 1 <= n + 1
  BY <1>2
<1>7. Fine(c, n + 1) /\ c # <<>> /\ Last(c) = m
  BY <1>2, <1>1, <1>3, <1>4, <1>5, <1>6, AddMessage DEF a, m
<1>8. FromOld(ms, c, n)
  <2>1. a \in Seq(Messages) /\ DOMAIN a = 1..Len(a) /\ Len(a) \in Nat
    BY <1>1 DEF Fine
  <2>2. c = Append(a, m)
    BY DEF a, m
  <2>3. DOMAIN c = 1..(Len(a) + 1) /\ (\A i \in 1..Len(a) : c[i] = a[i]) /\ c[Len(a) + 1] = m
    <3>1. a \in Seq(Messages) /\ m \in Messages
      BY <1>3, <2>1
    <3>2. DOMAIN Append(a, m) = 1..(Len(a) + 1) /\ (\A i \in 1..Len(a) : Append(a, m)[i] = a[i]) /\ Append(a, m)[Len(a) + 1] = m
      BY ONLY <3>1, AppendAt
    <3> QED BY <2>2, <3>2, Zenon
  <2>4. p \in Nat /\ Len(ms) \in Nat /\ p <= Len(ms) /\ Len(a) = p
    <3>1. ms \in Seq(Messages)
      BY DEF Fine
    <3> QED BY <3>1 DEF a
  <2>5. ASSUME NEW j \in 1..(Len(a) + 1) PROVE (\E i \in DOMAIN ms : c[j] = ms[i]) \/ c[j].key.id = n + 1
    <3>1. CASE j = Len(a) + 1
      BY <1>3, <2>3, <3>1
    <3>2. CASE j \in 1..Len(a)
      <4>1. c[j] = ms[j] /\ j \in DOMAIN ms
        BY <1>1, <2>3, <2>4, <3>2
      <4> QED BY <4>1
    <3>3. j = Len(a) + 1 \/ j \in 1..Len(a)
      BY <2>1
    <3> QED BY <3>1, <3>2, <3>3
  <2> QED BY <2>3, <2>5 DEF FromOld
<1> QED BY <1>7, <1>8 DEF m

\* handleSendMessage: a question and its pending answer are added.
LEMMA SendSound ==
  ASSUME NEW ms, NEW n \in Nat, n + 1 \in Asked, Fine(ms, n), NonePending(ms), NEW c,
         c = ms \o <<UserMessage(n + 1), LoadingMessage(n + 1)>>
  PROVE  /\ Fine(c, n + 1) /\ c # <<>> /\ Last(c) = LoadingMessage(n + 1) /\ FromOld(ms, c, n)
<1> DEFINE u == UserMessage(n + 1)  m == LoadingMessage(n + 1)  d == Append(ms, u)
<1>1. Fine(ms, n + 1) /\ n + 1 \in Nat /\ ms \in Seq(Messages)
  <2>1. n + 1 \in Nat /\ n <= n + 1
    OBVIOUS
  <2> QED BY <2>1, FineMore DEF Fine
<1>2. /\ m \in Messages /\ m.key = [from |-> "assistant", id |-> n + 1] /\ m.text = <<>>
      /\ u \in Messages /\ u.key = [from |-> "user", id |-> n + 1] /\ u.text = <<>> /\ ~IsPending(u)
  BY MessageTypes DEF LoadingMessage, UserMessage, IsPending
<1>3. OwnMessage(m) /\ OwnMessage(u)
  BY <1>1, <1>2, OrderedEmpty, Constants DEF OwnMessage
<1> HIDE DEF u, m
<1>4. ASSUME NEW i \in DOMAIN ms PROVE ms[i].key # u.key /\ ms[i].key # m.key
  <2>1. ms[i].key.id <= n /\ ms[i] \in Messages
    BY DEF Fine
  <2>2. ms[i].key.id \in Int
    BY <2>1, Constants DEF Messages, Keys, Asked
  <2>3. ms[i].key.id # n + 1
    BY <2>1, <2>2
  <2> QED BY <1>2, <2>3
<1>5. u.key.id <= n + 1 /\ m.key.id <= n + 1 /\ u.key.id = n + 1 /\ m.key.id = n + 1 /\ u.key # m.key /\ m.key.from = "assistant"
  BY <1>1, <1>2
<1>6. Fine(d, n + 1) /\ \A i \in DOMAIN d : IsPending(d[i]) => d[i] = u
  BY <1>1, <1>2, <1>3, <1>4, <1>5, AddMessage
<1>7. NonePending(d)
  BY <1>2, <1>6 DEF NonePending
<1>8. /\ DOMAIN d = 1..(Len(ms) + 1) /\ DOMAIN ms = 1..Len(ms) /\ (\A i \in 1..Len(ms) : d[i] = ms[i])
      /\ d[Len(ms) + 1] = u /\ Len(ms) \in Nat /\ d \in Seq(Messages) /\ Len(d) = Len(ms) + 1
  BY <1>1, <1>2
<1>9. c = Append(d, m)
  BY <1>1, <1>2 DEF u, m
<1> HIDE DEF d
<1>10. \A i \in DOMAIN d : d[i].key # m.key
  <2>1. SUFFICES ASSUME NEW i \in 1..(Len(ms) + 1) PROVE d[i].key # m.key
    BY <1>8
  <2>2. CASE i \in 1..Len(ms)
    BY <1>4, <1>8, <2>2
  <2>3. CASE i = Len(ms) + 1
    BY <1>5, <1>8, <2>3
  <2> QED BY <1>8, <2>2, <2>3
<1>11. Fine(c, n + 1) /\ c # <<>> /\ Last(c) = m
  BY <1>1, <1>2, <1>3, <1>5, <1>6, <1>7, <1>9, <1>10, AddMessage
<1>12. FromOld(ms, c, n)
  <2>1. DOMAIN c = 1..(Len(ms) + 2) /\ (\A i \in 1..(Len(ms) + 1) : c[i] = d[i]) /\ c[Len(ms) + 2] = m
    <3>1. /\ DOMAIN c = 1..(Len(d) + 1) /\ (\A i \in 1..Len(d) : c[i] = d[i]) /\ c[Len(d) + 1] = m
      <4>1. d \in Seq(Messages) /\ m \in Messages
        BY <1>2, <1>8
      <4>2. /\ DOMAIN Append(d, m) = 1..(Len(d) + 1) /\ (\A i \in 1..Len(d) : Append(d, m)[i] = d[i])
            /\ Append(d, m)[Len(d) + 1] = m
        BY ONLY <4>1, AppendAt
      <4> QED BY <1>9, <4>2, Zenon
    <3>2. Len(d) = Len(ms) + 1 /\ Len(d) + 1 = Len(ms) + 2
      BY <1>8
    <3> QED BY <3>1, <3>2
  <2>2. ASSUME NEW j \in 1..(Len(ms) + 2) PROVE (\E i \in DOMAIN ms : c[j] = ms[i]) \/ c[j].key.id = n + 1
    <3>1. CASE j = Len(ms) + 2
      BY <1>5, <2>1, <3>1
    <3>2. CASE j = Len(ms) + 1
      BY <1>5, <1>8, <2>1, <3>2
    <3>3. CASE j \in 1..Len(ms)
      <4>1. c[j] = ms[j] /\ j \in DOMAIN ms
        BY <1>8, <2>1, <3>3
      <4> QED BY <4>1
    <3> QED BY <1>8, <3>1, <3>2, <3>3
  <2> QED BY <2>1, <2>2 DEF FromOld
<1> QED BY <1>11, <1>12 DEF m

\* A deletion keeps the other messages in their order.
LEMMA WithoutSound ==
  ASSUME NEW ms, NEW n \in Nat, Fine(ms, n), NonePending(ms), NEW k
  PROVE  Fine(Without(ms, k), n) /\ NonePending(Without(ms, k)) /\ FromOld(ms, Without(ms, k), n)
<1>0. ms \in Seq(Messages)
  BY DEF Fine
<1>1. CASE ~ \E i \in DOMAIN ms : ms[i].key = k
  <2>1. Without(ms, k) = ms
    BY <1>1, Zenon DEF Without
  <2> QED BY <2>1 DEF FromOld
<1>2. CASE \E i \in DOMAIN ms : ms[i].key = k
  <2> DEFINE p == Position(ms, k)  d == RemoveAt(ms, p)  L == Len(ms)
             old(j) == IF j < p THEN j ELSE j + 1
  <2>1. p \in 1..L
    BY <1>0, <1>2 DEF Position
  <2>2. Without(ms, k) = d
    BY <1>2, Zenon DEF Without
  <2>3. d \in Seq(Messages) /\ L \in Nat
    BY <1>0, <2>2, WithoutType
  <2> HIDE DEF p
  <2>4. Len(d) = L - 1 /\ \A j \in 1..(L - 1) : d[j] = ms[old(j)]
    BY <1>0, <2>1, RemoveAtAt
  <2> HIDE DEF d, L
  <2>5. ASSUME NEW j \in 1..(L - 1) PROVE old(j) \in 1..L
    BY <2>1, <2>3
  <2>6. ASSUME NEW i \in 1..(L - 1), NEW j \in 1..(L - 1), old(i) = old(j) PROVE i = j
    BY <2>1, <2>3, <2>6
  <2> HIDE DEF old
  <2>7. DOMAIN ms = 1..L /\ DOMAIN d = 1..(L - 1)
    BY <1>0, <2>3, <2>4 DEF L
  <2>8. NonePending(d) /\ FromOld(ms, d, n)
    BY <2>4, <2>5, <2>7 DEF NonePending, FromOld
  <2>9. Fine(d, n)
    <3>1. \A i \in DOMAIN d : OwnMessage(d[i]) /\ d[i].key.id <= n
      BY <2>4, <2>5, <2>7 DEF Fine
    <3>2. ASSUME NEW i \in DOMAIN d, NEW j \in DOMAIN d, d[i].key = d[j].key PROVE i = j
      <4>1. old(i) = old(j)
        BY <2>4, <2>5, <2>7, <3>2 DEF Fine
      <4> QED BY <2>6, <2>7, <4>1
    <3>3. \A i \in DOMAIN d : ~IsPending(d[i])
      BY <2>8 DEF NonePending
    <3> QED BY <2>3, <3>1, <3>2, <3>3 DEF Fine
  <2> QED BY <2>2, <2>8, <2>9
<1> QED BY <1>1, <1>2

\* A loaded conversation: the same messages, and none is pending.
LEMMA RepairSound ==
  ASSUME NEW ms, NEW n \in Nat, Fine(ms, n)
  PROVE  Fine(Sanitized(Normalized(ms)), n) /\ NonePending(Sanitized(Normalized(ms)))
<1> DEFINE a == Normalized(ms)  b == Sanitized(a)  L == Len(ms)
<1>0. ms \in Seq(Messages) /\ a \in Seq(Messages) /\ b \in Seq(Messages) /\ L \in Nat
  <2>1. ms \in Seq(Messages)
    BY DEF Fine
  <2>2. a \in Seq(Messages)
    BY <2>1, RepairType
  <2> QED BY <2>1, <2>2, RepairType
<1>1. DOMAIN ms = 1..L /\ DOMAIN a = 1..L /\ DOMAIN b = 1..L
  BY <1>0 DEF Normalized, Sanitized
<1>2. ASSUME NEW i \in 1..L
      PROVE  /\ ms[i] \in Messages /\ a[i].key = ms[i].key /\ a[i].text = ms[i].text /\ a[i] \in Messages
             /\ IsPending(a[i]) => IsPending(ms[i])
  <2>1. ms[i] \in Messages /\ a[i] \in Messages
    BY <1>0, <1>1
  <2>2. a[i] = IF IsPending(ms[i]) /\ ms[i].text # <<>> THEN [ms[i] EXCEPT !.status = "complete"] ELSE ms[i]
    BY <1>1 DEF Normalized
  <2> HIDE DEF a
  <2> QED BY <2>1, <2>2 DEF Messages, IsPending
<1>3. \A i \in 1..L : IsPending(a[i]) => i = L
  BY <1>1, <1>2 DEF Fine
<1>4. ASSUME NEW i \in 1..L
      PROVE  b[i].key = a[i].key /\ b[i].text = a[i].text /\ ~IsPending(b[i])
  <2>0. \A j \in 1..L : IsPending(a[j]) => j <= L /\ j = L
    BY <1>0, <1>3
  <2>1. CASE IsPending(a[i])
    <3>0. i = L
      BY <1>3, <2>1
    <3>1. \A j \in {x \in DOMAIN a : IsPending(a[x])} : j <= i
      <4>1. L <= L
        BY <1>0
      <4> QED BY <1>1, <1>3, <3>0, <4>1
    <3>2. b[i] = [a[i] EXCEPT !.status = "error"]
      BY <1>1, <2>1, <3>1 DEF Sanitized
    <3> HIDE DEF a, b
    <3> QED BY <1>2, <3>2 DEF Messages, IsPending
  <2>2. CASE ~IsPending(a[i])
    <3>1. b[i] = a[i]
      BY <1>1, <2>2 DEF Sanitized
    <3> QED BY <2>2, <3>1
  <2> QED BY <2>1, <2>2
<1> HIDE DEF a, b, L
<1>5. NonePending(b)
  BY <1>1, <1>4 DEF NonePending
<1>6. \A i \in 1..L : b[i].key = ms[i].key /\ b[i].text = ms[i].text
  BY <1>2, <1>4
<1>7. Fine(b, n)
  <2>1. \A i \in DOMAIN b : OwnMessage(b[i]) /\ b[i].key.id <= n
    BY <1>1, <1>6 DEF Fine, OwnMessage
  <2>2. \A i, j \in DOMAIN b : b[i].key = b[j].key => i = j
    BY <1>1, <1>6 DEF Fine
  <2> QED BY <1>0, <1>5, <2>1, <2>2 DEF Fine, NonePending
<1> QED BY <1>5, <1>7 DEF a, b

-----------------------------------------------------------------------------
(* Soundness of the steps when the page behaves: no sends before the
   conversation is loaded, no edits saved over unrendered updates. *)

\* The known ways to break the conversation do not happen; late events may.
Orderly == Faults \subseteq {"late"}

\* The conversation m, what it will be (v, b), and its copies l and s.
Talk(m, v, b, l, s, n) ==
    /\ Fine(m, n) /\ Fine(v, n) /\ Fine(b, n) /\ Fine(l, n) /\ Fine(s, n)
    /\ Later(m, v) /\ Later(m, b)

\* v ends with the pending answer to r; its text and then t are letters that
\* came, in order.
Answer(v, t, r, sent) ==
    /\ v # <<>>
    /\ Last(v).key = [from |-> "assistant", id |-> r]
    /\ IsPending(Last(v))
    /\ \E m \in 0..sent : Ordered(Last(v).text, r, 0, m) /\ Ordered(t, r, m, sent)

\* The parts of the invariant: the running answer, what is pending is asked for,
\* and nothing runs before the page is ready.
AnswerSound == Running => Answer(View, pend.text, Len(req), req[Len(req)].sent)
PendingAsked == (\E i \in DOMAIN View : IsPending(View[i])) => requesting
OffScreen == page # "ready" =>
    messages = <<>> /\ queue = <<>> /\ ~shown /\ ~requesting /\ ctl = 0 /\ abort = 0

\* The inductive invariant behind OwnText, NothingStuck and FinalStays.
SoundInv ==
    /\ Talk(messages, View, Base, latest, saved, Len(req))
    /\ PendingAsked
    /\ AnswerSound
    /\ OffScreen

\* Steps that leave the conversation and the running request alone.
LEMMA QuietSound ==
  ASSUME SoundInv, messages' = messages, View' = View, Base' = Base, latest' = latest,
         saved' \in {saved, latest}, Len(req') = Len(req), pend' = pend, requesting' = requesting,
         Running' => Running /\ req'[Len(req)].sent = req[Len(req)].sent, OffScreen'
  PROVE  SoundInv'
<1>1. Talk(messages, View, Base, latest, saved, Len(req))'
  BY DEF SoundInv, Talk
<1>2. PendingAsked'
  BY DEF SoundInv, PendingAsked
<1>3. AnswerSound'
  BY DEF SoundInv, AnswerSound
<1> QED BY <1>1, <1>2, <1>3 DEF SoundInv

\* Rendered steps: one conversation c, in which the request r is answered or
\* nothing is.
LEMMA RenderedSound ==
  ASSUME SoundInv, Len(req) \in Nat, Len(req') \in Nat, Len(req) <= Len(req'),
         NEW c, messages' = c, View' = c, Base' = c, latest' \in {latest, c}, saved' = saved,
         Fine(c, Len(req')),
         NonePending(c) \/ requesting', AnswerSound', OffScreen'
  PROVE  SoundInv'
<1>1. Fine(latest, Len(req')) /\ Fine(saved, Len(req'))
  BY FineMore DEF SoundInv, Talk
<1>2. Talk(messages, View, Base, latest, saved, Len(req))'
  BY <1>1, LaterSame DEF Talk
<1>3. PendingAsked'
  BY DEF PendingAsked, NonePending
<1> QED BY <1>2, <1>3 DEF SoundInv

\* The answer of the running request in a typed state.
LEMMA AnswerFacts ==
  ASSUME TypeInv, SoundInv, Running
  PROVE  /\ View # <<>> /\ View \in Seq(Messages) /\ Last(View) \in Messages
         /\ Last(View).key = [from |-> "assistant", id |-> Len(req)]
         /\ Last(View).key.from = "assistant" /\ Last(View).key.id = Len(req)
         /\ IsPending(Last(View)) /\ OwnMessage(Last(View))
         /\ Len(req) \in Nat /\ Len(req) \in DOMAIN req /\ req[Len(req)] \in ReqType
         /\ Len(req) \in Asked
<1>1. Answer(View, pend.text, Len(req), req[Len(req)].sent) /\ Fine(View, Len(req))
  BY DEF SoundInv, AnswerSound, Talk
<1>2. View # <<>> /\ View \in Seq(Messages) /\ Len(View) \in DOMAIN View
  BY <1>1, EmptySeq DEF Answer, Fine
<1>3. Last(View) \in Messages /\ OwnMessage(Last(View))
  BY <1>1, <1>2 DEF Fine, Last
<1>4. req \in Seq(ReqType) /\ Len(req) # 0 /\ Len(req) <= MaxRequests
  BY DEF TypeInv, CtlInv, HandlerSound, Running
<1>5. Len(req) \in Nat /\ Len(req) \in DOMAIN req /\ req[Len(req)] \in ReqType /\ Len(req) \in Asked
  BY <1>4, Constants DEF Asked
<1>6. Last(View).key = [from |-> "assistant", id |-> Len(req)] /\ IsPending(Last(View))
  BY <1>1 DEF Answer
<1>7. Last(View).key.from = "assistant" /\ Last(View).key.id = Len(req)
  BY <1>6
<1> QED BY <1>2, <1>3, <1>5, <1>6, <1>7

\* The running answer after a flush of all that is pending.
LEMMA FlushSound ==
  ASSUME TypeInv, SoundInv, Running
  PROVE  /\ Answer(UpdateLast(FlushUpdater, View), <<>>, Len(req), req[Len(req)].sent)
         /\ Fine(UpdateLast(FlushUpdater, View), Len(req))
         /\ Later(messages, UpdateLast(FlushUpdater, View))
         /\ Last(UpdateLast(FlushUpdater, View)) \in Messages
         /\ OwnMessage(Last(UpdateLast(FlushUpdater, View)))
         /\ Last(UpdateLast(FlushUpdater, View)).text = MergeChunk(Last(View).text, pend.text)
<1> DEFINE f == FlushUpdater  v == UpdateLast(f, View)  r == Len(req)  s == req[Len(req)].sent
           m == Last(View)
<1>1. /\ View # <<>> /\ View \in Seq(Messages) /\ m \in Messages
      /\ m.key = [from |-> "assistant", id |-> r] /\ m.key.from = "assistant" /\ m.key.id = r
      /\ IsPending(m) /\ r \in Nat /\ req[r] \in ReqType
  BY AnswerFacts
<1>2. PendType /\ pend.text \in Texts
  BY DEF TypeInv, CtlInv, PendType
<1>3. f \in PlainUpdaters /\ f.kind = "flush" /\ f.text = pend.text
  BY <1>2, FlushPlain DEF FlushUpdater, Updater
<1>4. s \in 0..Len(Script) /\ s \in Nat /\ Len(Script) \in Nat /\ s <= Len(Script)
  BY <1>1, Constants DEF ReqType
<1>5. PICK k \in 0..s : Ordered(m.text, r, 0, k) /\ Ordered(pend.text, r, k, s)
  BY DEF SoundInv, AnswerSound, Answer
<1>6. m.text \in Texts
  BY <1>1 DEF Messages
<1> DEFINE w == UpdateMessage(f, m)
<1>7. w.text = MergeChunk(m.text, pend.text) /\ IsPending(w) /\ w.key = m.key
  BY <1>1, <1>3, FlushMessage
<1>8. w \in Messages /\ Last(v) = w /\ v # <<>>
  <2>1. w \in Messages
    BY <1>1, <1>3, UpdateMessageType
  <2>2. Last(v) = w /\ v # <<>>
    BY <1>1, <1>3, UpdateLastAt
  <2> QED BY <2>1, <2>2
<1> HIDE DEF r, s, m, w, v, f
<1>9. Ordered(w.text, r, 0, s)
  <2>1. k \in Nat /\ 0 <= k /\ k <= s /\ 0 \in Nat
    BY <1>4
  <2>2. Ordered(MergeChunk(m.text, pend.text), r, 0, s)
    BY <1>2, <1>4, <1>5, <1>6, <2>1, OrderedMerge
  <2> QED BY <1>7, <2>2
<1>10. w.text \in Texts
  BY <1>8 DEF Messages
<1>11. OwnMessage(w)
  <2>1. Ordered(w.text, r, 0, Len(Script))
    BY <1>4, <1>9, <1>10, OrderedWiden
  <2> QED BY <1>1, <1>7, <2>1 DEF OwnMessage
<1>12. Answer(v, <<>>, r, s)
  <2>1. Ordered(<<>>, r, s, s) /\ s \in 0..s
    BY <1>4, OrderedEmpty
  <2> QED BY <1>1, <1>7, <1>8, <1>9, <2>1 DEF Answer
<1>13. Fine(v, r)
  <2>1. Fine(View, r)
    BY DEF SoundInv, Talk, r
  <2>2. OwnMessage(UpdateMessage(f, Last(View))) /\ Last(View).key.from = "assistant"
    BY <1>1, <1>11 DEF w, m
  <2>3. Fine(UpdateLast(f, View), r)
    BY <1>1, <1>3, <2>1, <2>2, UpdateFine
  <2> QED BY <2>3 DEF v
<1>14. Later(messages, v)
  <2>1. Later(messages, View) /\ messages \in Seq(Messages)
    BY DEF SoundInv, Talk, TypeInv, Conv
  <2>2. IsPending(Last(View)) /\ Last(View).key.from = "assistant"
    BY <1>1 DEF m
  <2>3. Later(messages, UpdateLast(f, View))
    BY <1>1, <1>3, <2>1, <2>2, UpdateLater
  <2> QED BY <2>3 DEF v
<1> QED BY <1>7, <1>8, <1>11, <1>12, <1>13, <1>14 DEF v, f, r, s, m, w

\* An outcome of the running request on a conversation that ends with its
\* answer.
LEMMA EndSound ==
  ASSUME TypeInv, SoundInv, NEW v, NEW r \in Asked, NEW kind \in {"done", "error", "answer"}, r = Len(req),
         v # <<>>, Last(v).key = [from |-> "assistant", id |-> r], IsPending(Last(v)), Last(v) \in Messages,
         OwnMessage(Last(v)), Fine(v, r), Later(messages, v)
  PROVE  /\ Fine(UpdateLast(OutcomeUpdater(kind, r), v), r)
         /\ Later(messages, UpdateLast(OutcomeUpdater(kind, r), v))
         /\ NonePending(UpdateLast(OutcomeUpdater(kind, r), v))
<1> DEFINE x == OutcomeUpdater(kind, r)  c == UpdateLast(x, v)  m == Last(v)  w == UpdateMessage(x, m)
<1>0. gen \in Nat /\ r \in Nat /\ messages \in Seq(Messages) /\ v \in Seq(Messages)
  BY Constants DEF TypeInv, CtlInv, PendType, Asked, Conv, Fine
<1>1. x \in PlainUpdaters /\ x.kind = kind /\ x.req = r
  BY <1>0, OutcomePlain
<1>2. m.key.from = "assistant" /\ m.key.id = r
  OBVIOUS
<1> HIDE DEF x
<1>3. ~IsPending(w) /\ OwnMessage(w)
  BY <1>1, <1>2, OutcomeMessage
<1>4. Fine(c, r)
  BY <1>0, <1>1, <1>2, <1>3, UpdateFine
<1>5. Later(messages, c)
  BY <1>0, <1>1, <1>2, UpdateLater
<1>6. NonePending(c)
  <2>1. Len(c) = Len(v) /\ c[Len(v)] = w /\ c \in Seq(Messages)
    BY <1>0, <1>1, <1>2, UpdateLastAt DEF Last
  <2> HIDE DEF c, w
  <2>2. SUFFICES ASSUME NEW i \in DOMAIN c, IsPending(c[i]) PROVE FALSE
    BY DEF NonePending
  <2>3. i = Len(c)
    BY <1>4, <2>2 DEF Fine
  <2> QED BY <1>3, <2>1, <2>2, <2>3
<1> QED BY <1>4, <1>5, <1>6 DEF x

-----------------------------------------------------------------------------
(* Finished answers stay: b follows a in one step. *)

\* What FinalStays says of one step.
Stays(a, b) ==
    \A i \in DOMAIN a, j \in DOMAIN b :
        (a[i].key = b[j].key /\ IsFinal(a[i])) => b[j] = a[i]

\* Finished answers stay in a conversation of the same length.
LEMMA LaterStays ==
  ASSUME NEW a, NEW b, NEW n, Fine(a, n), Fine(b, n), Later(a, b)
  PROVE  Stays(a, b)
<1>1. a \in Seq(Messages) /\ b \in Seq(Messages) /\ Len(a) = Len(b)
  BY DEF Fine, Later
<1>2. DOMAIN a = DOMAIN b
  BY <1>1
<1>3. SUFFICES ASSUME NEW i \in DOMAIN a, NEW j \in DOMAIN b, a[i].key = b[j].key, IsFinal(a[i])
               PROVE  b[j] = a[i]
  BY DEF Stays
<1>4. b[i].key = b[j].key /\ b[i] = a[i] /\ i \in DOMAIN b
  BY <1>2, <1>3 DEF Later
<1>5. i = j
  BY <1>4 DEF Fine
<1> QED BY <1>4, <1>5

\* Finished answers stay when messages are kept, dropped, or of a new request.
LEMMA OldStays ==
  ASSUME NEW a, NEW b, NEW n \in Nat, Fine(a, n), FromOld(a, b, n)
  PROVE  Stays(a, b)
<1>1. SUFFICES ASSUME NEW i \in DOMAIN a, NEW j \in DOMAIN b, a[i].key = b[j].key, IsFinal(a[i])
               PROVE  b[j] = a[i]
  BY DEF Stays
<1>2. a[i] \in Messages /\ a[i].key.id <= n
  BY DEF Fine
<1>3. a[i].key.id # n + 1
  <2>1. a[i].key.id \in Int
    BY <1>2, Constants DEF Messages, Keys, Asked
  <2> QED BY <1>2, <2>1
<1>4. b[j].key.id # n + 1
  BY <1>1, <1>3
<1>5. PICK l \in DOMAIN a : b[j] = a[l]
  BY <1>4 DEF FromOld
<1>6. i = l
  BY <1>1, <1>5 DEF Fine
<1> QED BY <1>5, <1>6

-----------------------------------------------------------------------------
(* What the network does *)

\* Changing the phase of a request does not start one.
LEMMA PhaseRuns ==
  ASSUME TypeInv, NEW r \in DOMAIN req, NEW p \in Phases, req' = [req EXCEPT ![r].phase = p],
         ctl' = ctl, abort' = abort, p # "over" => req[r].phase # "over"
  PROVE  /\ Len(req') = Len(req)
         /\ Running' => Running /\ req'[Len(req)].sent = req[Len(req)].sent
<1>1. req \in Seq(ReqType) /\ (ctl # 0 => ctl = Len(req)) /\ (abort # 0 => abort = Len(req))
  BY DEF TypeInv, CtlInv, HandlerSound
<1>2. /\ Len(req') = Len(req)
      /\ \A i \in 1..Len(req) : i # r => req'[i] = req[i]
      /\ req'[r].phase = p /\ req'[r].sent = req[r].sent
  BY <1>1, ReqPhase
<1>3. Len(req) \in 1..Len(req) /\ DOMAIN req = 1..Len(req)
  BY <1>1
<1>4. req'[Len(req)].sent = req[Len(req)].sent
  BY <1>2, <1>3
<1>5. ASSUME Running' PROVE Running
  <2>1. CASE abort # 0
    BY <2>1 DEF Running
  <2>2. CASE ctl # 0 /\ req'[ctl].phase # "over"
    BY <1>1, <1>2, <1>3, <2>2 DEF Running
  <2> QED BY <1>5, <2>1, <2>2 DEF Running
<1> QED BY <1>2, <1>4, <1>5

\* An event nobody listens to.
LEMMA IgnoredSound ==
  ASSUME TypeInv, SoundInv, NEW r \in DOMAIN req, Ignored(r)
  PROVE  SoundInv'
<1>1. View' = View /\ Base' = Base
  BY QuietViews DEF Ignored
<1>2. Len(req') = Len(req) /\ (Running' => Running /\ req'[Len(req)].sent = req[Len(req)].sent)
  BY PhaseRuns DEF Ignored, Phases
<1>3. OffScreen'
  BY DEF SoundInv, OffScreen, Ignored
<1> QED BY <1>1, <1>2, <1>3, QuietSound DEF Ignored

\* The stream opens, or the late headers are ignored.
LEMMA HeadersReadySound ==
  ASSUME TypeInv, SoundInv, NEW r \in DOMAIN req, HeadersReady(r)
  PROVE  SoundInv'
<1>1. CASE ctl # r
  BY <1>1, IgnoredSound DEF HeadersReady
<1>2. CASE ctl = r
  <2>1. View' = View /\ Base' = Base
    BY <1>2, QuietViews DEF HeadersReady
  <2>2. Len(req') = Len(req) /\ (Running' => Running /\ req'[Len(req)].sent = req[Len(req)].sent)
    BY <1>2, PhaseRuns DEF HeadersReady, Phases
  <2>3. OffScreen'
    BY <1>2 DEF SoundInv, OffScreen, HeadersReady
  <2> QED BY <1>2, <2>1, <2>2, <2>3, QuietSound DEF HeadersReady
<1> QED BY <1>1, <1>2

\* A stream that is cut off changes nothing of the conversation.
LEMMA StreamCutSound ==
  ASSUME TypeInv, SoundInv, NEW r \in DOMAIN req, StreamCut(r)
  PROVE  SoundInv'
<1>1. View' = View /\ Base' = Base
  BY QuietViews DEF StreamCut
<1>2. Len(req') = Len(req) /\ (Running' => Running /\ req'[Len(req)].sent = req[Len(req)].sent)
  BY PhaseRuns DEF StreamCut, Phases
<1>3. OffScreen'
  BY DEF SoundInv, OffScreen, StreamCut
<1> QED BY <1>1, <1>2, <1>3, QuietSound DEF StreamCut

\* A delta of the current stream is buffered after those before it.
LEMMA DeltaSound ==
  ASSUME TypeInv, SoundInv, NEW r \in DOMAIN req, NEW n \in DOMAIN Script, StreamDelta(r, n)
  PROVE  SoundInv'
<1>0. View' = View /\ Base' = Base
  BY QuietViews DEF StreamDelta
<1>1. OffScreen'
  BY DEF SoundInv, OffScreen, StreamDelta
<1>2. CASE ~ (IsCurrent(r) /\ req[r].gen = gen /\ pend.gen = gen)
  <2>1. UNCHANGED <<req, pend, ctl, abort, messages, latest, saved, requesting>>
    BY <1>2 DEF StreamDelta
  <2>2. Running' => Running
    BY <2>1 DEF Running
  <2> QED BY <1>0, <1>1, <2>1, <2>2, QuietSound
<1>3. CASE IsCurrent(r) /\ req[r].gen = gen /\ pend.gen = gen
  <2> DEFINE s == req[r].sent  t == pend.text  d == Delta(r, s, n)
  <2>1. r # 0 /\ source = r
    BY <1>3 DEF TypeInv, CtlInv, HandlerSound, IsCurrent
  <2>2. Running /\ r = Len(req)
    BY <2>1, CurrentRuns DEF TypeInv
  <2>3. /\ View # <<>> /\ r \in Nat /\ req[r] \in ReqType /\ r \in Asked
    BY <2>2, AnswerFacts
  <2>4. s \in Nat /\ n \in Nat /\ n \in 0..Len(Script) /\ n \in s..Len(Script) /\ s < n
    BY DeltaBounds DEF TypeInv, CtlInv, HandlerSound
  <2>5. t \in Texts /\ pend \in [gen : Nat, text : Texts]
    BY DEF TypeInv, CtlInv, PendType
  <2>6. /\ req' = [req EXCEPT ![r].sent = n]
        /\ pend' = [pend EXCEPT !.text = MergeChunk(@, d)]
    BY <1>3 DEF StreamDelta
  <2>7. Len(req') = Len(req) /\ req'[r].sent = n
    BY <2>4, <2>6, ReqSent DEF TypeInv, CtlInv, HandlerSound
  <2>8. pend'.text = MergeChunk(t, d)
    BY <2>5, <2>6
  <2>9. Answer(View, t, r, s)
    BY <2>2 DEF SoundInv, AnswerSound
  <2>10. PICK m \in 0..s : Ordered(Last(View).text, r, 0, m) /\ Ordered(t, r, m, s)
    BY <2>9 DEF Answer
  <2>11. Ordered(d, r, s, n) /\ d \in Texts
    BY <2>3, <2>4, OrderedDelta, DeltaType
  <2> HIDE DEF s, t, d
  <2>12. Ordered(MergeChunk(t, d), r, m, n)
    <3>1. m \in Nat /\ m <= s /\ s <= n
      BY <2>4
    <3> QED BY <2>4, <2>5, <2>10, <2>11, <3>1, OrderedMerge
  <2>13. Answer(View, MergeChunk(t, d), r, n)
    <3>1. m \in 0..n
      BY <2>4
    <3> QED BY <2>9, <2>10, <2>12, <3>1 DEF Answer
  <2>14. AnswerSound'
    BY <1>0, <2>2, <2>7, <2>8, <2>13 DEF AnswerSound
  <2>15. messages' = messages /\ latest' = latest /\ saved' = saved /\ requesting' = requesting
    BY DEF StreamDelta
  <2>16. Talk(messages, View, Base, latest, saved, Len(req))' /\ PendingAsked'
    BY <1>0, <2>7, <2>15 DEF SoundInv, PendingAsked
  <2> QED BY <1>1, <2>14, <2>16 DEF SoundInv
<1> QED BY <1>2, <1>3

\* The end of the running request: flush, then the outcome.
LEMMA OutcomeSound ==
  ASSUME TypeInv, SoundInv, NEW r \in DOMAIN req, NEW kind \in {"done", "error", "answer"}, Outcome(r, kind),
         (ctl = r /\ req[r].phase = "headers") \/ source = r \/ abort = r,
         abort' = 0, source' = 0
  PROVE  SoundInv'
<1> DEFINE v == UpdateLast(FlushUpdater, View)
<1>1. /\ r \in Asked /\ r = Len(req) /\ req[r].gen = gen /\ pend.gen = gen
      /\ Running /\ shown /\ requesting /\ (ctl # 0 => ctl = r)
  BY CurrentRequest DEF TypeInv
<1>2. CtlInv /\ Conv /\ PendType /\ req \in Seq(ReqType)
  BY DEF TypeInv, CtlInv, HandlerSound
<1>3. page = "ready"
  BY <1>1 DEF SoundInv, OffScreen
<1>4. req' = [req EXCEPT ![r].phase = "over"] /\ ctl' = ctl
  BY DEF Outcome
<1>5. Len(req') = Len(req) /\ req'[r].phase = "over"
  BY <1>2, <1>4, ReqPhase DEF Phases
<1>6. ~ Running'
  BY <1>1, <1>4, <1>5 DEF Running
<1>7. AnswerSound'
  BY <1>6 DEF AnswerSound
<1>8. /\ Last(View).key = [from |-> "assistant", id |-> r] /\ View # <<>> /\ IsPending(Last(View))
      /\ Last(View) \in Messages /\ OwnMessage(Last(View))
  BY <1>1, AnswerFacts
<1>9. /\ Fine(messages, r) /\ Fine(View, r) /\ Fine(Base, r) /\ Fine(latest, r) /\ Fine(saved, r)
      /\ Later(messages, View) /\ Later(messages, Base)
  BY <1>1 DEF SoundInv, Talk
<1>10. /\ v # <<>> /\ Last(v).key = [from |-> "assistant", id |-> r] /\ IsPending(Last(v))
       /\ Fine(v, r) /\ Later(messages, v) /\ Last(v) \in Messages /\ OwnMessage(Last(v))
  BY <1>1, FlushSound DEF Answer
<1>11. messages' = messages /\ saved' = saved /\ page' = page
  BY <1>1, <1>2, OutcomeViews
<1> HIDE DEF v
<1>12. /\ Fine(View', r) /\ Later(messages, View') /\ NonePending(View')
       /\ Fine(Base', r) /\ Later(messages, Base') /\ Fine(latest', r)
  <2>1. CASE /\ pend.text = <<>>
             /\ View' = UpdateLast(OutcomeUpdater(kind, r), View)
             /\ Base' \in {Base, View'}
             /\ latest' \in {latest, View'}
    <3>1. Fine(View', r) /\ Later(messages, View') /\ NonePending(View')
      BY <1>1, <1>8, <1>9, <2>1, EndSound
    <3> QED BY <1>9, <2>1, <3>1
  <2>2. CASE /\ pend.text # <<>>
             /\ View' = UpdateLast(OutcomeUpdater(kind, r), v)
             /\ Base' \in {Base, v}
             /\ latest' \in {latest, v}
    <3>1. Fine(View', r) /\ Later(messages, View') /\ NonePending(View')
      BY <1>1, <1>10, <2>2, EndSound
    <3> QED BY <1>9, <1>10, <2>2, <3>1
  <2> QED BY <1>1, <1>2, <2>1, <2>2, OutcomeViews DEF v
<1>13. Talk(messages, View, Base, latest, saved, Len(req))'
  BY <1>1, <1>5, <1>9, <1>11, <1>12 DEF Talk
<1>14. PendingAsked'
  BY <1>12 DEF PendingAsked, NonePending
<1>15. OffScreen'
  BY <1>3, <1>11 DEF OffScreen
<1> QED BY <1>7, <1>13, <1>14, <1>15 DEF SoundInv

\* Everything the network does.
LEMMA NetworkSound ==
  ASSUME TypeInv, SoundInv, NEW r \in DOMAIN req, Network(r)
  PROVE  SoundInv' /\ messages' = messages
<1>0. r # 0
  BY DEF TypeInv, CtlInv, HandlerSound
<1>1. CASE HeadersReady(r)
  BY <1>1, HeadersReadySound DEF HeadersReady, Ignored
<1>2. CASE HeadersFailed(r)
  <2>1. Outcome(r, "error") /\ ctl = r /\ req[r].phase = "headers" /\ source' = source /\ abort' = abort
    BY <1>2 DEF HeadersFailed
  <2>2. source = 0 /\ abort = 0
    BY <1>0, <2>1 DEF TypeInv, CtlInv, HandlerSound
  <2>3. SoundInv'
    BY <2>1, <2>2, OutcomeSound
  <2>4. messages' = messages
    BY <2>1 DEF Outcome, Enqueue
  <2> QED BY <2>3, <2>4
<1>3. CASE \E n \in DOMAIN Script : StreamDelta(r, n)
  BY <1>3, DeltaSound DEF StreamDelta
<1>4. CASE \E kind \in {"done", "error"} : StreamEnds(r, kind)
  <2>1. PICK kind \in {"done", "error"} : StreamEnds(r, kind)
    BY <1>4
  <2>2. CASE ~ IsCurrent(r)
    BY <2>1, <2>2, IgnoredSound DEF StreamEnds, Ignored
  <2>3. CASE IsCurrent(r)
    <3>1. Outcome(r, kind) /\ source = r /\ source' = 0 /\ abort' = abort
      BY <2>1, <2>3 DEF StreamEnds, IsCurrent
    <3>2. abort = 0
      BY <1>0, <3>1, CurrentRuns DEF TypeInv
    <3>3. SoundInv'
      BY <3>1, <3>2, OutcomeSound
    <3>4. messages' = messages
      BY <3>1 DEF Outcome, Enqueue
    <3> QED BY <3>3, <3>4
  <2> QED BY <2>2, <2>3
<1>5. CASE \E kind \in {"answer", "error"} : PlainEnds(r, kind)
  <2>1. PICK kind \in {"answer", "error"} : PlainEnds(r, kind)
    BY <1>5
  <2>2. CASE abort # r \/ req[r].gen # gen
    BY <2>1, <2>2, IgnoredSound DEF PlainEnds, Ignored
  <2>3. CASE ~ (abort # r \/ req[r].gen # gen)
    <3>1. Outcome(r, kind) /\ abort = r /\ abort' = 0 /\ source' = source
      BY <2>1, <2>3 DEF PlainEnds
    <3>2. source = 0
      BY <1>0, <3>1 DEF TypeInv, CtlInv, HandlerSound
    <3>3. SoundInv'
      BY <3>1, <3>2, OutcomeSound
    <3>4. messages' = messages
      BY <3>1 DEF Outcome, Enqueue
    <3> QED BY <3>3, <3>4
  <2> QED BY <2>2, <2>3
<1>6. CASE StreamCut(r)
  BY <1>6, StreamCutSound DEF StreamCut
<1> QED BY <1>1, <1>2, <1>3, <1>4, <1>5, <1>6 DEF Network

\* The buffered text goes to the answer it was received for.
LEMMA FlushTimerSound ==
  ASSUME TypeInv, SoundInv, FlushTimer
  PROVE  SoundInv' /\ messages' = messages
<1>1. timer # 0 /\ timer = gen /\ pend.gen = gen /\ source # 0 /\ Conv /\ PendType
  BY DEF TypeInv, CtlInv, HandlerSound, FlushTimer
<1>2. Running /\ requesting
  BY <1>1, CurrentRuns DEF TypeInv
<1>3. page = "ready"
  BY <1>2 DEF SoundInv, OffScreen
<1>4. UNCHANGED <<messages, saved, page, shown, gen, req, ctl, source, abort, requesting>>
  BY <1>1, FlushViews
<1>5. Running' /\ OffScreen'
  BY <1>2, <1>3, <1>4 DEF Running, OffScreen
<1>6. CASE pend.text = <<>> /\ UNCHANGED <<queue, latest, pend>> /\ View' = View /\ Base' = Base
  BY <1>2, <1>4, <1>5, <1>6, QuietSound
<1>7. CASE /\ pend.text # <<>> /\ pend' = NoText(gen)
           /\ View' = UpdateLast(FlushUpdater, View)
           /\ Base' \in {Base, View'} /\ latest' \in {latest, View'}
  <2>1. /\ Answer(View', <<>>, Len(req), req[Len(req)].sent) /\ Fine(View', Len(req)) /\ Later(messages, View')
    BY <1>2, <1>7, FlushSound
  <2>2. Talk(messages, View, Base, latest, saved, Len(req))'
    BY <1>4, <1>7, <2>1 DEF SoundInv, Talk
  <2>3. PendingAsked'
    BY <1>2, <1>4 DEF PendingAsked
  <2>4. pend'.text = <<>>
    BY <1>7 DEF NoText
  <2>5. AnswerSound'
    BY <1>4, <2>1, <2>4 DEF AnswerSound
  <2> QED BY <1>4, <1>5, <2>2, <2>3, <2>5 DEF SoundInv
<1> QED BY <1>1, <1>4, <1>6, <1>7, FlushViews

-----------------------------------------------------------------------------
(* What the page and the user do *)

\* A render shows the updated answer; the finished ones stay.
LEMMA RenderSound ==
  ASSUME TypeInv, SoundInv, Render
  PROVE  SoundInv' /\ Stays(messages, messages')
<1>1. messages' = View /\ View' = View /\ Base' = View /\ latest' \in {latest, View} /\ saved' = saved /\ page' = page
  BY RenderConv, RenderViews DEF Render
<1>2. UNCHANGED <<requesting, pend, req, ctl, abort, source>>
  BY DEF Render, chat
<1>3. Fine(View, Len(req)) /\ Fine(messages, Len(req)) /\ Later(messages, View)
  BY DEF SoundInv, Talk
<1>4. NonePending(View) \/ requesting'
  BY <1>2 DEF SoundInv, PendingAsked, NonePending
<1>5. AnswerSound'
  BY <1>1, <1>2 DEF SoundInv, AnswerSound, Running
<1>6. OffScreen'
  <2>1. SUFFICES ASSUME page # "ready" PROVE OffScreen'
    BY <1>1 DEF OffScreen
  <2>2. messages = <<>> /\ queue = <<>> /\ ~requesting /\ ctl = 0 /\ abort = 0
    BY <2>1 DEF SoundInv, OffScreen
  <2>3. View = <<>>
    BY <2>2, EmptyViews
  <2>4. source = 0
    BY <2>2 DEF TypeInv, CtlInv, HandlerSound
  <2>5. queue' = <<>> /\ shown' = FALSE
    BY <1>2, <2>2, <2>4 DEF Render, RenderWith
  <2> QED BY <1>1, <1>2, <2>2, <2>3, <2>5 DEF OffScreen
<1>7. Len(req) \in Nat /\ Len(req) <= Len(req)
  BY DEF TypeInv, CtlInv, HandlerSound
<1>8. SoundInv'
  BY <1>1, <1>2, <1>3, <1>4, <1>5, <1>6, <1>7, RenderedSound
<1> QED BY <1>1, <1>3, <1>8, LaterStays

\* A request is sent with the conversation c, which ends with its answer.
LEMMA SendChatSound ==
  ASSUME TypeInv, SoundInv, NEW c, SendChat(c), page = "ready",
         Fine(c, Len(req) + 1), c # <<>>, Last(c) = LoadingMessage(Len(req) + 1)
  PROVE  SoundInv' /\ messages' = c
<1> DEFINE n == Len(req)
<1>1. Conv /\ req \in Seq(ReqType) /\ n \in Nat /\ n + 1 \in Nat /\ n <= n + 1 /\ gen \in Nat
  BY DEF TypeInv, CtlInv, HandlerSound, PendType
<1>2. c \in Seq(Messages)
  BY DEF Fine
<1>3. messages' = c /\ View' = c /\ Base' = c /\ latest' \in {latest, c} /\ saved' = saved
  BY <1>1, <1>2, SendViews
<1>4. PICK x : x.sent = 0 /\ req' = Append(req, x)
  BY DEF SendChat, StartStream, StartPlain, NextRequest
<1>5. Len(req') = n + 1 /\ req'[n + 1].sent = 0
  BY <1>1, <1>4
<1>6. pend'.text = <<>> /\ requesting' /\ page' = page
  BY DEF SendChat, NoText
<1>7. Answer(c, <<>>, n + 1, 0)
  <2>1. Ordered(<<>>, n + 1, 0, 0) /\ 0 \in 0..0
    BY OrderedEmpty
  <2>2. /\ Last(c).key = [from |-> "assistant", id |-> n + 1] /\ IsPending(Last(c)) /\ Last(c).text = <<>>
    BY DEF LoadingMessage, IsPending
  <2> QED BY <2>1, <2>2 DEF Answer
<1>8. AnswerSound'
  BY <1>3, <1>5, <1>6, <1>7 DEF AnswerSound
<1>9. OffScreen'
  BY <1>6 DEF OffScreen
<1>10. Fine(c, Len(req')) /\ Len(req') \in Nat /\ Len(req) <= Len(req')
  BY <1>1, <1>5
<1>11. SoundInv'
  BY <1>1, <1>3, <1>6, <1>8, <1>9, <1>10, RenderedSound
<1> QED BY <1>3, <1>11

\* While nothing is being generated the screen shows the whole conversation.
LEMMA AtRest ==
  ASSUME TypeInv, SoundInv, ~shown
  PROVE  queue = <<>> /\ View = messages /\ NonePending(messages) /\ ~Running /\ ~requesting
<1>1. queue = <<>> /\ ~requesting /\ ~Running
  BY DEF TypeInv, CtlInv, HandlerSound
<1>2. View = messages
  BY <1>1, EmptyViews
<1> QED BY <1>1, <1>2 DEF SoundInv, PendingAsked, NonePending

\* The number of a new request.
LEMMA SentNumber ==
  ASSUME TypeInv, NextRequest \in Requests
  PROVE  Len(req) \in Nat /\ Len(req) + 1 \in Asked /\ NextRequest = Len(req) + 1
<1>1. req \in Seq(ReqType)
  BY DEF TypeInv, CtlInv, HandlerSound
<1> QED BY <1>1, Constants DEF NextRequest, Requests, Asked

\* The user sends a message.
LEMMA SendUserSound ==
  ASSUME TypeInv, SoundInv, Orderly, Send
  PROVE  SoundInv' /\ Stays(messages, messages')
<1> DEFINE n == Len(req)  c == messages \o <<UserMessage(n + 1), LoadingMessage(n + 1)>>
<1>1. page = "ready" /\ ~shown
  BY DEF Send, CanAct, Orderly
<1>2. NonePending(messages) /\ Fine(messages, n)
  BY <1>1, AtRest DEF SoundInv, Talk
<1>3. n \in Nat /\ n + 1 \in Asked /\ NextRequest = n + 1
  BY SentNumber DEF Send, SendChat
<1>4. SendChat(c)
  BY <1>3 DEF Send
<1>5. Fine(c, n + 1) /\ c # <<>> /\ Last(c) = LoadingMessage(n + 1) /\ FromOld(messages, c, n)
  BY <1>2, <1>3, SendSound
<1> HIDE DEF c
<1>6. SoundInv' /\ messages' = c
  BY <1>1, <1>4, <1>5, SendChatSound
<1> QED BY <1>2, <1>3, <1>5, <1>6, OldStays

\* The conversation up to a message of the user, answered again.
LEMMA AgainSound ==
  ASSUME TypeInv, SoundInv, page = "ready", NEW k \in Keys0, ~shown \/ k.from = "user",
         SendChat(Append(UpTo(k), LoadingMessage(NextRequest)))
  PROVE  SoundInv' /\ Stays(messages, messages')
<1> DEFINE n == Len(req)  c == Append(UpTo(k), LoadingMessage(n + 1))  L == Len(messages)
           i == Position(messages, k)
<1>1. Fine(messages, n)
  BY DEF SoundInv, Talk
<1>2. n \in Nat /\ n + 1 \in Asked /\ NextRequest = n + 1
  BY SentNumber DEF SendChat
<1>3. SendChat(c)
  BY <1>2
<1>4. messages \in Seq(Messages)
  BY <1>1 DEF Fine
<1>5. PICK p \in 0..L : UpTo(k) = SubSeq(messages, 1, p) /\ p \in {i, i - 1}
  BY <1>4, UpToType
<1>6. i \in DOMAIN messages /\ messages[i].key = k
  BY PositionIn
<1>7. i \in 1..L /\ L \in Nat /\ DOMAIN messages = 1..L
  BY <1>4, <1>6
<1> HIDE DEF i, L
<1>8. ASSUME NEW j \in 1..p PROVE ~IsPending(messages[j])
  <2>1. j \in DOMAIN messages
    BY <1>5, <1>7
  <2>2. CASE ~shown
    BY <2>1, <2>2, AtRest DEF NonePending
  <2>3. CASE k.from = "user"
    <3>1. SUFFICES ASSUME IsPending(messages[j]) PROVE FALSE
      OBVIOUS
    <3>2. j = L /\ messages[j].key.from = "assistant"
      BY <1>1, <2>1, <3>1 DEF Fine, L
    <3>3. j = i
      BY <1>5, <1>7, <3>2
    <3> QED BY <1>6, <2>3, <3>2, <3>3
  <2> QED BY <2>2, <2>3
<1>9. c = Append(SubSeq(messages, 1, p), LoadingMessage(n + 1))
  BY <1>5
<1> HIDE DEF c
<1>10. Fine(c, n + 1) /\ c # <<>> /\ Last(c) = LoadingMessage(n + 1) /\ FromOld(messages, c, n)
  BY <1>1, <1>2, <1>8, <1>9, PrefixSend DEF L
<1>11. SoundInv' /\ messages' = c
  BY <1>3, <1>10, SendChatSound
<1> QED BY <1>1, <1>2, <1>10, <1>11, OldStays

\* The user stops the generation, with or without the buffered text.
LEMMA StopGenerationSound ==
  ASSUME TypeInv, SoundInv, StopGeneration
  PROVE  SoundInv' /\ Stays(messages, messages')
<1> DEFINE n == Len(req)  v == UpdateLast(FlushUpdater, View)
<1>1. Conv /\ PendType /\ n \in Nat /\ messages \in Seq(Messages)
  BY DEF TypeInv, CtlInv, HandlerSound, Conv
<1>2. StopUpdater \in PlainUpdaters /\ StopUpdater.kind = "stop"
  BY <1>1, FlushPlain DEF StopUpdater, Updater
<1>3. /\ Fine(messages, n) /\ Fine(Base, n) /\ Later(messages, Base)
  BY DEF SoundInv, Talk
<1>4. /\ Fine(messages', n) /\ NonePending(messages') /\ Later(messages, messages')
  <2>1. CASE messages' = UpdateLast(StopUpdater, Base)
    BY <1>1, <1>2, <1>3, <2>1, StopSound
  <2>2. CASE pend.text # <<>> /\ messages' = UpdateLast(StopUpdater, v)
    <3>1. timer # 0 /\ source # 0
      BY <2>2 DEF TypeInv, CtlInv, HandlerSound
    <3>2. Running
      BY <3>1, CurrentRuns DEF TypeInv
    <3>3. Fine(v, n) /\ Later(messages, v)
      BY <3>2, FlushSound
    <3> HIDE DEF v
    <3> QED BY <1>1, <1>2, <2>2, <3>3, StopSound
  <2> QED BY <1>1, <2>1, <2>2, StopConv
<1>5. PICK q : RenderWith(q)
  BY DEF StopGeneration
<1>6. View' = messages' /\ Base' = messages' /\ latest' \in {latest, messages'}
  BY <1>5, RenderViews
<1>7. ctl' = 0 /\ abort' = 0 /\ page' = "ready" /\ req' = req /\ saved' = saved
  BY DEF StopGeneration
<1>8. AnswerSound' /\ OffScreen'
  BY <1>7 DEF AnswerSound, OffScreen, Running
<1>9. Len(req') = n /\ n <= n
  BY <1>1, <1>7
<1>10. SoundInv'
  BY <1>1, <1>4, <1>6, <1>7, <1>8, <1>9, RenderedSound
<1> QED BY <1>3, <1>4, <1>10, LaterStays

\* A conversation rendered while the requests go on as they did.
LEMMA EditSound ==
  ASSUME TypeInv, SoundInv, page = "ready", page' = page, UNCHANGED chat, saved' = saved,
         NEW q, RenderWith(q), Fine(messages', Len(req)),
         (~shown /\ NonePending(messages')) \/ messages' = View
  PROVE  SoundInv'
<1>1. View' = messages' /\ Base' = messages' /\ latest' \in {latest, messages'}
  BY RenderViews
<1>2. UNCHANGED <<req, ctl, abort, requesting, pend>>
  BY DEF chat
<1>3. Running' = Running
  BY <1>2 DEF Running
<1>4. AnswerSound'
  <2>1. CASE ~shown
    BY <1>3, <2>1, AtRest DEF AnswerSound
  <2>2. CASE messages' = View
    BY <1>1, <1>2, <1>3, <2>2 DEF SoundInv, AnswerSound
  <2> QED BY <2>1, <2>2
<1>5. NonePending(messages') \/ requesting'
  BY <1>2 DEF SoundInv, PendingAsked, NonePending
<1>6. Len(req) \in Nat /\ Len(req) <= Len(req) /\ Len(req') = Len(req)
  BY <1>2 DEF TypeInv, CtlInv, HandlerSound
<1>7. OffScreen'
  BY DEF OffScreen
<1> QED BY <1>1, <1>4, <1>5, <1>6, <1>7, RenderedSound

\* An edit is saved when the screen is up to date, also while an answer runs.
LEMMA SaveEditSound ==
  ASSUME TypeInv, SoundInv, Orderly, SaveEdit
  PROVE  SoundInv' /\ Stays(messages, messages')
<1>1. queue = <<>> /\ page = "ready" /\ page' = page /\ saved' = saved
  BY DEF SaveEdit, Orderly
<1>2. View = messages
  BY <1>1, EmptyViews
<1>3. Conv /\ messages \in Seq(Messages)
  BY DEF TypeInv, Conv
<1>4. RenderWith(Append(queue, SetMessages(messages))) /\ UNCHANGED chat
  BY DEF SaveEdit
<1>5. messages' = messages
  BY <1>3, <1>4, SetConv
<1>6. Fine(messages, Len(req))
  BY DEF SoundInv, Talk
<1>7. SoundInv'
  BY <1>1, <1>2, <1>4, <1>5, <1>6, EditSound
<1> QED BY <1>5, <1>6, <1>7, LaterSame, LaterStays

\* A message is deleted while nothing is generated.
LEMMA DeleteSound ==
  ASSUME TypeInv, SoundInv, NEW k, Delete(k)
  PROVE  SoundInv' /\ Stays(messages, messages')
<1> DEFINE n == Len(req)
<1>1. ~shown /\ page = "ready" /\ page' = page /\ saved' = saved /\ UNCHANGED chat /\ gen' = gen
  BY DEF Delete, chat
<1>2. View = messages /\ NonePending(messages) /\ Fine(messages, n) /\ Conv /\ n \in Nat
  BY <1>1, AtRest DEF SoundInv, Talk, TypeInv, CtlInv, HandlerSound
<1>3. RenderWith(Append(queue, DeleteMessage(k)))
  BY DEF Delete
<1>4. messages' = Without(messages, k)
  BY <1>1, <1>2, <1>3, DeleteConv
<1>5. Fine(messages', n) /\ NonePending(messages') /\ FromOld(messages, messages', n)
  BY <1>2, <1>4, WithoutSound
<1>6. SoundInv'
  BY <1>1, <1>3, <1>5, EditSound
<1> QED BY <1>2, <1>5, <1>6, OldStays

\* The conversation is cleared.
LEMMA ClearSound ==
  ASSUME TypeInv, SoundInv, ClearMessages
  PROVE  SoundInv' /\ Stays(messages, messages')
<1>1. ~shown /\ page = "ready" /\ page' = page /\ saved' = saved /\ UNCHANGED chat
  BY DEF ClearMessages
<1>2. RenderWith(Append(queue, SetMessages(<<>>))) /\ Conv
  BY DEF ClearMessages, TypeInv
<1>3. messages' = <<>>
  <2>1. <<>> \in Seq(Messages)
    OBVIOUS
  <2> QED BY <1>2, <2>1, SetConv
<1>4. Fine(messages', Len(req)) /\ NonePending(messages')
  BY <1>3, FineEmpty DEF NonePending
<1>5. SoundInv'
  BY <1>1, <1>2, <1>4, EditSound
<1> QED BY <1>3, <1>5 DEF Stays

\* Everything the user does.
LEMMA UserSound ==
  ASSUME TypeInv, SoundInv, Orderly, User
  PROVE  SoundInv' /\ Stays(messages, messages')
<1>1. CASE Send
  BY <1>1, SendUserSound
<1>2. CASE StopGeneration
  BY <1>2, StopGenerationSound
<1>3. CASE SaveEdit
  BY <1>3, SaveEditSound
<1>4. CASE SubmitEdit
  BY <1>4, AgainSound DEF SubmitEdit
<1>5. CASE CancelEdit \/ \E k \in Keys0 : OpenEditor(k)
  <2>1. UNCHANGED <<page, messages, shown, queue, chat, latest, saved>>
    BY <1>5 DEF CancelEdit, OpenEditor
  <2>2. View' = View /\ Base' = Base
    BY <2>1, QuietViews DEF chat
  <2>3. OffScreen' /\ Running' = Running
    BY <2>1 DEF SoundInv, OffScreen, Running, chat
  <2>4. SoundInv'
    BY <2>1, <2>2, <2>3, QuietSound DEF chat
  <2>5. Fine(messages, Len(req))
    BY DEF SoundInv, Talk
  <2> QED BY <2>1, <2>4, <2>5, LaterSame, LaterStays
<1>6. CASE ClearMessages
  BY <1>6, ClearSound
<1>7. CASE \E k \in Keys0 : Regenerate(k)
  BY <1>7, AgainSound DEF Regenerate
<1>8. CASE \E k \in Keys0 : Delete(k)
  BY <1>8, DeleteSound
<1> QED BY <1>1, <1>2, <1>3, <1>4, <1>5, <1>6, <1>7, <1>8 DEF User

\* The stored conversation is loaded and repaired.
LEMMA LoadSound ==
  ASSUME TypeInv, SoundInv, Load
  PROVE  SoundInv'
<1>1. page # "ready" /\ page' = "ready" /\ messages' = Sanitized(Normalized(saved)) /\ queue' = <<>>
      /\ latest' = messages' /\ saved' = messages' /\ UNCHANGED <<chat, shown>>
  BY DEF Load
<1>2. ctl = 0 /\ abort = 0 /\ ctl' = 0 /\ abort' = 0 /\ req' = req
  BY <1>1 DEF SoundInv, OffScreen, chat
<1>3. Fine(saved, Len(req)) /\ Len(req) \in Nat
  BY DEF SoundInv, Talk, TypeInv, CtlInv, HandlerSound
<1>4. Fine(messages', Len(req)) /\ NonePending(messages')
  BY <1>1, <1>3, RepairSound
<1>5. View' = messages' /\ Base' = messages'
  BY <1>1, EmptyViewsPrime
<1>6. Talk(messages, View, Base, latest, saved, Len(req))'
  BY <1>1, <1>2, <1>4, <1>5, LaterSame DEF Talk
<1>7. PendingAsked'
  BY <1>4, <1>5 DEF PendingAsked, NonePending
<1>8. AnswerSound' /\ OffScreen'
  BY <1>1, <1>2 DEF AnswerSound, Running, OffScreen
<1> QED BY <1>6, <1>7, <1>8 DEF SoundInv

\* The page is left.
LEMMA GoneSound ==
  ASSUME TypeInv, SoundInv, Gone, saved' \in {saved, latest}
  PROVE  SoundInv'
<1>1. /\ page' = "away" /\ messages' = <<>> /\ latest' = <<>> /\ queue' = <<>> /\ shown' = FALSE
      /\ requesting' = FALSE /\ ctl' = 0 /\ abort' = 0 /\ req' = req
  BY DEF Gone
<1>2. View' = <<>> /\ Base' = <<>>
  BY <1>1, EmptyViewsPrime
<1>3. Talk(messages, View, Base, latest, saved, Len(req))'
  BY <1>1, <1>2, FineEmpty, LaterSame DEF Talk, SoundInv
<1>4. PendingAsked' /\ AnswerSound' /\ OffScreen'
  BY <1>1, <1>2 DEF PendingAsked, AnswerSound, Running, OffScreen
<1> QED BY <1>3, <1>4 DEF SoundInv

\* Every step of an orderly page.
LEMMA SoundStep ==
  ASSUME Orderly, TypeInv, SoundInv, [Next]_vars
  PROVE  SoundInv' /\ (page = "ready" /\ page' = "ready" => Stays(messages, messages'))
<1>0. Stays(messages, messages)
  BY LaterSame, LaterStays DEF SoundInv, Talk
<1>1. CASE \E r \in DOMAIN req : Network(r)
  BY <1>0, <1>1, NetworkSound
<1>2. CASE Render
  BY <1>2, RenderSound
<1>3. CASE FlushTimer
  BY <1>0, <1>3, FlushTimerSound
<1>4. CASE SaveTimer \/ Enter \/ UNCHANGED vars
  <2>1. UNCHANGED <<messages, shown, queue, chat, latest>> /\ saved' \in {saved, latest}
        /\ (page' # page => page = "away")
    BY <1>4 DEF SaveTimer, Enter, vars
  <2>2. View' = View /\ Base' = Base
    BY <2>1, QuietViews DEF chat
  <2>3. OffScreen' /\ Running' = Running
    BY <2>1 DEF SoundInv, OffScreen, Running, chat
  <2>4. SoundInv'
    BY <2>1, <2>2, <2>3, QuietSound DEF chat
  <2> QED BY <1>0, <2>1, <2>4
<1>5. CASE Load
  BY <1>5, LoadSound DEF Load
<1>6. CASE User
  BY <1>6, UserSound
<1>7. CASE Unmount \/ Close
  <2>1. Gone /\ saved' \in {saved, latest}
    BY <1>7 DEF Unmount, Close
  <2> QED BY <2>1, GoneSound DEF Gone
<1> QED BY <1>1, <1>2, <1>3, <1>4, <1>5, <1>6, <1>7 DEF Next

\* The first state.
LEMMA SoundInit == Init => SoundInv
<1> SUFFICES ASSUME Init PROVE SoundInv
  OBVIOUS
<1> DEFINE u == UserMessage(0)  m == [LoadingMessage(0) EXCEPT !.status = "complete", !.text = FullText(0)]
<1>1. View = <<>> /\ Base = <<>>
  BY EmptyViews DEF Init
<1>2. Earlier \in Seq(Messages) /\ Len(Earlier) = 2 /\ Earlier[1] = u /\ Earlier[2] = m
  BY EarlierType DEF Earlier
<1>3. /\ u.key = [from |-> "user", id |-> 0] /\ u.text = <<>> /\ ~IsPending(u)
      /\ m.key = [from |-> "assistant", id |-> 0] /\ m.text = FullText(0) /\ ~IsPending(m)
  BY DEF UserMessage, LoadingMessage, IsPending
<1> HIDE DEF u, m
<1>4. OwnMessage(u) /\ OwnMessage(m)
  BY <1>3, OrderedEmpty, OrderedFull, Constants DEF OwnMessage
<1>5. DOMAIN Earlier = {1, 2}
  BY <1>2
<1>6. u.key.id <= 0 /\ m.key.id <= 0 /\ u.key # m.key
  BY <1>3
<1>7. Fine(Earlier, 0)
  BY <1>2, <1>3, <1>4, <1>5, <1>6 DEF Fine
<1>8. Talk(messages, View, Base, latest, saved, Len(req))
  BY <1>1, <1>7, FineEmpty, LaterSame DEF Talk, Init
<1>9. PendingAsked /\ AnswerSound /\ OffScreen
  BY <1>1 DEF Init, PendingAsked, AnswerSound, Running, OffScreen
<1> QED BY <1>8, <1>9 DEF SoundInv

\* What the invariant says of the screen.
LEMMA SoundImplies == TypeInv /\ SoundInv => OwnText /\ NothingStuck
<1> SUFFICES ASSUME TypeInv, SoundInv PROVE OwnText /\ NothingStuck
  OBVIOUS
<1>1. Fine(messages, Len(req))
  BY DEF SoundInv, Talk
<1>2. OwnText
  <2>1. SUFFICES ASSUME NEW i \in DOMAIN messages
                 PROVE  /\ \A j \in DOMAIN messages[i].text : messages[i].text[j].req = messages[i].key.id
                        /\ \A j, k \in DOMAIN messages[i].text : j < k =>
                              \E p, q \in DOMAIN Script :
                                p < q /\ messages[i].text[j].letter = Script[p] /\ messages[i].text[k].letter = Script[q]
    BY DEF OwnText
  <2>2. Ordered(messages[i].text, messages[i].key.id, 0, Len(Script))
    BY <1>1 DEF Fine, OwnMessage
  <2> QED BY <2>2, OrderedOwn
<1>3. NothingStuck
  <2>1. SUFFICES ASSUME queue = <<>>, NEW i \in DOMAIN messages, IsPending(messages[i])
                 PROVE  i = Len(messages) /\ requesting
    BY DEF NothingStuck
  <2>2. View = messages
    BY <2>1, EmptyViews
  <2> QED BY <1>1, <2>1, <2>2 DEF Fine, SoundInv, PendingAsked
<1> QED BY <1>2, <1>3

\* The invariant of an orderly page.
LEMMA SoundAlways == ASSUME Orderly PROVE Spec => [](TypeInv /\ SoundInv)
<1>1. Init => TypeInv /\ SoundInv
  BY TypeInit, SoundInit
<1>2. TypeInv /\ SoundInv /\ [Next]_vars => (TypeInv /\ SoundInv)'
  BY TypeStep, SoundStep
<1> QED BY <1>1, <1>2, PTL DEF Spec

\* OwnText: on an orderly page an answer shows only text of its own request, in
\* the order it was streamed, however sends, stops, edits, flushes, renders and
\* late events of closed streams interleave (requestGenerationRef).
THEOREM AnswersKeepTheirText == ASSUME Orderly PROVE Spec => []OwnText
<1>1. TypeInv /\ SoundInv => OwnText
  BY SoundImplies
<1> QED BY <1>1, SoundAlways, PTL

\* NothingStuck: on an orderly page a message that is still pending on the
\* rendered screen is the last one and can be stopped, also after the
\* tab was closed in the middle of an answer (sanitizeMessagesOnLoad).
THEOREM NoDeadMessages == ASSUME Orderly PROVE Spec => []NothingStuck
<1>1. TypeInv /\ SoundInv => NothingStuck
  BY SoundImplies
<1> QED BY <1>1, SoundAlways, PTL

\* FinalStays: on an orderly page no step changes an answer that is complete or
\* failed; late events and updaters of old generations do not reach it.
THEOREM FinishedAnswersStay == ASSUME Orderly PROVE Spec => FinalStays
<1>1. TypeInv /\ SoundInv /\ [Next]_vars =>
        [page = "ready" /\ page' = "ready" =>
            \A i \in DOMAIN messages, j \in DOMAIN messages' :
              (messages[i].key = messages'[j].key /\ IsFinal(messages[i])) => messages'[j] = messages[i]]_vars
  BY SoundStep DEF Stays
<1> QED BY <1>1, SoundAlways, PTL DEF Spec, FinalStays

-----------------------------------------------------------------------------
(* A streamed answer shows every letter received: a chunk that begins with the
   text so far replaces it, and so has all of its letters. *)

\* Text a has the letter x.
Holds(a, x) == \E j \in DOMAIN a : a[j].letter = x

\* The answer a and the buffer b have the first s letters of Script, and the
\* last of them is the end of what there is.
Shown(a, b, s) ==
    /\ \A n \in 1..s : Holds(a, Script[n]) \/ Holds(b, Script[n])
    /\ b # <<>> => Last(b).letter = Script[s]
    /\ b = <<>> /\ s > 0 => a # <<>> /\ Last(a).letter = Script[s]

\* The running answer and the buffer show all that was received.
ShownInv == Running => Shown(Last(View).text, pend.text, req[Len(req)].sent)

\* a \o b, position by position.
LEMMA TextConcat ==
  ASSUME NEW a \in Texts, NEW b \in Texts
  PROVE  /\ a \o b \in Texts /\ Len(a \o b) = Len(a) + Len(b) /\ Len(a) \in Nat /\ Len(b) \in Nat
         /\ \A j \in 1..Len(a) : (a \o b)[j] = a[j]
         /\ \A j \in 1..Len(b) : (a \o b)[Len(a) + j] = b[j]
BY DEF Texts

\* A text begins with its prefixes.
LEMMA PrefixLetters ==
  ASSUME NEW a \in Texts, NEW b \in Texts, IsPrefix(a, b)
  PROVE  Len(a) <= Len(b) /\ \A j \in 1..Len(a) : a[j] = b[j]
<1>1. Len(a) \in Nat /\ Len(b) \in Nat /\ Len(a) <= Len(b)
  BY DEF IsPrefix, Texts
<1>2. SubSeq(a, 1, Len(a)) = SubSeq(b, 1, Len(a))
  BY DEF IsPrefix
<1>3. ASSUME NEW j \in 1..Len(a) PROVE a[j] = b[j]
  <2>1. SubSeq(a, 1, Len(a))[j] = a[j] /\ SubSeq(b, 1, Len(a))[j] = b[j]
    BY <1>1 DEF Texts
  <2> QED BY <1>2, <2>1
<1> QED BY <1>1, <1>3

\* A merged text has the letters of both, and ends as the chunk does.
LEMMA MergeShows ==
  ASSUME NEW a \in Texts, NEW b \in Texts
  PROVE  /\ \A x : Holds(a, x) \/ Holds(b, x) => Holds(MergeChunk(a, b), x)
         /\ b # <<>> => MergeChunk(a, b) # <<>> /\ Last(MergeChunk(a, b)) = Last(b)
         /\ b = <<>> => MergeChunk(a, b) = a
<1>0. Len(a) \in Nat /\ Len(b) \in Nat /\ DOMAIN a = 1..Len(a) /\ DOMAIN b = 1..Len(b)
  BY DEF Texts
<1>1. CASE a # <<>> /\ IsPrefix(a, b)
  <2>1. MergeChunk(a, b) = b
    BY <1>1, Zenon DEF MergeChunk
  <2>2. Len(a) <= Len(b) /\ \A j \in 1..Len(a) : a[j] = b[j]
    BY <1>1, PrefixLetters
  <2>3. DOMAIN a \subseteq DOMAIN b /\ \A j \in DOMAIN a : a[j] = b[j]
    BY <1>0, <2>2
  <2>4. \A x : Holds(a, x) => Holds(b, x)
    BY <2>3 DEF Holds
  <2>5. b # <<>>
    BY <1>0, <1>1, <2>2, EmptySeq DEF Texts
  <2> QED BY <2>1, <2>4, <2>5
<1>2. CASE ~ (a # <<>> /\ IsPrefix(a, b))
  <2> DEFINE c == a \o b
  <2>1. MergeChunk(a, b) = c
    BY <1>2, Zenon DEF MergeChunk
  <2>2. /\ c \in Texts /\ Len(c) = Len(a) + Len(b)
        /\ \A j \in 1..Len(a) : c[j] = a[j]
        /\ \A j \in 1..Len(b) : c[Len(a) + j] = b[j]
    BY TextConcat
  <2>3. b = <<>> => c = a
    BY DEF Texts
  <2> HIDE DEF c
  <2>4. DOMAIN c = 1..(Len(a) + Len(b))
    BY <2>2 DEF Texts
  <2>5. ASSUME NEW x, Holds(a, x) PROVE Holds(c, x)
    <3>1. PICK j \in 1..Len(a) : a[j].letter = x
      BY <1>0, <2>5 DEF Holds
    <3>2. j \in DOMAIN c /\ c[j] = a[j]
      BY <1>0, <2>2, <2>4
    <3> QED BY <3>1, <3>2 DEF Holds
  <2>6. ASSUME NEW x, Holds(b, x) PROVE Holds(c, x)
    <3>1. PICK j \in 1..Len(b) : b[j].letter = x
      BY <1>0, <2>6 DEF Holds
    <3>2. Len(a) + j \in DOMAIN c /\ c[Len(a) + j] = b[j]
      BY <1>0, <2>2, <2>4
    <3> QED BY <3>1, <3>2 DEF Holds
  <2>7. ASSUME b # <<>> PROVE c # <<>> /\ Last(c) = Last(b)
    <3>1. Len(b) \in 1..Len(b) /\ Len(b) # 0
      BY <1>0, <2>7, EmptySeq DEF Texts
    <3>2. c[Len(a) + Len(b)] = b[Len(b)] /\ Len(c) # 0
      BY <1>0, <2>2, <3>1
    <3>3. c # <<>>
      BY <3>2
    <3> QED BY <2>2, <3>2, <3>3 DEF Last
  <2> QED BY <2>1, <2>3, <2>5, <2>6, <2>7
<1> QED BY <1>1, <1>2

\* The flush shows what is pending.
LEMMA ShownMerge ==
  ASSUME NEW a \in Texts, NEW b \in Texts, NEW s \in 0..Len(Script), Shown(a, b, s)
  PROVE  Shown(MergeChunk(a, b), <<>>, s)
<1> DEFINE c == MergeChunk(a, b)
<1>1. /\ \A x : Holds(a, x) \/ Holds(b, x) => Holds(c, x)
      /\ b # <<>> => c # <<>> /\ Last(c) = Last(b)
      /\ b = <<>> => c = a
  BY MergeShows
<1> HIDE DEF c
<1>2. \A n \in 1..s : Holds(c, Script[n])
  BY <1>1, Zenon DEF Shown
<1>3. s > 0 => c # <<>> /\ Last(c).letter = Script[s]
  BY <1>1 DEF Shown
<1>4. Shown(c, <<>>, s)
  BY <1>2, <1>3, Zenon DEF Shown
<1> QED BY <1>4 DEF c

\* A delta is shown with what is pending.
LEMMA ShownDelta ==
  ASSUME NEW a \in Texts, NEW b \in Texts, NEW r \in Asked, NEW s \in Nat, NEW n \in s..Len(Script),
         s < n, Shown(a, b, s)
  PROVE  Shown(a, MergeChunk(b, Delta(r, s, n)), n)
<1> DEFINE d == Delta(r, s, n)  c == MergeChunk(b, d)
<1>0. Len(Script) \in Nat /\ n \in Nat /\ n - s \in 1..(n - s) /\ s + (n - s) = n
  BY Constants
<1>1. /\ d \in Texts /\ Len(d) = n - s /\ d # <<>>
      /\ \A i \in 1..(n - s) : d[i] = [req |-> r, letter |-> Script[s + i]]
  BY DeltaType
<1> HIDE DEF d
<1>2. DOMAIN d = 1..(n - s)
  BY <1>1 DEF Texts
<1>3. Last(d).letter = Script[n]
  <2>1. d[n - s] = [req |-> r, letter |-> Script[n]]
    BY <1>0, <1>1
  <2> QED BY <1>1, <2>1 DEF Last
<1>4. ASSUME NEW k \in 1..n, ~ (k \in 1..s) PROVE Holds(d, Script[k])
  <2>1. k - s \in 1..(n - s) /\ s + (k - s) = k
    BY <1>0, <1>4
  <2>2. d[k - s] = [req |-> r, letter |-> Script[k]]
    BY <1>1, <2>1
  <2>3. d[k - s].letter = Script[k] /\ k - s \in DOMAIN d
    BY <1>2, <2>1, <2>2
  <2> QED BY <2>3 DEF Holds
<1>5. /\ \A x : Holds(b, x) \/ Holds(d, x) => Holds(c, x)
      /\ c # <<>> /\ Last(c) = Last(d)
  BY <1>1, MergeShows
<1> HIDE DEF c
<1>6. \A k \in 1..n : Holds(a, Script[k]) \/ Holds(c, Script[k])
  BY <1>4, <1>5, Zenon DEF Shown
<1>7. Shown(a, c, n)
  BY <1>3, <1>5, <1>6 DEF Shown
<1> QED BY <1>7 DEF c, d

\* Steps that leave the running answer and the buffer alone.
LEMMA ShownKept ==
  ASSUME ShownInv, View' = View, pend' = pend, Len(req') = Len(req),
         Running' => Running /\ req'[Len(req)].sent = req[Len(req)].sent
  PROVE  ShownInv'
BY DEF ShownInv

\* After its outcome the request does not run.
LEMMA OutcomeEnds ==
  ASSUME TypeInv, NEW r \in DOMAIN req, NEW kind, Outcome(r, kind),
         (ctl = r /\ req[r].phase = "headers") \/ source = r \/ abort = r, abort' = 0
  PROVE  ~ Running'
<1>1. r = Len(req) /\ (ctl # 0 => ctl = r)
  BY CurrentRequest DEF TypeInv
<1>2. req \in Seq(ReqType)
  BY DEF TypeInv, CtlInv, HandlerSound
<1>3. req' = [req EXCEPT ![r].phase = "over"] /\ ctl' = ctl
  BY DEF Outcome
<1>4. req'[r].phase = "over"
  BY <1>2, <1>3, ReqPhase DEF Phases
<1> QED BY <1>1, <1>3, <1>4 DEF Running

\* Everything the network does.
LEMMA ShownNetwork ==
  ASSUME TypeInv, SoundInv, ShownInv, NEW r \in DOMAIN req, Network(r)
  PROVE  ShownInv'
<1>0. r # 0
  BY DEF TypeInv, CtlInv, HandlerSound
<1>1. ASSUME Ignored(r) PROVE ShownInv'
  <2>1. View' = View /\ pend' = pend
    BY <1>1, QuietViews DEF Ignored
  <2>2. Len(req') = Len(req) /\ (Running' => Running /\ req'[Len(req)].sent = req[Len(req)].sent)
    BY <1>1, PhaseRuns DEF Ignored, Phases
  <2> QED BY <2>1, <2>2, ShownKept
<1>2. ASSUME NEW kind, Outcome(r, kind), (ctl = r /\ req[r].phase = "headers") \/ source = r \/ abort = r, abort' = 0
      PROVE  ShownInv'
  BY <1>2, OutcomeEnds DEF ShownInv
<1>3. CASE HeadersReady(r)
  <2>1. CASE ctl # r
    BY <1>1, <1>3, <2>1 DEF HeadersReady
  <2>2. CASE ctl = r
    <3>1. View' = View /\ pend' = pend
      BY <1>3, <2>2, QuietViews DEF HeadersReady
    <3>2. Len(req') = Len(req) /\ (Running' => Running /\ req'[Len(req)].sent = req[Len(req)].sent)
      BY <1>3, <2>2, PhaseRuns DEF HeadersReady, Phases
    <3> QED BY <3>1, <3>2, ShownKept
  <2> QED BY <2>1, <2>2
<1>4. CASE HeadersFailed(r)
  <2>1. Outcome(r, "error") /\ ctl = r /\ req[r].phase = "headers" /\ abort' = abort
    BY <1>4 DEF HeadersFailed
  <2>2. abort = 0
    BY <1>0, <2>1 DEF TypeInv, CtlInv, HandlerSound
  <2> QED BY <1>2, <2>1, <2>2
<1>5. ASSUME NEW n \in DOMAIN Script, StreamDelta(r, n)
      PROVE  ShownInv'
  <2>0. View' = View
    BY <1>5, QuietViews DEF StreamDelta
  <2>1. CASE ~ (IsCurrent(r) /\ req[r].gen = gen /\ pend.gen = gen)
    <3>1. UNCHANGED <<req, pend, ctl, abort>>
      BY <1>5, <2>1 DEF StreamDelta
    <3>2. Running' => Running
      BY <3>1 DEF Running
    <3> QED BY <2>0, <3>1, <3>2, ShownKept
  <2>2. CASE IsCurrent(r) /\ req[r].gen = gen /\ pend.gen = gen
    <3> DEFINE s == req[r].sent  t == pend.text  d == Delta(r, s, n)  a == Last(View).text
    <3>1. source = r /\ Running /\ r = Len(req)
      BY <1>0, <2>2, CurrentRuns DEF TypeInv, IsCurrent
    <3>2. Last(View) \in Messages /\ req[r] \in ReqType /\ r \in Asked
      BY <3>1, AnswerFacts
    <3>3. s \in Nat /\ n \in 0..Len(Script) /\ n \in s..Len(Script) /\ s < n
      BY <1>5, DeltaBounds DEF TypeInv, CtlInv, HandlerSound
    <3>4. t \in Texts /\ a \in Texts /\ pend \in [gen : Nat, text : Texts]
      BY <3>2 DEF TypeInv, CtlInv, PendType, Messages
    <3>5. req' = [req EXCEPT ![r].sent = n] /\ pend' = [pend EXCEPT !.text = MergeChunk(@, d)]
      BY <1>5, <2>2 DEF StreamDelta
    <3>6. Len(req') = Len(req) /\ req'[r].sent = n
      BY <3>3, <3>5, ReqSent DEF TypeInv, CtlInv, HandlerSound
    <3>7. pend'.text = MergeChunk(t, d)
      BY <3>4, <3>5
    <3>8. Shown(a, t, s)
      BY <3>1 DEF ShownInv
    <3> HIDE DEF s, t, d, a
    <3>9. Shown(a, MergeChunk(t, d), n)
      BY <3>2, <3>3, <3>4, <3>8, ShownDelta DEF d
    <3> QED BY <2>0, <3>1, <3>6, <3>7, <3>9 DEF ShownInv, a
  <2> QED BY <2>1, <2>2
<1>6. CASE \E kind \in {"done", "error"} : StreamEnds(r, kind)
  <2>1. PICK kind \in {"done", "error"} : StreamEnds(r, kind)
    BY <1>6
  <2>2. CASE ~ IsCurrent(r)
    BY <1>1, <2>1, <2>2 DEF StreamEnds
  <2>3. CASE IsCurrent(r)
    <3>1. Outcome(r, kind) /\ source = r /\ abort' = abort
      BY <2>1, <2>3 DEF StreamEnds, IsCurrent
    <3>2. abort = 0
      BY <1>0, <3>1, CurrentRuns DEF TypeInv
    <3> QED BY <1>2, <3>1, <3>2
  <2> QED BY <2>2, <2>3
<1>7. CASE \E kind \in {"answer", "error"} : PlainEnds(r, kind)
  <2>1. PICK kind \in {"answer", "error"} : PlainEnds(r, kind)
    BY <1>7
  <2>2. CASE abort # r \/ req[r].gen # gen
    BY <1>1, <2>1, <2>2 DEF PlainEnds
  <2>3. CASE ~ (abort # r \/ req[r].gen # gen)
    <3>1. Outcome(r, kind) /\ abort = r /\ abort' = 0
      BY <2>1, <2>3 DEF PlainEnds
    <3> QED BY <1>2, <3>1
  <2> QED BY <2>2, <2>3
<1>8. CASE StreamCut(r)
  <2>1. View' = View /\ pend' = pend
    BY <1>8, QuietViews DEF StreamCut
  <2>2. Len(req') = Len(req) /\ (Running' => Running /\ req'[Len(req)].sent = req[Len(req)].sent)
    BY <1>8, PhaseRuns DEF StreamCut, Phases
  <2> QED BY <2>1, <2>2, ShownKept
<1> QED BY <1>3, <1>4, <1>5, <1>6, <1>7, <1>8 DEF Network

\* The flush moves the buffered text to the end of the answer.
LEMMA ShownFlush ==
  ASSUME TypeInv, SoundInv, ShownInv, FlushTimer
  PROVE  ShownInv'
<1>1. timer # 0 /\ timer = gen /\ pend.gen = gen /\ source # 0 /\ Conv /\ PendType
  BY DEF TypeInv, CtlInv, HandlerSound, FlushTimer
<1>2. Running
  BY <1>1, CurrentRuns DEF TypeInv
<1>3. UNCHANGED <<req, ctl, abort>>
  BY <1>1, FlushViews
<1>4. CASE pend' = pend /\ View' = View
  BY <1>2, <1>3, <1>4, ShownKept
<1>5. CASE pend' = NoText(gen) /\ View' = UpdateLast(FlushUpdater, View)
  <2> DEFINE a == Last(View).text  b == pend.text  s == req[Len(req)].sent
  <2>1. Last(View').text = MergeChunk(a, b)
    BY <1>2, <1>5, FlushSound
  <2>2. Last(View) \in Messages /\ req[Len(req)] \in ReqType
    BY <1>2, AnswerFacts
  <2>3. a \in Texts /\ b \in Texts /\ s \in 0..Len(Script)
    BY <1>1, <2>2 DEF PendType, Messages, ReqType
  <2>4. Shown(a, b, s)
    BY <1>2 DEF ShownInv
  <2>5. pend'.text = <<>>
    BY <1>5 DEF NoText
  <2> HIDE DEF a, b, s
  <2>6. Shown(MergeChunk(a, b), <<>>, s)
    BY <2>3, <2>4, ShownMerge
  <2> QED BY <1>3, <2>1, <2>5, <2>6 DEF ShownInv, s
<1> QED BY <1>1, <1>4, <1>5, FlushViews

\* A request begins with an empty answer.
LEMMA ShownSend ==
  ASSUME TypeInv, NEW c, SendChat(c)
  PROVE  ShownInv'
<1> DEFINE n == Len(req)
<1>1. req \in Seq(ReqType) /\ n \in Nat
  BY DEF TypeInv, CtlInv, HandlerSound
<1>2. PICK x : x.sent = 0 /\ req' = Append(req, x)
  BY DEF SendChat, StartStream, StartPlain, NextRequest
<1>3. Len(req') = n + 1 /\ req'[n + 1].sent = 0
  BY <1>1, <1>2
<1>4. pend'.text = <<>>
  BY DEF SendChat, NoText
<1>5. \A a : Shown(a, <<>>, 0)
  BY DEF Shown
<1> QED BY <1>3, <1>4, <1>5 DEF ShownInv

\* Everything the user does.
LEMMA ShownUser ==
  ASSUME Orderly, TypeInv, SoundInv, SoundInv', TypeInv', ShownInv, User
  PROVE  ShownInv'
<1>1. CASE Send \/ SubmitEdit \/ \E k \in Keys0 : Regenerate(k)
  BY <1>1, ShownSend DEF Send, SubmitEdit, Regenerate
<1>2. CASE StopGeneration
  BY <1>2 DEF StopGeneration, ShownInv, Running
<1>3. CASE SaveEdit
  <2>1. queue = <<>> /\ RenderWith(Append(queue, SetMessages(messages))) /\ UNCHANGED chat
    BY <1>3 DEF SaveEdit, Orderly
  <2>2. Conv /\ messages \in Seq(Messages)
    BY DEF TypeInv, Conv
  <2>3. View = messages /\ messages' = messages
    BY <2>1, <2>2, EmptyViews, SetConv
  <2>4. View' = View
    BY <2>1, <2>3, RenderViews
  <2>5. UNCHANGED <<pend, req, ctl, abort>>
    BY <2>1 DEF chat
  <2> QED BY <2>4, <2>5, ShownKept DEF Running
<1>4. CASE ClearMessages \/ \E k \in Keys0 : Delete(k)
  <2>1. ~shown /\ UNCHANGED chat
    BY <1>4 DEF ClearMessages, Delete
  <2>2. ~Running
    BY <2>1, AtRest
  <2> QED BY <2>1, <2>2 DEF ShownInv, Running, chat
<1>5. CASE CancelEdit \/ \E k \in Keys0 : OpenEditor(k)
  <2>1. UNCHANGED <<messages, queue, chat>>
    BY <1>5 DEF CancelEdit, OpenEditor
  <2>2. View' = View
    BY <2>1, QuietViews DEF chat
  <2> QED BY <2>1, <2>2, ShownKept DEF Running, chat
<1> QED BY <1>1, <1>2, <1>3, <1>4, <1>5 DEF User

\* Every step of an orderly page.
LEMMA ShownStep ==
  ASSUME Orderly, TypeInv, SoundInv, SoundInv', TypeInv', ShownInv, [Next]_vars
  PROVE  ShownInv'
<1>1. CASE \E r \in DOMAIN req : Network(r)
  BY <1>1, ShownNetwork
<1>2. CASE Render
  <2>1. View' = View /\ UNCHANGED chat
    BY <1>2, RenderConv, RenderViews DEF Render
  <2> QED BY <2>1, ShownKept DEF Running, chat
<1>3. CASE FlushTimer
  BY <1>3, ShownFlush
<1>4. CASE SaveTimer \/ Enter \/ UNCHANGED vars
  <2>1. UNCHANGED <<messages, queue, chat>>
    BY <1>4 DEF SaveTimer, Enter, vars
  <2>2. View' = View
    BY <2>1, QuietViews DEF chat
  <2> QED BY <2>1, <2>2, ShownKept DEF Running, chat
<1>5. CASE Load
  <2>1. page # "ready" /\ UNCHANGED chat
    BY <1>5 DEF Load
  <2>2. ctl' = 0 /\ abort' = 0
    BY <2>1 DEF SoundInv, OffScreen, chat
  <2> QED BY <2>2 DEF ShownInv, Running
<1>6. CASE User
  BY <1>6, ShownUser
<1>7. CASE Unmount \/ Close
  BY <1>7 DEF Unmount, Close, Gone, ShownInv, Running
<1> QED BY <1>1, <1>2, <1>3, <1>4, <1>5, <1>6, <1>7 DEF Next

\* With nothing buffered the answer shows all that was received.
LEMMA ShownImplies == TypeInv /\ SoundInv /\ ShownInv => ReceivedShown
<1> SUFFICES ASSUME TypeInv, SoundInv, ShownInv, Settled,
                    NEW i \in DOMAIN messages, Streamed(messages[i]), req[source].sent > 0
             PROVE  LET text == messages[i].text  sent == req[source].sent IN
                    /\ text # <<>> /\ Last(text).letter = Script[sent]
                    /\ \A n \in 1..sent : \E j \in DOMAIN text : text[j].letter = Script[n]
  BY DEF ReceivedShown
<1>0. /\ queue = <<>> /\ timer = 0 /\ source # 0
      /\ messages[i].key = [from |-> "assistant", id |-> source]
  BY DEF Settled, Streamed
<1>1. Running /\ source = Len(req)
  BY <1>0, CurrentRuns DEF TypeInv
<1>2. View = messages
  BY <1>0, EmptyViews
<1>3. pend.text = <<>>
  BY <1>0 DEF TypeInv, CtlInv, HandlerSound
<1>4. /\ messages # <<>> /\ messages \in Seq(Messages)
      /\ Last(messages).key = [from |-> "assistant", id |-> source]
  BY <1>1, <1>2, AnswerFacts
<1>5. Len(messages) \in DOMAIN messages
  BY <1>4, EmptySeq
<1>6. messages[i] = Last(messages)
  <2>1. messages[i].key = messages[Len(messages)].key
    BY <1>0, <1>4 DEF Last
  <2>2. i = Len(messages)
    BY <1>5, <2>1 DEF SoundInv, Talk, Fine
  <2> QED BY <2>2 DEF Last
<1> DEFINE t == messages[i].text  s == req[source].sent
<1>7. Shown(t, <<>>, s)
  BY <1>1, <1>2, <1>3, <1>6 DEF ShownInv
<1> HIDE DEF t
<1>8. \A n \in 1..s : Holds(t, Script[n])
  <2>1. \A x : ~ Holds(<<>>, x)
    BY DEF Holds
  <2> QED BY <1>7, <2>1 DEF Shown
<1>9. t # <<>> /\ Last(t).letter = Script[s]
  BY <1>7 DEF Shown
<1> QED BY <1>8, <1>9, Zenon DEF t, Holds

\* ReceivedShown: on an orderly page the message of a running stream shows every
\* letter received and ends with the last one once the buffer is flushed and
\* rendered, for every answer and every way it is cut into deltas
\* (mergePendingStreamChunk, getAppendableChunk).
THEOREM ReceivedTextShows == ASSUME Orderly PROVE Spec => []ReceivedShown
<1> DEFINE I == TypeInv /\ SoundInv /\ ShownInv
<1>1. Init => I
  <2>1. Init => ShownInv
    BY DEF Init, ShownInv, Running
  <2> QED BY <2>1, TypeInit, SoundInit
<1>2. I /\ [Next]_vars => I'
  BY TypeStep, SoundStep, ShownStep
<1>3. I => ReceivedShown
  BY ShownImplies
<1> HIDE DEF I
<1> QED BY <1>1, <1>2, <1>3, PTL DEF Spec
=============================================================================
