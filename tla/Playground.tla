----------------------------- MODULE Playground -----------------------------
(***************************************************************************)
(* The chat playground of the web front end                                *)
(* (web/src/features/playground): the chat handler and its request         *)
(* generations, the stream controller, the buffered flush of streamed      *)
(* text, the conversation and its edits, React's queue of state updates,   *)
(* and the debounced copy in localStorage.                                 *)
(*                                                                         *)
(* A request is named by its number.  Its answer is the text Script, which *)
(* the server cuts into deltas of one or more letters as it likes; every   *)
(* letter is tagged with the request.  Reasoning and content are buffered  *)
(* and applied the same way: one text stands for both.  An edited text is  *)
(* not told from the text it replaces.                                     *)
(*                                                                         *)
(* onMessageUpdate hands React an updater.  React may run it at once when  *)
(* nothing is queued, and otherwise runs it in the next render; a render   *)
(* follows a click before anything else happens, and a timer or a stream   *)
(* event some time later.                                                  *)
(***************************************************************************)
EXTENDS Integers, Sequences, SequencesExt

CONSTANTS
    MaxRequests,    \* bound: requests sent
    MaxUses,        \* bound: editors opened, deletions, times the page is left
    Script,         \* the letters of an answer
    Faults          \* subset of FaultKinds that may happen

\* "late": events of a closed stream are delivered; "early": the user sends
\* before the conversation is loaded; "staleEdit": an edit is saved between an
\* event and its render.
FaultKinds == {"late", "early", "staleEdit"}

ASSUME PlaygroundAssumption ==
    /\ MaxRequests \in Nat
    /\ MaxUses \in Nat
    /\ Script \in Seq(STRING) /\ Script # <<>>
    /\ Faults \subseteq FaultKinds

VARIABLES
    page,       \* "away", "loading" or "ready"
    messages,   \* the conversation as rendered
    shown,      \* isGenerating as rendered
    queue,      \* updaters React has not run
    gen,        \* requestGenerationRef
    requesting, \* isRequesting
    pend,       \* pendingStreamChunksRef
    timer,      \* streamFlushTimerRef: the generation to flush, 0 for none
    ctl,        \* the request that has the stream controller's generation
    source,     \* the request whose stream the controller holds
    abort,      \* the request whose AbortController is live
    req,        \* the requests, in the order they were sent
    editing,    \* editingMessageKey
    latest,     \* latestMessagesRef
    saving,     \* messagesSaveTimerRef
    saved,      \* localStorage
    uses        \* what the user did besides asking and stopping

chat == <<gen, requesting, pend, timer, ctl, source, abort, req>>
vars == <<page, messages, shown, queue, chat, editing, latest, saving, saved, uses>>

-----------------------------------------------------------------------------
(* Messages *)

Requests == 1..MaxRequests
Gens == 0..(2 * MaxRequests + MaxUses)
Asked == 0..MaxRequests           \* 0: asked on an earlier visit
Letters == [req : Asked, letter : Range(Script)]
Texts == Seq(Letters)
Keys == [from : {"user", "assistant"}, id : Asked]
NoKey == [from |-> "nobody", id |-> 0]
Statuses == {"sent", "loading", "streaming", "complete", "error"}
Messages == [key : Keys, status : Statuses, text : Texts]

\* The letters of an answer after the first lo, up to the hi-th.
Delta(r, lo, hi) == [i \in 1..(hi - lo) |-> [req |-> r, letter |-> Script[lo + i]]]
FullText(r) == Delta(r, 0, Len(Script))

UserMessage(r) ==
    [key |-> [from |-> "user", id |-> r], status |-> "sent", text |-> <<>>]
LoadingMessage(r) ==
    [key |-> [from |-> "assistant", id |-> r], status |-> "loading", text |-> <<>>]

\* A question and its answer, as kept from an earlier visit.
Earlier ==
    <<UserMessage(0), [LoadingMessage(0) EXCEPT !.status = "complete", !.text = FullText(0)]>>

IsPending(m) == m.status \in {"loading", "streaming"}
IsFinal(m) == m.status \in {"complete", "error"}
HasContent(m) == m.status \in {"sent", "error"} \/ m.text # <<>>

\* mergePendingStreamChunk and getAppendableChunk: a chunk that begins with
\* the text so far is taken for the whole text again.
MergeChunk(text, chunk) ==
    IF text # <<>> /\ IsPrefix(text, chunk) THEN chunk ELSE text \o chunk

-----------------------------------------------------------------------------
(* Updaters of the conversation *)

Updater(kind, g, r, text) == [kind |-> kind, gen |-> g, req |-> r, text |-> text]
SetMessages(ms) == [kind |-> "set", msgs |-> ms]
DeleteMessage(k) == [kind |-> "delete", key |-> k]

\* Mutant of UpdateMessage: a stop completes only a message that has text.
UpdateMessageStreaming(u, m) ==
    CASE u.kind = "flush" /\ m.status # "error" ->
            [m EXCEPT !.text = MergeChunk(@, u.text), !.status = "streaming"]
      [] u.kind \in {"done", "stop"} /\ m.status = "streaming" ->
            [m EXCEPT !.status = "complete"]
      [] u.kind = "error" -> [m EXCEPT !.status = "error", !.text = <<>>]
      [] u.kind = "answer" -> [m EXCEPT !.status = "complete", !.text = FullText(u.req)]
      [] OTHER -> m

\* applyStreamingChunk, completeAssistantMessage, updateAssistantMessageWithError,
\* applyChatCompletionResponse on one message.
UpdateMessage(u, m) ==
    CASE u.kind = "flush" /\ m.status # "error" ->
            [m EXCEPT !.text = MergeChunk(@, u.text), !.status = "streaming"]
      [] u.kind = "done" /\ ~IsFinal(m) -> [m EXCEPT !.status = "complete"]
      [] u.kind = "stop" /\ IsPending(m) -> [m EXCEPT !.status = "complete"]
      [] u.kind = "error" -> [m EXCEPT !.status = "error", !.text = <<>>]
      [] u.kind = "answer" -> [m EXCEPT !.status = "complete", !.text = FullText(u.req)]
      [] OTHER -> m

\* Mutant of UpdateLast: the first answer is updated.
UpdateFirst(u, ms) ==
    LET answers == {i \in DOMAIN ms : ms[i].key.from = "assistant"} IN
    [i \in DOMAIN ms |-> IF i \in answers /\ \A j \in answers : i <= j
                         THEN UpdateMessage(u, ms[i]) ELSE ms[i]]

\* updateLastAssistantMessage
UpdateLast(u, ms) ==
    IF ms = <<>> \/ Last(ms).key.from = "user" THEN ms
    ELSE [ms EXCEPT ![Len(ms)] = UpdateMessage(u, @)]

\* The filter of handleDeleteMessage: keys are unique, so it leaves out one.
Position(ms, k) == CHOOSE i \in DOMAIN ms : ms[i].key = k
Without(ms, k) ==
    IF \E i \in DOMAIN ms : ms[i].key = k THEN RemoveAt(ms, Position(ms, k)) ELSE ms

\* An updater run while requestGenerationRef is g.
RunUpdater(u, ms, g) ==
    CASE u.kind = "set" -> u.msgs
      [] u.kind = "delete" -> Without(ms, u.key)
      [] OTHER -> IF u.gen # g THEN ms ELSE UpdateLast(u, ms)

RunUpdaters(us, ms, g) == FoldLeft(LAMBDA acc, u : RunUpdater(u, acc, g), ms, us)

\* What is queued once the updaters us are handed over: the first may be run.
Queued(us) ==
    {queue \o us} \cup
    (IF queue = <<>> /\ us # <<>>
     THEN {<<SetMessages(RunUpdater(Head(us), messages, gen))>> \o Tail(us)} ELSE {})

\* updateMessages: every updater that runs also sets latestMessagesRef and,
\* once the conversation is loaded, restarts the save timer.
Enqueue(us) ==
    /\ queue' \in Queued(us)
    /\ latest' = IF queue' # <<>> /\ queue' # queue \o us THEN queue'[1].msgs ELSE latest
    /\ saving' = (saving \/ (page = "ready" /\ queue' # queue \o us))
    /\ UNCHANGED <<page, messages, shown, editing, saved, uses>>

\* Mutant of RenderWith: an empty conversation is not saved.
RenderUnsavedWhenEmpty(q) ==
    /\ messages' = RunUpdaters(q, messages, gen')
    /\ queue' = <<>>
    /\ shown' = (requesting' \/ source' # 0)
    /\ latest' = IF q = <<>> THEN latest ELSE messages'
    /\ saving' = (saving \/ (page = "ready" /\ q # <<>> /\ messages' # <<>>))

\* A render with the queue q: isStreaming is that the controller has a source.
RenderWith(q) ==
    /\ messages' = RunUpdaters(q, messages, gen')
    /\ queue' = <<>>
    /\ shown' = (requesting' \/ source' # 0)
    /\ latest' = IF q = <<>> THEN latest ELSE messages'
    /\ saving' = (saving \/ (page = "ready" /\ q # <<>>))

Render ==
    /\ queue # <<>> \/ shown # (requesting \/ source # 0)
    /\ page # "away"
    /\ UNCHANGED chat
    /\ RenderWith(queue)
    /\ UNCHANGED <<page, editing, saved, uses>>

-----------------------------------------------------------------------------
(* The chat handler: requests, streamed text, outcomes *)

NextRequest == Len(req) + 1
NoText(g) == [gen |-> g, text |-> <<>>]

\* sendStreamingChat: a new generation; the controller closes the old stream.
StartStream ==
    /\ abort' = 0
    /\ ctl' = NextRequest
    /\ req' = Append(req, [gen |-> gen + 1, phase |-> "headers", sent |-> 0])

\* sendNonStreamingChat: stops the stream, aborts the request before.
StartPlain ==
    /\ abort' = NextRequest
    /\ ctl' = 0
    /\ req' = Append(req, [gen |-> gen + 1, phase |-> "waiting", sent |-> 0])

\* Mutant of SendChat: what is pending of the request before is kept.
SendChatKeepsPending(ms) ==
    /\ NextRequest \in Requests
    /\ gen' = gen + 1
    /\ pend' = [pend EXCEPT !.gen = gen + 1]
    /\ timer' = 0
    /\ requesting' = TRUE
    /\ source' = 0
    /\ StartStream \/ StartPlain
    /\ RenderWith(Append(queue, SetMessages(ms)))
    /\ UNCHANGED <<page, saved, uses>>

\* handleSendMessage, handleRegenerateMessage and applyEdit: the conversation
\* as rendered is replaced and the request sent.
SendChat(ms) ==
    /\ NextRequest \in Requests
    /\ gen' = gen + 1
    /\ pend' = NoText(gen + 1)
    /\ timer' = 0
    /\ requesting' = TRUE
    /\ source' = 0
    /\ StartStream \/ StartPlain
    /\ RenderWith(Append(queue, SetMessages(ms)))
    /\ UNCHANGED <<page, saved, uses>>

\* flushStreamUpdates: what is pending for generation g goes to React.
FlushOf(g) ==
    IF g = gen /\ pend.gen = g /\ pend.text # <<>>
    THEN <<Updater("flush", g, 0, pend.text)>> ELSE <<>>

FlushTimer ==
    /\ timer # 0
    /\ timer' = 0
    /\ pend' = IF FlushOf(timer) = <<>> THEN pend ELSE NoText(timer)
    /\ Enqueue(FlushOf(timer))
    /\ UNCHANGED <<gen, requesting, ctl, source, abort, req>>

\* handleStreamComplete and handleStreamError, after which the request is over.
Outcome(r, kind) ==
    LET g == req[r].gen IN
    /\ req' = [req EXCEPT ![r].phase = "over"]
    /\ IF g = gen
       THEN /\ timer' = 0
            /\ pend' = NoText(g)
            /\ requesting' = FALSE
            /\ Enqueue(Append(FlushOf(g), Updater(kind, g, r, <<>>)))
       ELSE /\ UNCHANGED <<timer, pend, requesting>>
            /\ Enqueue(<<>>)
    /\ UNCHANGED <<gen, ctl>>

\* Nobody listens: the request is over and nothing else happens.
Ignored(r) ==
    /\ req' = [req EXCEPT ![r].phase = "over"]
    /\ UNCHANGED <<gen, requesting, pend, timer, ctl, source, abort>>
    /\ UNCHANGED <<page, messages, shown, queue, editing, latest, saving, saved, uses>>

\* getFreshAuthHeaders resolved: only the latest send opens its stream.
HeadersReady(r) ==
    /\ req[r].phase = "headers"
    /\ IF ctl # r THEN Ignored(r)
       ELSE /\ req' = [req EXCEPT ![r].phase = "open"]
            /\ source' = r
            /\ UNCHANGED <<gen, requesting, pend, timer, ctl, abort>>
            /\ UNCHANGED <<page, messages, shown, queue, editing, latest, saving, saved, uses>>

\* Mutant of HeadersFailed: the failure is not reported.
HeadersFailedSilently(r) ==
    /\ req[r].phase = "headers"
    /\ ctl = r
    /\ Ignored(r)

HeadersFailed(r) ==
    /\ req[r].phase = "headers"
    /\ ctl = r
    /\ Outcome(r, "error")
    /\ UNCHANGED <<source, abort>>

\* isCurrent of the controller.
IsCurrent(r) == ctl = r /\ source = r

\* Events of a stream that was closed may already be on their way.
Delivered(r) == req[r].phase = "open" /\ (IsCurrent(r) \/ "late" \in Faults)

\* Mutant of StreamDelta: the chunk replaces what is pending.
StreamDeltaReplaces(r, n) ==
    /\ Delivered(r)
    /\ n > req[r].sent
    /\ IF IsCurrent(r) /\ req[r].gen = gen /\ pend.gen = gen
       THEN /\ req' = [req EXCEPT ![r].sent = n]
            /\ pend' = [pend EXCEPT !.text = Delta(r, req[r].sent, n)]
            /\ timer' = IF timer = 0 THEN gen ELSE timer
       ELSE UNCHANGED <<req, pend, timer>>
    /\ UNCHANGED <<gen, requesting, ctl, source, abort>>
    /\ UNCHANGED <<page, messages, shown, queue, editing, latest, saving, saved, uses>>

\* A delta with the letters up to the n-th: buffered, and flushed 50 ms later.
StreamDelta(r, n) ==
    /\ Delivered(r)
    /\ n > req[r].sent
    /\ IF IsCurrent(r) /\ req[r].gen = gen /\ pend.gen = gen
       THEN /\ req' = [req EXCEPT ![r].sent = n]
            /\ pend' = [pend EXCEPT !.text = MergeChunk(@, Delta(r, req[r].sent, n))]
            /\ timer' = IF timer = 0 THEN gen ELSE timer
       ELSE UNCHANGED <<req, pend, timer>>
    /\ UNCHANGED <<gen, requesting, ctl, source, abort>>
    /\ UNCHANGED <<page, messages, shown, queue, editing, latest, saving, saved, uses>>

\* [DONE] after the whole answer; an error event, an unreadable message, a
\* close with a bad status or a stream that cannot start at any time.
StreamEnds(r, kind) ==
    /\ Delivered(r)
    /\ kind = "done" /\ IsCurrent(r) => req[r].sent = Len(Script)
    /\ IF ~IsCurrent(r) THEN Ignored(r)
       ELSE /\ Outcome(r, kind)
            /\ source' = 0
            /\ UNCHANGED abort

\* The server closes the stream with status 200 and without [DONE]: the close
\* has no error and the error event of a closed source is ignored, so no
\* callback runs and the controller keeps the source.
StreamCut(r) ==
    /\ req[r].phase = "open"
    /\ IsCurrent(r)
    /\ req' = [req EXCEPT ![r].phase = "silent"]
    /\ UNCHANGED <<gen, requesting, pend, timer, ctl, source, abort>>
    /\ UNCHANGED <<page, messages, shown, queue, editing, latest, saving, saved, uses>>

\* The awaited answer of a request without streaming.
PlainEnds(r, kind) ==
    /\ req[r].phase = "waiting"
    /\ IF abort # r \/ req[r].gen # gen THEN Ignored(r)
       ELSE /\ Outcome(r, kind)
            /\ abort' = 0
            /\ UNCHANGED source

\* Mutant of StopGeneration: the flush timer keeps running.
StopKeepsTimer ==
    /\ page = "ready"
    /\ shown
    /\ gen' = gen + 1
    /\ pend' = NoText(gen + 1)
    /\ requesting' = FALSE
    /\ ctl' = 0
    /\ source' = 0
    /\ abort' = 0
    /\ \E q \in Queued(FlushOf(gen)) :
          RenderWith(Append(q, Updater("stop", gen + 1, 0, <<>>)))
    /\ UNCHANGED <<timer, req, page, editing, saved, uses>>

\* stopGeneration: flush, new generation, close and abort, complete the message.
StopGeneration ==
    /\ page = "ready"
    /\ shown
    /\ gen' = gen + 1
    /\ pend' = NoText(gen + 1)
    /\ timer' = 0
    /\ requesting' = FALSE
    /\ ctl' = 0
    /\ source' = 0
    /\ abort' = 0
    /\ \E q \in Queued(FlushOf(gen)) :
          RenderWith(Append(q, Updater("stop", gen + 1, 0, <<>>)))
    /\ UNCHANGED <<req, page, editing, saved, uses>>

-----------------------------------------------------------------------------
(* The conversation *)

\* One more of what MaxUses bounds.
Use == uses < MaxUses /\ uses' = uses + 1

\* The page lets the user act: always, but nothing is on screen before the
\* conversation is loaded except the input.
CanAct == page = "ready" \/ (page = "loading" /\ "early" \in Faults)
Keys0 == {messages[i].key : i \in DOMAIN messages}

Send ==
    /\ CanAct
    /\ ~shown
    /\ SendChat(messages \o <<UserMessage(NextRequest), LoadingMessage(NextRequest)>>)
    /\ UNCHANGED editing

\* createRegeneratedMessages: up to the user's message, then a new answer.
UpTo(k) ==
    LET i == Position(messages, k) IN
    SubSeq(messages, 1, IF k.from = "user" THEN i ELSE i - 1)

Regenerate(k) ==
    /\ page = "ready"
    /\ ~shown
    /\ k \in Keys0
    /\ HasContent(messages[Position(messages, k)]) /\ ~IsPending(messages[Position(messages, k)])
    /\ SendChat(Append(UpTo(k), LoadingMessage(NextRequest)))
    /\ UNCHANGED editing

OpenEditor(k) ==
    /\ page = "ready"
    /\ ~shown
    /\ k \in Keys0 /\ HasContent(messages[Position(messages, k)])
    /\ editing # k
    /\ editing' = k
    /\ Use
    /\ UNCHANGED <<page, messages, shown, queue, chat, latest, saving, saved>>

\* applyEdit without submitting: the rendered conversation, edited, replaces
\* whatever is there, also while an answer is being generated.
SaveEdit ==
    /\ page = "ready"
    /\ editing \in Keys0
    /\ queue = <<>> \/ "staleEdit" \in Faults
    /\ editing' = NoKey
    /\ UNCHANGED chat
    /\ RenderWith(Append(queue, SetMessages(messages)))
    /\ UNCHANGED <<page, saved, uses>>

\* applyEdit with submitting, of a user's message.
SubmitEdit ==
    /\ page = "ready"
    /\ editing \in Keys0
    /\ editing.from = "user"
    /\ editing' = NoKey
    /\ SendChat(Append(UpTo(editing), LoadingMessage(NextRequest)))

CancelEdit ==
    /\ editing # NoKey
    /\ editing' = NoKey
    /\ UNCHANGED <<page, messages, shown, queue, chat, latest, saving, saved, uses>>

Delete(k) ==
    /\ page = "ready"
    /\ ~shown
    /\ k \in Keys0
    /\ UNCHANGED chat
    /\ RenderWith(Append(queue, DeleteMessage(k)))
    /\ Use
    /\ UNCHANGED <<page, editing, saved>>

ClearMessages ==
    /\ page = "ready"
    /\ ~shown
    /\ messages # <<>>
    /\ editing' = NoKey
    /\ UNCHANGED chat
    /\ RenderWith(Append(queue, SetMessages(<<>>)))
    /\ Use
    /\ UNCHANGED <<page, saved>>

-----------------------------------------------------------------------------
(* Storage and the life of the page *)

SaveTimer ==
    /\ saving
    /\ saving' = FALSE
    /\ saved' = latest
    /\ UNCHANGED <<page, messages, shown, queue, chat, editing, latest, uses>>

\* normalizeStoredMessageForLoad completes every pending message with text;
\* sanitizeMessagesOnLoad makes the last one without text an error.
Normalized(ms) ==
    [i \in DOMAIN ms |-> IF IsPending(ms[i]) /\ ms[i].text # <<>>
                         THEN [ms[i] EXCEPT !.status = "complete"] ELSE ms[i]]
Sanitized(ms) ==
    LET pending == {i \in DOMAIN ms : IsPending(ms[i])} IN
    [i \in DOMAIN ms |-> IF i \in pending /\ \A j \in pending : j <= i
                         THEN [ms[i] EXCEPT !.status = "error"] ELSE ms[i]]

\* loadMessages, in a timer after the first render; what it repaired is saved.
Load ==
    /\ page = "loading"
    /\ page' = "ready"
    /\ messages' = Sanitized(Normalized(saved))
    /\ queue' = <<>>
    /\ latest' = messages'
    /\ saved' = messages'
    /\ UNCHANGED <<shown, chat, editing, saving, uses>>

Enter ==
    /\ page = "away"
    /\ page' = "loading"
    /\ UNCHANGED <<messages, shown, queue, chat, editing, latest, saving, saved, uses>>

\* The page is left: its effects clean up and save (unmount), or it is just
\* gone (the browser or the tab is closed).
Gone ==
    /\ page # "away"
    /\ Use
    /\ page' = "away"
    /\ gen' = gen + 1
    /\ timer' = 0
    /\ pend' = NoText(gen + 1)
    /\ requesting' = FALSE
    /\ ctl' = 0 /\ source' = 0 /\ abort' = 0
    /\ messages' = <<>> /\ latest' = <<>>
    /\ shown' = FALSE
    /\ queue' = <<>>
    /\ editing' = NoKey
    /\ saving' = FALSE
    /\ UNCHANGED req

Unmount == Gone /\ saved' = IF saving THEN latest ELSE saved
Close == Gone /\ UNCHANGED saved

-----------------------------------------------------------------------------
Init ==
    /\ page = "loading"
    /\ messages = <<>> /\ queue = <<>> /\ latest = <<>> /\ saved = Earlier
    /\ shown = FALSE /\ requesting = FALSE /\ saving = FALSE
    /\ gen = 0 /\ timer = 0 /\ ctl = 0 /\ source = 0 /\ abort = 0 /\ uses = 0
    /\ pend = NoText(0)
    /\ req = <<>>
    /\ editing = NoKey

Network(r) ==
    \/ HeadersReady(r) \/ HeadersFailed(r) \/ StreamCut(r)
    \/ \E n \in DOMAIN Script : StreamDelta(r, n)
    \/ \E kind \in {"done", "error"} : StreamEnds(r, kind)
    \/ \E kind \in {"answer", "error"} : PlainEnds(r, kind)

User ==
    \/ Send \/ StopGeneration \/ SaveEdit \/ SubmitEdit \/ CancelEdit \/ ClearMessages
    \/ \E k \in Keys0 : Regenerate(k) \/ OpenEditor(k) \/ Delete(k)

Next ==
    \/ \E r \in DOMAIN req : Network(r)
    \/ Render \/ FlushTimer \/ SaveTimer \/ Load
    \/ User \/ Enter \/ Unmount \/ Close

\* Requests are answered, fail or are cut off; timers fire, React renders.
Fairness ==
    /\ \A r \in Requests : WF_vars(r \in DOMAIN req /\ Network(r))
    /\ WF_vars(Render) /\ WF_vars(FlushTimer) /\ WF_vars(SaveTimer) /\ WF_vars(Load)

Spec == Init /\ [][Next]_vars
FairSpec == Spec /\ Fairness

-----------------------------------------------------------------------------
\* Types and bounds; an armed flush timer always belongs to the generation of
\* the current request, because resetting the pending chunks clears it.
TypeOK ==
    /\ page \in {"away", "loading", "ready"}
    /\ messages \in Seq(Messages) /\ latest \in Seq(Messages) /\ saved \in Seq(Messages)
    /\ shown \in BOOLEAN /\ requesting \in BOOLEAN /\ saving \in BOOLEAN
    /\ gen \in Gens /\ timer \in {0, gen} /\ uses \in 0..MaxUses
    /\ {ctl, source, abort} \subseteq Requests \cup {0}
    /\ pend.gen \in Gens /\ pend.text \in Texts
    /\ Len(req) <= MaxRequests
    /\ editing \in Keys \cup {NoKey}

\* The text of an answer is of its own request, in the order it was sent:
\* requestGenerationRef keeps the deltas of other requests out.
OwnText ==
    \A i \in DOMAIN messages :
        LET m == messages[i] IN
        /\ \A j \in DOMAIN m.text : m.text[j].req = m.key.id
        /\ \A j, k \in DOMAIN m.text : j < k =>
              \E p, q \in DOMAIN Script :
                 p < q /\ m.text[j].letter = Script[p] /\ m.text[k].letter = Script[q]

\* Once React has rendered, a message that is still pending is the last one and
\* its request is not over for the handler: the stop button is there, also for
\* an answer whose stream was closed without [DONE].
NothingStuck ==
    page = "ready" /\ queue = <<>> =>
        \A i \in DOMAIN messages : IsPending(messages[i]) =>
            i = Len(messages) /\ (requesting \/ source # 0)

\* An answer that is complete or failed does not change any more: the late
\* events of its stream are ignored.
FinalStays ==
    [][page = "ready" /\ page' = "ready" =>
        \A i \in DOMAIN messages, j \in DOMAIN messages' :
            (messages[i].key = messages'[j].key /\ IsFinal(messages[i]))
                => messages'[j] = messages[i]]_vars

\* Whatever is being generated comes to an end (handleStreamComplete,
\* handleStreamError); only an answer whose stream the server closed with status
\* 200 and without [DONE] waits for the user to stop it.
Idle == \A i \in DOMAIN messages : ~IsPending(messages[i])
CutOff == source # 0 /\ req[source].phase = "silent"
AnswersEnd == []<>(Idle \/ CutOff)

\* localStorage catches up with the conversation.
SavedInTheEnd == <>[](page = "ready" => saved = messages)

\* The message of the answer that is streamed, once all that came is rendered.
Streamed(m) == source # 0 /\ source = ctl /\ m.key = [from |-> "assistant", id |-> source]
Settled == queue = <<>> /\ timer = 0

\* While an answer is streamed its message shows every letter received and ends
\* with the last of them: mergePendingStreamChunk and getAppendableChunk leave
\* out only text that the next chunk begins with again.
ReceivedShown ==
    Settled => \A i \in DOMAIN messages :
        LET text == messages[i].text  sent == req[source].sent IN
        Streamed(messages[i]) /\ sent > 0 =>
            /\ text # <<>> /\ Last(text).letter = Script[sent]
            /\ \A n \in 1..sent : \E j \in DOMAIN text : text[j].letter = Script[n]

\* While an answer is streamed its message keeps all of the text received
\* (processStreamingContent).  The code drops text that comes twice.
Received(r) == Delta(r, 0, req[r].sent)
FullRawContent ==
    Settled => \A i \in DOMAIN messages :
        Streamed(messages[i]) => messages[i].text = Received(source)
=============================================================================
