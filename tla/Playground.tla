----------------------------- MODULE Playground -----------------------------
(***************************************************************************)
(* The chat playground of the web front end: the conversation on the page, *)
(* the requests that answer it and the copy kept in localStorage           *)
(* (src/web/src/features/playground).                                      *)
(*                                                                         *)
(* The user acts on what was last rendered.  Events of a request queue     *)
(* updates of the message list; React applies the queue when it renders,   *)
(* and may evaluate an update at once when the queue is empty.  A click is *)
(* rendered before anything else happens.  Every instance of the page has  *)
(* its own counters in the code; here they go on counting, and ui.life is  *)
(* where the counter of the present instance starts.                       *)
(***************************************************************************)
EXTENDS Integers, SequencesExt

CONSTANTS
    MaxGen,       \* bound: requests, stops and page changes together
    MaxLetters,   \* bound: length of the text of one answer
    Says(_),      \* the letter that stands at a place of an answer
    MaxMsgs,      \* bound: messages of the conversation
    MaxStored,    \* MAX_STORED_MESSAGES
    Kinds,        \* requests sent: "delta", "snapshot" (streams) or "plain"
    Habits        \* "late_edit": an editor is left open during a generation;
                  \* "early_input": the user sends before the messages are loaded

ASSUME PlaygroundAssumption ==
    /\ {MaxGen, MaxLetters, MaxMsgs} \subseteq Nat
    /\ MaxStored \in Nat \ {0}
    /\ Kinds \subseteq {"delta", "snapshot", "plain"}
    /\ Habits \subseteq {"late_edit", "early_input"}

VARIABLES
    ui,      \* the rendered page and the updates that wait for the next rendering
    chat,    \* useChatHandler: generation, text that waits for the flush, its timer, controller
    ctl,     \* createStreamRequestController: generation, active source, streaming
    disk,    \* localStorage and the debounced save
    net      \* per generation: the request sent under it; whole: it came to its end and no
             \* stop was pressed before that was rendered

vars == <<ui, chat, ctl, disk, net>>

Gens == 1..MaxGen
None == 0

Unsent == [kind |-> "none", at |-> "none", sgen |-> 0, sent |-> 0, closed |-> FALSE, whole |-> FALSE]
FreshPage(life) ==
    [mounted |-> FALSE, messages |-> <<>>, queue |-> <<>>, busy |-> FALSE,
     life |-> life]
FreshChat(g) ==
    [gen |-> g, pend |-> [gen |-> None, text |-> <<>>], timer |-> None,
     requesting |-> FALSE, abort |-> None]
FreshCtl(g) == [gen |-> g, source |-> None, streaming |-> FALSE]
(* unsaved is history: the last attempt to read or to write localStorage failed and
   nothing was to be saved since. *)
FreshDisk(stored) ==
    [latest |-> <<>>, timer |-> FALSE, stored |-> stored, loaded |-> FALSE, unsaved |-> FALSE]

Init ==
    /\ ui = FreshPage(0)
    /\ chat = FreshChat(0)
    /\ ctl = FreshCtl(0)
    /\ disk = FreshDisk(<<>>)
    /\ net = [g \in Gens |-> Unsent]

-----------------------------------------------------------------------------
(* Messages.  `of' is the generation that created the message, which with the
   role makes its key; text is the sequence of places <<of, i>> it shows, each of
   which the code knows by its letter alone. *)
UserMessage(g) == [from |-> "user", of |-> g, status |-> "none", text |-> <<>>]
LoadingMessage(g) == [from |-> "assistant", of |-> g, status |-> "loading", text |-> <<>>]
Key(m) == <<m.from, m.of>>

Pending(m) == m.status \in {"loading", "streaming"}
Final(m) == m.status \in {"complete", "error"}
HasContent(m) == m.from = "user" \/ m.text # <<>> \/ m.status = "error"
EditedText == <<<<0, 0>>>>

(* The places a + 1 to b of the answer of generation g, and what a message of its
   stream carries: the places after the first a or, from providers that resend it,
   all of the text. *)
Slice(g, a, b) == [i \in 1..(b - a) |-> <<g, a + i>>]
Payload(g, a, b) == Slice(g, IF net[g].kind = "delta" THEN a ELSE 0, b)

(* t.startsWith(s) *)
Begins(s, t) == Len(s) <= Len(t) /\ \A i \in 1..Len(s) : Says(s[i]) = Says(t[i])

(* mergePendingStreamChunk *)
Merged_Appends(current, next) == current \o next
Merged(current, next) ==
    IF current # <<>> /\ Begins(current, next) THEN next ELSE current \o next

(* getAppendableChunk, appended *)
Extended(text, chunk) ==
    text \o IF text # <<>> /\ Begins(text, chunk)
            THEN SubSeq(chunk, Len(text) + 1, Len(chunk)) ELSE chunk

(* Updates of the message list, and what they do when React runs them. *)
Update(kind, g, data) == [kind |-> kind, gen |-> g, data |-> data]
SetTo(ms) == Update("set", None, ms)

Touched(u, m) ==
    CASE u.kind = "flush" ->
           IF m.status = "error" THEN m
           ELSE [m EXCEPT !.status = "streaming", !.text = Extended(@, u.data)]
      [] u.kind = "complete" -> IF Final(m) THEN m ELSE [m EXCEPT !.status = "complete"]
      [] u.kind = "stop" -> IF Pending(m) THEN [m EXCEPT !.status = "complete"] ELSE m
      [] u.kind = "error" -> [m EXCEPT !.status = "error", !.text = <<>>]
      [] u.kind = "response" -> [m EXCEPT !.status = "complete", !.text = u.data]

RemoveMessageByKey(ms, key) ==
    FoldLeft(LAMBDA kept, m : IF Key(m) = key THEN kept ELSE Append(kept, m), <<>>, ms)

Apply(u, ms, g) ==
    CASE u.kind = "set" -> u.data
      [] u.kind = "delete" -> RemoveMessageByKey(ms, u.data)
      [] OTHER ->
           IF u.gen # g \/ ms = <<>> \/ Last(ms).from # "assistant" THEN ms
           ELSE [ms EXCEPT ![Len(ms)] = Touched(u, @)]

Applied(us, ms, g) == FoldLeft(LAMBDA acc, u : Apply(u, acc, g), ms, us)

-----------------------------------------------------------------------------
(* localStorage *)
Trimmed(ms) == SubSeq(ms, IF Len(ms) > MaxStored THEN Len(ms) - MaxStored + 1 ELSE 1, Len(ms))

Persisted_First(ms) ==
    IF disk.timer THEN disk
    ELSE [disk EXCEPT !.latest = ms, !.timer = disk.loaded, !.unsaved = FALSE]
(* persistMessages *)
Persisted(ms) == [disk EXCEPT !.latest = ms, !.timer = @ \/ disk.loaded, !.unsaved = FALSE]

Normalized(ms) ==
    [i \in DOMAIN ms |->
        IF Pending(ms[i]) /\ ms[i].text # <<>> THEN [ms[i] EXCEPT !.status = "complete"] ELSE ms[i]]

(* sanitizeMessagesOnLoad: the last message that still waits becomes an error. *)
Sanitized(ms) ==
    LET waiting == {i \in DOMAIN ms : Pending(ms[i])}
        last == CHOOSE i \in waiting : \A j \in waiting : j <= i
    IN  IF waiting = {} THEN ms ELSE [ms EXCEPT ![last].status = "error"]

LoadMessages == Sanitized(Trimmed(Normalized(disk.stored)))

(* saveMessages: a failure, of the quota or the schema, is logged and no more. *)
SaveTimer ==
    /\ disk.timer
    /\ \/ disk' = [disk EXCEPT !.stored = Trimmed(disk.latest), !.timer = FALSE, !.unsaved = FALSE]
       \/ disk' = [disk EXCEPT !.timer = FALSE, !.unsaved = TRUE]
    /\ UNCHANGED <<ui, chat, ctl, net>>

-----------------------------------------------------------------------------
(* Rendering *)

(* An event queues the updates us; the first may be evaluated at once. *)
Enqueue(us) ==
    \/ /\ ui' = [ui EXCEPT !.queue = @ \o us]
       /\ UNCHANGED disk
    \/ /\ ui.queue = <<>> /\ us # <<>>
       /\ LET ms == Apply(Head(us), ui.messages, chat.gen)
          IN  /\ ui' = [ui EXCEPT !.queue = <<SetTo(ms)>> \o Tail(us)]
              /\ disk' = Persisted(ms)

(* A click queues us and is rendered, with the counters and flags it leaves. *)
Commit(us, g, busy) ==
    LET all == ui.queue \o us
        ms == IF all = <<>> THEN ui.messages ELSE Applied(all, ui.messages, g)
    IN  /\ ui' = [ui EXCEPT !.messages = ms, !.queue = <<>>, !.busy = busy]
        /\ disk' = IF all = <<>> THEN disk ELSE Persisted(ms)

Render ==
    /\ ui.mounted
    /\ ui.queue # <<>> \/ ui.busy # (chat.requesting \/ ctl.streaming)
    /\ Commit(<<>>, chat.gen, chat.requesting \/ ctl.streaming)
    /\ UNCHANGED <<chat, ctl, net>>

-----------------------------------------------------------------------------
(* useChatHandler *)

(* flushStreamUpdates: the update it queues, and the state it leaves. *)
FlushUpdates(g) ==
    IF g = chat.gen /\ chat.pend.gen = g /\ chat.pend.text # <<>>
    THEN <<Update("flush", g, chat.pend.text)>> ELSE <<>>
Flushed(g) ==
    IF g # chat.gen THEN chat
    ELSE [chat EXCEPT !.timer = None,
                      !.pend.text = IF chat.pend.gen = g THEN <<>> ELSE @]

(* discardPendingStreamUpdates under the next generation g *)
Discarded(g) == [chat EXCEPT !.gen = g, !.timer = None, !.pend = [gen |-> g, text |-> <<>>]]

FlushTimer ==
    /\ chat.timer # None
    /\ chat' = Flushed(chat.timer)
    /\ Enqueue(FlushUpdates(chat.timer))
    /\ UNCHANGED <<ctl, net>>

(* handleStreamUpdate *)
StreamUpdate(g, chunk) ==
    IF g # chat.gen \/ chat.pend.gen # g THEN chat
    ELSE [chat EXCEPT !.pend.text = Merged(@, chunk), !.timer = IF @ = None THEN g ELSE @]

Ending_FlushLast(g, kind) == <<Update(kind, g, <<>>)>> \o FlushUpdates(g)
(* handleStreamComplete and handleStreamError: the end of a request. *)
Ending(g, kind) == FlushUpdates(g) \o <<Update(kind, g, <<>>)>>
RequestEnds(g, kind) ==
    IF g # chat.gen THEN UNCHANGED <<ui, chat, disk>>
    ELSE /\ chat' = [Flushed(g) EXCEPT !.requesting = FALSE]
         /\ Enqueue(Ending(g, kind))

-----------------------------------------------------------------------------
(* createStreamRequestController *)

Closed(n, g) == IF g = None THEN n ELSE [n EXCEPT ![g].closed = TRUE]
IsCurrent(g) == ctl.gen = net[g].sgen /\ ctl.source = g

(* send and stop: the next generation, with the active source closed *)
Cancelled == [ctl EXCEPT !.gen = @ + 1, !.source = None, !.streaming = FALSE]

AtHeaders(g) == net[g].at = "headers"
Over(g) == [net EXCEPT ![g].at = "over", ![g].kind = "none", ![g].closed = TRUE]

HeadersStale(g) ==
    /\ AtHeaders(g) /\ ctl.gen # net[g].sgen
    /\ net' = Over(g)
    /\ UNCHANGED <<ui, chat, ctl, disk>>

HeadersCurrent_Ignored(g) == TRUE
HeadersCurrent(g) == ctl.gen = net[g].sgen

HeadersReady(g) ==
    /\ AtHeaders(g) /\ HeadersCurrent(g)
    /\ ctl' = [ctl EXCEPT !.source = g, !.streaming = TRUE]
    /\ net' = [net EXCEPT ![g].at = "open"]
    /\ UNCHANGED <<ui, chat, disk>>

HeadersFailed(g) ==
    /\ AtHeaders(g) /\ ctl.gen = net[g].sgen
    /\ net' = Over(g)
    /\ RequestEnds(g, "error")
    /\ UNCHANGED ctl

Streaming(g) == net[g].at = "open" /\ net[g].kind # "plain"

Chunk(g) ==
    /\ Streaming(g) /\ IsCurrent(g)
    /\ \E n \in (net[g].sent + 1)..MaxLetters :
        /\ net' = [net EXCEPT ![g].sent = n]
        /\ chat' = StreamUpdate(g, Payload(g, net[g].sent, n))
    /\ UNCHANGED <<ui, ctl, disk>>

(* closeActiveSource at the end of the stream *)
SourceClosed == ctl' = [ctl EXCEPT !.source = None, !.streaming = FALSE]

Done(g) ==
    /\ Streaming(g) /\ IsCurrent(g)
    /\ net' = [Over(g) EXCEPT ![g].whole = TRUE]
    /\ SourceClosed
    /\ RequestEnds(g, "complete")

(* An error event, a status other than 200, or a message that cannot be parsed *)
StreamError(g) ==
    /\ Streaming(g) /\ IsCurrent(g)
    /\ net' = Over(g)
    /\ SourceClosed
    /\ RequestEnds(g, "error")

(* Whatever a source delivers that is no longer the current one is ignored. *)
LateEvent(g) ==
    /\ Streaming(g) /\ ~IsCurrent(g)
    /\ net' = Over(g)
    /\ UNCHANGED <<ui, chat, ctl, disk>>

(* The connection ends with status 200 and without [DONE]: no listener reacts. *)
Cut(g) ==
    /\ Streaming(g) /\ IsCurrent(g)
    /\ net' = Over(g)
    /\ UNCHANGED <<ui, chat, ctl, disk>>

-----------------------------------------------------------------------------
(* The answer of a request without a stream *)

PlainWaiting(g) == net[g].at = "open" /\ net[g].kind = "plain"
PlainCurrent(g) == ~net[g].closed /\ chat.gen = g

PlainAnswer_NoFinally(g) ==
    /\ PlainWaiting(g) /\ PlainCurrent(g)
    /\ net' = [Over(g) EXCEPT ![g].whole = TRUE, ![g].sent = 1]
    /\ Enqueue(<<Update("response", g, Slice(g, 0, 1))>>)
    /\ chat' = [chat EXCEPT !.abort = None]
    /\ UNCHANGED ctl

PlainAnswer(g) ==
    /\ PlainWaiting(g) /\ PlainCurrent(g)
    /\ net' = [Over(g) EXCEPT ![g].whole = TRUE, ![g].sent = 1]
    /\ Enqueue(<<Update("response", g, Slice(g, 0, 1))>>)
    /\ chat' = [chat EXCEPT !.abort = None, !.requesting = FALSE]
    /\ UNCHANGED ctl

PlainError(g) ==
    /\ PlainWaiting(g) /\ PlainCurrent(g)
    /\ net' = Over(g)
    /\ Enqueue(Ending(g, "error"))
    /\ chat' = [Flushed(g) EXCEPT !.abort = None, !.requesting = FALSE]
    /\ UNCHANGED ctl

PlainIgnored(g) ==
    /\ PlainWaiting(g) /\ ~PlainCurrent(g)
    /\ net' = Over(g)
    /\ UNCHANGED <<ui, chat, ctl, disk>>

-----------------------------------------------------------------------------
(* The user *)

CanAct == ui.mounted /\ (disk.loaded \/ "early_input" \in Habits)
Idle == CanAct /\ ~ui.busy
NextGen == chat.gen + 1

(* updateMessages(next) and sendChat(next) *)
Submit(next, kind) ==
    LET g == NextGen
    IN  /\ g <= MaxGen
        /\ Len(next) <= MaxMsgs
        /\ chat' = [Discarded(g) EXCEPT !.requesting = TRUE,
                                        !.abort = IF kind = "plain" THEN g ELSE None]
        /\ ctl' = Cancelled
        /\ net' = [Closed(Closed(net, ctl.source), chat.abort) EXCEPT
                     ![g] = [Unsent EXCEPT !.kind = kind, !.sgen = ctl.gen + 1,
                                           !.at = IF kind = "plain" THEN "open" ELSE "headers"]]
        /\ Commit(<<SetTo(next)>>, g, TRUE)

Send(kind) ==
    /\ Idle
    /\ Submit(ui.messages \o <<UserMessage(NextGen), LoadingMessage(NextGen)>>, kind)

(* Regenerate on an answer or a question, and Retry on a failed answer *)
Regenerate(i, kind) ==
    /\ Idle
    /\ HasContent(ui.messages[i])
    /\ LET kept == IF ui.messages[i].from = "user" THEN i ELSE i - 1
       IN  Submit(Append(SubSeq(ui.messages, 1, kept), LoadingMessage(NextGen)), kind)

(* applyEdit.  An editor is opened while nothing is generated, on any message with
   content; once open, its buttons do not look at isGenerating. *)
MaySave(i) ==
    /\ CanAct /\ HasContent(ui.messages[i]) /\ ~Pending(ui.messages[i])
    /\ ~ui.busy \/ ("late_edit" \in Habits /\ ui.messages[i].of # chat.gen)
Edited(i) ==
    IF ui.messages[i].from = "user" THEN ui.messages
    ELSE [ui.messages EXCEPT ![i].text = EditedText]

SaveEdit(i) ==
    /\ MaySave(i)
    /\ Commit(<<SetTo(Edited(i))>>, chat.gen, chat.requesting \/ ctl.streaming)
    /\ UNCHANGED <<chat, ctl, net>>

SaveAndSubmit(i, kind) ==
    /\ MaySave(i) /\ ui.messages[i].from = "user"
    /\ Submit(Append(SubSeq(Edited(i), 1, i), LoadingMessage(NextGen)), kind)

Delete(i) ==
    /\ Idle
    /\ Commit(<<Update("delete", None, Key(ui.messages[i]))>>, chat.gen, FALSE)
    /\ UNCHANGED <<chat, ctl, net>>

Clear ==
    /\ Idle /\ ui.messages # <<>>
    /\ Commit(<<SetTo(<<>>)>>, chat.gen, FALSE)
    /\ UNCHANGED <<chat, ctl, net>>

Stop_LeavesRequest ==
    /\ CanAct /\ ui.busy
    /\ NextGen <= MaxGen
    /\ Commit(FlushUpdates(chat.gen) \o <<Update("stop", chat.gen, <<>>)>>, chat.gen, FALSE)
    /\ chat' = [Flushed(chat.gen) EXCEPT !.requesting = FALSE]
    /\ UNCHANGED <<ctl, net>>

(* stopGeneration: the flush it queues belongs to the generation it ends, and is
   kept only if React evaluates it at once. *)
Stop ==
    /\ CanAct /\ ui.busy
    /\ NextGen <= MaxGen
    /\ LET flush == FlushUpdates(chat.gen)
           idle == Update("stop", NextGen, <<>>)
       IN  \/ Commit(flush \o <<idle>>, NextGen, FALSE)
           \/ /\ ui.queue = <<>> /\ flush # <<>>
              /\ Commit(<<SetTo(Apply(flush[1], ui.messages, chat.gen)), idle>>,
                        NextGen, FALSE)
    /\ chat' = [Discarded(NextGen) EXCEPT !.requesting = FALSE, !.abort = None]
    /\ ctl' = Cancelled
    /\ net' = [Closed(Closed(net, ctl.source), chat.abort) EXCEPT ![chat.gen].whole = FALSE]

-----------------------------------------------------------------------------
(* The page *)

Mount ==
    /\ ~ui.mounted
    /\ ui' = [ui EXCEPT !.mounted = TRUE]
    /\ UNCHANGED <<chat, ctl, disk, net>>

Loaded(ms, stored, unsaved) ==
    /\ ui' = [ui EXCEPT !.messages = ms, !.queue = <<>>]
    /\ disk' = [disk EXCEPT !.latest = ms, !.stored = stored, !.loaded = TRUE, !.unsaved = unsaved]

(* The timer of the first effect: it replaces whatever the list holds.  What was read
   is saved when it was changed, and that may fail; a value that is too large is
   removed; one that cannot be read stays, and the list is empty. *)
Load ==
    /\ ui.mounted /\ ~disk.loaded
    /\ \/ Loaded(LoadMessages, Trimmed(LoadMessages), FALSE)
       \/ LoadMessages # disk.stored /\ Loaded(LoadMessages, disk.stored, TRUE)
       \/ Loaded(<<>>, <<>>, FALSE)
       \/ Loaded(<<>>, disk.stored, TRUE)
    /\ UNCHANGED <<chat, ctl, net>>

(* A new instance of the page begins: its generations start at the next one.  What
   the requests of the old one still deliver finds the old counters moved on. *)
Replaced(stored) ==
    /\ ui' = FreshPage(NextGen)
    /\ chat' = FreshChat(NextGen)
    /\ ctl' = FreshCtl(ctl.gen + 1)
    /\ net' = [g \in Gens |-> IF net[g].at = "none" THEN net[g]
                             ELSE Over(g)[g]]
    /\ disk' = FreshDisk(stored)

(* The user goes to another page: the cleanups of the three hooks run, and a pending
   save is done, or fails. *)
Unmount ==
    /\ ui.mounted /\ NextGen < MaxGen
    /\ Replaced(disk.stored) \/ (disk.timer /\ Replaced(Trimmed(disk.latest)))

(* The page is reloaded or the tab dies: no cleanup runs. *)
Reload ==
    /\ ui.mounted /\ NextGen < MaxGen
    /\ Replaced(disk.stored)

RequestStep(g) ==
    \/ HeadersStale(g) \/ HeadersReady(g) \/ HeadersFailed(g)
    \/ Chunk(g) \/ Done(g) \/ StreamError(g) \/ Cut(g) \/ LateEvent(g)
    \/ PlainAnswer(g) \/ PlainError(g) \/ PlainIgnored(g)

UserStep ==
    \/ \E kind \in Kinds : Send(kind)
    \/ \E i \in DOMAIN ui.messages :
         \/ SaveEdit(i) \/ Delete(i)
         \/ \E kind \in Kinds : Regenerate(i, kind) \/ SaveAndSubmit(i, kind)
    \/ Clear \/ Stop

Next ==
    \/ \E g \in Gens : RequestStep(g)
    \/ UserStep
    \/ Render \/ FlushTimer \/ SaveTimer
    \/ Mount \/ Load \/ Unmount \/ Reload

Spec == Init /\ [][Next]_vars

-----------------------------------------------------------------------------
(* Properties *)

Whole(m) == net[m.of].whole /\ m.of > ui.life /\ m.status = "complete"

(* No part of the text of g is followed by a text that begins with it. *)
Unrepeated(g) ==
    \A a \in 0..MaxLetters, d \in 1..MaxLetters : a + d + d <= MaxLetters =>
        \E i \in 1..d : Says(<<g, a + i>>) # Says(<<g, a + d + i>>)

(* An answer shows nothing that its own request has not sent, whatever is merged,
   flushed, rendered late, stopped or loaded again.  It shows what was sent in its
   order and each place once, and all of it when the request came to its end on this
   page, if no part of the text is followed by its repetition: a delta that begins
   with the text before it is taken for a resent text (mergePendingStreamChunk,
   getAppendableChunk), and the repetition is lost. *)
TextExact ==
    \A i \in DOMAIN ui.messages :
        LET m == ui.messages[i]
        IN  m.from = "assistant" /\ m.status # "error" /\ m.text # EditedText =>
                /\ \A j \in DOMAIN m.text :
                     m.text[j][1] = m.of /\ m.text[j][2] \in 1..net[m.of].sent
                /\ Unrepeated(m.of) =>
                     \E k \in 0..net[m.of].sent :
                        m.text = Slice(m.of, 0, k) /\ (Whole(m) => k = net[m.of].sent)

(* When the page shows no generation and nothing waits to be rendered, no message
   is left loading or streaming: not after an answer, an error, a stop, nor after
   the page was left or died in the middle and was loaded again.  Stated for users
   without the habit late_edit: an edit saved during a generation puts back the list
   as it was rendered, and the answer may then wait forever. *)
QuietIsFinal ==
    ui.mounted /\ ~ui.busy /\ ui.queue = <<>> => \A i \in DOMAIN ui.messages : ~Pending(ui.messages[i])

(* Every connection that is still open is the one Stop or the next request would
   close: none goes on costing quota unseen. *)
NoOrphan ==
    \A g \in Gens : net[g].at = "open" /\ ~net[g].closed => g \in {ctl.source, chat.abort}

(* With no save pending and nothing to render, localStorage holds what is shown, but
   after an attempt to read or write it that failed, which storage.ts only logs: until
   the next save it holds what it held before. *)
Durable ==
    ui.mounted /\ disk.loaded /\ ~disk.timer /\ ui.queue = <<>> /\ ~disk.unsaved =>
        disk.stored = Trimmed(ui.messages)

(* An answer that was shown as complete or failed is never changed again but by the
   user's own edit: no late event, timer or queued update of its request reaches it. *)
FinalStable ==
    [][\A i \in DOMAIN ui.messages, j \in DOMAIN ui.messages' :
          LET m == ui.messages[i] n == ui.messages'[j]
          IN  Final(m) /\ Key(m) = Key(n) /\ ui.mounted' => n.status = m.status /\ n.text \in {m.text, EditedText}]_vars

(* The page never waits for an answer that cannot come: when every request is over
   and nothing waits to be rendered, no generation is shown, except after a stream
   that was cut without [DONE]: that one waits for Stop or for the page to be left. *)
CutShort == ctl.source # None /\ net[ctl.source].at = "over"
AtRest ==
    /\ ui.mounted /\ ui.queue = <<>> /\ ui.busy = (chat.requesting \/ ctl.streaming)
    /\ \A g \in Gens : net[g].at \notin {"headers", "open"}
NeverWaitsInVain == AtRest => ~ui.busy \/ CutShort
=============================================================================
