--------------------------- MODULE PlaygroundProofs ---------------------------
(***************************************************************************)
(* Proofs about Playground.                                                *)
(*                                                                         *)
(* First, with every habit of the user: who holds a connection, what a     *)
(* page that shows a generation waits for, and what is on the disk when    *)
(* nothing waits to be saved.  There only the counters of useChatHandler   *)
(* (chat), the stream controller (ctl), the requests (net) and which list  *)
(* was rendered and saved matter, whatever the lists hold.                 *)
(*                                                                         *)
(* Then, for a user who neither sends before the messages are loaded nor   *)
(* leaves an editor open during a generation, the conversation itself:     *)
(* what the updates that React has queued will make of the list, the text  *)
(* that waits for the flush, and the lists on the page and on the disk.    *)
(*                                                                         *)
(* All of it holds for any number of generations and messages, for texts   *)
(* of any length, in any letters and chunks, and with every kind of        *)
(* request.                                                                *)
(***************************************************************************)
EXTENDS Playground, DataInduction, SequenceTheorems

-----------------------------------------------------------------------------
(* The inductive invariant. *)

NetType ==
    [kind : {"none", "delta", "snapshot", "plain"}, at : {"none", "headers", "open", "over"},
     sgen : Nat, sent : Nat, closed : BOOLEAN, whole : BOOLEAN]

CtlType == [gen : Nat, source : 0..MaxGen, streaming : BOOLEAN]

\* The text that waits and its timer play no role here.
ChatShape(c) ==
    /\ DOMAIN c = {"gen", "pend", "timer", "requesting", "abort"}
    /\ c.gen \in 0..MaxGen /\ c.requesting \in BOOLEAN /\ c.abort \in 0..MaxGen

Typed ==
    /\ ChatShape(chat)
    /\ ctl \in CtlType
    /\ net \in [Gens -> NetType]

\* A request of the controller's present generation is the one of the present
\* generation of the chat: both counters move together.
Together ==
    \A g \in Gens :
        /\ net[g].sgen <= ctl.gen
        /\ net[g].at \in {"headers", "open"} /\ net[g].sgen = ctl.gen => g = chat.gen

\* The active source belongs to the present generation, and there is none
\* while its headers are awaited.
Source ==
    /\ ctl.source # None => ctl.source = chat.gen
    /\ \A g \in Gens : net[g].at = "headers" /\ net[g].sgen = ctl.gen => ctl.source = None

\* An open stream is the active source, an open plain request the one that
\* abort would cancel; only streams wait for headers.
Held ==
    \A g \in Gens :
        /\ net[g].at = "open" /\ net[g].closed = FALSE =>
            IF net[g].kind = "plain" THEN g = chat.abort ELSE g = ctl.source
        /\ net[g].at = "headers" => net[g].kind # "plain"

\* What a request flag stands for: the request of this generation is under way
\* and untouched, or its stream was cut and it is still the active source.
Waiting ==
    /\ chat.requesting = TRUE =>
        /\ chat.gen \in Gens
        /\ net[chat.gen].sgen = ctl.gen
        /\ \/ net[chat.gen].at \in {"headers", "open"} /\ net[chat.gen].closed = FALSE
           \/ net[chat.gen].at = "over" /\ ctl.source = chat.gen
    /\ ctl.streaming = TRUE =>
        ctl.source # None /\ net[ctl.source].at \in {"open", "over"}

Inv == Typed /\ Together /\ Source /\ Held /\ Waiting

\* What the assumption says of the bounds.
LEMMA Bounds == MaxGen \in Nat /\ MaxLetters \in Nat /\ Kinds \subseteq {"delta", "snapshot", "plain"}
BY PlaygroundAssumption

\* No request was sent yet.
LEMMA InvInit == Init => Inv
<1> SUFFICES ASSUME Init PROVE Inv
  OBVIOUS
<1>1. /\ chat.gen = 0 /\ chat.requesting = FALSE /\ chat.abort = 0
      /\ DOMAIN chat = {"gen", "pend", "timer", "requesting", "abort"}
  BY DEF Init, FreshChat, None
<1>2. ctl \in CtlType /\ ctl.gen = 0 /\ ctl.source = 0 /\ ctl.streaming = FALSE
  BY Bounds DEF Init, FreshCtl, None, CtlType
<1>3. net \in [Gens -> NetType] /\ \A g \in Gens : net[g].at = "none" /\ net[g].sgen = 0
  BY DEF Init, Unsent, NetType
<1>4. Typed
  <2>1. 0 \in 0..MaxGen
    BY Bounds
  <2>2. ChatShape(chat)
    BY <1>1, <2>1 DEF ChatShape
  <2> QED BY <1>2, <1>3, <2>2 DEF Typed
<1>5. Together /\ Source /\ Held /\ Waiting
  BY <1>1, <1>2, <1>3 DEF Together, Source, Held, Waiting, None
<1> QED BY <1>4, <1>5 DEF Inv

\* The invariant gives both properties.
LEMMA InvIsEnough == Inv => NoOrphan /\ NeverWaitsInVain
<1> SUFFICES ASSUME Inv PROVE NoOrphan /\ NeverWaitsInVain
  OBVIOUS
<1>1. NoOrphan
  <2> SUFFICES ASSUME NEW g \in Gens, net[g].at = "open", ~net[g].closed
               PROVE  g \in {ctl.source, chat.abort}
    BY DEF NoOrphan
  <2>1. net[g].closed = FALSE
    BY DEF Inv, Typed, NetType
  <2> QED BY <2>1 DEF Inv, Held
<1>2. NeverWaitsInVain
  <2> SUFFICES ASSUME AtRest, ~CutShort PROVE ~ui.busy
    BY DEF NeverWaitsInVain
  <2>1. \A g \in Gens : net[g].at \notin {"headers", "open"}
    BY DEF AtRest
  <2>2. ctl.source \in 0..MaxGen /\ ctl.streaming \in BOOLEAN /\ chat.requesting \in BOOLEAN
        /\ (ctl.source # None => ctl.source \in Gens) /\ (ctl.source # None => ctl.source = chat.gen)
    BY Bounds DEF Inv, Typed, CtlType, ChatShape, Gens, None, Source
  <2>3. ctl.source # None => net[ctl.source].at # "over"
    BY DEF CutShort
  <2>4. ctl.streaming = FALSE
    BY <2>1, <2>2, <2>3 DEF Inv, Waiting
  <2>5. chat.requesting = FALSE
    BY <2>1, <2>2, <2>3, Bounds DEF Inv, Waiting, Gens, None
  <2> QED BY <2>4, <2>5 DEF AtRest
<1> QED BY <1>1, <1>2

-----------------------------------------------------------------------------
(* What a step does to the requests. *)

\* A step within a generation: the chat keeps its counter and its controller,
\* or drops the controller with the flag.
SameChat == chat'.gen = chat.gen /\ chat'.abort = chat.abort /\ chat'.requesting = chat.requesting
ChatIdle == chat'.gen = chat.gen /\ chat'.requesting = FALSE
SameCtl == ctl'.gen = ctl.gen /\ ctl'.source = ctl.source /\ ctl'.streaming = ctl.streaming
CtlIdle == ctl'.gen = ctl.gen /\ ctl'.source = None /\ ctl'.streaming = FALSE

\* The request of generation g is over, the others are as they were.
Ends(g) ==
    /\ net' \in [Gens -> NetType]
    /\ net'[g].at = "over" /\ net'[g].sgen = net[g].sgen
    /\ \A h \in Gens \ {g} : net'[h] = net[h]

\* Nothing of a request changes that matters here.
Quiet ==
    /\ net' \in [Gens -> NetType]
    /\ \A g \in Gens : /\ net'[g].at = net[g].at /\ net'[g].sgen = net[g].sgen
                       /\ net'[g].closed = net[g].closed /\ net'[g].kind = net[g].kind

\* The active source is a generation.
LEMMA SourceIsSent ==
    ASSUME Typed
    PROVE  ctl.source # None => ctl.source \in Gens
BY Bounds DEF Typed, CtlType, None, Gens

\* What Over leaves of the other requests.
LEMMA OverEnds ==
    ASSUME Typed, NEW g \in Gens,
           \/ net' = Over(g)
           \/ net' = [Over(g) EXCEPT ![g].whole = TRUE]
           \/ net' = [Over(g) EXCEPT ![g].whole = TRUE, ![g].sent = 1]
    PROVE  Ends(g)
<1>1. net \in [Gens -> NetType] /\ net[g] \in NetType
  BY DEF Typed
<1>2. PICK o : o = [net[g] EXCEPT !.at = "over", !.kind = "none", !.closed = TRUE]
  OBVIOUS
<1>3. o \in NetType /\ o.at = "over" /\ o.sgen = net[g].sgen
  BY <1>1, <1>2 DEF NetType
<1>4. Over(g) = [net EXCEPT ![g] = o]
  BY <1>1, <1>2 DEF Over
<1>5. PICK n : n = Over(g) /\ n \in [Gens -> NetType] /\ n[g] = o /\ \A h \in Gens \ {g} : n[h] = net[h]
  BY <1>1, <1>3, <1>4
<1>6. CASE net' = Over(g)
  BY <1>3, <1>5, <1>6 DEF Ends
<1>7. CASE net' = [Over(g) EXCEPT ![g].whole = TRUE]
  <2>1. PICK q : q = [o EXCEPT !.whole = TRUE]
    OBVIOUS
  <2>2. q \in NetType /\ q.at = "over" /\ q.sgen = net[g].sgen
    BY <1>3, <2>1 DEF NetType
  <2>3. net' = [n EXCEPT ![g] = q]
    BY <1>5, <1>7, <2>1
  <2> QED BY <1>5, <2>2, <2>3 DEF Ends
<1>8. CASE net' = [Over(g) EXCEPT ![g].whole = TRUE, ![g].sent = 1]
  <2>1. PICK q : q = [o EXCEPT !.whole = TRUE, !.sent = 1]
    OBVIOUS
  <2>2. q \in NetType /\ q.at = "over" /\ q.sgen = net[g].sgen
    BY <1>3, <2>1 DEF NetType
  <2>3. net' = [n EXCEPT ![g] = q]
    BY <1>5, <1>8, <2>1
  <2> QED BY <1>5, <2>2, <2>3 DEF Ends
<1> QED BY <1>6, <1>7, <1>8

\* The steps of a generation and what they need. A request other than the
\* present one ends, or the present one with its flags; a stream is cut.
LEMMA EndsElsewhere ==
    ASSUME Inv, NEW g \in Gens, Ends(g), ChatShape(chat'), ctl' \in CtlType, SameChat, SameCtl,
           net[g].at \in {"headers", "open"},
           chat.requesting = TRUE /\ g = chat.gen => ctl.source = g
    PROVE  Inv'
<1>1. Typed'
  BY DEF Typed, Ends
<1>2. Together'
  BY DEF Inv, Together, Ends, SameChat, SameCtl
<1>3. Source'
  BY DEF Inv, Source, Ends, SameChat, SameCtl
<1>4. Held'
  BY DEF Inv, Held, Ends, SameChat, SameCtl
<1>5. Waiting'
  <2>1. ctl.source # None => ctl.source \in Gens
    BY SourceIsSent DEF Inv
  <2> QED BY <2>1 DEF Inv, Waiting, Ends, SameChat, SameCtl
<1> QED BY <1>1, <1>2, <1>3, <1>4, <1>5 DEF Inv

\* A request of the present generation ends, and the chat no longer waits.
LEMMA EndsHere ==
    ASSUME Inv, NEW g \in Gens, Ends(g), ChatShape(chat'), ctl' \in CtlType, ChatIdle,
           g = chat.gen,
           \/ chat'.abort = chat.abort /\ CtlIdle
           \/ chat'.abort = chat.abort /\ SameCtl
           \/ chat'.abort = None /\ chat.abort \in {None, g} /\ SameCtl
    PROVE  Inv'
<1>0. None \notin Gens
  BY Bounds DEF None, Gens
<1>1. Typed'
  BY DEF Typed, Ends
<1>2. Together'
  BY DEF Inv, Together, Ends, ChatIdle, SameCtl, CtlIdle
<1>3. Source'
  BY DEF Inv, Source, Ends, ChatIdle, SameCtl, CtlIdle
<1>4. Held'
  BY <1>0 DEF Inv, Held, Source, Ends, ChatIdle, SameCtl, CtlIdle
<1>5. Waiting'
  <2>1. ctl.source # None => ctl.source \in Gens
    BY SourceIsSent DEF Inv
  <2> QED BY <2>1 DEF Inv, Waiting, Ends, ChatIdle, SameCtl, CtlIdle
<1> QED BY <1>1, <1>2, <1>3, <1>4, <1>5 DEF Inv

\* The requests and the counters are as they were.
LEMMA QuietStep ==
    ASSUME Inv, Quiet, ChatShape(chat'), ctl' \in CtlType, SameChat, SameCtl
    PROVE  Inv'
<1>1. Typed'
  BY DEF Typed, Quiet
<1>2. Together'
  BY DEF Inv, Together, Quiet, SameChat, SameCtl
<1>3. Source'
  BY DEF Inv, Source, Quiet, SameChat, SameCtl
<1>4. Held'
  BY DEF Inv, Held, Quiet, SameChat, SameCtl
<1>5. Waiting'
  BY DEF Inv, Waiting, Source, Quiet, SameChat, SameCtl, None, Typed, CtlType, Gens
<1> QED BY <1>1, <1>2, <1>3, <1>4, <1>5 DEF Inv

-----------------------------------------------------------------------------
(* The chat and the controller. *)

LEMMA FlushedChat ==
    ASSUME ChatShape(chat), NEW g
    PROVE  /\ ChatShape(Flushed(g)) /\ Flushed(g).gen = chat.gen
           /\ Flushed(g).abort = chat.abort /\ Flushed(g).requesting = chat.requesting
<1>1. PICK p : Flushed(g) \in {chat, [chat EXCEPT !.timer = None, !.pend = p]}
  BY DEF Flushed
<1> QED BY <1>1 DEF ChatShape

\* A request that ends takes the flag of its own generation only.
LEMMA RequestEndsChat ==
    ASSUME ChatShape(chat), NEW g, NEW kind, RequestEnds(g, kind), g = chat.gen
    PROVE  ChatShape(chat') /\ ChatIdle /\ chat'.abort = chat.abort
<1>1. PICK f : f = Flushed(g) /\ chat' = [f EXCEPT !.requesting = FALSE]
  BY DEF RequestEnds
<1>2. ChatShape(f) /\ f.gen = chat.gen /\ f.abort = chat.abort
  BY <1>1, FlushedChat
<1> QED BY <1>1, <1>2 DEF ChatShape, ChatIdle

\* handleStreamUpdate leaves the counters alone.
LEMMA StreamUpdateChat ==
    ASSUME ChatShape(chat), NEW g, NEW chunk, chat' = StreamUpdate(g, chunk)
    PROVE  ChatShape(chat') /\ SameChat
<1>1. PICK p, t : chat' \in {chat, [chat EXCEPT !.pend = p, !.timer = t]}
  BY DEF StreamUpdate
<1> QED BY <1>1 DEF ChatShape, SameChat

-----------------------------------------------------------------------------
(* The steps of requests. *)

LEMMA HeadersGood ==
    ASSUME Inv, NEW g \in Gens, HeadersStale(g) \/ HeadersFailed(g)
    PROVE  Inv'
<1>1. Ends(g) /\ net[g].at = "headers" /\ ctl' = ctl /\ ctl \in CtlType /\ ChatShape(chat)
  BY OverEnds DEF Inv, Typed, HeadersStale, HeadersFailed, AtHeaders
<1>2. CASE HeadersStale(g)
  <2>1. chat' = chat /\ ctl.gen # net[g].sgen
    BY <1>2 DEF HeadersStale
  <2>2. ~(chat.requesting = TRUE /\ g = chat.gen)
    BY <2>1 DEF Inv, Waiting
  <2> QED BY <1>1, <2>1, <2>2, EndsElsewhere DEF SameChat, SameCtl
<1>3. CASE HeadersFailed(g)
  <2>1. g = chat.gen /\ RequestEnds(g, "error")
    BY <1>3, <1>1 DEF HeadersFailed, Inv, Together
  <2>2. ChatShape(chat') /\ ChatIdle /\ chat'.abort = chat.abort
    BY <1>1, <2>1, RequestEndsChat
  <2> QED BY <1>1, <2>1, <2>2, EndsHere DEF SameCtl
<1> QED BY <1>2, <1>3

\* The stream opens: no other source is active, so none is forgotten.
LEMMA HeadersReadyGood ==
    ASSUME Inv, NEW g \in Gens, HeadersReady(g)
    PROVE  Inv'
<1>1. /\ net[g].at = "headers" /\ net[g].sgen = ctl.gen /\ chat' = chat
      /\ net \in [Gens -> NetType] /\ ctl \in CtlType /\ ChatShape(chat)
  BY DEF Inv, Typed, HeadersReady, AtHeaders, HeadersCurrent
<1>2. g = chat.gen /\ ctl.source = None
  BY <1>1 DEF Inv, Together, Source
<1>3. ctl' \in CtlType /\ ctl'.gen = ctl.gen /\ ctl'.source = g /\ ctl'.streaming = TRUE
  <2>1. g \in 0..MaxGen
    BY Bounds DEF Gens
  <2>2. ctl' = [ctl EXCEPT !.source = g, !.streaming = TRUE]
    BY DEF HeadersReady
  <2> QED BY <1>1, <2>1, <2>2 DEF CtlType
<1>4. PICK o : o = [net[g] EXCEPT !.at = "open"]
  OBVIOUS
<1>5. /\ o \in NetType /\ o.at = "open" /\ o.sgen = net[g].sgen /\ o.closed = net[g].closed
      /\ o.kind = net[g].kind
  BY <1>1, <1>4 DEF NetType
<1>6. net' = [net EXCEPT ![g] = o]
  BY <1>4 DEF HeadersReady
<1>7. net' \in [Gens -> NetType] /\ net'[g] = o /\ \A h \in Gens \ {g} : net'[h] = net[h]
  BY <1>1, <1>5, <1>6
<1>8. net[g].kind # "plain"
  BY <1>1 DEF Inv, Held
<1>9. Typed'
  BY <1>1, <1>3, <1>7 DEF Typed
<1>10. Together'
  BY <1>1, <1>2, <1>3, <1>5, <1>7 DEF Inv, Together
<1>11. Source'
  BY <1>1, <1>2, <1>3, <1>5, <1>7 DEF Inv, Source, Together
<1>12. Held'
  BY <1>1, <1>2, <1>3, <1>5, <1>7, <1>8, Bounds DEF Inv, Held, None, Gens
<1>13. Waiting'
  BY <1>1, <1>2, <1>3, <1>5, <1>7, Bounds DEF Inv, Waiting, None, Gens
<1> QED BY <1>9, <1>10, <1>11, <1>12, <1>13 DEF Inv

\* The end of a stream, by [DONE] or by an error.
LEMMA StreamGood ==
    ASSUME Inv, NEW g \in Gens, Done(g) \/ StreamError(g)
    PROVE  Inv'
<1>1. /\ net[g].at = "open" /\ ctl.source = g /\ ctl \in CtlType /\ ChatShape(chat) /\ Ends(g)
  BY OverEnds DEF Inv, Typed, Done, StreamError, Streaming, IsCurrent
<1>2. g = chat.gen
  BY <1>1, Bounds DEF Inv, Source, Gens, None
<1>3. ctl' \in CtlType /\ CtlIdle
  <2>1. None \in 0..MaxGen
    BY Bounds DEF None
  <2>2. ctl' = [ctl EXCEPT !.source = None, !.streaming = FALSE]
    BY DEF Done, StreamError, SourceClosed
  <2> QED BY <1>1, <2>1, <2>2 DEF CtlType, CtlIdle
<1>4. ChatShape(chat') /\ ChatIdle /\ chat'.abort = chat.abort
  BY <1>1, <1>2, RequestEndsChat DEF Done, StreamError
<1> QED BY <1>1, <1>2, <1>3, <1>4, EndsHere

\* A chunk of the stream.
LEMMA ChunkGood ==
    ASSUME Inv, NEW g \in Gens, Chunk(g)
    PROVE  Inv'
<1>1. net \in [Gens -> NetType] /\ net[g] \in NetType /\ ctl' = ctl /\ ctl \in CtlType /\ ChatShape(chat)
  BY DEF Inv, Typed, Chunk
<1>a. PICK n \in (net[g].sent + 1)..MaxLetters :
        net' = [net EXCEPT ![g].sent = n] /\ chat' = StreamUpdate(g, Payload(g, net[g].sent, n))
  BY DEF Chunk
<1>b. n \in Nat
  BY <1>1, Bounds DEF NetType
<1>2. PICK o : o = [net[g] EXCEPT !.sent = n]
  OBVIOUS
<1>3. /\ o \in NetType /\ o.at = net[g].at /\ o.sgen = net[g].sgen /\ o.closed = net[g].closed
      /\ o.kind = net[g].kind
  BY <1>1, <1>2, <1>b DEF NetType
<1>4. net' = [net EXCEPT ![g] = o]
  BY <1>2, <1>a
<1>5. Quiet
  BY <1>1, <1>3, <1>4 DEF Quiet
<1>6. ChatShape(chat') /\ SameChat
  BY <1>1, StreamUpdateChat DEF Chunk
<1> QED BY <1>1, <1>5, <1>6, QuietStep DEF SameCtl

\* What no listener acts on.
LEMMA UnheardGood ==
    ASSUME Inv, NEW g \in Gens, LateEvent(g) \/ Cut(g) \/ PlainIgnored(g)
    PROVE  Inv'
<1>1. /\ Ends(g) /\ net[g].at = "open" /\ ctl' = ctl /\ chat' = chat
      /\ ctl \in CtlType /\ ChatShape(chat) /\ net[g] \in NetType
  BY OverEnds DEF Inv, Typed, LateEvent, Cut, PlainIgnored, Streaming, PlainWaiting
<1>2. CASE Cut(g)
  <2>1. ctl.source = g
    BY <1>2 DEF Cut, IsCurrent
  <2> QED BY <1>1, <2>1, EndsElsewhere DEF SameChat, SameCtl
<1>3. CASE LateEvent(g)
  <2>1. chat.requesting = TRUE /\ g = chat.gen =>
          net[g].closed = FALSE /\ net[g].sgen = ctl.gen
    BY <1>1 DEF Inv, Waiting
  <2>2. net[g].kind # "plain" /\ (ctl.gen # net[g].sgen \/ ctl.source # g)
    BY <1>3 DEF LateEvent, Streaming, IsCurrent
  <2>3. ~(chat.requesting = TRUE /\ g = chat.gen)
    BY <1>1, <2>1, <2>2 DEF Inv, Held
  <2> QED BY <1>1, <2>3, EndsElsewhere DEF SameChat, SameCtl
<1>4. CASE PlainIgnored(g)
  <2>1. net[g].closed = TRUE \/ chat.gen # g
    BY <1>1, <1>4 DEF PlainIgnored, PlainCurrent, NetType
  <2>2. ~(chat.requesting = TRUE /\ g = chat.gen)
    BY <1>1, <2>1 DEF Inv, Waiting
  <2> QED BY <1>1, <2>2, EndsElsewhere DEF SameChat, SameCtl
<1> QED BY <1>2, <1>3, <1>4

\* The end of a request without a stream.
LEMMA PlainGood ==
    ASSUME Inv, NEW g \in Gens, PlainAnswer(g) \/ PlainError(g)
    PROVE  Inv'
<1>1. /\ Ends(g) /\ net[g].at = "open" /\ net[g].kind = "plain" /\ net[g].closed = FALSE
      /\ g = chat.gen /\ ctl' = ctl /\ ctl \in CtlType /\ ChatShape(chat)
  BY OverEnds DEF Inv, Typed, NetType, PlainAnswer, PlainError, PlainWaiting, PlainCurrent
<1>2. chat.abort = g
  BY <1>1 DEF Inv, Held
<1>3. PICK f \in {chat, Flushed(g)} : chat' = [f EXCEPT !.abort = None, !.requesting = FALSE]
  BY DEF PlainAnswer, PlainError
<1>4. ChatShape(f) /\ f.gen = chat.gen
  BY <1>1, <1>3, FlushedChat
<1>5. ChatShape(chat') /\ ChatIdle /\ chat'.abort = None
  BY <1>3, <1>4, Bounds DEF ChatShape, ChatIdle, None
<1> QED BY <1>1, <1>2, <1>5, EndsHere DEF SameCtl

-----------------------------------------------------------------------------
(* The steps that begin a generation. *)

\* Closing the active source and the plain request marks both, and nothing else.
LEMMA ClosedNet ==
    ASSUME NEW n \in [Gens -> NetType], NEW g \in 0..MaxGen
    PROVE  /\ Closed(n, g) \in [Gens -> NetType]
           /\ \A h \in Gens :
                /\ Closed(n, g)[h].at = n[h].at /\ Closed(n, g)[h].sgen = n[h].sgen
                /\ Closed(n, g)[h].kind = n[h].kind
                /\ Closed(n, g)[h].sent = n[h].sent /\ Closed(n, g)[h].whole = n[h].whole
                /\ Closed(n, g)[h].closed = (n[h].closed \/ h = g)
<1>1. CASE g = None
  <2>1. Closed(n, g) = n /\ g \notin Gens
    BY <1>1 DEF Closed, None, Gens
  <2>2. \A h \in Gens : n[h].closed \in BOOLEAN
    BY DEF NetType
  <2> QED BY <2>1, <2>2
<1>2. CASE g # None
  <2>1. g \in Gens /\ n[g] \in NetType
    BY <1>2, Bounds DEF None, Gens
  <2>2. PICK o : o = [n[g] EXCEPT !.closed = TRUE]
    OBVIOUS
  <2>3. o \in NetType /\ o.at = n[g].at /\ o.sgen = n[g].sgen /\ o.kind = n[g].kind /\ o.closed = TRUE
        /\ o.sent = n[g].sent /\ o.whole = n[g].whole
    BY <2>1, <2>2 DEF NetType
  <2>4. Closed(n, g) = [n EXCEPT ![g] = o]
    BY <1>2, <2>2 DEF Closed
  <2>5. PICK m : m = Closed(n, g) /\ m \in [Gens -> NetType] /\ m[g] = o
                 /\ \A h \in Gens \ {g} : m[h] = n[h]
    BY <2>1, <2>3, <2>4
  <2>6. \A h \in Gens : n[h].closed \in BOOLEAN
    BY DEF NetType
  <2> QED BY <2>3, <2>5, <2>6
<1> QED BY <1>1, <1>2

\* What send and stop leave of the requests before: none is open any more.
LEMMA AllClosed ==
    ASSUME Inv
    PROVE  LET n == Closed(Closed(net, ctl.source), chat.abort)
           IN  /\ n \in [Gens -> NetType]
               /\ \A h \in Gens : n[h].at = net[h].at /\ n[h].sgen = net[h].sgen
                                  /\ n[h].kind = net[h].kind
                                  /\ n[h].sent = net[h].sent /\ n[h].whole = net[h].whole
               /\ \A h \in Gens : n[h].at = "open" => n[h].closed = TRUE
<1>1. net \in [Gens -> NetType] /\ ctl.source \in 0..MaxGen /\ chat.abort \in 0..MaxGen
  BY DEF Inv, Typed, CtlType, ChatShape
<1>2. PICK m \in [Gens -> NetType] :
        /\ m = Closed(net, ctl.source)
        /\ \A h \in Gens : /\ m[h].at = net[h].at /\ m[h].sgen = net[h].sgen /\ m[h].kind = net[h].kind
                           /\ m[h].sent = net[h].sent /\ m[h].whole = net[h].whole
                           /\ m[h].closed = (net[h].closed \/ h = ctl.source)
  BY <1>1, ClosedNet
<1>3. PICK n \in [Gens -> NetType] :
        /\ n = Closed(m, chat.abort)
        /\ \A h \in Gens : /\ n[h].at = m[h].at /\ n[h].sgen = m[h].sgen /\ n[h].kind = m[h].kind
                           /\ n[h].sent = m[h].sent /\ n[h].whole = m[h].whole
                           /\ n[h].closed = (m[h].closed \/ h = chat.abort)
  BY <1>1, <1>2, ClosedNet
<1>4. ASSUME NEW h \in Gens, net[h].at = "open" PROVE n[h].closed = TRUE
  <2>1. net[h].closed \in BOOLEAN
    BY <1>1 DEF NetType
  <2>2. CASE net[h].closed = TRUE
    BY <1>2, <1>3, <2>2
  <2>3. CASE net[h].closed = FALSE
    <3>1. h = ctl.source \/ h = chat.abort
      BY <1>4, <2>3 DEF Inv, Held
    <3> QED BY <1>2, <1>3, <3>1
  <2> QED BY <2>1, <2>2, <2>3
<1>5. n = Closed(Closed(net, ctl.source), chat.abort)
  BY <1>2, <1>3
<1>6. \A h \in Gens : /\ n[h].at = net[h].at /\ n[h].sgen = net[h].sgen /\ n[h].kind = net[h].kind
                       /\ n[h].sent = net[h].sent /\ n[h].whole = net[h].whole
  BY <1>2, <1>3
<1>7. \A h \in Gens : n[h].at = "open" => n[h].closed = TRUE
  BY <1>4, <1>6
<1> QED BY <1>5, <1>6, <1>7

\* The counters move on together.
CtlNext == ctl'.gen = ctl.gen + 1 /\ ctl'.source = None /\ ctl'.streaming = FALSE

\* send and stop of the controller.
LEMMA CancelledCtl ==
    ASSUME Inv, ctl' = Cancelled
    PROVE  ctl' \in CtlType /\ CtlNext
<1>1. ctl \in CtlType /\ None \in 0..MaxGen
  BY Bounds DEF Inv, Typed, None
<1>2. PICK n \in Nat : n = ctl.gen + 1
  BY <1>1 DEF CtlType
<1>3. ctl' = [ctl EXCEPT !.gen = n, !.source = None, !.streaming = FALSE]
  BY <1>2 DEF Cancelled
<1> QED BY <1>1, <1>2, <1>3 DEF CtlType, CtlNext

\* A new request takes the place of the one before.
LEMMA SubmitGood ==
    ASSUME Inv, NEW next, NEW kind \in Kinds, Submit(next, kind)
    PROVE  Inv'
<1>1. PICK g \in Gens : g = chat.gen + 1 /\ g \in 0..MaxGen /\ g # None
  <2>1. chat.gen \in Nat /\ chat.gen + 1 <= MaxGen
    BY Bounds DEF Inv, Typed, ChatShape, Submit, NextGen
  <2> QED BY <2>1, Bounds DEF Gens, None
<1>2. ChatShape(chat) /\ ctl \in CtlType /\ ctl.gen \in Nat
  BY DEF Inv, Typed, CtlType
<1>3. ctl' \in CtlType /\ CtlNext
  BY CancelledCtl DEF Submit
<1>4. PICK a \in 0..MaxGen : a = IF kind = "plain" THEN g ELSE None
  BY <1>1, Bounds DEF None
<1>5. PICK c : c = Discarded(g) /\ chat' = [c EXCEPT !.requesting = TRUE, !.abort = a]
  BY <1>1, <1>4 DEF Submit, NextGen
<1>6. ChatShape(c) /\ c.gen = g
  BY <1>1, <1>2, <1>5 DEF Discarded, ChatShape
<1>7. ChatShape(chat') /\ chat'.gen = g /\ chat'.requesting = TRUE /\ chat'.abort = a
  BY <1>5, <1>6 DEF ChatShape
<1>8. PICK n \in [Gens -> NetType] :
        /\ n = Closed(Closed(net, ctl.source), chat.abort)
        /\ \A h \in Gens : n[h].at = net[h].at /\ n[h].sgen = net[h].sgen /\ n[h].kind = net[h].kind
        /\ \A h \in Gens : n[h].at = "open" => n[h].closed = TRUE
  BY AllClosed
<1>9. PICK s : s = ctl.gen + 1 /\ s \in Nat
  BY <1>2
<1>10. PICK at \in {"open", "headers"} : at = IF kind = "plain" THEN "open" ELSE "headers"
  OBVIOUS
<1>11. PICK o : o = [Unsent EXCEPT !.kind = kind, !.sgen = s, !.at = at]
  OBVIOUS
<1>12. o \in NetType /\ o.kind = kind /\ o.sgen = s /\ o.at = at /\ o.closed = FALSE
  BY <1>9, <1>10, <1>11, Bounds DEF Unsent, NetType
<1>13. net' = [n EXCEPT ![g] = o]
  BY <1>1, <1>8, <1>9, <1>10, <1>11 DEF Submit, NextGen
<1>14. net' \in [Gens -> NetType] /\ net'[g] = o /\ \A h \in Gens \ {g} : net'[h] = n[h]
  BY <1>8, <1>12, <1>13
<1>15. Typed'
  BY <1>3, <1>7, <1>14 DEF Typed
<1>16. \A h \in Gens : net[h].sgen \in Nat /\ net[h].sgen <= ctl.gen
  BY DEF Inv, Together, Typed, NetType
<1>17. Together'
  BY <1>2, <1>3, <1>7, <1>8, <1>9, <1>12, <1>14, <1>16 DEF Together, CtlNext
<1>18. Source'
  BY <1>3 DEF Source, CtlNext
<1>19. Held'
  <2>1. \A h \in Gens : net[h].at = "headers" => net[h].kind # "plain"
    BY DEF Inv, Held
  <2> QED BY <1>3, <1>4, <1>7, <1>8, <1>10, <1>12, <1>14, <2>1 DEF Held, CtlNext
<1>20. Waiting'
  BY <1>3, <1>7, <1>9, <1>10, <1>12, <1>14 DEF Waiting, CtlNext
<1> QED BY <1>15, <1>17, <1>18, <1>19, <1>20 DEF Inv

\* A generation that begins with no request: the stop and the new page.
LEMMA EmptyGeneration ==
    ASSUME Inv, ChatShape(chat'), ctl' \in CtlType, CtlNext,
           chat'.gen = chat.gen + 1, chat'.requesting = FALSE,
           net' \in [Gens -> NetType],
           \A h \in Gens : /\ net'[h].at \in {net[h].at, "over"} /\ net'[h].sgen = net[h].sgen
                           /\ net'[h].at = "headers" => net'[h].kind = net[h].kind
                           /\ net'[h].at = "open" => net'[h].closed = TRUE
    PROVE  Inv'
<1>1. Typed'
  BY DEF Typed
<1>2. \A h \in Gens : net[h].sgen \in Nat /\ net[h].sgen <= ctl.gen /\ ctl.gen \in Nat
  BY DEF Inv, Together, Typed, NetType, CtlType
<1>3. Together'
  BY <1>2 DEF Together, CtlNext
<1>4. Source'
  BY DEF Source, CtlNext
<1>5. Held'
  BY DEF Inv, Held
<1>6. Waiting'
  BY DEF Waiting, CtlNext
<1> QED BY <1>1, <1>3, <1>4, <1>5, <1>6 DEF Inv

\* stopGeneration begins a generation without a request.
LEMMA StopGood ==
    ASSUME Inv, Stop
    PROVE  Inv'
<1>1. PICK g \in 0..MaxGen : g = chat.gen + 1
  BY Bounds DEF Inv, Typed, ChatShape, Stop, NextGen
<1>2. ChatShape(chat) /\ None \in 0..MaxGen
  BY Bounds DEF Inv, Typed, None
<1>3. PICK c : c = Discarded(g) /\ chat' = [c EXCEPT !.requesting = FALSE, !.abort = None]
  BY <1>1 DEF Stop, NextGen
<1>4. ChatShape(c) /\ c.gen = g
  BY <1>1, <1>2, <1>3 DEF Discarded, ChatShape
<1>5. ChatShape(chat') /\ chat'.gen = chat.gen + 1 /\ chat'.requesting = FALSE
  BY <1>1, <1>2, <1>3, <1>4 DEF ChatShape
<1>6. ctl' \in CtlType /\ CtlNext
  BY CancelledCtl DEF Stop
<1>7. PICK n \in [Gens -> NetType] :
        /\ n = Closed(Closed(net, ctl.source), chat.abort)
        /\ \A h \in Gens : n[h].at = net[h].at /\ n[h].sgen = net[h].sgen /\ n[h].kind = net[h].kind
        /\ \A h \in Gens : n[h].at = "open" => n[h].closed = TRUE
  BY AllClosed
<1>8. net' = [n EXCEPT ![chat.gen].whole = FALSE]
  BY <1>7 DEF Stop
<1>9. /\ net' \in [Gens -> NetType]
      /\ \A h \in Gens : /\ net'[h].at = n[h].at /\ net'[h].sgen = n[h].sgen
                         /\ net'[h].kind = n[h].kind /\ net'[h].closed = n[h].closed
  <2>1. CASE chat.gen \notin Gens
    <3>1. net' = n
      BY <1>7, <1>8, <2>1
    <3> QED BY <3>1
  <2>2. CASE chat.gen \in Gens
    <3>1. PICK o : o = [n[chat.gen] EXCEPT !.whole = FALSE]
      OBVIOUS
    <3>2. /\ o \in NetType /\ o.at = n[chat.gen].at /\ o.sgen = n[chat.gen].sgen
          /\ o.kind = n[chat.gen].kind /\ o.closed = n[chat.gen].closed
      BY <2>2, <3>1 DEF NetType
    <3>3. net' = [n EXCEPT ![chat.gen] = o]
      BY <1>8, <3>1
    <3> QED BY <2>2, <3>2, <3>3
  <2> QED BY <2>1, <2>2
<1> QED BY <1>5, <1>6, <1>7, <1>9, EmptyGeneration, ZenonT(60)

\* A new instance of the page begins one too.
LEMMA ReplacedGood ==
    ASSUME Inv, NEW stored, Replaced(stored), NextGen < MaxGen
    PROVE  Inv'
<1>1. PICK g \in 0..MaxGen : g = chat.gen + 1
  BY Bounds DEF Inv, Typed, ChatShape, NextGen
<1>2. None \in 0..MaxGen /\ ctl.gen \in Nat /\ net \in [Gens -> NetType]
  BY Bounds DEF Inv, Typed, CtlType, None
<1>3. ChatShape(chat') /\ chat'.gen = chat.gen + 1 /\ chat'.requesting = FALSE
  BY <1>1, <1>2 DEF Replaced, NextGen, FreshChat, ChatShape
<1>4. ctl' \in CtlType /\ CtlNext
  BY <1>2 DEF Replaced, FreshCtl, CtlType, CtlNext
<1>5. ASSUME NEW h \in Gens
      PROVE  /\ net'[h] \in NetType
             /\ net'[h].at \in {net[h].at, "over"} /\ net'[h].sgen = net[h].sgen
             /\ net'[h].at = "headers" => net'[h].kind = net[h].kind
             /\ net'[h].at = "open" => net'[h].closed = TRUE
  <2>1. net'[h] = IF net[h].at = "none" THEN net[h] ELSE Over(h)[h]
    BY DEF Replaced
  <2>2. Over(h)[h] \in NetType /\ Over(h)[h].at = "over" /\ Over(h)[h].sgen = net[h].sgen
    BY <1>2 DEF Over, NetType
  <2> QED BY <1>2, <2>1, <2>2
<1>6. net' \in [Gens -> NetType]
  <2>1. net' = [h \in Gens |-> net'[h]]
    BY DEF Replaced
  <2> QED BY <2>1, <1>5
<1> QED BY <1>3, <1>4, <1>5, <1>6, EmptyGeneration

-----------------------------------------------------------------------------
(* The other steps leave the requests alone. *)

LEMMA FlushTimerGood ==
    ASSUME Inv, FlushTimer
    PROVE  Inv'
<1>1. chat' = Flushed(chat.timer) /\ ctl' = ctl /\ net' = net
  BY DEF FlushTimer
<1>2. ChatShape(chat') /\ SameChat
  BY <1>1, FlushedChat DEF Inv, Typed, SameChat
<1> QED BY <1>1, <1>2, QuietStep DEF Inv, Typed, SameCtl, Quiet

\* A step of the page alone.
LEMMA ElsewhereGood ==
    ASSUME Inv, UNCHANGED <<chat, ctl, net>>
    PROVE  Inv'
BY QuietStep DEF Inv, Typed, SameChat, SameCtl, Quiet

\* Every step keeps the invariant.
LEMMA InvStep ==
    ASSUME Inv, [Next]_vars
    PROVE  Inv'
<1>1. ASSUME NEW g \in Gens, RequestStep(g) PROVE Inv'
  BY <1>1, HeadersGood, HeadersReadyGood, StreamGood, ChunkGood, UnheardGood, PlainGood DEF RequestStep
<1>2. CASE UserStep
  <2>1. CASE \E kind \in Kinds : Send(kind)
    BY <2>1, SubmitGood DEF Send
  <2>2. ASSUME NEW i \in DOMAIN ui.messages,
               \/ SaveEdit(i) \/ Delete(i)
               \/ \E kind \in Kinds : Regenerate(i, kind) \/ SaveAndSubmit(i, kind)
        PROVE  Inv'
    <3>1. CASE SaveEdit(i) \/ Delete(i)
      BY <3>1, ElsewhereGood DEF SaveEdit, Delete
    <3>2. ASSUME NEW kind \in Kinds, Regenerate(i, kind) PROVE Inv'
      BY <3>2, SubmitGood DEF Regenerate
    <3>3. ASSUME NEW kind \in Kinds, SaveAndSubmit(i, kind) PROVE Inv'
      BY <3>3, SubmitGood DEF SaveAndSubmit
    <3> QED BY <2>2, <3>1, <3>2, <3>3
  <2>3. CASE Clear
    BY <2>3, ElsewhereGood DEF Clear
  <2>4. CASE Stop
    BY <2>4, StopGood
  <2> QED BY <1>2, <2>1, <2>2, <2>3, <2>4 DEF UserStep
<1>3. CASE Render \/ SaveTimer \/ Mount \/ Load
  BY <1>3, ElsewhereGood DEF Render, SaveTimer, Mount, Load
<1>4. CASE FlushTimer
  BY <1>4, FlushTimerGood
<1>5. CASE Unmount \/ Reload
  BY <1>5, ReplacedGood DEF Unmount, Reload
<1>6. CASE UNCHANGED vars
  BY <1>6, ElsewhereGood DEF vars
<1> QED BY <1>1, <1>2, <1>3, <1>4, <1>5, <1>6 DEF Next

\* NoOrphan: a connection that is still open is the active source of the stream
\* controller or the request of the abort controller, so that Stop, the next
\* request (send, sendChat) and leaving the page close every one of them.
THEOREM NothingIsOrphaned == Spec => []NoOrphan
BY InvInit, InvStep, InvIsEnough, PTL DEF Spec

\* NeverWaitsInVain: the flags isRequesting and isStreaming stand for a
\* request that can still end, but for a stream that was cut without [DONE].
THEOREM NothingIsAwaitedInVain == Spec => []NeverWaitsInVain
BY InvInit, InvStep, InvIsEnough, PTL DEF Spec

-----------------------------------------------------------------------------
(* localStorage. *)

\* The page and the disk have their fields, and the updates that wait are a
\* sequence.
Shaped ==
    /\ DOMAIN ui = {"mounted", "messages", "queue", "busy", "life"}
    /\ \E S : ui.queue \in Seq(S)
    /\ DOMAIN disk = {"latest", "timer", "stored", "loaded", "unsaved"}
    /\ disk.timer \in BOOLEAN /\ disk.loaded \in BOOLEAN /\ disk.unsaved \in BOOLEAN

\* Once loaded: with nothing to render the list that was last handed to
\* persistMessages is the one shown, and with no timer it is the one stored if the
\* attempt to store it has not failed.
Saved ==
    disk.loaded = TRUE =>
        /\ ui.queue = <<>> => disk.latest = ui.messages
        /\ disk.timer = FALSE /\ disk.unsaved = FALSE => disk.stored = Trimmed(disk.latest)

\* Nothing is loaded yet.
LEMMA SavedInit == Init => Shaped /\ Saved
<1> SUFFICES ASSUME Init PROVE Shaped /\ Saved
  OBVIOUS
<1>1. /\ DOMAIN ui = {"mounted", "messages", "queue", "busy", "life"} /\ ui.queue = <<>>
      /\ DOMAIN disk = {"latest", "timer", "stored", "loaded", "unsaved"}
      /\ disk.timer = FALSE /\ disk.loaded = FALSE /\ disk.unsaved = FALSE
  BY DEF Init, FreshPage, FreshDisk
<1>2. <<>> \in Seq({})
  OBVIOUS
<1> QED BY <1>1, <1>2 DEF Shaped, Saved

\* The invariant gives the property.
LEMMA SavedIsDurable == Shaped /\ Saved => Durable
BY DEF Shaped, Saved, Durable

\* Sequences of updates that are put together are empty only if both are.
LEMMA Joined ==
    ASSUME NEW S, NEW q \in Seq(S), NEW T, NEW us \in Seq(T)
    PROVE  q \o us \in Seq(S \cup T) /\ (q \o us = <<>> => q = <<>> /\ us = <<>>)
<1>1. q \in Seq(S \cup T) /\ us \in Seq(S \cup T)
  OBVIOUS
<1>2. q \o us \in Seq(S \cup T) /\ Len(q \o us) = Len(q) + Len(us) /\ Len(q) \in Nat /\ Len(us) \in Nat
  BY <1>1
<1>3. q \o us = <<>> => Len(q) = 0 /\ Len(us) = 0
  BY <1>2
<1> QED BY <1>1, <1>2, <1>3

\* The updates that a flush or an end queues are a sequence.
LEMMA EndingIsSeq ==
    ASSUME NEW g, NEW kind
    PROVE  (\E T : FlushUpdates(g) \in Seq(T)) /\ (\E T : Ending(g, kind) \in Seq(T))
<1>1. PICK T : FlushUpdates(g) \in Seq(T)
  <2>1. PICK u : FlushUpdates(g) \in {<<>>, <<u>>}
    BY DEF FlushUpdates
  <2>2. <<>> \in Seq({u}) /\ <<u>> \in Seq({u})
    OBVIOUS
  <2>3. FlushUpdates(g) \in Seq({u})
    BY <2>1, <2>2
  <2> QED BY <2>3
<1>2. PICK v : v = Update(kind, g, <<>>)
  OBVIOUS
<1>3. <<v>> \in Seq({v})
  OBVIOUS
<1>4. Ending(g, kind) \in Seq(T \cup {v})
  BY <1>1, <1>2, <1>3, Joined DEF Ending
<1> QED BY <1>1, <1>4

\* persistMessages starts the timer once the messages are loaded.
LEMMA PersistedDisk ==
    ASSUME Shaped, NEW ms, disk' = Persisted(ms)
    PROVE  /\ DOMAIN disk' = {"latest", "timer", "stored", "loaded", "unsaved"}
           /\ disk'.timer \in BOOLEAN /\ disk'.loaded = disk.loaded /\ disk'.latest = ms
           /\ disk'.stored = disk.stored /\ disk'.unsaved = FALSE
           /\ disk.loaded = TRUE => disk'.timer = TRUE
<1>1. PICK t \in BOOLEAN : t = (disk.timer \/ disk.loaded)
  OBVIOUS
<1>2. disk' = [disk EXCEPT !.latest = ms, !.timer = t, !.unsaved = FALSE]
  BY <1>1 DEF Persisted
<1> QED BY <1>1, <1>2 DEF Shaped

\* An event queues updates; what React evaluates at once is persisted.
LEMMA EnqueueSaved ==
    ASSUME Shaped, Saved, NEW us, \E T : us \in Seq(T), Enqueue(us)
    PROVE  Shaped' /\ Saved'
<1>1. PICK S : ui.queue \in Seq(S)
  BY DEF Shaped
<1>2. PICK T : us \in Seq(T)
  OBVIOUS
<1>3. CASE ui' = [ui EXCEPT !.queue = @ \o us] /\ UNCHANGED disk
  <2>1. PICK q : q = ui.queue \o us
    OBVIOUS
  <2>2. q \in Seq(S \cup T) /\ (q = <<>> => ui.queue = <<>>)
    BY <1>1, <1>2, <2>1, Joined
  <2>3. ui' = [ui EXCEPT !.queue = q] /\ disk' = disk
    BY <1>3, <2>1
  <2>4. /\ DOMAIN ui' = {"mounted", "messages", "queue", "busy", "life"}
        /\ ui'.queue = q /\ ui'.messages = ui.messages
    BY <2>3 DEF Shaped
  <2> QED BY <2>2, <2>3, <2>4 DEF Shaped, Saved
<1>4. ASSUME us # <<>>, NEW ms, ui' = [ui EXCEPT !.queue = <<SetTo(ms)>> \o Tail(us)],
             disk' = Persisted(ms)
      PROVE  Shaped' /\ Saved'
  <2>1. PICK v : v = SetTo(ms)
    OBVIOUS
  <2>2. Tail(us) \in Seq(T) /\ <<v>> \in Seq({v}) /\ <<v>> # <<>>
    BY <1>2, <1>4
  <2>3. PICK q : q = <<v>> \o Tail(us)
    OBVIOUS
  <2>4. q \in Seq({v} \cup T) /\ q # <<>>
    BY <2>2, <2>3, Joined
  <2>5. /\ DOMAIN ui' = {"mounted", "messages", "queue", "busy", "life"} /\ ui'.queue = q
    BY <1>4, <2>1, <2>3 DEF Shaped
  <2>6. /\ DOMAIN disk' = {"latest", "timer", "stored", "loaded", "unsaved"}
        /\ disk'.timer \in BOOLEAN /\ disk'.loaded = disk.loaded /\ disk'.unsaved = FALSE
        /\ disk.loaded = TRUE => disk'.timer = TRUE
    BY <1>4, PersistedDisk
  <2> QED BY <2>4, <2>5, <2>6 DEF Shaped, Saved
<1> QED BY <1>3, <1>4 DEF Enqueue

\* A rendering persists the list that it shows.
LEMMA CommitSaved ==
    ASSUME Shaped, Saved, NEW us, \E T : us \in Seq(T), NEW g, NEW busy, Commit(us, g, busy)
    PROVE  Shaped' /\ Saved'
<1>1. PICK S : ui.queue \in Seq(S)
  BY DEF Shaped
<1>2. PICK T : us \in Seq(T)
  OBVIOUS
<1>3. PICK all : all = ui.queue \o us
  OBVIOUS
<1>4. all = <<>> => ui.queue = <<>>
  BY <1>1, <1>2, <1>3, Joined
<1>5. PICK ms : /\ ms = IF all = <<>> THEN ui.messages ELSE Applied(all, ui.messages, g)
                /\ ui' = [ui EXCEPT !.messages = ms, !.queue = <<>>, !.busy = busy]
                /\ disk' = IF all = <<>> THEN disk ELSE Persisted(ms)
  BY <1>3 DEF Commit
<1>6. /\ DOMAIN ui' = {"mounted", "messages", "queue", "busy", "life"}
      /\ ui'.queue = <<>> /\ ui'.messages = ms
  BY <1>5 DEF Shaped
<1>7. <<>> \in Seq({})
  OBVIOUS
<1>8. CASE all = <<>>
  BY <1>4, <1>5, <1>6, <1>7, <1>8 DEF Shaped, Saved
<1>9. CASE all # <<>>
  <2>1. /\ DOMAIN disk' = {"latest", "timer", "stored", "loaded", "unsaved"}
        /\ disk'.timer \in BOOLEAN /\ disk'.loaded = disk.loaded /\ disk'.latest = ms
        /\ disk'.unsaved = FALSE
        /\ disk.loaded = TRUE => disk'.timer = TRUE
    BY <1>5, <1>9, PersistedDisk
  <2> QED BY <1>6, <1>7, <2>1 DEF Shaped, Saved
<1> QED BY <1>8, <1>9

\* Lists of one or two updates are sequences.
LEMMA UpdatesAreSeq ==
    /\ \E T : <<>> \in Seq(T)
    /\ \A u : \E T : <<u>> \in Seq(T)
    /\ \A u, v : \E T : <<u, v>> \in Seq(T)
<1>1. <<>> \in Seq({}) /\ (\A u : <<u>> \in Seq({u})) /\ (\A u, v : <<u, v>> \in Seq({u, v}))
  OBVIOUS
<1> QED BY <1>1

\* A step that neither the page nor the disk sees.
LEMMA SavedElsewhere ==
    ASSUME Shaped, Saved, UNCHANGED <<ui, disk>>
    PROVE  Shaped' /\ Saved'
BY DEF Shaped, Saved

\* The steps of a request.
LEMMA RequestSaved ==
    ASSUME Shaped, Saved, NEW g, RequestStep(g)
    PROVE  Shaped' /\ Saved'
<1>1. CASE HeadersStale(g) \/ HeadersReady(g) \/ Chunk(g) \/ Cut(g) \/ LateEvent(g) \/ PlainIgnored(g)
  BY <1>1, SavedElsewhere DEF HeadersStale, HeadersReady, Chunk, Cut, LateEvent, PlainIgnored
<1>2. ASSUME NEW kind, RequestEnds(g, kind) PROVE Shaped' /\ Saved'
  <2>1. CASE UNCHANGED <<ui, disk>>
    BY <2>1, SavedElsewhere
  <2>2. CASE Enqueue(Ending(g, kind))
    BY <2>2, EndingIsSeq, EnqueueSaved
  <2> QED BY <1>2, <2>1, <2>2 DEF RequestEnds
<1>3. CASE HeadersFailed(g) \/ Done(g) \/ StreamError(g)
  BY <1>2, <1>3 DEF HeadersFailed, Done, StreamError
<1>4. CASE PlainAnswer(g)
  BY <1>4, UpdatesAreSeq, EnqueueSaved DEF PlainAnswer
<1>5. CASE PlainError(g)
  BY <1>5, EndingIsSeq, EnqueueSaved DEF PlainError
<1> QED BY <1>1, <1>3, <1>4, <1>5 DEF RequestStep

\* The steps of the user.
LEMMA UserSaved ==
    ASSUME Shaped, Saved, UserStep
    PROVE  Shaped' /\ Saved'
<1>1. ASSUME NEW next, NEW kind, Submit(next, kind) PROVE Shaped' /\ Saved'
  BY <1>1, UpdatesAreSeq, CommitSaved DEF Submit
<1>2. CASE \E kind \in Kinds : Send(kind)
  BY <1>1, <1>2 DEF Send
<1>3. ASSUME NEW i, NEW kind, Regenerate(i, kind) \/ SaveAndSubmit(i, kind) PROVE Shaped' /\ Saved'
  BY <1>1, <1>3 DEF Regenerate, SaveAndSubmit
<1>4. ASSUME NEW i, SaveEdit(i) PROVE Shaped' /\ Saved'
  BY <1>4, UpdatesAreSeq, CommitSaved DEF SaveEdit
<1>5. ASSUME NEW i, Delete(i) PROVE Shaped' /\ Saved'
  BY <1>5, UpdatesAreSeq, CommitSaved DEF Delete
<1>6. CASE Clear
  BY <1>6, UpdatesAreSeq, CommitSaved DEF Clear
<1>7. CASE Stop
  <2>1. PICK T : FlushUpdates(chat.gen) \in Seq(T)
    BY EndingIsSeq
  <2>2. PICK idle : idle = Update("stop", NextGen, <<>>)
    OBVIOUS
  <2>3. <<idle>> \in Seq({idle})
    OBVIOUS
  <2>4. FlushUpdates(chat.gen) \o <<idle>> \in Seq(T \cup {idle})
    BY <2>1, <2>3, Joined
  <2>5. CASE Commit(FlushUpdates(chat.gen) \o <<idle>>, NextGen, FALSE)
    BY <2>4, <2>5, CommitSaved
  <2>6. ASSUME NEW u, Commit(<<u, idle>>, NextGen, FALSE) PROVE Shaped' /\ Saved'
    BY <2>6, UpdatesAreSeq, CommitSaved
  <2> QED BY <1>7, <2>2, <2>5, <2>6 DEF Stop
<1> QED BY <1>2, <1>3, <1>4, <1>5, <1>6, <1>7 DEF UserStep

\* What is loaded: the stored list, mended, or nothing; and what is stored then.
LEMMA LoadIs ==
    ASSUME Load
    PROVE  \E ms, stored : \E e \in BOOLEAN :
              /\ Loaded(ms, stored, e) /\ (e = FALSE => stored = Trimmed(ms))
              /\ ms = LoadMessages \/ ms = <<>>
              /\ stored = Trimmed(ms) \/ stored = disk.stored
<1>1. Trimmed(<<>>) = <<>>
  <2>1. Len(<<>>) = 0 /\ ~(0 > MaxStored)
    BY PlaygroundAssumption
  <2>2. SubSeq(<<>>, 1, 0) = <<>>
    BY SubSeqEmpty
  <2> QED BY <2>1, <2>2 DEF Trimmed
<1>2. \/ Loaded(LoadMessages, Trimmed(LoadMessages), FALSE)
      \/ Loaded(LoadMessages, disk.stored, TRUE)
      \/ Loaded(<<>>, <<>>, FALSE)
      \/ Loaded(<<>>, disk.stored, TRUE)
  BY DEF Load
<1> QED BY <1>1, <1>2

\* The save timer and the life of the page.
LEMMA PageSaved ==
    ASSUME Shaped, Saved, SaveTimer \/ Mount \/ Load \/ Unmount \/ Reload
    PROVE  Shaped' /\ Saved'
<1>0. <<>> \in Seq({})
  OBVIOUS
<1>1. CASE SaveTimer
  <2>1. PICK stored, e :
          /\ e \in BOOLEAN
          /\ ui' = ui /\ disk' = [disk EXCEPT !.stored = stored, !.timer = FALSE, !.unsaved = e]
          /\ e = FALSE => stored = Trimmed(disk.latest)
    <3>1. CASE disk' = [disk EXCEPT !.stored = Trimmed(disk.latest), !.timer = FALSE, !.unsaved = FALSE]
      BY <1>1, <3>1 DEF SaveTimer
    <3>2. CASE disk' = [disk EXCEPT !.timer = FALSE, !.unsaved = TRUE]
      <4>1. disk' = [disk EXCEPT !.stored = disk.stored, !.timer = FALSE, !.unsaved = TRUE]
        BY <3>2 DEF Shaped
      <4> QED BY <1>1, <4>1 DEF SaveTimer
    <3> QED BY <1>1, <3>1, <3>2 DEF SaveTimer
  <2>2. /\ DOMAIN disk' = {"latest", "timer", "stored", "loaded", "unsaved"} /\ disk'.timer = FALSE
        /\ disk'.loaded = disk.loaded /\ disk'.latest = disk.latest
        /\ disk'.stored = stored /\ disk'.unsaved = e
    BY <2>1 DEF Shaped
  <2> QED BY <2>1, <2>2 DEF Shaped, Saved, Trimmed
<1>2. CASE Mount
  <2>1. disk' = disk /\ ui' = [ui EXCEPT !.mounted = TRUE]
    BY <1>2 DEF Mount
  <2>2. /\ DOMAIN ui' = {"mounted", "messages", "queue", "busy", "life"}
        /\ ui'.queue = ui.queue /\ ui'.messages = ui.messages
    BY <2>1 DEF Shaped
  <2> QED BY <2>1, <2>2 DEF Shaped, Saved
<1>3. CASE Load
  <2>1. PICK ms, stored, e : e \in BOOLEAN /\ Loaded(ms, stored, e) /\ (e = FALSE => stored = Trimmed(ms))
    BY <1>3, LoadIs
  <2>2. /\ ui' = [ui EXCEPT !.messages = ms, !.queue = <<>>]
        /\ disk' = [disk EXCEPT !.latest = ms, !.stored = stored, !.loaded = TRUE, !.unsaved = e]
    BY <2>1 DEF Loaded
  <2>3. /\ DOMAIN ui' = {"mounted", "messages", "queue", "busy", "life"}
        /\ ui'.queue = <<>> /\ ui'.messages = ms
    BY <2>2 DEF Shaped
  <2>4. /\ DOMAIN disk' = {"latest", "timer", "stored", "loaded", "unsaved"} /\ disk'.timer = disk.timer
        /\ disk'.loaded = TRUE /\ disk'.latest = ms /\ disk'.stored = stored /\ disk'.unsaved = e
    BY <2>2 DEF Shaped
  <2> QED BY <1>0, <2>1, <2>3, <2>4 DEF Shaped, Saved, Trimmed
<1>4. ASSUME NEW stored, Replaced(stored) PROVE Shaped' /\ Saved'
  <2>1. /\ DOMAIN ui' = {"mounted", "messages", "queue", "busy", "life"} /\ ui'.queue = <<>>
    BY <1>4 DEF Replaced, FreshPage
  <2>2. /\ DOMAIN disk' = {"latest", "timer", "stored", "loaded", "unsaved"}
        /\ disk'.timer = FALSE /\ disk'.loaded = FALSE /\ disk'.unsaved = FALSE
    BY <1>4 DEF Replaced, FreshDisk
  <2> QED BY <1>0, <2>1, <2>2 DEF Shaped, Saved
<1>5. CASE Unmount \/ Reload
  BY <1>4, <1>5 DEF Unmount, Reload
<1> QED BY <1>1, <1>2, <1>3, <1>5

\* Every step keeps the invariant.
LEMMA SavedStep ==
    ASSUME Shaped, Saved, [Next]_vars
    PROVE  Shaped' /\ Saved'
<1>1. CASE Render
  BY <1>1, UpdatesAreSeq, CommitSaved DEF Render
<1>2. CASE FlushTimer
  BY <1>2, EndingIsSeq, EnqueueSaved DEF FlushTimer
<1>3. CASE UNCHANGED vars
  BY <1>3, SavedElsewhere DEF vars
<1> QED BY <1>1, <1>2, <1>3, RequestSaved, UserSaved, PageSaved DEF Next

\* Durable: when the debounced save is not pending, the last attempt to read or to
\* write localStorage did not fail and nothing waits to be rendered, localStorage
\* holds the list that is shown, trimmed as saveMessages trims it: every path that
\* changes the list goes through persistMessages, so the next change saves what a
\* failed attempt left out.
THEOREM ShownIsStored == Spec => []Durable
<1>1. Shaped /\ Saved /\ [Next]_vars => Shaped' /\ Saved'
  BY SavedStep
<1> QED BY <1>1, SavedInit, SavedIsDurable, PTL DEF Spec

-----------------------------------------------------------------------------
(* What the queued updates make of a list. *)

\* it holds what the updates of us make of ms, for every set of their positions, taken in
\* the order of the positions; it is the function that FoldLeft defines.
Runs(us, ms, g, it) ==
    it = [s \in SUBSET DOMAIN us |->
            IF s = {} THEN ms ELSE Apply(us[Max(s)], it[s \ {Max(s)}], g)]

RunsOn(us, ms, g, D, it) ==
    it = [s \in D |-> IF s = {} THEN ms ELSE Apply(us[Max(s)], it[s \ {Max(s)}], g)]

\* The fold as the library defines it: what its iterator gives for all the indices.
LEMMA AppliedIs ==
    ASSUME NEW us, NEW ms, NEW g
    PROVE  Applied(us, ms, g) = (CHOOSE it : Runs(us, ms, g, it))[DOMAIN us]
BY DEF Applied, FoldLeft, MapThenFoldSet, Runs

\* There is such an iterator.
LEMMA RunsExists ==
    ASSUME NEW us, NEW n \in Nat, DOMAIN us = 1..n, NEW ms, NEW g
    PROVE  \E it : Runs(us, ms, g, it)
<1>a. PICK N : N = 1..n
  OBVIOUS
<1> DEFINE D(k) == {s \in SUBSET N : Cardinality(s) <= k}
           Q == {k \in Nat : \E it : RunsOn(us, ms, g, D(k), it)}
<1>0. IsFiniteSet(N) /\ Cardinality(N) \in Nat
  BY <1>a, FS_Interval, FS_CardinalityType
<1>1. \A s \in SUBSET N : /\ IsFiniteSet(s) /\ Cardinality(s) \in Nat
                               /\ Cardinality(s) <= Cardinality(N)
  BY <1>0, FS_Subset, FS_CardinalityType
<1>2. 0 \in Q
  <2>1. \A s \in D(0) : s = {}
    BY <1>1, FS_EmptySet
  <2>2. RunsOn(us, ms, g, D(0), [s \in D(0) |-> ms])
    BY <2>1 DEF RunsOn
  <2> QED BY <2>2
<1>3. ASSUME NEW k \in Nat, k \in Q PROVE k + 1 \in Q
  <2>1. PICK it : RunsOn(us, ms, g, D(k), it)
    BY <1>3
  <2> DEFINE h == [s \in D(k + 1) |-> IF s = {} THEN ms ELSE Apply(us[Max(s)], it[s \ {Max(s)}], g)]
  <2>2. ASSUME NEW s \in D(k + 1), s # {} PROVE s \ {Max(s)} \in D(k)
    <3>1. Max(s) \in s
      BY <1>a, <2>2, Largest
    <3>2. Cardinality(s \ {Max(s)}) = Cardinality(s) - 1
      BY <3>1, <1>1, FS_RemoveElement
    <3> QED BY <3>2, <1>1
  <2>3. ASSUME NEW s \in D(k) PROVE s \in D(k + 1) /\ h[s] = it[s]
    <3>1. s \in D(k + 1)
      BY <1>1
    <3>2. it[s] = IF s = {} THEN ms ELSE Apply(us[Max(s)], it[s \ {Max(s)}], g)
      BY <2>1 DEF RunsOn
    <3> HIDE DEF D
    <3> QED BY <3>1, <3>2
  <2>4. RunsOn(us, ms, g, D(k + 1), h)
    <3> HIDE DEF D
    <3>1. h = [s \in D(k + 1) |-> IF s = {} THEN ms ELSE Apply(us[Max(s)], h[s \ {Max(s)}], g)]
      BY <2>2, <2>3
    <3> QED BY <3>1 DEF RunsOn
  <2>5. k + 1 \in Nat /\ \E jt : RunsOn(us, ms, g, D(k + 1), jt)
    <3> HIDE DEF h, D
    <3> QED BY <2>4
  <2> HIDE DEF D
  <2> QED BY <2>5
<1>4. Cardinality(N) \in Q
  <2>1. Nat \subseteq Q
    <3> HIDE DEF Q
    <3> QED BY <1>2, <1>3, Numbers
  <2> QED BY <2>1, <1>0
<1>5. D(Cardinality(N)) = SUBSET N
  BY <1>1
<1> QED BY <1>a, <1>4, <1>5, ZenonT(60) DEF Runs, RunsOn

\* The first updates do the same whatever follows them.
LEMMA RunsAgree ==
    ASSUME NEW us, NEW n \in Nat, DOMAIN us = 1..n, NEW vs, NEW m \in Nat, DOMAIN vs = 1..m, n <= m,
           \A i \in 1..n : vs[i] = us[i], NEW ms, NEW g,
           NEW it, Runs(us, ms, g, it), NEW jt, Runs(vs, ms, g, jt)
    PROVE  it[1..n] = jt[1..n]
<1> DEFINE Q == {k \in Nat : k <= n => it[1..k] = jt[1..k]}
<1>1. \A k \in 0..n : /\ it[1..k] = IF 1..k = {} THEN ms ELSE Apply(us[Max(1..k)], it[(1..k) \ {Max(1..k)}], g)
                      /\ jt[1..k] = IF 1..k = {} THEN ms ELSE Apply(vs[Max(1..k)], jt[(1..k) \ {Max(1..k)}], g)
  <2> SUFFICES ASSUME NEW k \in 0..n PROVE 1..k \in SUBSET DOMAIN us /\ 1..k \in SUBSET DOMAIN vs
    BY DEF Runs
  <2> QED OBVIOUS
<1>2. 0 \in Q
  <2>1. 1..0 = {} /\ 0 \in 0..n
    OBVIOUS
  <2>2. it[1..0] = ms /\ jt[1..0] = ms
    BY <1>1, <2>1
  <2> QED BY <2>2
<1>3. ASSUME NEW k \in Nat, k \in Q PROVE k + 1 \in Q
  <2> SUFFICES ASSUME k + 1 <= n PROVE it[1..(k + 1)] = jt[1..(k + 1)]
    OBVIOUS
  <2>1. Max(1..(k + 1)) = k + 1 /\ (1..(k + 1)) \ {k + 1} = 1..k /\ 1..(k + 1) # {}
    BY Interval
  <2>2. k + 1 \in 0..n /\ k + 1 \in 1..n /\ k <= n
    OBVIOUS
  <2>3. it[1..k] = jt[1..k]
    BY <1>3, <2>2
  <2>4. us[k + 1] = vs[k + 1]
    BY <2>2
  <2> HIDE DEF Q
  <2>5. it[1..(k + 1)] = Apply(us[k + 1], it[1..k], g)
    BY <1>1, <2>1, <2>2
  <2>6. jt[1..(k + 1)] = Apply(vs[k + 1], jt[1..k], g)
    BY <1>1, <2>1, <2>2
  <2> QED BY <2>3, <2>4, <2>5, <2>6
<1>4. Nat \subseteq Q
  <2> HIDE DEF Q
  <2> QED BY <1>2, <1>3, Numbers
<1> QED BY <1>4

\* The iterator that is chosen runs the updates.
LEMMA AppliedRuns ==
    ASSUME NEW us, NEW n \in Nat, DOMAIN us = 1..n, NEW ms, NEW g
    PROVE  \E it : Runs(us, ms, g, it) /\ Applied(us, ms, g) = it[1..n]
BY AppliedIs, RunsExists

\* No updates leave the list, and a further one is applied to what the others made.
LEMMA AppliedEmpty ==
    ASSUME NEW ms, NEW g
    PROVE  Applied(<<>>, ms, g) = ms
<1>1. DOMAIN <<>> = 1..0 /\ 1..0 = {}
  OBVIOUS
<1>2. PICK it : Runs(<<>>, ms, g, it) /\ Applied(<<>>, ms, g) = it[1..0]
  BY <1>1, AppliedRuns
<1> QED BY <1>1, <1>2 DEF Runs

\* The last update is applied to what the others leave.
LEMMA AppliedAppend ==
    ASSUME NEW S, NEW us \in Seq(S), NEW u, NEW ms, NEW g
    PROVE  Applied(Append(us, u), ms, g) = Apply(u, Applied(us, ms, g), g)
<1>1. PICK n \in Nat : n = Len(us) /\ DOMAIN us = 1..n
  OBVIOUS
<1>2. PICK vs : vs = Append(us, u)
  OBVIOUS
<1>3. DOMAIN vs = 1..(n + 1) /\ vs[n + 1] = u /\ \A i \in 1..n : vs[i] = us[i]
  <2>1. us \in Seq(S \cup {u}) /\ u \in S \cup {u}
    OBVIOUS
  <2> QED BY <1>1, <1>2, <2>1
<1>4. PICK it : Runs(us, ms, g, it) /\ Applied(us, ms, g) = it[1..n]
  BY <1>1, AppliedRuns
<1>5. PICK jt : Runs(vs, ms, g, jt) /\ Applied(vs, ms, g) = jt[1..(n + 1)]
  BY <1>3, AppliedRuns
<1>6. it[1..n] = jt[1..n]
  BY <1>1, <1>3, <1>4, <1>5, RunsAgree
<1>7. Max(1..(n + 1)) = n + 1 /\ (1..(n + 1)) \ {n + 1} = 1..n /\ 1..(n + 1) # {}
  BY Interval
<1>8. jt[1..(n + 1)] = Apply(vs[n + 1], jt[1..n], g)
  BY <1>3, <1>5, <1>7, ZenonT(60) DEF Runs
<1> QED BY <1>2, <1>3, <1>4, <1>5, <1>6, <1>8

-----------------------------------------------------------------------------
(* Removing a message. *)

Keeps(ms, key, it) ==
    it = [s \in SUBSET DOMAIN ms |->
            IF s = {} THEN <<>>
            ELSE IF Key(ms[Max(s)]) = key THEN it[s \ {Max(s)}]
            ELSE Append(it[s \ {Max(s)}], ms[Max(s)])]

KeepsOn(ms, key, D, it) ==
    it = [s \in D |->
            IF s = {} THEN <<>>
            ELSE IF Key(ms[Max(s)]) = key THEN it[s \ {Max(s)}]
            ELSE Append(it[s \ {Max(s)}], ms[Max(s)])]

\* The removal as the library defines its fold.
LEMMA RemovalIs ==
    ASSUME NEW ms, NEW key
    PROVE  RemoveMessageByKey(ms, key) = (CHOOSE it : Keeps(ms, key, it))[DOMAIN ms]
BY DEF RemoveMessageByKey, FoldLeft, MapThenFoldSet, Keeps

\* There is such an iterator.
LEMMA KeepsExists ==
    ASSUME NEW ms, NEW n \in Nat, DOMAIN ms = 1..n, NEW key
    PROVE  \E it : Keeps(ms, key, it)
<1>a. PICK N : N = 1..n
  OBVIOUS
<1> DEFINE D(k) == {s \in SUBSET N : Cardinality(s) <= k}
           Q == {k \in Nat : \E it : KeepsOn(ms, key, D(k), it)}
<1>0. IsFiniteSet(N) /\ Cardinality(N) \in Nat
  BY <1>a, FS_Interval, FS_CardinalityType
<1>1. \A s \in SUBSET N : /\ IsFiniteSet(s) /\ Cardinality(s) \in Nat
                          /\ Cardinality(s) <= Cardinality(N)
  BY <1>0, FS_Subset, FS_CardinalityType
<1>2. 0 \in Q
  <2>1. \A s \in D(0) : s = {}
    BY <1>1, FS_EmptySet
  <2>2. KeepsOn(ms, key, D(0), [s \in D(0) |-> <<>>])
    BY <2>1 DEF KeepsOn
  <2> QED BY <2>2
<1>3. ASSUME NEW k \in Nat, k \in Q PROVE k + 1 \in Q
  <2>1. PICK it : KeepsOn(ms, key, D(k), it)
    BY <1>3
  <2> DEFINE h == [s \in D(k + 1) |-> IF s = {} THEN <<>>
                                      ELSE IF Key(ms[Max(s)]) = key THEN it[s \ {Max(s)}]
                                      ELSE Append(it[s \ {Max(s)}], ms[Max(s)])]
  <2>2. ASSUME NEW s \in D(k + 1), s # {} PROVE s \ {Max(s)} \in D(k)
    <3>1. Max(s) \in s
      BY <1>a, <2>2, Largest
    <3>2. Cardinality(s \ {Max(s)}) = Cardinality(s) - 1
      BY <3>1, <1>1, FS_RemoveElement
    <3> QED BY <3>2, <1>1
  <2>3. ASSUME NEW s \in D(k) PROVE s \in D(k + 1) /\ h[s] = it[s]
    <3>1. s \in D(k + 1)
      BY <1>1
    <3>2. it[s] = IF s = {} THEN <<>> ELSE IF Key(ms[Max(s)]) = key THEN it[s \ {Max(s)}]
                  ELSE Append(it[s \ {Max(s)}], ms[Max(s)])
      BY <2>1 DEF KeepsOn
    <3> HIDE DEF D
    <3> QED BY <3>1, <3>2
  <2>4. KeepsOn(ms, key, D(k + 1), h)
    <3> HIDE DEF D
    <3>1. h = [s \in D(k + 1) |-> IF s = {} THEN <<>>
                                  ELSE IF Key(ms[Max(s)]) = key THEN h[s \ {Max(s)}]
                                  ELSE Append(h[s \ {Max(s)}], ms[Max(s)])]
      BY <2>2, <2>3
    <3> QED BY <3>1 DEF KeepsOn
  <2>5. k + 1 \in Nat /\ \E jt : KeepsOn(ms, key, D(k + 1), jt)
    <3> HIDE DEF h, D
    <3> QED BY <2>4
  <2> HIDE DEF D
  <2> QED BY <2>5
<1>4. Cardinality(N) \in Q
  <2>1. Nat \subseteq Q
    <3> HIDE DEF Q
    <3> QED BY <1>2, <1>3, Numbers
  <2> QED BY <2>1, <1>0
<1>5. D(Cardinality(N)) = SUBSET N
  BY <1>1
<1> QED BY <1>a, <1>4, <1>5, ZenonT(60) DEF Keeps, KeepsOn

\* Every message of rs is one of ms, and no key occurs twice.
Within(rs, ms) == \A j \in DOMAIN rs : \E i \in DOMAIN ms : rs[j] = ms[i]

Unique(ms) == \A i, j \in DOMAIN ms : Key(ms[i]) = Key(ms[j]) => i = j

\* removeMessageByKey adds nothing.
LEMMA Removal ==
    ASSUME NEW T, NEW ms \in Seq(T), Unique(ms), NEW key
    PROVE  LET rs == RemoveMessageByKey(ms, key)
           IN  rs \in Seq(T) /\ Within(rs, ms) /\ Unique(rs)
<1>1. PICK n \in Nat : n = Len(ms) /\ DOMAIN ms = 1..n
  OBVIOUS
<1>2. PICK it : Keeps(ms, key, it) /\ RemoveMessageByKey(ms, key) = it[1..n]
  BY <1>1, RemovalIs, KeepsExists
<1> DEFINE Q == {k \in Nat : k <= n => /\ it[1..k] \in Seq(T) /\ Unique(it[1..k])
                                       /\ \A j \in DOMAIN it[1..k] : \E i \in 1..k : it[1..k][j] = ms[i]}
<1>3. 0 \in Q
  <2>1. 1..0 = {} /\ {} \in SUBSET DOMAIN ms
    OBVIOUS
  <2>2. it[1..0] = <<>>
    BY <1>2, <2>1 DEF Keeps
  <2>3. <<>> \in Seq(T) /\ DOMAIN <<>> = {} /\ Unique(<<>>)
    BY DEF Unique
  <2> QED BY <2>2, <2>3
<1>4. ASSUME NEW k \in Nat, k \in Q PROVE k + 1 \in Q
  <2> SUFFICES ASSUME k + 1 <= n
               PROVE  /\ it[1..(k + 1)] \in Seq(T) /\ Unique(it[1..(k + 1)])
                      /\ \A j \in DOMAIN it[1..(k + 1)] :
                            \E i \in 1..(k + 1) : it[1..(k + 1)][j] = ms[i]
    OBVIOUS
  <2>1. Max(1..(k + 1)) = k + 1 /\ (1..(k + 1)) \ {k + 1} = 1..k /\ 1..(k + 1) # {}
    BY Interval
  <2>2. 1..(k + 1) \in SUBSET DOMAIN ms /\ k + 1 \in DOMAIN ms /\ ms[k + 1] \in T /\ k <= n
    BY <1>1
  <2>3. it[1..(k + 1)] = IF Key(ms[k + 1]) = key THEN it[1..k] ELSE Append(it[1..k], ms[k + 1])
    BY <1>2, <2>1, <2>2 DEF Keeps
  <2>4. PICK r \in Seq(T) : /\ r = it[1..k] /\ Unique(r)
                            /\ \A j \in DOMAIN r : \E i \in 1..k : r[j] = ms[i]
    BY <1>4, <2>2
  <2> HIDE DEF Q
  <2>5. CASE Key(ms[k + 1]) = key
    <3>1. it[1..(k + 1)] = r
      BY <2>3, <2>4, <2>5
    <3>2. 1..k \subseteq 1..(k + 1)
      OBVIOUS
    <3> QED BY <2>4, <3>1, <3>2
  <2>6. CASE Key(ms[k + 1]) # key
    <3>0. PICK e \in T : e = ms[k + 1]
      BY <2>2
    <3>1. PICK q \in Seq(T) : e = ms[k + 1] /\ q = Append(r, e) /\ it[1..(k + 1)] = q
      <4>1. Append(r, e) \in Seq(T)
        BY <2>4
      <4>2. it[1..(k + 1)] = Append(r, e)
        BY <2>3, <2>4, <2>6, <3>0
      <4> QED BY <3>0, <4>1, <4>2
    <3>2. PICK l \in Nat : l = Len(r) /\ DOMAIN r = 1..l /\ DOMAIN q = 1..(l + 1)
      BY <3>1
    <3>3. q[l + 1] = e /\ \A j \in 1..l : q[j] = r[j]
      BY <3>1, <3>2
    <3>4. \A j \in DOMAIN q : \E i \in 1..(k + 1) : q[j] = ms[i]
      BY <2>4, <3>1, <3>2, <3>3
    <3>5. \A j \in 1..l : Key(q[j]) # Key(e)
      <4> SUFFICES ASSUME NEW j \in 1..l, Key(q[j]) = Key(e) PROVE FALSE
        OBVIOUS
      <4>1. PICK i \in 1..k : r[j] = ms[i]
        BY <2>4, <3>2
      <4>2. i \in DOMAIN ms /\ i # k + 1
        BY <1>1, <2>2
      <4>3. Key(ms[i]) = Key(ms[k + 1])
        BY <3>1, <3>3, <4>1
      <4> QED BY <2>2, <4>2, <4>3 DEF Unique
    <3>6. Unique(q)
      <4> SUFFICES ASSUME NEW i \in 1..(l + 1), NEW j \in 1..(l + 1), Key(q[i]) = Key(q[j]) PROVE i = j
        BY <3>2 DEF Unique
      <4>1. CASE i \in 1..l /\ j \in 1..l
        BY <2>4, <3>2, <3>3, <4>1 DEF Unique
      <4>2. CASE i = l + 1 \/ j = l + 1
        BY <3>2, <3>3, <3>5, <4>2
      <4> QED BY <3>2, <4>1, <4>2
    <3> QED BY <3>1, <3>4, <3>6
  <2> QED BY <2>5, <2>6
<1>5. Nat \subseteq Q
  <2> HIDE DEF Q
  <2> QED BY <1>3, <1>4, Numbers
<1>6. /\ it[1..n] \in Seq(T) /\ Unique(it[1..n])
      /\ \A j \in DOMAIN it[1..n] : \E i \in 1..n : it[1..n][j] = ms[i]
  BY <1>5
<1> QED BY <1>1, <1>2, <1>6 DEF Within

-----------------------------------------------------------------------------
(* The text of an answer. *)

Piece == Nat \X Nat
Text == Seq(Piece)

\* A slice is a text, of the length one expects.
LEMMA SliceIs ==
    ASSUME NEW g \in Nat, NEW a \in Nat, NEW b \in Nat, a <= b
    PROVE  /\ Slice(g, a, b) \in Text /\ Len(Slice(g, a, b)) = b - a
           /\ \A i \in 1..(b - a) : Slice(g, a, b)[i] = <<g, a + i>>
<1>1. PICK d \in Nat : d = b - a
  OBVIOUS
<1>2. \A i \in 1..d : <<g, a + i>> \in Nat \X Nat
  OBVIOUS
<1>3. PICK s : s = [i \in 1..d |-> <<g, a + i>>]
  OBVIOUS
<1>4. s \in [1..d -> Piece]
  BY <1>2, <1>3 DEF Piece
<1>5. s \in Seq(Piece) /\ Len(s) = d
  <2>1. s \in Seq(Piece)
    BY <1>4, SeqDef
  <2>2. DOMAIN s = 1..d
    BY <1>3
  <2> QED BY <2>1, <2>2, LenProperties
<1> QED BY <1>1, <1>3, <1>5 DEF Slice, Text

\* s is the slice of the places of g after a and up to b.
IsSlice(s, g, a, b) == s \in Text /\ Len(s) = b - a /\ \A i \in 1..(b - a) : s[i] = <<g, a + i>>

LEMMA SliceOf ==
    ASSUME NEW g \in Nat, NEW a \in Nat, NEW b \in Nat, a <= b
    PROVE  IsSlice(Slice(g, a, b), g, a, b)
BY SliceIs DEF IsSlice

\* Nothing is between a place and itself, something between two.
LEMMA SliceEmpty ==
    ASSUME NEW g \in Nat, NEW a \in Nat, NEW b \in Nat, a <= b
    PROVE  Slice(g, a, b) = <<>> <=> a = b
<1>1. Slice(g, a, b) \in Text /\ Len(Slice(g, a, b)) = b - a
  BY SliceIs
<1> QED BY <1>1, EmptySeq DEF Text

\* The empty text.
LEMMA NoPieces == ASSUME NEW g \in Nat PROVE Slice(g, 0, 0) = <<>> /\ <<>> \in Text
<1>1. <<>> \in Text
  BY EmptySeq DEF Text
<1> QED BY <1>1, SliceEmpty

\* Two texts of the same length and with the same pieces are the same.
LEMMA SameText ==
    ASSUME NEW s \in Text, NEW t \in Text, Len(s) = Len(t), \A i \in 1..Len(s) : s[i] = t[i]
    PROVE  s = t
BY SeqEqual DEF Text

\* Two slices that meet make one.
LEMMA SlicesJoin ==
    ASSUME NEW g \in Nat, NEW a \in Nat, NEW b \in Nat, NEW c \in Nat, a <= b, b <= c
    PROVE  Slice(g, a, b) \o Slice(g, b, c) = Slice(g, a, c)
<1>0. a <= c
  OBVIOUS
<1>a. IsSlice(Slice(g, a, b), g, a, b) /\ IsSlice(Slice(g, b, c), g, b, c) /\ IsSlice(Slice(g, a, c), g, a, c)
  BY <1>0, SliceOf
<1>b. PICK s, t, u : /\ s = Slice(g, a, b) /\ IsSlice(s, g, a, b)
                     /\ t = Slice(g, b, c) /\ IsSlice(t, g, b, c)
                     /\ u = Slice(g, a, c) /\ IsSlice(u, g, a, c)
  BY <1>a
<1>1. s \in Text /\ Len(s) = b - a /\ \A i \in 1..(b - a) : s[i] = <<g, a + i>>
  BY <1>b DEF IsSlice
<1>2. t \in Text /\ Len(t) = c - b /\ \A i \in 1..(c - b) : t[i] = <<g, b + i>>
  BY <1>b DEF IsSlice
<1>3. u \in Text /\ Len(u) = c - a /\ \A i \in 1..(c - a) : u[i] = <<g, a + i>>
  BY <1>b DEF IsSlice
<1>4. PICK v \in Text : /\ v = s \o t /\ Len(v) = c - a
                        /\ \A i \in 1..(c - a) : v[i] = IF i <= b - a THEN s[i] ELSE t[i - (b - a)]
  <2>1. /\ s \o t \in Text /\ Len(s \o t) = Len(s) + Len(t)
        /\ \A i \in 1..(Len(s) + Len(t)) : (s \o t)[i] = IF i <= Len(s) THEN s[i] ELSE t[i - Len(s)]
    BY <1>1, <1>2, ConcatProperties DEF Text
  <2>2. PICK v, m, n : v = s \o t /\ m = Len(s) /\ n = Len(s) + Len(t)
    OBVIOUS
  <2>3. m = b - a /\ n = c - a
    BY <1>1, <1>2, <2>2
  <2>4. v \in Text /\ Len(v) = n /\ \A i \in 1..n : v[i] = IF i <= m THEN s[i] ELSE t[i - m]
    BY <2>1, <2>2
  <2> QED BY <2>2, <2>3, <2>4
<1>5. ASSUME NEW i \in 1..(c - a) PROVE v[i] = u[i]
  <2>1. CASE i <= b - a
    <3>1. v[i] = s[i] /\ i \in 1..(b - a)
      BY <1>4, <2>1
    <3> QED BY <1>1, <1>3, <3>1
  <2>2. CASE i > b - a
    <3>1. PICK j \in 1..(c - b) : j = i - (b - a)
      BY <2>2
    <3>2. v[i] = t[j]
      BY <1>4, <2>2, <3>1
    <3>3. b + j = a + i
      BY <3>1
    <3> QED BY <1>2, <1>3, <3>2, <3>3
  <2> QED BY <2>1, <2>2
<1>6. v = u
  BY <1>3, <1>4, <1>5, SameText
<1> QED BY <1>b, <1>4, <1>6

\* q is the part of s that follows its first m pieces, n pieces long.
PartIs(q, s, m, n) == q \in Text /\ Len(q) = n /\ \A i \in 1..n : q[i] = s[m + i]

LEMMA PartOf ==
    ASSUME NEW s \in Text, NEW m \in Nat, NEW n \in Nat, m + n <= Len(s)
    PROVE  PartIs(SubSeq(s, m + 1, m + n), s, m, n)
<1>1. \A i \in (m + 1)..(m + n) : s[i] \in Piece
  BY ElementOfSeq DEF Text
<1>2. /\ SubSeq(s, m + 1, m + n) \in Seq(Piece)
      /\ Len(SubSeq(s, m + 1, m + n)) = IF m + 1 <= m + n THEN m + n - (m + 1) + 1 ELSE 0
      /\ \A i \in 1..(m + n - (m + 1) + 1) : SubSeq(s, m + 1, m + n)[i] = s[m + 1 + i - 1]
  BY <1>1, SubSeqProperties
<1>3. m + n - (m + 1) + 1 = n /\ \A i \in 1..n : m + 1 + i - 1 = m + i
  OBVIOUS
<1>4. (m + 1 <= m + n <=> n # 0)
  OBVIOUS
<1>5. /\ SubSeq(s, m + 1, m + n) \in Text /\ Len(SubSeq(s, m + 1, m + n)) = n
      /\ \A i \in 1..n : SubSeq(s, m + 1, m + n)[i] = s[m + i]
  BY <1>2, <1>3, <1>4 DEF Text
<1> QED BY <1>5 DEF PartIs

\* The text t begins with s and goes on with u.
Continues(s, t, u) == Begins(s, t) /\ SubSeq(t, Len(s) + 1, Len(t)) = u

\* A slice begins every longer one with the same start; the rest is a slice.
LEMMA SlicePrefix ==
    ASSUME NEW g \in Nat, NEW a \in Nat, NEW b \in Nat, NEW c \in Nat, a <= b, b <= c
    PROVE  Continues(Slice(g, a, b), Slice(g, a, c), Slice(g, b, c))
<1>0. a <= c
  OBVIOUS
<1>a. IsSlice(Slice(g, a, b), g, a, b) /\ IsSlice(Slice(g, b, c), g, b, c) /\ IsSlice(Slice(g, a, c), g, a, c)
  BY <1>0, SliceOf
<1>b. PICK s, t, u : /\ s = Slice(g, a, b) /\ IsSlice(s, g, a, b)
                     /\ t = Slice(g, b, c) /\ IsSlice(t, g, b, c)
                     /\ u = Slice(g, a, c) /\ IsSlice(u, g, a, c)
  BY <1>a
<1>1. s \in Text /\ Len(s) = b - a /\ \A i \in 1..(b - a) : s[i] = <<g, a + i>>
  BY <1>b DEF IsSlice
<1>2. t \in Text /\ Len(t) = c - b /\ \A i \in 1..(c - b) : t[i] = <<g, b + i>>
  BY <1>b DEF IsSlice
<1>3. u \in Text /\ Len(u) = c - a /\ \A i \in 1..(c - a) : u[i] = <<g, a + i>>
  BY <1>b DEF IsSlice
<1>4. \A i \in 1..Len(s) : s[i] = u[i]
  <2>1. \A i \in 1..(b - a) : i \in 1..(c - a)
    OBVIOUS
  <2> QED BY <1>1, <1>3, <2>1
<1>5. Begins(s, u)
  <2>1. Len(s) <= Len(u)
    BY <1>1, <1>3
  <2> QED BY <1>4, <2>1 DEF Begins
<1>6. SubSeq(u, Len(s) + 1, Len(u)) = t
  <2>1. PICK q \in Text : /\ q = SubSeq(u, Len(s) + 1, Len(u)) /\ Len(q) = c - b
                          /\ \A i \in 1..(c - b) : q[i] = u[b - a + i]
    <3>1. PICK m \in Nat, n \in Nat : m = b - a /\ n = c - b /\ m + n = Len(u) /\ Len(s) = m /\ m + n <= Len(u)
      BY <1>1, <1>3
    <3>2. PICK q : q = SubSeq(u, m + 1, m + n) /\ PartIs(q, u, m, n)
      BY <1>3, <3>1, PartOf
    <3>3. q = SubSeq(u, Len(s) + 1, Len(u)) /\ Len(q) = n /\ q \in Text /\ \A i \in 1..n : q[i] = u[m + i]
      BY <3>1, <3>2 DEF PartIs
    <3> QED BY <3>1, <3>3
  <2>2. ASSUME NEW i \in 1..(c - b) PROVE q[i] = t[i]
    <3>1. PICK j \in 1..(c - a) : j = b - a + i
      OBVIOUS
    <3>2. a + j = b + i
      BY <3>1
    <3> QED BY <1>2, <1>3, <2>1, <3>1, <3>2
  <2> QED BY <1>2, <2>1, <2>2, SameText
<1>7. Continues(s, u, t)
  BY <1>5, <1>6 DEF Continues
<1> QED BY <1>b, <1>7

\* In a text without repetitions what follows a slice does not begin with it: it is not
\* taken for a resent text.
LEMMA SliceNoPrefix ==
    ASSUME NEW g \in Nat, NEW a \in Nat, NEW b \in Nat, NEW d \in Nat,
           a < b, b <= d, d <= MaxLetters, Unrepeated(g)
    PROVE  ~Begins(Slice(g, a, b), Slice(g, b, d))
<1>0. a <= b
  OBVIOUS
<1>a. IsSlice(Slice(g, a, b), g, a, b) /\ IsSlice(Slice(g, b, d), g, b, d)
  BY <1>0, SliceOf
<1>b. PICK s, t : /\ s = Slice(g, a, b) /\ IsSlice(s, g, a, b)
                  /\ t = Slice(g, b, d) /\ IsSlice(t, g, b, d)
  BY <1>a
<1>1. s \in Text /\ Len(s) = b - a /\ \A i \in 1..(b - a) : s[i] = <<g, a + i>>
  BY <1>b DEF IsSlice
<1>2. t \in Text /\ Len(t) = d - b /\ \A i \in 1..(d - b) : t[i] = <<g, b + i>>
  BY <1>b DEF IsSlice
<1> SUFFICES ASSUME Begins(s, t) PROVE FALSE
  BY <1>b
<1>3. Len(s) <= Len(t) /\ \A i \in 1..Len(s) : Says(s[i]) = Says(t[i])
  BY DEF Begins
<1>4. PICK e \in Nat : e = b - a /\ e \in 1..MaxLetters /\ a \in 0..MaxLetters /\ a + e = b
                       /\ a + e + e <= MaxLetters /\ e <= d - b
  BY <1>1, <1>2, <1>3, Bounds
<1>5. PICK i \in 1..e : Says(<<g, a + i>>) # Says(<<g, a + e + i>>)
  BY <1>4 DEF Unrepeated
<1>6. i \in 1..(b - a) /\ i \in 1..(d - b) /\ i \in 1..Len(s) /\ a + e + i = b + i
  BY <1>1, <1>4
<1>7. s[i] = <<g, a + i>> /\ t[i] = <<g, b + i>>
  BY <1>1, <1>2, <1>6
<1> QED BY <1>3, <1>5, <1>6, <1>7

-----------------------------------------------------------------------------
(* What an answer may show. *)

Places(g, k) == {g} \X (1..k)

\* The text holds places of the answer of g only, of the first k.
Own(t, g, k) == t \in Text /\ t \in Seq(Places(g, k))

\* It is the slice from a to b, or, where parts of the answer repeat, no more than that
\* it is part of the first b places.
Shows(t, g, a, b) == Own(t, g, b) /\ (Unrepeated(g) => t = Slice(g, a, b))

LEMMA OwnSlice ==
    ASSUME NEW g \in Nat, NEW a \in Nat, NEW b \in Nat, a <= b
    PROVE  Own(Slice(g, a, b), g, b)
<1>0. PICK d \in Nat : d = b - a
  OBVIOUS
<1>a. /\ Slice(g, a, b) \in Text /\ Len(Slice(g, a, b)) = b - a
      /\ \A i \in 1..(b - a) : Slice(g, a, b)[i] = <<g, a + i>>
  BY SliceIs
<1>1. PICK s : s \in Text /\ s = Slice(g, a, b) /\ Len(s) = d /\ \A i \in 1..d : s[i] = <<g, a + i>>
  BY <1>0, <1>a
<1>2. \A i \in 1..d : s[i] \in Places(g, b)
  <2>1. PICK B : B = 1..b
    OBVIOUS
  <2>2. \A i \in 1..d : a + i \in B
    BY <1>0, <2>1
  <2>3. ASSUME NEW i \in 1..d PROVE s[i] \in {g} \X B
    <3>1. PICK j : j = a + i /\ j \in B
      BY <2>2
    <3>2. s[i] = <<g, j>>
      BY <1>1, <3>1
    <3>3. <<g, j>> \in {g} \X B
      BY <3>1
    <3> QED BY <3>2, <3>3
  <2> QED BY <2>1, <2>3 DEF Places
<1>3. s \in Seq(Places(g, b))
  <2>1. s \in Seq(Piece)
    BY <1>1 DEF Text
  <2>2. s = [i \in 1..Len(s) |-> s[i]]
    BY <2>1, LenProperties
  <2>3. s \in [1..d -> Places(g, b)]
    BY <1>1, <1>2, <2>2
  <2> QED BY <2>3, SeqDef
<1> QED BY <1>1, <1>3 DEF Own

\* Texts that are joined, cut or read later.
LEMMA OwnJoin ==
    ASSUME NEW g, NEW k, NEW s, NEW t, Own(s, g, k), Own(t, g, k)
    PROVE  Own(s \o t, g, k)
BY ConcatProperties DEF Own, Text

LEMMA OwnPart ==
    ASSUME NEW g, NEW k, NEW s, Own(s, g, k), NEW m \in Nat, m <= Len(s)
    PROVE  Own(SubSeq(s, m + 1, Len(s)), g, k)
<1>1. Len(s) \in Nat /\ s \in Seq(Places(g, k)) /\ s \in Seq(Piece)
  BY LenProperties DEF Own, Text
<1>2. \A i \in (m + 1)..Len(s) : s[i] \in Places(g, k) /\ s[i] \in Piece
  BY <1>1, ElementOfSeq
<1>3. m + 1 \in Nat
  OBVIOUS
<1>4. SubSeq(s, m + 1, Len(s)) \in Seq(Places(g, k)) /\ SubSeq(s, m + 1, Len(s)) \in Seq(Piece)
  BY <1>1, <1>2, <1>3, SubSeqProperties
<1> QED BY <1>4 DEF Own, Text

LEMMA OwnGrows ==
    ASSUME NEW g \in Nat, NEW k \in Nat, NEW n \in Nat, k <= n, NEW t, Own(t, g, k)
    PROVE  Own(t, g, n)
<1>1. Places(g, k) \subseteq Places(g, n)
  BY DEF Places
<1>2. PICK A, B : A = Places(g, k) /\ B = Places(g, n) /\ A \subseteq B
  BY <1>1
<1>3. t \in Seq(A)
  BY <1>2 DEF Own
<1>4. t = [i \in 1..Len(t) |-> t[i]] /\ Len(t) \in Nat /\ \A i \in 1..Len(t) : t[i] \in A
  BY <1>3, LenProperties, ElementOfSeq
<1>5. t \in [1..Len(t) -> B]
  BY <1>2, <1>4
<1>6. t \in Seq(B)
  BY <1>4, <1>5, SeqDef
<1> QED BY <1>2, <1>6 DEF Own

LEMMA ShowsSlice ==
    ASSUME NEW g \in Nat, NEW a \in Nat, NEW b \in Nat, a <= b
    PROVE  Shows(Slice(g, a, b), g, a, b) /\ Slice(g, a, b) \in Text
BY OwnSlice DEF Shows, Own

\* An empty text shows nothing.
LEMMA ShowsNothing ==
    ASSUME NEW g \in Nat, NEW a \in Nat
    PROVE  Shows(<<>>, g, a, a) /\ <<>> \in Text
<1>1. a <= a
  OBVIOUS
<1>2. Slice(g, a, a) = <<>>
  BY <1>1, SliceEmpty
<1>3. Shows(Slice(g, a, a), g, a, a) /\ Slice(g, a, a) \in Text
  BY <1>1, ShowsSlice
<1> QED BY <1>2, <1>3

\* handleStreamUpdate: what waits for the flush, and the next message of the stream.
LEMMA MergedOwn ==
    ASSUME NEW g, NEW k, NEW t, NEW c, Own(t, g, k), Own(c, g, k)
    PROVE  Own(Merged(t, c), g, k) /\ (c # <<>> => Merged(t, c) # <<>>)
<1>1. Own(t \o c, g, k)
  BY OwnJoin
<1>2. c # <<>> => t \o c # <<>>
  <2>1. t \in Seq(Piece) /\ c \in Seq(Piece)
    BY DEF Own, Text
  <2>2. Len(t \o c) = Len(t) + Len(c) /\ Len(t) \in Nat /\ Len(c) \in Nat
    BY <2>1, ConcatProperties, LenProperties
  <2>3. c # <<>> => Len(c) # 0
    BY <2>1, EmptySeq
  <2>4. t \o c \in Seq(Piece)
    BY <2>1, ConcatProperties
  <2> QED BY <2>2, <2>3, <2>4, EmptySeq
<1> QED BY <1>1, <1>2 DEF Merged

LEMMA MergedDelta ==
    ASSUME NEW g \in Nat, NEW a \in Nat, NEW n \in Nat, NEW m \in Nat, a <= n, n < m, m <= MaxLetters,
           NEW t, Shows(t, g, a, n), NEW c, c = Slice(g, n, m)
    PROVE  Shows(Merged(t, c), g, a, m) /\ Merged(t, c) # <<>>
<1>1. n <= m /\ a <= m
  OBVIOUS
<1>2. Own(t, g, m)
  BY <1>1, OwnGrows DEF Shows
<1>3. Own(c, g, m) /\ c # <<>> /\ c \in Text
  BY <1>1, OwnSlice, SliceEmpty DEF Own
<1>4. Own(Merged(t, c), g, m) /\ Merged(t, c) # <<>>
  BY <1>2, <1>3, MergedOwn
<1>5. ASSUME Unrepeated(g) PROVE Merged(t, c) = Slice(g, a, m)
  <2>1. t = Slice(g, a, n)
    BY <1>5 DEF Shows
  <2>2. t \o c = Slice(g, a, m)
    BY <1>1, <2>1, SlicesJoin, ZenonT(60)
  <2>3. CASE a = n
    <3>1. t = <<>>
      BY <2>1, <2>3, SliceEmpty
    <3> QED BY <2>2, <3>1 DEF Merged
  <2>4. CASE a < n
    <3>1. ~Begins(t, c)
      BY <1>1, <1>5, <2>1, <2>4, SliceNoPrefix
    <3> QED BY <2>2, <3>1 DEF Merged
  <2> QED BY <2>3, <2>4
<1> QED BY <1>4, <1>5 DEF Shows

LEMMA MergedSnapshot ==
    ASSUME NEW g \in Nat, NEW n \in Nat, NEW m \in Nat, n < m,
           NEW t, Shows(t, g, 0, n) \/ t = <<>>, NEW c, c = Slice(g, 0, m)
    PROVE  Shows(Merged(t, c), g, 0, m) /\ Merged(t, c) # <<>>
<1>1. n <= m /\ 0 <= m /\ 0 <= n /\ 0 \in Nat /\ 0 # m
  OBVIOUS
<1>2. Shows(c, g, 0, m) /\ c # <<>> /\ c \in Text
  BY <1>1, ShowsSlice, SliceEmpty
<1>3. CASE t = <<>>
  <2>1. Merged(t, c) = c
    BY <1>2, <1>3, ConcatEmptySeq DEF Merged, Text
  <2> QED BY <1>2, <2>1
<1>4. CASE t # <<>> /\ Shows(t, g, 0, n)
  <2>1. Own(t, g, m)
    BY <1>1, <1>4, OwnGrows DEF Shows
  <2>2. Own(Merged(t, c), g, m) /\ Merged(t, c) # <<>>
    BY <1>2, <2>1, MergedOwn DEF Shows
  <2>3. ASSUME Unrepeated(g) PROVE Merged(t, c) = Slice(g, 0, m)
    <3>1. t = Slice(g, 0, n)
      BY <1>4, <2>3 DEF Shows
    <3>2. Continues(t, c, Slice(g, n, m))
      BY <1>1, <3>1, SlicePrefix
    <3> QED BY <1>4, <3>2 DEF Merged, Continues
  <2> QED BY <2>2, <2>3 DEF Shows
<1> QED BY <1>3, <1>4

\* applyStreamingChunk: an answer that shows the first k places and is given those that
\* it misses, or all of them, shows them all.
LEMMA ExtendedText ==
    ASSUME NEW g \in Nat, NEW k \in Nat, NEW n \in Nat, k <= n, n <= MaxLetters, NEW a \in {0, k}, a < n,
           NEW t, Shows(t, g, 0, k), NEW c, Shows(c, g, a, n)
    PROVE  Shows(Extended(t, c), g, 0, n)
<1>1. 0 \in Nat /\ 0 <= k /\ 0 <= n /\ a \in Nat /\ a <= n
  OBVIOUS
<1>2. Own(t, g, n) /\ Own(c, g, n)
  BY OwnGrows DEF Shows
<1>3. Own(Extended(t, c), g, n)
  <2>1. Own(t \o c, g, n)
    BY <1>2, OwnJoin
  <2>2. ASSUME Begins(t, c) PROVE Own(t \o SubSeq(c, Len(t) + 1, Len(c)), g, n)
    <3>1. Len(t) \in Nat /\ Len(t) <= Len(c)
      BY <1>2, <2>2, LenProperties DEF Begins, Own, Text
    <3>2. PICK q : q = SubSeq(c, Len(t) + 1, Len(c)) /\ Own(q, g, n)
      BY <1>2, <3>1, OwnPart
    <3> QED BY <1>2, <3>2, OwnJoin
  <2> QED BY <2>1, <2>2 DEF Extended
<1>4. ASSUME Unrepeated(g) PROVE Extended(t, c) = Slice(g, 0, n)
  <2>0. t = Slice(g, 0, k) /\ c = Slice(g, a, n)
    BY <1>4 DEF Shows
  <2>1. t \o Slice(g, k, n) = Slice(g, 0, n)
    BY <1>1, <2>0, SlicesJoin, ZenonT(60)
  <2>2. CASE k = 0
    <3>1. t = <<>> /\ a = 0
      BY <1>1, <2>0, <2>2, SliceEmpty
    <3> QED BY <2>0, <2>1, <2>2, <3>1 DEF Extended
  <2>3. CASE k # 0
    <3>1. t # <<>>
      BY <1>1, <2>0, <2>3, SliceEmpty
    <3>2. CASE a = 0
      <4>1. Continues(t, c, Slice(g, k, n))
        BY <1>1, <2>0, <3>2, SlicePrefix
      <4> QED BY <2>1, <3>1, <4>1 DEF Extended, Continues
    <3>3. CASE a = k
      <4>1. ~Begins(t, c)
        <5>1. 0 < k
          BY <2>3
        <5> QED BY <1>1, <1>4, <2>0, <3>3, <5>1, SliceNoPrefix
      <4> QED BY <2>0, <2>1, <3>3, <4>1 DEF Extended
    <3> QED BY <3>2, <3>3
  <2> QED BY <2>2, <2>3
<1> QED BY <1>3, <1>4 DEF Shows

-----------------------------------------------------------------------------
(* Messages, and the last one of a list. *)

Statuses == {"none", "loading", "streaming", "complete", "error"}
MsgType == [from : {"user", "assistant"}, of : Gens, status : Statuses, text : Text]

\* The list with m as its last message.
Put(ms, m) == [ms EXCEPT ![Len(ms)] = m]

\* The list but for its last message is as it was.
LEMMA PutIs ==
    ASSUME NEW T, NEW ms \in Seq(T), ms # <<>>, NEW m \in T
    PROVE  /\ Put(ms, m) \in Seq(T) /\ Len(Put(ms, m)) = Len(ms) /\ Put(ms, m) # <<>>
           /\ DOMAIN Put(ms, m) = 1..Len(ms) /\ Len(ms) \in 1..Len(ms)
           /\ Put(ms, m)[Len(ms)] = m /\ Last(Put(ms, m)) = m
           /\ \A j \in 1..Len(ms) : j # Len(ms) => Put(ms, m)[j] = ms[j]
<1>1. PICK n \in Nat : n = Len(ms) /\ n \in 1..n
  BY EmptySeq
<1>2. PICK q : q = [ms EXCEPT ![n] = m]
  OBVIOUS
<1>3. /\ q \in Seq(T) /\ Len(q) = n /\ \A j \in 1..n : q[j] = IF j = n THEN m ELSE ms[j]
  BY <1>1, <1>2, ExceptSeq
<1>4. DOMAIN q = 1..n /\ q # <<>>
  BY <1>1, <1>3, LenProperties, EmptySeq
<1> QED BY <1>1, <1>2, <1>3, <1>4 DEF Put, Last

\* The last message is replaced twice.
LEMMA PutTwice ==
    ASSUME NEW T, NEW ms \in Seq(T), ms # <<>>, NEW m \in T, NEW o \in T
    PROVE  Put(Put(ms, m), o) = Put(ms, o)
<1>1. /\ Put(ms, m) \in Seq(T) /\ Len(Put(ms, m)) = Len(ms) /\ Put(ms, m) # <<>>
      /\ \A j \in 1..Len(ms) : j # Len(ms) => Put(ms, m)[j] = ms[j]
  BY PutIs
<1>a. \A r \in Seq(T) : r # <<>> =>
        /\ Put(r, o) \in Seq(T) /\ Len(Put(r, o)) = Len(r)
        /\ Put(r, o)[Len(r)] = o /\ \A j \in 1..Len(r) : j # Len(r) => Put(r, o)[j] = r[j]
  BY PutIs
<1>2. PICK q \in Seq(T) : q = Put(ms, m) /\ q # <<>>
  BY <1>1
<1>3. /\ Put(q, o) \in Seq(T) /\ Len(Put(q, o)) = Len(q)
      /\ Put(q, o)[Len(q)] = o /\ \A j \in 1..Len(q) : j # Len(q) => Put(q, o)[j] = q[j]
  BY <1>2, <1>a
<1>4. /\ Put(ms, o) \in Seq(T) /\ Len(Put(ms, o)) = Len(ms)
      /\ Put(ms, o)[Len(ms)] = o /\ \A j \in 1..Len(ms) : j # Len(ms) => Put(ms, o)[j] = ms[j]
  BY PutIs
<1>5. Len(Put(q, o)) = Len(Put(ms, o)) /\ \A i \in 1..Len(Put(q, o)) : Put(q, o)[i] = Put(ms, o)[i]
  BY <1>1, <1>2, <1>3, <1>4
<1>6. Put(q, o) = Put(ms, o)
  BY <1>3, <1>4, <1>5, SeqEqual
<1> QED BY <1>2, <1>6

\* The last message is replaced by itself.
LEMMA PutLast ==
    ASSUME NEW T, NEW ms \in Seq(T), ms # <<>>
    PROVE  Last(ms) \in T /\ Put(ms, Last(ms)) = ms
<1>1. Len(ms) \in 1..Len(ms)
  BY EmptySeq
<1>2. Last(ms) \in T
  BY <1>1, ElementOfSeq DEF Last
<1>3. /\ Put(ms, Last(ms)) \in Seq(T) /\ Len(Put(ms, Last(ms))) = Len(ms)
      /\ Put(ms, Last(ms))[Len(ms)] = Last(ms)
      /\ \A j \in 1..Len(ms) : j # Len(ms) => Put(ms, Last(ms))[j] = ms[j]
  BY <1>2, PutIs
<1>4. \A i \in 1..Len(ms) : Put(ms, Last(ms))[i] = ms[i]
  BY <1>3 DEF Last
<1> QED BY <1>2, <1>3, <1>4, SeqEqual

\* Two lists that differ at most in the last message are the same if that is.
LEMMA PutInjective ==
    ASSUME NEW T, NEW ms \in Seq(T), ms # <<>>, NEW m \in T, NEW o \in T, Put(ms, m) = Put(ms, o)
    PROVE  m = o
BY PutIs

\* An update of a generation: it touches the last message, an answer, if the
\* generation is the present one.
OfGen(u, g) == u.kind \notin {"set", "delete"} /\ u.gen = g

\* An update of generation g changes the last message, and under another generation
\* nothing.
LEMMA ApplyPut ==
    ASSUME NEW ms \in Seq(MsgType), ms # <<>>, NEW m \in MsgType, m.from = "assistant",
           NEW g, NEW u, OfGen(u, g), Touched(u, m) \in MsgType
    PROVE  /\ Apply(u, Put(ms, m), g) = Put(ms, Touched(u, m))
           /\ \A h : h # g => Apply(u, Put(ms, m), h) = Put(ms, m)
<1>1. PICK q \in Seq(MsgType) : /\ q = Put(ms, m) /\ q # <<>> /\ Last(q) = m /\ q[Len(q)] = m
                                /\ Len(q) \in DOMAIN q
  <2>1. /\ Put(ms, m) \in Seq(MsgType) /\ Len(Put(ms, m)) = Len(ms) /\ Put(ms, m) # <<>>
        /\ DOMAIN Put(ms, m) = 1..Len(ms) /\ Len(ms) \in 1..Len(ms)
        /\ Put(ms, m)[Len(ms)] = m /\ Last(Put(ms, m)) = m
    BY PutIs
  <2> QED BY <2>1
<1>2. [q EXCEPT ![Len(q)] = Touched(u, @)] = Put(q, Touched(u, m))
  BY <1>1 DEF Put
<1>3. Put(q, Touched(u, m)) = Put(ms, Touched(u, m))
  BY <1>1, PutTwice
<1>4. Apply(u, q, g) = [q EXCEPT ![Len(q)] = Touched(u, @)]
  BY <1>1 DEF Apply, OfGen
<1>5. \A h : h # g => Apply(u, q, h) = q
  BY <1>1 DEF Apply, OfGen
<1> QED BY <1>1, <1>2, <1>3, <1>4, <1>5

\* An answer of generation g that shows its first k places.
AnswerOf(m, g, k) ==
    /\ m \in MsgType /\ m.from = "assistant" /\ m.of = g /\ m.status # "none"
    /\ Shows(m.text, g, 0, k)

\* What a change of status and text leaves.
Alter(m, s, t) == [m EXCEPT !.status = s, !.text = t]

\* The fields of a message whose status and text change.
LEMMA Changed ==
    ASSUME NEW m \in MsgType, NEW s \in Statuses, NEW t \in Text, NEW o,
           o = Alter(m, s, t)
    PROVE  o \in MsgType /\ o.from = m.from /\ o.of = m.of /\ o.status = s /\ o.text = t
BY DEF MsgType, Alter

\* The fields of a message whose status changes.
LEMMA NewStatus ==
    ASSUME NEW m \in MsgType, NEW s \in Statuses, NEW o, o = [m EXCEPT !.status = s]
    PROVE  o \in MsgType /\ o.from = m.from /\ o.of = m.of /\ o.status = s /\ o.text = m.text
BY DEF MsgType

\* It is still an answer of its generation.
LEMMA AnswerChanged ==
    ASSUME NEW g, NEW j, NEW k, NEW m, AnswerOf(m, g, j), NEW s \in Statuses, s # "none",
           NEW t \in Text, Shows(t, g, 0, k), NEW o, o = Alter(m, s, t)
    PROVE  AnswerOf(o, g, k) /\ o.status = s
<1>1. o \in MsgType /\ o.from = m.from /\ o.of = m.of /\ o.status = s /\ o.text = t
  BY Changed DEF AnswerOf
<1> QED BY <1>1 DEF AnswerOf

\* An answer with another status is still one.
LEMMA AnswerStatus ==
    ASSUME NEW g, NEW k, NEW m, AnswerOf(m, g, k), NEW s \in Statuses, s # "none",
           NEW o, o = [m EXCEPT !.status = s]
    PROVE  AnswerOf(o, g, k) /\ o.status = s
<1>1. o \in MsgType /\ o.from = m.from /\ o.of = m.of /\ o.status = s /\ o.text = m.text
  BY NewStatus DEF AnswerOf
<1> QED BY <1>1 DEF AnswerOf

\* The fields of an update.
LEMMA UpdateIs ==
    ASSUME NEW kind, NEW g, NEW data
    PROVE  /\ Update(kind, g, data).kind = kind /\ Update(kind, g, data).gen = g
           /\ Update(kind, g, data).data = data
BY DEF Update

\* Generations are numbers.
LEMMA GensAreNat == ASSUME NEW g \in Gens PROVE g \in Nat
BY Bounds DEF Gens

\* What each update does to an answer.
LEMMA TouchedByFlush ==
    ASSUME NEW g \in Gens, NEW k \in Nat, NEW n \in Nat, k <= n, n <= MaxLetters, NEW a \in {0, k}, a < n,
           NEW c, Shows(c, g, a, n), NEW m, AnswerOf(m, g, k), m.status # "error"
    PROVE  LET o == Touched(Update("flush", g, c), m)
           IN  AnswerOf(o, g, n) /\ o.status = "streaming"
<1>0. g \in Nat /\ Shows(m.text, g, 0, k)
  BY GensAreNat DEF AnswerOf
<1>1. PICK t : t = Extended(m.text, c) /\ Shows(t, g, 0, n)
  BY <1>0, ExtendedText
<1>2. PICK u : u = Update("flush", g, c) /\ u.kind = "flush" /\ u.data = c
  BY UpdateIs
<1>3. Touched(u, m) = [m EXCEPT !.status = "streaming", !.text = Extended(m.text, u.data)]
  BY <1>2 DEF Touched
<1>4. t \in Text
  BY <1>1 DEF Shows, Own
<1>5. Touched(u, m) = Alter(m, "streaming", t)
  BY <1>1, <1>2, <1>3 DEF Alter
<1>6. "streaming" \in Statuses /\ "streaming" # "none"
  BY DEF Statuses
<1>7. PICK o : o = Touched(u, m)
  OBVIOUS
<1>8. AnswerOf(o, g, n) /\ o.status = "streaming"
  BY <1>1, <1>4, <1>5, <1>6, <1>7, AnswerChanged
<1> QED BY <1>2, <1>7, <1>8

\* What the updates that end a request make of an answer.
LEMMA TouchedByEnd ==
    ASSUME NEW g \in Gens, NEW k \in Nat, NEW m, AnswerOf(m, g, k)
    PROVE  /\ Pending(m) => LET o == Touched(Update("complete", g, <<>>), m)
                            IN  AnswerOf(o, g, k) /\ o.status = "complete"
           /\ LET o == Touched(Update("error", g, <<>>), m)
              IN  AnswerOf(o, g, 0) /\ o.status = "error"
           /\ LET o == Touched(Update("response", g, Slice(g, 0, 1)), m)
              IN  AnswerOf(o, g, 1) /\ o.status = "complete"
           /\ \A h : LET o == Touched(Update("stop", h, <<>>), m)
                     IN  AnswerOf(o, g, k) /\ Final(o)
<1>0. g \in Nat /\ m \in MsgType /\ "complete" \in Statuses /\ "error" \in Statuses
      /\ "complete" # "none" /\ "error" # "none"
  BY GensAreNat DEF AnswerOf, Statuses
<1>1. ASSUME Pending(m)
      PROVE  LET o == Touched(Update("complete", g, <<>>), m)
             IN  AnswerOf(o, g, k) /\ o.status = "complete"
  <2>1. Touched(Update("complete", g, <<>>), m) = [m EXCEPT !.status = "complete"]
    BY <1>1, UpdateIs DEF Touched, Final, Pending
  <2>2. PICK o : o = Touched(Update("complete", g, <<>>), m)
    OBVIOUS
  <2>3. AnswerOf(o, g, k) /\ o.status = "complete"
    BY <1>0, <2>1, <2>2, AnswerStatus
  <2> QED BY <2>2, <2>3
<1>2. LET o == Touched(Update("error", g, <<>>), m)
      IN  AnswerOf(o, g, 0) /\ o.status = "error"
  <2>1. Touched(Update("error", g, <<>>), m) = Alter(m, "error", <<>>)
    BY UpdateIs DEF Touched, Alter
  <2>2. <<>> \in Text /\ Shows(<<>>, g, 0, 0)
    BY <1>0, ShowsNothing
  <2>3. PICK o : o = Touched(Update("error", g, <<>>), m)
    OBVIOUS
  <2>4. AnswerOf(o, g, 0) /\ o.status = "error"
    BY <1>0, <2>1, <2>2, <2>3, AnswerChanged
  <2> QED BY <2>3, <2>4
<1>3. LET o == Touched(Update("response", g, Slice(g, 0, 1)), m)
      IN  AnswerOf(o, g, 1) /\ o.status = "complete"
  <2>1. PICK t \in Text : t = Slice(g, 0, 1) /\ Shows(t, g, 0, 1)
    <3>1. 0 \in Nat /\ 1 \in Nat /\ 0 <= 1
      OBVIOUS
    <3> QED BY <1>0, <3>1, ShowsSlice
  <2>2. PICK u : u = Update("response", g, t) /\ u.kind = "response" /\ u.data = t
    BY UpdateIs
  <2>3. PICK o : o = Touched(u, m)
    OBVIOUS
  <2>4. o = Alter(m, "complete", t)
    BY <2>2, <2>3 DEF Touched, Alter
  <2>5. AnswerOf(o, g, 1) /\ o.status = "complete"
    BY <1>0, <2>1, <2>4, AnswerChanged
  <2> QED BY <2>1, <2>2, <2>3, <2>5
<1>4. ASSUME NEW h
      PROVE  LET o == Touched(Update("stop", h, <<>>), m)
             IN  AnswerOf(o, g, k) /\ Final(o)
  <2>1. Touched(Update("stop", h, <<>>), m) = IF Pending(m) THEN [m EXCEPT !.status = "complete"] ELSE m
    BY UpdateIs DEF Touched
  <2>2. CASE Pending(m)
    <3>1. PICK o : o = Touched(Update("stop", h, <<>>), m)
      OBVIOUS
    <3>2. AnswerOf(o, g, k) /\ o.status = "complete"
      BY <1>0, <2>1, <2>2, <3>1, AnswerStatus
    <3> QED BY <3>1, <3>2 DEF Final
  <2>3. CASE ~Pending(m)
    BY <1>0, <2>1, <2>3 DEF AnswerOf, Final, Pending, MsgType, Statuses
  <2> QED BY <2>2, <2>3
<1> QED BY <1>1, <1>2, <1>3, <1>4

-----------------------------------------------------------------------------
(* What the updates that wait will make of the list that is shown. *)

LEMMA SetApplied ==
    ASSUME NEW ns, NEW ms, NEW g
    PROVE  Applied(<<SetTo(ns)>>, ms, g) = ns
<1>1. PICK u : u = SetTo(ns) /\ u.kind = "set" /\ u.data = ns
  BY UpdateIs DEF SetTo
<1>2. <<u>> = Append(<<>>, u)
  OBVIOUS
<1>3. PICK e \in Seq({}) : e = <<>>
  <2>1. <<>> \in Seq({})
    BY EmptySeq
  <2> QED BY <2>1
<1>4. Applied(Append(e, u), ms, g) = Apply(u, Applied(e, ms, g), g)
  BY AppliedAppend
<1>5. Apply(u, Applied(e, ms, g), g) = ns
  BY <1>1 DEF Apply
<1> QED BY <1>1, <1>2, <1>3, <1>4, <1>5

\* An answer: a message that updates of its generation touch.
IsAnswer(m) == m \in MsgType /\ m.from = "assistant"

\* One more update in the queue, of generation g, rendered under generation h.
LEMMA LeadsAppend ==
    ASSUME NEW S, NEW q \in Seq(S), NEW ms \in Seq(MsgType), ms # <<>>, NEW g, NEW u, OfGen(u, g),
           NEW m, IsAnswer(m), Touched(u, m) \in MsgType, NEW h,
           Applied(q, ms, h) = Put(ms, m)
    PROVE  Applied(Append(q, u), ms, h) = IF h = g THEN Put(ms, Touched(u, m)) ELSE Put(ms, m)
<1>1. Applied(Append(q, u), ms, h) = Apply(u, Put(ms, m), h)
  BY AppliedAppend
<1>2. /\ Apply(u, Put(ms, m), g) = Put(ms, Touched(u, m))
      /\ h # g => Apply(u, Put(ms, m), h) = Put(ms, m)
  BY ApplyPut DEF IsAnswer
<1> QED BY <1>1, <1>2

\* An update of another generation is lost, whatever it would do.
LEMMA LeadsLost ==
    ASSUME NEW S, NEW q \in Seq(S), NEW ms, NEW g, NEW u, OfGen(u, g), NEW h, h # g
    PROVE  Applied(Append(q, u), ms, h) = Applied(q, ms, h)
<1>1. Applied(Append(q, u), ms, h) = Apply(u, Applied(q, ms, h), h)
  BY AppliedAppend
<1> QED BY <1>1 DEF Apply, OfGen

\* The list that the next rendering shows ends with l, and the one that a stop in its
\* place would leave with b.
Tracks(g, l, b) ==
    /\ Applied(ui.queue, ui.messages, g) = Put(ui.messages, l)
    /\ Applied(ui.queue, ui.messages, g + 1) = Put(ui.messages, b)

\* The page and the disk after an event that queues updates.
SamePage ==
    /\ ui'.messages = ui.messages /\ ui'.busy = ui.busy /\ ui'.life = ui.life
    /\ ui'.mounted = ui.mounted

\* The page after an event: only the queue changes.
LEMMA QueuePage ==
    ASSUME Shaped, NEW q, ui' = [ui EXCEPT !.queue = q]
    PROVE  SamePage /\ ui'.queue = q
BY DEF Shaped, SamePage

\* An event that queues nothing.
LEMMA EnqueueNone ==
    ASSUME Shaped, Enqueue(<<>>)
    PROVE  SamePage /\ ui'.queue = ui.queue /\ disk' = disk
<1>1. PICK S : ui.queue \in Seq(S)
  BY DEF Shaped
<1>2. ui.queue \o <<>> = ui.queue
  BY <1>1, ConcatEmptySeq
<1>3. PICK q : q = ui.queue \o <<>>
  OBVIOUS
<1>4. ui' = [ui EXCEPT !.queue = q] /\ disk' = disk
  BY <1>3 DEF Enqueue
<1> QED BY <1>2, <1>3, <1>4, QueuePage

\* An event that queues one update of the present generation: a stop would lose it,
\* unless React evaluated it at once.
LEMMA EnqueueOne ==
    ASSUME Shaped, ui.messages \in Seq(MsgType), ui.messages # <<>>,
           NEW g \in Nat, chat.gen = g, NEW l, IsAnswer(l), NEW b, Tracks(g, l, b),
           NEW u, OfGen(u, g), NEW o, o = Touched(u, l), o \in MsgType, Enqueue(<<u>>)
    PROVE  /\ SamePage
           /\ \E c \in {b, o} : Tracks(g, o, c)'
           /\ disk' = disk \/ disk' = Persisted(Put(ui.messages, o))
<1>1. PICK S : ui.queue \in Seq(S)
  BY DEF Shaped
<1>2. g + 1 # g
  OBVIOUS
<1>3. CASE ui' = [ui EXCEPT !.queue = @ \o <<u>>] /\ UNCHANGED disk
  <2>1. PICK q : q = Append(ui.queue, u)
    OBVIOUS
  <2>2. ui.queue \o <<u>> = q
    <3>1. ui.queue \in Seq(S \cup {u}) /\ u \in S \cup {u}
      BY <1>1, SeqMonotonic
    <3> QED BY <2>1, <3>1, AppendIsConcat
  <2>3. SamePage /\ ui'.queue = q
    BY <1>3, <2>2, QueuePage
  <2>4. Applied(q, ui.messages, g) = Put(ui.messages, o)
    BY <1>1, <2>1, LeadsAppend DEF Tracks
  <2>5. Applied(q, ui.messages, g + 1) = Put(ui.messages, b)
    BY <1>1, <1>2, <2>1, LeadsLost DEF Tracks
  <2>6. Tracks(g, o, b)'
    BY <2>3, <2>4, <2>5 DEF Tracks, SamePage
  <2> QED BY <1>3, <2>3, <2>6
<1>4. ASSUME ui.queue = <<>>, NEW ms, ms = Apply(Head(<<u>>), ui.messages, chat.gen),
             ui' = [ui EXCEPT !.queue = <<SetTo(ms)>> \o Tail(<<u>>)], disk' = Persisted(ms)
      PROVE  SamePage /\ (\E c \in {b, o} : Tracks(g, o, c)') /\ disk' = Persisted(Put(ui.messages, o))
  <2>1. Head(<<u>>) = u /\ Tail(<<u>>) = <<>>
    OBVIOUS
  <2>2. ui.messages = Put(ui.messages, l)
    BY <1>4, AppliedEmpty DEF Tracks
  <2>3. ms = Put(ui.messages, o)
    BY <1>4, <2>1, <2>2, ApplyPut DEF IsAnswer
  <2>4. PICK q : q = <<SetTo(ms)>>
    OBVIOUS
  <2>5. <<SetTo(ms)>> \o Tail(<<u>>) = q
    BY <2>1, <2>4
  <2>6. SamePage /\ ui'.queue = q
    BY <1>4, <2>5, QueuePage
  <2>7. Tracks(g, o, o)'
    BY <2>3, <2>4, <2>6, SetApplied DEF Tracks, SamePage
  <2> QED BY <1>4, <2>3, <2>6, <2>7
<1> QED BY <1>3, <1>4 DEF Enqueue

\* An event that queues a flush and an end: at most the flush is evaluated at once.
LEMMA EnqueueTwo ==
    ASSUME Shaped, ui.messages \in Seq(MsgType), ui.messages # <<>>,
           NEW g \in Nat, chat.gen = g, NEW l, IsAnswer(l), NEW b, Tracks(g, l, b),
           NEW u, OfGen(u, g), NEW m, m = Touched(u, l), IsAnswer(m),
           NEW v, OfGen(v, g), NEW o, o = Touched(v, m), o \in MsgType, Enqueue(<<u, v>>)
    PROVE  /\ SamePage
           /\ \E c \in {b, m} : Tracks(g, o, c)'
           /\ disk' = disk \/ disk' = Persisted(Put(ui.messages, m))
<1>1. PICK S : ui.queue \in Seq(S)
  BY DEF Shaped
<1>2. g + 1 # g /\ m \in MsgType
  BY DEF IsAnswer
<1>3. CASE ui' = [ui EXCEPT !.queue = @ \o <<u, v>>] /\ UNCHANGED disk
  <2>a. PICK R : R = S \cup {u, v}
    OBVIOUS
  <2>0. ui.queue \in Seq(R) /\ u \in R /\ v \in R
    <3>1. S \subseteq R /\ u \in R /\ v \in R
      BY <2>a
    <3> QED BY <1>1, <3>1, SeqMonotonic
  <2>1. PICK p \in Seq(R) : p = Append(ui.queue, u)
    BY <2>0, AppendProperties
  <2>2. PICK q : q = Append(p, v)
    OBVIOUS
  <2>3. ui.queue \o <<u, v>> = q
    BY <2>0, <2>1, <2>2
  <2>4. SamePage /\ ui'.queue = q
    BY <1>3, <2>3, QueuePage
  <2>5. Applied(p, ui.messages, g) = Put(ui.messages, m)
    BY <1>1, <1>2, <2>1, LeadsAppend DEF Tracks
  <2>6. Applied(q, ui.messages, g) = Put(ui.messages, o)
    BY <2>2, <2>5, LeadsAppend
  <2>7. Applied(p, ui.messages, g + 1) = Put(ui.messages, b)
    BY <1>1, <1>2, <2>1, LeadsLost DEF Tracks
  <2>8. Applied(q, ui.messages, g + 1) = Put(ui.messages, b)
    BY <1>2, <2>2, <2>7, LeadsLost
  <2>9. Tracks(g, o, b)'
    BY <2>4, <2>6, <2>8 DEF Tracks, SamePage
  <2> QED BY <1>3, <2>4, <2>9
<1>4. ASSUME ui.queue = <<>>, NEW ms, ms = Apply(Head(<<u, v>>), ui.messages, chat.gen),
             ui' = [ui EXCEPT !.queue = <<SetTo(ms)>> \o Tail(<<u, v>>)], disk' = Persisted(ms)
      PROVE  SamePage /\ (\E c \in {b, m} : Tracks(g, o, c)') /\ disk' = Persisted(Put(ui.messages, m))
  <2>1. Head(<<u, v>>) = u /\ Tail(<<u, v>>) = <<v>>
    OBVIOUS
  <2>2. ui.messages = Put(ui.messages, l)
    BY <1>4, AppliedEmpty DEF Tracks
  <2>3. ms = Put(ui.messages, m)
    BY <1>2, <1>4, <2>1, <2>2, ApplyPut DEF IsAnswer
  <2>4. PICK s : s = SetTo(ms)
    OBVIOUS
  <2>a. PICK p \in Seq({s}) : p = <<s>>
    <3>1. <<s>> \in Seq({s})
      OBVIOUS
    <3> QED BY <3>1
  <2>5. PICK q : q = Append(p, v)
    OBVIOUS
  <2>6. <<SetTo(ms)>> \o Tail(<<u, v>>) = q
    BY <2>1, <2>4, <2>a, <2>5
  <2>7. SamePage /\ ui'.queue = q
    BY <1>4, <2>6, QueuePage
  <2>8. \A h : Applied(p, ui.messages, h) = Put(ui.messages, m)
    BY <2>3, <2>4, <2>a, SetApplied
  <2>9. Applied(q, ui.messages, g) = Put(ui.messages, o)
    BY <2>5, <2>8, LeadsAppend
  <2>10. Applied(q, ui.messages, g + 1) = Put(ui.messages, m)
    BY <1>2, <2>5, <2>8, LeadsLost
  <2>11. Tracks(g, o, m)'
    BY <2>7, <2>9, <2>10 DEF Tracks, SamePage
  <2> QED BY <1>4, <2>3, <2>7, <2>11
<1> QED BY <1>3, <1>4 DEF Enqueue

-----------------------------------------------------------------------------
(* Lists of messages. *)

\* An answer shows its first pieces, of those that its request has sent, or what
\* the user made of it.
Message(m, g, n) ==
    /\ m \in MsgType /\ m.of <= g
    /\ m.from = "user" <=> m.status = "none"
    /\ m.from = "assistant" =>
        m.text = EditedText \/ \E k \in Nat : k <= n[m.of].sent /\ Shows(m.text, m.of, 0, k)

\* Only the last message may still wait for its answer.
LastWaits(ms) == \A i \in DOMAIN ms : Pending(ms[i]) => i = Len(ms)
Settled(ms) == \A i \in DOMAIN ms : ~Pending(ms[i])

Listed(ms, g, n) ==
    /\ ms \in Seq(MsgType) /\ Unique(ms) /\ LastWaits(ms)
    /\ \A i \in DOMAIN ms : Message(ms[i], g, n)

\* An answer whose request came to its end shows all the pieces.
WholeMsg(m, n, life) ==
    m.from = "assistant" /\ n[m.of].whole = TRUE /\ m.of > life /\ m.status = "complete" =>
        m.text = EditedText \/ Shows(m.text, m.of, 0, n[m.of].sent)
WholeText(ms, n, life) == \A i \in DOMAIN ms : WholeMsg(ms[i], n, life)

\* An answer that was complete or failed is as it was, or edited.
Steady(ms, ns) ==
    \A i \in DOMAIN ms, j \in DOMAIN ns :
        Final(ms[i]) /\ Key(ms[i]) = Key(ns[j]) =>
            ns[j].status = ms[i].status /\ ns[j].text \in {ms[i].text, EditedText}

\* A key is the role and the generation.
LEMMA KeyIs == ASSUME NEW m, NEW o PROVE Key(m) = Key(o) <=> m.from = o.from /\ m.of = o.of
BY DEF Key

\* A list without messages.
LEMMA EmptyList ==
    ASSUME NEW g, NEW n, NEW life, NEW ms
    PROVE  /\ Listed(<<>>, g, n) /\ Settled(<<>>) /\ WholeText(<<>>, n, life)
           /\ Steady(ms, <<>>) /\ Steady(<<>>, ms)
<1>1. DOMAIN <<>> = {} /\ <<>> \in Seq(MsgType)
  OBVIOUS
<1> QED BY <1>1 DEF Listed, Settled, Unique, LastWaits, WholeText, Steady

\* The requests have sent more.
SentGrows(n, o) == \A h \in Gens : n[h].sent \in Nat /\ o[h].sent \in Nat /\ n[h].sent <= o[h].sent

\* A message stays one when requests have sent more and generations have passed.
LEMMA MessageGrows ==
    ASSUME NEW m, NEW g \in Nat, NEW n, Message(m, g, n), NEW h \in Nat, g <= h, NEW o, SentGrows(n, o)
    PROVE  Message(m, h, o)
<1>1. m \in MsgType /\ m.of \in Gens /\ m.of \in Nat /\ m.of <= h
  BY GensAreNat DEF Message, MsgType
<1>2. n[m.of].sent \in Nat /\ o[m.of].sent \in Nat /\ n[m.of].sent <= o[m.of].sent
  BY <1>1 DEF SentGrows
<1>3. \A k \in Nat : k <= n[m.of].sent => k <= o[m.of].sent
  BY <1>2
<1> QED BY <1>1, <1>3 DEF Message

\* So does a list.
LEMMA ListGrows ==
    ASSUME NEW ms, NEW g \in Nat, NEW n, Listed(ms, g, n), NEW h \in Nat, g <= h, NEW o, SentGrows(n, o)
    PROVE  Listed(ms, h, o)
<1>1. \A i \in DOMAIN ms : Message(ms[i], h, o)
  BY MessageGrows DEF Listed
<1> QED BY <1>1 DEF Listed

\* What is in the list, taken out or left out.
LEMMA ListPart ==
    ASSUME NEW ms, NEW g, NEW n, Listed(ms, g, n), Settled(ms),
           NEW ns \in Seq(MsgType), Unique(ns), Within(ns, ms), NEW life
    PROVE  /\ Listed(ns, g, n) /\ Settled(ns) /\ Steady(ms, ns)
           /\ WholeText(ms, n, life) => WholeText(ns, n, life)
<1>1. \A j \in DOMAIN ns : \E i \in DOMAIN ms : ns[j] = ms[i]
  BY DEF Within
<1>2. Settled(ns)
  BY <1>1 DEF Settled
<1>3. \A j \in DOMAIN ns : Message(ns[j], g, n)
  BY <1>1 DEF Listed
<1>4. Listed(ns, g, n)
  BY <1>2, <1>3 DEF Listed, Settled, LastWaits
<1>5. Steady(ms, ns)
  <2> SUFFICES ASSUME NEW i \in DOMAIN ms, NEW j \in DOMAIN ns, Key(ms[i]) = Key(ns[j])
               PROVE  ns[j] = ms[i]
    BY DEF Steady
  <2>1. PICK r \in DOMAIN ms : ns[j] = ms[r]
    BY <1>1
  <2>2. r = i
    BY <2>1 DEF Listed, Unique
  <2> QED BY <2>1, <2>2
<1>6. ASSUME WholeText(ms, n, life) PROVE WholeText(ns, n, life)
  BY <1>1, <1>6 DEF WholeText
<1> QED BY <1>2, <1>4, <1>5, <1>6

\* The first k messages.
LEMMA PrefixList ==
    ASSUME NEW ms \in Seq(MsgType), Unique(ms), NEW k \in 0..Len(ms)
    PROVE  LET ns == SubSeq(ms, 1, k)
           IN  ns \in Seq(MsgType) /\ Unique(ns) /\ Within(ns, ms)
<1>1. PICK ns : ns = SubSeq(ms, 1, k)
  OBVIOUS
<1>2. k \in Nat /\ Len(ms) \in Nat /\ DOMAIN ms = 1..Len(ms)
  BY LenProperties
<1>3. \A i \in 1..k : ms[i] \in MsgType
  BY <1>2, ElementOfSeq
<1>4. /\ ns \in Seq(MsgType) /\ Len(ns) = IF 1 <= k THEN k - 1 + 1 ELSE 0
      /\ \A i \in 1..(k - 1 + 1) : ns[i] = ms[1 + i - 1]
  BY <1>1, <1>2, <1>3, SubSeqProperties
<1>5. Len(ns) = k /\ k - 1 + 1 = k /\ \A i \in 1..k : 1 + i - 1 = i
  BY <1>2, <1>4
<1>6. DOMAIN ns = 1..k /\ (\A i \in 1..k : ns[i] = ms[i])
  BY <1>4, <1>5, LenProperties
<1>7. 1..k \subseteq DOMAIN ms
  BY <1>2
<1> QED BY <1>1, <1>4, <1>6, <1>7 DEF Unique, Within

\* A message with a key of its own is added.
Added(q, ms, m) ==
    /\ q # <<>> /\ Last(q) = m
    /\ \E k \in Nat : /\ DOMAIN ms = 1..k /\ DOMAIN q = 1..(k + 1) /\ q[k + 1] = m
                      /\ \A i \in 1..k : q[i] = ms[i]

\* The list stays one.
LEMMA ListAppend ==
    ASSUME NEW ms, NEW g, NEW n, Listed(ms, g, n), Settled(ms), NEW m, Message(m, g, n),
           \A i \in DOMAIN ms : Key(ms[i]) # Key(m), NEW q, q = Append(ms, m)
    PROVE  /\ Listed(q, g, n) /\ (~Pending(m) => Settled(q))
           /\ Added(q, ms, m)
<1>1. ms \in Seq(MsgType) /\ m \in MsgType
  BY DEF Listed, Message
<1>2. PICK k \in Nat : k = Len(ms) /\ DOMAIN ms = 1..k
  BY <1>1, LenProperties
<1>3. /\ q \in Seq(MsgType) /\ q # <<>> /\ Len(q) = k + 1 /\ q[k + 1] = m
      /\ \A i \in 1..k : q[i] = ms[i]
  BY <1>1, <1>2, AppendProperties
<1>4. DOMAIN q = 1..(k + 1) /\ k + 1 \in 1..(k + 1)
      /\ \A i \in 1..(k + 1) : i \in 1..k \/ i = k + 1
  BY <1>3, LenProperties
<1>5. Unique(q)
  <2> SUFFICES ASSUME NEW i \in 1..(k + 1), NEW j \in 1..(k + 1), Key(q[i]) = Key(q[j]) PROVE i = j
    BY <1>4 DEF Unique
  <2>1. CASE i \in 1..k /\ j \in 1..k
    BY <1>2, <1>3, <2>1 DEF Unique, Listed
  <2>2. CASE i = k + 1 /\ j \in 1..k
    BY <1>2, <1>3, <2>2
  <2>3. CASE j = k + 1 /\ i \in 1..k
    BY <1>2, <1>3, <2>3
  <2> QED BY <1>4, <2>1, <2>2, <2>3
<1>6. \A i \in 1..k : ~Pending(q[i])
  BY <1>2, <1>3 DEF Settled
<1>7. LastWaits(q) /\ (~Pending(m) => Settled(q))
  BY <1>3, <1>4, <1>6 DEF LastWaits, Settled
<1>8. \A i \in DOMAIN q : Message(q[i], g, n)
  BY <1>2, <1>3, <1>4 DEF Listed
<1> QED BY <1>2, <1>3, <1>4, <1>5, <1>7, <1>8 DEF Listed, Last, Added

\* The answer that waits at the end of the list is changed.
LEMMA ListPut ==
    ASSUME NEW ms, NEW g, NEW n, Listed(ms, g, n), ms # <<>>,
           NEW h, Last(ms).from = "assistant", Last(ms).of = h, Pending(Last(ms)),
           NEW k \in Nat, k <= n[h].sent, NEW m, AnswerOf(m, h, k), NEW q, q = Put(ms, m), NEW life
    PROVE  /\ Listed(q, g, n) /\ (Final(m) => Settled(q)) /\ Steady(ms, q)
           /\ WholeText(ms, n, life) /\ WholeMsg(m, n, life) => WholeText(q, n, life)
           /\ q # <<>> /\ Last(q) = m
<1>1. ms \in Seq(MsgType) /\ m \in MsgType
  BY DEF Listed, AnswerOf
<1>2. PICK e \in Nat : e = Len(ms) /\ DOMAIN ms = 1..e /\ e \in 1..e
  BY <1>1, LenProperties, EmptySeq
<1>3. /\ q \in Seq(MsgType) /\ Len(q) = e /\ q # <<>> /\ DOMAIN q = 1..e /\ q[e] = m /\ Last(q) = m
      /\ \A j \in 1..e : j # e => q[j] = ms[j]
  <2>1. /\ Put(ms, m) \in Seq(MsgType) /\ Len(Put(ms, m)) = Len(ms) /\ Put(ms, m) # <<>>
        /\ DOMAIN Put(ms, m) = 1..Len(ms) /\ Put(ms, m)[Len(ms)] = m /\ Last(Put(ms, m)) = m
        /\ \A j \in 1..Len(ms) : j # Len(ms) => Put(ms, m)[j] = ms[j]
    <3>1. \A r \in Seq(MsgType), o \in MsgType : r # <<>> =>
            /\ Put(r, o) \in Seq(MsgType) /\ Len(Put(r, o)) = Len(r) /\ Put(r, o) # <<>>
            /\ DOMAIN Put(r, o) = 1..Len(r) /\ Put(r, o)[Len(r)] = o /\ Last(Put(r, o)) = o
            /\ \A j \in 1..Len(r) : j # Len(r) => Put(r, o)[j] = r[j]
      BY PutIs
    <3> QED BY <1>1, <3>1
  <2> QED BY <1>2, <2>1
<1>4. Last(ms) = ms[e] /\ Message(ms[e], g, n)
  BY <1>2 DEF Last, Listed
<1>5. Key(m) = Key(ms[e]) /\ Pending(ms[e])
  BY <1>4, KeyIs DEF AnswerOf
<1>6. \A j \in 1..e : Key(q[j]) = Key(ms[j])
  BY <1>3, <1>5
<1>7. Unique(q)
  BY <1>2, <1>3, <1>6 DEF Listed, Unique
<1>8. \A j \in 1..e : j # e => ~Pending(q[j])
  BY <1>2, <1>3 DEF Listed, LastWaits
<1>9. LastWaits(q)
  BY <1>3, <1>8 DEF LastWaits
<1>10. Final(m) => Settled(q)
  BY <1>3, <1>8 DEF Final, Pending, Settled
<1>11. Message(m, g, n)
  BY <1>4 DEF Message, AnswerOf
<1>12. \A j \in DOMAIN q : Message(q[j], g, n)
  BY <1>2, <1>3, <1>11 DEF Listed
<1>13. Steady(ms, q)
  <2> SUFFICES ASSUME NEW i \in 1..e, NEW j \in 1..e, Final(ms[i]), Key(ms[i]) = Key(q[j])
               PROVE  q[j] = ms[i]
    BY <1>2, <1>3 DEF Steady
  <2>1. i = j
    BY <1>2, <1>6 DEF Listed, Unique
  <2>2. i # e
    BY <1>5 DEF Final, Pending
  <2> QED BY <1>3, <2>1, <2>2
<1>14. WholeText(ms, n, life) /\ WholeMsg(m, n, life) => WholeText(q, n, life)
  BY <1>2, <1>3 DEF WholeText
<1> QED BY <1>3, <1>7, <1>9, <1>10, <1>12, <1>13, <1>14 DEF Listed

\* The texts of whole answers do not change with the requests: no request of
\* theirs is left, or it is the one that the last message waits for.
LEMMA WholeStays ==
    ASSUME NEW ms, NEW g, NEW n, Listed(ms, g, n), NEW life, WholeText(ms, n, life), NEW o,
           \A h \in Gens : o[h].whole = TRUE => n[h].whole = TRUE /\ o[h].sent = n[h].sent
    PROVE  WholeText(ms, o, life)
<1> SUFFICES ASSUME NEW i \in DOMAIN ms PROVE WholeMsg(ms[i], o, life)
  BY DEF WholeText
<1>1. ms[i].of \in Gens
  BY DEF Listed, Message, MsgType
<1> QED BY <1>1 DEF WholeText, WholeMsg

\* While its last answer waits, what becomes of its request does not matter.
LEMMA WholeElsewhere ==
    ASSUME NEW ms, NEW g, NEW n, Listed(ms, g, n), NEW life, WholeText(ms, n, life), ms # <<>>,
           NEW h, Last(ms).from = "assistant", Last(ms).of = h, Pending(Last(ms)), NEW o,
           \A j \in Gens \ {h} : o[j].whole = n[j].whole /\ o[j].sent = n[j].sent
    PROVE  WholeText(ms, o, life)
<1> SUFFICES ASSUME NEW i \in DOMAIN ms, ms[i].from = "assistant", ms[i].status = "complete"
             PROVE  WholeMsg(ms[i], o, life)
  BY DEF WholeText, WholeMsg
<1>1. ms[i].of \in Gens
  BY DEF Listed, Message, MsgType
<1>2. Len(ms) \in DOMAIN ms
  BY LenProperties, EmptySeq DEF Listed
<1>3. ms[i].of # h
  <2> SUFFICES ASSUME ms[i].of = h PROVE FALSE
    OBVIOUS
  <2>1. Key(ms[i]) = Key(ms[Len(ms)])
    BY KeyIs DEF Last
  <2>2. i = Len(ms)
    BY <1>2, <2>1 DEF Listed, Unique
  <2> QED BY <2>2 DEF Pending, Last
<1> QED BY <1>1, <1>3 DEF WholeText, WholeMsg

\* applyEdit on an answer.
LEMMA ListEdit ==
    ASSUME NEW ms, NEW g, NEW n, Listed(ms, g, n), Settled(ms), NEW i \in DOMAIN ms,
           ms[i].from = "assistant", NEW q, q = [ms EXCEPT ![i].text = EditedText], NEW life
    PROVE  /\ Listed(q, g, n) /\ Settled(q) /\ Steady(ms, q)
           /\ WholeText(ms, n, life) => WholeText(q, n, life)
<1>1. ms \in Seq(MsgType) /\ DOMAIN ms = 1..Len(ms) /\ ms[i] \in MsgType /\ Message(ms[i], g, n)
  BY LenProperties DEF Listed, Message
<1>2. EditedText \in Text
  <2>1. <<0, 0>> \in Piece
    BY DEF Piece
  <2> QED BY <2>1 DEF Text, EditedText
<1>3. PICK e : e = [ms[i] EXCEPT !.text = EditedText]
  OBVIOUS
<1>4. /\ e \in MsgType /\ e.from = ms[i].from /\ e.of = ms[i].of /\ e.status = ms[i].status
      /\ e.text = EditedText
  BY <1>1, <1>2, <1>3 DEF MsgType
<1>5. q = [ms EXCEPT ![i] = e]
  BY <1>3
<1>6. q \in Seq(MsgType) /\ Len(q) = Len(ms) /\ \A j \in 1..Len(ms) : q[j] = IF j = i THEN e ELSE ms[j]
  BY <1>1, <1>4, <1>5, ExceptSeq
<1>7. DOMAIN q = DOMAIN ms
  BY <1>1, <1>6, LenProperties
<1>8. \A j \in DOMAIN ms : Key(q[j]) = Key(ms[j]) /\ q[j].status = ms[j].status
  BY <1>1, <1>4, <1>6, KeyIs
<1>9. Unique(q) /\ Settled(q)
  BY <1>7, <1>8, SMTT(30) DEF Unique, Settled, Pending, Listed
<1>10. LastWaits(q)
  BY <1>9 DEF LastWaits, Settled
<1>11. Message(e, g, n)
  BY <1>1, <1>4 DEF Message
<1>12. \A j \in DOMAIN q : Message(q[j], g, n)
  BY <1>1, <1>6, <1>7, <1>11 DEF Listed
<1>13. Steady(ms, q)
  <2> SUFFICES ASSUME NEW j \in DOMAIN ms, NEW k \in DOMAIN ms, Key(ms[j]) = Key(q[k])
               PROVE  q[k].status = ms[j].status /\ q[k].text \in {ms[j].text, EditedText}
    BY <1>7 DEF Steady
  <2>1. j = k
    BY <1>8 DEF Listed, Unique
  <2> QED BY <1>1, <1>4, <1>6, <1>8, <2>1
<1>14. WholeText(ms, n, life) => WholeText(q, n, life)
  BY <1>1, <1>4, <1>6, <1>7 DEF WholeText, WholeMsg
<1> QED BY <1>6, <1>9, <1>10, <1>12, <1>13, <1>14 DEF Listed

\* saveMessages keeps the last messages.
LEMMA ListTrimmed ==
    ASSUME NEW ms, NEW g, NEW n, Listed(ms, g, n)
    PROVE  Listed(Trimmed(ms), g, n)
<1>1. ms \in Seq(MsgType)
  BY DEF Listed
<1>2. PICK e \in Nat : e = Len(ms) /\ DOMAIN ms = 1..e
  BY <1>1, LenProperties
<1>3. PICK d \in Nat : d <= e /\ d + 1 = IF Len(ms) > MaxStored THEN Len(ms) - MaxStored + 1 ELSE 1
  <2>1. MaxStored \in Nat
    BY PlaygroundAssumption
  <2>2. CASE e > MaxStored
    <3>1. PICK d \in Nat : d = e - MaxStored
      BY <2>1, <2>2
    <3>2. d <= e /\ d + 1 = e - MaxStored + 1
      BY <2>1, <2>2, <3>1
    <3> QED BY <1>2, <2>2, <3>2
  <2>3. CASE ~(e > MaxStored)
    <3>1. 0 \in Nat /\ 0 <= e /\ 0 + 1 = 1
      OBVIOUS
    <3> QED BY <1>2, <2>3, <3>1
  <2> QED BY <2>2, <2>3
<1>4. PICK q : q = SubSeq(ms, d + 1, e) /\ q = Trimmed(ms)
  BY <1>2, <1>3 DEF Trimmed
<1>5. \A i \in (d + 1)..e : ms[i] \in MsgType
  BY <1>1, <1>2, ElementOfSeq
<1>6. PICK f \in Nat : f = e - d /\ e - (d + 1) + 1 = f /\ (d + 1 <= e <=> f # 0)
  BY <1>3
<1>7. /\ q \in Seq(MsgType) /\ Len(q) = IF d + 1 <= e THEN e - (d + 1) + 1 ELSE 0
      /\ \A i \in 1..(e - (d + 1) + 1) : q[i] = ms[d + 1 + i - 1]
  <2>1. d + 1 \in Int /\ e \in Int
    OBVIOUS
  <2> QED BY <1>4, <1>5, <2>1, SubSeqProperties
<1>8. \A i \in 1..f : d + 1 + i - 1 = d + i /\ d + i \in 1..e /\ (d + i = e => i = f)
  BY <1>6
<1>9. Len(q) = f /\ DOMAIN q = 1..f /\ \A i \in 1..f : q[i] = ms[d + i]
  BY <1>6, <1>7, <1>8, LenProperties
<1>10. Unique(q)
  <2> SUFFICES ASSUME NEW i \in 1..f, NEW j \in 1..f, Key(q[i]) = Key(q[j]) PROVE i = j
    BY <1>9 DEF Unique
  <2>1. d + i = d + j
    BY <1>2, <1>8, <1>9 DEF Listed, Unique
  <2> QED BY <2>1
<1>11. LastWaits(q)
  BY <1>2, <1>8, <1>9 DEF Listed, LastWaits
<1>12. \A i \in DOMAIN q : Message(q[i], g, n)
  BY <1>2, <1>8, <1>9 DEF Listed
<1> QED BY <1>4, <1>7, <1>10, <1>11, <1>12 DEF Listed

\* A message that still waits, when it gets a final status.
LEMMA MessageEnds ==
    ASSUME NEW m, NEW g, NEW n, Message(m, g, n), Pending(m), NEW s \in {"complete", "error"},
           NEW o, o = [m EXCEPT !.status = s]
    PROVE  Message(o, g, n) /\ Key(o) = Key(m) /\ ~Pending(o) /\ o.text = m.text
<1>1. m \in MsgType /\ s \in Statuses /\ m.status # "none"
  BY DEF Message, Statuses, Pending
<1>2. o \in MsgType /\ o.from = m.from /\ o.of = m.of /\ o.status = s /\ o.text = m.text
  BY <1>1, NewStatus
<1> QED BY <1>1, <1>2, KeyIs DEF Message, Pending

\* A list with the same keys, in which fewer messages wait.
LEMMA ListAlike ==
    ASSUME NEW ms, NEW g, NEW n, Listed(ms, g, n), NEW q, q \in Seq(MsgType), Len(q) = Len(ms),
           \A i \in DOMAIN ms : /\ Message(q[i], g, n) /\ Key(q[i]) = Key(ms[i])
                                /\ Pending(q[i]) => Pending(ms[i])
    PROVE  Listed(q, g, n)
<1>1. DOMAIN q = DOMAIN ms
  BY LenProperties DEF Listed
<1> QED BY <1>1 DEF Listed, Unique, LastWaits

\* normalizeMessages keeps the keys and lets no message wait that did not.
LEMMA ListNormalized ==
    ASSUME NEW ms, NEW g, NEW n, Listed(ms, g, n)
    PROVE  Listed(Normalized(ms), g, n)
<1>1. PICK q : q = Normalized(ms)
  OBVIOUS
<1>2. PICK e \in Nat : e = Len(ms) /\ DOMAIN ms = 1..e
  BY LenProperties DEF Listed
<1>3. DOMAIN q = 1..e
  BY <1>1, <1>2 DEF Normalized
<1>4. ASSUME NEW i \in 1..e
      PROVE  Message(q[i], g, n) /\ Key(q[i]) = Key(ms[i]) /\ (Pending(q[i]) => Pending(ms[i]))
  <2>1. q[i] = IF Pending(ms[i]) /\ ms[i].text # <<>> THEN [ms[i] EXCEPT !.status = "complete"] ELSE ms[i]
    BY <1>1, <1>2 DEF Normalized
  <2>2. Message(ms[i], g, n)
    BY <1>2 DEF Listed
  <2>3. CASE Pending(ms[i]) /\ ms[i].text # <<>>
    BY <2>1, <2>2, <2>3, MessageEnds
  <2>4. CASE ~(Pending(ms[i]) /\ ms[i].text # <<>>)
    BY <2>1, <2>2, <2>4
  <2> QED BY <2>3, <2>4
<1>5. q = [i \in 1..e |-> q[i]]
  BY <1>1, <1>2 DEF Normalized
<1>6. q \in [1..e -> MsgType]
  BY <1>4, <1>5 DEF Message
<1>7. q \in Seq(MsgType)
  BY <1>6, SeqDef
<1>8. Len(q) = e
  BY <1>3, <1>7, LenProperties
<1> QED BY <1>1, <1>2, <1>4, <1>7, <1>8, ListAlike

\* sanitizeMessagesOnLoad leaves no message that waits.
LEMMA ListSanitized ==
    ASSUME NEW ms, NEW g, NEW n, Listed(ms, g, n)
    PROVE  Listed(Sanitized(ms), g, n) /\ Settled(Sanitized(ms))
<1>1. PICK waiting : waiting = {i \in DOMAIN ms : Pending(ms[i])}
  OBVIOUS
<1>2. PICK last : last = CHOOSE i \in waiting : \A j \in waiting : j <= i
  OBVIOUS
<1>3. Sanitized(ms) = IF waiting = {} THEN ms ELSE [ms EXCEPT ![last].status = "error"]
  BY <1>1, <1>2 DEF Sanitized
<1>4. CASE waiting = {}
  BY <1>1, <1>3, <1>4 DEF Settled
<1>5. CASE waiting # {}
  <2>0. ms \in Seq(MsgType)
    BY DEF Listed
  <2>1. PICK e \in Nat : e = Len(ms) /\ DOMAIN ms = 1..e
    BY <2>0, LenProperties
  <2>2. \A i \in waiting : i = e
    BY <1>1, <2>1 DEF Listed, LastWaits
  <2>3. e \in waiting /\ e <= e /\ waiting = {e}
    BY <1>5, <2>2
  <2>4. last = e
    BY <1>2, <2>3
  <2>5. e \in DOMAIN ms /\ Pending(ms[e]) /\ Message(ms[e], g, n)
    BY <1>1, <2>3 DEF Listed
  <2>6. PICK o : o = [ms[e] EXCEPT !.status = "error"]
    OBVIOUS
  <2>7. Message(o, g, n) /\ Key(o) = Key(ms[e]) /\ ~Pending(o)
    BY <2>5, <2>6, MessageEnds
  <2>8. PICK q : q = [ms EXCEPT ![e] = o] /\ q = Sanitized(ms)
    BY <1>3, <1>5, <2>4, <2>6
  <2>9. o \in MsgType
    BY <2>7 DEF Message
  <2>10. q \in Seq(MsgType) /\ Len(q) = e /\ \A j \in 1..e : q[j] = IF j = e THEN o ELSE ms[j]
    BY <2>0, <2>1, <2>5, <2>8, <2>9, ExceptSeq
  <2>11. \A j \in 1..e : j # e => ~Pending(ms[j])
    BY <1>1, <2>1, <2>2
  <2>12. \A j \in DOMAIN ms : /\ Message(q[j], g, n) /\ Key(q[j]) = Key(ms[j])
                              /\ ~Pending(q[j])
    BY <2>1, <2>7, <2>10, <2>11 DEF Listed
  <2>13. Listed(q, g, n)
    BY <2>1, <2>10, <2>12, ListAlike
  <2>14. Settled(q)
    BY <2>1, <2>10, <2>12, LenProperties DEF Settled
  <2> QED BY <2>8, <2>13, <2>14
<1> QED BY <1>4, <1>5

\* Answers of generations of an earlier page are not asked to be whole.
LEMMA WholeBefore ==
    ASSUME NEW ms, NEW g \in Nat, NEW n, Listed(ms, g, n)
    PROVE  WholeText(ms, n, g)
<1> SUFFICES ASSUME NEW i \in DOMAIN ms PROVE ~(ms[i].of > g)
  BY DEF WholeText, WholeMsg
<1>1. ms[i].of \in Gens /\ ms[i].of <= g
  BY DEF Listed, Message, MsgType
<1> QED BY <1>1, GensAreNat

-----------------------------------------------------------------------------
(* The conversation: its inductive invariant, for a user who neither sends
   before the messages are loaded nor keeps an editor open. *)

PageTypes ==
    ui.busy \in BOOLEAN /\ ui.life \in Nat /\ chat.pend \in [gen : Nat, text : Text]

\* What the flags of the chat say.
Asked ==
    /\ ctl.streaming = TRUE => chat.requesting = TRUE
    /\ chat.timer \in {None, chat.gen}
    /\ chat.requesting = TRUE => chat.pend.gen = chat.gen /\ net[chat.gen].whole = FALSE
    /\ chat.requesting = FALSE => chat.pend.text = <<>> /\ chat.timer = None

\* A request of the present generation is awaited, later ones are not sent, and one
\* without a stream has sent nothing while it is open.
Requests ==
    \A g \in Gens :
        /\ g = chat.gen /\ net[g].at \in {"headers", "open"} => chat.requesting = TRUE
        /\ g > chat.gen => net[g].at = "none" /\ net[g].sent = 0 /\ net[g].whole = FALSE
        /\ net[g].at = "open" /\ net[g].kind = "plain" =>
            net[g].sent = 0 /\ (g = chat.gen => chat.timer = None /\ ctl.source = None)

\* Before the messages are loaded there are none.
NotLoaded == disk.loaded = FALSE => ui.messages = <<>> /\ ui.busy = FALSE /\ chat.gen = ui.life

Flags == PageTypes /\ Asked /\ Requests /\ NotLoaded

\* The three lists: shown, last handed to persistMessages, stored.
Lists ==
    /\ Listed(ui.messages, chat.gen, net)
    /\ Listed(disk.latest, chat.gen, net)
    /\ Listed(disk.stored, chat.gen, net)
    /\ WholeText(ui.messages, net, ui.life)

\* A page that shows no generation has nothing to render and no message that waits.
Resting ==
    ui.busy = FALSE => ui.queue = <<>> /\ chat.requesting = FALSE /\ Settled(ui.messages)

\* The text that waits for the flush is what an answer with k places misses of those
\* that were sent, or, from a provider that resends it, all of them.
Awaits(k) ==
    \/ chat.pend.text = <<>> /\ k = net[chat.gen].sent
    \/ \E a \in {0, k} : /\ a < net[chat.gen].sent /\ net[chat.gen].sent <= MaxLetters
                         /\ chat.pend.text # <<>>
                         /\ Shows(chat.pend.text, chat.gen, a, net[chat.gen].sent)
                         /\ net[chat.gen].kind = "delta" => a = k
                         /\ net[chat.gen].kind # "delta" /\ net[chat.gen].at # "over" => a = 0

\* The answer as the next rendering shows it, and as a stop in its place leaves it.
Ahead(l) ==
    \E k \in Nat :
        /\ k <= net[chat.gen].sent /\ AnswerOf(l, chat.gen, k)
        /\ chat.requesting = TRUE => Pending(l) /\ Awaits(k)
        /\ chat.requesting = FALSE =>
            Final(l) /\ (net[chat.gen].whole = TRUE /\ l.status = "complete" => k = net[chat.gen].sent)
Behind(b) == \E k \in Nat : k <= net[chat.gen].sent /\ AnswerOf(b, chat.gen, k)

\* A page that shows a generation shows its answer last, waiting.
Working ==
    ui.busy = TRUE =>
        /\ disk.loaded = TRUE /\ chat.gen \in Gens /\ ui.messages # <<>>
        /\ Behind(Last(ui.messages)) /\ Pending(Last(ui.messages))
        /\ \E l, b : Tracks(chat.gen, l, b) /\ Ahead(l) /\ Behind(b)

Conversation == Flags /\ Lists /\ Resting /\ Working

\* A list that stays is steady.
LEMMA SteadySame == ASSUME NEW ms, Unique(ms) PROVE Steady(ms, ms)
BY DEF Steady, Unique

\* The generation is a number.
LEMMA GenIsNat == ASSUME Inv PROVE chat.gen \in Nat /\ chat.gen \in 0..MaxGen
BY Bounds DEF Inv, Typed, ChatShape

\* The pieces that were sent are a number.
LEMMA SentIsNat == ASSUME Inv, NEW g \in Gens PROVE net[g].sent \in Nat
BY DEF Inv, Typed, NetType

\* A page that was not loaded yet.
LEMMA ConversationInit == Init => Conversation
<1> SUFFICES ASSUME Init PROVE Conversation
  OBVIOUS
<1>1. /\ ui.messages = <<>> /\ ui.queue = <<>> /\ ui.busy = FALSE /\ ui.life = 0
      /\ disk.latest = <<>> /\ disk.stored = <<>> /\ disk.loaded = FALSE
  BY DEF Init, FreshPage, FreshDisk
<1>2. /\ chat.gen = 0 /\ chat.requesting = FALSE /\ chat.timer = None
      /\ ctl.streaming = FALSE
  BY DEF Init, FreshChat, FreshCtl, None
<1>3. \A g \in Gens : net[g].at = "none" /\ net[g].sent = 0 /\ net[g].whole = FALSE
  BY DEF Init, Unsent
<1>4. Lists
  BY <1>1, EmptyList DEF Lists
<1>5. chat.pend \in [gen : Nat, text : Text] /\ chat.pend.text = <<>>
  <2>1. <<>> \in Text
    BY NoPieces
  <2>2. chat.pend = [gen |-> 0, text |-> <<>>]
    BY DEF Init, FreshChat, None
  <2> QED BY <2>1, <2>2
<1>6. PageTypes
  <2>1. ui.busy \in BOOLEAN
    BY <1>1
  <2>2. ui.life \in Nat
    BY <1>1
  <2> QED BY <2>1, <2>2, <1>5 DEF PageTypes
<1>7. Asked
  BY <1>2, <1>5 DEF Asked
<1>8. Requests /\ NotLoaded
  BY <1>1, <1>2, <1>3 DEF Requests, NotLoaded
<1>9. Resting /\ Working
  BY <1>1, <1>2, EmptyList DEF Resting, Working
<1> QED BY <1>4, <1>6, <1>7, <1>8, <1>9 DEF Conversation, Flags

\* The properties.
LEMMA ConversationIsEnough ==
    ASSUME Inv, Conversation
    PROVE  TextExact /\ QuietIsFinal
<1>1. QuietIsFinal
  BY DEF Conversation, Flags, PageTypes, Resting, Settled, QuietIsFinal
<1>2. TextExact
  <2> SUFFICES ASSUME NEW i \in DOMAIN ui.messages, NEW m, m = ui.messages[i],
                      m.from = "assistant", m.text # EditedText
               PROVE  /\ \A j \in DOMAIN m.text :
                           m.text[j][1] = m.of /\ m.text[j][2] \in 1..net[m.of].sent
                      /\ Unrepeated(m.of) =>
                           \E k \in 0..net[m.of].sent :
                              m.text = Slice(m.of, 0, k) /\ (Whole(m) => k = net[m.of].sent)
    BY DEF TextExact
  <2>1. m \in MsgType /\ Message(m, chat.gen, net) /\ WholeMsg(m, net, ui.life)
    BY DEF Conversation, Lists, Listed, WholeText, Message
  <2>2. m.of \in Gens /\ m.of \in Nat /\ net[m.of].sent \in Nat /\ net[m.of].whole \in BOOLEAN
    <3>1. m.of \in Gens
      BY <2>1 DEF MsgType
    <3> QED BY <3>1, GensAreNat DEF Inv, Typed, NetType
  <2>3. PICK k \in Nat : k <= net[m.of].sent /\ Shows(m.text, m.of, 0, k) /\ (Whole(m) => k = net[m.of].sent)
    <3>1. CASE Whole(m)
      <4>1. Shows(m.text, m.of, 0, net[m.of].sent)
        BY <2>1, <2>2, <3>1 DEF WholeMsg, Whole
      <4> QED BY <2>2, <4>1
    <3>2. CASE ~Whole(m)
      BY <2>1, <3>2 DEF Message
    <3> QED BY <3>1, <3>2
  <2>4. k \in 0..net[m.of].sent
    BY <2>2, <2>3
  <2>5. ASSUME NEW j \in DOMAIN m.text PROVE m.text[j][1] = m.of /\ m.text[j][2] \in 1..net[m.of].sent
    <3>1. Own(m.text, m.of, net[m.of].sent)
      BY <2>2, <2>3, OwnGrows DEF Shows
    <3>2. m.text[j] \in Places(m.of, net[m.of].sent)
      BY <3>1, LenProperties, ElementOfSeq DEF Own
    <3> QED BY <3>2 DEF Places
  <2> QED BY <2>3, <2>4, <2>5 DEF Shows
<1> QED BY <1>1, <1>2

-----------------------------------------------------------------------------
(* The steps of a request. *)

\* What is proved of every step.
Kept == Conversation' /\ Steady(ui.messages, ui'.messages)

\* A step of a request that the page does not see.
Unseen(h) ==
    /\ net'[h].sent = net[h].sent /\ net'[h].whole = net[h].whole
    /\ net'[h].at \in {"headers", "open"} => net[h].at \in {"headers", "open"}
    /\ net[h].at = "none" => net'[h].at = "none"
    /\ net'[h].at = "open" /\ net'[h].kind = "plain" => net[h].at = "open" /\ net[h].kind = "plain"
    /\ net'[h].kind = "delta" => net[h].kind = "delta"
    /\ net'[h].kind # "delta" /\ net'[h].at # "over" => net[h].kind # "delta" /\ net[h].at # "over"

\* The conversation is as it was.
LEMMA UnseenStep ==
    ASSUME Inv, Inv', Conversation, UNCHANGED <<ui, chat, disk>>, \A h \in Gens : Unseen(h),
           ctl'.streaming = TRUE => chat.requesting = TRUE,
           ctl' = ctl \/ \E h \in Gens : h = chat.gen /\ net'[h].kind # "plain"
    PROVE  Kept
<1>0. Listed(ui.messages, chat.gen, net) /\ chat.gen \in Nat
  BY GenIsNat DEF Conversation, Lists
<1>1. SentGrows(net, net')
  BY SentIsNat DEF SentGrows, Unseen, Inv, Typed, NetType
<1>2. \A ms : Listed(ms, chat.gen, net) => Listed(ms, chat.gen, net')
  BY <1>0, <1>1, ListGrows
<1>3. WholeText(ui.messages, net', ui.life)
  <2>1. WholeText(ui.messages, net, ui.life)
    BY DEF Conversation, Lists
  <2>2. \A h \in Gens : net'[h].whole = TRUE => net[h].whole = TRUE /\ net'[h].sent = net[h].sent
    BY DEF Unseen
  <2> QED BY <1>0, <2>1, <2>2, WholeStays, ZenonT(60)
<1>4. Lists'
  BY <1>2, <1>3 DEF Conversation, Lists
<1>5. PageTypes' /\ NotLoaded'
  BY DEF Conversation, Flags, PageTypes, NotLoaded
<1>6. chat.requesting = TRUE => chat.gen \in Gens
  BY DEF Inv, Waiting
<1>7. Asked'
  BY <1>6 DEF Conversation, Flags, Asked, Unseen
<1>8. Requests'
  BY DEF Conversation, Flags, Requests, Unseen
<1>9. Resting'
  BY DEF Conversation, Resting
<1>10. Working'
  <2> SUFFICES ASSUME ui.busy = TRUE
               PROVE  /\ Behind(Last(ui.messages))'
                      /\ \E l, b : Tracks(chat.gen, l, b)' /\ Ahead(l)' /\ Behind(b)'
    BY DEF Conversation, Working
  <2>1. chat.gen \in Gens /\ Behind(Last(ui.messages))
    BY DEF Conversation, Working
  <2>2. PICK l, b : Tracks(chat.gen, l, b) /\ Ahead(l) /\ Behind(b)
    BY DEF Conversation, Working
  <2>3. \A m : Behind(m) => Behind(m)'
    BY <2>1 DEF Behind, Unseen
  <2>4. \A k \in Nat : Awaits(k) => Awaits(k)'
    BY <2>1 DEF Awaits, Unseen
  <2>5. Ahead(l)'
    BY <2>1, <2>2, <2>4 DEF Ahead, Unseen
  <2>6. Tracks(chat.gen, l, b)'
    BY <2>2 DEF Tracks
  <2> QED BY <2>1, <2>2, <2>3, <2>5, <2>6
<1>11. Steady(ui.messages, ui'.messages)
  BY <1>0, SteadySame DEF Listed
<1> QED BY <1>4, <1>5, <1>7, <1>8, <1>9, <1>10, <1>11 DEF Kept, Conversation, Flags

\* The fields of a request that is over.
LEMMA OverIs ==
    ASSUME Inv, NEW g \in Gens
    PROVE  /\ Over(g)[g].at = "over" /\ Over(g)[g].kind = "none"
           /\ Over(g)[g].sent = net[g].sent /\ Over(g)[g].whole = net[g].whole
           /\ \A h \in Gens \ {g} : Over(g)[h] = net[h]
<1>1. net \in [Gens -> NetType] /\ net[g] \in NetType
  BY DEF Inv, Typed
<1>2. PICK o : o = [net[g] EXCEPT !.at = "over", !.kind = "none", !.closed = TRUE]
  OBVIOUS
<1>3. o.at = "over" /\ o.kind = "none" /\ o.sent = net[g].sent /\ o.whole = net[g].whole
  BY <1>1, <1>2 DEF NetType
<1>4. Over(g) = [net EXCEPT ![g] = o]
  BY <1>1, <1>2 DEF Over
<1> QED BY <1>1, <1>3, <1>4

\* Late events, a cut connection, headers and answers that come too late.
LEMMA UnseenKept ==
    ASSUME Inv, Inv', Conversation, NEW g \in Gens,
           HeadersStale(g) \/ LateEvent(g) \/ Cut(g) \/ PlainIgnored(g)
    PROVE  Kept
<1>1. UNCHANGED <<ui, chat, ctl, disk>> /\ net' = Over(g) /\ net[g].at \in {"headers", "open"}
  BY DEF HeadersStale, LateEvent, Cut, PlainIgnored, AtHeaders, Streaming, PlainWaiting
<1>2. \A h \in Gens : Unseen(h)
  BY <1>1, OverIs DEF Unseen
<1>3. ctl'.streaming = TRUE => chat.requesting = TRUE
  BY <1>1 DEF Conversation, Flags, Asked
<1> QED BY <1>1, <1>2, <1>3, UnseenStep

\* The headers arrive: the source is active.
LEMMA ReadyKept ==
    ASSUME Inv, Inv', Conversation, NEW g \in Gens, HeadersReady(g)
    PROVE  Kept
<1>1. /\ UNCHANGED <<ui, chat, disk>> /\ net[g].at = "headers" /\ net[g].sgen = ctl.gen
      /\ net \in [Gens -> NetType]
  BY DEF HeadersReady, AtHeaders, HeadersCurrent, Inv, Typed
<1>2. g = chat.gen /\ net[g].kind # "plain"
  BY <1>1 DEF Inv, Together, Held
<1>3. PICK o : o = [net[g] EXCEPT !.at = "open"]
  OBVIOUS
<1>4. o.at = "open" /\ o.kind = net[g].kind /\ o.sent = net[g].sent /\ o.whole = net[g].whole
  BY <1>1, <1>3 DEF NetType
<1>5. net' = [net EXCEPT ![g] = o]
  BY <1>3 DEF HeadersReady
<1>6. net'[g] = o /\ \A h \in Gens \ {g} : net'[h] = net[h]
  BY <1>1, <1>5
<1>7. \A h \in Gens : Unseen(h)
  BY <1>1, <1>2, <1>4, <1>6 DEF Unseen
<1>8. chat.requesting = TRUE
  BY <1>1, <1>2 DEF Conversation, Flags, Requests
<1> QED BY <1>1, <1>2, <1>4, <1>6, <1>7, <1>8, UnseenStep

\* A page that waits for an answer shows a generation.
LEMMA AskedIsBusy ==
    ASSUME Inv, Conversation, chat.requesting = TRUE
    PROVE  /\ ui.busy = TRUE /\ disk.loaded = TRUE /\ chat.gen \in Gens /\ ui.messages # <<>>
           /\ Behind(Last(ui.messages)) /\ Pending(Last(ui.messages))
           /\ Last(ui.messages).from = "assistant" /\ Last(ui.messages).of = chat.gen
           /\ chat.pend.gen = chat.gen /\ net[chat.gen].whole = FALSE
           /\ \E l, b : /\ Tracks(chat.gen, l, b) /\ Behind(b)
                        /\ \E k \in Nat : /\ k <= net[chat.gen].sent /\ AnswerOf(l, chat.gen, k)
                                          /\ Pending(l) /\ Awaits(k)
<1>1. ui.busy = TRUE
  BY DEF Conversation, Flags, PageTypes, Resting
<1>2. /\ disk.loaded = TRUE /\ chat.gen \in Gens /\ ui.messages # <<>>
      /\ Behind(Last(ui.messages)) /\ Pending(Last(ui.messages))
      /\ \E l, b : Tracks(chat.gen, l, b) /\ Ahead(l) /\ Behind(b)
  BY <1>1 DEF Conversation, Working
<1>3. Last(ui.messages).from = "assistant" /\ Last(ui.messages).of = chat.gen
  BY <1>2 DEF Behind, AnswerOf
<1>4. chat.pend.gen = chat.gen /\ net[chat.gen].whole = FALSE
  BY DEF Conversation, Flags, Asked
<1>5. PICK l, b : Tracks(chat.gen, l, b) /\ Ahead(l) /\ Behind(b)
  BY <1>2
<1>6. \E k \in Nat : k <= net[chat.gen].sent /\ AnswerOf(l, chat.gen, k) /\ Pending(l) /\ Awaits(k)
  BY <1>5 DEF Ahead
<1> QED BY <1>1, <1>2, <1>3, <1>4, <1>5, <1>6

\* The text t is what an answer with k places misses of s, or all of them.
Lags(t, kind, g, k, s) ==
    \E a \in {0, k} : /\ a < s /\ s <= MaxLetters /\ t # <<>> /\ Shows(t, g, a, s)
                      /\ (kind = "delta" => a = k) /\ (kind # "delta" => a = 0)

\* handleStreamUpdate keeps what the answer misses.
LEMMA ChunkText ==
    ASSUME NEW g \in Nat, NEW s \in Nat, NEW n \in Nat, s < n, n <= MaxLetters, NEW k \in Nat, k <= s,
           NEW t, NEW kind, NEW c,
           c = Slice(g, IF kind = "delta" THEN s ELSE 0, n),
           (t = <<>> /\ k = s) \/ Lags(t, kind, g, k, s)
    PROVE  Merged(t, c) \in Text /\ Lags(Merged(t, c), kind, g, k, n)
<1>1. PICK b \in {0, k} : b <= s /\ (kind = "delta" => b = k) /\ (kind # "delta" => b = 0)
  OBVIOUS
<1>2. b \in Nat /\ b < n
  BY <1>1
<1>3. PICK v : v = Merged(t, c)
  OBVIOUS
<1>4. Shows(v, g, b, n) /\ v # <<>>
  <2>1. CASE kind = "delta"
    <3>1. c = Slice(g, s, n) /\ b = k
      BY <1>1, <2>1
    <3>2. Shows(t, g, k, s)
      <4>1. CASE t = <<>> /\ k = s
        BY <4>1, ShowsNothing
      <4>2. CASE Lags(t, kind, g, k, s)
        BY <2>1, <4>2 DEF Lags
      <4> QED BY <4>1, <4>2
    <3> QED BY <1>3, <3>1, <3>2, MergedDelta
  <2>2. CASE kind # "delta"
    <3>1. c = Slice(g, 0, n) /\ b = 0
      BY <1>1, <2>2
    <3>2. Shows(t, g, 0, s) \/ t = <<>>
      BY <2>2 DEF Lags
    <3> QED BY <1>3, <3>1, <3>2, MergedSnapshot
  <2> QED BY <2>1, <2>2
<1>5. v \in Text
  BY <1>4 DEF Shows, Own
<1>6. Lags(v, kind, g, k, n)
  BY <1>1, <1>2, <1>4 DEF Lags
<1> QED BY <1>3, <1>5, <1>6

\* handleStreamUpdate: the chunk joins the text that waits for the flush.
LEMMA ChunkKept ==
    ASSUME Inv, Inv', Conversation, NEW g \in Gens, Chunk(g)
    PROVE  Kept
<1>1. /\ UNCHANGED <<ui, ctl, disk>> /\ net[g].at = "open" /\ net[g].kind # "plain" /\ ctl.source = g
      /\ net \in [Gens -> NetType] /\ ChatShape(chat) /\ g \in Nat /\ g # None
  BY GensAreNat, Bounds DEF Chunk, Streaming, IsCurrent, Inv, Typed, Gens, None
<1>2. g = chat.gen
  BY <1>1 DEF Inv, Source
<1>3. chat.requesting = TRUE
  BY <1>1, <1>2 DEF Conversation, Flags, Requests
<1>4. /\ ui.busy = TRUE /\ disk.loaded = TRUE /\ ui.messages # <<>>
      /\ Behind(Last(ui.messages)) /\ Pending(Last(ui.messages))
      /\ Last(ui.messages).from = "assistant" /\ Last(ui.messages).of = g
      /\ chat.pend.gen = g /\ net[g].whole = FALSE
  BY <1>2, <1>3, AskedIsBusy
<1>5. PICK l, b : /\ Tracks(g, l, b) /\ Behind(b)
                  /\ \E k \in Nat : /\ k <= net[g].sent /\ AnswerOf(l, g, k)
                                    /\ Pending(l) /\ Awaits(k)
  BY <1>2, <1>3, AskedIsBusy
<1>6. PICK k \in Nat : k <= net[g].sent /\ AnswerOf(l, g, k) /\ Pending(l) /\ Awaits(k)
  BY <1>5
<1>7. PICK s \in Nat : s = net[g].sent
  BY SentIsNat
<1>c. PICK n \in (s + 1)..MaxLetters :
        net' = [net EXCEPT ![g].sent = n] /\ chat' = StreamUpdate(g, Payload(g, s, n))
  BY <1>7 DEF Chunk
<1>d. n \in Nat /\ s < n /\ s <= n /\ n <= MaxLetters
  BY Bounds
<1>8. PICK o : o = [net[g] EXCEPT !.sent = n]
  OBVIOUS
<1>9. o.sent = n /\ o.at = net[g].at /\ o.kind = net[g].kind /\ o.whole = net[g].whole
  BY <1>1, <1>8 DEF NetType
<1>10. net' = [net EXCEPT ![g] = o]
  BY <1>8, <1>c
<1>11. net'[g] = o /\ \A h \in Gens \ {g} : net'[h] = net[h]
  BY <1>1, <1>10
<1>12. PICK c : c = Payload(g, s, n) /\ c = Slice(g, IF net[g].kind = "delta" THEN s ELSE 0, n)
  BY DEF Payload
<1>13. PICK t : t = Merged(chat.pend.text, c)
  OBVIOUS
<1>14. t \in Text /\ Lags(t, net[g].kind, g, k, n)
  <2>1. (chat.pend.text = <<>> /\ k = s) \/ Lags(chat.pend.text, net[g].kind, g, k, s)
    BY <1>1, <1>2, <1>6, <1>7 DEF Awaits, Lags
  <2>2. k <= s
    BY <1>6, <1>7
  <2> QED BY <1>1, <1>12, <1>13, <1>d, <2>1, <2>2, ChunkText
<1>a. chat.pend \in [gen : Nat, text : Text]
  BY DEF Conversation, Flags, PageTypes
<1>b. PICK p : p = [chat.pend EXCEPT !.text = t]
  OBVIOUS
<1>15. p \in [gen : Nat, text : Text] /\ p.text = t /\ p.gen = g
  BY <1>a, <1>b, <1>4, <1>14
<1>16. chat' = [chat EXCEPT !.pend = p, !.timer = g]
  <2>1. chat' = StreamUpdate(g, c)
    BY <1>12, <1>c
  <2>2. chat' = [chat EXCEPT !.pend.text = Merged(@, c), !.timer = IF @ = None THEN g ELSE @]
    BY <1>2, <1>4, <2>1 DEF StreamUpdate
  <2>3. chat.timer \in {None, g}
    BY <1>2 DEF Conversation, Flags, Asked
  <2> QED BY <1>13, <1>b, <2>2, <2>3 DEF ChatShape
<1>17. chat'.gen = g /\ chat'.requesting = TRUE /\ chat'.pend = p /\ chat'.timer = g
  BY <1>1, <1>2, <1>3, <1>16 DEF ChatShape
<1>18. Listed(ui.messages, g, net) /\ Listed(disk.latest, g, net) /\ Listed(disk.stored, g, net)
       /\ WholeText(ui.messages, net, ui.life)
  BY <1>2 DEF Conversation, Lists
<1>19. SentGrows(net, net')
  BY <1>7, <1>9, <1>11, <1>d, SentIsNat DEF SentGrows
<1>20. \A ms : Listed(ms, g, net) => Listed(ms, g, net')
  BY <1>1, <1>19, ListGrows
<1>21. WholeText(ui.messages, net', ui.life)
  <2>1. \A h \in Gens : net'[h].whole = TRUE => net[h].whole = TRUE /\ net'[h].sent = net[h].sent
    BY <1>4, <1>9, <1>11
  <2> QED BY <1>18, <2>1, WholeStays
<1>22. Lists'
  BY <1>1, <1>17, <1>18, <1>20, <1>21 DEF Lists
<1>23. PageTypes'
  BY <1>1, <1>15, <1>17 DEF Conversation, Flags, PageTypes
<1>24. NotLoaded'
  BY <1>1, <1>4 DEF NotLoaded
<1>25. Asked'
  BY <1>4, <1>9, <1>11, <1>15, <1>17 DEF Asked
<1>26. Requests'
  <2>1. Requests
    BY DEF Conversation, Flags
  <2>2. ~(g > g)
    BY <1>1
  <2> QED BY <1>1, <1>2, <1>9, <1>11, <1>17, <2>1, <2>2 DEF Requests
<1>27. Resting'
  BY <1>1, <1>4 DEF Resting
<1>28. \A m : Behind(m) => Behind(m)'
  <2>1. net[chat.gen].sent = s /\ net'[chat'.gen].sent = n /\ chat.gen = g /\ chat'.gen = g
    BY <1>2, <1>7, <1>9, <1>11, <1>17
  <2>2. \A j \in Nat : j <= s => j <= n
    BY <1>d
  <2> QED BY <2>1, <2>2 DEF Behind
<1>29. Ahead(l)'
  <2>1. k <= n
    BY <1>6, <1>7, <1>d
  <2>2. Awaits(k)'
    BY <1>1, <1>9, <1>11, <1>14, <1>15, <1>17 DEF Awaits, Lags
  <2> QED BY <1>6, <1>9, <1>11, <1>17, <2>1, <2>2 DEF Ahead
<1>30. Tracks(g, l, b)'
  BY <1>1, <1>5 DEF Tracks
<1>31. Working'
  BY <1>1, <1>4, <1>5, <1>17, <1>28, <1>29, <1>30 DEF Working
<1>32. Steady(ui.messages, ui'.messages)
  BY <1>1, <1>18, SteadySame DEF Listed
<1> QED BY <1>22, <1>23, <1>24, <1>25, <1>26, <1>27, <1>31, <1>32 DEF Kept, Conversation, Flags

\* An answer shows no more than was sent, and more is sent.
LEMMA BehindGrows ==
    ASSUME Inv, chat.gen \in Gens, chat'.gen = chat.gen, SentGrows(net, net'), NEW m, Behind(m)
    PROVE  Behind(m)'
<1>1. PICK k \in Nat : k <= net[chat.gen].sent /\ AnswerOf(m, chat.gen, k)
  BY DEF Behind
<1>2. PICK s \in Nat, t \in Nat : s = net[chat.gen].sent /\ t = net'[chat.gen].sent /\ s <= t
  BY DEF SentGrows
<1>3. k <= t
  BY <1>1, <1>2
<1> QED BY <1>1, <1>2, <1>3 DEF Behind

\* The lists after an event that queues updates of the present generation.
LEMMA QueuedLists ==
    ASSUME Inv, Inv', Shaped, Conversation, NEW g \in Gens, g = chat.gen, chat'.gen = g, SamePage,
           ui.messages # <<>>, Last(ui.messages).from = "assistant", Last(ui.messages).of = g,
           Pending(Last(ui.messages)), SentGrows(net, net'), \A h \in Gens \ {g} : net'[h] = net[h],
           NEW d, Behind(d)', disk' = disk \/ disk' = Persisted(Put(ui.messages, d))
    PROVE  Lists' /\ disk'.loaded = disk.loaded
<1>1. Listed(ui.messages, g, net) /\ Listed(disk.latest, g, net) /\ Listed(disk.stored, g, net)
      /\ WholeText(ui.messages, net, ui.life) /\ g \in Nat
  BY GensAreNat DEF Conversation, Lists
<1>2. \A ms : Listed(ms, g, net) => Listed(ms, g, net')
  <2>1. g <= g
    BY <1>1
  <2> QED BY <1>1, <2>1, ListGrows
<1>3. WholeText(ui.messages, net', ui.life)
  BY <1>1, WholeElsewhere
<1>4. Listed(disk'.latest, g, net') /\ disk'.stored = disk.stored /\ disk'.loaded = disk.loaded
  <2>1. CASE disk' = disk
    BY <1>1, <1>2, <2>1
  <2>2. CASE disk' = Persisted(Put(ui.messages, d))
    <3>1. disk'.latest = Put(ui.messages, d) /\ disk'.stored = disk.stored /\ disk'.loaded = disk.loaded
      BY <2>2, PersistedDisk
    <3>2. PICK k \in Nat : k <= net'[g].sent /\ AnswerOf(d, g, k)
      BY DEF Behind
    <3>3. PICK q : q = Put(ui.messages, d)
      OBVIOUS
    <3>4. Listed(q, g, net')
      <4>1. Listed(ui.messages, g, net')
        BY <1>1, <1>2
      <4>2. \A life : Listed(q, g, net')
        BY <3>2, <3>3, <4>1, ListPut
      <4> QED BY <4>2
    <3> QED BY <3>1, <3>3, <3>4
  <2> QED BY <2>1, <2>2
<1> QED BY <1>1, <1>2, <1>3, <1>4 DEF Lists, SamePage

\* The request of the present generation is over, and the updates that end it wait.
LEMMA Ended ==
    ASSUME Inv, Inv', Shaped, Conversation, NEW g \in Gens, g = chat.gen, chat.requesting = TRUE, SamePage,
           chat'.gen = g, chat'.requesting = FALSE, chat'.pend \in [gen : Nat, text : Text],
           chat'.pend.text = <<>>, chat'.timer = None, ctl'.streaming = FALSE,
           net'[g].at = "over", net[g].sent <= net'[g].sent, \A h \in Gens \ {g} : net'[h] = net[h],
           NEW d, Behind(d)', disk' = disk \/ disk' = Persisted(Put(ui.messages, d)),
           NEW o, NEW c, Tracks(g, o, c)', Behind(c)', Final(o),
           NEW k \in Nat, k <= net'[g].sent, AnswerOf(o, g, k),
           net'[g].whole = TRUE /\ o.status = "complete" => k = net'[g].sent
    PROVE  Kept
<1>1. /\ ui.busy = TRUE /\ disk.loaded = TRUE /\ ui.messages # <<>>
      /\ Behind(Last(ui.messages)) /\ Pending(Last(ui.messages))
      /\ Last(ui.messages).from = "assistant" /\ Last(ui.messages).of = g
  BY AskedIsBusy
<1>2. SentGrows(net, net')
  BY SentIsNat DEF SentGrows, Inv, Typed, NetType
<1>3. Lists' /\ disk'.loaded = disk.loaded
  BY <1>1, <1>2, QueuedLists
<1>4. PageTypes' /\ NotLoaded'
  BY <1>1, <1>3 DEF Conversation, Flags, PageTypes, NotLoaded, SamePage
<1>5. Asked'
  BY DEF Asked
<1>6. Requests'
  <2>1. Requests
    BY DEF Conversation, Flags
  <2>2. g \in Nat /\ ~(g > g)
    BY GensAreNat
  <2> QED BY <2>1, <2>2 DEF Requests
<1>7. Resting'
  BY <1>1 DEF Resting, SamePage
<1>8. Ahead(o)'
  BY DEF Ahead
<1>9. Behind(Last(ui.messages))'
  BY <1>1, <1>2, BehindGrows DEF SamePage
<1>10. Working'
  BY <1>1, <1>3, <1>8, <1>9 DEF Working, SamePage
<1>11. Steady(ui.messages, ui'.messages)
  BY SteadySame DEF SamePage, Conversation, Lists, Listed
<1> QED BY <1>3, <1>4, <1>5, <1>6, <1>7, <1>10, <1>11 DEF Kept, Conversation, Flags

\* flushStreamUpdates in the present generation.
LEMMA FlushedHere ==
    ASSUME Inv, Conversation, NEW g, g = chat.gen, chat.pend.gen = g
    PROVE  /\ Flushed(g).timer = None /\ Flushed(g).pend \in [gen : Nat, text : Text]
           /\ Flushed(g).pend.text = <<>> /\ Flushed(g).pend.gen = g /\ Flushed(g).gen = g
           /\ Flushed(g).requesting = chat.requesting /\ ChatShape(Flushed(g))
<1>1. ChatShape(chat) /\ chat.pend \in [gen : Nat, text : Text] /\ <<>> \in Text
  BY NoPieces DEF Inv, Typed, Conversation, Flags, PageTypes
<1>2. PICK p : p = [chat.pend EXCEPT !.text = <<>>]
  OBVIOUS
<1>3. p \in [gen : Nat, text : Text] /\ p.text = <<>> /\ p.gen = g
  BY <1>1, <1>2
<1>4. Flushed(g) = [chat EXCEPT !.timer = None, !.pend = p]
  BY <1>1, <1>2 DEF Flushed, ChatShape
<1> QED BY <1>1, <1>3, <1>4 DEF ChatShape

\* What a flush of the present generation queues.
LEMMA FlushUpdatesIs ==
    ASSUME NEW g, g = chat.gen, chat.pend.gen = g
    PROVE  FlushUpdates(g) = IF chat.pend.text # <<>> THEN <<Update("flush", g, chat.pend.text)>> ELSE <<>>
BY DEF FlushUpdates

\* The flush gives the answer all the pieces that were sent.
LEMMA FlushGives ==
    ASSUME NEW g \in Gens, g = chat.gen, NEW k \in Nat, NEW s \in Nat, s = net[g].sent, k <= s,
           NEW l, AnswerOf(l, g, k), Pending(l), Awaits(k), chat.pend.text # <<>>
    PROVE  LET m == Touched(Update("flush", g, chat.pend.text), l)
           IN  AnswerOf(m, g, s) /\ m.status = "streaming"
<1>1. PICK a \in {0, k} : a < s /\ s <= MaxLetters /\ Shows(chat.pend.text, g, a, s)
  BY DEF Awaits
<1>2. l.status # "error"
  BY DEF Pending
<1> QED BY <1>1, <1>2, TouchedByFlush

\* What the updates that end a request make of the list.
Outcome(g, o, k) ==
    /\ AnswerOf(o, g, k) /\ k <= net[g].sent
    /\ \E c, d : /\ Tracks(g, o, c)' /\ Behind(c) /\ Behind(d)
                 /\ disk' = disk \/ disk' = Persisted(Put(ui.messages, d))

\* The updates of a generation.
LEMMA OfGenIs == ASSUME NEW kind, kind \notin {"set", "delete"}, NEW g, NEW data PROVE OfGen(Update(kind, g, data), g)
BY UpdateIs DEF OfGen

\* Two updates in a row.
LEMMA TwoInARow == ASSUME NEW f, NEW u PROVE <<f>> \o <<u>> = <<f, u>>
<1>1. PICK S : S = {f, u}
  OBVIOUS
<1>2. <<f>> \in Seq(S) /\ u \in S
  BY <1>1
<1>3. Append(<<f>>, u) = <<f>> \o <<u>>
  BY <1>2, AppendIsConcat
<1>4. Append(<<f>>, u) = <<f, u>>
  <2>1. PICK p : p = Append(<<f>>, u)
    OBVIOUS
  <2>2. Len(<<f>>) = 1 /\ <<f>>[1] = f
    OBVIOUS
  <2>3. p \in Seq(S) /\ Len(p) = 2 /\ p[1] = f /\ p[2] = u
    BY <1>2, <2>1, <2>2, AppendProperties
  <2>4. PICK q : q = <<f, u>>
    OBVIOUS
  <2>5. q \in Seq(S) /\ Len(q) = 2 /\ q[1] = f /\ q[2] = u
    BY <1>1, <2>4
  <2>6. \A i \in 1..2 : p[i] = q[i]
    BY <2>3, <2>5
  <2>7. p = q
    BY <2>3, <2>5, <2>6, SeqEqual
  <2> QED BY <2>1, <2>4, <2>7
<1> QED BY <1>3, <1>4

\* The end of an answer that waits.
LEMMA EndTouches ==
    ASSUME NEW g \in Gens, NEW s \in Nat, NEW m, AnswerOf(m, g, s), Pending(m),
           NEW kind \in {"complete", "error"}, NEW o, o = Touched(Update(kind, g, <<>>), m)
    PROVE  o.status = kind /\ \E j \in {0, s} : AnswerOf(o, g, j) /\ (kind = "complete" => j = s)
<1>1. CASE kind = "complete"
  <2>1. AnswerOf(o, g, s) /\ o.status = "complete"
    BY <1>1, TouchedByEnd
  <2> QED BY <1>1, <2>1
<1>2. CASE kind = "error"
  <2>1. AnswerOf(o, g, 0) /\ o.status = "error"
    BY <1>2, TouchedByEnd
  <2> QED BY <1>2, <2>1
<1> QED BY <1>1, <1>2

\* The flush and the end of a request: with [DONE] the answer has all its pieces.
LEMMA EndingOutcome ==
    ASSUME Inv, Shaped, Conversation, NEW g \in Gens, g = chat.gen, chat.requesting = TRUE,
           NEW kind \in {"complete", "error"}, Enqueue(Ending(g, kind))
    PROVE  /\ SamePage
           /\ \E o : \E k \in Nat : /\ Outcome(g, o, k) /\ o.status = kind
                                    /\ kind = "complete" => k = net[g].sent
<1>1. /\ ui.messages # <<>> /\ chat.pend.gen = g /\ ui.messages \in Seq(MsgType) /\ g \in Nat
  BY AskedIsBusy, GensAreNat DEF Conversation, Lists, Listed
<1>2. PICK l, b : /\ Tracks(g, l, b) /\ Behind(b)
                  /\ \E k \in Nat : /\ k <= net[g].sent /\ AnswerOf(l, g, k)
                                    /\ Pending(l) /\ Awaits(k)
  BY AskedIsBusy
<1>3. PICK k \in Nat : k <= net[g].sent /\ AnswerOf(l, g, k) /\ Pending(l) /\ Awaits(k)
  BY <1>2
<1>4. PICK s \in Nat : s = net[g].sent
  BY SentIsNat
<1>5. PICK u : u = Update(kind, g, <<>>) /\ OfGen(u, g)
  BY OfGenIs
<1>6. IsAnswer(l)
  BY <1>3 DEF IsAnswer, AnswerOf
<1>7. CASE chat.pend.text = <<>>
  <2>1. Ending(g, kind) = <<u>>
    <3>1. FlushUpdates(g) = <<>>
      BY <1>1, <1>7, FlushUpdatesIs
    <3>2. <<>> \o <<u>> = <<u>>
      OBVIOUS
    <3> QED BY <1>5, <3>1, <3>2 DEF Ending
  <2>2. k = s
    BY <1>3, <1>4, <1>7 DEF Awaits
  <2>a. PICK o : o = Touched(u, l)
    OBVIOUS
  <2>b. o.status = kind /\ \E j \in {0, s} : AnswerOf(o, g, j) /\ (kind = "complete" => j = s)
    BY <1>3, <1>5, <2>2, <2>a, EndTouches
  <2>3. PICK j \in {0, s} : o = Touched(u, l) /\ AnswerOf(o, g, j) /\ o.status = kind /\ (kind = "complete" => j = s)
    BY <2>a, <2>b
  <2>4. o \in MsgType /\ j \in Nat /\ j <= s
    BY <2>3 DEF AnswerOf
  <2>5. /\ SamePage /\ (\E c \in {b, o} : Tracks(g, o, c)')
        /\ disk' = disk \/ disk' = Persisted(Put(ui.messages, o))
    BY <1>1, <1>2, <1>5, <1>6, <2>1, <2>3, <2>4, EnqueueOne
  <2>6. Behind(o)
    BY <1>4, <2>3, <2>4 DEF Behind
  <2>7. Outcome(g, o, j)
    BY <1>2, <1>4, <2>3, <2>4, <2>5, <2>6 DEF Outcome
  <2> QED BY <1>4, <2>3, <2>4, <2>5, <2>7
<1>8. CASE chat.pend.text # <<>>
  <2>0. PICK f : f = Update("flush", g, chat.pend.text) /\ OfGen(f, g)
    BY OfGenIs
  <2>1. Ending(g, kind) = <<f, u>>
    <3>1. FlushUpdates(g) = <<f>>
      BY <1>1, <1>8, <2>0, FlushUpdatesIs
    <3>2. <<f>> \o <<u>> = <<f, u>>
      BY TwoInARow
    <3> QED BY <1>5, <3>1, <3>2 DEF Ending
  <2>2. PICK m : m = Touched(f, l) /\ AnswerOf(m, g, s) /\ m.status = "streaming"
    BY <1>3, <1>4, <1>8, <2>0, FlushGives
  <2>3. Pending(m) /\ IsAnswer(m)
    BY <2>2 DEF Pending, IsAnswer, AnswerOf
  <2>a. PICK o : o = Touched(u, m)
    OBVIOUS
  <2>b. o.status = kind /\ \E j \in {0, s} : AnswerOf(o, g, j) /\ (kind = "complete" => j = s)
    BY <1>5, <2>2, <2>3, <2>a, EndTouches
  <2>4. PICK j \in {0, s} : o = Touched(u, m) /\ AnswerOf(o, g, j) /\ o.status = kind /\ (kind = "complete" => j = s)
    BY <2>a, <2>b
  <2>5. o \in MsgType /\ j \in Nat /\ j <= s /\ s <= s
    BY <2>4 DEF AnswerOf
  <2>6. /\ SamePage /\ (\E c \in {b, m} : Tracks(g, o, c)')
        /\ disk' = disk \/ disk' = Persisted(Put(ui.messages, m))
    BY <1>1, <1>2, <1>5, <1>6, <2>0, <2>1, <2>2, <2>3, <2>4, <2>5, EnqueueTwo
  <2>7. Behind(m)
    BY <1>4, <2>2, <2>5 DEF Behind
  <2>8. Outcome(g, o, j)
    BY <1>2, <1>4, <2>4, <2>5, <2>6, <2>7 DEF Outcome
  <2> QED BY <1>4, <2>4, <2>5, <2>6, <2>8
<1> QED BY <1>7, <1>8

\* The fields of a request that came to its end.
LEMMA OverWholeIs ==
    ASSUME Inv, NEW g \in Gens
    PROVE  /\ LET n == [Over(g) EXCEPT ![g].whole = TRUE]
              IN  n[g].at = "over" /\ n[g].sent = net[g].sent /\ \A h \in Gens \ {g} : n[h] = net[h]
           /\ LET n == [Over(g) EXCEPT ![g].whole = TRUE, ![g].sent = 1]
              IN  n[g].at = "over" /\ n[g].sent = 1 /\ \A h \in Gens \ {g} : n[h] = net[h]
<1>1. net \in [Gens -> NetType] /\ net[g] \in NetType
  BY DEF Inv, Typed
<1>2. PICK o : o = [net[g] EXCEPT !.at = "over", !.kind = "none", !.closed = TRUE]
  OBVIOUS
<1>3. o \in NetType /\ o.at = "over" /\ o.sent = net[g].sent
  BY <1>1, <1>2 DEF NetType
<1>4. Over(g) = [net EXCEPT ![g] = o]
  BY <1>1, <1>2 DEF Over
<1>5. PICK v : v = Over(g) /\ v \in [Gens -> NetType] /\ v[g] = o /\ \A h \in Gens \ {g} : v[h] = net[h]
  BY <1>1, <1>3, <1>4
<1>6. PICK q : q = [o EXCEPT !.whole = TRUE]
  OBVIOUS
<1>7. q.at = "over" /\ q.sent = net[g].sent
  BY <1>3, <1>6 DEF NetType
<1>8. [Over(g) EXCEPT ![g].whole = TRUE] = [v EXCEPT ![g] = q]
  BY <1>5, <1>6
<1>9. PICK r : r = [o EXCEPT !.whole = TRUE, !.sent = 1]
  OBVIOUS
<1>10. r.at = "over" /\ r.sent = 1
  BY <1>3, <1>9 DEF NetType
<1>11. [Over(g) EXCEPT ![g].whole = TRUE, ![g].sent = 1] = [v EXCEPT ![g] = r]
  BY <1>5, <1>9
<1> QED BY <1>5, <1>7, <1>8, <1>10, <1>11

\* A request of the present generation ends with the updates of Ending.
LEMMA EndingKept ==
    ASSUME Inv, Inv', Shaped, Conversation, NEW g \in Gens, g = chat.gen, chat.requesting = TRUE,
           NEW kind \in {"complete", "error"}, Enqueue(Ending(g, kind)),
           chat'.gen = g, chat'.requesting = FALSE, chat'.pend = Flushed(g).pend, chat'.timer = None,
           ctl'.streaming = FALSE, net'[g].at = "over", net'[g].sent = net[g].sent,
           \A h \in Gens \ {g} : net'[h] = net[h]
    PROVE  Kept
<1>1. chat.pend.gen = g
  BY AskedIsBusy
<1>2. chat'.pend \in [gen : Nat, text : Text] /\ chat'.pend.text = <<>>
  BY <1>1, FlushedHere
<1>3. /\ SamePage
      /\ \E o : \E k \in Nat : /\ Outcome(g, o, k) /\ o.status = kind
                               /\ kind = "complete" => k = net[g].sent
  BY EndingOutcome
<1>4. PICK o : \E k \in Nat : /\ Outcome(g, o, k) /\ o.status = kind
                              /\ kind = "complete" => k = net[g].sent
  BY <1>3
<1>5. PICK k \in Nat : /\ Outcome(g, o, k) /\ o.status = kind
                       /\ kind = "complete" => k = net[g].sent
  BY <1>4
<1>6. PICK c, d : /\ Tracks(g, o, c)' /\ Behind(c) /\ Behind(d)
                  /\ disk' = disk \/ disk' = Persisted(Put(ui.messages, d))
  BY <1>5 DEF Outcome
<1>7. AnswerOf(o, g, k) /\ k <= net'[g].sent /\ Final(o)
      /\ (net'[g].whole = TRUE /\ o.status = "complete" => k = net'[g].sent)
  BY <1>5 DEF Outcome, Final
<1>8. Behind(c)' /\ Behind(d)'
  BY <1>6 DEF Behind
<1>9. net[g].sent <= net'[g].sent
  BY SentIsNat
<1> QED BY <1>2, <1>3, <1>6, <1>7, <1>8, <1>9, Ended

\* The request fails before its headers.
LEMMA FailedKept ==
    ASSUME Inv, Inv', Shaped, Conversation, NEW g \in Gens, HeadersFailed(g)
    PROVE  Kept
<1>1. /\ net[g].at = "headers" /\ net[g].sgen = ctl.gen /\ net' = Over(g) /\ ctl' = ctl
      /\ ctl \in CtlType
  BY DEF HeadersFailed, AtHeaders, Inv, Typed
<1>2. g = chat.gen /\ ctl.source = None
  BY <1>1 DEF Inv, Together, Source
<1>3. chat.requesting = TRUE /\ chat.pend.gen = g
  BY <1>1, <1>2 DEF Conversation, Flags, Requests, Asked
<1>4. ctl'.streaming = FALSE
  BY <1>1, <1>2 DEF Inv, Waiting, CtlType
<1>5. Enqueue(Ending(g, "error"))
  BY <1>2 DEF HeadersFailed, RequestEnds
<1>6. PICK f : f = Flushed(g) /\ chat' = [f EXCEPT !.requesting = FALSE]
  BY <1>2 DEF HeadersFailed, RequestEnds
<1>7. ChatShape(f) /\ f.gen = g /\ f.timer = None
  BY <1>2, <1>3, <1>6, FlushedHere
<1>8. chat'.gen = g /\ chat'.requesting = FALSE /\ chat'.pend = Flushed(g).pend /\ chat'.timer = None
  BY <1>6, <1>7 DEF ChatShape
<1>9. net'[g].at = "over" /\ net'[g].sent = net[g].sent /\ \A h \in Gens \ {g} : net'[h] = net[h]
  BY <1>1, OverIs
<1> QED BY <1>2, <1>3, <1>4, <1>5, <1>8, <1>9, EndingKept

\* The stream ends, by [DONE] or by an error.
LEMMA StreamKept ==
    ASSUME Inv, Inv', Shaped, Conversation, NEW g \in Gens, Done(g) \/ StreamError(g)
    PROVE  Kept
<1>1. /\ net[g].at = "open" /\ ctl.source = g /\ ctl \in CtlType /\ g # None
      /\ ctl' = [ctl EXCEPT !.source = None, !.streaming = FALSE]
  BY Bounds DEF Done, StreamError, Streaming, IsCurrent, SourceClosed, Inv, Typed, Gens, None
<1>2. g = chat.gen
  BY <1>1 DEF Inv, Source
<1>3. chat.requesting = TRUE /\ chat.pend.gen = g
  BY <1>1, <1>2 DEF Conversation, Flags, Requests, Asked
<1>4. ctl'.streaming = FALSE
  BY <1>1 DEF CtlType
<1>5. PICK kind \in {"complete", "error"} : RequestEnds(g, kind)
  BY DEF Done, StreamError
<1>6. Enqueue(Ending(g, kind))
  BY <1>2, <1>5 DEF RequestEnds
<1>7. PICK f : f = Flushed(g) /\ chat' = [f EXCEPT !.requesting = FALSE]
  BY <1>2, <1>5 DEF RequestEnds
<1>8. ChatShape(f) /\ f.gen = g /\ f.timer = None
  BY <1>2, <1>3, <1>7, FlushedHere
<1>9. chat'.gen = g /\ chat'.requesting = FALSE /\ chat'.pend = Flushed(g).pend /\ chat'.timer = None
  BY <1>7, <1>8 DEF ChatShape
<1>10. net' = Over(g) \/ net' = [Over(g) EXCEPT ![g].whole = TRUE]
  BY DEF Done, StreamError
<1>11. net'[g].at = "over" /\ net'[g].sent = net[g].sent /\ \A h \in Gens \ {g} : net'[h] = net[h]
  <2>1. CASE net' = Over(g)
    BY <2>1, OverIs
  <2>2. CASE net' = [Over(g) EXCEPT ![g].whole = TRUE]
    BY <2>2, OverWholeIs
  <2> QED BY <1>10, <2>1, <2>2
<1> QED BY <1>2, <1>3, <1>4, <1>6, <1>9, <1>11, EndingKept

\* A request without a stream: nothing of it waits for a flush.
LEMMA PlainHere ==
    ASSUME Inv, Conversation, NEW g \in Gens, PlainWaiting(g), PlainCurrent(g)
    PROVE  /\ g = chat.gen /\ chat.requesting = TRUE /\ chat.pend.gen = g /\ net[g].sent = 0
           /\ chat.timer = None /\ ctl.streaming = FALSE /\ chat.pend.text = <<>>
<1>1. g = chat.gen /\ net[g].at = "open" /\ net[g].kind = "plain" /\ ctl.streaming \in BOOLEAN
  BY DEF PlainWaiting, PlainCurrent, Inv, Typed, CtlType
<1>2. chat.requesting = TRUE /\ net[g].sent = 0 /\ chat.timer = None /\ ctl.source = None
  BY <1>1 DEF Conversation, Flags, Requests
<1>3. ctl.streaming = FALSE
  BY <1>1, <1>2 DEF Inv, Waiting
<1>4. chat.pend.gen = g
  BY <1>1, <1>2 DEF Conversation, Flags, Asked
<1>5. \E k \in Nat : Awaits(k)
  BY <1>2, AskedIsBusy
<1>6. chat.pend.text = <<>>
  BY <1>1, <1>2, <1>5 DEF Awaits
<1> QED BY <1>1, <1>2, <1>3, <1>4, <1>6

\* A request without a stream fails.
LEMMA PlainErrorKept ==
    ASSUME Inv, Inv', Shaped, Conversation, NEW g \in Gens, PlainError(g)
    PROVE  Kept
<1>1. /\ g = chat.gen /\ chat.requesting = TRUE /\ chat.pend.gen = g /\ ctl.streaming = FALSE
  BY PlainHere DEF PlainError
<1>2. ctl' = ctl /\ net' = Over(g) /\ Enqueue(Ending(g, "error"))
  BY DEF PlainError
<1>3. PICK f : f = Flushed(g) /\ chat' = [f EXCEPT !.abort = None, !.requesting = FALSE]
  BY DEF PlainError
<1>4. ChatShape(f) /\ f.gen = g /\ f.timer = None
  BY <1>1, <1>3, FlushedHere
<1>5. chat'.gen = g /\ chat'.requesting = FALSE /\ chat'.pend = Flushed(g).pend /\ chat'.timer = None
  BY <1>3, <1>4 DEF ChatShape
<1>6. net'[g].at = "over" /\ net'[g].sent = net[g].sent /\ \A h \in Gens \ {g} : net'[h] = net[h]
  BY <1>2, OverIs
<1> QED BY <1>1, <1>2, <1>5, <1>6, EndingKept

\* A request without a stream is answered.
LEMMA PlainAnswerKept ==
    ASSUME Inv, Inv', Shaped, Conversation, NEW g \in Gens, PlainAnswer(g)
    PROVE  Kept
<1>1. /\ g = chat.gen /\ chat.requesting = TRUE /\ chat.pend.gen = g /\ net[g].sent = 0
      /\ chat.timer = None /\ ctl.streaming = FALSE /\ chat.pend.text = <<>>
  BY PlainHere DEF PlainAnswer
<1>2. /\ ctl' = ctl /\ net' = [Over(g) EXCEPT ![g].whole = TRUE, ![g].sent = 1]
      /\ chat' = [chat EXCEPT !.abort = None, !.requesting = FALSE]
  BY DEF PlainAnswer
<1>3. net'[g].at = "over" /\ net'[g].sent = 1 /\ \A h \in Gens \ {g} : net'[h] = net[h]
  BY <1>2, OverWholeIs
<1>4. ChatShape(chat) /\ chat.pend \in [gen : Nat, text : Text]
  BY DEF Inv, Typed, Conversation, Flags, PageTypes
<1>5. chat'.gen = g /\ chat'.requesting = FALSE /\ chat'.pend = chat.pend /\ chat'.timer = None
  BY <1>1, <1>2, <1>4 DEF ChatShape
<1>6. /\ ui.messages # <<>> /\ ui.messages \in Seq(MsgType) /\ g \in Nat
  BY <1>1, AskedIsBusy, GensAreNat DEF Conversation, Lists, Listed
<1>7. PICK l, b : /\ Tracks(g, l, b) /\ Behind(b)
                  /\ \E k \in Nat : AnswerOf(l, g, k)
  BY <1>1, AskedIsBusy
<1>8. PICK k \in Nat : AnswerOf(l, g, k)
  BY <1>7
<1>9. PICK u : u = Update("response", g, Slice(g, 0, 1)) /\ OfGen(u, g)
  BY OfGenIs
<1>10. PICK o : o = Touched(u, l)
  OBVIOUS
<1>11. AnswerOf(o, g, 1) /\ o.status = "complete"
  BY <1>8, <1>9, <1>10, TouchedByEnd
<1>12. IsAnswer(l) /\ o \in MsgType
  BY <1>8, <1>11 DEF IsAnswer, AnswerOf
<1>13. Enqueue(<<u>>)
  BY <1>9 DEF PlainAnswer
<1>14. /\ SamePage /\ (\E c \in {b, o} : Tracks(g, o, c)')
       /\ disk' = disk \/ disk' = Persisted(Put(ui.messages, o))
  BY <1>1, <1>6, <1>7, <1>9, <1>10, <1>12, <1>13, EnqueueOne
<1>15. PICK c \in {b, o} : Tracks(g, o, c)'
  BY <1>14
<1>16. SentGrows(net, net')
  BY <1>1, <1>3, SentIsNat DEF SentGrows
<1>17. Behind(b)' /\ Behind(o)'
  <2>1. Behind(b)'
    BY <1>1, <1>5, <1>7, <1>16, BehindGrows
  <2>2. 1 \in Nat /\ 1 <= net'[chat'.gen].sent
    BY <1>3, <1>5
  <2> QED BY <1>5, <1>11, <2>1, <2>2 DEF Behind
<1>18. Final(o) /\ 1 \in Nat /\ 1 <= net'[g].sent /\ net[g].sent <= net'[g].sent
  BY <1>1, <1>3, <1>11 DEF Final
<1> QED BY <1>1, <1>2, <1>3, <1>4, <1>5, <1>11, <1>14, <1>15, <1>17, <1>18, Ended

-----------------------------------------------------------------------------
(* The flush timer, rendering, and the clicks while no generation is shown. *)

\* The timer of the flush.
LEMMA FlushTimerKept ==
    ASSUME Inv, Inv', Shaped, Conversation, FlushTimer
    PROVE  Kept
<1>1. chat.timer # None /\ chat.timer \in {None, chat.gen} /\ chat.requesting \in BOOLEAN
  BY DEF FlushTimer, Conversation, Flags, Asked, Inv, Typed, ChatShape
<1>2. chat.requesting = TRUE
  BY <1>1 DEF Conversation, Flags, Asked
<1>3. PICK g \in Gens : g = chat.gen /\ g = chat.timer
  BY <1>1, <1>2, AskedIsBusy
<1>4. /\ ui.busy = TRUE /\ disk.loaded = TRUE /\ ui.messages # <<>> /\ chat.pend.gen = g
      /\ Behind(Last(ui.messages)) /\ Pending(Last(ui.messages)) /\ net[g].whole = FALSE
      /\ Last(ui.messages).from = "assistant" /\ Last(ui.messages).of = g
  BY <1>2, <1>3, AskedIsBusy
<1>5. PICK l, b : /\ Tracks(g, l, b) /\ Behind(b)
                  /\ \E k \in Nat : /\ k <= net[g].sent /\ AnswerOf(l, g, k)
                                    /\ Pending(l) /\ Awaits(k)
  BY <1>2, <1>3, AskedIsBusy
<1>6. PICK k \in Nat : k <= net[g].sent /\ AnswerOf(l, g, k) /\ Pending(l) /\ Awaits(k)
  BY <1>5
<1>7. PICK s \in Nat : s = net[g].sent
  BY SentIsNat
<1>8. /\ chat' = Flushed(g) /\ Enqueue(FlushUpdates(g)) /\ ctl' = ctl /\ net' = net
  BY <1>3 DEF FlushTimer
<1>9. /\ chat'.timer = None /\ chat'.pend \in [gen : Nat, text : Text]
      /\ chat'.pend.text = <<>> /\ chat'.pend.gen = g /\ chat'.gen = g
      /\ chat'.requesting = TRUE
  BY <1>2, <1>3, <1>4, <1>8, FlushedHere
<1>10. ui.messages \in Seq(MsgType) /\ g \in Nat /\ IsAnswer(l)
  BY <1>6, GensAreNat DEF Conversation, Lists, Listed, IsAnswer, AnswerOf
<1>11. PICK o : /\ AnswerOf(o, g, s) /\ Pending(o) /\ SamePage
                /\ \E c, d : /\ Tracks(g, o, c)' /\ Behind(c) /\ Behind(d)
                             /\ disk' = disk \/ disk' = Persisted(Put(ui.messages, d))
  <2>1. CASE chat.pend.text = <<>>
    <3>1. FlushUpdates(g) = <<>>
      BY <1>3, <1>4, <2>1, FlushUpdatesIs
    <3>2. SamePage /\ ui'.queue = ui.queue /\ disk' = disk
      BY <1>8, <3>1, EnqueueNone
    <3>3. k = s
      BY <1>3, <1>6, <1>7, <2>1 DEF Awaits
    <3>4. Tracks(g, l, b)'
      BY <1>5, <3>2 DEF Tracks, SamePage
    <3> QED BY <1>5, <1>6, <3>2, <3>3, <3>4
  <2>2. CASE chat.pend.text # <<>>
    <3>0. PICK f : f = Update("flush", g, chat.pend.text) /\ OfGen(f, g)
      BY OfGenIs
    <3>1. FlushUpdates(g) = <<f>>
      BY <1>3, <1>4, <2>2, <3>0, FlushUpdatesIs
    <3>2. PICK m : m = Touched(f, l) /\ AnswerOf(m, g, s) /\ m.status = "streaming"
      BY <1>3, <1>6, <1>7, <2>2, <3>0, FlushGives
    <3>3. Pending(m) /\ m \in MsgType
      BY <3>2 DEF Pending, AnswerOf
    <3>4. /\ SamePage /\ (\E c \in {b, m} : Tracks(g, m, c)')
          /\ disk' = disk \/ disk' = Persisted(Put(ui.messages, m))
      <4>1. Enqueue(<<f>>)
        BY <1>8, <3>1
      <4> QED BY <1>3, <1>4, <1>5, <1>10, <3>0, <3>2, <3>3, <4>1, EnqueueOne
    <3>5. Behind(m)
      <4>1. s <= s
        OBVIOUS
      <4> QED BY <1>3, <1>7, <3>2, <4>1 DEF Behind
    <3> QED BY <1>5, <3>2, <3>3, <3>4, <3>5
  <2> QED BY <2>1, <2>2
<1>12. PICK c, d : /\ Tracks(g, o, c)' /\ Behind(c) /\ Behind(d)
                   /\ disk' = disk \/ disk' = Persisted(Put(ui.messages, d))
  BY <1>11
<1>13. \A m : Behind(m) => Behind(m)'
  BY <1>3, <1>8, <1>9 DEF Behind
<1>14. SentGrows(net, net')
  BY <1>8, SentIsNat DEF SentGrows
<1>15. Lists' /\ disk'.loaded = disk.loaded
  <2>1. Behind(d)' /\ \A h \in Gens \ {g} : net'[h] = net[h]
    BY <1>8, <1>12, <1>13
  <2> QED BY <1>3, <1>4, <1>9, <1>11, <1>12, <1>14, <2>1, QueuedLists
<1>16. PageTypes' /\ NotLoaded'
  BY <1>4, <1>9, <1>11, <1>15 DEF Conversation, Flags, PageTypes, NotLoaded, SamePage
<1>17. Asked'
  BY <1>4, <1>8, <1>9 DEF Asked
<1>18. Requests'
  <2>1. Requests
    BY DEF Conversation, Flags
  <2> QED BY <1>3, <1>8, <1>9, <2>1 DEF Requests
<1>19. Resting'
  BY <1>4, <1>11 DEF Resting, SamePage
<1>20. Ahead(o)'
  <2>1. Awaits(s)'
    BY <1>7, <1>8, <1>9 DEF Awaits
  <2>2. s <= s
    OBVIOUS
  <2> QED BY <1>7, <1>8, <1>9, <1>11, <2>1, <2>2 DEF Ahead
<1>21. Working'
  BY <1>3, <1>4, <1>9, <1>11, <1>12, <1>13, <1>15, <1>20 DEF Working, SamePage
<1>22. Steady(ui.messages, ui'.messages)
  BY <1>11, SteadySame DEF SamePage, Conversation, Lists, Listed
<1> QED BY <1>15, <1>16, <1>17, <1>18, <1>19, <1>21, <1>22 DEF Kept, Conversation, Flags

\* What a rendering leaves.
LEMMA Committed ==
    ASSUME Shaped, NEW us, NEW g, NEW busy, Commit(us, g, busy)
    PROVE  /\ ui'.queue = <<>> /\ ui'.busy = busy /\ ui'.life = ui.life /\ ui'.mounted = ui.mounted
           /\ ui'.messages = Applied(ui.queue \o us, ui.messages, g)
           /\ disk'.stored = disk.stored /\ disk'.loaded = disk.loaded
           /\ disk'.latest \in {disk.latest, ui'.messages}
<1>0. PICK all : all = ui.queue \o us
  OBVIOUS
<1>1. PICK ms : /\ ms = IF all = <<>> THEN ui.messages ELSE Applied(all, ui.messages, g)
                /\ ui' = [ui EXCEPT !.messages = ms, !.queue = <<>>, !.busy = busy]
                /\ disk' = IF all = <<>> THEN disk ELSE Persisted(ms)
  BY <1>0 DEF Commit
<1>2. ms = Applied(all, ui.messages, g)
  BY <1>1, AppliedEmpty
<1>3. /\ ui'.queue = <<>> /\ ui'.busy = busy /\ ui'.life = ui.life /\ ui'.mounted = ui.mounted
      /\ ui'.messages = ms
  BY <1>1 DEF Shaped
<1>4. /\ disk'.stored = disk.stored /\ disk'.loaded = disk.loaded /\ disk'.latest \in {disk.latest, ms}
  <2>1. CASE all = <<>>
    BY <1>1, <2>1
  <2>2. CASE all # <<>>
    BY <1>1, <2>2, PersistedDisk
  <2> QED BY <2>1, <2>2
<1> QED BY <1>0, <1>2, <1>3, <1>4

\* A page that shows no generation has nothing that the flags await.
LEMMA IdlePage ==
    ASSUME Inv, Conversation, ui.busy = FALSE
    PROVE  /\ ui.queue = <<>> /\ chat.requesting = FALSE /\ Settled(ui.messages)
           /\ ctl.streaming = FALSE /\ chat.pend.text = <<>> /\ chat.timer = None
<1>1. ctl.streaming \in BOOLEAN
  BY DEF Inv, Typed, CtlType
<1> QED BY <1>1 DEF Conversation, Resting, Flags, Asked

\* What a rendering leaves but the messages.
Rendered(busy) ==
    /\ ui'.queue = <<>> /\ ui'.busy = busy /\ ui'.life = ui.life
    /\ disk'.stored = disk.stored /\ disk'.loaded = disk.loaded
    /\ disk'.latest \in {disk.latest, ui'.messages}

\* A rendering after which no generation is shown.
LEMMA RenderedQuiet ==
    ASSUME Inv, Conversation, UNCHANGED <<chat, ctl, net>>, chat.requesting = FALSE,
           disk.loaded = TRUE, Rendered(FALSE), Listed(ui'.messages, chat.gen, net), Settled(ui'.messages),
           WholeText(ui'.messages, net, ui.life), Steady(ui.messages, ui'.messages)
    PROVE  Kept
<1>1. Lists'
  BY DEF Conversation, Lists, Rendered
<1>2. PageTypes' /\ NotLoaded'
  BY DEF Conversation, Flags, PageTypes, NotLoaded, Rendered
<1>3. Asked' /\ Requests'
  BY DEF Conversation, Flags, Asked, Requests
<1>4. Resting' /\ Working'
  BY DEF Resting, Working, Rendered
<1> QED BY <1>1, <1>2, <1>3, <1>4 DEF Kept, Conversation, Flags

\* React renders the queue.
LEMMA RenderKept ==
    ASSUME Inv, Inv', Shaped, Conversation, Render
    PROVE  Kept
<1>1. /\ Commit(<<>>, chat.gen, chat.requesting \/ ctl.streaming) /\ UNCHANGED <<chat, ctl, net>>
      /\ ui.queue # <<>> \/ ui.busy # (chat.requesting \/ ctl.streaming)
  BY DEF Render
<1>2. /\ chat.requesting \in BOOLEAN /\ ctl.streaming \in BOOLEAN /\ ui.busy \in BOOLEAN
      /\ ctl.streaming = TRUE => chat.requesting = TRUE
  BY DEF Inv, Typed, CtlType, ChatShape, Conversation, Flags, PageTypes, Asked
<1>3. (chat.requesting \/ ctl.streaming) = chat.requesting
  BY <1>2
<1>4. ui.busy = TRUE
  <2>1. ui.busy = FALSE => ui.queue = <<>> /\ chat.requesting = FALSE
    BY IdlePage
  <2> QED BY <1>1, <1>2, <1>3, <2>1
<1>5. PICK g \in Gens : g = chat.gen
  BY <1>4 DEF Conversation, Working
<1>6. PICK l, b : Tracks(g, l, b) /\ Ahead(l) /\ Behind(b)
  BY <1>4, <1>5 DEF Conversation, Working
<1>7. /\ disk.loaded = TRUE /\ ui.messages # <<>> /\ Behind(Last(ui.messages)) /\ Pending(Last(ui.messages))
  BY <1>4 DEF Conversation, Working
<1>8. Last(ui.messages).from = "assistant" /\ Last(ui.messages).of = g
  BY <1>5, <1>7 DEF Behind, AnswerOf
<1>9. PICK k \in Nat :
        /\ k <= net[g].sent /\ AnswerOf(l, g, k)
        /\ chat.requesting = TRUE => Pending(l) /\ Awaits(k)
        /\ chat.requesting = FALSE =>
            Final(l) /\ (net[g].whole = TRUE /\ l.status = "complete" => k = net[g].sent)
  BY <1>5, <1>6 DEF Ahead
<1>10. PICK q : q = Put(ui.messages, l)
  OBVIOUS
<1>11. ui'.messages = q /\ Rendered(chat.requesting)
  <2>1. PICK S : ui.queue \in Seq(S)
    BY DEF Shaped
  <2>2. ui.queue \o <<>> = ui.queue
    BY <2>1, ConcatEmptySeq
  <2>a. PICK us : us = <<>>
    OBVIOUS
  <2>3. Commit(us, chat.gen, chat.requesting)
    BY <1>1, <1>3, <2>a
  <2>4. PICK all : all = ui.queue \o us
    OBVIOUS
  <2>5. ui'.messages = Applied(all, ui.messages, chat.gen) /\ Rendered(chat.requesting)
    <3>1. \A busy : Commit(us, chat.gen, busy) =>
            /\ ui'.queue = <<>> /\ ui'.busy = busy /\ ui'.life = ui.life
            /\ ui'.messages = Applied(ui.queue \o us, ui.messages, chat.gen)
            /\ disk'.stored = disk.stored /\ disk'.loaded = disk.loaded
            /\ disk'.latest \in {disk.latest, ui'.messages}
      BY Committed
    <3> QED BY <2>3, <2>4, <3>1 DEF Rendered
  <2> QED BY <1>5, <1>6, <1>10, <2>2, <2>a, <2>4, <2>5 DEF Tracks
<1>12. Listed(ui.messages, g, net) /\ WholeText(ui.messages, net, ui.life)
  BY <1>5 DEF Conversation, Lists
<1>13. WholeMsg(l, net, ui.life)
  <2>1. chat.requesting = TRUE => ~(l.status = "complete")
    BY <1>9 DEF Pending
  <2> QED BY <1>2, <1>9, <2>1 DEF WholeMsg, AnswerOf
<1>14. /\ Listed(q, g, net) /\ (Final(l) => Settled(q)) /\ Steady(ui.messages, q)
       /\ WholeText(q, net, ui.life) /\ q # <<>> /\ Last(q) = l
  BY <1>7, <1>8, <1>9, <1>10, <1>12, <1>13, ListPut
<1>15. CASE chat.requesting = FALSE
  BY <1>1, <1>5, <1>7, <1>9, <1>11, <1>14, <1>15, RenderedQuiet
<1>16. CASE chat.requesting = TRUE
  <2>1. Lists'
    BY <1>1, <1>5, <1>11, <1>14 DEF Conversation, Lists, Rendered
  <2>2. PageTypes' /\ NotLoaded'
    BY <1>1, <1>2, <1>7, <1>11 DEF Conversation, Flags, PageTypes, NotLoaded, Rendered
  <2>3. Asked' /\ Requests'
    BY <1>1 DEF Conversation, Flags, Asked, Requests
  <2>4. Resting'
    BY <1>11, <1>16 DEF Resting, Rendered
  <2>5. Behind(l)' /\ Ahead(l)'
    <3>1. Awaits(k)'
      BY <1>1, <1>9, <1>16 DEF Awaits
    <3> QED BY <1>1, <1>5, <1>9, <1>16, <3>1 DEF Behind, Ahead
  <2>6. Tracks(g, l, l)'
    <3>1. q = Put(q, l)
      BY <1>14, PutLast DEF Listed
    <3>2. \A h : Applied(<<>>, q, h) = q
      BY AppliedEmpty
    <3>3. ui'.queue = <<>> /\ ui'.messages = q
      BY <1>11 DEF Rendered
    <3> QED BY <3>1, <3>2, <3>3 DEF Tracks
  <2>7. Working'
    BY <1>1, <1>5, <1>7, <1>9, <1>11, <1>14, <1>16, <2>5, <2>6 DEF Working, Rendered
  <2> QED BY <1>11, <1>14, <2>1, <2>2, <2>3, <2>4, <2>7 DEF Kept, Conversation, Flags
<1> QED BY <1>2, <1>15, <1>16

\* The clicks that change the list while no generation is shown.
LEMMA IdleKept ==
    ASSUME Inv, Inv', Shaped, Conversation, ui.busy = FALSE, disk.loaded = TRUE,
           NEW u, Commit(<<u>>, chat.gen, FALSE), UNCHANGED <<chat, ctl, net>>,
           NEW ns, ns = Apply(u, ui.messages, chat.gen),
           Listed(ns, chat.gen, net), Settled(ns), Steady(ui.messages, ns), WholeText(ns, net, ui.life)
    PROVE  Kept
<1>1. ui.queue = <<>> /\ chat.requesting = FALSE
  BY IdlePage
<1>a. PICK us : us = <<u>>
  OBVIOUS
<1>2. PICK all : all = ui.queue \o us
  OBVIOUS
<1>3. PICK e \in Seq({}) : e = <<>>
  <2>1. <<>> \in Seq({})
    BY EmptySeq
  <2> QED BY <2>1
<1>4. all = Append(e, u)
  <2>1. <<>> \o <<u>> = <<u>> /\ Append(<<>>, u) = <<u>>
    OBVIOUS
  <2> QED BY <1>1, <1>2, <1>3, <1>a, <2>1
<1>5. Applied(all, ui.messages, chat.gen) = ns
  <2>1. Applied(Append(e, u), ui.messages, chat.gen) = Apply(u, Applied(e, ui.messages, chat.gen), chat.gen)
    BY AppliedAppend
  <2> QED BY <1>3, <1>4, <2>1, AppliedEmpty
<1>6. ui'.messages = ns /\ Rendered(FALSE)
  <2>1. Commit(us, chat.gen, FALSE)
    BY <1>a
  <2>2. /\ ui'.queue = <<>> /\ ui'.busy = FALSE /\ ui'.life = ui.life
        /\ ui'.messages = Applied(ui.queue \o us, ui.messages, chat.gen)
        /\ disk'.stored = disk.stored /\ disk'.loaded = disk.loaded
        /\ disk'.latest \in {disk.latest, ui'.messages}
    BY <2>1, Committed
  <2> QED BY <1>2, <1>5, <2>2 DEF Rendered
<1> QED BY <1>1, <1>6, RenderedQuiet

\* The user deletes a message.
LEMMA DeleteKept ==
    ASSUME Inv, Inv', Shaped, Conversation, Habits = {}, NEW i \in DOMAIN ui.messages, Delete(i)
    PROVE  Kept
<1>1. /\ ui.busy = FALSE /\ disk.loaded = TRUE
  BY DEF Delete, Idle, CanAct, Conversation, Flags, PageTypes, Shaped
<1>2. PICK u : u = Update("delete", None, Key(ui.messages[i]))
  OBVIOUS
<1>3. Commit(<<u>>, chat.gen, FALSE) /\ UNCHANGED <<chat, ctl, net>>
  BY <1>2 DEF Delete
<1>4. PICK ns : ns = RemoveMessageByKey(ui.messages, Key(ui.messages[i]))
  OBVIOUS
<1>5. ns = Apply(u, ui.messages, chat.gen)
  BY <1>2, <1>4, UpdateIs DEF Apply
<1>6. Listed(ui.messages, chat.gen, net) /\ WholeText(ui.messages, net, ui.life) /\ Settled(ui.messages)
  BY <1>1, IdlePage DEF Conversation, Lists
<1>7. ns \in Seq(MsgType) /\ Within(ns, ui.messages) /\ Unique(ns)
  <2>1. ui.messages \in Seq(MsgType) /\ Unique(ui.messages)
    BY <1>6 DEF Listed
  <2> QED BY <1>4, <2>1, Removal
<1>8. Listed(ns, chat.gen, net) /\ Settled(ns) /\ Steady(ui.messages, ns) /\ WholeText(ns, net, ui.life)
  BY <1>6, <1>7, ListPart
<1> QED BY <1>1, <1>3, <1>5, <1>8, IdleKept

\* The user clears the conversation.
LEMMA ClearKept ==
    ASSUME Inv, Inv', Shaped, Conversation, Habits = {}, Clear
    PROVE  Kept
<1>1. /\ ui.busy = FALSE /\ disk.loaded = TRUE
  BY DEF Clear, Idle, CanAct, Conversation, Flags, PageTypes, Shaped
<1>2. PICK u : u = SetTo(<<>>)
  OBVIOUS
<1>3. Commit(<<u>>, chat.gen, FALSE) /\ UNCHANGED <<chat, ctl, net>>
  BY <1>2 DEF Clear
<1>4. <<>> = Apply(u, ui.messages, chat.gen)
  BY <1>2, UpdateIs DEF Apply, SetTo
<1>5. Listed(<<>>, chat.gen, net) /\ Settled(<<>>) /\ Steady(ui.messages, <<>>) /\ WholeText(<<>>, net, ui.life)
  BY EmptyList
<1> QED BY <1>1, <1>3, <1>4, <1>5, IdleKept

\* The user saves an edited message.
LEMMA SaveEditKept ==
    ASSUME Inv, Inv', Shaped, Conversation, Habits = {}, NEW i \in DOMAIN ui.messages, SaveEdit(i)
    PROVE  Kept
<1>1. /\ ui.busy = FALSE /\ disk.loaded = TRUE
  BY DEF SaveEdit, MaySave, CanAct, Conversation, Flags, PageTypes, Shaped
<1>2. PICK ns : ns = Edited(i)
  OBVIOUS
<1>3. PICK u : u = SetTo(ns)
  OBVIOUS
<1>4. Commit(<<u>>, chat.gen, FALSE) /\ UNCHANGED <<chat, ctl, net>>
  <2>1. chat.requesting = FALSE /\ ctl.streaming = FALSE
    BY <1>1, IdlePage
  <2>2. (chat.requesting \/ ctl.streaming) = FALSE
    BY <2>1
  <2> QED BY <1>2, <1>3, <2>2 DEF SaveEdit
<1>5. ns = Apply(u, ui.messages, chat.gen)
  BY <1>3, UpdateIs DEF Apply, SetTo
<1>6. Listed(ui.messages, chat.gen, net) /\ WholeText(ui.messages, net, ui.life) /\ Settled(ui.messages)
  BY <1>1, IdlePage DEF Conversation, Lists
<1>7. Listed(ns, chat.gen, net) /\ Settled(ns) /\ Steady(ui.messages, ns) /\ WholeText(ns, net, ui.life)
  <2>1. CASE ui.messages[i].from = "user"
    BY <1>2, <1>6, <2>1, SteadySame DEF Edited, Listed
  <2>2. CASE ui.messages[i].from # "user"
    <3>1. ui.messages[i].from = "assistant"
      BY <1>6, <2>2 DEF Listed, Message, MsgType
    <3>2. ns = [ui.messages EXCEPT ![i].text = EditedText]
      BY <1>2, <2>2 DEF Edited
    <3> QED BY <1>6, <3>1, <3>2, ListEdit
  <2> QED BY <2>1, <2>2
<1> QED BY <1>1, <1>4, <1>5, <1>7, IdleKept

-----------------------------------------------------------------------------
(* Submissions and the stop. *)

\* g is the next generation.
FollowsGen(g) == g = chat.gen + 1

\* What a request that begins leaves of the others.
Others(g) ==
    \A h \in Gens \ {g} : /\ net'[h].at = net[h].at /\ net'[h].kind = net[h].kind
                          /\ net'[h].sent = net[h].sent /\ net'[h].whole = net[h].whole

\* The counters and requests that a submission leaves.
LEMMA NextRequest ==
    ASSUME Inv, NEW next, NEW kind \in Kinds, Submit(next, kind), NEW g, FollowsGen(g)
    PROVE  /\ g \in Gens /\ chat'.gen = g /\ chat'.requesting = TRUE /\ chat'.timer = None
           /\ chat'.pend \in [gen : Nat, text : Text] /\ chat'.pend.gen = g /\ chat'.pend.text = <<>>
           /\ ctl'.streaming = FALSE /\ ctl'.source = None
           /\ net'[g].sent = 0 /\ net'[g].whole = FALSE /\ Others(g)
<1>1. g \in Gens
  <2>1. chat.gen \in Nat /\ g <= MaxGen
    BY GenIsNat DEF Submit, NextGen, FollowsGen
  <2> QED BY <2>1, Bounds DEF Gens, FollowsGen
<1>2. ChatShape(chat) /\ g \in Nat
  BY <1>1, GensAreNat DEF Inv, Typed
<1>3. ctl'.streaming = FALSE /\ ctl'.source = None
  BY CancelledCtl DEF Submit, CtlNext
<1>4. PICK a : a = IF kind = "plain" THEN g ELSE None
  OBVIOUS
<1>5. PICK p : p = [gen |-> g, text |-> <<>>]
  OBVIOUS
<1>6. p \in [gen : Nat, text : Text] /\ p.gen = g /\ p.text = <<>>
  <2>1. <<>> \in Text
    BY NoPieces
  <2> QED BY <1>2, <1>5, <2>1
<1>7. PICK c : c = Discarded(g) /\ chat' = [c EXCEPT !.requesting = TRUE, !.abort = a]
  BY <1>4 DEF Submit, NextGen, FollowsGen
<1>8. c = [chat EXCEPT !.gen = g, !.timer = None, !.pend = p]
  BY <1>5, <1>7 DEF Discarded
<1>9. /\ DOMAIN c = {"gen", "pend", "timer", "requesting", "abort"}
      /\ c.gen = g /\ c.timer = None /\ c.pend = p
  BY <1>2, <1>8 DEF ChatShape
<1>10. chat'.gen = g /\ chat'.requesting = TRUE /\ chat'.timer = None /\ chat'.pend = p
  BY <1>7, <1>9
<1>11. PICK n \in [Gens -> NetType] :
        /\ n = Closed(Closed(net, ctl.source), chat.abort)
        /\ \A h \in Gens : /\ n[h].at = net[h].at /\ n[h].kind = net[h].kind
                           /\ n[h].sent = net[h].sent /\ n[h].whole = net[h].whole
  BY AllClosed
<1>12. PICK at : at = IF kind = "plain" THEN "open" ELSE "headers"
  OBVIOUS
<1>13. PICK s : s = ctl.gen + 1
  OBVIOUS
<1>14. PICK o : o = [Unsent EXCEPT !.kind = kind, !.sgen = s, !.at = at]
  OBVIOUS
<1>15. o.sent = 0 /\ o.whole = FALSE
  BY <1>14 DEF Unsent
<1>16. net' = [n EXCEPT ![g] = o]
  BY <1>11, <1>12, <1>13, <1>14 DEF Submit, NextGen, FollowsGen
<1>17. net'[g] = o /\ \A h \in Gens \ {g} : net'[h] = n[h]
  BY <1>1, <1>11, <1>16
<1>18. Others(g)
  BY <1>11, <1>17 DEF Others
<1> QED BY <1>1, <1>3, <1>6, <1>10, <1>15, <1>17, <1>18

\* The answer that a submission adds.
LEMMA LoadingIs ==
    ASSUME NEW g \in Gens, NEW n, n[g].sent \in Nat, NEW l, l = LoadingMessage(g)
    PROVE  AnswerOf(l, g, 0) /\ Pending(l) /\ Message(l, g, n) /\ l.from = "assistant"
           /\ l.of = g /\ l.status = "loading"
<1>1. g \in Nat /\ Shows(<<>>, g, 0, 0) /\ <<>> \in Text /\ g <= g
  BY GensAreNat, ShowsNothing
<1>2. l \in MsgType /\ l.from = "assistant" /\ l.of = g /\ l.status = "loading" /\ l.text = <<>>
  BY <1>1 DEF LoadingMessage, MsgType, Statuses
<1>3. 0 \in Nat /\ 0 <= n[g].sent
  OBVIOUS
<1>4. Message(l, g, n)
  BY <1>1, <1>2, <1>3 DEF Message
<1> QED BY <1>1, <1>2, <1>4 DEF AnswerOf, Pending

\* The question that the user adds.
LEMMA QuestionIs ==
    ASSUME NEW g \in Gens, NEW n, NEW l, l = UserMessage(g)
    PROVE  ~Pending(l) /\ Message(l, g, n) /\ l.from = "user" /\ l.of = g
<1>1. g \in Nat /\ <<>> \in Text /\ g <= g
  BY GensAreNat, NoPieces
<1>2. l \in MsgType /\ l.from = "user" /\ l.of = g /\ l.status = "none" /\ l.text = <<>>
  BY <1>1 DEF UserMessage, MsgType, Statuses
<1> QED BY <1>1, <1>2 DEF Message, Pending

\* The messages of a list are older than the next generation.
LEMMA Older ==
    ASSUME Inv, Conversation, NEW g, FollowsGen(g), NEW i \in DOMAIN ui.messages
    PROVE  ui.messages[i].of # g
<1>1. ui.messages[i] \in MsgType /\ ui.messages[i].of <= chat.gen
  BY DEF Conversation, Lists, Listed, Message
<1>2. PICK o \in Nat : o = ui.messages[i].of
  BY <1>1, GensAreNat DEF MsgType
<1>3. chat.gen \in Nat
  BY GenIsNat
<1> QED BY <1>1, <1>2, <1>3 DEF FollowsGen

\* The requests before and after.
LEMMA NextLists ==
    ASSUME Inv, Inv', Conversation, NEW g \in Gens, FollowsGen(g),
           net'[g].sent = 0, net'[g].whole = FALSE, Others(g)
    PROVE  /\ \A ms : Listed(ms, chat.gen, net) => Listed(ms, g, net')
           /\ WholeText(ui.messages, net', ui.life)
<1>1. chat.gen \in Nat /\ g \in Nat /\ chat.gen <= g /\ g > chat.gen
  BY GenIsNat DEF FollowsGen
<1>2. net[g].sent = 0
  BY <1>1 DEF Conversation, Flags, Requests
<1>3. SentGrows(net, net')
  BY <1>2, SentIsNat DEF SentGrows, Others
<1>4. \A h \in Gens : net'[h].whole = TRUE => net[h].whole = TRUE /\ net'[h].sent = net[h].sent
  BY DEF Others
<1>5. Listed(ui.messages, chat.gen, net) /\ WholeText(ui.messages, net, ui.life)
  BY DEF Conversation, Lists
<1>6. WholeText(ui.messages, net', ui.life)
  BY <1>4, <1>5, WholeStays
<1> QED BY <1>1, <1>3, <1>6, ListGrows

\* updateMessages and sendChat: next is the list ms with an answer that loads.
LEMMA SubmitKept ==
    ASSUME Inv, Inv', Shaped, Conversation, ui.busy = FALSE, disk.loaded = TRUE,
           NEW g, FollowsGen(g), NEW ms, NEW next, NEW kind \in Kinds, Submit(next, kind),
           NEW l, l = LoadingMessage(g), next = Append(ms, l), Listed(ms, g, net'), Settled(ms),
           WholeText(ms, net', ui.life), Steady(ui.messages, ms),
           \A i \in DOMAIN ms : Key(ms[i]) # <<"assistant", g>>
    PROVE  Kept
<1>1. /\ g \in Gens /\ chat'.gen = g /\ chat'.requesting = TRUE /\ chat'.timer = None
      /\ chat'.pend \in [gen : Nat, text : Text] /\ chat'.pend.gen = g /\ chat'.pend.text = <<>>
      /\ ctl'.streaming = FALSE /\ ctl'.source = None
      /\ net'[g].sent = 0 /\ net'[g].whole = FALSE /\ Others(g)
  BY NextRequest
<1>3. /\ AnswerOf(l, g, 0) /\ Pending(l) /\ Message(l, g, net') /\ l.from = "assistant"
      /\ l.of = g /\ l.status = "loading"
  BY <1>1, LoadingIs
<1>4. \A i \in DOMAIN ms : Key(ms[i]) # Key(l)
  BY <1>3 DEF Key
<1>5. Listed(next, g, net') /\ next # <<>> /\ Last(next) = l /\ Added(next, ms, l)
  <2>1. Listed(next, g, net') /\ Added(next, ms, l)
    BY <1>3, <1>4, ListAppend
  <2> QED BY <2>1 DEF Added
<1>6. \A i \in DOMAIN next : (i \in DOMAIN ms /\ next[i] = ms[i]) \/ next[i] = l
  <2>1. PICK k \in Nat : /\ DOMAIN ms = 1..k /\ DOMAIN next = 1..(k + 1) /\ next[k + 1] = l
                        /\ \A i \in 1..k : next[i] = ms[i]
    BY <1>5 DEF Added
  <2>2. \A i \in 1..(k + 1) : i \in 1..k \/ i = k + 1
    OBVIOUS
  <2> QED BY <2>1, <2>2
<1>7. WholeText(next, net', ui.life)
  <2>1. WholeMsg(l, net', ui.life)
    BY <1>3 DEF WholeMsg
  <2> QED BY <1>6, <2>1 DEF WholeText
<1>8. Steady(ui.messages, next)
  <2> SUFFICES ASSUME NEW i \in DOMAIN ui.messages, NEW j \in DOMAIN next,
                      Final(ui.messages[i]), Key(ui.messages[i]) = Key(next[j])
               PROVE  next[j].status = ui.messages[i].status
                      /\ next[j].text \in {ui.messages[i].text, EditedText}
    BY DEF Steady
  <2>1. ui.messages[i].of # g
    BY Older
  <2>2. j \in DOMAIN ms /\ next[j] = ms[j]
    BY <1>3, <1>6, <2>1, KeyIs
  <2> QED BY <2>2 DEF Steady
<1>9. ui'.messages = next /\ Rendered(TRUE)
  <2>1. PICK us : us = <<SetTo(next)>>
    OBVIOUS
  <2>2. Commit(us, g, TRUE)
    BY <2>1 DEF Submit, NextGen, FollowsGen
  <2>3. /\ ui'.queue = <<>> /\ ui'.busy = TRUE /\ ui'.life = ui.life
        /\ ui'.messages = Applied(ui.queue \o us, ui.messages, g)
        /\ disk'.stored = disk.stored /\ disk'.loaded = disk.loaded
        /\ disk'.latest \in {disk.latest, ui'.messages}
    BY <2>2, Committed
  <2>4. ui.queue \o us = us
    <3>1. <<>> \o <<SetTo(next)>> = <<SetTo(next)>>
      OBVIOUS
    <3> QED BY <2>1, <3>1, IdlePage
  <2>5. Applied(us, ui.messages, g) = next
    BY <2>1, SetApplied
  <2> QED BY <2>3, <2>4, <2>5 DEF Rendered
<1>10. Lists'
  <2>1. Listed(disk.latest, g, net') /\ Listed(disk.stored, g, net')
    BY <1>1, NextLists DEF Conversation, Lists
  <2> QED BY <1>1, <1>5, <1>7, <1>9, <2>1 DEF Lists, Rendered
<1>11. PageTypes'
  BY <1>1, <1>9 DEF Conversation, Flags, PageTypes, Rendered
<1>12. NotLoaded' /\ Asked'
  BY <1>1, <1>9 DEF NotLoaded, Asked, Rendered
<1>13. Requests'
  <2>1. Requests
    BY DEF Conversation, Flags
  <2>2. \A h \in Gens : h > g => h # g /\ h > chat.gen
    BY GenIsNat, GensAreNat DEF FollowsGen
  <2> QED BY <1>1, <2>1, <2>2 DEF Requests, Others
<1>14. Resting'
  BY <1>9 DEF Resting, Rendered
<1>15. Behind(l)' /\ Ahead(l)'
  <2>1. Awaits(0)'
    BY <1>1 DEF Awaits
  <2>2. 0 \in Nat /\ 0 <= net'[g].sent
    BY <1>1
  <2> QED BY <1>1, <1>3, <2>1, <2>2 DEF Behind, Ahead
<1>16. Tracks(g, l, l)'
  <2>1. next = Put(next, l)
    BY <1>5, PutLast DEF Listed
  <2>2. \A h : Applied(<<>>, next, h) = next
    BY AppliedEmpty
  <2>3. ui'.queue = <<>> /\ ui'.messages = next
    BY <1>9 DEF Rendered
  <2> QED BY <2>1, <2>2, <2>3 DEF Tracks
<1>17. Working'
  BY <1>1, <1>3, <1>5, <1>9, <1>15, <1>16 DEF Working, Rendered
<1> QED BY <1>8, <1>9, <1>10, <1>11, <1>12, <1>13, <1>14, <1>17 DEF Kept, Conversation, Flags

\* The user sends a question.
LEMMA SendKept ==
    ASSUME Inv, Inv', Shaped, Conversation, Habits = {}, NEW kind \in Kinds, Send(kind)
    PROVE  Kept
<1>1. /\ ui.busy = FALSE /\ disk.loaded = TRUE
  BY DEF Send, Idle, CanAct, Conversation, Flags, PageTypes, Shaped
<1>2. PICK g : FollowsGen(g)
  BY DEF FollowsGen
<1>3. PICK u : u = UserMessage(g)
  OBVIOUS
<1>4. PICK l : l = LoadingMessage(g)
  OBVIOUS
<1>5. PICK next : next = ui.messages \o <<u, l>> /\ Submit(next, kind)
  BY <1>2, <1>3, <1>4 DEF Send, NextGen, FollowsGen
<1>6. PICK ms : ms = Append(ui.messages, u)
  OBVIOUS
<1>7. /\ g \in Gens /\ net'[g].sent = 0 /\ net'[g].whole = FALSE /\ Others(g)
  BY <1>2, <1>5, NextRequest
<1>8. /\ Listed(ui.messages, g, net') /\ WholeText(ui.messages, net', ui.life)
      /\ Settled(ui.messages) /\ Steady(ui.messages, ui.messages)
  <2>1. Listed(ui.messages, chat.gen, net) /\ Unique(ui.messages)
    BY DEF Conversation, Lists, Listed
  <2> QED BY <1>1, <1>2, <1>7, <2>1, NextLists, IdlePage, SteadySame
<1>9. ~Pending(u) /\ Message(u, g, net') /\ u.from = "user" /\ u.of = g
  BY <1>3, <1>7, QuestionIs
<1>10. Listed(ms, g, net') /\ Settled(ms) /\ Added(ms, ui.messages, u)
  <2>1. \A i \in DOMAIN ui.messages : Key(ui.messages[i]) # Key(u)
    BY <1>2, <1>9, Older, KeyIs
  <2> QED BY <1>6, <1>8, <1>9, <2>1, ListAppend
<1>11. \A i \in DOMAIN ms : (i \in DOMAIN ui.messages /\ ms[i] = ui.messages[i]) \/ ms[i] = u
  <2>1. PICK k \in Nat : /\ DOMAIN ui.messages = 1..k /\ DOMAIN ms = 1..(k + 1) /\ ms[k + 1] = u
                         /\ \A i \in 1..k : ms[i] = ui.messages[i]
    BY <1>10 DEF Added
  <2>2. \A i \in 1..(k + 1) : i \in 1..k \/ i = k + 1
    OBVIOUS
  <2> QED BY <2>1, <2>2
<1>12. WholeText(ms, net', ui.life)
  <2>1. WholeMsg(u, net', ui.life)
    BY <1>9 DEF WholeMsg
  <2> QED BY <1>8, <1>11, <2>1 DEF WholeText
<1>13. Steady(ui.messages, ms)
  <2> SUFFICES ASSUME NEW i \in DOMAIN ui.messages, NEW j \in DOMAIN ms,
                      Final(ui.messages[i]), Key(ui.messages[i]) = Key(ms[j])
               PROVE  ms[j].status = ui.messages[i].status
                      /\ ms[j].text \in {ui.messages[i].text, EditedText}
    BY DEF Steady
  <2>1. ui.messages[i].of # g
    BY <1>2, Older
  <2>2. j \in DOMAIN ui.messages /\ ms[j] = ui.messages[j]
    BY <1>9, <1>11, <2>1, KeyIs
  <2> QED BY <1>8, <2>2 DEF Steady
<1>14. \A i \in DOMAIN ms : Key(ms[i]) # <<"assistant", g>>
  BY <1>2, <1>9, <1>11, Older DEF Key
<1>15. next = Append(ms, l)
  <2>1. PICK T : T = MsgType \cup {u, l}
    OBVIOUS
  <2>2. ui.messages \in Seq(T) /\ u \in T /\ l \in T
    <3>1. ui.messages \in Seq(MsgType) /\ MsgType \subseteq T /\ u \in T /\ l \in T
      BY <1>8, <2>1 DEF Listed
    <3> QED BY <3>1, SeqMonotonic
  <2>3. ms \in Seq(T)
    BY <1>6, <2>2, AppendProperties
  <2> QED BY <1>5, <1>6, <2>2, <2>3
<1> QED BY <1>1, <1>2, <1>4, <1>5, <1>8, <1>10, <1>12, <1>13, <1>14, <1>15, SubmitKept

\* The conversation up to its k-th message, and a new answer.
LEMMA PrefixKept ==
    ASSUME Inv, Inv', Shaped, Conversation, ui.busy = FALSE, disk.loaded = TRUE, NEW kind \in Kinds,
           NEW g, FollowsGen(g), NEW l, l = LoadingMessage(g), NEW k \in 0..Len(ui.messages),
           NEW ms, ms = SubSeq(ui.messages, 1, k), NEW next, next = Append(ms, l), Submit(next, kind)
    PROVE  Kept
<1>1. /\ g \in Gens /\ net'[g].sent = 0 /\ net'[g].whole = FALSE /\ Others(g)
  BY NextRequest
<1>2. /\ Listed(ui.messages, g, net') /\ WholeText(ui.messages, net', ui.life)
      /\ Settled(ui.messages) /\ ui.messages \in Seq(MsgType) /\ Unique(ui.messages)
  <2>1. Listed(ui.messages, chat.gen, net)
    BY DEF Conversation, Lists
  <2> QED BY <1>1, <2>1, NextLists, IdlePage DEF Listed
<1>3. ms \in Seq(MsgType) /\ Unique(ms) /\ Within(ms, ui.messages)
  BY <1>2, PrefixList
<1>4. /\ Listed(ms, g, net') /\ Settled(ms) /\ Steady(ui.messages, ms) /\ WholeText(ms, net', ui.life)
  <2>1. \A ns \in Seq(MsgType) : Unique(ns) /\ Within(ns, ui.messages) =>
          /\ Listed(ns, g, net') /\ Settled(ns) /\ Steady(ui.messages, ns)
          /\ WholeText(ns, net', ui.life)
    BY <1>2, ListPart
  <2> QED BY <1>3, <2>1
<1>5. \A i \in DOMAIN ms : Key(ms[i]) # <<"assistant", g>>
  BY <1>3, Older DEF Key, Within
<1> QED BY <1>4, <1>5, SubmitKept

\* The user asks again.
LEMMA RegenerateKept ==
    ASSUME Inv, Inv', Shaped, Conversation, Habits = {}, NEW i \in DOMAIN ui.messages,
           NEW kind \in Kinds, Regenerate(i, kind)
    PROVE  Kept
<1>1. /\ ui.busy = FALSE /\ disk.loaded = TRUE
  BY DEF Regenerate, Idle, CanAct, Conversation, Flags, PageTypes, Shaped
<1>2. PICK g : FollowsGen(g)
  BY DEF FollowsGen
<1>3. PICK l : l = LoadingMessage(g)
  OBVIOUS
<1>4. PICK k \in 0..Len(ui.messages) : k = IF ui.messages[i].from = "user" THEN i ELSE i - 1
  <2>1. ui.messages \in Seq(MsgType)
    BY DEF Conversation, Lists, Listed
  <2>2. PICK n \in Nat : n = Len(ui.messages) /\ i \in 1..n
    BY <2>1, LenProperties
  <2>3. i \in 0..n /\ i - 1 \in 0..n
    BY <2>2
  <2> QED BY <2>2, <2>3
<1>5. PICK ms : ms = SubSeq(ui.messages, 1, k)
  OBVIOUS
<1>6. PICK next : next = Append(ms, l)
  OBVIOUS
<1>7. Submit(next, kind)
  BY <1>2, <1>3, <1>4, <1>5, <1>6 DEF Regenerate, NextGen, FollowsGen
<1> QED BY <1>1, <1>2, <1>3, <1>4, <1>5, <1>6, <1>7, PrefixKept

\* The user changes a question and asks again.
LEMMA SaveAndSubmitKept ==
    ASSUME Inv, Inv', Shaped, Conversation, Habits = {}, NEW i \in DOMAIN ui.messages,
           NEW kind \in Kinds, SaveAndSubmit(i, kind)
    PROVE  Kept
<1>1. /\ ui.busy = FALSE /\ disk.loaded = TRUE /\ ui.messages[i].from = "user"
  BY DEF SaveAndSubmit, MaySave, CanAct, Conversation, Flags, PageTypes, Shaped
<1>2. PICK g : FollowsGen(g)
  BY DEF FollowsGen
<1>3. PICK l : l = LoadingMessage(g)
  OBVIOUS
<1>4. PICK k \in 0..Len(ui.messages) : k = i
  <2>1. ui.messages \in Seq(MsgType)
    BY DEF Conversation, Lists, Listed
  <2>2. PICK n \in Nat : n = Len(ui.messages) /\ i \in 1..n
    BY <2>1, LenProperties
  <2> QED BY <2>2
<1>5. PICK ms : ms = SubSeq(ui.messages, 1, k)
  OBVIOUS
<1>6. PICK next : next = Append(ms, l)
  OBVIOUS
<1>7. Submit(next, kind)
  BY <1>1, <1>2, <1>3, <1>4, <1>5, <1>6 DEF SaveAndSubmit, Edited, NextGen, FollowsGen
<1> QED BY <1>1, <1>2, <1>3, <1>4, <1>5, <1>6, <1>7, PrefixKept

\* The counters and requests that a stop leaves.
LEMMA StopCounters ==
    ASSUME Inv, Stop, NEW g \in Gens, g = chat.gen, NEW h, FollowsGen(h)
    PROVE  /\ h \in Gens /\ chat'.gen = h /\ chat'.requesting = FALSE /\ chat'.timer = None
           /\ chat'.pend \in [gen : Nat, text : Text] /\ chat'.pend.text = <<>>
           /\ ctl'.streaming = FALSE /\ ctl'.source = None
           /\ net'[g].whole = FALSE
           /\ \A r \in Gens : /\ net'[r].at = net[r].at /\ net'[r].kind = net[r].kind
                              /\ net'[r].sent = net[r].sent
           /\ \A r \in Gens \ {g} : net'[r].whole = net[r].whole
<1>1. h \in Gens /\ h \in Nat
  <2>1. chat.gen \in Nat /\ h <= MaxGen
    BY GenIsNat DEF Stop, NextGen, FollowsGen
  <2> QED BY <2>1, Bounds DEF Gens, FollowsGen
<1>2. ChatShape(chat)
  BY DEF Inv, Typed
<1>3. ctl'.streaming = FALSE /\ ctl'.source = None
  BY CancelledCtl DEF Stop, CtlNext
<1>4. PICK p : p = [gen |-> h, text |-> <<>>]
  OBVIOUS
<1>5. p \in [gen : Nat, text : Text] /\ p.text = <<>>
  <2>1. <<>> \in Text
    BY NoPieces
  <2> QED BY <1>1, <1>4, <2>1
<1>6. PICK c : c = Discarded(h) /\ chat' = [c EXCEPT !.requesting = FALSE, !.abort = None]
  BY DEF Stop, NextGen, FollowsGen
<1>7. c = [chat EXCEPT !.gen = h, !.timer = None, !.pend = p]
  BY <1>4, <1>6 DEF Discarded
<1>8. /\ DOMAIN c = {"gen", "pend", "timer", "requesting", "abort"}
      /\ c.gen = h /\ c.timer = None /\ c.pend = p
  BY <1>2, <1>7 DEF ChatShape
<1>9. chat'.gen = h /\ chat'.requesting = FALSE /\ chat'.timer = None /\ chat'.pend = p
  BY <1>6, <1>8
<1>10. PICK n \in [Gens -> NetType] :
        /\ n = Closed(Closed(net, ctl.source), chat.abort)
        /\ \A r \in Gens : /\ n[r].at = net[r].at /\ n[r].kind = net[r].kind
                           /\ n[r].sent = net[r].sent /\ n[r].whole = net[r].whole
  BY AllClosed
<1>11. PICK o : o = [n[g] EXCEPT !.whole = FALSE]
  OBVIOUS
<1>12. o.at = n[g].at /\ o.kind = n[g].kind /\ o.sent = n[g].sent /\ o.whole = FALSE
  <2>1. n[g] \in NetType
    OBVIOUS
  <2> QED BY <1>11, <2>1 DEF NetType
<1>13. net' = [n EXCEPT ![g] = o]
  BY <1>10, <1>11 DEF Stop
<1>14. net'[g] = o /\ \A r \in Gens \ {g} : net'[r] = n[r]
  BY <1>10, <1>13
<1> QED BY <1>1, <1>3, <1>5, <1>9, <1>10, <1>12, <1>14

\* The list that a stop leaves: the answer ends where it stands.
LEMMA StopList ==
    ASSUME Inv, Shaped, Conversation, ui.busy = TRUE, Stop, NEW g \in Gens, g = chat.gen
    PROVE  /\ Rendered(FALSE)
           /\ \E o : \E k \in Nat : /\ k <= net[g].sent /\ AnswerOf(o, g, k) /\ Final(o)
                                    /\ ui'.messages = Put(ui.messages, o)
<1>1. PICK h : h = g + 1
  OBVIOUS
<1>2. h # g
  BY <1>1, GensAreNat
<1>3. PICK idle : idle = Update("stop", h, <<>>) /\ OfGen(idle, h)
  BY OfGenIs
<1>4. PICK flush : flush = FlushUpdates(g)
  OBVIOUS
<1>5. \/ Commit(flush \o <<idle>>, h, FALSE)
      \/ /\ ui.queue = <<>> /\ flush # <<>>
         /\ Commit(<<SetTo(Apply(flush[1], ui.messages, g)), idle>>, h, FALSE)
  BY <1>1, <1>3, <1>4 DEF Stop, NextGen
<1>6. /\ ui.messages # <<>> /\ ui.messages \in Seq(MsgType)
  BY DEF Conversation, Working, Lists, Listed
<1>7. PICK l, b : Tracks(g, l, b) /\ Ahead(l) /\ Behind(b)
  BY DEF Conversation, Working
<1>8. flush = <<>> \/ \E f : flush = <<f>> /\ OfGen(f, g) /\ chat.pend.text # <<>> /\ f = Update("flush", g, chat.pend.text)
  BY <1>4, OfGenIs DEF FlushUpdates
<1>9. \A us : Commit(us, h, FALSE) =>
        Rendered(FALSE) /\ ui'.messages = Applied(ui.queue \o us, ui.messages, h)
  <2> SUFFICES ASSUME NEW us, Commit(us, h, FALSE)
               PROVE  Rendered(FALSE) /\ ui'.messages = Applied(ui.queue \o us, ui.messages, h)
    OBVIOUS
  <2>1. /\ ui'.queue = <<>> /\ ui'.busy = FALSE /\ ui'.life = ui.life
        /\ ui'.messages = Applied(ui.queue \o us, ui.messages, h)
        /\ disk'.stored = disk.stored /\ disk'.loaded = disk.loaded
        /\ disk'.latest \in {disk.latest, ui'.messages}
    BY Committed
  <2> QED BY <2>1 DEF Rendered
<1>10. \A m : \A k \in Nat : AnswerOf(m, g, k) =>
         AnswerOf(Touched(idle, m), g, k) /\ Final(Touched(idle, m))
  BY <1>3, TouchedByEnd
<1>11. CASE Commit(flush \o <<idle>>, h, FALSE)
  <2>1. PICK k \in Nat : k <= net[g].sent /\ AnswerOf(b, g, k)
    BY <1>7 DEF Behind
  <2>2. PICK o : o = Touched(idle, b) /\ AnswerOf(o, g, k) /\ Final(o)
    BY <1>10, <2>1
  <2>3. IsAnswer(b) /\ o \in MsgType
    BY <2>1, <2>2 DEF IsAnswer, AnswerOf
  <2>4. PICK S : ui.queue \in Seq(S)
    BY DEF Shaped
  <2>5. \E R : \E p \in Seq(R) : /\ ui.queue \o (flush \o <<idle>>) = Append(p, idle)
                                 /\ Applied(p, ui.messages, h) = Put(ui.messages, b)
    <3>0. Applied(ui.queue, ui.messages, h) = Put(ui.messages, b)
      BY <1>1, <1>7 DEF Tracks
    <3>1. CASE flush = <<>>
      <4>1. <<>> \o <<idle>> = <<idle>>
        OBVIOUS
      <4>2. ui.queue \o <<idle>> = Append(ui.queue, idle)
        <5>1. ui.queue \in Seq(S \cup {idle}) /\ idle \in S \cup {idle}
          BY <2>4, SeqMonotonic
        <5> QED BY <5>1, AppendIsConcat
      <4> QED BY <2>4, <3>0, <3>1, <4>1, <4>2
    <3>2. CASE flush # <<>>
      <4>1. PICK f : flush = <<f>> /\ OfGen(f, g)
        BY <1>8, <3>2
      <4>2. flush \o <<idle>> = <<f, idle>>
        BY <4>1, TwoInARow
      <4>3. PICK R : R = S \cup {f, idle}
        OBVIOUS
      <4>4. ui.queue \in Seq(R) /\ f \in R /\ idle \in R
        <5>1. S \subseteq R /\ f \in R /\ idle \in R
          BY <4>3
        <5> QED BY <2>4, <5>1, SeqMonotonic
      <4>5. PICK p \in Seq(R) : p = Append(ui.queue, f)
        BY <4>4, AppendProperties
      <4>6. ui.queue \o <<f, idle>> = Append(p, idle)
        BY <4>4, <4>5
      <4>7. Applied(p, ui.messages, h) = Put(ui.messages, b)
        BY <1>2, <3>0, <4>1, <4>4, <4>5, LeadsLost
      <4> QED BY <4>2, <4>5, <4>6, <4>7
    <3> QED BY <3>1, <3>2
  <2>6. PICK R : \E p \in Seq(R) : /\ ui.queue \o (flush \o <<idle>>) = Append(p, idle)
                                   /\ Applied(p, ui.messages, h) = Put(ui.messages, b)
    BY <2>5
  <2>7. PICK p \in Seq(R) : /\ ui.queue \o (flush \o <<idle>>) = Append(p, idle)
                            /\ Applied(p, ui.messages, h) = Put(ui.messages, b)
    BY <2>6
  <2>8. Applied(Append(p, idle), ui.messages, h) = Put(ui.messages, o)
    BY <1>3, <1>6, <2>2, <2>3, <2>7, LeadsAppend
  <2>9. PICK us : us = flush \o <<idle>> /\ Commit(us, h, FALSE)
    BY <1>11
  <2>10. Rendered(FALSE) /\ ui'.messages = Applied(ui.queue \o us, ui.messages, h)
    BY <1>9, <2>9
  <2> QED BY <2>1, <2>2, <2>7, <2>8, <2>9, <2>10
<1>12. ASSUME ui.queue = <<>>, flush # <<>>,
              Commit(<<SetTo(Apply(flush[1], ui.messages, g)), idle>>, h, FALSE)
       PROVE  /\ Rendered(FALSE)
              /\ \E o : \E k \in Nat : /\ k <= net[g].sent /\ AnswerOf(o, g, k) /\ Final(o)
                                       /\ ui'.messages = Put(ui.messages, o)
  <2>1. PICK f : /\ flush = <<f>> /\ OfGen(f, g) /\ chat.pend.text # <<>>
                 /\ f = Update("flush", g, chat.pend.text)
    BY <1>8, <1>12
  <2>2. chat.requesting = TRUE
    BY <2>1 DEF Conversation, Flags, Asked, Inv, Typed, ChatShape
  <2>3. PICK k \in Nat : k <= net[g].sent /\ AnswerOf(l, g, k) /\ Pending(l) /\ Awaits(k)
    BY <1>7, <2>2 DEF Ahead
  <2>4. PICK s \in Nat : s = net[g].sent
    BY SentIsNat
  <2>5. PICK m : m = Touched(f, l) /\ AnswerOf(m, g, s)
    BY <2>1, <2>3, <2>4, FlushGives
  <2>6. IsAnswer(l) /\ IsAnswer(m) /\ l \in MsgType /\ m \in MsgType
    BY <2>3, <2>5 DEF IsAnswer, AnswerOf
  <2>7. ui.messages = Put(ui.messages, l)
    BY <1>7, <1>12, AppliedEmpty DEF Tracks
  <2>8. Apply(f, ui.messages, g) = Put(ui.messages, m)
    BY <1>6, <2>1, <2>5, <2>6, <2>7, ApplyPut DEF IsAnswer
  <2>9. PICK o : o = Touched(idle, m) /\ AnswerOf(o, g, s) /\ Final(o)
    BY <1>10, <2>5
  <2>10. o \in MsgType
    BY <2>9 DEF AnswerOf
  <2>11. PICK t : t = SetTo(Put(ui.messages, m))
    OBVIOUS
  <2>12. PICK p \in Seq({t}) : p = <<t>>
    <3>1. <<t>> \in Seq({t})
      OBVIOUS
    <3> QED BY <3>1
  <2>13. Applied(p, ui.messages, h) = Put(ui.messages, m)
    BY <2>11, <2>12, SetApplied
  <2>14. Applied(Append(p, idle), ui.messages, h) = Put(ui.messages, o)
    BY <1>3, <1>6, <2>6, <2>9, <2>10, <2>13, LeadsAppend
  <2>15. PICK us : us = <<t, idle>>
    OBVIOUS
  <2>16. Commit(us, h, FALSE)
    <3>1. flush[1] = f
      BY <2>1
    <3> QED BY <1>12, <2>8, <2>11, <2>15, <3>1
  <2>17. ui.queue \o us = Append(p, idle)
    <3>1. p \o <<idle>> = us
      BY <2>12, <2>15, TwoInARow
    <3>2. PICK T : T = {t, idle}
      OBVIOUS
    <3>3. p \in Seq(T) /\ idle \in T
      <4>1. {t} \subseteq T /\ idle \in T
        BY <3>2
      <4> QED BY <4>1, SeqMonotonic
    <3>4. Append(p, idle) = us /\ us \in Seq(T)
      BY <3>1, <3>3, AppendIsConcat, AppendProperties
    <3>5. <<>> \o us = us
      BY <3>4, ConcatEmptySeq
    <3> QED BY <1>12, <3>4, <3>5
  <2>18. Rendered(FALSE) /\ ui'.messages = Applied(ui.queue \o us, ui.messages, h)
    BY <1>9, <2>16
  <2>19. s <= net[g].sent
    BY <2>4
  <2> QED BY <2>9, <2>14, <2>17, <2>18, <2>19
<1> QED BY <1>5, <1>11, <1>12

\* The user stops the generation.
LEMMA StopKept ==
    ASSUME Inv, Inv', Shaped, Conversation, Stop
    PROVE  Kept
<1>1. ui.busy = TRUE
  BY DEF Stop, Conversation, Flags, PageTypes
<1>2. PICK g \in Gens : g = chat.gen
  BY <1>1 DEF Conversation, Working
<1>3. PICK h : FollowsGen(h)
  BY DEF FollowsGen
<1>4. /\ h \in Gens /\ chat'.gen = h /\ chat'.requesting = FALSE /\ chat'.timer = None
      /\ chat'.pend \in [gen : Nat, text : Text] /\ chat'.pend.text = <<>>
      /\ ctl'.streaming = FALSE /\ ctl'.source = None
      /\ net'[g].whole = FALSE
      /\ \A r \in Gens : /\ net'[r].at = net[r].at /\ net'[r].kind = net[r].kind
                         /\ net'[r].sent = net[r].sent
      /\ \A r \in Gens \ {g} : net'[r].whole = net[r].whole
  BY <1>2, <1>3, StopCounters
<1>5. /\ Rendered(FALSE)
      /\ \E o : \E k \in Nat : /\ k <= net[g].sent /\ AnswerOf(o, g, k) /\ Final(o)
                               /\ ui'.messages = Put(ui.messages, o)
  BY <1>1, <1>2, StopList
<1>6. PICK o : \E k \in Nat : /\ k <= net[g].sent /\ AnswerOf(o, g, k) /\ Final(o)
                              /\ ui'.messages = Put(ui.messages, o)
  BY <1>5
<1>7. PICK k \in Nat : /\ k <= net[g].sent /\ AnswerOf(o, g, k) /\ Final(o)
                       /\ ui'.messages = Put(ui.messages, o)
  BY <1>6
<1>8. /\ g \in Nat /\ h \in Nat /\ g <= h /\ \A r \in Gens : r >= h => r > g
  BY <1>2, <1>3, <1>4, GensAreNat DEF FollowsGen
<1>9. SentGrows(net, net')
  BY <1>4, SentIsNat DEF SentGrows
<1>10. \A ms : Listed(ms, g, net) => Listed(ms, h, net')
  BY <1>8, <1>9, ListGrows
<1>11. /\ Listed(ui.messages, g, net) /\ Listed(disk.latest, g, net) /\ Listed(disk.stored, g, net)
       /\ WholeText(ui.messages, net, ui.life)
  BY <1>2 DEF Conversation, Lists
<1>12. Listed(ui.messages, h, net') /\ Listed(disk.latest, h, net') /\ Listed(disk.stored, h, net')
  BY <1>10, <1>11
<1>13. WholeText(ui.messages, net', ui.life)
  <2>1. \A r \in Gens : net'[r].whole = TRUE => net[r].whole = TRUE /\ net'[r].sent = net[r].sent
    BY <1>4
  <2> QED BY <1>11, <2>1, WholeStays
<1>14. WholeMsg(o, net', ui.life)
  BY <1>4, <1>7 DEF WholeMsg, AnswerOf
<1>15. /\ ui.messages # <<>> /\ Last(ui.messages).from = "assistant" /\ Last(ui.messages).of = g
       /\ Pending(Last(ui.messages)) /\ disk.loaded = TRUE
  BY <1>1, <1>2 DEF Conversation, Working, Behind, AnswerOf
<1>16. k <= net'[g].sent
  BY <1>4, <1>7
<1>17. PICK q : q = Put(ui.messages, o)
  OBVIOUS
<1>18. Listed(q, h, net') /\ Settled(q) /\ Steady(ui.messages, q) /\ WholeText(q, net', ui.life)
  BY <1>7, <1>12, <1>13, <1>14, <1>15, <1>16, <1>17, ListPut
<1>19. ui'.messages = q
  BY <1>7, <1>17
<1>20. Lists'
  BY <1>4, <1>5, <1>12, <1>18, <1>19 DEF Lists, Rendered
<1>21. PageTypes'
  BY <1>4, <1>5 DEF Conversation, Flags, PageTypes, Rendered
<1>22. NotLoaded' /\ Asked'
  BY <1>4, <1>5, <1>15 DEF NotLoaded, Asked, Rendered
<1>23. Requests'
  <2>1. Requests
    BY DEF Conversation, Flags
  <2>2. \A r \in Gens : (r = h => r > g) /\ (r > h => r > g /\ r # g)
    BY <1>2, <1>3, <1>8, GensAreNat DEF FollowsGen
  <2> QED BY <1>2, <1>4, <2>1, <2>2 DEF Requests
<1>24. Resting' /\ Working'
  BY <1>4, <1>5, <1>18, <1>19 DEF Resting, Working, Rendered
<1> QED BY <1>18, <1>19, <1>20, <1>21, <1>22, <1>23, <1>24 DEF Kept, Conversation, Flags

-----------------------------------------------------------------------------
(* The life of the page. *)

\* The debounced save.
LEMMA SaveTimerKept ==
    ASSUME Inv, Shaped, Conversation, SaveTimer
    PROVE  Kept
<1>1. UNCHANGED <<ui, chat, ctl, net>>
  BY DEF SaveTimer
<1>2. disk'.latest = disk.latest /\ disk'.loaded = disk.loaded /\ disk'.stored \in {disk.stored, Trimmed(disk.latest)}
  BY DEF SaveTimer, Shaped
<1>3. Lists'
  BY <1>1, <1>2, ListTrimmed DEF Conversation, Lists
<1>4. Flags'
  BY <1>1, <1>2 DEF Conversation, Flags, PageTypes, Asked, Requests, NotLoaded
<1>5. Resting'
  BY <1>1 DEF Conversation, Resting
<1>6. Working'
  BY <1>1, <1>2 DEF Conversation, Working, Behind, Ahead, Awaits, Tracks
<1>7. Steady(ui.messages, ui'.messages)
  BY <1>1, SteadySame DEF Conversation, Lists, Listed
<1> QED BY <1>3, <1>4, <1>5, <1>6, <1>7 DEF Kept, Conversation

\* The page is shown.
LEMMA MountKept ==
    ASSUME Inv, Shaped, Conversation, Mount
    PROVE  Kept
<1>1. UNCHANGED <<chat, ctl, disk, net>> /\ ui' = [ui EXCEPT !.mounted = TRUE]
  BY DEF Mount
<1>2. /\ ui'.messages = ui.messages /\ ui'.queue = ui.queue /\ ui'.busy = ui.busy /\ ui'.life = ui.life
  BY <1>1 DEF Shaped
<1>3. Lists'
  BY <1>1, <1>2 DEF Conversation, Lists
<1>4. Flags'
  BY <1>1, <1>2 DEF Conversation, Flags, PageTypes, Asked, Requests, NotLoaded
<1>5. Resting'
  BY <1>1, <1>2 DEF Conversation, Resting
<1>6. Working'
  BY <1>1, <1>2 DEF Conversation, Working, Behind, Ahead, Awaits, Tracks
<1>7. Steady(ui.messages, ui'.messages)
  BY <1>2, SteadySame DEF Conversation, Lists, Listed
<1> QED BY <1>3, <1>4, <1>5, <1>6, <1>7 DEF Kept, Conversation

\* The stored conversation is loaded: what still waits in it is ended.
LEMMA LoadKept ==
    ASSUME Inv, Shaped, Conversation, Load
    PROVE  Kept
<1>1. disk.loaded = FALSE
  BY DEF Load, Shaped
<1>2. ui.messages = <<>> /\ ui.busy = FALSE /\ chat.gen = ui.life
  BY <1>1 DEF Conversation, Flags, NotLoaded
<1>3. PICK ms, stored, e : /\ Loaded(ms, stored, e)
                           /\ ms = LoadMessages \/ ms = <<>>
                           /\ stored = Trimmed(ms) \/ stored = disk.stored
  BY LoadIs
<1>4. /\ ui' = [ui EXCEPT !.messages = ms, !.queue = <<>>] /\ UNCHANGED <<chat, ctl, net>>
      /\ disk' = [disk EXCEPT !.latest = ms, !.stored = stored, !.loaded = TRUE, !.unsaved = e]
  BY <1>3 DEF Load, Loaded
<1>5. /\ ui'.messages = ms /\ ui'.queue = <<>> /\ ui'.busy = FALSE /\ ui'.life = ui.life
      /\ disk'.latest = ms /\ disk'.stored = stored /\ disk'.loaded = TRUE
  BY <1>2, <1>4 DEF Shaped
<1>a. Listed(disk.stored, chat.gen, net)
  BY DEF Conversation, Lists
<1>6. Listed(ms, chat.gen, net) /\ Settled(ms)
  <2>1. CASE ms = LoadMessages
    <3>1. Listed(Normalized(disk.stored), chat.gen, net)
      BY <1>a, ListNormalized
    <3>2. Listed(Trimmed(Normalized(disk.stored)), chat.gen, net)
      BY <3>1, ListTrimmed
    <3> QED BY <2>1, <3>2, ListSanitized DEF LoadMessages
  <2>2. CASE ms = <<>>
    BY <2>2, EmptyList
  <2> QED BY <1>3, <2>1, <2>2
<1>7. Listed(stored, chat.gen, net)
  <2>1. Listed(Trimmed(ms), chat.gen, net)
    BY <1>6, ListTrimmed
  <2> QED BY <1>3, <1>a, <2>1
<1>8. WholeText(ms, net, ui.life)
  <2>1. chat.gen \in Nat
    BY GenIsNat
  <2>2. WholeText(ms, net, chat.gen)
    BY <1>6, <2>1, WholeBefore
  <2> QED BY <1>2, <2>2
<1>9. Lists'
  BY <1>4, <1>5, <1>6, <1>7, <1>8 DEF Lists
<1>10. chat.requesting = FALSE
  BY <1>2, IdlePage
<1>11. PageTypes' /\ Asked' /\ Requests' /\ NotLoaded'
  BY <1>4, <1>5 DEF Conversation, Flags, PageTypes, Asked, Requests, NotLoaded
<1>12. Resting' /\ Working'
  BY <1>4, <1>5, <1>6, <1>10 DEF Resting, Working
<1>13. Steady(ui.messages, ui'.messages)
  BY <1>2, EmptyList
<1> QED BY <1>9, <1>11, <1>12, <1>13 DEF Kept, Conversation, Flags

\* A new instance of the page.
LEMMA ReplacedKept ==
    ASSUME Inv, Shaped, Conversation, NEW stored, Replaced(stored), Listed(stored, chat.gen, net)
    PROVE  Kept
<1>1. PICK h : FollowsGen(h)
  BY DEF FollowsGen
<1>2. /\ chat.gen \in Nat /\ h \in Nat /\ chat.gen <= h
      /\ \A r \in Gens : (r = h \/ r > h) => r > chat.gen
  BY <1>1, GenIsNat, GensAreNat DEF FollowsGen
<1>3. /\ ui'.messages = <<>> /\ ui'.queue = <<>> /\ ui'.busy = FALSE /\ ui'.life = h
  BY <1>1 DEF Replaced, FreshPage, NextGen, FollowsGen
<1>4. /\ chat'.gen = h /\ chat'.requesting = FALSE /\ chat'.timer = None
      /\ chat'.pend = [gen |-> 0, text |-> <<>>]
  BY <1>1 DEF Replaced, FreshChat, NextGen, FollowsGen, None
<1>5. chat'.pend \in [gen : Nat, text : Text] /\ chat'.pend.text = <<>>
  <2>1. <<>> \in Text
    BY NoPieces
  <2> QED BY <1>4, <2>1
<1>6. ctl'.streaming = FALSE
  BY DEF Replaced, FreshCtl
<1>7. disk'.latest = <<>> /\ disk'.stored = stored /\ disk'.loaded = FALSE
  BY DEF Replaced, FreshDisk
<1>8. \A r \in Gens : /\ net'[r].sent = net[r].sent /\ net'[r].whole = net[r].whole
                      /\ net'[r].at \in {"none", "over"}
                      /\ net[r].at = "none" => net'[r].at = "none"
  <2> SUFFICES ASSUME NEW r \in Gens
               PROVE  /\ net'[r].sent = net[r].sent /\ net'[r].whole = net[r].whole
                      /\ net'[r].at \in {"none", "over"}
                      /\ net[r].at = "none" => net'[r].at = "none"
    OBVIOUS
  <2>1. net'[r] = IF net[r].at = "none" THEN net[r] ELSE Over(r)[r]
    BY DEF Replaced
  <2> QED BY <2>1, OverIs
<1>9. SentGrows(net, net')
  BY <1>8, SentIsNat DEF SentGrows
<1>10. Listed(stored, h, net')
  BY <1>2, <1>9, ListGrows
<1>11. Lists'
  BY <1>3, <1>4, <1>7, <1>10, EmptyList DEF Lists
<1>12. PageTypes'
  <2>1. ui'.busy \in BOOLEAN
    BY <1>3
  <2> QED BY <1>2, <1>3, <1>5, <2>1 DEF PageTypes
<1>13. Asked' /\ NotLoaded'
  BY <1>3, <1>4, <1>5, <1>6, <1>7 DEF Asked, NotLoaded
<1>14. Requests'
  <2>1. Requests
    BY DEF Conversation, Flags
  <2> QED BY <1>2, <1>4, <1>8, <2>1 DEF Requests
<1>15. Resting' /\ Working'
  BY <1>3, <1>4, EmptyList DEF Resting, Working
<1>16. Steady(ui.messages, ui'.messages)
  BY <1>3, EmptyList
<1> QED BY <1>11, <1>12, <1>13, <1>14, <1>15, <1>16 DEF Kept, Conversation, Flags

\* The page is left, or dies.
LEMMA LeaveKept ==
    ASSUME Inv, Shaped, Conversation, Unmount \/ Reload
    PROVE  Kept
<1>1. Listed(disk.stored, chat.gen, net) /\ Listed(Trimmed(disk.latest), chat.gen, net)
  BY ListTrimmed DEF Conversation, Lists
<1>2. PICK stored : /\ stored = disk.stored \/ stored = Trimmed(disk.latest)
                    /\ Replaced(stored)
  BY DEF Unmount, Reload
<1> QED BY <1>1, <1>2, ReplacedKept

\* Every step.
LEMMA RequestKept ==
    ASSUME Inv, Inv', Shaped, Conversation, NEW g \in Gens, RequestStep(g)
    PROVE  Kept
BY UnseenKept, ReadyKept, FailedKept, ChunkKept, StreamKept, PlainAnswerKept, PlainErrorKept DEF RequestStep

\* Every step of the user.
LEMMA UserKept ==
    ASSUME Inv, Inv', Shaped, Conversation, Habits = {}, UserStep
    PROVE  Kept
<1>1. ASSUME NEW i \in DOMAIN ui.messages,
             \/ SaveEdit(i) \/ Delete(i)
             \/ \E kind \in Kinds : Regenerate(i, kind) \/ SaveAndSubmit(i, kind)
      PROVE  Kept
  BY <1>1, SaveEditKept, DeleteKept, RegenerateKept, SaveAndSubmitKept
<1> QED BY <1>1, SendKept, ClearKept, StopKept DEF UserStep

\* Every step.
LEMMA ConversationStep ==
    ASSUME Inv, Inv', Shaped, Conversation, Habits = {}, [Next]_vars
    PROVE  Kept
<1>1. CASE UNCHANGED vars
  <2>1. UNCHANGED <<ui, chat, ctl, disk, net>>
    BY <1>1 DEF vars
  <2>2. Lists' /\ Flags' /\ Resting'
    BY <2>1 DEF Conversation, Lists, Flags, PageTypes, Asked, Requests, NotLoaded, Resting
  <2>3. Working'
    BY <2>1, ZenonT(60) DEF Conversation, Working, Behind, Ahead, Awaits, Tracks
  <2>4. Steady(ui.messages, ui'.messages)
    BY <2>1, SteadySame DEF Conversation, Lists, Listed
  <2> QED BY <2>2, <2>3, <2>4 DEF Kept, Conversation
<1>2. ASSUME NEW g \in Gens, RequestStep(g) PROVE Kept
  BY <1>2, RequestKept
<1>3. CASE UserStep
  BY <1>3, UserKept
<1>4. CASE Render \/ FlushTimer \/ SaveTimer \/ Mount \/ Load \/ Unmount \/ Reload
  BY <1>4, RenderKept, FlushTimerKept, SaveTimerKept, MountKept, LoadKept, LeaveKept
<1> QED BY <1>1, <1>2, <1>3, <1>4 DEF Next

-----------------------------------------------------------------------------
(* The theorems. *)

\* The whole of what is kept.
Talk == Inv /\ Shaped /\ Saved /\ Conversation

\* It holds at first.
LEMMA TalkInit == Init => Talk
BY InvInit, SavedInit, ConversationInit DEF Talk

\* Every step keeps it, and no answer that was complete or failed changes.
LEMMA TalkStep ==
    ASSUME Talk, Habits = {}, [Next]_vars
    PROVE  Talk' /\ Steady(ui.messages, ui'.messages)
<1>1. Inv' /\ Shaped' /\ Saved'
  BY InvStep, SavedStep DEF Talk
<1> QED BY <1>1, ConversationStep DEF Talk, Kept

\* Whatever is merged, flushed, rendered late, stopped or loaded again, an answer shows
\* only what its own request has sent; and it shows that in its order and each place
\* once, all of it when the request came to its end on this page, if no part of the
\* text is followed by its repetition, whatever the lengths of the chunks
\* (mergePendingStreamChunk, getAppendableChunk, flushStreamUpdates).
THEOREM TextIsExact == ASSUME Habits = {} PROVE Spec => []TextExact
<1>1. Talk /\ [Next]_vars => Talk'
  BY TalkStep
<1>2. Talk => TextExact
  BY ConversationIsEnough DEF Talk
<1> QED BY <1>1, <1>2, TalkInit, PTL DEF Spec

\* When the page shows no generation and nothing waits to be rendered, no message is
\* left loading or streaming (handleStreamComplete, stopGeneration,
\* sanitizeMessagesOnLoad).
THEOREM QuietPageIsFinal == ASSUME Habits = {} PROVE Spec => []QuietIsFinal
<1>1. Talk /\ [Next]_vars => Talk'
  BY TalkStep
<1>2. Talk => QuietIsFinal
  BY ConversationIsEnough DEF Talk
<1> QED BY <1>1, <1>2, TalkInit, PTL DEF Spec

\* An answer that was shown as complete or failed is never changed again but by the
\* user's own edit: no late event, timer or queued update of its request reaches it.
THEOREM FinalAnswersStay == ASSUME Habits = {} PROVE Spec => FinalStable
<1> DEFINE A == \A i \in DOMAIN ui.messages, j \in DOMAIN ui.messages' :
                  LET m == ui.messages[i] n == ui.messages'[j]
                  IN  Final(m) /\ Key(m) = Key(n) /\ ui.mounted' =>
                          n.status = m.status /\ n.text \in {m.text, EditedText}
<1>1. Talk /\ [Next]_vars => Talk' /\ [A]_vars
  <2> SUFFICES ASSUME Talk, [Next]_vars PROVE Talk' /\ A
    OBVIOUS
  <2>1. Talk' /\ Steady(ui.messages, ui'.messages)
    BY TalkStep
  <2> QED BY <2>1 DEF Steady
<1> QED BY <1>1, TalkInit, PTL DEF Spec, FinalStable
=============================================================================
