------------------------------ MODULE QueryApi ------------------------------
(***************************************************************************)
(* One retrieval request and the goroutines it starts.  The eight handlers *)
(* of internal/handler/query*.go and internal/connecthandler/query*.go are *)
(* two shapes: a query waits for the strategy and answers with the chosen  *)
(* sections; a stream ranges over a channel the strategy fills, and writes *)
(* each event as it comes.  Either asks about one document or about many,  *)
(* and is served over REST or Connect.                                     *)
(*                                                                         *)
(* The strategy is the engine's, known here by how it is used: it selects  *)
(* section IDs one by one, not always IDs of the tree, and ends by         *)
(* completing, failing, or giving up when its context is cancelled.        *)
(***************************************************************************)
EXTENDS Naturals, Sequences, FiniteSets, Functions

CONSTANTS
    Doc,          \* the documents of a many-document request
    Section,      \* the IDs a strategy may name
    Tree,         \* those of the documents' trees
    NoSection,    \* an event without a section
    MaxSections,  \* max_sections of the request, 0 for no cap
    MaxPicks,     \* bound: IDs selected in a document
    Buffer,       \* events the strategy's channel holds
    Room          \* events the ResponseWriter holds until it writes them out

ASSUME QueryAssumption ==
    /\ Doc # {} /\ Tree \subseteq Section /\ NoSection \notin Section
    /\ MaxSections \in Nat /\ MaxPicks \in Nat
    /\ Buffer \in Nat \ {0} /\ Room \in Nat

VARIABLES
    api,         \* which handler: [shape, form, transport]
    phase,       \* where it is
    cancelled,   \* the request's context
    client,      \* "open" until it disconnects
    run,         \* Doc -> the strategy's run on the document
    picks,       \* Doc -> the IDs it has selected, in order
    chan,        \* the events it has sent and the handler has not received
    wire,        \* what the handler has written of a stream
    visible,     \* how much of it has left the ResponseWriter
    code,        \* how a query was answered, with 200 or with 500
    answer,      \* Doc -> the sections a query returns
    errors       \* the documents a query on many returns as errors

requestVars  == <<api, client>>
strategyVars == <<run, picks>>
answerVars   == <<code, answer, errors>>
vars == <<api, phase, cancelled, client, run, picks, chan, wire, visible,
          code, answer, errors>>

Api == [shape : {"query", "stream"}, form : {"one", "many"},
        transport : {"rest", "connect"}]

Event == [doc : Doc, type : {"started", "section", "completed", "error"},
          section : Section \cup {NoSection}]

Plain(d, type) == [doc |-> d, type |-> type, section |-> NoSection]

----------------------------------------------------------------------------

\* The loop over the chosen IDs: what it has kept after the first n of them.
Kept(ids) ==
    LET kept[n \in 0 .. Len(ids)] ==
            IF n = 0 THEN <<>>
            ELSE IF ids[n] \in Tree THEN Append(kept[n - 1], ids[n])
            ELSE kept[n - 1]
    IN  kept

\* The chosen IDs without those that are not in the tree.
Known(ids) == Kept(ids)[Len(ids)]

Cap(ids) ==
    IF MaxSections > 0 /\ Len(ids) > MaxSections
    THEN SubSeq(ids, 1, MaxSections) ELSE ids

\* Slip: an ID the strategy made up is not skipped.
Returned_Unskipped(form, ids) == Cap(ids)

\* The sections of a document in a query's answer.  A query on one document
\* caps the IDs and then skips those that are not in the tree; one on many
\* skips first, and stops when it has enough.
Returned(form, ids) == IF form = "one" THEN Known(Cap(ids)) ELSE Cap(Known(ids))

\* Slip: every handler builds its event the way Connect's many-document
\* stream does, from the event alone.
Shown_FromEvent(e) == [e EXCEPT !.section = NoSection]

\* What is written for an event.  On one document, an ID that is not in the
\* tree leaves the section out.  On many, REST sends the ID as it came, and
\* Connect's event is built without a section.
Shown(e) ==
    [e EXCEPT !.section =
        CASE api.form = "one"         -> IF @ \in Tree THEN @ ELSE NoSection
          [] api.transport = "rest"   -> @
          [] OTHER                    -> NoSection]

\* AccessLog and Metrics hand the handler a statusRecorder, which embeds the
\* interface http.ResponseWriter and so has no method Flush.
CanFlush == FALSE

Ended(d)  == run[d] \in {"idle", "completed", "failed", "stopped"}
AllEnded  == \A d \in Doc : Ended(d)
Asked(d)  == run[d] # "idle"

Init ==
    /\ api \in Api
    /\ phase = "new" /\ cancelled = FALSE /\ client = "open"
    /\ run = [d \in Doc |-> "idle"] /\ picks = [d \in Doc |-> <<>>]
    /\ chan = <<>> /\ wire = <<>> /\ visible = 0
    /\ code = "none" /\ answer = [d \in Doc |-> <<>>] /\ errors = {}

----------------------------------------------------------------------------

\* 400, 404, 500, 501 or 503: nothing has been started yet.
Refuse ==
    /\ phase = "new"
    /\ phase' = "refused" /\ cancelled' = TRUE
    /\ UNCHANGED <<requestVars, strategyVars, chan, wire, visible, answerVars>>

\* The tree is loaded and the strategy called, with the request's context.
Start(docs) ==
    /\ phase = "new"
    /\ docs # {} /\ (api.form = "one" => Cardinality(docs) = 1)
    /\ phase' = "running"
    /\ run' = [d \in Doc |-> IF d \in docs THEN "called" ELSE "idle"]
    /\ UNCHANGED <<requestVars, cancelled, picks, chan, wire, visible,
                   answerVars>>

\* Into the channel of a stream, once there is room.
Emit(e) ==
    IF api.shape = "stream"
    THEN Len(chan) < Buffer /\ chan' = Append(chan, e)
    ELSE UNCHANGED chan

RunTo(d, state) == run' = [run EXCEPT ![d] = state]

strategyElse == <<requestVars, phase, cancelled, wire, visible, answerVars>>

Started(d) ==
    /\ run[d] = "called"
    /\ RunTo(d, "selecting") /\ Emit(Plain(d, "started"))
    /\ UNCHANGED <<strategyElse, picks>>

Select(d, s) ==
    /\ run[d] = "selecting" /\ Len(picks[d]) < MaxPicks
    /\ picks' = [picks EXCEPT ![d] = Append(@, s)]
    /\ Emit([doc |-> d, type |-> "section", section |-> s])
    /\ UNCHANGED <<strategyElse, run>>

Complete(d) ==
    /\ run[d] = "selecting"
    /\ RunTo(d, "completed") /\ Emit(Plain(d, "completed"))
    /\ UNCHANGED <<strategyElse, picks>>

Fail(d) ==
    /\ run[d] \in {"called", "selecting"}
    /\ RunTo(d, "failed") /\ Emit(Plain(d, "error"))
    /\ UNCHANGED <<strategyElse, picks>>

\* Slip: the strategy is called with a context of its own.
Heard_Detached == FALSE

\* The strategy is called with the request's context, which the deadline, a
\* disconnect and the handler's return all cancel.
Heard == cancelled

\* ctx.Done() ends a run wherever it waits, on the model or on the channel.
Stop(d) ==
    /\ Heard /\ ~ Ended(d)
    /\ RunTo(d, "stopped")
    /\ UNCHANGED <<strategyElse, picks, chan>>

Strategy(d) ==
    \/ Started(d) \/ Complete(d) \/ Fail(d) \/ Stop(d)
    \/ \E s \in Section : Select(d, s)

----------------------------------------------------------------------------

\* The handler returns, and EndpointTimeout's deferred cancel() runs.
Return == phase' = "returned" /\ cancelled' = TRUE

\* Slip: the whole of a many-document stream ends with the first document.
Drained_FirstDocument == chan = <<>> /\ \E d \in Doc : run[d] # "idle" /\ Ended(d)

\* The range loop is over when the channel is closed and empty.
Drained == chan = <<>> /\ AllEnded

\* One turn of the range loop.  The ResponseWriter passes on what it holds
\* when it overflows, or when it is flushed.  REST ignores the error of a
\* write to a client that has left, and goes on ranging.
Write ==
    /\ phase = "running" /\ chan # <<>>
    /\ client = "open" \/ api.transport = "rest"
    /\ chan' = Tail(chan)
    /\ IF client = "open"
       THEN /\ wire' = Append(wire, Shown(Head(chan)))
            /\ visible' = IF CanFlush \/ Len(wire') - visible > Room
                          THEN Len(wire') ELSE visible
       ELSE UNCHANGED <<wire, visible>>
    /\ UNCHANGED <<requestVars, phase, cancelled, strategyVars, answerVars>>

\* Connect's Send fails when the client has left, and the handler returns.
SendFails ==
    /\ phase = "running" /\ chan # <<>>
    /\ client = "gone" /\ api.transport = "connect"
    /\ chan' = Tail(chan)
    /\ Return
    /\ UNCHANGED <<requestVars, strategyVars, wire, visible, answerVars>>

EndStream ==
    /\ phase = "running" /\ api.shape = "stream" /\ Drained
    /\ Return
    /\ visible' = IF client = "open" THEN Len(wire) ELSE visible
    /\ UNCHANGED <<requestVars, strategyVars, chan, wire, answerVars>>

\* Slip: only what the strategy itself reports as an error is returned as one.
Unanswered_Failed == {d \in Doc : run[d] = "failed"}

\* The documents whose run has not come to a choice of sections.
Unanswered == {d \in Doc : Asked(d) /\ run[d] # "completed"}

\* A query on one document fails with its strategy.  One on many returns the
\* sections of the documents that succeeded and the others as errors; or the
\* whole of it fails.
AnswerQuery ==
    /\ phase = "running" /\ api.shape = "query" /\ AllEnded
    /\ Return
    /\ \/ /\ api.form = "many" \/ Unanswered # {}
          /\ code' = "failed" /\ UNCHANGED <<answer, errors>>
       \/ /\ api.form = "many" \/ Unanswered = {}
          /\ code' = "ok"
          /\ answer' = [d \in Doc |->
                           IF run[d] = "completed"
                           THEN Returned(api.form, picks[d]) ELSE <<>>]
          /\ errors' = Unanswered
    /\ UNCHANGED <<requestVars, strategyVars, chan, wire, visible>>

Handler == Write \/ SendFails \/ EndStream \/ AnswerQuery

\* The client leaves: net/http cancels the request's context.
Disconnect ==
    /\ phase = "running" /\ client = "open"
    /\ client' = "gone" /\ cancelled' = TRUE
    /\ UNCHANGED <<api, phase, strategyVars, chan, wire, visible, answerVars>>

\* The query timeout of EndpointTimeout.
Deadline ==
    /\ phase = "running" /\ ~ cancelled
    /\ cancelled' = TRUE
    /\ UNCHANGED <<requestVars, phase, strategyVars, chan, wire, visible,
                   answerVars>>

Next ==
    \/ Refuse
    \/ \E docs \in SUBSET Doc : Start(docs)
    \/ \E d \in Doc : Strategy(d)
    \/ Handler
    \/ Disconnect \/ Deadline

Spec == Init /\ [][Next]_vars

\* The handler's loop runs, the timer fires, and a strategy looks at its
\* context: a run that nobody has cancelled may take for ever.
Fairness ==
    /\ WF_vars(Handler)
    /\ WF_vars(Deadline)
    /\ \A d \in Doc : WF_vars(Stop(d))

FairSpec == Spec /\ Fairness

----------------------------------------------------------------------------

\* Every variable holds a value of its type.
TypeOK ==
    /\ api       \in Api
    /\ phase     \in {"new", "refused", "running", "returned"}
    /\ cancelled \in BOOLEAN
    /\ client    \in {"open", "gone"}
    /\ run       \in [Doc -> {"idle", "called", "selecting", "completed",
                              "failed", "stopped"}]
    /\ picks     \in [Doc -> Seq(Section)]
    /\ chan      \in Seq(Event) /\ Len(chan) <= Buffer
    /\ wire      \in Seq(Event)
    /\ visible   \in 0 .. Len(wire)
    /\ code      \in {"none", "ok", "failed"}
    /\ answer    \in [Doc -> Seq(Tree)]
    /\ errors    \subseteq Doc

\* The events of a type that have been written for a document.
Wired(d, type) == {e \in Range(wire) : e.doc = d /\ e.type = type}

\* A stream that was neither cut short nor abandoned has told the end of
\* every document's run when it ends; and a query that was answered with 200
\* has told of every document, in its sections or among the errors, and of
\* none in both: those included that the deadline stopped.
EveryEndIsTold ==
    /\ phase = "returned" /\ api.shape = "stream" /\ client = "open"
       => \A d \in Doc : run[d] \in {"completed", "failed"} =>
              Wired(d, "completed") # {} \/ Wired(d, "error") # {}
    /\ code = "ok"
       => \A d \in Doc :
              /\ Asked(d) => run[d] = "completed" \/ d \in errors
              /\ d \in errors => run[d] # "completed" /\ answer[d] = <<>>

\* A completed stream has every section that a query with the same choice of
\* the strategy would have returned.  (It may have more: the streams do not
\* look at max_sections.)  Connect's many-document stream is left out, which
\* sends no sections at all.
StreamCoversQuery ==
    api.form = "one" \/ api.transport = "rest" =>
        \A d \in Doc : Wired(d, "completed") # {} =>
            Range(Returned(api.form, picks[d]))
                \subseteq {e.section : e \in Wired(d, "section")}

\* No goroutine outlives its request for long: the handler returns, and so
\* do the runs it started, those included that wait for room in a channel
\* nobody reads any more.
EverythingEnds == phase = "running" ~> phase = "returned" /\ AllEnded

\* openapi.yaml: the stream "Returns Server-Sent Events as sections are
\* identified, before the full strategy run completes".  When the handler
\* has nothing left to write, the client has seen everything it wrote.
EventsAreVisible ==
    /\ phase = "running" /\ chan = <<>> /\ client = "open"
    /\ api.transport = "rest"
    => visible = Len(wire)

\* query.proto: "QueryMultiStream is the streaming variant of QueryMulti".
\* A selected section of the tree is named in the event that reports it.
SelectedSectionIsNamed ==
    \A d \in Doc : Wired(d, "completed") # {} =>
        Range(picks[d]) \cap Tree \subseteq {e.section : e \in Wired(d, "section")}

=============================================================================
