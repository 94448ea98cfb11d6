--------------------------- MODULE DocumentReads ----------------------------
(***************************************************************************)
(* The reading endpoints of internal/handler/documents.go and              *)
(* internal/connecthandler/documents.go over the stores of IngestHandler:  *)
(* one document's row, its source, its tree, one section, and the list,    *)
(* which a client walks page by page with the cursor of the page before.   *)
(* Ingestion, the pipeline, deletes and crashes go on in between.  What    *)
(* the database does for a read is external; `born` is the created_at it   *)
(* gives a row.  Rows may share one, and a later row may have an earlier   *)
(* one: the cursor is a bare created_at, and says no more than that.       *)
(***************************************************************************)
EXTENDS IngestHandler, Sequences, FiniteSets, Functions

CONSTANTS
    PageSize,   \* the `limit` of a page
    Moment      \* values of created_at, as counts of ticks

ASSUME ReadsAssumption ==
    /\ PageSize \in Nat \ {0}
    /\ Moment \subseteq Nat \ {0}

VARIABLES
    op,       \* Reader -> what it asks for
    wanted,   \* Reader -> the status its list is filtered by, or "any"
    born,     \* Request -> created_at of the document's row, 0 before
    told,     \* Reader -> the status read from the row
    extra,    \* Reader -> what the best-effort second read gave
    cursor,   \* Reader -> next_cursor of the last page, 0 for none
    turns,    \* Reader -> the cursors it sent, 0 for one that was garbled
    listed,   \* Reader -> the documents on the pages so far
    steady,   \* observer: those that have matched ever since the first page
    left      \* observer: the row was not "ready" any more when it was told

clientVars == <<told, extra, cursor, turns, listed>>
readsVars  == <<vars, op, wanted, born, told, extra, cursor, turns, listed,
                steady, left>>

Op    == {"document", "metadata", "source", "tree", "section", "list"}
Extra == {"none", "zero", "some", "unread"}

ReadsInit ==
    /\ Init
    /\ op     \in [Reader -> Op]
    /\ wanted \in [Reader -> Status \cup {"any"}]
    /\ born   = [r \in Request |-> 0]
    /\ told   = [x \in Reader |-> "none"]
    /\ extra  = [x \in Reader |-> "none"]
    /\ cursor = [x \in Reader |-> 0]
    /\ turns  = [x \in Reader |-> {}]
    /\ listed = [x \in Reader |-> <<>>]
    /\ steady = [x \in Reader |-> {}]
    /\ left   = [x \in Reader |-> FALSE]

----------------------------------------------------------------------------

\* The sections a count or a lookup may find.  The pipeline has written them
\* when it summarises them; while it parses (again) and after it failed
\* there may be some.
SectionsOf(r) ==
    CASE rows[r] \in {"summarizing", "ready"} -> {"some"}
      [] rows[r] \in {"parsing", "failed"}    -> {"some", "zero"}
      [] OTHER                                -> {"zero"}

\* Slip: the sections are counted before the row is read.
ReadOrder_CountFirst == <<"count", "row">>

\* HandleGetDocument ("metadata"): the row, then the number of its sections.
\* Connect's GetDocument ("document") reads the row and no more.
ReadOrder == <<"row", "count">>

Reads(x)     == IF op[x] = "document" THEN <<"row">> ELSE ReadOrder
ReadsMade(x) == IF reading[x] = "idle" THEN 0 ELSE 1
NextRead(x)  == Reads(x)[ReadsMade(x) + 1]

\* Ends a read, or goes on to the one after it.
ReadDone(x) ==
    reading' = [reading EXCEPT ![x] =
                  IF ReadsMade(x) + 1 = Len(Reads(x)) THEN "served" ELSE "found"]

GetRow(x) ==
    /\ op[x] \in {"document", "metadata"} /\ reading[x] \in {"idle", "found"}
    /\ NextRead(x) = "row"
    /\ IF Visible(target[x], caller[x])
       THEN /\ told' = [told EXCEPT ![x] = rows[target[x]]]
            /\ ReadDone(x)
       ELSE /\ reading' = [reading EXCEPT ![x] = "missing"]
            /\ UNCHANGED told
    /\ UNCHANGED <<extra, cursor, turns, listed>>

\* An error of CountSections is dropped, and 0 is answered.
CountSections(x) ==
    /\ op[x] = "metadata" /\ reading[x] \in {"idle", "found"}
    /\ NextRead(x) = "count"
    /\ \E n \in SectionsOf(target[x]) \cup {"unread"} :
          extra' = [extra EXCEPT ![x] = n]
    /\ ReadDone(x)
    /\ UNCHANGED <<told, cursor, turns, listed>>

\* LoadTree, and BuildView of what it loaded.
GetTree(x) ==
    /\ op[x] = "tree" /\ reading[x] = "idle"
    /\ reading' = [reading EXCEPT ![x] =
                     IF Visible(target[x], caller[x]) THEN "served" ELSE "missing"]
    /\ UNCHANGED clientVars

\* A section's row, then its content; a content that cannot be read is
\* answered as an empty one.
GetSection(x) ==
    /\ op[x] = "section" /\ reading[x] = "idle"
    /\ \E n \in SectionsOf(target[x]) :
         reading' = [reading EXCEPT ![x] =
                       IF Visible(target[x], caller[x]) /\ n = "some"
                       THEN "found" ELSE "missing"]
    /\ UNCHANGED clientVars

FetchContent(x) ==
    /\ op[x] = "section" /\ reading[x] = "found"
    /\ extra' \in {[extra EXCEPT ![x] = n] : n \in {"some", "unread"}}
    /\ reading' = [reading EXCEPT ![x] = "served"]
    /\ UNCHANGED <<told, cursor, turns, listed>>

----------------------------------------------------------------------------

\* Slip: the layout has no fraction of a second, three ticks of it here.
Printed_Seconds(t) == t - ((t + 2) % 3)

\* next_cursor: RFC3339Nano loses nothing.
Printed(t) == t

\* Slip: the layout the server reads is not the one it writes.
Parsed_Ignored(t, readable) == 0

\* The cursor as the server reads it.  One that does not parse (say, a "+" of
\* its offset that was not escaped in the URL) is ignored without an error.
Parsed(t, readable) == IF readable THEN t ELSE 0

\* The organisation, the store if there is one, and the status if one is
\* asked for.
Matching(x) == {r \in Request : /\ Visible(r, caller[x])
                                /\ wanted[x] \in {"any", rows[r]}}

\* db.ListDocuments: newest first, created before the cursor.
Rest(x, from) == {r \in Matching(x) : from = 0 \/ born[r] < from}

\* A page of them: the newest, as many as fit, newest first.  Of those that
\* tie any may come first.
Pages(docs) ==
    LET n == IF Cardinality(docs) > PageSize THEN PageSize ELSE Cardinality(docs)
    IN  {page \in [1 .. n -> docs] :
            /\ \A i, j \in 1 .. n : i < j =>
                  page[i] # page[j] /\ born[page[i]] >= born[page[j]]
            /\ \A i \in 1 .. n : \A r \in docs \ Range(page) :
                  born[page[i]] >= born[r]}

\* Whether a page has a next_cursor: if there is more; and if the page is
\* full the database need not know that there is not.
HasMore(docs, page) ==
    IF Range(page) # docs THEN {TRUE}
    ELSE IF Len(page) = PageSize THEN {TRUE, FALSE} ELSE {FALSE}

\* One request for a page.  The walk is "idle" between two of them: nothing
\* of it is in the server, and a restart does not end it.  A cursor may be
\* garbled on its way; bound: once in a walk.
ListPage(x) ==
    /\ op[x] = "list" /\ reading[x] = "idle"
    /\ \E readable \in BOOLEAN :
         /\ readable \/ (cursor[x] # 0 /\ 0 \notin turns[x])
         /\ turns' = [turns EXCEPT ![x] =
                        IF cursor[x] = 0 THEN @
                        ELSE @ \cup {IF readable THEN cursor[x] ELSE 0}]
         /\ LET docs == Rest(x, Parsed(cursor[x], readable)) IN
            \E page \in Pages(docs) : \E more \in HasMore(docs, page) :
              /\ listed'  = [listed EXCEPT ![x] = @ \o page]
              /\ cursor'  = [cursor EXCEPT ![x] =
                               IF more THEN Printed(born[page[Len(page)]]) ELSE 0]
              /\ reading' = IF more THEN reading
                            ELSE [reading EXCEPT ![x] = "served"]
    /\ UNCHANGED <<told, extra>>

----------------------------------------------------------------------------

\* created_at, given to a row when it is inserted.
Stamp ==
    \E t \in Moment :
        born' = [r \in Request |->
                   IF born[r] = 0 /\ rows'[r] # "none" THEN t ELSE born[r]]

\* The observers: what matched when the first page was asked for and still
\* does, for as long as the walk goes on; and whether a row that was read as
\* "ready" has left that status before the client is told.
Observe ==
    /\ steady' = [x \in Reader |->
          IF reading[x] # "idle" \/ op[x] # "list" THEN steady[x]
          ELSE Matching(x)' \cap
                 (IF listed[x] = <<>> THEN Matching(x) ELSE steady[x])]
    /\ left' = [x \in Reader |->
          \/ left[x]
          \/ /\ reading[x] = "found" /\ told[x] = "ready"
             /\ rows'[target[x]] # "ready"]

\* The steps of IngestHandler, its download kept for those who ask for it.
\* Any read may fail; a page that failed is asked for again.
HandlerStep ==
    \/ \E r \in Request : Arrive(r) \/ Serve(r) \/ Work(r)
    \/ \E r \in Request, scope \in Scope(Org) : DeleteDocument(r, scope)
    \/ \E x \in Reader : op[x] = "source" /\ (FindRow(x) \/ OpenSource(x))
    \/ \E x \in Reader : op[x] # "list" /\ DownloadFails(x)
    \/ Crash

ReadStep(x) ==
    /\ \/ GetRow(x) \/ CountSections(x)
       \/ GetTree(x)
       \/ GetSection(x) \/ FetchContent(x)
       \/ ListPage(x)
    /\ UNCHANGED <<requestVars, storeVars, target, caller, crashes>>

\* With what the client asks for, the time stamps and the observers.
Keeping(step) == step /\ UNCHANGED <<op, wanted>> /\ Stamp /\ Observe

ReadsNext ==
    \/ Keeping(HandlerStep) /\ UNCHANGED clientVars
    \/ \E x \in Reader : Keeping(ReadStep(x))

ReadsSpec == ReadsInit /\ [][ReadsNext]_readsVars

\* The fairness of IngestHandler; a reader need not read on.
ReadsFairness ==
    \A r \in Request :
        /\ WF_readsVars(Keeping(Serve(r)) /\ UNCHANGED clientVars)
        /\ WF_readsVars(Keeping(StartJob(r)) /\ UNCHANGED clientVars)
        /\ WF_readsVars(Keeping(FinishJob(r)) /\ UNCHANGED clientVars)

----------------------------------------------------------------------------

\* What the reads add to the state is well typed; a cursor is the created_at
\* of a document on the pages it follows.
ReadsTypeOK ==
    /\ op     \in [Reader -> Op]
    /\ wanted \in [Reader -> Status \cup {"any"}]
    /\ born   \in [Request -> Moment \cup {0}]
    /\ told   \in [Reader -> Status \cup {"none"}]
    /\ extra  \in [Reader -> Extra]
    /\ left   \in [Reader -> BOOLEAN]
    /\ \A x \in Reader :
         /\ Range(listed[x]) \subseteq Request
         /\ {cursor[x]} \cup turns[x] \subseteq
                {0} \cup {born[r] : r \in Range(listed[x])}
         /\ steady[x] \subseteq Request

\* A client that follows next_cursor to the end has seen every document that
\* matched for the whole of the walk, whatever was inserted, processed or
\* deleted between two pages, however often the server was restarted, and
\* even if a cursor was garbled on its way (HandleListDocuments,
\* ListDocuments).  The one exception is the code's: a document with the very
\* created_at that a page ended with, and the cursor was taken from, may be
\* skipped, for the cursor does not say which of them has been seen.
WalkMissesNothing ==
    \A x \in Reader :
        op[x] = "list" /\ reading[x] = "served" =>
            \A r \in steady[x] : r \in Range(listed[x]) \/ born[r] \in turns[x]

\* And unless a cursor was garbled, and the walk began anew without a word of
\* it, it has seen each of them once, newest first: the cursor that comes
\* back is the one that was given out.
WalkGoesForward ==
    \A x \in Reader : 0 \notin turns[x] =>
        \A i, j \in DOMAIN listed[x] : i < j =>
            /\ listed[x][i] # listed[x][j]
            /\ born[listed[x][i]] >= born[listed[x][j]]

\* A client that is told "ready" is not told that there are no sections,
\* unless counting failed, or the document was deleted or its job delivered
\* again between the two reads: HandleGetDocument reads the row before it
\* counts, and the two need not agree.
ReadyHasSections ==
    \A x \in Reader :
        reading[x] = "served" /\ told[x] = "ready" /\ extra[x] = "zero" => left[x]

=============================================================================
