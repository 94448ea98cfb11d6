------------------------ MODULE DocumentReadsProofs ------------------------
(***************************************************************************)
(* Theorems about the reading endpoints next to ingestion, for any number  *)
(* of documents, readers, organisations, stores and crashes, any size of a *)
(* page and any times of creation.  What IngestHandlerProofs shows of the  *)
(* stores carries over; new are the client's own records: what it was told *)
(* of a document, and the pages of its walk.                               *)
(***************************************************************************)
EXTENDS DocumentReads, IngestHandlerProofs, FiniteSetTheorems,
        SequenceTheorems

\* Exactly the rows that were inserted have a created_at, and they are
\* finitely many.
Inserted == {r \in Request : rows[r] # "none"}

Births ==
    /\ IsFiniteSet(Inserted)
    /\ born \in [Request -> Moment \cup {0}]
    /\ \A r \in Request : born[r] # 0 <=> rows[r] # "none"

\* What a client has read of one document.  It has read nothing before its
\* first read, and counted nothing before its second; a row that was "ready"
\* when it was read still is, or was seen to leave; and if it has not left
\* when its sections are counted, there are some.
ClientReads ==
    /\ told  \in [Reader -> Status \cup {"none"}]
    /\ extra \in [Reader -> Extra]
    /\ left  \in [Reader -> BOOLEAN]
    /\ \A x \in Reader :
         /\ reading[x] = "idle" => told[x] = "none"
         /\ reading[x] \in {"idle", "found"} => extra[x] = "none"
         /\ reading[x] = "found" /\ told[x] = "ready" /\ ~ left[x] =>
              rows[target[x]] = "ready"
         /\ reading[x] = "served" /\ told[x] = "ready" /\ extra[x] = "zero" =>
              left[x]

\* What a client has listed: newest first and down to its cursor, unless a
\* cursor was garbled.
Pile(x) ==
    /\ \A i \in DOMAIN listed[x] : born[listed[x][i]] # 0
    /\ {cursor[x]} \cup turns[x] \subseteq
          {0} \cup {born[r] : r \in Range(listed[x])}
    /\ 0 \notin turns[x] =>
         /\ \A i, j \in DOMAIN listed[x] : i < j =>
               /\ listed[x][i] # listed[x][j]
               /\ born[listed[x][i]] >= born[listed[x][j]]
         /\ cursor[x] # 0 =>
              \A i \in DOMAIN listed[x] : born[listed[x][i]] >= cursor[x]

\* A walk is between two pages or over.  Between two it has a cursor unless
\* it has not begun, and of what is steady it lacks nothing from the cursor
\* upwards but what ties with a cursor; when it is over, nothing but that.
Walk(x) ==
    /\ reading[x] \in {"idle", "served"}
    /\ \A r \in steady[x] : born[r] # 0
    /\ reading[x] = "idle" =>
         /\ listed[x] # <<>> => cursor[x] # 0
         /\ steady[x] \subseteq Matching(x)
         /\ cursor[x] # 0 => \A r \in steady[x] :
              \/ r \in Range(listed[x])
              \/ born[r] \in turns[x] \cup {cursor[x]}
              \/ born[r] < cursor[x]
    /\ reading[x] = "served" =>
         \A r \in steady[x] : r \in Range(listed[x]) \/ born[r] \in turns[x]

Walks ==
    /\ listed \in [Reader -> Seq(Request)]
    /\ cursor \in [Reader -> Nat]
    /\ turns  \in [Reader -> SUBSET Nat]
    /\ steady \in [Reader -> SUBSET Request]
    /\ \A x \in Reader : Pile(x) /\ (op[x] = "list" => Walk(x))

\* The inductive invariant.
ReadsInv ==
    /\ IInv
    /\ op \in [Reader -> Op] /\ wanted \in [Reader -> Status \cup {"any"}]
    /\ Births /\ ClientReads /\ Walks

----------------------------------------------------------------------------

\* What a step may do to the rows, as far as a client's record depends on
\* it: an inserted row stays that, and at most one row is inserted.
Onward ==
    /\ UNCHANGED <<target, caller>>
    /\ \A r \in Request : rows[r] # "none" => rows'[r] # "none"
    /\ \E q : Inserted' \subseteq Inserted \cup {q}

\* What it may do to a reader that is not itself the one to step: no read
\* begins or ends but a download, and a walk is left where it is.
Apart ==
    \A x \in Reader :
        /\ reading'[x] = "idle" => reading[x] = "idle"
        /\ reading'[x] = "found" => reading[x] \in {"idle", "found"}
        /\ reading'[x] = "served" => reading[x] \in {"found", "served"}
        /\ op[x] = "list" /\ reading[x] \in {"idle", "served"} =>
             reading'[x] = reading[x]

\* A step that leaves the rows alone.
LEMMA OnwardWhenKept ==
    ASSUME UNCHANGED <<target, caller, rows>>
    PROVE  Onward
  <1>1. Inserted' = Inserted
    BY DEF Inserted
  <1> QED  BY <1>1 DEF Onward

\* A step that changes one row, or none.
LEMMA OnwardOneRow ==
    ASSUME NEW r \in Request, IInv, UNCHANGED <<target, caller>>,
           \E s : s # "none" /\ rows' = [rows EXCEPT ![r] = s]
    PROVE  Onward
  <1>1. rows \in [Request -> RowState]
    BY DEF IInv, TypeOK
  <1>2. rows'[r] # "none" /\ \A p \in Request : p # r => rows'[p] = rows[p]
    BY <1>1
  <1>3. Inserted' \subseteq Inserted \cup {r}
    BY <1>2 DEF Inserted
  <1> QED  BY <1>2, <1>3 DEF Onward

\* The handler's own steps.
LEMMA ArriveGoesOn ==
    ASSUME NEW r \in Request, Arrive(r)
    PROVE  Onward /\ Apart
  <1>1. UNCHANGED <<storeVars, readerVars>>
    BY DEF Arrive, Refuse, Admit
  <1> QED  BY <1>1, OnwardWhenKept DEF Apart, storeVars, readerVars

LEMMA ServeGoesOn ==
    ASSUME NEW r \in Request, IInv, Serve(r)
    PROVE  Onward /\ Apart
  <1>1. /\ UNCHANGED readerVars
        /\ rows' = rows \/ rows' = [rows EXCEPT ![r] = "pending"]
    BY DEF Serve, PutSource, PutSourceFails, InsertRow, InsertRowFails,
           EnqueueJob, EnqueueFails, Respond, storeVars
  <1>2. Onward
    BY <1>1, OnwardWhenKept, OnwardOneRow DEF readerVars
  <1> QED  BY <1>1, <1>2 DEF Apart, readerVars

\* The worker's steps.
LEMMA WorkGoesOn ==
    ASSUME NEW r \in Request, IInv, Work(r)
    PROVE  Onward /\ Apart
  <1>1. /\ UNCHANGED readerVars
        /\ rows' = rows \/ \E s \in Status : SetStatus(r, s)
    BY DEF Work, StartJob, Summarize, FinishJob, AckJob, Unacknowledged, Status
  <1>2. rows' = rows \/ \E s : s # "none" /\ rows' = [rows EXCEPT ![r] = s]
    BY <1>1 DEF SetStatus, Status
  <1>3. Onward
    BY <1>1, <1>2, OnwardWhenKept, OnwardOneRow DEF readerVars
  <1> QED  BY <1>1, <1>3 DEF Apart, readerVars

\* A delete, and a crash.
LEMMA DeleteGoesOn ==
    ASSUME NEW r \in Request, NEW scope \in Scope(Org), IInv,
           DeleteDocument(r, scope)
    PROVE  Onward /\ Apart
  <1>1. UNCHANGED readerVars /\ rows' = [rows EXCEPT ![r] = "deleted"]
    BY DEF DeleteDocument
  <1> QED  BY <1>1, OnwardOneRow DEF Apart, readerVars

LEMMA CrashGoesOn ==
    ASSUME IInv, Crash
    PROVE  Onward /\ Apart
  <1>1. Onward
    BY OnwardWhenKept DEF Crash
  <1>2. Apart
    BY DEF Crash, Apart
  <1> QED  BY <1>1, <1>2

\* The whole of the handlers' steps, the downloads of the source included.
LEMMA HandlersGoOn ==
    ASSUME IInv, HandlerStep
    PROVE  IInv' /\ Onward /\ Apart
  <1>1. ASSUME NEW r \in Request, Arrive(r) \/ Serve(r) \/ Work(r)
        PROVE  IInv' /\ Onward /\ Apart
    BY <1>1, ArrivePreserves, ServePreserves, WorkPreserves, ArriveGoesOn,
       ServeGoesOn, WorkGoesOn
  <1>2. ASSUME NEW r \in Request, NEW scope \in Scope(Org),
               DeleteDocument(r, scope)
        PROVE  IInv' /\ Onward /\ Apart
    BY <1>2, DeletePreserves, DeleteGoesOn
  <1>3. ASSUME NEW x \in Reader,
               \/ op[x] = "source" /\ (FindRow(x) \/ OpenSource(x))
               \/ op[x] # "list" /\ DownloadFails(x)
        PROVE  IInv' /\ Onward /\ Apart
    <2>1. /\ UNCHANGED <<storeVars, target, caller>>
          /\ op[x] # "list"
          /\ \/ reading[x] = "idle" /\ reading' = [reading EXCEPT ![x] = "found"]
             \/ reading[x] = "found" /\ reading' = [reading EXCEPT ![x] = "served"]
             \/ reading' = [reading EXCEPT ![x] = "missing"]
             \/ reading' = [reading EXCEPT ![x] = "failed"]
      BY <1>3 DEF FindRow, OpenSource, DownloadFails
    <2>2. IInv'
      BY <1>3, ReadPreserves DEF Read
    <2>3. Onward
      BY <2>1, OnwardWhenKept DEF storeVars
    <2>4. Apart
      BY <2>1 DEF Apart, IInv, TypeOK
    <2> QED  BY <2>2, <2>3, <2>4
  <1>4. CASE Crash
    BY <1>4, CrashPreserves, CrashGoesOn
  <1> QED  BY <1>1, <1>2, <1>3, <1>4 DEF HandlerStep

----------------------------------------------------------------------------

\* A created_at is a number.
LEMMA BornIsNat ==
    ASSUME Births
    PROVE  born \in [Request -> Nat]
  <1>1. Moment \cup {0} \subseteq Nat
    BY ReadsAssumption
  <1> QED  BY <1>1 DEF Births

\* Created_at is given once, and to every row that is inserted.
LEMMA StampPreserves ==
    ASSUME Births, Onward, Stamp
    PROVE  /\ Births'
           /\ \A r \in Request : born[r] # 0 => born'[r] = born[r]
  <1>1. PICK t \in Moment :
            born' = [r \in Request |->
                       IF born[r] = 0 /\ rows'[r] # "none" THEN t ELSE born[r]]
    BY DEF Stamp
  <1>2. t # 0
    BY <1>1, ReadsAssumption
  <1>3. born' \in [Request -> Moment \cup {0}]
    BY <1>1 DEF Births
  <1>4. \A r \in Request : born'[r] # 0 <=> rows'[r] # "none"
    BY <1>1, <1>2 DEF Births, Onward
  <1>5. IsFiniteSet(Inserted')
    <2>1. PICK p : Inserted' \subseteq Inserted \cup {p}
      BY DEF Onward
    <2>2. IsFiniteSet(Inserted \cup {p})
      BY FS_AddElement DEF Births
    <2> QED  BY <2>1, <2>2, FS_Subset
  <1>6. \A r \in Request : born[r] # 0 => born'[r] = born[r]
    BY <1>1
  <1> QED  BY <1>3, <1>4, <1>5, <1>6 DEF Births

\* A walk that is not the one to step survives the steps of the others: what
\* it has listed keeps its place, and what is steady matches and did before.
LEMMA WalkSurvives ==
    ASSUME ReadsInv, Onward, Stamp, Observe, UNCHANGED <<op, wanted>>,
           NEW x \in Reader,
           listed'[x] = listed[x], cursor'[x] = cursor[x], turns'[x] = turns[x],
           op[x] = "list" /\ reading[x] \in {"idle", "served"} =>
               reading'[x] = reading[x]
    PROVE  Pile(x)' /\ (op[x] = "list" => Walk(x)')
  <1>1. \A r \in Request : born[r] # 0 => born'[r] = born[r]
    BY StampPreserves DEF ReadsInv
  <1>2. /\ Pile(x) /\ \A i \in DOMAIN listed[x] : listed[x][i] \in Request
        /\ steady[x] \subseteq Request
    BY DEF ReadsInv, Walks
  <1>3. Pile(x)'
    <2>1. \A i \in DOMAIN listed[x] : born'[listed[x][i]] = born[listed[x][i]]
      BY <1>1, <1>2 DEF Pile
    <2>2. \A r \in Range(listed[x]) : born'[r] = born[r]
      BY <2>1 DEF Range
    <2>3. {cursor[x]} \cup turns[x] \subseteq
             {0} \cup {born'[r] : r \in Range(listed[x])}
      BY <1>2, <2>2 DEF Pile
    <2> QED  BY <1>2, <2>1, <2>3 DEF Pile
  <1>4. ASSUME op[x] = "list"
        PROVE  Walk(x)'
    <2>1. Walk(x)
      BY <1>4 DEF ReadsInv, Walks
    <2>2. reading'[x] = reading[x]
      BY <1>4, <2>1 DEF Walk
    <2>3. CASE reading[x] = "idle"
      <3>1. steady'[x] = Matching(x)' \cap
                (IF listed[x] = <<>> THEN Matching(x) ELSE steady[x])
        BY <1>4, <2>3 DEF Observe
      <3>2. cursor[x] # 0 => listed[x] # <<>>
        <4>1. {cursor[x]} \subseteq {0} \cup {born[q] : q \in Range(listed[x])}
          BY <1>2 DEF Pile
        <4> QED  BY <4>1 DEF Range
      <3>3. cursor[x] # 0 => \A r \in steady'[x] :
              r \in steady[x] /\ born'[r] = born[r]
        <4> SUFFICES ASSUME cursor[x] # 0, NEW r \in steady'[x]
                     PROVE  r \in steady[x] /\ born'[r] = born[r]
          OBVIOUS
        <4>1. r \in steady[x] /\ r \in Request /\ r \in Matching(x)
          BY <2>1, <2>3, <3>1, <3>2, <1>2 DEF Walk
        <4>2. born[r] # 0
          BY <4>1 DEF Matching, Visible, Status, ReadsInv, Births
        <4> QED  BY <1>1, <4>1, <4>2
      <3>4. steady'[x] \subseteq Matching(x)'
        BY <3>1
      <3>5. \A r \in steady'[x] : born'[r] # 0
        BY <3>4, StampPreserves
           DEF Matching, Visible, Status, ReadsInv, Births
      <3> QED  BY <2>1, <2>2, <2>3, <3>3, <3>4, <3>5 DEF Walk
    <2>4. CASE reading[x] = "served"
      <3>1. steady'[x] = steady[x]
        BY <2>4 DEF Observe
      <3>2. \A r \in steady[x] : born'[r] = born[r]
        BY <1>1, <1>2, <2>1 DEF Walk
      <3> QED  BY <2>1, <2>2, <2>4, <3>1, <3>2 DEF Walk
    <2> QED  BY <2>1, <2>3, <2>4 DEF Walk
  <1> QED  BY <1>3, <1>4

\* The observer's sets stay sets of documents.
LEMMA SteadyType ==
    ASSUME ReadsInv, Observe
    PROVE  steady' \in [Reader -> SUBSET Request]
  BY DEF Observe, ReadsInv, Walks, Matching

\* All walks survive a step that asks for no page.
LEMMA WalksSurvive ==
    ASSUME ReadsInv, Onward, Stamp, Observe,
           UNCHANGED <<cursor, turns, listed, op, wanted>>,
           \A x \in Reader : op[x] = "list" /\ reading[x] \in {"idle", "served"} =>
               reading'[x] = reading[x]
    PROVE  Walks'
  <1>1. \A x \in Reader : Pile(x)' /\ (op[x] = "list" => Walk(x)')
    BY WalkSurvives
  <1> QED  BY <1>1, SteadyType DEF ReadsInv, Walks

\* What a reader was told, and whether that has changed.
LEMMA LeftSaysSo ==
    ASSUME ReadsInv, Observe
    PROVE  /\ left' \in [Reader -> BOOLEAN]
           /\ \A x \in Reader :
                 /\ left[x] => left'[x]
                 /\ reading[x] = "found" /\ told[x] = "ready" /\ ~ left'[x] =>
                      rows'[target[x]] = "ready"
  <1>1. left \in [Reader -> BOOLEAN]
    BY DEF ReadsInv, ClientReads
  <1>2. left' = [x \in Reader |->
                   \/ left[x]
                   \/ /\ reading[x] = "found" /\ told[x] = "ready"
                      /\ rows'[target[x]] # "ready"]
    BY DEF Observe
  <1>3. \A x \in Reader :
            left'[x] = (\/ left[x]
                        \/ /\ reading[x] = "found" /\ told[x] = "ready"
                           /\ rows'[target[x]] # "ready")
    BY <1>2
  <1> QED  BY <1>1, <1>2, <1>3

\* The handlers' steps preserve the invariant.
LEMMA HandlersPreserve ==
    ASSUME ReadsInv, Keeping(HandlerStep), UNCHANGED clientVars
    PROVE  ReadsInv'
  <1>1. IInv' /\ Onward /\ Apart /\ Stamp /\ Observe /\ UNCHANGED <<op, wanted>>
    BY HandlersGoOn DEF ReadsInv, Keeping
  <1>2. Births'
    BY <1>1, StampPreserves DEF ReadsInv
  <1>3. ClientReads'
    BY <1>1, LeftSaysSo DEF ReadsInv, ClientReads, Onward, Apart, clientVars
  <1>4. Walks'
    BY <1>1, WalksSurvive DEF Apart, clientVars
  <1> QED  BY <1>1, <1>2, <1>3, <1>4 DEF ReadsInv

----------------------------------------------------------------------------

\* A read changes nothing in the stores.
LEMMA ReadsChangeNoStore ==
    ASSUME ReadsInv, Stamp,
           UNCHANGED <<requestVars, storeVars, target, caller, crashes>>,
           reading' \in [Reader -> Download], FoundRow'
    PROVE  /\ IInv' /\ Births' /\ Onward
           /\ born' = born
  <1>1. IInv'
    BY DEF ReadsInv, IInv, TypeOK, WriteOrder, StageWrites, AnswerWrites,
           requestVars, storeVars
  <1>2. Onward
    BY OnwardWhenKept DEF ReadsInv, storeVars
  <1>3. Births'
    BY <1>2, StampPreserves DEF ReadsInv
  <1>4. born' = born
    <2>1. \A r \in Request : born'[r] = born[r]
      BY DEF Stamp, ReadsInv, Births, storeVars
    <2> QED  BY <1>3, <2>1 DEF ReadsInv, Births
  <1> QED  BY <1>1, <1>2, <1>3, <1>4

\* The reads of one document.
Single(x) == \/ GetRow(x) \/ CountSections(x)
             \/ GetTree(x)
             \/ GetSection(x) \/ FetchContent(x)

\* Where they leave the reader.
LEMMA SingleReading ==
    ASSUME ReadsInv, NEW x \in Reader, Single(x)
    PROVE  /\ op[x] # "list" /\ UNCHANGED <<cursor, turns, listed>>
           /\ \E s \in {"found", "served", "missing"} :
                 /\ reading' = [reading EXCEPT ![x] = s]
                 /\ s = "found" => rows[target[x]] # "none"
  <1>1. CASE GetRow(x)
    BY <1>1 DEF GetRow, ReadDone, Visible, Status
  <1>2. CASE CountSections(x)
    <2>1. reading[x] = "found"
      BY <1>2 DEF CountSections, NextRead, Reads, ReadsMade, ReadOrder
    <2>2. rows[target[x]] # "none"
      BY <2>1 DEF ReadsInv, IInv, FoundRow
    <2> QED  BY <1>2, <2>2 DEF CountSections, ReadDone
  <1>3. CASE GetTree(x)
    BY <1>3 DEF GetTree, clientVars
  <1>4. CASE GetSection(x)
    <2>1. /\ op[x] = "section" /\ UNCHANGED clientVars
          /\ \/ reading' = [reading EXCEPT ![x] = "missing"]
             \/ /\ reading' = [reading EXCEPT ![x] = "found"]
                /\ rows[target[x]] # "none"
      BY <1>4 DEF GetSection, Visible, Status
    <2> QED  BY <2>1 DEF clientVars
  <1>5. CASE FetchContent(x)
    BY <1>5 DEF FetchContent
  <1> QED  BY <1>1, <1>2, <1>3, <1>4, <1>5 DEF Single

\* What they leave in its record.
LEMMA SingleRecords ==
    ASSUME ReadsInv, NEW x \in Reader, Single(x), Observe,
           UNCHANGED <<requestVars, storeVars, target, caller>>
    PROVE  ClientReads'
  <1>1. PICK s \in {"found", "served", "missing"} :
            reading' = [reading EXCEPT ![x] = s]
    BY SingleReading
  <1>2. /\ reading \in [Reader -> Download] /\ target \in [Reader -> Request]
        /\ rows \in [Request -> RowState] /\ UNCHANGED <<rows, target>>
    BY DEF ReadsInv, IInv, TypeOK, storeVars
  <1>3. /\ told \in [Reader -> Status \cup {"none"}]
        /\ extra \in [Reader -> Extra]
    BY DEF ReadsInv, ClientReads
  <1>4. \A n \in {"zero", "some", "unread"} : n \in Extra
    BY DEF Extra
  <1>5. CASE GetRow(x)
    <2>1. UNCHANGED extra /\ extra[x] = "none"
      BY <1>5 DEF GetRow, ReadsInv, ClientReads
    <2>2. \/ UNCHANGED told /\ s = "missing"
          \/ /\ told' = [told EXCEPT ![x] = rows[target[x]]]
             /\ rows[target[x]] \in Status
      <3>1. CASE Visible(target[x], caller[x])
        BY <1>5, <3>1 DEF GetRow, Visible
      <3>2. CASE ~ Visible(target[x], caller[x])
        <4>1. reading' = [reading EXCEPT ![x] = "missing"] /\ UNCHANGED told
          BY <1>5, <3>2 DEF GetRow
        <4> QED  BY <1>1, <1>2, <4>1
      <3> QED  BY <3>1, <3>2
    <2>3. told' \in [Reader -> Status \cup {"none"}]
      BY <1>3, <2>2
    <2>4. \A y \in Reader :
            /\ y # x => told'[y] = told[y] /\ reading'[y] = reading[y]
            /\ y = x => reading'[y] = s
                        /\ (s # "missing" => told'[y] = rows[target[y]])
      BY <1>1, <1>2, <1>3, <2>2
    <2> QED
      BY <1>2, <1>3, <2>1, <2>3, <2>4, LeftSaysSo DEF ReadsInv, ClientReads
  <1>6. CASE CountSections(x)
    <2>1. UNCHANGED told
      BY <1>6 DEF CountSections
    <2>2. PICK n \in SectionsOf(target[x]) \cup {"unread"} :
              extra' = [extra EXCEPT ![x] = n]
      BY <1>6 DEF CountSections
    <2>3. n \in {"zero", "some", "unread"}
      BY DEF SectionsOf
    <2>4. reading[x] = "found" /\ s = "served"
      <3>1. reading[x] = "found" /\ ReadsMade(x) + 1 = Len(Reads(x))
        BY <1>6 DEF CountSections, NextRead, Reads, ReadsMade, ReadOrder
      <3>2. reading' = [reading EXCEPT ![x] = "served"]
        BY <1>6, <3>1 DEF CountSections, ReadDone
      <3> QED  BY <1>1, <1>2, <3>1, <3>2
    <2>5. told[x] = "ready" /\ n = "zero" => left[x]
      BY <2>4 DEF SectionsOf, ReadsInv, ClientReads
    <2> QED
      BY <1>1, <1>2, <1>3, <1>4, <2>1, <2>2, <2>3, <2>4, <2>5, LeftSaysSo
         DEF ReadsInv, ClientReads
  <1>7. CASE GetTree(x) \/ GetSection(x)
    BY <1>1, <1>2, <1>7, LeftSaysSo
       DEF GetTree, GetSection, clientVars, ReadsInv, ClientReads
  <1>8. CASE FetchContent(x)
    <2>1. PICK n \in {"some", "unread"} : extra' = [extra EXCEPT ![x] = n]
      BY <1>8 DEF FetchContent
    <2> QED
      BY <1>1, <1>2, <1>3, <1>4, <1>8, <2>1, LeftSaysSo
         DEF FetchContent, ReadsInv, ClientReads
  <1> QED  BY <1>5, <1>6, <1>7, <1>8 DEF Single

\* A read of one document preserves the invariant.
LEMMA SinglePreserves ==
    ASSUME ReadsInv, NEW x \in Reader, Single(x), Stamp, Observe,
           UNCHANGED <<op, wanted>>,
           UNCHANGED <<requestVars, storeVars, target, caller, crashes>>
    PROVE  ReadsInv'
  <1>1. PICK s \in {"found", "served", "missing"} :
            /\ reading' = [reading EXCEPT ![x] = s]
            /\ s = "found" => rows[target[x]] # "none"
    BY SingleReading
  <1>2. op[x] # "list" /\ UNCHANGED <<cursor, turns, listed>>
    BY SingleReading
  <1>3. reading \in [Reader -> Download] /\ reading' \in [Reader -> Download]
    BY <1>1 DEF ReadsInv, IInv, TypeOK, Download
  <1>4. FoundRow'
    BY <1>1, <1>3 DEF ReadsInv, IInv, FoundRow, storeVars
  <1>5. IInv' /\ Births' /\ Onward
    BY <1>3, <1>4, ReadsChangeNoStore
  <1>6. \A y \in Reader : op[y] = "list" => reading'[y] = reading[y]
    BY <1>1, <1>2, <1>3
  <1>7. ClientReads'
    BY SingleRecords
  <1>8. Walks'
    BY <1>2, <1>5, <1>6, WalksSurvive
  <1> QED  BY <1>5, <1>7, <1>8 DEF ReadsInv

----------------------------------------------------------------------------

\* A page is a sequence of documents, newest first, of the newest there are;
\* none is on it twice, and it is empty only when there are none.
LEMMA PageProperties ==
    ASSUME NEW docs, IsFiniteSet(docs), NEW page \in Pages(docs)
    PROVE  /\ page \in Seq(docs)
           /\ \A i, j \in DOMAIN page : i < j =>
                 page[i] # page[j] /\ born[page[i]] >= born[page[j]]
           /\ \A i \in DOMAIN page : \A r \in docs \ Range(page) :
                 born[page[i]] >= born[r]
           /\ page = <<>> => docs = {}
  <1> DEFINE n == IF Cardinality(docs) > PageSize THEN PageSize
                  ELSE Cardinality(docs)
  <1>1. Cardinality(docs) \in Nat /\ (Cardinality(docs) = 0 <=> docs = {})
    BY FS_CardinalityType, FS_EmptySet
  <1>2. n \in Nat /\ (n = 0 => docs = {})
    BY <1>1, ReadsAssumption
  <1>3. /\ page \in [1 .. n -> docs]
        /\ \A i, j \in 1 .. n : i < j =>
              page[i] # page[j] /\ born[page[i]] >= born[page[j]]
        /\ \A i \in 1 .. n : \A r \in docs \ Range(page) :
              born[page[i]] >= born[r]
    BY DEF Pages
  <1> HIDE DEF n
  <1>4. page \in Seq(docs) /\ DOMAIN page = 1 .. n /\ Len(page) = n
    BY <1>2, <1>3
  <1> QED  BY <1>2, <1>3, <1>4

\* What a page adds to a walk: the page itself, and unless a cursor was
\* garbled all of it is older than what was listed before.
LEMMA PileGrows ==
    ASSUME ReadsInv, NEW x \in Reader, op[x] = "list", reading[x] = "idle",
           NEW from, NEW page \in Seq(Rest(x, from)), NEW c, NEW sent,
           \A i, j \in DOMAIN page : i < j =>
              page[i] # page[j] /\ born[page[i]] >= born[page[j]],
           c # 0 => page # <<>> /\ c = born[page[Len(page)]],
           turns[x] \subseteq sent, sent \subseteq turns[x] \cup {0, cursor[x]},
           0 \notin sent => from = cursor[x],
           listed'[x] = listed[x] \o page, cursor'[x] = c, turns'[x] = sent,
           born' = born
    PROVE  Pile(x)' /\ Range(listed'[x]) = Range(listed[x]) \cup Range(page)
  <1> DEFINE old == listed[x]
             all == old \o page
  <1>1. /\ old \in Seq(Request) /\ page \in Seq(Request)
        /\ \A i \in DOMAIN page : page[i] \in Rest(x, from)
        /\ page # <<>> => Len(page) \in DOMAIN page
    BY DEF ReadsInv, Walks, Rest, Matching
  <1>2. /\ DOMAIN old = 1 .. Len(old) /\ Len(old) \in Nat
        /\ DOMAIN page = 1 .. Len(page) /\ Len(page) \in Nat
        /\ all \in Seq(Request) /\ DOMAIN all = 1 .. Len(old) + Len(page)
        /\ \A i \in 1 .. Len(old) : all[i] = old[i]
        /\ \A i \in 1 .. Len(page) : all[Len(old) + i] = page[i]
    BY <1>1, ConcatProperties, LenProperties
  <1>3. \A i \in DOMAIN all : i \notin DOMAIN old =>
            /\ i - Len(old) \in DOMAIN page
            /\ all[i] = page[i - Len(old)]
    BY <1>2
  <1>4. Range(all) = Range(old) \cup Range(page)
    BY <1>1, RangeConcatenation
  <1> HIDE DEF all
  <1>5. /\ Pile(x) /\ cursor[x] \in Nat
        /\ cursor[x] = 0 => old = <<>>
        /\ \A i \in DOMAIN old : born[old[i]] \in Nat
        /\ \A i \in DOMAIN page : born[page[i]] \in Nat
    <2>1. Pile(x) /\ cursor[x] \in Nat /\ (cursor[x] = 0 => old = <<>>)
      BY DEF ReadsInv, Walks, Walk
    <2>2. /\ born \in [Request -> Nat]
          /\ \A i \in DOMAIN old : old[i] \in Request
          /\ \A i \in DOMAIN page : page[i] \in Request
      <3>1. born \in [Request -> Nat]
        BY BornIsNat DEF ReadsInv
      <3> QED  BY <1>1, <3>1
    <2> QED  BY <2>1, <2>2
  <1>6. \A j \in DOMAIN page : born[page[j]] # 0
    BY <1>1 DEF Rest, Matching, Visible, Status, ReadsInv, Births
  <1>7. \A i \in DOMAIN all : born[all[i]] # 0
    BY <1>2, <1>3, <1>5, <1>6 DEF Pile
  <1>8. {c} \cup sent \subseteq {0} \cup {born[r] : r \in Range(all)}
    <2>1. page # <<>> => page[Len(page)] \in Range(page)
      BY <1>1 DEF Range
    <2>2. turns[x] \cup {cursor[x]} \subseteq
             {0} \cup {born[r] : r \in Range(old)}
      BY <1>5 DEF Pile
    <2> QED  BY <1>4, <2>1, <2>2
  <1>9. ASSUME 0 \notin sent
        PROVE  \A i \in DOMAIN old, j \in DOMAIN page :
                  old[i] # page[j] /\ born[old[i]] > born[page[j]]
    <2> SUFFICES ASSUME NEW i \in DOMAIN old, NEW j \in DOMAIN page
                 PROVE  born[old[i]] > born[page[j]]
      BY <1>5
    <2>1. cursor[x] # 0
      BY <1>2, <1>5
    <2>2. born[page[j]] < cursor[x]
      BY <1>1, <1>9, <2>1 DEF Rest
    <2>3. born[old[i]] >= cursor[x]
      BY <1>5, <1>9, <2>1 DEF Pile
    <2> QED  BY <1>5, <2>2, <2>3
  <1>10. ASSUME 0 \notin sent, NEW i \in DOMAIN all, NEW j \in DOMAIN all, i < j
         PROVE  all[i] # all[j] /\ born[all[i]] >= born[all[j]]
    <2>1. CASE j \in DOMAIN old
      <3>1. i \in DOMAIN old
        BY <1>2, <1>10, <2>1
      <3> QED  BY <1>2, <1>5, <1>10, <2>1, <3>1 DEF Pile
    <2>2. CASE i \in DOMAIN old /\ j \notin DOMAIN old
      <3> DEFINE k == j - Len(old)
      <3>1. k \in DOMAIN page /\ all[j] = page[k] /\ all[i] = old[i]
        BY <1>2, <1>3, <2>2
      <3> HIDE DEF k
      <3>2. old[i] # page[k] /\ born[old[i]] > born[page[k]]
        BY <1>9, <1>10, <2>2, <3>1
      <3> QED  BY <1>5, <2>2, <3>1, <3>2
    <2>3. CASE i \notin DOMAIN old /\ j \notin DOMAIN old
      <3>1. i - Len(old) < j - Len(old)
        BY <1>2, <1>10
      <3> QED  BY <1>3, <2>3, <3>1
    <2>4. i \in DOMAIN old \/ j \notin DOMAIN old
      BY <1>2, <1>10
    <2> QED  BY <2>1, <2>2, <2>3, <2>4
  <1>11. ASSUME 0 \notin sent, c # 0, NEW i \in DOMAIN all
         PROVE  born[all[i]] >= c
    <2>1. Len(page) \in DOMAIN page /\ c = born[page[Len(page)]] /\ c \in Nat
      BY <1>1, <1>2, <1>5, <1>11
    <2>2. CASE i \in DOMAIN old
      <3>1. born[old[i]] > c
        BY <1>9, <1>11, <2>1, <2>2
      <3> QED  BY <1>2, <1>5, <2>1, <2>2, <3>1
    <2>3. CASE i \notin DOMAIN old
      <3> DEFINE k == i - Len(old)
      <3>1. k \in DOMAIN page /\ all[i] = page[k] /\ k <= Len(page)
        BY <1>2, <1>3, <1>11, <2>3
      <3> HIDE DEF k
      <3>2. CASE k = Len(page)
        BY <1>5, <2>1, <3>1, <3>2
      <3>3. CASE k # Len(page)
        <4>1. k < Len(page)
          BY <1>2, <3>1, <3>3
        <4> QED  BY <1>5, <2>1, <3>1, <4>1
      <3> QED  BY <3>2, <3>3
    <2> QED  BY <2>2, <2>3
  <1>12. listed'[x] = all
    BY DEF all
  <1> QED  BY <1>4, <1>7, <1>8, <1>10, <1>11, <1>12 DEF Pile

\* A page preserves the invariant.
LEMMA ListPreserves ==
    ASSUME ReadsInv, NEW x \in Reader, ListPage(x), Stamp, Observe,
           UNCHANGED <<op, wanted>>,
           UNCHANGED <<requestVars, storeVars, target, caller, crashes>>
    PROVE  ReadsInv'
  <1>0. PICK readable \in BOOLEAN :
          /\ readable \/ (cursor[x] # 0 /\ 0 \notin turns[x])
          /\ turns' = [turns EXCEPT ![x] =
                         IF cursor[x] = 0 THEN @
                         ELSE @ \cup {IF readable THEN cursor[x] ELSE 0}]
          /\ LET docs == Rest(x, Parsed(cursor[x], readable)) IN
             \E page \in Pages(docs) : \E more \in HasMore(docs, page) :
               /\ listed'  = [listed EXCEPT ![x] = @ \o page]
               /\ cursor'  = [cursor EXCEPT ![x] =
                                IF more THEN Printed(born[page[Len(page)]]) ELSE 0]
               /\ reading' = IF more THEN reading
                             ELSE [reading EXCEPT ![x] = "served"]
    BY DEF ListPage
  <1> DEFINE from == IF readable THEN cursor[x] ELSE 0
             docs == Rest(x, from)
             sent == IF cursor[x] = 0 THEN turns[x] ELSE turns[x] \cup {from}
  <1> DEFINE Given(page, more) ==
          /\ listed'  = [listed EXCEPT ![x] = @ \o page]
          /\ cursor'  = [cursor EXCEPT ![x] =
                           IF more THEN Printed(born[page[Len(page)]]) ELSE 0]
          /\ reading' = IF more THEN reading
                        ELSE [reading EXCEPT ![x] = "served"]
  <1>a. PICK page \in Pages(docs) : \E more \in HasMore(docs, page) :
            Given(page, more)
    BY <1>0 DEF Parsed
  <1>1. PICK more \in HasMore(docs, page) : Given(page, more)
    BY <1>a
  <1>2. op[x] = "list" /\ reading[x] = "idle" /\ UNCHANGED <<told, extra>>
    BY DEF ListPage
  <1>3. /\ reading \in [Reader -> Download] /\ reading' \in [Reader -> Download]
        /\ \A y \in Reader : y # x => reading'[y] = reading[y]
        /\ reading'[x] = IF more THEN "idle" ELSE "served"
    BY <1>1, <1>2 DEF ReadsInv, IInv, TypeOK, Download
  <1>4. FoundRow'
    BY <1>3 DEF ReadsInv, IInv, FoundRow, storeVars
  <1>5. IInv' /\ Births' /\ Onward /\ born' = born
    BY <1>3, <1>4, ReadsChangeNoStore
  <1>6. ClientReads'
    <2>1. told[x] = "none"
      BY <1>2 DEF ReadsInv, ClientReads
    <2> QED  BY <1>2, <1>3, <2>1, LeftSaysSo DEF ReadsInv, ClientReads, storeVars
  <1>7. IsFiniteSet(docs) /\ docs \subseteq Request
    <2>1. docs \subseteq Inserted
      BY DEF Rest, Matching, Visible, Status, Inserted
    <2> QED  BY <2>1, FS_Subset DEF ReadsInv, Births, Inserted
  <1> HIDE DEF docs
  <1>8. /\ page \in Seq(docs)
        /\ \A i, j \in DOMAIN page : i < j =>
              page[i] # page[j] /\ born[page[i]] >= born[page[j]]
        /\ \A i \in DOMAIN page : \A r \in docs \ Range(page) :
              born[page[i]] >= born[r]
        /\ page = <<>> => docs = {}
    BY <1>7, PageProperties
  <1>9. /\ more \in BOOLEAN
        /\ more => page # <<>>
        /\ ~ more => Range(page) = docs
    <2>1. /\ more \in BOOLEAN
          /\ ~ more => Range(page) = docs
          /\ more => Range(page) # docs \/ Len(page) = PageSize
      BY DEF HasMore
    <2>2. page = <<>> => Range(page) = {} /\ Len(page) = 0
      BY DEF Range
    <2> QED  BY <1>8, <2>1, <2>2, ReadsAssumption
  <1> DEFINE c == IF more THEN born[page[Len(page)]] ELSE 0
  <1>10. /\ listed \in [Reader -> Seq(Request)] /\ page \in Seq(Request)
         /\ cursor \in [Reader -> Nat] /\ c \in Nat
         /\ turns \in [Reader -> SUBSET Nat] /\ sent \in SUBSET Nat
         /\ born \in [Request -> Nat]
         /\ page # <<>> => Len(page) \in DOMAIN page
                           /\ page[Len(page)] \in docs
    <2>1. /\ listed \in [Reader -> Seq(Request)] /\ cursor \in [Reader -> Nat]
          /\ turns \in [Reader -> SUBSET Nat] /\ born \in [Request -> Nat]
      BY BornIsNat DEF ReadsInv, Walks
    <2>2. page \in Seq(Request)
      BY <1>7, <1>8
    <2>3. page # <<>> => Len(page) \in DOMAIN page /\ page[Len(page)] \in docs
      BY <1>8
    <2>4. c \in Nat
      BY <1>7, <1>9, <2>1, <2>3
    <2>5. sent \in SUBSET Nat
      BY <2>1
    <2> HIDE DEF c, sent
    <2> QED  BY <2>1, <2>2, <2>3, <2>4, <2>5
  <1>11. /\ listed'[x] = listed[x] \o page /\ cursor'[x] = c /\ turns'[x] = sent
         /\ listed' \in [Reader -> Seq(Request)] /\ cursor' \in [Reader -> Nat]
         /\ turns' \in [Reader -> SUBSET Nat]
         /\ \A y \in Reader : y # x =>
               /\ listed'[y] = listed[y] /\ cursor'[y] = cursor[y]
               /\ turns'[y] = turns[y]
    <2>1. cursor' = [cursor EXCEPT ![x] = c]
      BY <1>1 DEF Printed
    <2>2. turns' = [turns EXCEPT ![x] = sent]
      BY <1>0
    <2>3. listed[x] \o page \in Seq(Request)
      BY <1>10
    <2> HIDE DEF c, sent
    <2> QED  BY <1>1, <1>10, <2>1, <2>2, <2>3
  <1>12. c # 0 => page # <<>> /\ c = born[page[Len(page)]]
    BY <1>9
  <1>13. /\ turns[x] \subseteq sent /\ sent \subseteq turns[x] \cup {0, cursor[x]}
         /\ 0 \notin sent => from = cursor[x]
         /\ cursor[x] # 0 => from \in sent
         /\ cursor[x] = 0 => from = 0
    BY <1>0
  <1> HIDE DEF c, sent, from
  <1>14. /\ Pile(x)'
         /\ Range(listed'[x]) = Range(listed[x]) \cup Range(page)
    <2>1. page \in Seq(Rest(x, from))
      BY <1>8 DEF docs
    <2> QED  BY <1>2, <1>5, <1>8, <1>11, <1>12, <1>13, <2>1, PileGrows
  <1>15. steady'[x] \subseteq Matching(x)
    BY <1>2 DEF Observe, ReadsInv, Walks, Walk
  <1>16. steady'[x] \subseteq Matching(x)' /\ \A r \in steady'[x] : born'[r] # 0
    <2>1. steady'[x] \subseteq Matching(x)'
      BY <1>2 DEF Observe
    <2> QED
      BY <1>5, <1>15, <2>1 DEF Matching, Visible, Status, ReadsInv, Births
  <1>17. \A r \in steady'[x] :
            r \in docs \/ r \in Range(listed[x]) \/ born[r] \in sent
    <2> SUFFICES ASSUME NEW r \in steady'[x], r \notin docs
                 PROVE  r \in Range(listed[x]) \/ born[r] \in sent
      OBVIOUS
    <2>1. r \in Request /\ from # 0 /\ ~ (born[r] < from)
      BY <1>15 DEF docs, Rest, Matching
    <2>2. cursor[x] # 0 /\ from = cursor[x] /\ from \in sent
      BY <1>13, <2>1 DEF from
    <2>3. listed[x] # <<>>
      <3>1. {cursor[x]} \subseteq {0} \cup {born[q] : q \in Range(listed[x])}
        BY DEF ReadsInv, Walks, Pile
      <3> QED  BY <2>2, <3>1 DEF Range
    <2>4. r \in steady[x]
      BY <1>2, <2>3 DEF Observe
    <2>5. \/ r \in Range(listed[x])
          \/ born[r] \in turns[x] \cup {cursor[x]}
          \/ born[r] < cursor[x]
      BY <1>2, <2>2, <2>4 DEF ReadsInv, Walks, Walk
    <2> QED  BY <1>13, <2>1, <2>2, <2>5
  <1>18. Walk(x)'
    <2>1. CASE more
      <3>1. c = born[page[Len(page)]] /\ page # <<>> /\ c # 0
        <4>1. born[page[Len(page)]] # 0
          BY <1>9, <1>10, <2>1
             DEF docs, Rest, Matching, Visible, Status, ReadsInv, Births
        <4> QED  BY <1>9, <2>1, <4>1 DEF c
      <3>2. ASSUME NEW r \in steady'[x]
            PROVE  \/ r \in Range(listed'[x])
                   \/ born'[r] \in turns'[x] \cup {cursor'[x]}
                   \/ born'[r] < cursor'[x]
        <4>1. CASE r \in docs /\ r \notin Range(page)
          <5>1. c >= born[r] /\ born[r] \in Nat
            BY <1>7, <1>8, <1>10, <3>1, <4>1
          <5> QED  BY <1>5, <1>10, <1>11, <5>1
        <4>2. CASE r \in Range(page)
          BY <1>14, <4>2
        <4>3. CASE r \notin docs
          BY <1>5, <1>11, <1>14, <1>17, <4>3
        <4> QED  BY <4>1, <4>2, <4>3
      <3> QED  BY <1>3, <1>11, <1>16, <2>1, <3>1, <3>2 DEF Walk
    <2>2. CASE ~ more
      <3>1. \A r \in steady'[x] :
               r \in Range(listed'[x]) \/ born'[r] \in turns'[x]
        BY <1>5, <1>9, <1>11, <1>14, <1>17, <2>2
      <3> QED  BY <1>3, <1>16, <2>2, <3>1 DEF Walk
    <2> QED  BY <1>9, <2>1, <2>2
  <1>19. ASSUME NEW y \in Reader, y # x
         PROVE  Pile(y)' /\ (op[y] = "list" => Walk(y)')
    BY <1>3, <1>5, <1>11, <1>19, WalkSurvives
  <1>20. Walks'
    BY <1>11, <1>14, <1>18, <1>19, SteadyType DEF Walks
  <1> QED  BY <1>5, <1>6, <1>20 DEF ReadsInv

----------------------------------------------------------------------------

\* The initial states satisfy the invariant.
LEMMA InitReadsInv == ReadsInit => ReadsInv
  <1> SUFFICES ASSUME ReadsInit PROVE ReadsInv
    OBVIOUS
  <1>1. /\ IInv /\ op \in [Reader -> Op]
        /\ wanted \in [Reader -> Status \cup {"any"}]
    BY InitIInv DEF ReadsInit
  <1>2. Births
    <2>1. Inserted = {}
      BY DEF ReadsInit, Init, Inserted
    <2> QED  BY <2>1, FS_EmptySet DEF ReadsInit, Init, Births
  <1>3. ClientReads
    BY DEF ReadsInit, ClientReads, Extra
  <1>4. Walks
    <2>1. <<>> \in Seq(Request) /\ DOMAIN <<>> = {}
      OBVIOUS
    <2> QED  BY <2>1 DEF ReadsInit, Init, Walks, Pile, Walk
  <1> QED  BY <1>1, <1>2, <1>3, <1>4 DEF ReadsInv

\* Every step preserves the invariant.
LEMMA StepReadsInv == ReadsInv /\ [ReadsNext]_readsVars => ReadsInv'
  <1> SUFFICES ASSUME ReadsInv, [ReadsNext]_readsVars
               PROVE  ReadsInv'
    OBVIOUS
  <1>1. CASE Keeping(HandlerStep) /\ UNCHANGED clientVars
    BY <1>1, HandlersPreserve
  <1>2. ASSUME NEW x \in Reader, Keeping(ReadStep(x))
        PROVE  ReadsInv'
    <2>1. /\ Single(x) \/ ListPage(x)
          /\ Stamp /\ Observe /\ UNCHANGED <<op, wanted>>
          /\ UNCHANGED <<requestVars, storeVars, target, caller, crashes>>
      BY <1>2 DEF Keeping, ReadStep, Single
    <2> QED  BY <2>1, SinglePreserves, ListPreserves
  <1>3. CASE UNCHANGED readsVars
    <2>1. IInv'
      BY <1>3, StepIInv DEF readsVars, ReadsInv
    <2>2. Births' /\ ClientReads'
      BY <1>3 DEF readsVars, vars, ReadsInv, Births, Inserted, ClientReads
    <2>3. Walks'
      <3>1. \A x \in Reader : Matching(x)' = Matching(x)
        BY <1>3 DEF readsVars, vars, Matching, Visible
      <3>2. \A x \in Reader : Pile(x)' = Pile(x)
        BY <1>3 DEF readsVars, vars, Pile
      <3>3. \A x \in Reader : Walk(x)' = Walk(x)
        BY <1>3, <3>1 DEF readsVars, vars, Walk
      <3> QED  BY <1>3, <3>2, <3>3 DEF readsVars, ReadsInv, Walks
    <2> QED  BY <1>3, <2>1, <2>2, <2>3 DEF readsVars, ReadsInv
  <1> QED  BY <1>1, <1>2, <1>3 DEF ReadsNext

\* The inductive invariant holds in every reachable state.
THEOREM ReadsInvariance == ReadsSpec => []ReadsInv
  BY InitReadsInv, StepReadsInv, PTL DEF ReadsSpec

----------------------------------------------------------------------------

\* With the other reads next to it, the ingest handler keeps its promises:
\* its types, that a 202 is durable, that a job has its document and that a
\* found row has its bytes (HandleIngestDocument, HandleGetSource).
THEOREM StoresCarryOver ==
    ReadsSpec => [](/\ TypeOK /\ AcceptedIsDurable
                    /\ JobHasDocument /\ FoundIsReadable)
  <1>1. IInv => /\ TypeOK /\ AcceptedIsDurable
                /\ JobHasDocument /\ FoundIsReadable
    BY DEF IInv, TypeOK, WriteOrder, AnswerWrites, FoundRow,
           AcceptedIsDurable, JobHasDocument, FoundIsReadable
  <1>2. ReadsInv => IInv
    BY DEF ReadsInv
  <1> QED  BY <1>1, <1>2, ReadsInvariance, PTL

\* What a client has read keeps to its type, and its cursors are the
\* created_at of documents it has listed.
THEOREM ReadsTypeCorrect == ReadsSpec => []ReadsTypeOK
  <1>1. ReadsInv => ReadsTypeOK
    <2> SUFFICES ASSUME ReadsInv PROVE ReadsTypeOK
      OBVIOUS
    <2>1. \A x \in Reader :
            /\ Range(listed[x]) \subseteq Request
            /\ {cursor[x]} \cup turns[x] \subseteq
                  {0} \cup {born[r] : r \in Range(listed[x])}
            /\ steady[x] \subseteq Request
      <3> TAKE x \in Reader
      <3>1. listed[x] \in Seq(Request) /\ steady[x] \subseteq Request /\ Pile(x)
        BY DEF ReadsInv, Walks
      <3>2. Range(listed[x]) \subseteq Request
        BY <3>1 DEF Range
      <3> QED  BY <3>1, <3>2 DEF Pile
    <2> QED  BY <2>1 DEF ReadsInv, Births, ClientReads, ReadsTypeOK
  <1> QED  BY <1>1, ReadsInvariance, PTL

\* A walk through the list that has come to its end has seen every document
\* that matched its filters from the first page to the last, but for those
\* that share their created_at with the end of a page: whatever was inserted,
\* processed or deleted between two pages, for any size of a page, any ties
\* and whatever cursor was garbled (HandleListDocuments, ListDocuments).
THEOREM WalksAreComplete == ReadsSpec => []WalkMissesNothing
  <1>1. ReadsInv => WalkMissesNothing
    BY DEF ReadsInv, Walks, Walk, WalkMissesNothing
  <1> QED  BY <1>1, ReadsInvariance, PTL

\* A walk whose cursors all came through lists no document twice and none
\* that is newer than one before it (the next_cursor of HandleListDocuments).
THEOREM WalksDescend == ReadsSpec => []WalkGoesForward
  <1>1. ReadsInv => WalkGoesForward
    BY DEF ReadsInv, Walks, Pile, WalkGoesForward
  <1> QED  BY <1>1, ReadsInvariance, PTL

\* A document that is told to be ready is told with its sections, unless the
\* count failed, or the row left "ready" between the two reads: a delete, or
\* a job whose acknowledgement was lost and that was delivered again
\* (HandleGetDocument reads the row first).
THEOREM ReadyIsTold == ReadsSpec => []ReadyHasSections
  <1>1. ReadsInv => ReadyHasSections
    BY DEF ReadsInv, ClientReads, ReadyHasSections
  <1> QED  BY <1>1, ReadsInvariance, PTL

----------------------------------------------------------------------------

\* Among the finite sets of a kind there is a least: one that has none of
\* that kind below it.
LEMMA LeastSet ==
    ASSUME NEW S, NEW T, T \subseteq FiniteSubsetsOf(S), T # {}
    PROVE  \E D \in T : \A C \in T : C \subseteq D => C = D
  <1> DEFINE R == StrictSubsetOrdering(S)
  <1>1. IsWellFoundedOn(R, FiniteSubsetsOf(S))
    BY FS_StrictSubsetOrderingWellFounded
  <1>2. \E D \in T : \A C \in T : ~ (<<C, D>> \in R)
    <2> HIDE DEF R
    <2> QED  BY <1>1, WFMin
  <1>3. PICK D \in T : \A C \in T : ~ (<<C, D>> \in R)
    BY <1>2
  <1>4. ASSUME NEW C \in T, C \subseteq D, C # D
        PROVE  FALSE
    <2>1. C \in SUBSET S /\ D \in SUBSET S
      BY DEF FiniteSubsetsOf
    <2>2. <<C, D>> \in R
      BY <1>4, <2>1, Zenon DEF StrictSubsetOrdering
    <2> QED  BY <1>3, <2>2
  <1> QED  BY <1>4

\* Finite sets of documents with a time each, not always of its own.
Dated(D) ==
    D \in SUBSET Request /\ IsFiniteSet(D) /\ born \in [Request -> Nat]

\* The oldest of a document of such a set.
LEMMA OldestExists ==
    ASSUME NEW D, Dated(D), D # {}
    PROVE  \E r \in D : \A q \in D : born[r] <= born[q]
  <1> DEFINE T == {C \in SUBSET D : C # {} /\
                      ~ \E r \in C : \A q \in C : born[r] <= born[q]}
  <1> SUFFICES ASSUME T # {} PROVE FALSE
    BY DEF Dated
  <1>1. T \subseteq FiniteSubsetsOf(Request)
    <2>1. \A C \in SUBSET D : IsFiniteSet(C) /\ C \in SUBSET Request
      BY FS_Subset DEF Dated
    <2> QED  BY <2>1 DEF FiniteSubsetsOf
  <1>2. PICK C \in T : \A B \in T : B \subseteq C => B = C
    <2> HIDE DEF T
    <2> QED  BY <1>1, LeastSet
  <1>3. PICK r \in C : TRUE
    OBVIOUS
  <1> DEFINE B == C \ {r}
  <1>4. \A q \in C : born[q] \in Nat
    BY DEF Dated
  <1>5. CASE B = {}
    <2>1. \A q \in C : born[r] <= born[q]
      BY <1>4, <1>5
    <2> QED  BY <2>1
  <1>6. CASE B # {}
    <2>1. B \notin T
      BY <1>2
    <2>2. PICK s \in B : \A q \in B : born[s] <= born[q]
      BY <1>6, <2>1
    <2>3. \A q \in C : q = r \/ q \in B
      OBVIOUS
    <2>4. CASE born[r] <= born[s]
      <3>1. \A q \in C : born[r] <= born[q]
        BY <1>4, <2>2, <2>3, <2>4
      <3> QED  BY <3>1
    <2>5. CASE ~ (born[r] <= born[s])
      <3>1. \A q \in C : born[s] <= born[q]
        BY <1>4, <2>2, <2>3, <2>5
      <3> QED  BY <3>1
    <2> QED  BY <2>4, <2>5
  <1> QED  BY <1>5, <1>6

\* The documents of a set from the newest to the oldest.
Descending(s, D) ==
    /\ s \in [1 .. Cardinality(D) -> D] /\ Range(s) = D
    /\ \A i, j \in 1 .. Cardinality(D) : i < j =>
          s[i] # s[j] /\ born[s[i]] >= born[s[j]]

\* Every such set has this order: the oldest comes after all the others.
LEMMA OrderExists ==
    ASSUME NEW D, Dated(D)
    PROVE  \E s : Descending(s, D)
  <1> DEFINE T == {C \in SUBSET D : ~ \E s : Descending(s, C)}
  <1> SUFFICES ASSUME T # {} PROVE FALSE
    BY DEF Dated
  <1>1. \A C \in SUBSET D : Dated(C) /\ C \in FiniteSubsetsOf(Request)
    <2>1. \A C \in SUBSET D : IsFiniteSet(C)
      BY FS_Subset DEF Dated
    <2> QED  BY <2>1 DEF Dated, FiniteSubsetsOf
  <1>2. T \subseteq FiniteSubsetsOf(Request)
    BY <1>1
  <1>3. PICK C \in T : \A B \in T : B \subseteq C => B = C
    <2> HIDE DEF T
    <2> QED  BY <1>2, LeastSet
  <1>4. Dated(C) /\ ~ \E s : Descending(s, C)
    BY <1>1
  <1>5. C # {}
    <2> SUFFICES ASSUME C = {} PROVE FALSE
      OBVIOUS
    <2>1. Descending(<<>>, C)
      BY FS_EmptySet DEF Descending, Range
    <2> QED  BY <1>4, <2>1
  <1>6. PICK r \in C : \A q \in C : born[r] <= born[q]
    BY <1>4, <1>5, OldestExists
  <1> DEFINE B == C \ {r}
             n == Cardinality(C)
  <1>7. B \notin T /\ B \in SUBSET D
    BY <1>3
  <1>8. PICK s : Descending(s, B)
    BY <1>7
  <1>9. /\ n \in Nat \ {0} /\ Cardinality(B) = n - 1
    <2>1. n \in Nat /\ n # 0
      BY <1>4, <1>5, FS_CardinalityType, FS_EmptySet DEF Dated
    <2>2. Cardinality(B) = n - 1
      BY <1>4, FS_RemoveElement DEF Dated
    <2> QED  BY <2>1, <2>2
  <1> DEFINE t == [i \in 1 .. n |-> IF i = n THEN r ELSE s[i]]
  <1>10. /\ s \in [1 .. n - 1 -> B] /\ Range(s) = B
         /\ \A i, j \in 1 .. n - 1 : i < j =>
               s[i] # s[j] /\ born[s[i]] >= born[s[j]]
    BY <1>8, <1>9 DEF Descending
  <1> HIDE DEF n
  <1>11. t \in [1 .. n -> C]
    <2>1. \A i \in 1 .. n : i # n => i \in 1 .. n - 1
      BY <1>9
    <2> QED  BY <1>10, <2>1
  <1>12. Range(t) = C
    <2>1. \A q \in C : \E i \in 1 .. n : t[i] = q
      <3> SUFFICES ASSUME NEW q \in C PROVE \E i \in 1 .. n : t[i] = q
        OBVIOUS
      <3>1. CASE q = r
        <4>1. n \in 1 .. n /\ t[n] = r
          BY <1>9
        <4> QED  BY <3>1, <4>1
      <3>2. CASE q # r
        <4>1. q \in Range(s)
          BY <1>10, <3>2
        <4>2. PICK i \in 1 .. n - 1 : s[i] = q
          BY <1>10, <4>1 DEF Range
        <4>3. i \in 1 .. n /\ i # n
          BY <1>9
        <4> QED  BY <4>2, <4>3
      <3> QED  BY <3>1, <3>2
    <2> HIDE DEF t
    <2> QED  BY <1>11, <2>1 DEF Range
  <1>13. \A i, j \in 1 .. n : i < j =>
            t[i] # t[j] /\ born[t[i]] >= born[t[j]]
    <2> SUFFICES ASSUME NEW i \in 1 .. n, NEW j \in 1 .. n, i < j
                 PROVE  t[i] # t[j] /\ born[t[i]] >= born[t[j]]
      OBVIOUS
    <2>1. i \in 1 .. n - 1 /\ t[i] = s[i]
      BY <1>9
    <2>2. CASE j = n
      <3>1. s[i] \in B /\ s[i] \in C /\ s[i] # r
        BY <1>10, <2>1
      <3>2. born[r] <= born[s[i]]
        BY <1>6, <3>1
      <3>3. born[r] \in Nat /\ born[s[i]] \in Nat
        BY <1>4, <3>1 DEF Dated
      <3>4. t[j] = r
        BY <1>9, <2>2
      <3> QED  BY <2>1, <3>1, <3>2, <3>3, <3>4
    <2>3. CASE j # n
      <3>1. j \in 1 .. n - 1 /\ t[j] = s[j]
        BY <1>9, <2>3
      <3> QED  BY <1>10, <2>1, <3>1
    <2> QED  BY <2>2, <2>3
  <1> HIDE DEF t
  <1>14. Descending(t, C)
    BY <1>11, <1>12, <1>13 DEF Descending, n
  <1> QED  BY <1>4, <1>14

\* So the database always has a page to give.
LEMMA PageExists ==
    ASSUME NEW D, Dated(D)
    PROVE  Pages(D) # {}
  <1> DEFINE m == Cardinality(D)
             n == IF m > PageSize THEN PageSize ELSE m
  <1>1. PICK s : Descending(s, D)
    BY OrderExists
  <1>2. m \in Nat /\ n \in Nat /\ n <= m
    <2>1. m \in Nat
      BY FS_CardinalityType DEF Dated
    <2> HIDE DEF m
    <2> QED  BY <2>1, ReadsAssumption
  <1>3. /\ s \in [1 .. m -> D] /\ Range(s) = D
        /\ \A i, j \in 1 .. m : i < j =>
              s[i] # s[j] /\ born[s[i]] >= born[s[j]]
    BY <1>1 DEF Descending
  <1> DEFINE p == [i \in 1 .. n |-> s[i]]
  <1> HIDE DEF m, n
  <1>4. \A i \in 1 .. n : i \in 1 .. m
    BY <1>2
  <1>5. /\ p \in [1 .. n -> D]
        /\ \A i, j \in 1 .. n : i < j =>
              p[i] # p[j] /\ born[p[i]] >= born[p[j]]
    BY <1>3, <1>4
  <1>6. \A i \in 1 .. n : \A r \in D \ Range(p) : born[p[i]] >= born[r]
    <2> SUFFICES ASSUME NEW i \in 1 .. n, NEW r \in D, r \notin Range(p)
                 PROVE  born[p[i]] >= born[r]
      OBVIOUS
    <2>1. PICK j \in 1 .. m : s[j] = r
      BY <1>3 DEF Range
    <2>2. j \notin 1 .. n
      BY <2>1 DEF Range
    <2>3. i < j /\ i \in 1 .. m
      BY <1>2, <2>2
    <2> QED  BY <1>3, <2>1, <2>3
  <1> HIDE DEF p
  <1>7. p \in Pages(D)
    BY <1>5, <1>6 DEF Pages, n, m
  <1> QED  BY <1>7

\* A page can be given to whoever asks for one, from whatever cursor: the
\* order that the walk relies on, newest first by created_at, exists
\* (db.ListDocuments).
THEOREM PagesAreThere ==
    ReadsSpec => [](\A x \in Reader, from \in Nat : Pages(Rest(x, from)) # {})
  <1>1. ReadsInv => \A x \in Reader, from \in Nat : Pages(Rest(x, from)) # {}
    <2> SUFFICES ASSUME ReadsInv, NEW x \in Reader, NEW from \in Nat
                 PROVE  Dated(Rest(x, from))
      BY PageExists
    <2>1. Rest(x, from) \subseteq Inserted
      BY DEF Rest, Matching, Visible, Status, Inserted
    <2>2. IsFiniteSet(Rest(x, from))
      BY <2>1, FS_Subset DEF ReadsInv, Births
    <2> QED  BY <2>1, <2>2, BornIsNat DEF Dated, ReadsInv, Inserted
  <1> QED  BY <1>1, ReadsInvariance, PTL

=============================================================================
