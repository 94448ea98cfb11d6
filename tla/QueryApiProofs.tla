--------------------------- MODULE QueryApiProofs ---------------------------
(***************************************************************************)
(* Theorems about one retrieval request, for any documents, any sections   *)
(* and any choice of the strategy, any size of its channel and of the      *)
(* ResponseWriter's buffer, and any cap on the sections.                   *)
(*                                                                         *)
(* The first part is about what the loops over the chosen IDs keep: facts  *)
(* about a recursive function on sequences of any length, by the least     *)
(* counterexample.                                                         *)
(***************************************************************************)
EXTENDS QueryApi, Integers, FiniteSetTheorems, TLAPS

\* An event of a type about a document is among the events of a sequence.
Reports(q, d, type) == \E e \in Range(q) : e.doc = d /\ e.type = type

\* The event of a selected section is in the channel, and the end of the
\* document's run is not before it.
Ahead(q, d, s) ==
    \E i \in DOMAIN q :
        /\ q[i].doc = d /\ q[i].type = "section" /\ q[i].section = s
        /\ \A j \in 1 .. i : ~ (q[j].doc = d /\ q[j].type = "completed")

\* An event among those of a sequence names a section of a document.
Names(q, d, s) ==
    \E e \in Range(q) : e.doc = d /\ e.type = "section" /\ e.section = s

\* Nothing runs and nothing is sent before the handler starts the runs, nor
\* when it has refused the request; a query has no channel at all.
BeforeTheRuns ==
    /\ phase \in {"new", "refused"} =>
         /\ chan = <<>> /\ wire = <<>>
         /\ \A d \in Doc : run[d] = "idle" /\ picks[d] = <<>>
    /\ api.shape = "query" => chan = <<>> /\ wire = <<>>

\* A stream the client has not left returns when the channel is closed.
ReturnsDrained ==
    phase = "returned" /\ api.shape = "stream" /\ client = "open" => Drained

\* As long as the client is there, the end of a run has been written or is
\* in the channel.
EndsAreUnderway ==
    api.shape = "stream" /\ client = "open" =>
        \A d \in Doc :
            /\ run[d] = "completed" =>
                 Reports(chan, d, "completed") \/ Reports(wire, d, "completed")
            /\ run[d] = "failed" =>
                 Reports(chan, d, "error") \/ Reports(wire, d, "error")

\* A run that goes on has not told its end.
EndsAreLast ==
    \A d \in Doc : run[d] \in {"idle", "called", "selecting"} =>
        ~ Reports(chan, d, "completed") /\ ~ Reports(wire, d, "completed")

\* A section that was selected has been written, or is in the channel ahead
\* of the end of its run, or the client has left and that end will not be
\* written.
SectionsAreUnderway ==
    api.shape = "stream" /\ (api.form = "one" \/ api.transport = "rest") =>
        \A d \in Doc : \A s \in Range(picks[d]) \cap Tree :
            \/ Names(wire, d, s)
            \/ /\ ~ Reports(wire, d, "completed")
               /\ client = "gone" \/ Ahead(chan, d, s)

\* The inductive invariant.
IInv ==
    /\ TypeOK /\ BeforeTheRuns /\ ReturnsDrained
    /\ EndsAreUnderway /\ EndsAreLast /\ SectionsAreUnderway

----------------------------------------------------------------------------

\* A set of natural numbers that is not empty has a least one.  The sets
\* 0 .. n are finite, and inclusion among finite sets is well founded.
LEMMA Least ==
    ASSUME NEW S \in SUBSET Nat, S # {}
    PROVE  \E n \in S : \A m \in S : n <= m
  <1> DEFINE T == {0 .. n : n \in S}
             R == StrictSubsetOrdering(Nat)
  <1>1. T \subseteq FiniteSubsetsOf(Nat) /\ T # {}
    <2>1. ASSUME NEW n \in S
          PROVE  0 .. n \in FiniteSubsetsOf(Nat)
      <3>1. IsFiniteSet(0 .. n)
        BY FS_Interval
      <3>2. 0 .. n \in SUBSET Nat
        OBVIOUS
      <3> QED  BY <3>1, <3>2 DEF FiniteSubsetsOf
    <2> HIDE DEF R
    <2>2. T # {}
      OBVIOUS
    <2>3. T \subseteq FiniteSubsetsOf(Nat)
      BY <2>1
    <2> QED  BY <2>2, <2>3
  <1>2. IsWellFoundedOn(R, FiniteSubsetsOf(Nat))
    BY FS_StrictSubsetOrderingWellFounded
  <1>3. \E x \in T : \A y \in T : ~ (<<y, x>> \in R)
    <2> HIDE DEF T, R
    <2> QED  BY <1>1, <1>2, WFMin
  <1>4. PICK n \in S : \A m \in S : <<0 .. m, 0 .. n>> \notin R
    BY <1>3
  <1>5. ASSUME NEW m \in S, m < n
        PROVE  FALSE
    <2>1. (0 .. m) \in SUBSET Nat /\ (0 .. n) \in SUBSET Nat
      OBVIOUS
    <2>2. (0 .. m) \subseteq (0 .. n)
      BY <1>5
    <2>3. n \in 0 .. n /\ n \notin 0 .. m
      BY <1>5
    <2>4. <<0 .. m, 0 .. n>> \in R
      BY <2>1, <2>2, <2>3, Zenon DEF StrictSubsetOrdering
    <2> QED  BY <1>4, <2>4
  <1> QED  BY <1>5

----------------------------------------------------------------------------

\* One turn of the loop over the chosen IDs.
Keep(kept, id) == IF id \in Tree THEN Append(kept, id) ELSE kept

\* A function that is the loop's, for its first n turns.
Loop(ids, f, n) ==
    f = [i \in 0 .. n |-> IF i = 0 THEN <<>> ELSE Keep(f[i - 1], ids[i])]

\* The loop can be run over any sequence, to any of its elements: there is
\* no least number of turns that it cannot make.
LEMMA LoopRuns ==
    ASSUME NEW ids \in Seq(Section), NEW k \in 0 .. Len(ids)
    PROVE  \E f : Loop(ids, f, k)
  <1> DEFINE S == {n \in 0 .. Len(ids) : ~ \E f : Loop(ids, f, n)}
  <1> SUFFICES ASSUME S # {} PROVE FALSE
    OBVIOUS
  <1>1. S \in SUBSET Nat
    OBVIOUS
  <1>2. PICK n \in S : \A m \in S : n <= m
    <2> HIDE DEF S
    <2> QED  BY <1>1, Least
  <1>3. n # 0
    <2> SUFFICES ASSUME n = 0 PROVE Loop(ids, [i \in 0 .. n |-> <<>>], n)
      OBVIOUS
    <2> QED  BY DEF Loop
  <1>4. PICK f : Loop(ids, f, n - 1)
    BY <1>2, <1>3
  <1> DEFINE g == [i \in 0 .. n |-> IF i = n THEN Keep(f[n - 1], ids[n])
                                             ELSE f[i]]
  <1>5. Loop(ids, g, n)
    <2>1. n \in Nat \ {0}
      BY <1>1, <1>3
    <2>2. \A i \in 0 .. n - 1 :
            f[i] = IF i = 0 THEN <<>> ELSE Keep(f[i - 1], ids[i])
      BY <1>4 DEF Loop
    <2>3. ASSUME NEW i \in 0 .. n
          PROVE  g[i] = IF i = 0 THEN <<>> ELSE Keep(g[i - 1], ids[i])
      <3>1. CASE i = n
        <4>1. /\ g[i] = Keep(f[n - 1], ids[n])
              /\ g[i - 1] = f[n - 1] /\ i # 0
          BY <2>1, <3>1
        <4> QED  BY <3>1, <4>1
      <3>2. CASE i # n
        <4>1. g[i] = f[i] /\ i \in 0 .. n - 1
          BY <2>1, <3>2
        <4>2. i # 0 => g[i - 1] = f[i - 1]
          BY <2>1, <3>2
        <4> QED  BY <2>2, <4>1, <4>2
      <3> QED  BY <3>1, <3>2
    <2>4. g = [i \in 0 .. n |-> g[i]]
      OBVIOUS
    <2> HIDE DEF g
    <2> QED  BY <2>3, <2>4, Zenon DEF Loop
  <1> QED  BY <1>2, <1>5

\* The recursive function is such a function.
LEMMA KeptUnrolls ==
    ASSUME NEW ids \in Seq(Section)
    PROVE  Loop(ids, Kept(ids), Len(ids))
  <1>1. Len(ids) \in 0 .. Len(ids)
    OBVIOUS
  <1>2. \E f : Loop(ids, f, Len(ids))
    BY <1>1, LoopRuns
  <1>3. Kept(ids) = CHOOSE f : Loop(ids, f, Len(ids))
    BY DEF Kept, Loop, Keep
  <1> QED  BY <1>2, <1>3

\* The elements of a sequence when one is appended.
LEMMA RangeOfAppend ==
    ASSUME NEW S, NEW q \in Seq(S), NEW e
    PROVE  Range(Append(q, e)) = Range(q) \cup {e}
  <1>1. /\ DOMAIN q = 1 .. Len(q) /\ Len(q) \in Nat
        /\ DOMAIN Append(q, e) = 1 .. Len(q) + 1
    OBVIOUS
  <1>2. /\ \A i \in 1 .. Len(q) : Append(q, e)[i] = q[i]
        /\ Append(q, e)[Len(q) + 1] = e
    OBVIOUS
  <1>3. 1 .. Len(q) + 1 = (1 .. Len(q)) \cup {Len(q) + 1}
    BY <1>1
  <1> QED  BY <1>1, <1>2, <1>3, Zenon DEF Range

\* After any number of turns the loop has kept those of the IDs it has seen
\* that are in the tree.
LEMMA KeptProperties ==
    ASSUME NEW ids \in Seq(Section), NEW k \in 0 .. Len(ids)
    PROVE  /\ Kept(ids)[k] \in Seq(Tree)
           /\ Range(Kept(ids)[k]) = {ids[j] : j \in 1 .. k} \cap Tree
  <1> DEFINE K == Kept(ids)
             P(m) == /\ K[m] \in Seq(Tree)
                     /\ Range(K[m]) = {ids[j] : j \in 1 .. m} \cap Tree
             S == {m \in 0 .. Len(ids) : ~ P(m)}
  <1>1. \A i \in 0 .. Len(ids) :
           K[i] = IF i = 0 THEN <<>> ELSE Keep(K[i - 1], ids[i])
    BY KeptUnrolls DEF Loop
  <1> SUFFICES ASSUME S # {} PROVE FALSE
    OBVIOUS
  <1>2. S \in SUBSET Nat
    OBVIOUS
  <1>3. PICK n \in S : \A m \in S : n <= m
    <2> HIDE DEF S
    <2> QED  BY <1>2, Least
  <1> HIDE DEF K
  <1>4. n # 0
    <2> SUFFICES ASSUME n = 0 PROVE P(n)
      OBVIOUS
    <2>1. K[n] = <<>>
      BY <1>1
    <2>2. Range(<<>>) = {} /\ 1 .. n = {}
      BY DEF Range
    <2> QED  BY <2>1, <2>2
  <1>5. /\ n \in Nat /\ n - 1 \in 0 .. Len(ids)
        /\ n \in 1 .. Len(ids) /\ ~ (n <= n - 1)
    BY <1>2, <1>4
  <1>6. P(n - 1)
    <2>1. n - 1 \notin S
      <3> HIDE DEF S
      <3> QED  BY <1>3, <1>5
    <2> QED  BY <2>1, <1>5
  <1>7. K[n] = Keep(K[n - 1], ids[n])
    BY <1>1, <1>4
  <1>8. {ids[j] : j \in 1 .. n} = {ids[j] : j \in 1 .. n - 1} \cup {ids[n]}
    <2>1. 1 .. n = (1 .. n - 1) \cup {n}
      BY <1>5
    <2> QED  BY <2>1
  <1>9. CASE ids[n] \in Tree
    <2>1. K[n] = Append(K[n - 1], ids[n])
      BY <1>7, <1>9 DEF Keep
    <2>2. Range(K[n]) = Range(K[n - 1]) \cup {ids[n]}
      BY <1>6, <2>1, RangeOfAppend
    <2>3. K[n] \in Seq(Tree)
      BY <1>6, <1>9, <2>1
    <2>4. P(n)
      BY <1>6, <1>8, <1>9, <2>2, <2>3
    <2> QED  BY <2>4
  <1>10. CASE ids[n] \notin Tree
    <2>1. K[n] = K[n - 1]
      BY <1>7, <1>10 DEF Keep
    <2>2. P(n)
      BY <1>6, <1>8, <1>10, <2>1
    <2> QED  BY <2>2
  <1> QED  BY <1>9, <1>10

\* Known keeps exactly the IDs that are in the tree.
LEMMA KnownProperties ==
    ASSUME NEW ids \in Seq(Section)
    PROVE  Known(ids) \in Seq(Tree) /\ Range(Known(ids)) = Range(ids) \cap Tree
  <1>1. Len(ids) \in 0 .. Len(ids) /\ DOMAIN ids = 1 .. Len(ids)
    OBVIOUS
  <1>2. Range(ids) = {ids[j] : j \in 1 .. Len(ids)}
    BY <1>1 DEF Range
  <1> QED  BY <1>1, <1>2, KeptProperties DEF Known

\* The cap leaves some of the sections out and adds none.
LEMMA CapProperties ==
    ASSUME NEW S, NEW ids \in Seq(S)
    PROVE  Cap(ids) \in Seq(S) /\ Range(Cap(ids)) \subseteq Range(ids)
  <1>1. CASE MaxSections > 0 /\ Len(ids) > MaxSections
    <2>1. Cap(ids) = SubSeq(ids, 1, MaxSections)
      BY <1>1 DEF Cap
    <2>2. /\ MaxSections \in Nat /\ Len(ids) \in Nat
          /\ DOMAIN ids = 1 .. Len(ids)
      BY QueryAssumption
    <2>3. /\ Cap(ids) \in Seq(S) /\ DOMAIN Cap(ids) = 1 .. MaxSections
          /\ \A i \in 1 .. MaxSections : Cap(ids)[i] = ids[i]
      BY <1>1, <2>1, <2>2
    <2>4. 1 .. MaxSections \subseteq DOMAIN ids
      BY <1>1, <2>2
    <2> QED  BY <2>3, <2>4, Zenon DEF Range
  <1>2. CASE ~ (MaxSections > 0 /\ Len(ids) > MaxSections)
    BY <1>2 DEF Cap
  <1> QED  BY <1>1, <1>2

\* A query returns sections of the tree that the strategy has chosen,
\* whichever comes first, the cap or the lookup.
LEMMA ReturnedProperties ==
    ASSUME NEW ids \in Seq(Section), NEW form
    PROVE  /\ Returned(form, ids) \in Seq(Tree)
           /\ Range(Returned(form, ids)) \subseteq Range(ids) \cap Tree
  <1>1. CASE form = "one"
    <2>1. Cap(ids) \in Seq(Section) /\ Range(Cap(ids)) \subseteq Range(ids)
      BY CapProperties
    <2> QED  BY <1>1, <2>1, KnownProperties DEF Returned
  <1>2. CASE form # "one"
    <2>1. Known(ids) \in Seq(Tree) /\ Range(Known(ids)) = Range(ids) \cap Tree
      BY KnownProperties
    <2> QED  BY <1>2, <2>1, CapProperties DEF Returned
  <1> QED  BY <1>1, <1>2

----------------------------------------------------------------------------

\* The elements of a sequence are its head and those of its tail.
LEMMA RangeOfTail ==
    ASSUME NEW S, NEW q \in Seq(S), q # <<>>
    PROVE  /\ Head(q) \in S /\ Tail(q) \in Seq(S)
           /\ Range(q) = {Head(q)} \cup Range(Tail(q))
  <1>1. /\ DOMAIN q = 1 .. Len(q) /\ Len(q) \in Nat \ {0}
        /\ Tail(q) \in Seq(S) /\ DOMAIN Tail(q) = 1 .. Len(q) - 1
        /\ Head(q) = q[1] /\ q[1] \in S
    OBVIOUS
  <1>2. \A i \in 1 .. Len(q) - 1 : Tail(q)[i] = q[i + 1]
    OBVIOUS
  <1>3. \A x : x \in Range(q) <=> x \in {Head(q)} \cup Range(Tail(q))
    <2>1. ASSUME NEW i \in 1 .. Len(q)
          PROVE  q[i] \in {Head(q)} \cup Range(Tail(q))
      <3>1. CASE i = 1
        BY <1>1, <3>1
      <3>2. CASE i # 1
        <4>1. i - 1 \in 1 .. Len(q) - 1 /\ (i - 1) + 1 = i
          BY <1>1, <3>2
        <4>2. q[i] = Tail(q)[i - 1]
          BY <1>2, <4>1
        <4> QED  BY <1>1, <4>1, <4>2, Zenon DEF Range
      <3> QED  BY <3>1, <3>2
    <2>2. ASSUME NEW i \in 1 .. Len(q) - 1
          PROVE  Tail(q)[i] \in Range(q)
      <3>1. i + 1 \in DOMAIN q
        BY <1>1
      <3> QED  BY <1>2, <3>1, Zenon DEF Range
    <2>3. Head(q) \in Range(q)
      BY <1>1 DEF Range
    <2> QED  BY <1>1, <2>1, <2>2, <2>3, Zenon DEF Range
  <1> QED  BY <1>1, <1>3

\* What a sequence of events reports and names, when one is appended and
\* when the first is taken.
LEMMA AppendTells ==
    ASSUME NEW q \in Seq(Event), NEW e, NEW d, NEW t, NEW s
    PROVE  /\ Reports(Append(q, e), d, t) <=>
                Reports(q, d, t) \/ (e.doc = d /\ e.type = t)
           /\ Names(Append(q, e), d, s) <=>
                Names(q, d, s)
                \/ (e.doc = d /\ e.type = "section" /\ e.section = s)
  <1>1. \A x : x \in Range(Append(q, e)) <=> x \in Range(q) \/ x = e
    BY RangeOfAppend
  <1>2. Reports(Append(q, e), d, t) <=>
          Reports(q, d, t) \/ (e.doc = d /\ e.type = t)
    BY <1>1, Zenon DEF Reports
  <1>3. Names(Append(q, e), d, s) <=>
          Names(q, d, s) \/ (e.doc = d /\ e.type = "section" /\ e.section = s)
    BY <1>1, Zenon DEF Names
  <1> QED  BY <1>2, <1>3

LEMMA TailTells ==
    ASSUME NEW q \in Seq(Event), q # <<>>, NEW d, NEW t
    PROVE  Reports(q, d, t) <=>
              Reports(Tail(q), d, t) \/ (Head(q).doc = d /\ Head(q).type = t)
  BY RangeOfTail, Zenon DEF Reports

\* A section stays ahead of the end of its run when events are appended.
LEMMA AheadOfAppended ==
    ASSUME NEW q \in Seq(Event), NEW e, NEW d, NEW s, Ahead(q, d, s)
    PROVE  Ahead(Append(q, e), d, s)
  <1>1. PICK i \in DOMAIN q :
            /\ q[i].doc = d /\ q[i].type = "section" /\ q[i].section = s
            /\ \A j \in 1 .. i : ~ (q[j].doc = d /\ q[j].type = "completed")
    BY DEF Ahead
  <1>2. /\ i \in DOMAIN Append(q, e)
        /\ \A j \in 1 .. i : Append(q, e)[j] = q[j]
        /\ i \in 1 .. i
    OBVIOUS
  <1> QED  BY <1>1, <1>2, Zenon DEF Ahead

\* It is ahead of it when it is appended while the run goes on.
LEMMA AheadWhenAppended ==
    ASSUME NEW q \in Seq(Event), NEW e, NEW d, NEW s,
           e.doc = d, e.type = "section", e.section = s,
           ~ Reports(q, d, "completed")
    PROVE  Ahead(Append(q, e), d, s)
  <1> DEFINE p == Append(q, e)
             i == Len(q) + 1
  <1>1. /\ DOMAIN q = 1 .. Len(q) /\ Len(q) \in Nat
        /\ DOMAIN p = 1 .. i /\ p[i] = e
        /\ \A j \in 1 .. Len(q) : p[j] = q[j]
    OBVIOUS
  <1>2. \A j \in DOMAIN q : ~ (q[j].doc = d /\ q[j].type = "completed")
    BY DEF Reports, Range
  <1>3. \A j \in 1 .. i : ~ (p[j].doc = d /\ p[j].type = "completed")
    <2> TAKE j \in 1 .. i
    <2>1. CASE j = i
      BY <1>1, <2>1
    <2>2. CASE j # i
      <3>1. j \in 1 .. Len(q)
        BY <1>1, <2>2
      <3> QED  BY <1>1, <1>2, <3>1
    <2> QED  BY <2>1, <2>2
  <1>4. i \in DOMAIN p
    BY <1>1
  <1> HIDE DEF p, i
  <1>5. Ahead(p, d, s)
    BY <1>1, <1>3, <1>4 DEF Ahead
  <1> QED  BY <1>5 DEF p

\* When the first event is taken, it is the section's, or the section stays
\* ahead and the event is not the end of the run.
LEMMA AheadOfTail ==
    ASSUME NEW q \in Seq(Event), q # <<>>, NEW d, NEW s, Ahead(q, d, s)
    PROVE  /\ ~ (Head(q).doc = d /\ Head(q).type = "completed")
           /\ \/ /\ Head(q).doc = d /\ Head(q).type = "section"
                 /\ Head(q).section = s
              \/ Ahead(Tail(q), d, s)
  <1>1. PICK i \in DOMAIN q :
            /\ q[i].doc = d /\ q[i].type = "section" /\ q[i].section = s
            /\ \A j \in 1 .. i : ~ (q[j].doc = d /\ q[j].type = "completed")
    BY DEF Ahead
  <1>2. /\ DOMAIN q = 1 .. Len(q) /\ Len(q) \in Nat \ {0} /\ Head(q) = q[1]
        /\ DOMAIN Tail(q) = 1 .. Len(q) - 1
    OBVIOUS
  <1>3. \A j \in 1 .. Len(q) - 1 : Tail(q)[j] = q[j + 1]
    OBVIOUS
  <1>4. 1 \in 1 .. i
    BY <1>2
  <1>5. CASE i = 1
    BY <1>1, <1>2, <1>4, <1>5
  <1>6. CASE i # 1
    <2> DEFINE k == i - 1
               p == Tail(q)
    <2>1. k \in DOMAIN p /\ p[k] = q[i]
      BY <1>2, <1>3, <1>6
    <2>2. \A j \in 1 .. k : ~ (p[j].doc = d /\ p[j].type = "completed")
      <3> TAKE j \in 1 .. k
      <3>1. j \in 1 .. Len(q) - 1 /\ j + 1 \in 1 .. i
        BY <1>2
      <3> QED  BY <1>1, <1>3, <3>1
    <2> HIDE DEF k, p
    <2>3. Ahead(p, d, s)
      BY <1>1, <2>1, <2>2 DEF Ahead
    <2> QED  BY <1>1, <1>2, <1>4, <2>3 DEF p
  <1> QED  BY <1>5, <1>6

----------------------------------------------------------------------------

\* An event that goes out is an event, about the same document and of the
\* same type; and, but on Connect's many-document stream, a section of the
\* tree is named by it.
LEMMA ShownProperties ==
    ASSUME NEW e \in Event, api \in Api
    PROVE  /\ Shown(e) \in Event
           /\ Shown(e).doc = e.doc /\ Shown(e).type = e.type
           /\ (api.form = "one" \/ api.transport = "rest")
                /\ e.section \in Tree => Shown(e).section = e.section
  BY QueryAssumption DEF Shown, Event, Api

LEMMA EventTypes ==
    ASSUME NEW d \in Doc
    PROVE  /\ \A type \in {"started", "completed", "error"} :
                Plain(d, type) \in Event
           /\ \A s \in Section :
                [doc |-> d, type |-> "section", section |-> s] \in Event
  BY DEF Plain, Event

\* The initial states satisfy the invariant.
LEMMA InitIInv == Init => IInv
  <1> SUFFICES ASSUME Init PROVE IInv
    OBVIOUS
  <1>1. \A d, t : ~ Reports(<<>>, d, t)
    BY DEF Reports, Range
  <1>2. Range(<<>>) = {}
    BY DEF Range
  <1>3. TypeOK
    <2>1. \A S : <<>> \in Seq(S) /\ Len(<<>>) = 0
      OBVIOUS
    <2>2. 0 \in 0 .. 0 /\ 0 <= Buffer
      BY QueryAssumption
    <2>3. /\ run \in [Doc -> {"idle"}]
          /\ picks \in [Doc -> Seq(Section)] /\ answer \in [Doc -> Seq(Tree)]
      BY <2>1 DEF Init
    <2> QED  BY <2>1, <2>2, <2>3 DEF Init, TypeOK
  <1>4. BeforeTheRuns /\ ReturnsDrained
    BY DEF Init, BeforeTheRuns, ReturnsDrained
  <1>5. EndsAreUnderway /\ EndsAreLast
    BY <1>1 DEF Init, EndsAreUnderway, EndsAreLast
  <1>6. SectionsAreUnderway
    BY <1>2 DEF Init, SectionsAreUnderway
  <1> QED  BY <1>3, <1>4, <1>5, <1>6 DEF IInv

\* The handler refuses, or starts the runs.
LEMMA BeginPreserves ==
    ASSUME IInv, Refuse \/ \E docs \in SUBSET Doc : Start(docs)
    PROVE  IInv'
  <1>1. \A d, t : ~ Reports(<<>>, d, t)
    BY DEF Reports, Range
  <1>2. Range(<<>>) = {}
    BY DEF Range
  <1>3. CASE Refuse
    <2> USE <1>3 DEF Refuse, IInv, requestVars, strategyVars, answerVars
    <2>1. TypeOK'
      BY DEF TypeOK
    <2>2. BeforeTheRuns' /\ ReturnsDrained'
      BY DEF BeforeTheRuns, ReturnsDrained
    <2>3. EndsAreUnderway' /\ EndsAreLast' /\ SectionsAreUnderway'
      BY DEF EndsAreUnderway, EndsAreLast, SectionsAreUnderway, Reports,
             Names, Ahead
    <2> QED  BY <2>1, <2>2, <2>3
  <1>4. ASSUME NEW docs \in SUBSET Doc, Start(docs)
        PROVE  IInv'
    <2> USE <1>4 DEF Start, requestVars, answerVars
    <2>1. TypeOK'
      BY DEF IInv, TypeOK
    <2>2. BeforeTheRuns' /\ ReturnsDrained'
      BY DEF IInv, BeforeTheRuns, ReturnsDrained
    <2>3. chan' = <<>> /\ wire' = <<>> /\ \A d \in Doc : picks'[d] = <<>>
      BY DEF IInv, BeforeTheRuns
    <2>4. \A d \in Doc : run'[d] \in {"called", "idle"}
      OBVIOUS
    <2>5. EndsAreUnderway' /\ EndsAreLast'
      BY <1>1, <2>3, <2>4 DEF EndsAreUnderway, EndsAreLast
    <2>6. SectionsAreUnderway'
      BY <1>2, <2>3 DEF SectionsAreUnderway
    <2> QED  BY <2>1, <2>2, <2>5, <2>6 DEF IInv
  <1> QED  BY <1>3, <1>4

\* What an event that is sent changes: the channel of a stream, and nothing
\* of a query.
LEMMA EmitTells ==
    ASSUME IInv, NEW e \in Event, Emit(e)
    PROVE  /\ chan' \in Seq(Event) /\ Len(chan') <= Buffer
           /\ api.shape = "query" => chan' = chan
           /\ \A d, t : /\ Reports(chan, d, t) => Reports(chan', d, t)
                        /\ Reports(chan', d, t) =>
                             Reports(chan, d, t) \/ (e.doc = d /\ e.type = t)
                        /\ api.shape = "stream" /\ e.doc = d /\ e.type = t =>
                             Reports(chan', d, t)
           /\ \A d, s : Ahead(chan, d, s) => Ahead(chan', d, s)
           /\ \A d, s : api.shape = "stream" /\ e.doc = d
                        /\ e.type = "section" /\ e.section = s
                        /\ ~ Reports(chan, d, "completed")
                          => Ahead(chan', d, s)
  <1>1. chan \in Seq(Event) /\ Len(chan) <= Buffer /\ api.shape \in {"query", "stream"}
    BY DEF IInv, TypeOK, Api
  <1>2. CASE api.shape = "stream"
    <2>1. Len(chan) < Buffer /\ chan' = Append(chan, e)
      BY <1>2 DEF Emit
    <2>2. chan' \in Seq(Event) /\ Len(chan') <= Buffer
      BY <1>1, <2>1, QueryAssumption
    <2>3. \A d, t : Reports(chan', d, t) <=>
                      Reports(chan, d, t) \/ (e.doc = d /\ e.type = t)
      BY <1>1, <2>1, AppendTells
    <2>4. \A d, s : Ahead(chan, d, s) => Ahead(chan', d, s)
      BY <1>1, <2>1, AheadOfAppended
    <2>5. \A d, s : e.doc = d /\ e.type = "section" /\ e.section = s
                    /\ ~ Reports(chan, d, "completed") => Ahead(chan', d, s)
      BY <1>1, <2>1, AheadWhenAppended
    <2> QED  BY <1>2, <2>2, <2>3, <2>4, <2>5
  <1>3. CASE api.shape = "query"
    BY <1>1, <1>3 DEF Emit
  <1> QED  BY <1>1, <1>2, <1>3

\* A run that has not ended runs for a handler that has neither just begun
\* nor returned in order.
LEMMA WhileItRuns ==
    ASSUME IInv, NEW d \in Doc, ~ Ended(d), UNCHANGED strategyElse,
           api.shape = "query" => chan' = chan
    PROVE  BeforeTheRuns' /\ ReturnsDrained'
  <1>1. run[d] # "idle" /\ ~ AllEnded
    BY DEF Ended, AllEnded
  <1>2. BeforeTheRuns'
    BY <1>1 DEF IInv, BeforeTheRuns, strategyElse, requestVars
  <1>3. ReturnsDrained'
    BY <1>1 DEF IInv, ReturnsDrained, Drained, strategyElse, requestVars
  <1> QED  BY <1>2, <1>3

\* A run reports that it has started, completed or failed.
LEMMA ReportPreserves ==
    ASSUME IInv, NEW d \in Doc, NEW state, NEW type,
           <<state, type>> \in {<<"selecting", "started">>,
                                <<"completed", "completed">>,
                                <<"failed", "error">>},
           run[d] \in {"called", "selecting"},
           RunTo(d, state), Emit(Plain(d, type)),
           UNCHANGED <<strategyElse, picks>>
    PROVE  IInv'
  <1> DEFINE e == Plain(d, type)
  <1>1. e \in Event /\ e.doc = d /\ e.type = type
    BY EventTypes DEF Plain
  <1>2. /\ chan' \in Seq(Event) /\ Len(chan') <= Buffer
        /\ api.shape = "query" => chan' = chan
        /\ \A c, t : /\ Reports(chan, c, t) => Reports(chan', c, t)
                     /\ Reports(chan', c, t) =>
                          Reports(chan, c, t) \/ (d = c /\ type = t)
                     /\ api.shape = "stream" /\ d = c /\ type = t =>
                          Reports(chan', c, t)
        /\ \A c, s : Ahead(chan, c, s) => Ahead(chan', c, s)
    <2> HIDE DEF e
    <2>1. Emit(e)
      BY DEF e
    <2> QED  BY <1>1, <2>1, EmitTells
  <1> HIDE DEF e
  <1>3. /\ run' \in [Doc -> {"idle", "called", "selecting", "completed",
                             "failed", "stopped"}]
        /\ run'[d] = state /\ \A c \in Doc : c # d => run'[c] = run[c]
    BY DEF RunTo, IInv, TypeOK
  <1>4. UNCHANGED <<api, phase, cancelled, client, wire, visible, answerVars, picks>>
    BY DEF strategyElse, requestVars
  <1>5. TypeOK'
    BY <1>2, <1>3, <1>4 DEF IInv, TypeOK, answerVars
  <1>6. BeforeTheRuns' /\ ReturnsDrained'
    <2>1. ~ Ended(d)
      BY DEF Ended
    <2> QED  BY <1>2, <2>1, WhileItRuns
  <1>7. EndsAreUnderway'
    <2> SUFFICES ASSUME api.shape = "stream", client = "open", NEW c \in Doc
                 PROVE  /\ run'[c] = "completed" =>
                             Reports(chan', c, "completed")
                             \/ Reports(wire, c, "completed")
                        /\ run'[c] = "failed" =>
                             Reports(chan', c, "error")
                             \/ Reports(wire, c, "error")
      BY <1>4 DEF EndsAreUnderway
    <2>1. CASE c = d
      BY <1>2, <1>3, <2>1
    <2>2. CASE c # d
      BY <1>2, <1>3, <2>2 DEF IInv, EndsAreUnderway
    <2> QED  BY <2>1, <2>2
  <1>8. EndsAreLast'
    <2> SUFFICES ASSUME NEW c \in Doc,
                        run'[c] \in {"idle", "called", "selecting"}
                 PROVE  /\ ~ Reports(chan', c, "completed")
                        /\ ~ Reports(wire, c, "completed")
      BY <1>4 DEF EndsAreLast
    <2>1. ~ Reports(chan, c, "completed") /\ ~ Reports(wire, c, "completed")
      BY <1>3 DEF IInv, EndsAreLast
    <2>2. ~ (c = d /\ type = "completed")
      BY <1>3
    <2> QED  BY <1>2, <2>1, <2>2
  <1>9. SectionsAreUnderway'
    BY <1>2, <1>4 DEF IInv, SectionsAreUnderway
  <1> QED  BY <1>5, <1>6, <1>7, <1>8, <1>9 DEF IInv

\* A run selects a section.
LEMMA SelectPreserves ==
    ASSUME IInv, NEW d \in Doc, NEW x \in Section, Select(d, x)
    PROVE  IInv'
  <1> DEFINE e == [doc |-> d, type |-> "section", section |-> x]
  <1>1. e \in Event /\ e.doc = d /\ e.type = "section" /\ e.section = x
    BY EventTypes
  <1>2. /\ chan' \in Seq(Event) /\ Len(chan') <= Buffer
        /\ api.shape = "query" => chan' = chan
        /\ \A c, t : /\ Reports(chan, c, t) => Reports(chan', c, t)
                     /\ Reports(chan', c, t) =>
                          Reports(chan, c, t) \/ t = "section"
        /\ \A c, s : Ahead(chan, c, s) => Ahead(chan', c, s)
        /\ api.shape = "stream" /\ ~ Reports(chan, d, "completed") =>
             Ahead(chan', d, x)
    <2> HIDE DEF e
    <2>1. Emit(e)
      BY DEF e, Select
    <2> QED  BY <1>1, <2>1, EmitTells
  <1> HIDE DEF e
  <1>3. /\ picks' \in [Doc -> Seq(Section)]
        /\ picks'[d] = Append(picks[d], x)
        /\ \A c \in Doc : c # d => picks'[c] = picks[c]
    BY DEF Select, IInv, TypeOK
  <1>4. UNCHANGED <<api, phase, cancelled, client, wire, visible, answerVars, run>>
    BY DEF Select, strategyElse, requestVars
  <1>5. run[d] = "selecting"
    BY DEF Select
  <1>6. TypeOK'
    BY <1>2, <1>3, <1>4 DEF IInv, TypeOK, answerVars
  <1>7. BeforeTheRuns' /\ ReturnsDrained'
    <2>1. ~ Ended(d) /\ UNCHANGED strategyElse
      BY <1>5 DEF Ended, Select
    <2> QED  BY <1>2, <2>1, WhileItRuns
  <1>8. EndsAreUnderway'
    BY <1>2, <1>4 DEF IInv, EndsAreUnderway
  <1>9. EndsAreLast'
    BY <1>2, <1>4 DEF IInv, EndsAreLast
  <1>10. SectionsAreUnderway'
    <2> SUFFICES ASSUME api.shape = "stream",
                        api.form = "one" \/ api.transport = "rest",
                        NEW c \in Doc, NEW s \in Range(picks'[c]) \cap Tree
                 PROVE  \/ Names(wire, c, s)
                        \/ /\ ~ Reports(wire, c, "completed")
                           /\ client = "gone" \/ Ahead(chan', c, s)
      BY <1>4 DEF SectionsAreUnderway
    <2>1. CASE s \in Range(picks[c])
      BY <1>2, <2>1 DEF IInv, SectionsAreUnderway
    <2>2. CASE s \notin Range(picks[c])
      <3>1. picks[d] \in Seq(Section)
        BY DEF IInv, TypeOK
      <3>2. Range(picks'[d]) = Range(picks[d]) \cup {x}
        BY <1>3, <3>1, RangeOfAppend
      <3>3. c = d /\ s = x
        BY <1>3, <2>2, <3>2
      <3> QED  BY <1>2, <1>5, <3>3 DEF IInv, EndsAreLast
    <2> QED  BY <2>1, <2>2
  <1> QED  BY <1>6, <1>7, <1>8, <1>9, <1>10 DEF IInv

\* A run stops at its context.
LEMMA StopPreserves ==
    ASSUME IInv, NEW d \in Doc, Stop(d)
    PROVE  IInv'
  <1>1. /\ run' \in [Doc -> {"idle", "called", "selecting", "completed",
                             "failed", "stopped"}]
        /\ run'[d] = "stopped" /\ \A c \in Doc : c # d => run'[c] = run[c]
    BY DEF Stop, RunTo, IInv, TypeOK
  <1>2. UNCHANGED <<api, phase, cancelled, client, wire, visible, answerVars,
                    picks, chan>>
    BY DEF Stop, strategyElse, requestVars
  <1>3. TypeOK'
    BY <1>1, <1>2 DEF IInv, TypeOK, answerVars
  <1>4. BeforeTheRuns' /\ ReturnsDrained'
    BY <1>2, WhileItRuns DEF Stop
  <1>5. EndsAreUnderway' /\ EndsAreLast'
    BY <1>1, <1>2 DEF IInv, EndsAreUnderway, EndsAreLast
  <1>6. SectionsAreUnderway'
    BY <1>2 DEF IInv, SectionsAreUnderway
  <1> QED  BY <1>3, <1>4, <1>5, <1>6 DEF IInv

\* Whatever a strategy does.
LEMMA StrategyPreserves ==
    ASSUME IInv, NEW d \in Doc, Strategy(d)
    PROVE  IInv'
  <1>1. CASE Started(d)
    BY <1>1, ReportPreserves DEF Started
  <1>2. CASE Complete(d)
    BY <1>2, ReportPreserves DEF Complete
  <1>3. CASE Fail(d)
    BY <1>3, ReportPreserves DEF Fail
  <1>4. CASE Stop(d)
    BY <1>4, StopPreserves
  <1>5. CASE \E s \in Section : Select(d, s)
    BY <1>5, SelectPreserves
  <1> QED  BY <1>1, <1>2, <1>3, <1>4, <1>5 DEF Strategy

\* The handler takes an event and writes it, or drops it when the client has
\* left.
LEMMA WritePreserves ==
    ASSUME IInv, Write
    PROVE  IInv'
  <1> DEFINE h == Head(chan)
  <1>1. /\ chan \in Seq(Event) /\ chan # <<>> /\ wire \in Seq(Event)
        /\ api \in Api /\ client \in {"open", "gone"} /\ visible \in 0 .. Len(wire)
    BY DEF IInv, TypeOK, Write
  <1>2. h \in Event /\ chan' = Tail(chan) /\ chan' \in Seq(Event)
    BY <1>1, RangeOfTail DEF Write
  <1>3. \A d, t : Reports(chan, d, t) <=>
                    Reports(chan', d, t) \/ (h.doc = d /\ h.type = t)
    BY <1>1, <1>2, TailTells
  <1>4. \A d, s : Ahead(chan, d, s) =>
                    /\ ~ (h.doc = d /\ h.type = "completed")
                    /\ \/ h.doc = d /\ h.type = "section" /\ h.section = s
                       \/ Ahead(chan', d, s)
    BY <1>1, <1>2, AheadOfTail
  <1>5. /\ UNCHANGED <<api, phase, cancelled, client, run, picks, answerVars>>
        /\ phase = "running"
    BY DEF Write, requestVars, strategyVars
  <1>6. Len(chan') <= Buffer
    <2>1. Len(Tail(chan)) <= Len(chan) /\ Len(chan) <= Buffer
      BY <1>1 DEF IInv, TypeOK
    <2>2. Len(Tail(chan)) \in Nat /\ Len(chan) \in Nat
      BY <1>1
    <2> QED  BY <1>2, <2>1, <2>2, QueryAssumption
  <1>7. api.shape = "stream"
    BY <1>1 DEF IInv, BeforeTheRuns, Api
  <1>8. BeforeTheRuns' /\ ReturnsDrained'
    BY <1>5, <1>7 DEF BeforeTheRuns, ReturnsDrained
  <1>9. CASE client = "open"
    <2> DEFINE w == Shown(h)
    <2>1. wire' = Append(wire, w)
      BY <1>9 DEF Write
    <2>2. /\ w \in Event /\ w.doc = h.doc /\ w.type = h.type
          /\ (api.form = "one" \/ api.transport = "rest") /\ h.section \in Tree
               => w.section = h.section
      BY <1>1, <1>2, ShownProperties
    <2> HIDE DEF w, h
    <2>3. /\ \A d, t : Reports(wire', d, t) <=>
                         Reports(wire, d, t) \/ (h.doc = d /\ h.type = t)
          /\ \A d, s : Names(wire', d, s) <=>
                         Names(wire, d, s)
                         \/ (h.doc = d /\ h.type = "section" /\ w.section = s)
      <3>1. \A d, t : Reports(wire', d, t) <=>
                         Reports(wire, d, t) \/ (w.doc = d /\ w.type = t)
        BY <1>1, <2>1, AppendTells
      <3>2. \A d, s : Names(wire', d, s) <=>
                         Names(wire, d, s)
                         \/ (w.doc = d /\ w.type = "section" /\ w.section = s)
        BY <1>1, <2>1, AppendTells
      <3> QED  BY <2>2, <3>1, <3>2
    <2>4. TypeOK'
      <3>1. wire' \in Seq(Event) /\ Len(wire') = Len(wire) + 1
        BY <1>1, <2>1, <2>2
      <3>2. visible' \in {visible, Len(wire')}
        BY <1>9 DEF Write
      <3>3. visible' \in 0 .. Len(wire')
        BY <1>1, <3>1, <3>2
      <3> QED  BY <1>2, <1>5, <1>6, <3>1, <3>3 DEF IInv, TypeOK, answerVars
    <2>5. EndsAreUnderway'
      BY <1>3, <1>5, <2>3 DEF IInv, EndsAreUnderway
    <2>6. EndsAreLast'
      BY <1>3, <1>5, <2>3 DEF IInv, EndsAreLast
    <2>7. SectionsAreUnderway'
      <3> SUFFICES ASSUME api.form = "one" \/ api.transport = "rest",
                          NEW d \in Doc, NEW s \in Range(picks[d]) \cap Tree
                   PROVE  \/ Names(wire', d, s)
                          \/ /\ ~ Reports(wire', d, "completed")
                             /\ client = "gone" \/ Ahead(chan', d, s)
        BY <1>5 DEF SectionsAreUnderway
      <3>1. CASE Names(wire, d, s)
        BY <2>3, <3>1
      <3>2. CASE ~ Names(wire, d, s)
        <4>1. ~ Reports(wire, d, "completed") /\ Ahead(chan, d, s)
          BY <1>7, <1>9, <3>2 DEF IInv, SectionsAreUnderway
        <4>2. ~ Reports(wire', d, "completed")
          BY <1>4, <2>3, <4>1
        <4>3. CASE h.doc = d /\ h.type = "section" /\ h.section = s
          BY <2>2, <2>3, <4>3
        <4>4. CASE Ahead(chan', d, s)
          BY <4>2, <4>4
        <4> QED  BY <1>4, <4>1, <4>3, <4>4
      <3> QED  BY <3>1, <3>2
    <2> QED  BY <1>8, <2>4, <2>5, <2>6, <2>7 DEF IInv
  <1>10. CASE client = "gone"
    <2>1. UNCHANGED <<wire, visible>>
      BY <1>10 DEF Write
    <2>2. TypeOK'
      BY <1>2, <1>5, <1>6, <2>1 DEF IInv, TypeOK, answerVars
    <2>3. EndsAreUnderway'
      BY <1>5, <1>10 DEF EndsAreUnderway
    <2>4. EndsAreLast'
      BY <1>3, <1>5, <2>1 DEF IInv, EndsAreLast
    <2>5. SectionsAreUnderway'
      BY <1>5, <1>10, <2>1 DEF IInv, SectionsAreUnderway
    <2> QED  BY <1>8, <2>2, <2>3, <2>4, <2>5 DEF IInv
  <1> QED  BY <1>1, <1>9, <1>10

\* The handler returns: its Send has failed, its channel is closed, or all
\* the runs it waits for have ended.
LEMMA ReturnPreserves ==
    ASSUME IInv, SendFails \/ EndStream \/ AnswerQuery
    PROVE  IInv'
  <1>1. /\ UNCHANGED <<api, client, run, picks, wire>>
        /\ phase' = "returned" /\ cancelled' = TRUE
    BY DEF SendFails, EndStream, AnswerQuery, Return, requestVars, strategyVars
  <1>2. CASE SendFails
    <2>1. chan \in Seq(Event) /\ chan # <<>> /\ api \in Api /\ client = "gone"
      BY <1>2 DEF IInv, TypeOK, SendFails
    <2>2. chan' \in Seq(Event) /\ chan' = Tail(chan) /\ Len(chan') <= Len(chan)
      BY <1>2, <2>1 DEF SendFails
    <2>3. \A d, t : Reports(chan', d, t) => Reports(chan, d, t)
      BY <2>1, <2>2, TailTells
    <2>4. TypeOK'
      <3>1. Len(chan') \in Nat /\ Len(chan) \in Nat /\ Len(chan) <= Buffer
        BY <2>1, <2>2 DEF IInv, TypeOK
      <3>2. Len(chan') <= Buffer
        BY <2>2, <3>1, QueryAssumption
      <3> QED  BY <1>1, <1>2, <2>2, <3>2 DEF IInv, TypeOK, SendFails,
                                                answerVars
    <2>5. BeforeTheRuns' /\ ReturnsDrained'
      <3>1. api.shape = "stream"
        BY <2>1 DEF IInv, BeforeTheRuns, Api
      <3> QED  BY <1>1, <2>1, <3>1 DEF BeforeTheRuns, ReturnsDrained
    <2>6. EndsAreUnderway' /\ EndsAreLast'
      BY <1>1, <2>1, <2>3 DEF IInv, EndsAreUnderway, EndsAreLast
    <2>7. SectionsAreUnderway'
      BY <1>1, <2>1 DEF IInv, SectionsAreUnderway
    <2> QED  BY <2>4, <2>5, <2>6, <2>7 DEF IInv
  <1>3. CASE EndStream \/ AnswerQuery
    <2>1. chan' = chan
      BY <1>3 DEF EndStream, AnswerQuery
    <2>2. TypeOK'
      <3>1. CASE EndStream
        <4>1. visible' \in 0 .. Len(wire)
          BY <3>1 DEF IInv, TypeOK, EndStream
        <4> QED  BY <1>1, <2>1, <3>1, <4>1 DEF IInv, TypeOK, EndStream,
                                                 answerVars
      <3>2. CASE AnswerQuery
        <4>1. \A d \in Doc : picks[d] \in Seq(Section)
          BY DEF IInv, TypeOK
        <4>2. /\ code' \in {"none", "ok", "failed"}
              /\ answer' \in [Doc -> Seq(Tree)] /\ errors' \subseteq Doc
          <5>1. CASE code' = "failed" /\ UNCHANGED <<answer, errors>>
            BY <5>1 DEF IInv, TypeOK
          <5>2. CASE /\ code' = "ok" /\ errors' = Unanswered
                     /\ answer' = [d \in Doc |->
                                     IF run[d] = "completed"
                                     THEN Returned(api.form, picks[d])
                                     ELSE <<>>]
            <6>1. \A d \in Doc : Returned(api.form, picks[d]) \in Seq(Tree)
              BY <4>1, ReturnedProperties
            <6>2. << >> \in Seq(Tree)
              OBVIOUS
            <6>3. answer' \in [Doc -> Seq(Tree)]
              BY <5>2, <6>1, <6>2
            <6>4. errors' \subseteq Doc
              BY <5>2 DEF Unanswered
            <6> QED  BY <5>2, <6>3, <6>4
          <5> QED  BY <3>2, <5>1, <5>2 DEF AnswerQuery
        <4> QED  BY <1>1, <2>1, <3>2, <4>2 DEF IInv, TypeOK, AnswerQuery
      <3> QED  BY <1>3, <3>1, <3>2
    <2>3. BeforeTheRuns'
      BY <1>1, <2>1 DEF IInv, BeforeTheRuns
    <2>4. ReturnsDrained'
      BY <1>1, <1>3, <2>1 DEF ReturnsDrained, EndStream, AnswerQuery, Drained,
                              AllEnded, Ended
    <2>5. EndsAreUnderway' /\ EndsAreLast' /\ SectionsAreUnderway'
      BY <1>1, <2>1 DEF IInv, EndsAreUnderway, EndsAreLast, SectionsAreUnderway
    <2> QED  BY <2>2, <2>3, <2>4, <2>5 DEF IInv
  <1> QED  BY <1>2, <1>3

\* The client leaves, or the deadline passes.
LEMMA CancelPreserves ==
    ASSUME IInv, Disconnect \/ Deadline
    PROVE  IInv'
  <1>1. /\ UNCHANGED <<api, phase, run, picks, chan, wire, visible, answerVars>>
        /\ phase = "running" /\ cancelled' = TRUE /\ client' \in {client, "gone"}
    BY DEF Disconnect, Deadline, requestVars, strategyVars
  <1>2. TypeOK'
    BY <1>1 DEF IInv, TypeOK, answerVars
  <1>3. BeforeTheRuns' /\ ReturnsDrained'
    BY <1>1 DEF IInv, BeforeTheRuns, ReturnsDrained
  <1>4. EndsAreUnderway' /\ EndsAreLast' /\ SectionsAreUnderway'
    BY <1>1 DEF IInv, EndsAreUnderway, EndsAreLast, SectionsAreUnderway
  <1> QED  BY <1>2, <1>3, <1>4 DEF IInv

\* Every step preserves the invariant.
LEMMA StepIInv == IInv /\ [Next]_vars => IInv'
  <1> SUFFICES ASSUME IInv, [Next]_vars
               PROVE  IInv'
    OBVIOUS
  <1>1. CASE Refuse \/ \E docs \in SUBSET Doc : Start(docs)
    BY <1>1, BeginPreserves
  <1>2. CASE \E d \in Doc : Strategy(d)
    BY <1>2, StrategyPreserves
  <1>3. CASE Write
    BY <1>3, WritePreserves
  <1>4. CASE SendFails \/ EndStream \/ AnswerQuery
    BY <1>4, ReturnPreserves
  <1>5. CASE Disconnect \/ Deadline
    BY <1>5, CancelPreserves
  <1>6. CASE UNCHANGED vars
    <2>1. TypeOK' /\ BeforeTheRuns' /\ ReturnsDrained'
      BY <1>6 DEF vars, IInv, TypeOK, BeforeTheRuns, ReturnsDrained, Drained,
                  AllEnded, Ended
    <2>2. EndsAreUnderway' /\ EndsAreLast' /\ SectionsAreUnderway'
      BY <1>6 DEF vars, IInv, EndsAreUnderway, EndsAreLast,
                  SectionsAreUnderway
    <2> QED  BY <2>1, <2>2 DEF IInv
  <1> QED  BY <1>1, <1>2, <1>3, <1>4, <1>5, <1>6 DEF Next, Handler

\* The inductive invariant holds in every reachable state.
THEOREM Invariance == Spec => []IInv
  BY InitIInv, StepIInv, PTL DEF Spec

----------------------------------------------------------------------------

\* What a query is told of every document, once it is told: nothing of the
\* runs changes after that.
AnswersTold ==
    /\ code # "none" => phase = "returned" /\ AllEnded
    /\ code = "ok"
       => \A d \in Doc : /\ Asked(d) => run[d] = "completed" \/ d \in errors
                         /\ d \in errors => run[d] # "completed" /\ answer[d] = <<>>

\* The runs go on only while the handler has not answered.
LEMMA StepAnswersTold == AnswersTold /\ [Next]_vars => AnswersTold'
  <1> SUFFICES ASSUME AnswersTold, [Next]_vars
               PROVE  AnswersTold'
    OBVIOUS
  <1>1. CASE phase \in {"new", "running"} /\ UNCHANGED answerVars
    BY <1>1 DEF AnswersTold, answerVars
  <1>2. CASE Refuse \/ (\E docs \in SUBSET Doc : Start(docs)) \/ Write
               \/ SendFails \/ EndStream \/ Disconnect \/ Deadline
    BY <1>1, <1>2 DEF Refuse, Start, Write, SendFails, EndStream, Disconnect,
                      Deadline
  <1>3. ASSUME NEW d \in Doc, Strategy(d)
        PROVE  AnswersTold'
    <2>1. ~ Ended(d)
      BY <1>3 DEF Strategy, Started, Select, Complete, Fail, Stop, Ended
    <2>2. code = "none"
      BY <2>1 DEF AnswersTold, AllEnded
    <2>3. UNCHANGED answerVars
      BY <1>3 DEF Strategy, Started, Select, Complete, Fail, Stop, strategyElse
    <2> QED  BY <2>2, <2>3 DEF AnswersTold, answerVars
  <1>4. CASE AnswerQuery
    <2>1. phase' = "returned" /\ AllEnded /\ UNCHANGED run
      BY <1>4 DEF AnswerQuery, Return, strategyVars
    <2>2. AllEnded'
      BY <2>1 DEF AllEnded, Ended
    <2>3. CASE code' = "failed"
      BY <2>1, <2>2, <2>3 DEF AnswersTold
    <2>4. CASE code' = "ok"
      <3>1. /\ errors' = {d \in Doc : run[d] # "idle" /\ run[d] # "completed"}
            /\ answer' = [d \in Doc |-> IF run[d] = "completed"
                           THEN Returned(api.form, picks[d]) ELSE <<>>]
        BY <1>4, <2>4 DEF AnswerQuery, Unanswered, Asked
      <3>2. \A d \in Doc : run[d] # "completed" => answer'[d] = <<>>
        BY <3>1
      <3> QED  BY <2>1, <2>2, <3>1, <3>2 DEF AnswersTold, Asked
    <2> QED  BY <1>4, <2>3, <2>4 DEF AnswerQuery
  <1>5. CASE UNCHANGED vars
    BY <1>5 DEF vars, AnswersTold, AllEnded, Ended, Asked
  <1> QED  BY <1>2, <1>3, <1>4, <1>5 DEF Next, Handler

LEMMA AnswersInvariance == Spec => []AnswersTold
  <1>1. Init => AnswersTold
    BY DEF Init, AnswersTold
  <1> QED  BY <1>1, StepAnswersTold, PTL DEF Spec

\* Every variable of the request keeps to its type; in particular a query
\* answers with sections of the tree only, whatever IDs the strategy made up.
THEOREM TypeCorrect == Spec => []TypeOK
  <1>1. IInv => TypeOK
    BY DEF IInv
  <1> QED  BY <1>1, Invariance, PTL

\* A stream that the client has not left tells it the end of every run that
\* has ended by itself before it returns (the range loops of the streams); a
\* 200 to a query tells of every document either its sections or its error,
\* and never both (the error maps of HandleQueryMulti and QueryMulti, and the
\* early returns of HandleQuery and Query).
THEOREM EndsAreTold == Spec => []EveryEndIsTold
  <1>1. IInv /\ AnswersTold => EveryEndIsTold
    <2> SUFFICES ASSUME IInv, AnswersTold, phase = "returned",
                        api.shape = "stream", client = "open", NEW d \in Doc,
                        run[d] \in {"completed", "failed"}
                 PROVE  Wired(d, "completed") # {} \/ Wired(d, "error") # {}
      BY DEF EveryEndIsTold, AnswersTold
    <2>1. chan = <<>>
      BY DEF IInv, ReturnsDrained, Drained
    <2>2. \A t : ~ Reports(chan, d, t)
      BY <2>1 DEF Reports, Range
    <2>3. Reports(wire, d, "completed") \/ Reports(wire, d, "error")
      BY <2>2 DEF IInv, EndsAreUnderway
    <2> QED  BY <2>3 DEF Reports, Wired
  <1> QED  BY <1>1, Invariance, AnswersInvariance, PTL

\* Seven of the eight handlers name the sections they report: once the end of
\* a document's run is written, every section of the tree that was selected
\* is named in an event.  The eighth is Connect's many-document stream
\* (QueryMultiStream).
THEOREM OthersNameTheirSections ==
    Spec => [](api.form = "one" \/ api.transport = "rest" =>
                   SelectedSectionIsNamed)
  <1>1. IInv => (api.form = "one" \/ api.transport = "rest" =>
                     SelectedSectionIsNamed)
    <2> SUFFICES ASSUME IInv, api.form = "one" \/ api.transport = "rest",
                        NEW d \in Doc, Wired(d, "completed") # {},
                        NEW s \in Range(picks[d]) \cap Tree
                 PROVE  s \in {e.section : e \in Wired(d, "section")}
      BY DEF SelectedSectionIsNamed
    <2>1. Reports(wire, d, "completed")
      BY DEF Reports, Wired
    <2>2. api.shape = "stream"
      <3>1. api.shape \in {"query", "stream"}
        BY DEF IInv, TypeOK, Api
      <3>2. wire # <<>>
        BY <2>1 DEF Reports, Range
      <3> QED  BY <3>1, <3>2 DEF IInv, BeforeTheRuns
    <2>3. Names(wire, d, s)
      BY <2>1, <2>2 DEF IInv, SectionsAreUnderway
    <2> QED  BY <2>3 DEF Names, Wired
  <1> QED  BY <1>1, Invariance, PTL

\* A stream that has told the end of a document's run has told every section
\* that a query with the same choice of the strategy would have returned
\* (Connect's many-document stream, which names no section, is left out).
THEOREM StreamsCoverQueries == Spec => []StreamCoversQuery
  <1>1. IInv => \A d \in Doc :
            Range(Returned(api.form, picks[d])) \subseteq Range(picks[d]) \cap Tree
    <2> SUFFICES ASSUME IInv, NEW d \in Doc
                 PROVE  Range(Returned(api.form, picks[d]))
                            \subseteq Range(picks[d]) \cap Tree
      OBVIOUS
    <2>1. picks[d] \in Seq(Section)
      BY DEF IInv, TypeOK
    <2> QED  BY <2>1, ReturnedProperties
  <1>2. IInv /\ (api.form = "one" \/ api.transport = "rest" =>
                     SelectedSectionIsNamed)
          => StreamCoversQuery
    BY <1>1 DEF SelectedSectionIsNamed, StreamCoversQuery
  <1> QED  BY <1>2, Invariance, OthersNameTheirSections, PTL

=============================================================================
