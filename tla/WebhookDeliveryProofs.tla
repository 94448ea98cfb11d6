----------------------- MODULE WebhookDeliveryProofs ------------------------
(***************************************************************************)
(* Theorems about the middleware stack, about the process around it, and   *)
(* about the queue webhook in that process, for any set of requests and    *)
(* principals, and any files and environments.                             *)
(***************************************************************************)
EXTENDS WebhookDelivery, SequenceTheorems, TLAPS

\* Where the connection's goroutine may be, given what the handler does: the
\* handler starts at Dispatch and is over before the stack unwinds.
Lockstep ==
    \A r \in Request :
        /\ conn[r] \in {"new", "gates"} => handler[r] = "none"
        /\ conn[r] \in {"unwind", "finished"} => handler[r] # "running"

\* Nobody's goroutine is gone while the process is up.
GoneIsDead == \A r \in Request : up => conn[r] # "gone"

\* The inductive invariant.
IInv == TypeOK /\ Lockstep /\ GoneIsDead

----------------------------------------------------------------------------

\* The initial states satisfy the invariant.
LEMMA InitIInv == Init => IInv
  BY DEF Init, IInv, TypeOK, Lockstep, GoneIsDead, Path, Conn, Doing, Code

\* The steps of the layers outside of the handler.
LEMMA StackPreserves ==
    ASSUME NEW r \in Request, IInv,
           \/ \E p \in Principal \cup {Nobody} : Arrive(r, p)
           \/ Gate(r) \/ Expire(r) \/ Unwind(r)
    PROVE  IInv'
  <1> USE DEF IInv, TypeOK, Lockstep, GoneIsDead, Path, Conn, Doing, Code, Goto
  <1>1. ASSUME NEW p \in Principal \cup {Nobody}, Arrive(r, p)
        PROVE  IInv'
    BY <1>1 DEF Arrive
  <1>2. CASE Reject(r)
    BY <1>2 DEF Reject, Send
  <1>3. CASE Dispatch(r)
    BY <1>3 DEF Dispatch
  <1>4. CASE Expire(r)
    BY <1>4 DEF Expire
  <1>5. CASE Join(r)
    BY <1>5 DEF Join, HandlerDone
  <1>6. CASE Log(r)
    <2>1. SeenBy("AccessLog", r) \in Principal \cup {Nobody}
      BY DEF SeenBy
    <2> QED  BY <1>6, <2>1 DEF Log
  <1> QED  BY <1>1, <1>2, <1>3, <1>4, <1>5, <1>6 DEF Gate, Unwind

\* The steps of the handler, panics included.
LEMMA HandlerPreserves ==
    ASSUME NEW r \in Request, IInv,
           \/ \E code \in {"ok", "error"} : HandlerWrites(r, code)
           \/ HandlerReturns(r) \/ HandlerPanics(r)
    PROVE  IInv'
  <1> USE DEF IInv, TypeOK, Lockstep, GoneIsDead, Path, Conn, Doing, Code, Goto,
              Send
  <1>1. ASSUME NEW code \in {"ok", "error"}, HandlerWrites(r, code)
        PROVE  IInv'
    BY <1>1 DEF HandlerWrites
  <1>2. CASE HandlerReturns(r)
    BY <1>2 DEF HandlerReturns
  <1>3. CASE HandlerPanics(r) /\ HasDeadline(path[r])
    BY <1>3 DEF HandlerPanics
  <1>4. CASE HandlerPanics(r) /\ ~ HasDeadline(path[r])
    BY <1>4 DEF HandlerPanics
  <1> QED  BY <1>1, <1>2, <1>3, <1>4

\* Every step preserves the invariant.
LEMMA StepIInv == IInv /\ [Next]_vars => IInv'
  <1> SUFFICES ASSUME IInv, [Next]_vars
               PROVE  IInv'
    OBVIOUS
  <1>1. CASE UNCHANGED vars
    BY <1>1 DEF vars, IInv, TypeOK, Lockstep, GoneIsDead
  <1>2. CASE Next
    BY <1>2, StackPreserves, HandlerPreserves DEF Next
  <1> QED  BY <1>1, <1>2

\* The invariant holds throughout.
THEOREM Invariance == Spec => []IInv
  BY InitIInv, StepIInv, PTL DEF Spec

\* Every variable of the stack keeps to its type.
THEOREM TypeCorrect == Spec => []TypeOK
  <1>1. IInv => TypeOK
    BY DEF IInv
  <1> QED  BY <1>1, Invariance, PTL

\* EndpointTimeout never gives the ResponseWriter back under a handler that
\* is running, for any number of requests, deadlines and panics.
THEOREM WritersAreAlive == Spec => []WriterIsAlive
  <1>1. IInv => WriterIsAlive
    BY DEF IInv, TypeOK, Lockstep, GoneIsDead, WriterIsAlive, Conn, Doing
  <1> QED  BY <1>1, Invariance, PTL

----------------------------------------------------------------------------

\* The stages of run(): before the configuration, while it builds, and after.
BuildStage == {"tracing", "db", "migrate", "storage", "queue", "llm", "start"}
Early == {"load"} \cup BuildStage
Late  == {"select", "shutdown", "drain", "close", "exited"}

\* The order in which the subsystems are built.
Rank(x) == CASE x = "tracing" -> 1 [] x = "pool" -> 2 [] x = "queue" -> 3

\* What is deferred was built in order, the queue on the pool.
Ordered ==
    /\ deferred \in Seq(Subsystem)
    /\ \A i, j \in 1 .. Len(deferred) :
         i < j => Rank(deferred[i]) < Rank(deferred[j])
    /\ \A i \in 1 .. Len(deferred) :
         deferred[i] = "queue" => i - 1 \in 1 .. Len(deferred) /\ deferred[i - 1] = "pool"

\* What was deferred last, at each of run()'s stages.
Top == IF Len(deferred) = 0 THEN "nothing" ELSE deferred[Len(deferred)]

Piled ==
    /\ Ordered
    /\ main \in {"load", "tracing"} => Top = "nothing"
    /\ main = "db" => Top \in {"nothing", "tracing"}
    /\ main \in {"migrate", "storage", "queue"} => Top = "pool"
    /\ main \in {"llm", "start", "select", "shutdown", "drain"} => Top = "queue"

\* The ranges of the variables of the process.
ProcessTypes ==
    /\ main \in Early \cup Late /\ role \in {"server", "worker"}
    /\ DOMAIN cfg \in {Setting, Live}
    /\ ctx \in {"live", "done"} /\ catching \in BOOLEAN
    /\ workers \in {"off", "running", "reporting", "ended"}
    /\ httpd \in {"off", "starting", "listening", "reporting", "ended"}
    /\ errs \in 0 .. Capacity
    /\ timedOut \in BOOLEAN
    /\ status \in {"none", "ok", "fatal", "killed"}

\* A goroutine sends one error, and ends with it.
Spent(goroutine) == IF goroutine = "ended" THEN 1 ELSE 0

Errors ==
    /\ errs <= Spent(workers) + Spent(httpd)
    /\ main \in Early => workers = "off" /\ httpd = "off"

\* Only a server listens, and only while it may: nobody is served outside of
\* that, once the drain is over.
Busy(r) == conn[r] \notin {"new", "finished", "gone"}

Serving ==
    /\ httpd \in {"starting", "listening"} => role = "server"
    /\ httpd = "listening" /\ up => main \in {"select", "shutdown"}
    /\ \A r \in Request : Busy(r) /\ up /\ ~timedOut =>
         main \in {"select", "shutdown", "drain"} /\ role = "server"

\* The configuration a server listens with.
Checked ==
    /\ main \in BuildStage => Valid(cfg) /\ DOMAIN cfg = Setting
    /\ main \in {"select", "shutdown"} \/ httpd = "listening" =>
         /\ cfg["auth_mode"] = "api_key" => cfg["api_key"] # ""
         /\ cfg["cert_file"] # "" <=> cfg["key_file"] # ""

\* The inductive invariant of the process.
SInv == /\ IInv /\ ProcessTypes /\ Piled /\ Errors /\ Serving /\ Checked
        /\ StopLosesNothing

----------------------------------------------------------------------------

\* The names of the stages.
LEMMA Stages ==
    /\ {Building[i] : i \in DOMAIN Building} = BuildStage
    /\ Main = Early \cup Late
  <1>1. DOMAIN Building = {1, 2, 3, 4, 5, 6, 7}
    <2>1. DOMAIN Building = 1 .. 7
      BY DEF Building
    <2>2. 1 .. 7 = {1, 2, 3, 4, 5, 6, 7}
      OBVIOUS
    <2> QED  BY <2>1, <2>2
  <1>2. /\ Building[1] = "tracing" /\ Building[2] = "db" /\ Building[3] = "migrate"
        /\ Building[4] = "storage" /\ Building[5] = "queue" /\ Building[6] = "llm"
        /\ Building[7] = "start"
    BY DEF Building
  <1>3. {Building[i] : i \in DOMAIN Building} = BuildStage
    BY <1>1, <1>2 DEF BuildStage
  <1> QED  BY <1>3 DEF Main, Early, Late

\* One stage follows another, and defers what it has to.
LEMMA BuildingOn ==
    ASSUME Build
    PROVE  /\ <<main, main'>> \in
                {<<"tracing", "db">>, <<"db", "migrate">>, <<"migrate", "storage">>,
                 <<"storage", "queue">>, <<"queue", "llm">>, <<"llm", "start">>}
           /\ deferred' = deferred \o Defers(main)
           /\ up /\ UNCHANGED <<vars, role, cfg, ctx, catching, workers, httpd,
                                errs, timedOut, status>>
  <1>1. Len(Building) = 7
    BY DEF Building
  <1>2. 1 .. 7 - 1 = {1, 2, 3, 4, 5, 6}
    OBVIOUS
  <1>3. /\ Building[1] = "tracing" /\ Building[2] = "db" /\ Building[3] = "migrate"
        /\ Building[4] = "storage" /\ Building[5] = "queue" /\ Building[6] = "llm"
        /\ Building[7] = "start"
    BY DEF Building
  <1>4. PICK i \in {1, 2, 3, 4, 5, 6} :
           /\ up /\ main = Building[i] /\ main' = Building[i + 1]
           /\ deferred' = deferred \o Defers(main)
           /\ UNCHANGED <<vars, role, cfg, ctx, catching, workers, httpd, errs,
                          timedOut, status>>
    BY <1>1, <1>2 DEF Build, Proceed
  <1> QED  BY <1>3, <1>4

\* Something may be deferred on top of what was built before it.
LEMMA Pushing ==
    ASSUME Ordered, NEW x \in Subsystem,
           Top # "nothing" => Rank(Top) < Rank(x),
           x = "queue" => Top = "pool",
           deferred' = deferred \o <<x>>
    PROVE  Ordered' /\ Top' = x
  <1> DEFINE n == Len(deferred)
  <1>0. n \in Nat /\ deferred \in Seq(Subsystem) /\ <<x>> \in Seq(Subsystem)
        /\ Len(<<x>>) = 1 /\ <<x>>[1] = x
    BY DEF Ordered
  <1>1. /\ deferred' \in Seq(Subsystem) /\ Len(deferred') = n + 1
        /\ \A i \in 1 .. n : deferred'[i] = deferred[i]
        /\ deferred'[n + 1] = x
    BY <1>0, ConcatProperties
  <1>2. \A y \in Subsystem : Rank(y) \in Nat
    BY DEF Rank, Subsystem
  <1>3. ASSUME NEW i \in 1 .. n
        PROVE  Rank(deferred[i]) < Rank(x)
    <2>1. Top = deferred[n] /\ deferred[n] \in Subsystem /\ deferred[i] \in Subsystem
      BY <1>0 DEF Top
    <2>2. Top # "nothing"
      BY <2>1 DEF Subsystem
    <2>3. Rank(deferred[i]) <= Rank(deferred[n])
      <3>1. CASE i = n
        BY <1>2, <2>1, <3>1
      <3>2. CASE i # n
        BY <1>0, <1>2, <2>1, <3>2 DEF Ordered
      <3> QED  BY <3>1, <3>2
    <2> QED  BY <1>2, <2>1, <2>2, <2>3
  <1>4. ASSUME NEW i \in 1 .. n + 1, NEW j \in 1 .. n + 1, i < j
        PROVE  Rank(deferred'[i]) < Rank(deferred'[j])
    <2>1. CASE j = n + 1
      BY <1>0, <1>1, <1>3, <1>4, <2>1
    <2>2. CASE j # n + 1
      BY <1>0, <1>1, <1>4, <2>2 DEF Ordered
    <2> QED  BY <2>1, <2>2
  <1>5. ASSUME NEW i \in 1 .. n + 1, deferred'[i] = "queue"
        PROVE  i - 1 \in 1 .. n + 1 /\ deferred'[i - 1] = "pool"
    <2>1. CASE i = n + 1
      <3>1. n # 0 /\ deferred[n] = "pool"
        BY <1>1, <1>5, <2>1 DEF Top
      <3> QED  BY <1>0, <1>1, <2>1, <3>1
    <2>2. CASE i # n + 1
      BY <1>0, <1>1, <1>5, <2>2 DEF Ordered
    <2> QED  BY <2>1, <2>2
  <1>6. Ordered'
    BY <1>1, <1>4, <1>5 DEF Ordered
  <1>7. Top' = x
    BY <1>0, <1>1 DEF Top
  <1> QED  BY <1>6, <1>7

\* The last deferred call leaves what was built in order, in order.
LEMMA Popping ==
    ASSUME Ordered, deferred # <<>>, deferred' = Rest
    PROVE  Ordered'
  <1> DEFINE n == Len(deferred)
  <1>0. n \in Nat /\ n # 0 /\ deferred \in Seq(Subsystem)
    BY DEF Ordered
  <1>1. /\ deferred' \in Seq(Subsystem) /\ Len(deferred') = n - 1
        /\ \A i \in 1 .. n - 1 : deferred'[i] = deferred[i]
    <2>1. \A i \in 1 .. n - 1 : deferred[i] \in Subsystem
      BY <1>0
    <2>2. deferred' = SubSeq(deferred, 1, n - 1)
      BY DEF Rest
    <2>3. 1 \in Int /\ n - 1 \in Int
      BY <1>0
    <2> HIDE DEF n
    <2>4. /\ SubSeq(deferred, 1, n - 1) \in Seq(Subsystem)
          /\ Len(SubSeq(deferred, 1, n - 1)) = IF 1 <= n - 1 THEN (n - 1) - 1 + 1 ELSE 0
          /\ \A i \in 1 .. (n - 1) - 1 + 1 :
               SubSeq(deferred, 1, n - 1)[i] = deferred[1 + i - 1]
      BY <2>1, <2>3, SubSeqProperties
    <2> QED  BY <1>0, <2>2, <2>4
  <1> QED  BY <1>0, <1>1 DEF Ordered

----------------------------------------------------------------------------

\* The initial states satisfy the invariant.
LEMMA InitSInv == ServerInit => SInv
  <1> SUFFICES ASSUME ServerInit
               PROVE  SInv
    OBVIOUS
  <1> USE DEF ServerInit
  <1>1. IInv
    BY InitIInv
  <1>2. ProcessTypes
    <2>1. DOMAIN cfg = Setting
      BY DEF Default
    <2>2. main \in Early \cup Late /\ errs \in 0 .. Capacity
      BY DEF Early, Capacity
    <2> QED  BY <2>1, <2>2 DEF ProcessTypes
  <1>3. Piled
    BY DEF Piled, Ordered, Top
  <1>4. Errors
    BY DEF Errors, Early, Spent
  <1>5. Serving
    BY DEF Serving, Busy, Init
  <1>6. Checked /\ StopLosesNothing
    BY DEF Checked, BuildStage, StopLosesNothing, Init
  <1> QED  BY <1>1, <1>2, <1>3, <1>4, <1>5, <1>6 DEF SInv

\* While the requests are left alone, and the drain has not timed out, so is
\* what the invariant says of them.
LEMMA RequestsKept ==
    ASSUME SInv, UNCHANGED vars, up
    PROVE  IInv' /\ StopLosesNothing'
  <1>1. \A r \in Request : conn[r] # "gone"
    BY DEF SInv, IInv, GoneIsDead
  <1> QED
    BY <1>1 DEF SInv, IInv, TypeOK, Lockstep, GoneIsDead, vars, StopLosesNothing

\* run() loads the configuration and builds the subsystems.
LEMMA StartupPreserves ==
    ASSUME SInv, Startup
    PROVE  SInv'
  <1>0. up /\ UNCHANGED vars
    <2>1. Build => up /\ UNCHANGED vars
      BY BuildingOn
    <2>2. BuildFails => up /\ UNCHANGED vars
      BY DEF BuildFails
    <2> QED  BY <2>1, <2>2 DEF Startup, LoadConfig, LoadFails, Start
  <1>1. IInv' /\ StopLosesNothing'
    BY <1>0, RequestsKept
  <1>2. ASSUME NEW file \in File, NEW env \in Env, LoadConfig(file, env)
        PROVE  SInv'
    <2> USE <1>2 DEF LoadConfig, Proceed, SInv
    <2>1. Valid(cfg') /\ DOMAIN cfg' = Setting
      BY DEF Load, Override
    <2>2. Piled'
      BY DEF Piled, Ordered, Top
    <2>3. ProcessTypes'
      BY <2>1 DEF ProcessTypes, Early, BuildStage, Late
    <2>4. Errors'
      BY DEF Errors, Early, BuildStage, Spent
    <2>5. Serving'
      BY DEF Serving, Busy, vars
    <2>6. Checked'
      BY <2>1 DEF Checked, Errors, Early, BuildStage
    <2> QED  BY <1>1, <2>2, <2>3, <2>4, <2>5, <2>6
  <1>3. CASE LoadFails \/ BuildFails
    <2>0. /\ main \in Early /\ main' = "close" /\ status' = "fatal"
          /\ UNCHANGED <<vars, role, cfg, deferred, ctx, catching, workers,
                         httpd, errs, timedOut>>
      <3>1. BuildFails => main \in BuildStage
        <4>1. Len(Building) = 7 /\ DOMAIN Building = 1 .. 7
          BY DEF Building
        <4>2. \A i \in 1 .. Len(Building) - 1 : i \in DOMAIN Building
          BY <4>1
        <4>3. BuildFails => \E i \in DOMAIN Building : main = Building[i]
          BY <4>2 DEF BuildFails
        <4> QED  BY <4>3, Stages
      <3> QED  BY <1>3, <3>1 DEF LoadFails, BuildFails, GiveUp, Early
    <2> USE <2>0 DEF SInv
    <2>2. Piled'
      BY DEF Piled, Ordered, Top
    <2>3. ProcessTypes'
      BY DEF ProcessTypes, Late
    <2>4. Errors'
      BY DEF Errors, Early, BuildStage, Spent
    <2>5. Serving'
      BY DEF Serving, Busy, vars, Early, BuildStage
    <2>6. Checked'
      BY DEF Checked, BuildStage
    <2> QED  BY <1>1, <2>2, <2>3, <2>4, <2>5, <2>6
  <1>4. CASE Build
    <2>0. /\ <<main, main'>> \in
               {<<"tracing", "db">>, <<"db", "migrate">>, <<"migrate", "storage">>,
                <<"storage", "queue">>, <<"queue", "llm">>, <<"llm", "start">>}
          /\ deferred' = deferred \o Defers(main)
          /\ UNCHANGED <<vars, role, cfg, ctx, catching, workers, httpd, errs,
                         timedOut, status>>
      BY <1>4, BuildingOn
    <2>1. main \in BuildStage /\ main' \in BuildStage
      BY <2>0 DEF BuildStage
    <2>2. Piled'
      <3>0. Piled
        BY DEF SInv
      <3>1. deferred \o <<>> = deferred
        BY <3>0, ConcatEmptySeq DEF Piled, Ordered
      <3>2. CASE Defers(main) = <<>>
        <4>1. deferred' = deferred
          BY <2>0, <3>1, <3>2
        <4>2. main # "db" /\ main # "queue"
          BY <3>2 DEF Defers
        <4> QED  BY <2>0, <3>0, <4>1, <4>2 DEF Piled, Ordered, Top
      <3>3. CASE main = "tracing" /\ Defers(main) # <<>>
        <4>1. Defers(main) = <<"tracing">>
          BY <3>3 DEF Defers
        <4>2. Ordered' /\ Top' = "tracing"
          BY <2>0, <3>0, <3>3, <4>1, Pushing DEF Piled, Subsystem
        <4> QED  BY <2>0, <3>3, <4>2 DEF Piled
      <3>4. CASE main = "db"
        <4>1. Defers(main) = <<"pool">>
          BY <3>4 DEF Defers
        <4>2. Ordered' /\ Top' = "pool"
          BY <2>0, <3>0, <3>4, <4>1, Pushing DEF Piled, Subsystem, Rank
        <4> QED  BY <2>0, <3>4, <4>2 DEF Piled
      <3>5. CASE main = "queue"
        <4>1. Defers(main) = <<"queue">>
          BY <3>5 DEF Defers
        <4>2. Ordered' /\ Top' = "queue"
          BY <2>0, <3>0, <3>5, <4>1, Pushing DEF Piled, Subsystem, Rank
        <4> QED  BY <2>0, <3>5, <4>2 DEF Piled
      <3> QED  BY <3>2, <3>3, <3>4, <3>5 DEF Defers
    <2> USE <2>0, <2>1 DEF SInv
    <2>3. ProcessTypes'
      BY DEF ProcessTypes, Early
    <2>4. Errors'
      BY DEF Errors, Early, Spent
    <2>5. Serving'
      BY DEF Serving, Busy, vars, BuildStage
    <2>6. Checked'
      BY DEF Checked, BuildStage
    <2> QED  BY <1>1, <2>2, <2>3, <2>4, <2>5, <2>6
  <1>5. CASE Start
    <2> USE <1>5 DEF Start, Proceed, SInv
    <2>1. DOMAIN cfg' = Live /\ \A s \in Live : cfg'[s] = cfg[s]
      OBVIOUS
    <2>2. Piled'
      BY DEF Piled, Ordered, Top
    <2>3. ProcessTypes'
      BY <2>1 DEF ProcessTypes, Late
    <2>4. Errors'
      BY DEF Errors, Early, BuildStage, Spent
    <2>5. Serving'
      BY DEF Serving, Busy, vars
    <2>6. Checked'
      BY <2>1 DEF Checked, Live, Valid, BuildStage
    <2> QED  BY <1>1, <2>2, <2>3, <2>4, <2>5, <2>6
  <1> QED  BY <1>2, <1>3, <1>4, <1>5 DEF Startup

\* The goroutines of the queue and of the server come and go, and report.
LEMMA SubsystemPreserves ==
    ASSUME SInv, Listen \/ ListenFails \/ WorkersEnd \/ Report
    PROVE  SInv'
  <1>0. /\ up /\ UNCHANGED <<vars, main, role, cfg, deferred, ctx, catching,
                             timedOut, status>>
    BY DEF Listen, ListenFails, WorkersEnd, Report
  <1>1. IInv' /\ StopLosesNothing'
    BY <1>0, RequestsKept
  <1>2. Piled'
    BY <1>0 DEF SInv, Piled, Ordered, Top
  <1>3. Checked'
    <2>1. CASE Listen
      BY <1>0, <2>1 DEF SInv, Listen, ShuttingDown, ProcessTypes, Errors, Early,
                        Late, Checked
    <2>2. CASE ~ Listen
      BY <1>0, <2>2 DEF SInv, ListenFails, WorkersEnd, Report, Checked
    <2> QED  BY <2>1, <2>2
  <1> USE <1>0 DEF SInv
  <1>4. CASE Listen
    <2>1. Serving'
      BY <1>4 DEF Listen, Serving, Busy, vars, ShuttingDown, ProcessTypes,
                  Errors, Early, Late
    <2>2. ProcessTypes'
      BY <1>4 DEF Listen, ProcessTypes
    <2>3. Errors'
      BY <1>4 DEF Listen, Errors, Spent, ProcessTypes, Capacity
    <2> QED  BY <1>1, <1>2, <1>3, <2>1, <2>2, <2>3
  <1>5. CASE ListenFails
    <2>1. Serving'
      BY <1>5 DEF ListenFails, Serving, Busy, vars
    <2>2. ProcessTypes'
      BY <1>5 DEF ListenFails, ProcessTypes
    <2>3. Errors'
      BY <1>5 DEF ListenFails, Errors, Spent, ProcessTypes, Capacity
    <2> QED  BY <1>1, <1>2, <1>3, <2>1, <2>2, <2>3
  <1>6. CASE WorkersEnd
    <2>1. Serving'
      BY <1>6 DEF WorkersEnd, Serving, Busy, vars
    <2>2. ProcessTypes'
      BY <1>6 DEF WorkersEnd, ProcessTypes
    <2>3. Errors'
      BY <1>6 DEF WorkersEnd, Errors, Spent, ProcessTypes, Capacity
    <2> QED  BY <1>1, <1>2, <1>3, <2>1, <2>2, <2>3
  <1>7. CASE Report
    <2>1. Serving'
      BY <1>7 DEF Report, Serving, Busy, vars
    <2>2. ProcessTypes'
      BY <1>7 DEF Report, ProcessTypes, Capacity
    <2>3. Errors'
      BY <1>7 DEF Report, Errors, Spent, ProcessTypes, Capacity
    <2> QED  BY <1>1, <1>2, <1>3, <2>1, <2>2, <2>3
  <1> QED  BY <1>4, <1>5, <1>6, <1>7

\* When the process ends, whoever was served is cut off.
LEMMA CutOffPreserves ==
    ASSUME IInv, CutOff, up' = FALSE,
           UNCHANGED <<path, who, handler, sent, logged>>
    PROVE  IInv'
  <1>1. \A r \in Request : conn'[r] = IF conn[r] \in {"new", "finished"}
                                      THEN conn[r] ELSE "gone"
    BY DEF CutOff
  <1>2. conn' \in [Request -> Conn]
    BY <1>1 DEF CutOff, IInv, TypeOK, Conn
  <1> QED  BY <1>1, <1>2 DEF IInv, TypeOK, Lockstep, GoneIsDead

\* A signal is noticed, or ends the process.
LEMMA SignalPreserves ==
    ASSUME SInv, Signal
    PROVE  SInv'
  <1>0. /\ up
        /\ UNCHANGED <<role, cfg, deferred, catching, workers, httpd, errs, timedOut>>
    BY DEF Signal
  <1> USE <1>0 DEF SInv
  <1>1. CASE catching
    <2>0. ctx' = "done" /\ UNCHANGED <<vars, main, status>>
      BY <1>1 DEF Signal
    <2>1. IInv' /\ StopLosesNothing'
      BY <2>0, RequestsKept
    <2>2. Piled' /\ Checked'
      BY <2>0 DEF Piled, Ordered, Top, Checked
    <2>3. ProcessTypes' /\ Errors'
      BY <2>0 DEF ProcessTypes, Errors
    <2>4. Serving'
      BY <2>0 DEF Serving, Busy, vars
    <2> QED  BY <2>1, <2>2, <2>3, <2>4
  <1>2. CASE ~ catching
    <2>0. /\ up' = FALSE /\ main' = "exited" /\ status' = "killed" /\ CutOff
          /\ UNCHANGED <<path, who, handler, sent, logged, ctx>>
      BY <1>2 DEF Signal
    <2>1. IInv'
      BY <2>0, CutOffPreserves
    <2>2. StopLosesNothing'
      BY <1>2, <2>0 DEF StopLosesNothing
    <2>3. Piled' /\ Checked'
      BY <2>0 DEF Piled, Ordered, Top, Checked, BuildStage
    <2>4. ProcessTypes' /\ Errors'
      BY <2>0 DEF ProcessTypes, Errors, Early, BuildStage, Late
    <2>5. Serving'
      BY <2>0 DEF Serving, Busy
    <2> QED  BY <2>1, <2>2, <2>3, <2>4, <2>5
  <1> QED  BY <1>1, <1>2

\* run() leaves its select, waits for the requests, and closes what it built.
LEMMA StopPreserves ==
    ASSUME SInv, Stop
    PROVE  SInv'
  <1>0. up /\ UNCHANGED <<role, cfg, workers>>
    BY DEF Stop, SelectSignal, SelectError, Shutdown, Drain, Close, Exit
  <1> USE <1>0 DEF SInv
  <1>1. CASE SelectSignal \/ SelectError
    <2>0. /\ main = "select" /\ main' = IF role = "server" THEN "shutdown" ELSE "close"
          /\ UNCHANGED <<vars, deferred, httpd, timedOut, status>>
          /\ ctx' \in {"live", "done"} /\ catching' \in BOOLEAN
          /\ errs' \in 0 .. Capacity /\ errs' <= errs
      <3>1. CASE SelectSignal
        BY <3>1 DEF SelectSignal, AfterSelect, Proceed, ProcessTypes, Capacity
      <3>2. CASE SelectError
        <4>1. /\ main = "select" /\ errs > 0 /\ errs' = errs - 1
              /\ main' = IF role = "server" THEN "shutdown" ELSE "close"
              /\ ctx' = "done" /\ catching' = FALSE
              /\ UNCHANGED <<vars, deferred, httpd, timedOut, status>>
          BY <3>2 DEF SelectError, AfterSelect, Proceed
        <4>2. errs' \in 0 .. Capacity /\ errs' <= errs
          BY <4>1 DEF ProcessTypes, Capacity
        <4> QED  BY <4>1, <4>2
      <3> QED  BY <1>1, <3>1, <3>2
    <2>1. IInv' /\ StopLosesNothing'
      BY <2>0, RequestsKept
    <2>2. Piled' /\ Checked'
      BY <2>0 DEF Piled, Ordered, Top, Checked, BuildStage
    <2>3. ProcessTypes'
      BY <2>0 DEF ProcessTypes, Late
    <2>4. Errors'
      BY <2>0 DEF Errors, Early, BuildStage, Spent, ProcessTypes, Capacity
    <2>5. Serving'
      BY <2>0 DEF Serving, Busy, vars, ProcessTypes
    <2> QED  BY <2>1, <2>2, <2>3, <2>4, <2>5
  <1>2. CASE Shutdown
    <2>0. /\ main = "shutdown" /\ main' = "drain"
          /\ httpd' = IF httpd = "listening" THEN "ended" ELSE httpd
          /\ UNCHANGED <<vars, deferred, ctx, catching, errs, timedOut, status>>
      BY <1>2 DEF Shutdown, Proceed
    <2>1. IInv' /\ StopLosesNothing'
      BY <2>0, RequestsKept
    <2>2. Piled' /\ Checked'
      BY <2>0 DEF Piled, Ordered, Top, Checked, BuildStage
    <2>3. ProcessTypes'
      BY <2>0 DEF ProcessTypes, Late
    <2>4. Errors'
      BY <2>0 DEF Errors, Early, BuildStage, Spent, ProcessTypes, Capacity
    <2>5. Serving'
      BY <2>0 DEF Serving, Busy, vars
    <2> QED  BY <2>1, <2>2, <2>3, <2>4, <2>5
  <1>3. CASE Drain
    <2>0. /\ main = "drain" /\ main' = "close"
          /\ UNCHANGED <<vars, deferred, ctx, catching, httpd, errs, status>>
          /\ timedOut' \in BOOLEAN /\ (timedOut => timedOut')
          /\ Quiet \/ timedOut'
      <3>1. CASE UNCHANGED timedOut
        BY <1>3, <3>1 DEF Drain, Proceed, ProcessTypes
      <3>2. CASE timedOut' = TRUE
        BY <1>3, <3>2 DEF Drain, Proceed, ProcessTypes
      <3> QED  BY <1>3, <3>1, <3>2 DEF Drain
    <2>1. IInv' /\ StopLosesNothing'
      <3>1. \A r \in Request : conn[r] # "gone"
        BY DEF IInv, GoneIsDead
      <3> QED
        BY <2>0, <3>1 DEF IInv, TypeOK, Lockstep, GoneIsDead, vars, StopLosesNothing
    <2>2. Piled' /\ Checked'
      BY <2>0 DEF Piled, Ordered, Top, Checked, BuildStage
    <2>3. ProcessTypes'
      BY <2>0 DEF ProcessTypes, Late
    <2>4. Errors'
      BY <2>0 DEF Errors, Early, BuildStage, Spent, ProcessTypes, Capacity
    <2>5. Serving'
      BY <2>0 DEF Serving, Busy, vars, Quiet
    <2> QED  BY <2>1, <2>2, <2>3, <2>4, <2>5
  <1>4. CASE Close
    <2>0. /\ main = "close" /\ main' = "close"
          /\ deferred # <<>> /\ deferred' = Rest
          /\ UNCHANGED <<vars, ctx, catching, httpd, errs, timedOut, status>>
      BY <1>4 DEF Close
    <2>1. IInv' /\ StopLosesNothing'
      BY <2>0, RequestsKept
    <2>2. Ordered'
      BY <2>0, Popping DEF Piled
    <2>3. Piled' /\ Checked'
      BY <2>0, <2>2 DEF Piled, Checked, BuildStage
    <2>4. ProcessTypes' /\ Errors'
      BY <2>0 DEF ProcessTypes, Errors, Early, BuildStage, Spent
    <2>5. Serving'
      BY <2>0 DEF Serving, Busy, vars
    <2> QED  BY <2>1, <2>3, <2>4, <2>5
  <1>5. CASE Exit
    <2>0. /\ main = "close" /\ main' = "exited" /\ up' = FALSE /\ CutOff
          /\ status' \in {"fatal", "ok"}
          /\ UNCHANGED <<path, who, handler, sent, logged, deferred, ctx,
                         catching, httpd, errs, timedOut>>
      BY <1>5 DEF Exit
    <2>1. IInv'
      BY <2>0, CutOffPreserves
    <2>2. StopLosesNothing'
      <3>1. ASSUME NEW r \in Request, ~ timedOut
            PROVE  conn'[r] = conn[r] /\ conn[r] # "gone"
        BY <2>0, <3>1 DEF CutOff, Serving, Busy, IInv, GoneIsDead
      <3> QED  BY <2>0, <3>1 DEF StopLosesNothing
    <2>3. Piled' /\ Checked'
      BY <2>0 DEF Piled, Ordered, Top, Checked, BuildStage
    <2>4. ProcessTypes' /\ Errors'
      BY <2>0 DEF ProcessTypes, Errors, Early, BuildStage, Late, Spent
    <2>5. Serving'
      BY <2>0 DEF Serving, Busy
    <2> QED  BY <2>1, <2>2, <2>3, <2>4, <2>5
  <1> QED  BY <1>1, <1>2, <1>3, <1>4, <1>5 DEF Stop

\* A request is let in only by a server that listens, and ends only by
\* itself, or with the process when a handler panics.
LEMMA RequestPreserves ==
    ASSUME SInv, NEW r \in Request, RequestStep(r)
    PROVE  SInv'
  <1>0. up /\ UNCHANGED processVars
    BY DEF RequestStep, Enter, Arrive, Progress, Gate, Reject, Dispatch,
           HandlerWrites, HandlerReturns, HandlerPanics, Expire, Unwind, Join, Log
  <1> USE <1>0 DEF SInv, processVars
  <1>1. IInv'
    <2>1. (\E p \in Principal \cup {Nobody} : Enter(r, p)) => IInv'
      BY StackPreserves DEF Enter
    <2>2. Progress(r) => IInv'
      BY StackPreserves, HandlerPreserves DEF Progress
    <2> QED  BY <2>1, <2>2 DEF RequestStep
  <1>2. Piled' /\ Checked'
    BY DEF Piled, Ordered, Top, Checked
  <1>3. ProcessTypes' /\ Errors'
    BY DEF ProcessTypes, Errors
  <1>4. /\ \A q \in Request : conn[q] # "gone"
        /\ conn \in [Request -> Conn]
    BY DEF IInv, TypeOK, GoneIsDead
  <1>5. CASE \E p \in Principal \cup {Nobody} : Enter(r, p)
    <2>0. /\ httpd = "listening" /\ conn' = [conn EXCEPT ![r] = "gates"]
          /\ up' = up /\ handler' = handler
      BY <1>5 DEF Enter, Arrive, Goto
    <2>1. Serving'
      BY <2>0, <1>4 DEF Serving, Busy
    <2>2. StopLosesNothing'
      BY <2>0, <1>4 DEF StopLosesNothing
    <2> QED  BY <1>1, <1>2, <1>3, <2>1, <2>2
  <1>6. CASE HandlerPanics(r) /\ HasDeadline(path[r])
    <2>0. up' = FALSE /\ handler'[r] = "panicked"
      BY <1>6 DEF HandlerPanics, IInv, TypeOK
    <2>1. Serving'
      BY <2>0 DEF Serving, Busy
    <2>2. StopLosesNothing'
      BY <2>0 DEF StopLosesNothing
    <2> QED  BY <1>1, <1>2, <1>3, <2>1, <2>2
  <1>7. CASE Progress(r) /\ ~ (HandlerPanics(r) /\ HasDeadline(path[r]))
    <2>0. /\ up' = up
          /\ \/ conn' = conn
             \/ Busy(r) /\ \E at \in {"unwind", "waiting", "inline", "finished",
                                      "draining"} : conn' = [conn EXCEPT ![r] = at]
      <3>1. CASE Gate(r)
        BY <3>1 DEF Gate, Reject, Dispatch, Goto, Busy
      <3>2. CASE \E code \in {"ok", "error"} : HandlerWrites(r, code)
        BY <3>2 DEF HandlerWrites
      <3>3. CASE HandlerReturns(r)
        BY <3>3 DEF HandlerReturns
      <3>4. CASE HandlerPanics(r) /\ ~ HasDeadline(path[r])
        <4>1. Busy(r)
          BY <3>4, <1>4 DEF HandlerPanics, Busy, IInv, Lockstep
        <4> QED  BY <3>4, <4>1 DEF HandlerPanics, Goto
      <3>5. CASE Expire(r)
        BY <3>5 DEF Expire, Goto, Busy
      <3>6. CASE Unwind(r)
        BY <3>6 DEF Unwind, Join, HandlerDone, Log, Goto, Busy
      <3> QED  BY <1>7, <3>1, <3>2, <3>3, <3>4, <3>5, <3>6 DEF Progress
    <2>1. Serving'
      BY <2>0, <1>4 DEF Serving, Busy
    <2>2. StopLosesNothing'
      BY <2>0, <1>4 DEF StopLosesNothing
    <2> QED  BY <1>1, <1>2, <1>3, <2>1, <2>2
  <1> QED  BY <1>5, <1>6, <1>7 DEF RequestStep

----------------------------------------------------------------------------

\* Every step preserves the invariant.
LEMMA StepSInv == SInv /\ [ServerNext]_serverVars => SInv'
  <1> SUFFICES ASSUME SInv, [ServerNext]_serverVars
               PROVE  SInv'
    OBVIOUS
  <1>1. CASE UNCHANGED serverVars
    <2> USE <1>1 DEF serverVars, vars, processVars, SInv
    <2>1. IInv'
      BY DEF IInv, TypeOK, Lockstep, GoneIsDead
    <2>2. ProcessTypes' /\ Errors'
      BY DEF ProcessTypes, Errors
    <2>3. Piled' /\ Checked'
      BY DEF Piled, Ordered, Top, Checked
    <2>4. Serving' /\ StopLosesNothing'
      BY DEF Serving, Busy, StopLosesNothing
    <2> QED  BY <2>1, <2>2, <2>3, <2>4
  <1>2. CASE ServerNext
    BY <1>2, StartupPreserves, StopPreserves, SubsystemPreserves,
       SignalPreserves, RequestPreserves DEF ServerNext, Process
  <1> QED  BY <1>1, <1>2

\* The invariant holds throughout.
THEOREM ServerInvariance == ServerSpec => []SInv
  BY InitSInv, StepSInv, PTL DEF ServerSpec

\* Every variable of the process keeps to its type, and nothing is closed
\* twice, whichever step of the start fails.
THEOREM ServerTypeCorrect == ServerSpec => []ServerTypeOK
  <1>1. SInv => ServerTypeOK
    <2> SUFFICES ASSUME SInv
                 PROVE  ServerTypeOK
      OBVIOUS
    <2>1. DOMAIN deferred = 1 .. Len(deferred) /\ Len(deferred) \in Nat
      BY DEF SInv, Piled, Ordered
    <2>2. Open \subseteq Subsystem
      BY <2>1 DEF SInv, Piled, Ordered, Open
    <2>3. ASSUME NEW i \in DOMAIN deferred, NEW j \in DOMAIN deferred,
                 deferred[i] = deferred[j], i # j
          PROVE  FALSE
      <3>1. Rank(deferred[i]) \in Nat
        BY <2>1 DEF SInv, Piled, Ordered, Rank, Subsystem
      <3> QED  BY <2>1, <2>3, <3>1 DEF SInv, Piled, Ordered
    <2>4. main \in Main
      BY Stages DEF SInv, ProcessTypes
    <2> QED  BY <2>2, <2>3, <2>4 DEF SInv, ProcessTypes, ServerTypeOK
  <1> QED  BY <1>1, ServerInvariance, PTL

\* While a handler runs, the pool and the queue are open, unless the whole of
\* the drain timeout has passed: for any number of requests.
THEOREM StoresLast == ServerSpec => []StoresOutliveHandlers
  <1>1. SInv => StoresOutliveHandlers
    <2> SUFFICES ASSUME SInv, up
                 PROVE  /\ \A r \in Request : handler[r] = "running" /\ ~timedOut =>
                             {"pool", "queue"} \subseteq Open
                        /\ "queue" \in Open => "pool" \in Open
      BY DEF StoresOutliveHandlers
    <2>0. DOMAIN deferred = 1 .. Len(deferred) /\ Len(deferred) \in Nat
      BY DEF SInv, Piled, Ordered
    <2>1. "queue" \in Open => "pool" \in Open
      BY <2>0 DEF SInv, Piled, Ordered, Open
    <2>2. ASSUME NEW r \in Request, handler[r] = "running", ~timedOut
          PROVE  "queue" \in Open
      <3>1. Busy(r)
        BY <2>2 DEF SInv, IInv, TypeOK, Lockstep, GoneIsDead, Busy, Conn
      <3>2. Top = "queue"
        BY <2>2, <3>1 DEF SInv, Serving, Piled
      <3> QED  BY <2>0, <3>2 DEF Top, Open
    <2> QED  BY <2>1, <2>2
  <1> QED  BY <1>1, ServerInvariance, PTL

\* A SIGTERM alone loses no request that was taken in.
THEOREM StopIsClean == ServerSpec => []StopLosesNothing
  <1>1. SInv => StopLosesNothing
    BY DEF SInv
  <1> QED  BY <1>1, ServerInvariance, PTL

\* The channel has room for every goroutine that reports into it.
THEOREM NobodyIsStuck == ServerSpec => []NobodyBlocks
  <1>1. SInv => NobodyBlocks
    BY DEF SInv, Errors, Spent, ProcessTypes, NobodyBlocks, Capacity
  <1> QED  BY <1>1, ServerInvariance, PTL

\* The configuration the server listens with has passed Validate.
THEOREM ServesValidated == ServerSpec => []ServesWhatWasValidated
  <1>1. SInv => ServesWhatWasValidated
    BY Stages DEF SInv, Checked, ServesWhatWasValidated
  <1> QED  BY <1>1, ServerInvariance, PTL

----------------------------------------------------------------------------

\* What is chosen as the first is the first.
LEMMA FirstIsChosen ==
    ASSUME NEW S, S \subseteq Nat, NEW n \in S, \A j \in S : n <= j
    PROVE  (CHOOSE i \in S : \A j \in S : i <= j) = n
  <1> DEFINE first == CHOOSE i \in S : \A j \in S : i <= j
  <1>1. first \in S /\ \A j \in S : first <= j
    OBVIOUS
  <1> HIDE DEF first
  <1>2. first \in Nat /\ n \in Nat /\ first <= n /\ n <= first
    BY <1>1
  <1>3. first = n
    BY <1>2
  <1> QED  BY <1>3 DEF first

\* The variable a setting is taken from: the server's, then the engine's.
LEMMA FirstVariable ==
    ASSUME NEW env, NEW s \in Setting
    PROVE  FirstEnv(env, s) =
             IF s \in FileOnly THEN ""
             ELSE IF Lookup(env, <<"VLS", s>>) # "" THEN Lookup(env, <<"VLS", s>>)
             ELSE IF s \in Forwarded THEN Lookup(env, <<"VLE", s>>) ELSE ""
  <1>p. PICK vls, vle : vls = Lookup(env, <<"VLS", s>>) /\ vle = Lookup(env, <<"VLE", s>>)
    OBVIOUS
  <1> DEFINE set == {i \in DOMAIN Prefixes(s) : Lookup(env, <<Prefixes(s)[i], s>>) # ""}
             first == CHOOSE i \in set : \A j \in set : i <= j
  <1>0. FirstEnv(env, s) = IF set = {} THEN "" ELSE Lookup(env, <<Prefixes(s)[first], s>>)
    BY DEF FirstEnv
  <1>1. ASSUME NEW n \in set, \A j \in set : n <= j, set \subseteq Nat
        PROVE  first = n
    <2> HIDE DEF set
    <2> QED  BY <1>1, FirstIsChosen
  <1>2. CASE s \in FileOnly
    <2>1. Prefixes(s) = <<>>
      BY <1>2 DEF Prefixes, FileOnly, Forwarded
    <2>2. DOMAIN Prefixes(s) = {}
      BY <2>1
    <2> QED  BY <1>0, <1>2, <2>2
  <1>3. CASE s \in Forwarded
    <2>1. Prefixes(s) = <<"VLS", "VLE">> /\ s \notin FileOnly
      BY <1>3 DEF Prefixes, FileOnly, Forwarded
    <2>2. /\ DOMAIN Prefixes(s) = {1, 2}
          /\ Prefixes(s)[1] = "VLS" /\ Prefixes(s)[2] = "VLE"
      BY <2>1
    <2>3. /\ set \subseteq {1, 2}
          /\ 1 \in set <=> vls # ""
          /\ 2 \in set <=> vle # ""
      BY <1>p, <2>2, Zenon
    <2> HIDE DEF set, first
    <2>4. CASE vls # ""
      <3>0. set \subseteq {1, 2} /\ 1 \in set
        BY <2>3, <2>4, Zenon
      <3>1. set \subseteq Nat /\ 1 \in set /\ \A j \in set : 1 <= j
        BY <3>0
      <3>2. first = 1
        BY <1>1, <3>1
      <3> QED  BY <1>p, <1>0, <2>1, <2>2, <2>4, <3>1, <3>2
    <2>5. CASE vls = "" /\ vle # ""
      <3>0. set \subseteq {1, 2} /\ 2 \in set /\ 1 \notin set
        BY <2>3, <2>5, Zenon
      <3>1. set \subseteq Nat /\ 2 \in set /\ \A j \in set : 2 <= j
        BY <3>0
      <3>2. first = 2
        BY <1>1, <3>1
      <3> QED  BY <1>p, <1>0, <1>3, <2>1, <2>2, <2>5, <3>1, <3>2
    <2>6. CASE vls = "" /\ vle = ""
      <3>1. set = {}
        BY <2>3, <2>6
      <3> QED  BY <1>p, <1>0, <1>3, <2>1, <2>6, <3>1
    <2> QED  BY <2>4, <2>5, <2>6
  <1>4. CASE s \notin FileOnly /\ s \notin Forwarded
    <2>1. Prefixes(s) = <<"VLS">>
      BY <1>4 DEF Prefixes
    <2>2. DOMAIN Prefixes(s) = {1} /\ Prefixes(s)[1] = "VLS"
      BY <2>1
    <2>3. set \subseteq {1} /\ (1 \in set <=> vls # "")
      BY <1>p, <2>2, Zenon
    <2> HIDE DEF set, first
    <2>4. CASE vls # ""
      <3>0. set \subseteq {1} /\ 1 \in set
        BY <2>3, <2>4, Zenon
      <3>1. set \subseteq Nat /\ 1 \in set /\ \A j \in set : 1 <= j
        BY <3>0
      <3>2. first = 1
        BY <1>1, <3>1
      <3> QED  BY <1>p, <1>0, <1>4, <2>2, <2>4, <3>1, <3>2
    <2>5. CASE vls = ""
      <3>1. set = {}
        BY <2>3, <2>5
      <3> QED  BY <1>p, <1>0, <1>4, <2>5, <3>1
    <2> QED  BY <2>4, <2>5
  <1> QED  BY <1>2, <1>3, <1>4

\* Load gives every setting the value the documented precedence gives it.
LEMMA PrecedenceOfLoad ==
    ASSUME NEW engine, NEW file, NEW env, NEW s \in Setting
    PROVE  Load(engine, file, env).cfg[s] = ByPrecedence(engine, file, env, s)
  <1> DEFINE vls == Lookup(env, <<"VLS", s>>)
             vle == Lookup(env, <<"VLE", s>>)
             below == Read(file, Default(engine))[s]
             v == FirstEnv(env, s)
             named  == {p \in {"VLS", "VLE"} :
                          s \notin FileOnly /\ (p = "VLE" => s \in Forwarded)}
             usable == {p \in named :
                          /\ Lookup(env, <<p, s>>) # ""
                          /\ s \in Number => Lookup(env, <<p, s>>) \in PositiveNumber}
  <1>1. Load(engine, file, env).cfg[s] = IF v = "" THEN below ELSE Set(s, v, below)
    BY DEF Load, Override
  <1>2. below = IF s \in DOMAIN file THEN file[s] ELSE Default(engine)[s]
    BY DEF Read
  <1>3. ByPrecedence(engine, file, env, s) =
           IF "VLS" \in usable THEN Set(s, vls, "")
           ELSE IF "VLE" \in usable THEN Set(s, vle, "") ELSE below
    BY <1>2 DEF ByPrecedence
  <1>4. v = IF s \in FileOnly THEN "" ELSE IF vls # "" THEN vls
            ELSE IF s \in Forwarded THEN vle ELSE ""
    BY FirstVariable
  <1>5. /\ s \in Number => s \notin Forwarded /\ s \notin FileOnly
        /\ s \in Forwarded => s \notin FileOnly /\ s \notin Number
    BY DEF Number, Forwarded, FileOnly
  <1>6. s \notin Number => \A w, a, b : Set(s, w, a) = Set(s, w, b)
    BY DEF Set
  <1>7. s \in Number => \A w, a : Set(s, w, a) = IF w \in PositiveNumber THEN w ELSE a
    BY DEF Set, Number, Flag
  <1>8. /\ "VLS" \in usable <=> /\ s \notin FileOnly /\ vls # ""
                                /\ s \in Number => vls \in PositiveNumber
        /\ "VLE" \in usable <=> /\ s \in Forwarded /\ vle # ""
    BY <1>5
  <1> HIDE DEF vls, vle, below, v, usable
  <1>9. CASE s \in Number
    BY <1>1, <1>3, <1>4, <1>5, <1>7, <1>8, <1>9
  <1>10. CASE s \notin Number
    <2>1. Set(s, v, below) = Set(s, v, "")
      BY <1>6, <1>10
    <2>2. CASE s \in FileOnly
      BY <1>1, <1>3, <1>4, <1>5, <1>8, <1>10, <2>2
    <2>3. CASE s \notin FileOnly /\ vls # ""
      BY <1>1, <1>3, <1>4, <1>8, <1>10, <2>1, <2>3
    <2>4. CASE s \notin FileOnly /\ vls = ""
      BY <1>1, <1>3, <1>4, <1>8, <1>10, <2>1, <2>4
    <2> QED  BY <2>2, <2>3, <2>4
  <1> QED  BY <1>9, <1>10

\* The documented precedence is what Load computes, for every file and every
\* environment.
THEOREM PrecedenceIsKept == ServerSpec => []PrecedenceHolds
  <1>1. PrecedenceHolds
    BY PrecedenceOfLoad DEF PrecedenceHolds
  <1> QED  BY <1>1, PTL

----------------------------------------------------------------------------

\* The deliveries are requests like any other: the webhook takes no step that
\* the server could not, so what holds of the server holds with it.
LEMMA DeliveryIsRequest ==
    ASSUME NEW r \in Request, IsDelivery(r), DeliveryStep(r)
    PROVE  RequestStep(r) \/ UNCHANGED serverVars
  <1>1. CASE Deliver(r)
    BY <1>1, PipelineAssumption DEF Deliver, RequestStep
  <1>2. CASE (Gate(r) \/ Unwind(r)) /\ UNCHANGED <<processVars, deliveryVars>>
    BY <1>2 DEF RequestStep, Progress
  <1>3. CASE RefuseDelivery(r)
    BY <1>3 DEF RefuseDelivery, RequestStep, Progress, HandlerWrites
  <1>4. CASE DispatchJob(r)
    BY <1>4 DEF DispatchJob, serverVars
  <1>5. ASSUME NEW outcome \in {"done", "failed"}, JobEnds(r, outcome)
        PROVE  RequestStep(r)
    <2>1. Verdict(outcome) \in {"ok", "error"}
      BY DEF Verdict
    <2> QED  BY <1>5, <2>1 DEF JobEnds, RequestStep, Progress, HandlerWrites
  <1>6. CASE Finish(r) \/ DeliveryPanics(r)
    BY <1>6 DEF Finish, DeliveryPanics, RequestStep, Progress
  <1>7. CASE Hear(r) \/ HearNothing(r)
    BY <1>7 DEF Hear, HearNothing
  <1> QED  BY <1>1, <1>2, <1>3, <1>4, <1>5, <1>6, <1>7 DEF DeliveryStep

\* A server with a webhook is a server.
THEOREM WebhookIsServer == WebhookSpec => ServerSpec
  <1>1. WebhookInit => ServerInit
    BY DEF WebhookInit
  <1>2. [WebhookNext]_webhookVars => [ServerNext]_serverVars
    <2>1. WebhookNext => ServerNext \/ UNCHANGED serverVars
      BY DeliveryIsRequest DEF WebhookNext, ServerNext
    <2>2. UNCHANGED webhookVars => UNCHANGED serverVars
      BY DEF webhookVars
    <2> QED  BY <2>1, <2>2
  <1> QED  BY <1>1, <1>2, PTL DEF WebhookSpec, ServerSpec

----------------------------------------------------------------------------

\* How far a delivery is, what is on the wire, and what became of its job.
Told(r) ==
    /\ heard[r] # "none" => IsDelivery(r)
    /\ IsDelivery(r) =>
        /\ heard[r] = "none" => conn[r] = "new"
        /\ conn[r] \in {"new", "gates"} => sent[r] = "none" /\ job[r] = "none"
        /\ conn[r] \in {"unwind", "finished"} \/ handler[r] = "returned" =>
             sent[r] # "none"
        /\ handler[r] = "running" /\ job[r] \in {"none", "running"} =>
             sent[r] = "none"
        /\ job[r] = "running" => handler[r] = "running"
        /\ job[r] \in {"refused", "done", "failed"} => sent[r] # "none"
        /\ sent[r] = "ok" => job[r] = "done"
        /\ sent[r] = "error" => job[r] # "done"
        /\ heard[r] \in {"ok", "error"} => sent[r] = heard[r]

\* QStash waits for one answer at a time, and for none after a 2xx.
OneAttempt ==
    \A r, q \in Request :
        r # q /\ heard[r] \in {"waiting", "ok"} => heard[q] \notin {"waiting", "ok"}

\* The inductive invariant of the deliveries, on top of the server's.
DInv == /\ WebhookTypeOK /\ OneAttempt
        /\ \A r \in Request : Told(r)

\* A delivery to which nothing happens, or whose connection is cut off.
LEMMA Undisturbed ==
    ASSUME NEW r \in Request, Told(r), path' = path,
           handler'[r] = handler[r], sent'[r] = sent[r],
           job'[r] = job[r], heard'[r] = heard[r],
           conn'[r] = conn[r] \/ (conn[r] # "new" /\ conn'[r] = "gone")
    PROVE  Told(r)'
  BY DEF Told, IsDelivery

\* A step of one request cuts others off, or leaves them alone.
LEMMA OthersKept ==
    ASSUME IInv, NEW q \in Request, RequestStep(q), NEW r \in Request, r # q
    PROVE  /\ path' = path /\ handler'[r] = handler[r] /\ sent'[r] = sent[r]
           /\ conn'[r] = conn[r] \/ (conn[r] # "new" /\ conn'[r] = "gone")
  <1> USE DEF IInv, TypeOK, Goto, Send
  <1>1. CASE \E p \in Principal \cup {Nobody} : Enter(q, p)
    BY <1>1 DEF Enter, Arrive
  <1>2. CASE Gate(q)
    BY <1>2 DEF Gate, Reject, Dispatch
  <1>3. CASE \E code \in {"ok", "error"} : HandlerWrites(q, code)
    BY <1>3 DEF HandlerWrites
  <1>4. CASE HandlerReturns(q)
    BY <1>4 DEF HandlerReturns
  <1>5. CASE HandlerPanics(q)
    BY <1>5 DEF HandlerPanics
  <1>6. CASE Expire(q) \/ Unwind(q)
    BY <1>6 DEF Expire, Unwind, Join, Log
  <1> QED  BY <1>1, <1>2, <1>3, <1>4, <1>5, <1>6 DEF RequestStep, Progress

\* The process goes on, or ends, and its deliveries with it.
LEMMA ProcessKeepsDeliveries ==
    ASSUME SInv, DInv, Process, UNCHANGED deliveryVars
    PROVE  DInv'
  <1>1. /\ path' = path /\ handler' = handler /\ sent' = sent
        /\ \A r \in Request : \/ conn'[r] = conn[r]
                              \/ conn[r] # "new" /\ conn'[r] = "gone"
    <2>1. CASE Startup
      <3>1. Build => UNCHANGED vars
        BY BuildingOn
      <3>2. BuildFails => UNCHANGED vars
        BY DEF BuildFails
      <3>3. UNCHANGED vars
        BY <2>1, <3>1, <3>2 DEF Startup, LoadConfig, LoadFails, Start
      <3> QED  BY <3>3 DEF vars
    <2>2. CASE Exit \/ Signal
      BY <2>2 DEF Exit, Signal, CutOff, vars
    <2>3. CASE Stop /\ ~ Exit
      BY <2>3 DEF Stop, SelectSignal, SelectError, Shutdown, Drain, Close, vars
    <2>4. CASE Listen \/ ListenFails \/ WorkersEnd \/ Report
      BY <2>4 DEF Listen, ListenFails, WorkersEnd, Report, vars
    <2> QED  BY <2>1, <2>2, <2>3, <2>4 DEF Process
  <1>2. WebhookTypeOK' /\ OneAttempt'
    BY <1>1 DEF DInv, WebhookTypeOK, OneAttempt, deliveryVars, IsDelivery
  <1>3. ASSUME NEW r \in Request
        PROVE  Told(r)'
    BY <1>1, Undisturbed DEF DInv, deliveryVars
  <1> QED  BY <1>2, <1>3 DEF DInv

\* Other requests do not matter to a delivery, but for a panic.
LEMMA OthersKeepDeliveries ==
    ASSUME SInv, DInv, NEW q \in Request, ~ IsDelivery(q), RequestStep(q),
           UNCHANGED deliveryVars
    PROVE  DInv'
  <1>1. path' = path
    BY DEF RequestStep, Enter, Arrive, Progress, Gate, Reject, Dispatch,
           HandlerWrites, HandlerReturns, HandlerPanics, Expire, Unwind, Join, Log
  <1>2. WebhookTypeOK' /\ OneAttempt'
    BY <1>1 DEF DInv, WebhookTypeOK, OneAttempt, deliveryVars, IsDelivery
  <1>3. ASSUME NEW r \in Request
        PROVE  Told(r)'
    <2>1. CASE r = q
      BY <1>1, <2>1 DEF DInv, Told, IsDelivery, deliveryVars
    <2>2. CASE r # q
      BY <2>2, OthersKept, Undisturbed DEF SInv, DInv, deliveryVars
    <2> QED  BY <2>1, <2>2
  <1> QED  BY <1>2, <1>3 DEF DInv

\* A delivery's own steps.
LEMMA DeliveryPreserves ==
    ASSUME SInv, DInv, NEW q \in Request, IsDelivery(q), DeliveryStep(q)
    PROVE  DInv'
  <1>1. /\ path' = path
        /\ \A r \in Request \ {q} : job'[r] = job[r] /\ heard'[r] = heard[r]
    BY DEF DInv, WebhookTypeOK, DeliveryStep, Deliver, Enter, Arrive, Gate,
           Reject, Dispatch, Unwind, Join, Log, RefuseDelivery, DispatchJob,
           JobEnds, Finish, HandlerReturns, DeliveryPanics, HandlerPanics, Hear,
           HearNothing, Put, vars, serverVars, deliveryVars
  <1>2. ASSUME NEW r \in Request, r # q
        PROVE  Told(r)'
    <2>1. CASE RequestStep(q)
      BY <1>1, <1>2, <2>1, OthersKept, Undisturbed DEF SInv, DInv
    <2>2. CASE UNCHANGED serverVars
      BY <1>1, <1>2, <2>2, Undisturbed DEF DInv, serverVars, vars
    <2> QED  BY <2>1, <2>2, DeliveryIsRequest
  <1>3. /\ Told(q) /\ IInv /\ WebhookTypeOK
        /\ conn \in [Request -> Conn] /\ handler \in [Request -> Doing]
        /\ sent \in [Request -> Code]
        /\ conn[q] \in {"new", "gates"} => handler[q] = "none"
    BY DEF DInv, SInv, IInv, TypeOK, Lockstep
  <1> DEFINE Fine == /\ Told(q)'
                     /\ job' \in [Request -> {"none", "refused", "running", "done", "failed"}]
                     /\ heard' \in [Request -> {"none", "waiting", "ok", "error", "nothing"}]
                     /\ job'[q] # "none" => heard'[q] # "none"
                     /\ \/ heard'[q] \in {"waiting", "ok"} => heard[q] \in {"waiting", "ok"}
                        \/ \A r \in Request : heard[r] \notin {"waiting", "ok"}
  <1>4. Fine
    <2> USE <1>1, <1>3 DEF Told, IsDelivery, Goto, Send, Put, Conn, Code,
                           WebhookTypeOK
    <2>1. CASE Deliver(q)
      BY <2>1 DEF Deliver, Enter, Arrive
    <2>2. CASE Gate(q) /\ UNCHANGED deliveryVars
      <3>1. CASE Reject(q)
        BY <2>2, <3>1 DEF Reject, deliveryVars
      <3>2. CASE Dispatch(q)
        BY <2>2, <3>2 DEF Dispatch, deliveryVars, HasDeadline
      <3> QED  BY <2>2, <3>1, <3>2 DEF Gate
    <2>3. CASE Unwind(q) /\ UNCHANGED deliveryVars
      <3>1. CASE Join(q)
        BY <2>3, <3>1 DEF Join, HandlerDone, deliveryVars
      <3>2. CASE Log(q)
        BY <2>3, <3>2 DEF Log, deliveryVars
      <3> QED  BY <2>3, <3>1, <3>2 DEF Unwind
    <2>4. CASE RefuseDelivery(q)
      BY <2>4 DEF RefuseDelivery
    <2>5. CASE DispatchJob(q)
      BY <2>5 DEF DispatchJob, vars
    <2>6. ASSUME NEW outcome \in {"done", "failed"}, JobEnds(q, outcome)
          PROVE  Fine
      BY <2>6 DEF JobEnds, Verdict
    <2>7. CASE Finish(q)
      BY <2>7 DEF Finish, HandlerReturns, deliveryVars
    <2>8. CASE DeliveryPanics(q)
      <3>1. ~ HasDeadline(path[q])
        BY DEF HasDeadline
      <3> QED  BY <2>8, <3>1 DEF DeliveryPanics, HandlerPanics
    <2>9. CASE Hear(q)
      BY <2>9 DEF Hear, serverVars, vars
    <2>10. CASE HearNothing(q)
      BY <2>10 DEF HearNothing, serverVars, vars
    <2> QED  BY <2>1, <2>2, <2>3, <2>4, <2>5, <2>6, <2>7, <2>8, <2>9, <2>10
             DEF DeliveryStep
  <1>5. WebhookTypeOK'
    BY <1>1, <1>3, <1>4 DEF WebhookTypeOK, IsDelivery
  <1>6. OneAttempt'
    BY <1>1, <1>4 DEF DInv, OneAttempt
  <1> QED  BY <1>2, <1>4, <1>5, <1>6 DEF DInv

\* The initial states satisfy the invariant of the deliveries.
LEMMA InitDInv == WebhookInit => DInv
  BY DEF WebhookInit, ServerInit, Init, DInv, WebhookTypeOK, OneAttempt, Told

\* Every step preserves it.
LEMMA StepDInv == SInv /\ DInv /\ [WebhookNext]_webhookVars => DInv'
  <1> SUFFICES ASSUME SInv, DInv, [WebhookNext]_webhookVars
               PROVE  DInv'
    OBVIOUS
  <1>1. CASE UNCHANGED webhookVars
    BY <1>1 DEF webhookVars, serverVars, vars, deliveryVars, DInv,
                WebhookTypeOK, OneAttempt, Told, IsDelivery
  <1>2. CASE WebhookNext
    BY <1>2, ProcessKeepsDeliveries, OthersKeepDeliveries, DeliveryPreserves
       DEF WebhookNext
  <1> QED  BY <1>1, <1>2

\* The invariant of the deliveries holds throughout.
THEOREM DeliveryInvariance == WebhookSpec => []DInv
  BY InitDInv, StepDInv, WebhookIsServer, ServerInvariance, PTL DEF WebhookSpec

\* Every variable of the deliveries keeps to its type.
THEOREM WebhookTypeCorrect == WebhookSpec => []WebhookTypeOK
  <1>1. DInv => WebhookTypeOK
    BY DEF DInv
  <1> QED  BY <1>1, DeliveryInvariance, PTL

\* What QStash hears is what became of the job.
THEOREM AnswersAreTrue == WebhookSpec => []HeardIsTrue
  <1>1. DInv => HeardIsTrue
    BY DEF DInv, WebhookTypeOK, Told, HeardIsTrue
  <1> QED  BY <1>1, DeliveryInvariance, PTL

\* A job runs again only after an answer was lost, however many deliveries
\* there are.
THEOREM RepeatsAreExcused == WebhookSpec => []RunsAgainForAReason
  <1>1. DInv => RunsAgainForAReason
    BY DEF DInv, WebhookTypeOK, OneAttempt, Told, RunsAgainForAReason
  <1> QED  BY <1>1, DeliveryInvariance, PTL

=============================================================================
