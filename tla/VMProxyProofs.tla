--------------------------- MODULE VMProxyProofs ----------------------------
(***************************************************************************)
(* Proofs about the VM proxy, for any number of concurrent requests, of    *)
(* shutdowns and of restarts of the application.                           *)
(***************************************************************************)
EXTENDS VMProxy, TLAPS

(* How many boots there can have been: one for each shutdown before the    *)
(* one that is going on, if any.  It bounds the boot numbers, and so the   *)
(* addresses, that the types speak of.                                     *)
Up == {"pending", "running"}

BootInv ==
  /\ inst \in Up => boot <= 1 + shutdowns
  /\ inst \in Status \ Up => boot <= shutdowns

Inv == TypeOK /\ BootInv

-----------------------------------------------------------------------------
(* The number of checks grows no further than the sleep does.              *)
LEMMA CountBounded ==
  ASSUME NEW n \in 1..(MaxSleep + 1)
  PROVE  NextCount(n) \in 1..(MaxSleep + 1)
<1>1. n \in Nat /\ Backoff \in Nat \ {0} /\ MaxSleep \in Nat
  BY VMAssumption
<1>2. n <= n * Backoff
  BY <1>1
<1>3. n * Backoff \in Nat
  BY <1>1
<1> QED
  BY <1>1, <1>2, <1>3 DEF NextCount

LEMMA NatIPTyped ==
  ASSUME TypeOK, NEW a \in NatIP
  PROVE  a \in Ip
<1>1. NoIP \in Ip /\ boot \in Ip
  BY VMAssumption DEF TypeOK, NoIP, Ip
<1> QED
  BY <1>1 DEF NatIP, TypeOK

LEMMA GotoTyped ==
  ASSUME TypeOK, NEW r \in Request, NEW pc \in Pc, Goto(r, pc)
  PROVE  req' \in [Request -> ReqState]
<1>1. req[r] \in ReqState
  BY DEF TypeOK
<1>2. [req[r] EXCEPT !.pc = pc] \in ReqState
  BY <1>1 DEF ReqState
<1> QED
  BY <1>2 DEF Goto, TypeOK

LEMMA FetchedTyped ==
  ASSUME TypeOK, NEW r \in Request, NEW pc \in Pc, Fetched(r, pc)
  PROVE  req' \in [Request -> ReqState]
<1>1. PICK a \in NatIP :
        req' = [req EXCEPT ![r].pc = pc, ![r].up = (inst = "running"), ![r].got = a]
  BY DEF Fetched
<1>2. req[r] \in ReqState /\ a \in Ip
  BY NatIPTyped DEF TypeOK
<1>3. (inst = "running") \in BOOLEAN
  OBVIOUS
<1>4. [req[r] EXCEPT !.pc = pc, !.up = (inst = "running"), !.got = a] \in ReqState
  BY <1>2, <1>3 DEF ReqState
<1> QED
  BY <1>1, <1>4 DEF TypeOK

-----------------------------------------------------------------------------
(* Compute Engine: each action that takes the instance down is counted.    *)
LEMMA InstanceStep ==
  ASSUME Inv,
         \/ BootEnds \/ StopEnds \/ BecomeHealthy
         \/ BootFails \/ StopVM \/ DeleteVM
  PROVE  Inv'
<1>1. shutdowns \in Nat /\ boot \in Nat
  BY VMAssumption DEF Inv, TypeOK, Ip
<1>2. inst' \in Status /\ healthy' \in BOOLEAN
  BY DEF Inv, TypeOK, Status, BootEnds, StopEnds, BecomeHealthy, BootFails, StopVM,
         DeleteVM, Shutdown
<1>2a. shutdowns' \in 0..MaxShutdowns
  <2>1. shutdowns' = shutdowns \/ (shutdowns < MaxShutdowns /\ shutdowns' = shutdowns + 1)
    BY DEF BootEnds, StopEnds, BecomeHealthy, BootFails, StopVM, DeleteVM, Shutdown,
           bounds
  <2> QED
    BY <2>1, VMAssumption DEF Inv, TypeOK
<1>3. UNCHANGED <<boot, ip, isRunning, req, calm, restarts>>
  BY DEF BootEnds, StopEnds, BecomeHealthy, BootFails, StopVM, DeleteVM, Shutdown,
         bounds, cache
<1>4. TypeOK'
  BY <1>2, <1>2a, <1>3 DEF Inv, TypeOK
<1>5. BootInv'
  BY <1>1, <1>3
  DEF Inv, TypeOK, BootInv, Up, Status, BootEnds, StopEnds, BecomeHealthy, BootFails,
      StopVM, DeleteVM, Shutdown, bounds
<1> QED
  BY <1>4, <1>5 DEF Inv

LEMMA RestartStep ==
  ASSUME Inv, AppRestart
  PROVE  Inv'
<1>1. Idle \in ReqState /\ NoIP \in Ip
  BY VMAssumption DEF Idle, ReqState, Pc, NoIP, Ip
<1>2. req' \in [Request -> ReqState] /\ ip' \in Ip /\ isRunning' \in BOOLEAN
  BY <1>1 DEF AppRestart
<1>3. restarts' \in 0..MaxRestarts
  BY VMAssumption DEF Inv, TypeOK, AppRestart
<1>4. UNCHANGED <<inst, boot, healthy, calm, shutdowns>>
  BY DEF AppRestart, gce
<1> QED
  BY <1>2, <1>3, <1>4 DEF Inv, TypeOK, BootInv

(* The steps of a request change the instance by Launch only, and only     *)
(* when it is down.                                                        *)
KeepsOrLaunches == UNCHANGED gce \/ (inst \in {"none", "terminated"} /\ Launch)

LEMMA NoShutdownStep ==
  ASSUME Inv, KeepsOrLaunches, UNCHANGED bounds,
         req' \in [Request -> ReqState], ip' \in Ip, isRunning' \in BOOLEAN
  PROVE  Inv'
<1>1. shutdowns \in 0..MaxShutdowns /\ boot \in Nat /\ MaxShutdowns \in Nat
  BY VMAssumption DEF Inv, TypeOK, Ip
<1>2. CASE UNCHANGED gce
  BY <1>2 DEF Inv, TypeOK, BootInv, gce, bounds
<1>3. CASE inst \in {"none", "terminated"} /\ Launch
  <2>1. boot <= shutdowns
    BY <1>3 DEF Inv, BootInv, Status, Up
  <2>2. boot' \in Ip /\ boot' <= 1 + shutdowns /\ inst' = "pending" /\ healthy' = FALSE
    BY <1>1, <1>3, <2>1 DEF Launch, Ip
  <2> QED
    BY <2>2 DEF Inv, TypeOK, BootInv, Status, Up, bounds
<1> QED
  BY <1>2, <1>3 DEF KeepsOrLaunches

LEMMA RequestStep ==
  ASSUME Inv, NEW r \in Request,
         Arrive(r) \/ Ask(r) \/ ServeHTTP(r) \/ PublicIP(r) \/ RpcFails(r) \/ Leave(r)
  PROVE  Inv'
<1>1. TypeOK /\ req[r] \in ReqState
  BY DEF Inv, TypeOK
<1> USE DEF Pc, cache
<1>2. UNCHANGED bounds
  BY DEF Arrive, ServeHTTP, RpcFails, Leave, Check, Probe, CacheRunning, CacheIP, Test,
         Get, Insert, Poll, Relaunch, SetIP, HealthURL, HealthOK, HealthFails, Forward, Ask, PublicIP,
         FetchIP, StoreIP
<1>3. KeepsOrLaunches
  BY DEF KeepsOrLaunches, Arrive, ServeHTTP, RpcFails, Leave, Check, Probe, CacheRunning, CacheIP,
         Test, Get, Insert, Poll, Relaunch, SetIP, HealthURL, HealthOK, HealthFails,
         Forward, Ask, PublicIP, FetchIP, StoreIP
<1>4. ip' \in Ip /\ isRunning' \in BOOLEAN
  <2>1. ip \in Ip /\ isRunning \in BOOLEAN /\ req[r].up \in BOOLEAN /\ req[r].got \in Ip
    BY <1>1 DEF TypeOK, ReqState
  <2> QED
    BY <2>1
    DEF Arrive, ServeHTTP, RpcFails, Leave, Check, Probe, CacheRunning, CacheIP, Test,
        Get, Insert, Poll, Relaunch, SetIP, HealthURL, HealthOK, HealthFails, Forward, Ask, PublicIP,
         FetchIP, StoreIP
<1>5. req' \in [Request -> ReqState]
  <2>1. CASE \E pc \in Pc : Goto(r, pc)
    BY <1>1, <2>1, GotoTyped
  <2>2. CASE \E pc \in Pc : Fetched(r, pc)
    BY <1>1, <2>2, FetchedTyped
  <2>3. CASE Leave(r)
    <3>1. Idle \in ReqState
      BY VMAssumption DEF Idle, ReqState, NoIP, Ip
    <3> QED
      BY <1>1, <2>3, <3>1 DEF Leave, TypeOK
  <2>4. CASE HealthURL(r)
    <3>2. 1 \in 1..(MaxSleep + 1) /\ ip \in Ip
      BY <1>1, VMAssumption DEF TypeOK
    <3>1. [req[r] EXCEPT !.pc = "health", !.target = ip, !.count = 1] \in ReqState
      BY <1>1, <3>2 DEF ReqState
    <3> QED
      BY <1>1, <2>4, <3>1 DEF HealthURL, TypeOK
  <2>5. CASE HealthFails(r)
    <3> DEFINE n == NextCount(req[r].count)
               p == IF TimedOut(n) THEN "error" ELSE "health"
    <3>1. n \in 1..(MaxSleep + 1)
      BY <1>1, CountBounded DEF ReqState
    <3>2. p \in Pc
      OBVIOUS
    <3> HIDE DEF n, p
    <3>3. [req[r] EXCEPT !.count = n, !.pc = p] \in ReqState
      BY <1>1, <3>1, <3>2 DEF ReqState
    <3>4. req' = [req EXCEPT ![r] = [req[r] EXCEPT !.count = n, !.pc = p]]
      BY <1>1, <2>5 DEF HealthFails, n, p, TypeOK
    <3> QED
      BY <1>1, <3>3, <3>4 DEF TypeOK
  <2>6. CASE req' = req
    BY <1>1, <2>6 DEF TypeOK
  <2>7. CASE RpcFails(r)
    <3>1. AfterError(req[r].pc) \in Pc /\ Goto(r, AfterError(req[r].pc))
      BY <2>7 DEF RpcFails, AfterError
    <3> QED
      BY <2>1, <3>1
  <2>8. CASE Ask(r) \/ Arrive(r) \/ Check(r) \/ CacheRunning(r) \/ CacheIP(r) \/ Test(r) \/ Get(r)
    <3>1. \E pc \in Pc : Goto(r, pc)
      BY <2>8 DEF Ask, Arrive, Check, CacheRunning, CacheIP, Test, Get
    <3> QED
      BY <2>1, <3>1
  <2>9. CASE StoreIP(r) \/ Insert(r) \/ Relaunch(r) \/ SetIP(r) \/ HealthOK(r) \/ Forward(r)
    <3>1. \E pc \in Pc : Goto(r, pc)
      BY <2>9 DEF StoreIP, Insert, Relaunch, SetIP, HealthOK, Forward
    <3> QED
      BY <2>1, <3>1
  <2>10. CASE FetchIP(r) \/ Probe(r) \/ Poll(r)
    BY <2>1, <2>2, <2>6, <2>10 DEF FetchIP, Probe, Poll
  <2> QED
    BY <2>3, <2>4, <2>5, <2>7, <2>8, <2>9, <2>10 DEF ServeHTTP, PublicIP
<1> QED
  BY <1>2, <1>3, <1>4, <1>5, NoShutdownStep

LEMMA InvInit == Init => Inv
<1> SUFFICES ASSUME Init PROVE Inv
  OBVIOUS
<1>1. Idle \in ReqState /\ {0, 1} \subseteq Ip
  BY VMAssumption DEF Idle, ReqState, Pc, NoIP, Ip
<1>2. inst \in Status /\ boot \in {0, 1} /\ healthy \in BOOLEAN
  BY DEF Init, Status
<1>3. shutdowns \in 0..MaxShutdowns /\ restarts \in 0..MaxRestarts /\ req = [r \in Request |-> Idle]
  BY VMAssumption DEF Init
<1>4. BootInv /\ calm \in BOOLEAN
  BY VMAssumption DEF Init, BootInv, Up, Status
<1> QED
  BY <1>1, <1>2, <1>3, <1>4 DEF Init, Inv, TypeOK, NoIP

LEMMA InvStep == Inv /\ [Next]_vars => Inv'
<1> SUFFICES ASSUME Inv, [Next]_vars PROVE Inv'
  OBVIOUS
<1>1. CASE BootEnds \/ StopEnds \/ BecomeHealthy \/ BootFails \/ StopVM \/ DeleteVM
  BY <1>1, InstanceStep
<1>2. CASE AppRestart
  BY <1>2, RestartStep
<1>3. CASE \E r \in Request : Arrive(r) \/ Ask(r) \/ ServeHTTP(r) \/ PublicIP(r) \/ RpcFails(r) \/ Leave(r)
  BY <1>3, RequestStep
<1>4. CASE UNCHANGED vars
  BY <1>4 DEF vars, gce, cache, bounds, Inv, TypeOK, BootInv
<1> QED
  BY <1>1, <1>2, <1>3, <1>4 DEF Next

(* The fields of the VM and the local variables of its requests keep their *)
(* types, and no address is made up.                                       *)
THEOREM ProxyTypeCorrect == Spec => []TypeOK
<1>1. Inv => TypeOK
  BY DEF Inv
<1> QED
  BY <1>1, InvInit, InvStep, PTL DEF Spec

(* However many requests, restarts and failing calls there are, the        *)
(* instance is booted once, and once more for each time it went away.      *)
THEOREM BootsAreCounted == Spec => []BootedOncePerShutdown
<1>1. Inv => BootedOncePerShutdown
  <2> SUFFICES ASSUME Inv PROVE boot <= 1 + shutdowns
    BY DEF BootedOncePerShutdown
  <2>1. inst \in Status /\ boot \in Nat /\ shutdowns \in Nat
    BY VMAssumption DEF Inv, TypeOK, Ip
  <2> QED
    BY <2>1 DEF Inv, BootInv
<1> QED
  BY <1>1, InvInit, InvStep, PTL DEF Spec

-----------------------------------------------------------------------------
(***************************************************************************)
(* Calm runs: calls come one at a time, none fails, and nothing stops the  *)
(* instance.  It then only goes from down to pending to running, and what  *)
(* was read from it as running still is when it is cached.                 *)
(***************************************************************************)
Where(r) == req[r].pc

OneAtATime == \A r, s \in Request : r # s => At(r, "idle") \/ At(s, "idle")

OnlyUp ==
  /\ inst \in {"none", "terminated"} \cup Up
  /\ boot = IF inst \in Up THEN 1 ELSE 0

CalmCache ==
  isRunning =>
    /\ inst = "running"
    /\ ip = boot \/ \E r \in Request : At(r, "cacheIP")

NotCached == {"probe", "cacheRunning", "get", "insert", "poll", "relaunch", "setIP",
              "url", "health", "askIP", "storeIP"}

CalmRequest(r) ==
  /\ ~At(r, "error")
  /\ Where(r) \in NotCached => ~isRunning
  /\ Where(r) \in {"cacheRunning", "cacheIP"} /\ req[r].up =>
       inst = "running" /\ req[r].got = boot
  /\ At(r, "cacheIP") /\ isRunning => req[r].up
  /\ At(r, "insert") => inst = "none"
  /\ At(r, "relaunch") => inst = "terminated"
  /\ At(r, "poll") => inst # "none"

CalmInv ==
  calm => /\ OneAtATime
          /\ OnlyUp
          /\ CalmCache
          /\ \A r \in Request : CalmRequest(r)

(* What CalmInv says when r is the only request.                           *)
Lone(r) == \A s \in Request : s # r => At(s, "idle")

CalmState(r) ==
  /\ inst \in {"none", "terminated"} \cup Up
  /\ boot = IF inst \in Up THEN 1 ELSE 0
  /\ isRunning => inst = "running" /\ (ip = boot \/ At(r, "cacheIP"))
  /\ CalmRequest(r)

LEMMA StateOfLone ==
  ASSUME NEW r \in Request, Lone(r), calm, CalmInv
  PROVE  CalmState(r)
BY DEF Lone, CalmState, CalmInv, OnlyUp, CalmCache, Where, At

(* The steps of the only request keep that.                                *)
(* r goes on to pc, and nothing else is changed in req.                    *)
Moved(r, pc) ==
  /\ req'[r].pc = pc /\ req'[r].up = req[r].up /\ req'[r].got = req[r].got
  /\ \A s \in Request \ {r} : req'[s] = req[s]

LEMMA GotoMoves ==
  ASSUME TypeOK, NEW r \in Request, NEW pc, Goto(r, pc)
  PROVE  Moved(r, pc)
<1>1. req \in [Request -> ReqState]
  BY DEF TypeOK
<1> QED
  BY <1>1 DEF Goto, ReqState, Moved

LEMMA CalmGoto ==
  ASSUME TypeOK, calm, NEW r \in Request, CalmState(r),
         \/ Arrive(r) \/ Ask(r) \/ Check(r) \/ CacheRunning(r) \/ CacheIP(r)
         \/ Test(r) \/ Get(r) \/ SetIP(r) \/ HealthOK(r) \/ Forward(r) \/ StoreIP(r)
  PROVE  CalmState(r)' /\ \A s \in Request \ {r} : req'[s] = req[s]
<1> USE DEF Where, At, CalmState, CalmRequest, NotCached, Up, Serves, gce, cache
<1>1. CASE Arrive(r)
  <2>1. Moved(r, "check")
    BY <1>1, GotoMoves DEF Arrive
  <2> QED
    BY <1>1, <2>1 DEF Arrive, Moved, MayArrive
<1>2. CASE Ask(r)
  <2>1. Moved(r, "askIP")
    BY <1>2, GotoMoves DEF Ask
  <2> QED
    BY <1>2, <2>1 DEF Ask, Moved, MayArrive, NoIP
<1>3. CASE Check(r)
  <2>1. Moved(r, IF isRunning THEN "test" ELSE "probe")
    BY <1>3, GotoMoves DEF Check
  <2> QED
    BY <1>3, <2>1 DEF Check, Moved
<1>4. CASE CacheRunning(r)
  <2>1. Moved(r, "cacheIP")
    BY <1>4, GotoMoves DEF CacheRunning
  <2> QED
    BY <1>4, <2>1 DEF CacheRunning, Moved
<1>5. CASE CacheIP(r)
  <2>1. Moved(r, "test")
    BY <1>5, GotoMoves DEF CacheIP
  <2> QED
    BY <1>5, <2>1 DEF CacheIP, Moved
<1>6. CASE Test(r)
  <2>1. Moved(r, IF isRunning THEN "forward" ELSE "get")
    BY <1>6, GotoMoves DEF Test
  <2> QED
    BY <1>6, <2>1 DEF Test, Moved
<1>7. CASE Get(r)
  <2>1. Moved(r, IF inst # "none" THEN "poll" ELSE "insert")
    BY <1>7, GotoMoves DEF Get
  <2> QED
    BY <1>7, <2>1 DEF Get, Moved
<1>8. CASE SetIP(r)
  <2>1. Moved(r, "url")
    BY <1>8, GotoMoves DEF SetIP
  <2> QED
    BY <1>8, <2>1 DEF SetIP, Moved
<1>9. CASE HealthOK(r)
  <2>1. Moved(r, "forward")
    BY <1>9, GotoMoves DEF HealthOK
  <2> QED
    BY <1>9, <2>1 DEF HealthOK, Moved
<1>10. CASE Forward(r)
  <2>1. Moved(r, IF Serves(ip) THEN "served" ELSE "badGateway")
    BY <1>10, GotoMoves DEF Forward
  <2> QED
    BY <1>10, <2>1 DEF Forward, Moved
<1>11. CASE StoreIP(r)
  <2>1. Moved(r, "answered")
    BY <1>11, GotoMoves DEF StoreIP
  <2> QED
    BY <1>11, <2>1 DEF StoreIP, Moved
<1> QED
  BY <1>1, <1>2, <1>3, <1>4, <1>5, <1>6, <1>7, <1>8, <1>9, <1>10, <1>11

(* The same when the answer of Compute Engine is kept.                     *)
FetchMoved(r, pc) ==
  /\ req'[r].pc = pc /\ req'[r].up = (inst = "running") /\ req'[r].got \in NatIP
  /\ \A s \in Request \ {r} : req'[s] = req[s]

LEMMA FetchMoves ==
  ASSUME TypeOK, NEW r \in Request, NEW pc, Fetched(r, pc)
  PROVE  FetchMoved(r, pc)
<1>1. req \in [Request -> ReqState]
  BY DEF TypeOK
<1> QED
  BY <1>1 DEF Fetched, ReqState, FetchMoved

LEMMA CalmFetch ==
  ASSUME TypeOK, calm, NEW r \in Request, CalmState(r),
         Probe(r) \/ Poll(r) \/ FetchIP(r)
  PROVE  CalmState(r)' /\ \A s \in Request \ {r} : req'[s] = req[s]
<1> USE DEF Where, At, CalmState, CalmRequest, NotCached, Up, Serves, gce, cache
<1>1. CASE Probe(r)
  <2>1. CASE inst # "none"
    <3>1. FetchMoved(r, "cacheRunning")
      BY <1>1, <2>1, FetchMoves DEF Probe
    <3> QED
      BY <1>1, <3>1 DEF Probe, FetchMoved, NatIP
  <2>2. CASE inst = "none"
    <3>1. Moved(r, "get")
      BY <1>1, <2>2, GotoMoves DEF Probe
    <3> QED
      BY <1>1, <3>1 DEF Probe, Moved
  <2> QED
    BY <2>1, <2>2
<1>2. CASE Poll(r)
  <2>1. \/ inst = "running" /\ FetchMoved(r, "setIP")
        \/ inst = "terminated" /\ Moved(r, "relaunch")
        \/ inst \in {"pending", "stopping", "deleting"} /\ req' = req
    BY <1>2, GotoMoves, FetchMoves DEF Poll
  <2> QED
    BY <1>2, <2>1 DEF Poll, Moved, FetchMoved, NatIP
<1>3. CASE FetchIP(r)
  <2>1. FetchMoved(r, "storeIP") \/ Moved(r, "answered")
    BY <1>3, GotoMoves, FetchMoves DEF FetchIP
  <2> QED
    BY <1>3, <2>1 DEF FetchIP, Moved, FetchMoved, NatIP
<1> QED
  BY <1>1, <1>2, <1>3

LEMMA CalmLaunch ==
  ASSUME TypeOK, calm, NEW r \in Request, CalmState(r),
         Insert(r) \/ Relaunch(r)
  PROVE  CalmState(r)' /\ \A s \in Request \ {r} : req'[s] = req[s]
<1>1. Launch /\ Goto(r, "poll") /\ UNCHANGED cache /\ inst \in {"none", "terminated"}
           /\ Where(r) \in {"insert", "relaunch"}
  BY DEF Insert, Relaunch, CalmState, CalmRequest, Where, At
<1>2. Moved(r, "poll")
  BY <1>1, GotoMoves
<1> QED
  BY <1>1, <1>2
  DEF Moved, Launch, Where, At, CalmState, CalmRequest, NotCached, Up, Serves, cache

(* The health checks never time out.                                       *)
LEMMA CalmHealth ==
  ASSUME TypeOK, calm, NEW r \in Request, CalmState(r),
         HealthURL(r) \/ HealthFails(r) \/ Leave(r)
  PROVE  CalmState(r)' /\ \A s \in Request \ {r} : req'[s] = req[s]
<1>1. req \in [Request -> ReqState]
  BY DEF TypeOK
<1>2. /\ \A s \in Request \ {r} : req'[s] = req[s]
      /\ UNCHANGED <<gce, cache>>
  BY <1>1 DEF HealthURL, HealthFails, Leave
<1>3. CASE HealthURL(r)
  <2>1. req[r].pc = "url" /\ req'[r].pc = "health"
    BY <1>1, <1>3 DEF HealthURL, ReqState, At
  <2> QED
    BY <1>2, <2>1
    DEF Where, At, CalmState, CalmRequest, NotCached, Up, Serves, gce, cache
<1>4. CASE HealthFails(r)
  <2>1. ~TimedOut(NextCount(req[r].count))
    <3>1. \A x \in Int : Capped(x) <= MaxSleep
      BY VMAssumption DEF Capped
    <3>2. NextCount(req[r].count) * Backoff \in Int
      BY <1>1, CountBounded, VMAssumption DEF ReqState
    <3> QED
      BY <3>1, <3>2, VMAssumption DEF TimedOut, Sleep, Capped
  <2>2. req[r].pc = "health" /\ req'[r].pc = "health"
    BY <1>1, <1>4, <2>1 DEF HealthFails, ReqState, At
  <2> QED
    BY <1>2, <2>2
    DEF Where, At, CalmState, CalmRequest, NotCached, Up, Serves, gce, cache
<1>5. CASE Leave(r)
  <2>1. req'[r].pc = "idle"
    BY <1>1, <1>5 DEF Leave, Idle
  <2> QED
    BY <1>2, <1>5, <2>1
    DEF Leave, Answered, Where, At, CalmState, CalmRequest, NotCached, Up, Serves, gce, cache
<1> QED
  BY <1>2, <1>3, <1>4, <1>5

LEMMA CalmRequestStep ==
  ASSUME Inv, calm, CalmInv, NEW r \in Request,
         Arrive(r) \/ Ask(r) \/ ServeHTTP(r) \/ PublicIP(r) \/ RpcFails(r) \/ Leave(r)
  PROVE  CalmInv'
<1>1. TypeOK
  BY DEF Inv
<1>2. ~RpcFails(r)
  BY DEF RpcFails
<1>3. Lone(r)
  <2>1. CASE Arrive(r) \/ Ask(r)
    BY <2>1 DEF Arrive, Ask, MayArrive, Lone
  <2>2. CASE ~At(r, "idle")
    BY <2>2 DEF CalmInv, OneAtATime, Lone
  <2>3. CASE Leave(r)
    BY <2>2, <2>3 DEF Leave, Answered, At
  <2>4. CASE ServeHTTP(r) \/ PublicIP(r)
    BY <2>2, <2>4
    DEF ServeHTTP, PublicIP, Check, Probe, CacheRunning, CacheIP, Test, Get, Insert,
        Poll, Relaunch, SetIP, HealthURL, HealthOK, HealthFails, Forward, FetchIP, StoreIP,
        At
  <2> QED
    BY <1>2, <2>1, <2>3, <2>4
<1>4. CalmState(r)
  BY <1>3, StateOfLone
<1>5. CalmState(r)' /\ \A s \in Request \ {r} : req'[s] = req[s]
  BY <1>1, <1>2, <1>4, CalmGoto, CalmFetch, CalmLaunch, CalmHealth DEF ServeHTTP, PublicIP
<1>6. Lone(r)'
  BY <1>3, <1>5 DEF Lone, At
<1>7. OneAtATime'
  BY <1>6 DEF Lone, OneAtATime, At
<1>8. OnlyUp' /\ CalmCache'
  BY <1>5 DEF CalmState, OnlyUp, CalmCache, Up, Serves, Where, At
<1>9. \A s \in Request : CalmRequest(s)'
  BY <1>5, <1>6 DEF Lone, CalmState, CalmRequest, NotCached, Where, At
<1> QED
  BY <1>7, <1>8, <1>9 DEF CalmInv

LEMMA CalmInstanceStep ==
  ASSUME Inv, calm, CalmInv,
         \/ BootEnds \/ StopEnds \/ BecomeHealthy
         \/ BootFails \/ StopVM \/ DeleteVM
  PROVE  CalmInv'
<1>1. BootEnds \/ BecomeHealthy
  BY DEF StopEnds, BootFails, StopVM, DeleteVM, Shutdown, CalmInv, OnlyUp, Up
<1>2. UNCHANGED <<boot, ip, isRunning, req>>
  BY <1>1 DEF BootEnds, BecomeHealthy, cache
<1>3. inst \in Up /\ inst' = "running" /\ (healthy => healthy')
  BY <1>1 DEF BootEnds, BecomeHealthy, Up
<1>4. OneAtATime' /\ OnlyUp' /\ CalmCache'
  BY <1>2, <1>3 DEF CalmInv, OneAtATime, OnlyUp, CalmCache, Up, Serves, Where, At
<1>5. \A r \in Request : CalmRequest(r)'
  BY <1>2, <1>3 DEF CalmInv, CalmRequest, NotCached, Up, Serves, Where, At
<1> QED
  BY <1>4, <1>5 DEF CalmInv

LEMMA CalmInit == Init => CalmInv
BY DEF Init, CalmInv, OneAtATime, OnlyUp, Up, CalmCache, CalmRequest, NotCached, Serves, Where,
       At, Idle

LEMMA CalmStep == Inv /\ CalmInv /\ [Next]_vars => CalmInv'
<1> SUFFICES ASSUME Inv, CalmInv, [Next]_vars PROVE CalmInv'
  OBVIOUS
<1>1. calm' = calm
  BY DEF Next, vars, bounds, BootEnds, StopEnds, BecomeHealthy, BootFails, StopVM, DeleteVM, Shutdown,
     AppRestart, Arrive, Ask, ServeHTTP, PublicIP, RpcFails, Leave, Check, Probe, CacheRunning, CacheIP,
     Test, Get, Insert, Poll, Relaunch, SetIP, HealthURL, HealthOK, HealthFails, Forward, FetchIP, StoreIP
<1>2. CASE ~calm
  BY <1>1, <1>2 DEF CalmInv
<1>3. CASE calm /\ UNCHANGED vars
  BY <1>3 DEF vars, gce, cache, bounds, CalmInv, OneAtATime, OnlyUp, CalmCache, CalmRequest,
     Serves, Where, At
<1>4. CASE calm /\ Next
  BY <1>4, CalmRequestStep, CalmInstanceStep DEF Next, AppRestart
<1> QED
  BY <1>2, <1>3, <1>4

(* In a calm run a cached "running" comes with the address of the running  *)
(* instance, whatever PublicIP stored before.                              *)
THEOREM CalmCacheHasAddress == Spec => []CacheHasAddress
<1>1. CalmInv => CacheHasAddress
  BY DEF CalmInv, CalmCache, CacheHasAddress, AddressIsCached
<1> QED
  BY <1>1, InvInit, InvStep, CalmInit, CalmStep, PTL DEF Spec

(* In a calm run no request is answered with an error.                     *)
THEOREM CalmGivesNoError == Spec => []NoErrorUnprovoked
<1>1. CalmInv => NoErrorUnprovoked
  BY DEF CalmInv, CalmRequest, NoErrorUnprovoked
<1> QED
  BY <1>1, InvInit, InvStep, CalmInit, CalmStep, PTL DEF Spec

-----------------------------------------------------------------------------
(* As long as there was no shutdown, what is cached or about to be cached  *)
(* as running is, however old the answer: nothing else takes an instance   *)
(* from that state.                                                        *)
Reports(r) == At(r, "cacheRunning") /\ req[r].up

StaleInv == shutdowns = 0 /\ (isRunning \/ \E r \in Request : Reports(r)) => inst = "running"

(* A step of one request that leaves the instance, if it runs, as it is.   *)
LEMMA StaleRequest ==
  ASSUME Inv, StaleInv, NEW r \in Request, UNCHANGED shutdowns,
         inst = "running" => inst' = "running",
         isRunning' => isRunning \/ Reports(r),
         \A s \in Request \ {r} : req'[s] = req[s],
         Reports(r)' => inst' = "running"
  PROVE  StaleInv'
<1> SUFFICES ASSUME shutdowns = 0, NEW s \in Request, isRunning' \/ Reports(s)'
             PROVE  inst' = "running"
  BY DEF StaleInv
<1>1. CASE isRunning'
  BY <1>1 DEF StaleInv
<1>2. CASE Reports(s)' /\ s # r
  BY <1>2 DEF StaleInv, Reports, At
<1> QED
  BY <1>1, <1>2

LEMMA StaleGoto ==
  ASSUME Inv, StaleInv, NEW r \in Request, NEW pc, pc # "cacheRunning", Goto(r, pc),
         UNCHANGED shutdowns, isRunning' => isRunning \/ Reports(r),
         inst = "running" => inst' = "running"
  PROVE  StaleInv'
<1>1. Moved(r, pc)
  BY GotoMoves DEF Inv
<1>2. ~Reports(r)'
  BY <1>1 DEF Moved, Reports, At
<1> QED
  BY <1>1, <1>2, StaleRequest DEF Moved

LEMMA StaleStep == Inv /\ StaleInv /\ [Next]_vars => StaleInv'
<1> SUFFICES ASSUME Inv, StaleInv, [Next]_vars PROVE StaleInv'
  OBVIOUS
<1> USE DEF gce, cache, bounds
<1>1. CASE BootEnds \/ StopEnds \/ BecomeHealthy
  BY <1>1 DEF BootEnds, StopEnds, BecomeHealthy, StaleInv, Reports, At
<1>2. CASE BootFails \/ StopVM \/ DeleteVM
  <2>1. shutdowns' # 0
    BY <1>2, VMAssumption DEF BootFails, StopVM, DeleteVM, Shutdown, Inv, TypeOK
  <2> QED
    BY <2>1 DEF StaleInv
<1>3. CASE AppRestart
  <2>1. ~isRunning' /\ \A r \in Request : req'[r].pc = "idle"
    BY <1>3 DEF AppRestart, Idle
  <2> QED
    BY <2>1 DEF StaleInv, Reports, At
<1>4. ASSUME NEW r \in Request,
             \/ Arrive(r) \/ Check(r) \/ Test(r) \/ Get(r) \/ Insert(r) \/ Relaunch(r)
             \/ CacheRunning(r) \/ CacheIP(r) \/ SetIP(r) \/ HealthOK(r) \/ Forward(r)
             \/ Ask(r) \/ StoreIP(r) \/ RpcFails(r)
      PROVE  StaleInv'
  <2>1. PICK pc : Goto(r, pc) /\ pc # "cacheRunning"
    BY <1>4
    DEF Arrive, Check, Test, Get, Insert, Relaunch, CacheRunning, CacheIP, SetIP, HealthOK, Forward,
        Ask, StoreIP, RpcFails, AfterError
  <2>2. /\ UNCHANGED shutdowns /\ (inst = "running" => inst' = "running")
        /\ isRunning' => isRunning \/ Reports(r)
    BY <1>4
    DEF Arrive, Check, Test, Get, Insert, Relaunch, CacheRunning, CacheIP, SetIP, HealthOK, Forward,
        Ask, StoreIP, RpcFails, Launch, Reports
  <2> QED
    BY <2>1, <2>2, StaleGoto
<1>5. ASSUME NEW r \in Request, Probe(r) \/ Poll(r) \/ FetchIP(r)
      PROVE  StaleInv'
  <2>1. UNCHANGED <<shutdowns, inst, isRunning>>
    BY <1>5 DEF Probe, Poll, FetchIP
  <2>2. \/ req' = req
        \/ \E pc : Goto(r, pc) /\ pc # "cacheRunning"
        \/ \E pc : Fetched(r, pc)
    BY <1>5 DEF Probe, Poll, FetchIP
  <2>3. CASE req' = req
    BY <2>1, <2>3 DEF StaleInv, Reports, At
  <2>4. CASE \E pc : Goto(r, pc) /\ pc # "cacheRunning"
    BY <2>1, <2>4, StaleGoto
  <2>5. CASE \E pc : Fetched(r, pc)
    <3>1. PICK pc : FetchMoved(r, pc)
      BY <2>5, FetchMoves DEF Inv
    <3>2. Reports(r)' => inst' = "running"
      BY <2>1, <3>1 DEF FetchMoved, Reports
    <3> QED
      BY <2>1, <3>1, <3>2, StaleRequest DEF FetchMoved
  <2> QED
    BY <2>2, <2>3, <2>4, <2>5
<1>6. ASSUME NEW r \in Request, HealthURL(r) \/ HealthFails(r) \/ Leave(r)
      PROVE  StaleInv'
  <2>1. /\ UNCHANGED <<shutdowns, inst, isRunning>>
        /\ \A s \in Request \ {r} : req'[s] = req[s]
        /\ req'[r].pc # "cacheRunning"
    <3>1. req \in [Request -> ReqState] /\ req[r] \in ReqState
      BY DEF Inv, TypeOK
    <3>2. UNCHANGED <<shutdowns, inst, isRunning>>
      BY <1>6 DEF HealthURL, HealthFails, Leave
    <3>3. CASE HealthURL(r)
      BY <3>1, <3>2, <3>3 DEF HealthURL, ReqState
    <3>4. CASE HealthFails(r)
      BY <3>1, <3>2, <3>4 DEF HealthFails, ReqState
    <3>5. CASE Leave(r)
      BY <3>1, <3>2, <3>5 DEF Leave, Idle
    <3> QED
      BY <1>6, <3>3, <3>4, <3>5, <3>2
  <2> QED
    BY <2>1, StaleRequest DEF Reports, At
<1>7. CASE UNCHANGED vars
  BY <1>7 DEF vars, StaleInv, Reports, At
<1> QED
  BY <1>1, <1>2, <1>3, <1>4, <1>5, <1>6, <1>7 DEF Next, ServeHTTP, PublicIP

(* However many requests race, calls fail and processes are replaced, a    *)
(* cached "running" is true until the first shutdown.                      *)
THEOREM CachedRunningGoesStaleByShutdown == Spec => []StaleOnlyByShutdown
<1>1. Init => StaleInv
  BY DEF Init, StaleInv, Reports, At, Idle
<1>2. StaleInv => StaleOnlyByShutdown
  BY DEF StaleInv, StaleOnlyByShutdown
<1> QED
  BY <1>1, <1>2, StaleStep, InvInit, InvStep, PTL DEF Spec

-----------------------------------------------------------------------------
(* Addresses are boot numbers, and no boot is later than the last.  A      *)
(* request has a target from its health checks on; when it passed them,    *)
(* that boot ran and was ready, and only a shutdown ends it.               *)
Unchecked == {"idle", "check", "probe", "cacheRunning", "cacheIP", "test", "get", "insert",
              "poll", "relaunch", "setIP", "url", "askIP", "storeIP", "answered"}

ReadyRequest(r) ==
  /\ req[r].got <= boot /\ req[r].target <= boot
  /\ req[r].pc \in Unchecked => req[r].target = NoIP
  /\ Checked(r) =>
       /\ req[r].target = boot => inst # "pending" /\ (inst = "running" => healthy)
       /\ shutdowns = 0 => inst = "running" /\ req[r].target = boot

ReadyInv == ip <= boot /\ \A r \in Request : ReadyRequest(r)

LEMMA ReadyImplies == Inv /\ ReadyInv => CheckedVMIsReady
<1> SUFFICES ASSUME Inv, ReadyInv, NEW r \in Request, Checked(r)
             PROVE  /\ inst = "running" /\ req[r].target = boot => healthy
                    /\ shutdowns = 0 => Serves(req[r].target) /\ ip \in {NoIP, req[r].target}
  BY DEF CheckedVMIsReady
<1>1. ReadyRequest(r) /\ ip <= boot /\ req[r].target # NoIP
  BY DEF ReadyInv, Checked
<1>3. ip \in Nat /\ boot \in Nat /\ shutdowns \in Nat
  BY VMAssumption DEF Inv, TypeOK, Ip
<1>2. ASSUME shutdowns = 0 PROVE boot <= 1
  <2>1. inst \in Up \/ inst \in Status \ Up
    BY DEF Inv, TypeOK
  <2> QED
    BY <1>2, <1>3, <2>1 DEF Inv, BootInv
<1> QED
  BY <1>1, <1>2, <1>3 DEF ReadyRequest, Serves, NoIP

(* The instance changes by itself. *)
LEMMA ReadyInstance ==
  ASSUME Inv, ReadyInv,
         \/ BootEnds \/ StopEnds \/ BecomeHealthy
         \/ BootFails \/ StopVM \/ DeleteVM
  PROVE  ReadyInv'
<1>1. UNCHANGED <<boot, ip, req>> /\ shutdowns \in Nat
  BY VMAssumption
  DEF BootEnds, StopEnds, BecomeHealthy, BootFails, StopVM, DeleteVM, Shutdown,
      bounds, cache, Inv, TypeOK
<1>2. \/ shutdowns' = shutdowns + 1 /\ inst' # "pending" /\ inst' # "running"
      \/ shutdowns' = shutdowns /\ inst' = inst /\ healthy'
      \/ shutdowns' = shutdowns /\ inst = "pending" /\ inst' = "running"
      \/ shutdowns' = shutdowns /\ inst # "running" /\ inst' \in {"none", "terminated"}
  BY DEF BootEnds, StopEnds, BecomeHealthy, BootFails, StopVM, DeleteVM, Shutdown, bounds
<1> SUFFICES ASSUME NEW r \in Request PROVE ReadyRequest(r)'
  BY <1>1 DEF ReadyInv
<1>3. ReadyRequest(r)
  BY DEF ReadyInv
<1> QED
  BY <1>1, <1>2, <1>3 DEF ReadyRequest, Checked, At

(* A request r moves: what the others know stays true, also when r         *)
(* launches the instance anew.                                             *)
LEMMA ReadyOther ==
  ASSUME Inv, ReadyInv, KeepsOrLaunches, UNCHANGED shutdowns, ip' <= boot',
         NEW r \in Request, \A s \in Request \ {r} : req'[s] = req[s],
         ReadyRequest(r)'
  PROVE  ReadyInv'
<1> SUFFICES ASSUME NEW s \in Request \ {r} PROVE ReadyRequest(s)'
  BY DEF ReadyInv
<1>1. ReadyRequest(s) /\ req'[s] = req[s]
  BY DEF ReadyInv
<1>2. boot \in Nat /\ req[s].got \in Nat /\ req[s].target \in Nat
  BY VMAssumption DEF Inv, TypeOK, ReqState, Ip
<1>3. CASE UNCHANGED gce
  BY <1>1, <1>3 DEF ReadyRequest, Checked, At, gce
<1>4. CASE inst \in {"none", "terminated"} /\ Launch
  BY <1>1, <1>2, <1>4 DEF ReadyRequest, Checked, At, Launch
<1> QED
  BY <1>3, <1>4 DEF KeepsOrLaunches

(* r goes to a place where it has no target yet, or keeps what it had.     *)
LEMMA ReadyGoto ==
  ASSUME Inv, ReadyInv, KeepsOrLaunches, UNCHANGED shutdowns, ip' <= boot',
         NEW r \in Request, NEW pc \in Pc, Goto(r, pc),
         \/ req[r].pc \in Unchecked
         \/ pc \in Pc \ (Unchecked \cup {"forward"})
         \/ pc = "forward" /\ Serves(req[r].target) /\ UNCHANGED gce
  PROVE  ReadyInv'
<1>1. Moved(r, pc) /\ req'[r].target = req[r].target
  <2>1. req \in [Request -> ReqState]
    BY DEF Inv, TypeOK
  <2> QED
    BY <2>1, GotoMoves DEF Inv, Goto, ReqState
<1>2. boot \in Nat /\ req[r].got \in Nat /\ req[r].target \in Nat /\ shutdowns \in Nat
  BY VMAssumption DEF Inv, TypeOK, ReqState, Ip
<1>3. boot' = boot \/ boot' = boot + 1
  BY DEF KeepsOrLaunches, Launch, gce
<1>4. ReadyRequest(r)
  BY DEF ReadyInv
<1>5. ReadyRequest(r)'
  BY <1>1, <1>2, <1>3, <1>4 DEF ReadyRequest, Checked, At, Moved, Serves, Unchecked, gce
<1> QED
  BY <1>1, <1>5, ReadyOther DEF Moved

LEMMA ReadyFetched ==
  ASSUME Inv, ReadyInv, UNCHANGED <<gce, ip, shutdowns>>, NEW r \in Request,
         NEW pc \in Unchecked, req[r].pc \in Unchecked, Fetched(r, pc)
  PROVE  ReadyInv'
<1>1. FetchMoved(r, pc) /\ req'[r].target = req[r].target
  <2>1. req \in [Request -> ReqState]
    BY DEF Inv, TypeOK
  <2>2. FetchMoved(r, pc)
    BY FetchMoves DEF Inv
  <2> QED
    BY <2>1, <2>2 DEF Fetched, ReqState
<1>2. ReadyRequest(r) /\ boot \in Nat
  BY VMAssumption DEF ReadyInv, Inv, TypeOK, Ip
<1>3. \A a \in NatIP : a <= boot
  BY <1>2 DEF NatIP, NoIP, Inv, TypeOK, Status
<1>4. ReadyRequest(r)'
  BY <1>1, <1>2, <1>3 DEF ReadyRequest, FetchMoved, Checked, At, Unchecked, gce
<1> QED
  BY <1>1, <1>4, ReadyOther DEF FetchMoved, KeepsOrLaunches, ReadyInv, gce

LEMMA ReadyRequestStep ==
  ASSUME Inv, ReadyInv, NEW r \in Request,
         Arrive(r) \/ Ask(r) \/ ServeHTTP(r) \/ PublicIP(r) \/ RpcFails(r) \/ Leave(r)
  PROVE  ReadyInv'
<1>1. /\ req \in [Request -> ReqState] /\ req[r] \in ReqState /\ ReadyRequest(r)
      /\ boot \in Nat /\ ip <= boot /\ ip \in Nat /\ req[r].got <= boot
  BY VMAssumption DEF Inv, TypeOK, ReadyInv, ReadyRequest, Ip
<1> USE DEF gce, cache, bounds
<1>2. CASE \/ Arrive(r) \/ Ask(r) \/ Check(r) \/ CacheRunning(r) \/ CacheIP(r) \/ Test(r) \/ Get(r)
           \/ Insert(r) \/ Relaunch(r) \/ SetIP(r) \/ StoreIP(r) \/ RpcFails(r)
  <2>1. PICK pc \in Pc : Goto(r, pc)
    BY <1>2
    DEF Arrive, Ask, Check, CacheRunning, CacheIP, Test, Get, Insert, Relaunch, SetIP, StoreIP,
        RpcFails, AfterError, Pc
  <2>2. req[r].pc \in Unchecked
    BY <1>2
    DEF Arrive, Ask, MayArrive, Check, CacheRunning, CacheIP, Test, Get, Insert, Relaunch,
        SetIP, StoreIP, RpcFails, At, Unchecked
  <2>3. KeepsOrLaunches /\ UNCHANGED shutdowns /\ ip' \in {ip, req[r].got}
    BY <1>2
    DEF KeepsOrLaunches, Arrive, Ask, Check, CacheRunning, CacheIP, Test, Get, Insert, Relaunch,
        SetIP, StoreIP, RpcFails
  <2>4. ip' <= boot'
    <3>1. boot' = boot \/ boot' = boot + 1
      BY <2>3 DEF KeepsOrLaunches, Launch
    <3>2. req[r].got \in Nat
      BY <1>1, VMAssumption DEF ReqState, Ip
    <3> QED
      BY <1>1, <2>3, <3>1, <3>2
  <2> QED
    BY <2>1, <2>2, <2>3, <2>4, ReadyGoto
<1>3. CASE Probe(r) \/ Poll(r) \/ FetchIP(r)
  <2>1. UNCHANGED <<gce, cache, shutdowns>> /\ KeepsOrLaunches /\ ip' <= boot'
    BY <1>1, <1>3 DEF Probe, Poll, FetchIP, KeepsOrLaunches
  <2>2. req[r].pc \in Unchecked
    BY <1>3 DEF Probe, Poll, FetchIP, At, Unchecked
  <2>3. \/ req' = req
        \/ \E pc \in Pc : Goto(r, pc)
        \/ \E pc \in Unchecked : Fetched(r, pc)
    BY <1>3 DEF Probe, Poll, FetchIP, Pc, Unchecked
  <2>4. CASE req' = req
    BY <2>1, <2>4 DEF ReadyInv, ReadyRequest, Checked, At
  <2> QED
    BY <2>1, <2>2, <2>3, <2>4, ReadyGoto, ReadyFetched
<1>4. CASE HealthOK(r) \/ Forward(r)
  <2>1. UNCHANGED <<gce, cache, shutdowns>> /\ KeepsOrLaunches /\ ip' <= boot'
    BY <1>1, <1>4 DEF HealthOK, Forward, KeepsOrLaunches
  <2>2. \/ Goto(r, "forward") /\ Serves(req[r].target)
        \/ \E pc \in {"served", "badGateway"} : Goto(r, pc)
    BY <1>4 DEF HealthOK, Forward
  <2> QED
    BY <2>1, <2>2, ReadyGoto DEF Pc, Unchecked
<1>5. CASE HealthURL(r) \/ HealthFails(r) \/ Leave(r)
  <2>1. UNCHANGED <<gce, cache, shutdowns>> /\ KeepsOrLaunches /\ ip' <= boot'
    BY <1>1, <1>5 DEF HealthURL, HealthFails, Leave, KeepsOrLaunches
  <2>2. \A s \in Request \ {r} : req'[s] = req[s]
    BY <1>1, <1>5 DEF HealthURL, HealthFails, Leave
  <2>3. \/ req'[r].pc = "health" /\ req'[r].got = req[r].got /\ req'[r].target = ip
        \/ /\ req'[r].pc \in {"health", "error"} /\ req'[r].got = req[r].got
           /\ req'[r].target = req[r].target
        \/ req'[r].pc = "idle" /\ req'[r].got = NoIP /\ req'[r].target = NoIP
    <3>1. CASE HealthURL(r)
      BY <1>1, <3>1 DEF HealthURL, ReqState
    <3>2. CASE HealthFails(r)
      BY <1>1, <3>2 DEF HealthFails, ReqState
    <3>3. CASE Leave(r)
      BY <1>1, <3>3 DEF Leave, Idle
    <3> QED
      BY <1>5, <3>1, <3>2, <3>3
  <2>4. ReadyRequest(r)'
    BY <1>1, <2>1, <2>3 DEF ReadyRequest, Checked, At, Unchecked, NoIP
  <2> QED
    BY <2>1, <2>2, <2>4, ReadyOther
<1> QED
  BY <1>2, <1>3, <1>4, <1>5 DEF ServeHTTP, PublicIP

LEMMA ReadyStep == Inv /\ ReadyInv /\ [Next]_vars => ReadyInv'
<1> SUFFICES ASSUME Inv, ReadyInv, [Next]_vars PROVE ReadyInv'
  OBVIOUS
<1>1. CASE BootEnds \/ StopEnds \/ BecomeHealthy \/ BootFails \/ StopVM \/ DeleteVM
  BY <1>1, ReadyInstance
<1>2. CASE AppRestart
  <2>1. ip' = NoIP /\ boot' = boot /\ boot \in Nat
        /\ \A r \in Request : req'[r] = Idle
    BY <1>2, VMAssumption DEF AppRestart, gce, Inv, TypeOK, Ip
  <2> QED
    BY <2>1 DEF ReadyInv, ReadyRequest, Checked, At, Idle, NoIP
<1>3. CASE \E r \in Request : Arrive(r) \/ Ask(r) \/ ServeHTTP(r) \/ PublicIP(r) \/ RpcFails(r) \/ Leave(r)
  BY <1>3, ReadyRequestStep
<1>4. CASE UNCHANGED vars
  BY <1>4 DEF vars, gce, cache, bounds, ReadyInv, ReadyRequest, Checked, At
<1> QED
  BY <1>1, <1>2, <1>3, <1>4 DEF Next

(* A request that went through the health checks is forwarded to the boot  *)
(* it checked, ready, until a shutdown; only an empty address may come     *)
(* between: for any number of requests, restarts and failing calls.        *)
THEOREM CheckedRequestsMeetReadyVM == Spec => []CheckedVMIsReady
<1>1. Init => ReadyInv
  BY DEF Init, ReadyInv, ReadyRequest, Checked, At, Idle, NoIP
<1> QED
  BY <1>1, ReadyImplies, ReadyStep, InvInit, InvStep, PTL DEF Spec

=============================================================================
