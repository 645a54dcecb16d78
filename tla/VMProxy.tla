------------------------------ MODULE VMProxy -------------------------------
(***************************************************************************)
(* vmproxy.VM: one Compute Engine instance behind the HTTP handler         *)
(* VM.ServeHTTP.  Requests of one App Engine process, and callers of       *)
(* VM.PublicIP, run concurrently and share the fields vm.ip and            *)
(* vm.isRunning without a lock; the instance lives outside and is stopped  *)
(* by Compute Engine or by VM.Stop.                                        *)
(*                                                                         *)
(* A step of a request ends at each remote call and at each access to a    *)
(* shared field.  A NAT address is named by the number of the boot that    *)
(* got it; NoIP is the empty string.                                       *)
(***************************************************************************)
EXTENDS Integers

CONSTANTS
  Request,       \* requests served, or callers of PublicIP, at the same time
  Calm,          \* values of calm
  RpcMayFail,    \* whether calls of the Compute Engine API may fail
  MaxShutdowns,  \* bound on stops, preemptions, deletions and failed boots
  MaxRestarts,   \* bound on restarts of the App Engine process
  Backoff,       \* seconds of sleep per health check made (3)
  MaxSleep       \* and at most (60)

ASSUME VMAssumption ==
  /\ RpcMayFail \in BOOLEAN /\ Calm \subseteq BOOLEAN
  /\ {MaxShutdowns, MaxRestarts, MaxSleep} \subseteq Nat
  /\ Backoff \in Nat \ {0}

VARIABLES
  inst,       \* status of the instance: see Status
  boot,       \* number of its latest boot, 0 before the first
  healthy,    \* whether it answers on the health path
  ip,         \* vm.ip
  isRunning,  \* vm.isRunning
  req,        \* where each request is, and its local variables
  calm,       \* whether calls come one at a time, none fails, and nothing stops
  shutdowns, restarts

gce    == <<inst, boot, healthy>>
cache  == <<ip, isRunning>>
bounds == <<calm, shutdowns, restarts>>
vars   == <<gce, cache, req, bounds>>

NoIP == 0

(* "pending" stands for PROVISIONING and STAGING. *)
Status == {"none", "pending", "running", "stopping", "deleting", "terminated"}

Pc == {"idle", "check", "probe", "cacheRunning", "cacheIP", "test",
       "get", "insert", "poll", "relaunch", "setIP", "url", "health",
       "forward", "served", "badGateway", "error",
       "askIP", "storeIP", "answered"}

Ip == 0..(MaxShutdowns + 1)

ReqState == [pc : Pc, up : BOOLEAN, got : Ip, target : Ip, count : 1..(MaxSleep + 1)]

TypeOK ==
  /\ inst \in Status
  /\ boot \in Ip
  /\ healthy \in BOOLEAN
  /\ ip \in Ip
  /\ isRunning \in BOOLEAN
  /\ req \in [Request -> ReqState]
  /\ calm \in BOOLEAN
  /\ shutdowns \in 0..MaxShutdowns
  /\ restarts \in 0..MaxRestarts

Idle == [pc |-> "idle", up |-> FALSE, got |-> NoIP, target |-> NoIP, count |-> 1]

(* A process starts with empty fields; an earlier one may have left the    *)
(* instance in any state: booting, up but not ready, on its way down.      *)
Init ==
  /\ calm \in Calm
  /\ \/ inst \in {"none", "terminated"} /\ boot = 0 /\ healthy = FALSE /\ shutdowns = 0
     \/ inst = "pending" /\ boot = 1 /\ healthy = FALSE /\ shutdowns = 0
     \/ inst = "running" /\ boot = 1 /\ healthy \in BOOLEAN /\ shutdowns = 0
     \/ /\ ~calm /\ MaxShutdowns > 0
        /\ inst \in {"stopping", "deleting"} /\ boot = 1 /\ healthy = FALSE /\ shutdowns = 1
  /\ ip = NoIP
  /\ isRunning = FALSE
  /\ req = [r \in Request |-> Idle]
  /\ restarts = 0

-----------------------------------------------------------------------------
(* Compute Engine.  An instance has an address while it is up, and may     *)
(* already have it while it boots.                                         *)
NatIP == CASE inst \in {"running", "stopping", "deleting"} -> {boot}
           [] inst = "pending" -> {NoIP, boot}
           [] OTHER -> {NoIP}

BootEnds ==
  /\ inst = "pending"
  /\ inst' = "running"
  /\ UNCHANGED <<boot, healthy, cache, req, bounds>>

Shutdown ==
  /\ ~calm
  /\ shutdowns < MaxShutdowns
  /\ shutdowns' = shutdowns + 1
  /\ healthy' = FALSE
  /\ UNCHANGED <<boot, cache, req, calm, restarts>>

(* A new instance that cannot be created: the operation ends in an error. *)
BootFails  == inst = "pending" /\ inst' = "none" /\ Shutdown

(* VM.Stop, a preemption, or the instance halting. *)
StopVM     == inst = "running" /\ inst' = "stopping" /\ Shutdown
DeleteVM   == inst \in {"running", "terminated"} /\ inst' = "deleting" /\ Shutdown

StopEnds ==
  /\ inst \in {"stopping", "deleting"}
  /\ inst' = IF inst = "stopping" THEN "terminated" ELSE "none"
  /\ UNCHANGED <<boot, healthy, cache, req, bounds>>

(* The startup script is done and the web server listens. *)
BecomeHealthy ==
  /\ inst = "running"
  /\ ~healthy
  /\ healthy' = TRUE
  /\ UNCHANGED <<inst, boot, cache, req, bounds>>

Serves(address) == inst = "running" /\ healthy /\ address = boot

(* App Engine replaces the process: its requests and its fields are gone. *)
AppRestart ==
  /\ ~calm
  /\ restarts < MaxRestarts
  /\ restarts' = restarts + 1
  /\ ip' = NoIP
  /\ isRunning' = FALSE
  /\ req' = [r \in Request |-> Idle]
  /\ UNCHANGED <<gce, calm, shutdowns>>

-----------------------------------------------------------------------------
At(r, pc) == req[r].pc = pc
Goto(r, pc) == req' = [req EXCEPT ![r].pc = pc]

MayArrive(r) == At(r, "idle") /\ (calm => \A s \in Request : At(s, "idle"))

Arrive(r) ==
  /\ MayArrive(r)
  /\ Goto(r, "check")
  /\ UNCHANGED <<gce, cache, bounds>>

Answered(r) == req[r].pc \in {"served", "badGateway", "error", "answered"}

Leave(r) ==
  /\ Answered(r)
  /\ req' = [req EXCEPT ![r] = Idle]
  /\ UNCHANGED <<gce, cache, bounds>>

(* IsRunning: the cached value is enough when it is TRUE ... *)
Check(r) ==
  /\ At(r, "check")
  /\ Goto(r, IF isRunning THEN "test" ELSE "probe")
  /\ UNCHANGED <<gce, cache, bounds>>

Fetched(r, pc) ==
  \E a \in NatIP :
    req' = [req EXCEPT ![r].pc = pc, ![r].up = (inst = "running"), ![r].got = a]

(* ... else the instance is fetched, and both fields are written. *)
Probe(r) ==
  /\ At(r, "probe")
  /\ IF inst # "none" THEN Fetched(r, "cacheRunning") ELSE Goto(r, "get")
  /\ UNCHANGED <<gce, cache, bounds>>

(* Mutant: an instance that was found is taken for running.                *)
CacheFound(r) ==
  /\ At(r, "cacheRunning")
  /\ isRunning' = TRUE
  /\ Goto(r, "cacheIP")
  /\ UNCHANGED <<gce, ip, bounds>>

CacheRunning(r) ==
  /\ At(r, "cacheRunning")
  /\ isRunning' = req[r].up
  /\ Goto(r, "cacheIP")
  /\ UNCHANGED <<gce, ip, bounds>>

(* Mutant: only the status is cached.                                      *)
CacheIPForgotten(r) ==
  /\ At(r, "cacheIP")
  /\ Goto(r, "test")
  /\ UNCHANGED <<gce, cache, bounds>>

CacheIP(r) ==
  /\ At(r, "cacheIP")
  /\ ip' = req[r].got
  /\ Goto(r, "test")
  /\ UNCHANGED <<gce, isRunning, bounds>>

Test(r) ==
  /\ At(r, "test")
  /\ Goto(r, IF isRunning THEN "forward" ELSE "get")
  /\ UNCHANGED <<gce, cache, bounds>>

-----------------------------------------------------------------------------
(* Mutant: the test of the error is inverted.                              *)
GetInverted(r) ==
  /\ At(r, "get")
  /\ Goto(r, IF inst = "none" THEN "poll" ELSE "insert")
  /\ UNCHANGED <<gce, cache, bounds>>

(* Start. *)
Get(r) ==
  /\ At(r, "get")
  /\ Goto(r, IF inst # "none" THEN "poll" ELSE "insert")
  /\ UNCHANGED <<gce, cache, bounds>>

Launch ==
  /\ inst' = "pending"
  /\ boot' = boot + 1
  /\ healthy' = FALSE

(* Mutant: each insertion makes up a name.                                 *)
InsertUnnamed(r) ==
  /\ At(r, "insert")
  /\ Launch
  /\ Goto(r, "poll")
  /\ UNCHANGED <<cache, bounds>>

(* The name of an instance is unique: inserting it again is an error.      *)
(* Waiting for the operation and its errors are ignored; polling follows.  *)
Insert(r) ==
  /\ At(r, "insert")
  /\ \/ inst = "none" /\ Launch /\ Goto(r, "poll")
     \/ inst # "none" /\ Goto(r, "error") /\ UNCHANGED gce
  /\ UNCHANGED <<cache, bounds>>

(* Mutant: the loop only waits.                                            *)
PollOnly(r) ==
  /\ At(r, "poll")
  /\ \/ inst = "running" /\ Fetched(r, "setIP")
     \/ inst \in {"pending", "stopping", "deleting", "terminated"} /\ UNCHANGED req
     \/ inst = "none" /\ Goto(r, "error")
  /\ UNCHANGED <<gce, cache, bounds>>

(* One turn of the loop that waits for RUNNING. *)
Poll(r) ==
  /\ At(r, "poll")
  /\ \/ inst = "running" /\ Fetched(r, "setIP")
     \/ inst = "terminated" /\ Goto(r, "relaunch")
     \/ inst \in {"pending", "stopping", "deleting"} /\ UNCHANGED req
     \/ inst = "none" /\ Goto(r, "error")
  /\ UNCHANGED <<gce, cache, bounds>>

(* Mutant: a relaunch makes a new instance whatever the state.             *)
RelaunchAnyway(r) ==
  /\ At(r, "relaunch")
  /\ Launch
  /\ Goto(r, "poll")
  /\ UNCHANGED <<cache, bounds>>

(* Instances.Start: no effect on an instance that is up again by now. *)
Relaunch(r) ==
  /\ At(r, "relaunch")
  /\ \/ inst = "terminated" /\ Launch /\ Goto(r, "poll")
     \/ inst \in {"pending", "running"} /\ Goto(r, "poll") /\ UNCHANGED gce
     \/ inst \in {"none", "stopping", "deleting"} /\ Goto(r, "error") /\ UNCHANGED gce
  /\ UNCHANGED <<cache, bounds>>

(* A call of the Compute Engine API fails, with or without its effect.     *)
(* Errors of the first Get read as "no such instance".                     *)
AfterError(pc) == CASE pc = "probe" -> "get"
                    [] pc = "get"   -> "insert"
                    [] OTHER        -> "error"

RpcFails(r) ==
  /\ RpcMayFail /\ ~calm
  /\ req[r].pc \in {"probe", "get", "insert", "poll", "relaunch"}
  /\ Goto(r, AfterError(req[r].pc))
  /\ \/ UNCHANGED gce
     \/ At(r, "insert") /\ inst = "none" /\ Launch
     \/ At(r, "relaunch") /\ inst = "terminated" /\ Launch
  /\ UNCHANGED <<cache, bounds>>

(* Mutant: the address of the new instance is not kept.                    *)
SetIPForgotten(r) ==
  /\ At(r, "setIP")
  /\ Goto(r, "url")
  /\ UNCHANGED <<gce, cache, bounds>>

SetIP(r) ==
  /\ At(r, "setIP")
  /\ ip' = req[r].got
  /\ Goto(r, "url")
  /\ UNCHANGED <<gce, isRunning, bounds>>

(* The URL of the health checks is built once, from the shared field. *)
HealthURL(r) ==
  /\ At(r, "url")
  /\ req' = [req EXCEPT ![r].pc = "health", ![r].target = ip, ![r].count = 1]
  /\ UNCHANGED <<gce, cache, bounds>>

(* Mutant: any answer will do, also one of an instance that is not ready.  *)
HealthAnyAnswer(r) ==
  /\ At(r, "health")
  /\ inst = "running"
  /\ Goto(r, "forward")
  /\ UNCHANGED <<gce, cache, bounds>>

HealthOK(r) ==
  /\ At(r, "health")
  /\ Serves(req[r].target)
  /\ Goto(r, "forward")
  /\ UNCHANGED <<gce, cache, bounds>>

(* The sleep is capped before it is compared with the cap.  count stops    *)
(* growing where the sleep does.                                           *)
Capped(seconds) == IF seconds > MaxSleep THEN MaxSleep ELSE seconds
Sleep(count)    == Capped(count * Backoff)
TimedOut(count) == Sleep(count) > MaxSleep
NextCount(n)    == IF n * Backoff > MaxSleep THEN n ELSE n + 1

HealthFails(r) ==
  /\ At(r, "health")
  /\ ~Serves(req[r].target)
  /\ LET n == NextCount(req[r].count)
     IN req' = [req EXCEPT ![r].count = n,
                           ![r].pc = IF TimedOut(n) THEN "error" ELSE "health"]
  /\ UNCHANGED <<gce, cache, bounds>>

(* The reverse proxy reads vm.ip anew. *)
Forward(r) ==
  /\ At(r, "forward")
  /\ Goto(r, IF Serves(ip) THEN "served" ELSE "badGateway")
  /\ UNCHANGED <<gce, cache, bounds>>

-----------------------------------------------------------------------------
(* PublicIP: a cached address is enough, else the instance is fetched and  *)
(* its address written.  Errors are answered with the empty string.        *)
Ask(r) ==
  /\ MayArrive(r)
  /\ ip = NoIP
  /\ Goto(r, "askIP")
  /\ UNCHANGED <<gce, cache, bounds>>

FetchIP(r) ==
  /\ At(r, "askIP")
  /\ \/ inst # "none" /\ Fetched(r, "storeIP")
     \/ (inst = "none" \/ (RpcMayFail /\ ~calm)) /\ Goto(r, "answered")
  /\ UNCHANGED <<gce, cache, bounds>>

StoreIP(r) ==
  /\ At(r, "storeIP")
  /\ ip' = req[r].got
  /\ Goto(r, "answered")
  /\ UNCHANGED <<gce, isRunning, bounds>>

PublicIP(r) == FetchIP(r) \/ StoreIP(r)

-----------------------------------------------------------------------------
ServeHTTP(r) ==
  \/ Check(r) \/ Probe(r) \/ CacheRunning(r) \/ CacheIP(r) \/ Test(r)
  \/ Get(r) \/ Insert(r) \/ Poll(r) \/ Relaunch(r)
  \/ SetIP(r) \/ HealthURL(r) \/ HealthOK(r) \/ HealthFails(r)
  \/ Forward(r)

Next ==
  \/ BootEnds \/ StopEnds \/ BecomeHealthy
  \/ BootFails \/ StopVM \/ DeleteVM
  \/ AppRestart
  \/ \E r \in Request :
       Arrive(r) \/ Ask(r) \/ ServeHTTP(r) \/ PublicIP(r) \/ RpcFails(r) \/ Leave(r)

(* Requests run on and keep coming, without a failing call being owed;     *)
(* boots and stops come to an end.                                         *)
Running ==
  /\ \A r \in Request : WF_vars(Arrive(r) \/ ServeHTTP(r) \/ PublicIP(r) \/ Leave(r))
  /\ WF_vars(BootEnds)
  /\ WF_vars(StopEnds)

(* The startup script may hang for ever ... *)
Spec == Init /\ [][Next]_vars /\ Running

(* ... but not in a calm run ... *)
CalmSpec == Spec /\ WF_vars(calm /\ BecomeHealthy)

(* ... or never. *)
HealthySpec == Spec /\ WF_vars(BecomeHealthy)

-----------------------------------------------------------------------------
(* However many requests find the instance down at the same moment, it is  *)
(* booted once, and once more for each time it went away.                  *)
BootedOncePerShutdown == boot <= 1 + shutdowns

(* A request that found the instance down or not is handed over, or        *)
(* answered with an error, or goes into the health checks: no boot, stop   *)
(* or failing call around it keeps it in the earlier stages.               *)
Settled == {"health", "forward", "served", "badGateway", "error", "idle"}
ReachesHealthCheck ==
  \A r \in Request : At(r, "check") ~> req[r].pc \in Settled

(* What the health checks of Start are worth to a request that went        *)
(* through them, whoever writes vm.ip meanwhile: the boot it checked is    *)
(* ready for as long as it runs; and until the first shutdown that boot    *)
(* runs, and the proxy, which reads vm.ip anew, may at worst find it wiped *)
(* by an answer of PublicIP from before the address was given.             *)
Checked(r) == At(r, "forward") /\ req[r].target # NoIP
CheckedVMIsReady ==
  \A r \in Request : Checked(r) =>
    /\ inst = "running" /\ req[r].target = boot => healthy
    /\ shutdowns = 0 => Serves(req[r].target) /\ ip \in {NoIP, req[r].target}

(* A cached "running" comes with the address of the running instance.      *)
AddressIsCached ==
  isRunning /\ (\A r \in Request : ~At(r, "cacheIP")) => ip = boot

CacheHasAddress == calm => AddressIsCached

(* The cached "running" goes stale by a shutdown only: not by requests     *)
(* that write answers of different age, failing calls or new processes.    *)
StaleOnlyByShutdown == shutdowns = 0 /\ isRunning => inst = "running"

(* In a calm run each request that finds the instance down, or ready, is   *)
(* served in the end.  One that meets it while it boots may be forwarded   *)
(* too early: ServeHTTP skips the health checks when it is RUNNING.        *)
DownOrReady == inst \in {"none", "terminated"} \/ healthy
GetsServed ==
  \A r \in Request : calm /\ At(r, "check") /\ DownOrReady ~> At(r, "served")

(* "IsRunning returns true if the instance is running": a cached TRUE is   *)
(* given up when the instance is down and requests keep coming.            *)
StoppedVMIsNoticed ==
  isRunning /\ inst = "terminated" ~> ~isRunning \/ inst # "terminated"

(* "Unable to launch VM: startup timed out!": a request whose health       *)
(* checks go on failing is answered in the end.                            *)
StartTimesOut == \A r \in Request : At(r, "health") ~> ~At(r, "health")

(* A request is answered with an error only when a call of the Compute     *)
(* Engine API failed, the instance was stopped, or another request inserts *)
(* the instance at the same time.                                          *)
NoErrorUnprovoked == calm => \A r \in Request : ~At(r, "error")

=============================================================================
