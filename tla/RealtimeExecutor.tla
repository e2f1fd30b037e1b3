--------------------------- MODULE RealtimeExecutor ---------------------------
(***************************************************************************)
(* RealtimeExecutor (backend-cpp/src/runtime/executor.cpp) and the part of *)
(* ApplicationService's constructor that builds one.  Its queue and worker *)
(* are those of Executor.  What it adds is the worker's request for        *)
(* realtime scheduling, and a constructor that starts the worker before it *)
(* initialises the members declared after worker_: realtimeGranted_ and    *)
(* stopping_ (executor.hpp:78-80).  Until then their memory holds anything *)
(* and the worker may already use them; afterwards what it stored is gone. *)
(***************************************************************************)
EXTENDS Executor

\* Threads holds the one worker_.
CONSTANT OsGrants  \* a Boolean: does the OS grant realtime scheduling?

VARIABLES
  built,     \* how far the constructor is
  boot,      \* how far the worker is before its loop
  granted,   \* realtimeGranted_
  detail,    \* realtimeDetail_ is not empty
  host       \* the service that requires the grant

startVars == <<built, boot, granted, detail, host>>
rtVars == <<execVars, startVars>>

RealtimeTypeOK ==
  /\ TypeOK
  /\ built \in {"spawning", "worker", "granted", "all"}
  /\ boot \in {"unborn", "starting", "granting", "looping"}
  /\ granted \in BOOLEAN
  /\ detail \in BOOLEAN
  /\ host \in {"building", "serving", "refused", "timedOut"}

\* Fresh memory: the two members have no value yet.
RealtimeInit ==
  /\ queue = <<>>
  /\ stopping \in BOOLEAN
  /\ call = [k \in Tasks |-> "none"]
  /\ at = [t \in Threads |-> "polling"]
  /\ job = [t \in Threads |-> NoTask]
  /\ stopper = "idle"
  /\ ended = {}
  /\ built = "spawning"
  /\ boot = "unborn"
  /\ granted \in BOOLEAN
  /\ detail = FALSE
  /\ host = "building"

\* The constructor, member by member: worker_, realtimeGranted_, stopping_.
SpawnWorker ==
  /\ built = "spawning"
  /\ built' = "worker" /\ boot' = "starting"
  /\ UNCHANGED <<execVars, granted, detail, host>>

InitGranted ==
  /\ built = "worker"
  /\ built' = "granted" /\ granted' = FALSE
  /\ UNCHANGED <<execVars, boot, detail, host>>

InitStopping ==
  /\ built = "granted"
  /\ built' = "all" /\ stopping' = FALSE
  /\ UNCHANGED <<queue, call, at, job, stopper, ended, boot, granted, detail, host>>

\* loop: the worker asks the OsAdapter, stores the grant, publishes the detail.
StoreGrant ==
  /\ boot = "starting"
  /\ boot' = "granting" /\ granted' = OsGrants
  /\ UNCHANGED <<execVars, built, detail, host>>

PublishDetail ==
  /\ boot = "granting"
  /\ boot' = "looping" /\ detail' = TRUE
  /\ UNCHANGED <<execVars, built, granted, host>>

\* ApplicationService waits for the detail, for 100 ms at most, and then throws
\* unless the grant is there.
RequireGrant ==
  /\ built = "all" /\ host = "building"
  /\ host' = IF granted THEN "serving" ELSE IF detail THEN "refused" ELSE "timedOut"
  /\ UNCHANGED <<execVars, built, boot, granted, detail>>

\* The executor itself: its loop, its callers, and its destructor.
Loop == \E t \in Threads : Poll(t) \/ WakeSpuriously(t) \/ Finish(t)
Calls == \E k \in Tasks : Submit(k) \/ Notify(k)
Destroy == Shutdown \/ NotifyAll \/ Join

RealtimeNext ==
  \/ SpawnWorker \/ InitGranted \/ InitStopping
  \/ StoreGrant \/ PublishDetail
  \/ RequireGrant
  \/ boot = "looping" /\ Loop /\ UNCHANGED startVars
  \/ host = "serving" /\ Calls /\ UNCHANGED startVars
  \/ host # "building" /\ Destroy /\ UNCHANGED startVars

RealtimeSpec == RealtimeInit /\ [][RealtimeNext]_rtVars

-------------------------------------------------------------------------------
\* "Realtime scheduling is required but was not granted" (application.cpp:111):
\* a backend that heard from its worker refuses to start only when the OS did
\* not grant realtime scheduling.
RefusalMeansNoGrant == host = "refused" => ~OsGrants
===============================================================================
