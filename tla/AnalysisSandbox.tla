-------------------------- MODULE AnalysisSandbox --------------------------
(***************************************************************************)
(* The sandbox of Python analyses (analysis_sandbox.py): each run creates  *)
(* a container by the Docker command line, works in it and removes it.     *)
(* Two runs work at once.  Cancellation, timeouts and the shutdown of the  *)
(* host hit at any await, and the daemon may create the container of a     *)
(* command whose caller is gone.  A command that ends by itself has been   *)
(* decided by the daemon; one that is killed may still be carried out.     *)
(***************************************************************************)
EXTENDS Integers, FiniteSets

CONSTANTS
  Runs,      \* runs, each with a container name of its own
  SlotCount  \* runs at work at once (2 in the code)

ASSUME SlotAssumption == SlotCount \in Nat

VARIABLES
  pc,         \* where a run is; "removing" and "listing" also of the shutdown
  outcome,    \* how a run ended, or will end once cleaned up
  create,     \* the command that creates its container
  container,  \* Docker: "none", "requested", "present" or "removed"
  slots,      \* _slots
  names,      \* _containers
  _closed,    \* _closed
  closing,    \* phase of close()
  gathered    \* the runs close() waited for

runVars == <<pc, outcome, create>>
hostVars == <<slots, names, _closed>>
closeVars == <<closing, gathered>>
vars == <<runVars, container, hostVars, closeVars>>

Cleaning == {"awaiting", "removing", "listing"}

Working == {"creating", "started"} \cup Cleaning

Init ==
  /\ pc = [r \in Runs |-> "new"]
  /\ outcome = [r \in Runs |-> "none"]
  /\ create = [r \in Runs |-> "none"]
  /\ container = [r \in Runs |-> "none"]
  /\ slots = SlotCount
  /\ names = {}
  /\ _closed = FALSE
  /\ closing = "no"
  /\ gathered = {}

Move(r, place) == pc' = [pc EXCEPT ![r] = place]

Result(r, value) == outcome' = [outcome EXCEPT ![r] = value]

-----------------------------------------------------------------------------
(* A run. *)

Enter(r) ==
  /\ pc[r] = "new"
  /\ IF _closed THEN Move(r, "ended") /\ Result(r, "failed")
               ELSE Move(r, "queued") /\ UNCHANGED outcome
  /\ UNCHANGED <<create, container, hostVars, closeVars>>

\* Fault: the check before queueing is taken for enough.
AcquireUnchecked(r) ==
  /\ pc[r] = "queued"
  /\ slots > 0
  /\ Move(r, "creating")
  /\ create' = [create EXCEPT ![r] = "running"]
  /\ container' = [container EXCEPT ![r] = "requested"]
  /\ slots' = slots - 1
  /\ names' = names \cup {r}
  /\ UNCHANGED <<outcome, _closed, closeVars>>

\* The slot is acquired; the sandbox may have closed while the run waited.
Acquire(r) ==
  /\ pc[r] = "queued"
  /\ slots > 0
  /\ IF _closed
     THEN /\ Move(r, "ended")
          /\ Result(r, "failed")
          /\ UNCHANGED <<create, container, slots, names>>
     ELSE /\ Move(r, "creating")
          /\ create' = [create EXCEPT ![r] = "running"]
          /\ container' = [container EXCEPT ![r] = "requested"]
          /\ slots' = slots - 1
          /\ names' = names \cup {r}
          /\ UNCHANGED outcome
  /\ UNCHANGED <<_closed, closeVars>>

\* The command is back: the container exists, or there is none.
Created(r) ==
  /\ pc[r] = "creating"
  /\ create[r] \in {"ok", "refused", "unspawned"}
  /\ IF create[r] = "ok" THEN Move(r, "started") /\ UNCHANGED outcome
     ELSE Move(r, "awaiting") /\ Result(r, "failed")
  /\ UNCHANGED <<create, container, hostVars, closeVars>>

\* Start and inspection: a result of the code, or an error.
Worked(r) ==
  /\ pc[r] = "started"
  /\ Move(r, "awaiting")
  /\ Result(r, "answered") \/ Result(r, "failed")
  /\ UNCHANGED <<create, container, hostVars, closeVars>>

\* The time of the run or of its turn is over, or its caller is cancelled.  A run
\* that queues holds nothing; cancellation of a cleanup waits for its end.
Interrupt(r) ==
  /\ \/ pc[r] = "queued" /\ Move(r, "ended")
     \/ pc[r] \in {"creating", "started"} /\ Move(r, "awaiting")
     \/ pc[r] \in Cleaning /\ closing # "sweeping" /\ UNCHANGED pc
  /\ Result(r, "interrupted")
  /\ UNCHANGED <<create, container, hostVars, closeVars>>

-----------------------------------------------------------------------------
(* Docker. *)

Commit(r) ==
  /\ container[r] = "requested"
  /\ create[r] \in {"running", "killed"}
  /\ container' = [container EXCEPT ![r] = "present"]
  /\ UNCHANGED <<runVars, hostVars, closeVars>>

Answer(r) ==
  /\ create[r] = "running"
  /\ container[r] = "present"
  /\ create' = [create EXCEPT ![r] = "ok"]
  /\ UNCHANGED <<pc, outcome, container, hostVars, closeVars>>

\* The daemon refuses, or the command cannot be spawned at all.
Decline(r) ==
  /\ container[r] = "requested"
  /\ create[r] = "running"
  /\ \E answer \in {"refused", "unspawned"} :
       create' = [create EXCEPT ![r] = answer]
  /\ container' = [container EXCEPT ![r] = "none"]
  /\ UNCHANGED <<pc, outcome, hostVars, closeVars>>

\* A killed command whose request the daemon never got.
Lose(r) ==
  /\ container[r] = "requested"
  /\ create[r] = "killed"
  /\ container' = [container EXCEPT ![r] = "none"]
  /\ UNCHANGED <<runVars, hostVars, closeVars>>

-----------------------------------------------------------------------------
(* Cleanup, of a run or of a name that close() finds left.                  *)

\* The run ends; the shutdown goes on with the next name, or stops.
Ended(r, verified) ==
  /\ Move(r, "ended")
  /\ slots' = IF closing = "sweeping" THEN slots ELSE slots + 1
  /\ closing' = IF closing = "sweeping" /\ ~verified THEN "failed" ELSE closing
  /\ UNCHANGED gathered

Verified(r) ==
  /\ Ended(r, TRUE)
  /\ names' = names \ {r}
  /\ UNCHANGED <<outcome, create, _closed>>

\* SandboxCleanupError: no further run may start.
Unverified(r) ==
  /\ Ended(r, FALSE)
  /\ Result(r, "cleanup_failed")
  /\ _closed' = TRUE
  /\ UNCHANGED names

\* The command of the cleanup cannot be spawned: OSError is no
\* SandboxCleanupError.
Unspawned(r) ==
  /\ Ended(r, FALSE)
  /\ Result(r, "unspawned")
  /\ UNCHANGED <<create, container, names, _closed>>

\* Fault: cleanup does not wait for a creation under way.
AwaitCreateNot(r) ==
  /\ pc[r] = "awaiting"
  /\ Move(r, "removing")
  /\ UNCHANGED <<outcome, create, container, hostVars, closeVars>>

\* Cleanup waits until the daemon has decided on the creation; a creation that
\* could not be spawned fails the cleanup the same way.
AwaitCreate(r) ==
  /\ pc[r] = "awaiting"
  /\ create[r] # "running"
  /\ IF create[r] = "unspawned" THEN Unspawned(r)
     ELSE /\ Move(r, "removing")
          /\ UNCHANGED <<outcome, create, container, hostVars, closeVars>>

\* docker rm --force
Remove(r) ==
  /\ pc[r] = "removing"
  /\ \/ /\ container[r] = "present"
        /\ container' = [container EXCEPT ![r] = "removed"]
        /\ Verified(r)
     \/ /\ Move(r, "listing")
        /\ UNCHANGED <<outcome, create, container, hostVars, closeVars>>

\* docker container ls: only a list without the container is good.
List(r) ==
  /\ pc[r] = "listing"
  /\ \/ container[r] # "present" /\ Verified(r)
     \/ Unverified(r) /\ UNCHANGED create
  /\ UNCHANGED container

\* Fault: the ten seconds start once the creation is decided.
CleanupTimeoutLate(r) ==
  /\ pc[r] \in {"removing", "listing"}
  /\ Unverified(r)
  /\ UNCHANGED <<create, container>>

\* Ten seconds are over: a creation under way is killed, a removal may have
\* been carried out or not.
CleanupTimeout(r) ==
  /\ pc[r] \in Cleaning
  /\ Unverified(r)
  /\ create' = [create EXCEPT ![r] = IF @ = "running" THEN "killed" ELSE @]
  /\ \/ UNCHANGED container
     \/ /\ pc[r] = "removing" /\ container[r] = "present"
        /\ container' = [container EXCEPT ![r] = "removed"]

SpawnFails(r) == pc[r] \in {"removing", "listing"} /\ Unspawned(r)

-----------------------------------------------------------------------------
(* Shutdown. *)

\* The runs in progress are cancelled, those in cleanup after it.
Close ==
  /\ closing = "no"
  /\ closing' = "gathering"
  /\ _closed' = TRUE
  /\ gathered' = {r \in Runs : pc[r] \notin {"new", "ended"}}
  /\ pc' = [r \in Runs |->
              CASE pc[r] = "queued" -> "ended"
                [] pc[r] \in {"creating", "started"} -> "awaiting"
                [] OTHER -> pc[r]]
  /\ outcome' = [r \in Runs |-> IF r \in gathered' THEN "interrupted" ELSE outcome[r]]
  /\ UNCHANGED <<create, container, slots, names>>

Sweep ==
  /\ closing = "gathering"
  /\ \A r \in gathered : pc[r] = "ended"
  /\ closing' = "sweeping"
  /\ UNCHANGED <<runVars, container, hostVars, gathered>>

\* The next name that is left.
SweepNext ==
  /\ closing = "sweeping"
  /\ \A r \in names : pc[r] = "ended"
  /\ \E r \in names : Move(r, "removing")
  /\ UNCHANGED <<outcome, create, container, hostVars, closeVars>>

Closed ==
  /\ closing = "sweeping"
  /\ names = {}
  /\ closing' = IF \E r \in gathered : outcome[r] = "cleanup_failed"
                THEN "failed" ELSE "closed"
  /\ UNCHANGED <<runVars, container, hostVars, gathered>>

\* The end of a shutdown.
Rest ==
  /\ closing \in {"closed", "failed"}
  /\ UNCHANGED vars

RunStep(r) ==
  \/ Enter(r) \/ Acquire(r) \/ Created(r) \/ Worked(r)
  \/ AwaitCreate(r) \/ Remove(r) \/ List(r) \/ CleanupTimeout(r) \/ SpawnFails(r)

Next ==
  \/ \E r \in Runs :
       RunStep(r) \/ Interrupt(r) \/ Commit(r) \/ Answer(r) \/ Decline(r) \/ Lose(r)
  \/ Close \/ Sweep \/ SweepNext \/ Closed
  \/ Rest

\* The time limits of a run and of its cleanup are enforced by the event loop,
\* whatever Docker does, and shutdown proceeds once asked for; nothing obliges
\* Docker to answer or the host to be shut down.
Fairness ==
  /\ \A r \in Runs :
       /\ WF_vars(pc[r] # "new" /\ Interrupt(r) /\ pc' # pc)
       /\ WF_vars(CleanupTimeout(r))
  /\ WF_vars(Sweep) /\ WF_vars(SweepNext) /\ WF_vars(Closed)

Spec == Init /\ [][Next]_vars
FairSpec == Spec /\ Fairness

-----------------------------------------------------------------------------
Existing == {r \in Runs : container[r] \in {"requested", "present"}}

\* A container is never forgotten: its name stays with the host until its absence
\* was seen, whatever was cancelled, timed out or failed meanwhile, and a
\* shutdown that succeeds leaves none; only the daemon's late answer to a command
\* the host killed can escape (analysis_sandbox.py:131-135, 255-279, 293-303).
ContainersOwned ==
  \A r \in Existing :
    create[r] # "killed" => r \in names /\ closing # "closed"

\* No more containers than slots, those aside that a failed cleanup left and
\* reported (analysis_sandbox.py:77, 126, 176-185).
TwoAtOnce ==
  Cardinality({r \in Existing : outcome[r] \notin {"cleanup_failed", "unspawned"}})
    <= SlotCount

\* After a cleanup that failed with a SandboxCleanupError no run creates a container,
\* not even one that waited for its slot by then (analysis_sandbox.py:128-129, 180-182).
\* An OSError because docker cannot be spawned (line 203, Unspawned) leaves the sandbox
\* open, although RUNTIME.md:97 promises the same for every unverified cleanup.
FailureStopsWork ==
  [][(\E r \in Runs : outcome[r] = "cleanup_failed") =>
       \A r \in Runs : create[r] = "none" => create'[r] = "none"]_vars

\* Every run ends and gives its slot back and every shutdown ends, even if Docker
\* never answers again (analysis_sandbox.py:119-125, 176-185, 255-303).
RunsEnd ==
  /\ \A r \in Runs : pc[r] \in Working \cup {"queued"} ~> pc[r] = "ended"
  /\ closing = "gathering" ~> closing \in {"closed", "failed"}
=============================================================================
