---------------------------- MODULE Evaluations ----------------------------
(***************************************************************************)
(* The local fixture and the evaluation driver (scripts/local_runtime.py,  *)
(* reset_fixture.py, run_tasks.py). A task may reset the fixture only when *)
(* nothing is unknown about the work done on it: the driver recovers every *)
(* session, stops the API it owns, checks the database, resets business    *)
(* data and sessions in two steps, and records each write before it is     *)
(* sent in a marker file that outlives the process. Other clients of the   *)
(* API work on the same sessions, and the driver, the API or all processes *)
(* may die. A person starts the API or the local services only while no    *)
(* driver runs, and removes the marker after looking. The names of the     *)
(* specification have a prefix, because its theorems stand beside those of *)
(* AnalysisSandbox.                                                        *)
(***************************************************************************)
EXTENDS FiniteSets

CONSTANTS
  Merchant,  \* the merchant identity of a task
  Buyers     \* its buyer identities

Actors == Buyers \cup {Merchant}

VARIABLES
  driver,       \* the driver: off, or where it is
  stage,        \* where a write of the driver was sent from
  todo,         \* identities still to recover, or to look at in the end
  unsafe,       \* the failure of the task is unsafe, or unknown
  marker,       \* .run/evaluation-write-inflight.json
  written,      \* history: a write of the driver has no known answer
  host,         \* the API: "off", "owned" by the driver, or "foreign"
  session,      \* sessions of an identity: "none", "seen" or "new"
  running,      \* identities with a session stored as running
  unresolved,   \* identities with a command or prepare intent in doubt
  maintenance,  \* step of the reset or of local_runtime up
  initialized,  \* business data of the fixture exist
  offer,        \* the demo seckill: "none", only in "sql", or "both"
  business,     \* history: business data are "new" since the task began
  records,      \* history: the session database is "new" since then
  java          \* the Java services are up

driverVars == <<driver, stage, todo, unsafe>>
writeVars == <<marker, written>>
dbVars == <<session, running, unresolved>>
fixtureVars == <<initialized, offer, business, records, java>>
evaluationVars == <<driverVars, writeVars, host, dbVars, maintenance, fixtureVars>>

EvaluationInit ==
  /\ driver = "off" /\ stage = "off" /\ todo = {} /\ unsafe = FALSE
  /\ marker = FALSE /\ written = FALSE
  /\ host = "off"
  /\ session = [a \in Actors |-> "none"]
  /\ running = {} /\ unresolved = {}
  /\ maintenance = "idle"
  /\ initialized = FALSE /\ offer = "none"
  /\ business = "old" /\ records = "old"
  /\ java = FALSE

-----------------------------------------------------------------------------
(* local_runtime.py and reset_fixture.py *)

Step(from, to) == maintenance = from /\ maintenance' = to

\* local_runtime up, with the API stopped: Java restarts.
Up ==
  /\ driver = "off" /\ host = "off"
  /\ Step("idle", "offer")
  /\ java' = FALSE
  /\ UNCHANGED <<driverVars, writeVars, host, dbVars, initialized, offer, business, records>>

\* SQL and Redis are not one transaction; half an offer stops the start-up, and
\* a whole one is left as it is.
seed_seckill ==
  /\ \/ offer = "none" /\ Step("offer", "projection") /\ offer' = "sql"
     \/ offer = "sql" /\ Step("offer", "failed") /\ UNCHANGED offer
     \/ offer = "both" /\ Step("offer", "start") /\ UNCHANGED offer
     \/ Step("projection", "start") /\ offer' = "both"
  /\ UNCHANGED <<driverVars, writeVars, host, dbVars, initialized, business, records, java>>

\* Only a fixture that was never written is reset; policies are published again.
UpStarted ==
  /\ Step("start", IF initialized THEN "policies" ELSE "drain")
  /\ java' = TRUE
  /\ UNCHANGED <<driverVars, writeVars, host, dbVars, initialized, offer, business, records>>

\* wait_catalog_drained, stop_java
Drained ==
  /\ Step("drain", "seed")
  /\ java' = FALSE
  /\ UNCHANGED <<driverVars, writeVars, host, dbVars, initialized, offer, business, records>>

seed_business ==
  /\ Step("seed", "records")
  /\ business' = "new" /\ initialized' = TRUE
  /\ UNCHANGED <<driverVars, writeVars, host, dbVars, offer, records, java>>

reset_fixture_sessions ==
  /\ Step("records", "policies")
  /\ records' = "new"
  /\ session' = [a \in Actors |-> "none"]
  /\ running' = {} /\ unresolved' = {}
  /\ UNCHANGED <<driverVars, writeVars, host, initialized, offer, business, java>>

\* The last step of up on a fixture that exists; Java is running then.
publish_policies ==
  /\ Step("policies", IF java THEN "done" ELSE "java")
  /\ UNCHANGED <<driverVars, writeVars, host, dbVars, fixtureVars>>

start_java ==
  /\ Step("java", "done")
  /\ java' = TRUE
  /\ UNCHANGED <<driverVars, writeVars, host, dbVars, initialized, offer, business, records>>

MaintenanceFails ==
  /\ maintenance \notin {"idle", "done", "failed"}
  /\ maintenance' = "failed"
  /\ UNCHANGED <<driverVars, writeVars, host, dbVars, fixtureVars>>

UpEnds ==
  /\ driver = "off"
  /\ Step("done", "idle") \/ Step("failed", "idle")
  /\ UNCHANGED <<driverVars, writeVars, host, dbVars, fixtureVars>>

-----------------------------------------------------------------------------
(* The API and its other clients.                                          *)

\* A start of the API settles the turns a dead process left running.
HostStarts(owner) ==
  /\ host = "off"
  /\ host' = owner
  /\ running' = {}

\* The turns in progress end with the process, stored as ended or still as running
\* until the next start; their commands may stay in doubt.
HostEnds ==
  /\ host' = "off"
  /\ running' \in SUBSET running
  /\ unresolved' \in {unresolved, unresolved \cup running}

StartApi ==
  /\ driver = "off" /\ maintenance = "idle"
  /\ HostStarts("foreign")
  /\ UNCHANGED <<driverVars, writeVars, session, unresolved, maintenance, fixtureVars>>

StopApi ==
  /\ host = "foreign"
  /\ HostEnds
  /\ UNCHANGED <<driverVars, writeVars, session, maintenance, fixtureVars>>

\* The API of the driver dies.
ApiDies ==
  /\ host = "owned"
  /\ HostEnds
  /\ UNCHANGED <<driverVars, writeVars, session, maintenance, fixtureVars>>

NewSession(a) ==
  /\ host # "off"
  /\ session' = [session EXCEPT ![a] = "new"]
  /\ UNCHANGED <<driverVars, writeVars, host, running, unresolved, maintenance, fixtureVars>>

TurnStarts(a) ==
  /\ host # "off"
  /\ session[a] # "none"
  /\ running' = running \cup {a}
  /\ UNCHANGED <<driverVars, writeVars, host, session, unresolved, maintenance, fixtureVars>>

TurnEnds(a) ==
  /\ host # "off"
  /\ a \in running
  /\ running' = running \ {a}
  /\ unresolved' \in {unresolved, unresolved \cup {a}}
  /\ UNCHANGED <<driverVars, writeVars, host, session, maintenance, fixtureVars>>

\* A page or a chat recovers a command or a prepare by its original key.
Recovers(a) ==
  /\ host # "off"
  /\ a \in unresolved
  /\ unresolved' = unresolved \ {a}
  /\ UNCHANGED <<driverVars, writeVars, host, session, running, maintenance, fixtureVars>>

-----------------------------------------------------------------------------
(* The driver. *)

\* A failure leads to the end of the task, which looks at the sessions of its
\* participants once it has made them.
Fail(isUnsafe) ==
  /\ driver' = "finish"
  /\ unsafe' = (unsafe \/ isUnsafe)
  /\ todo' \in CASE stage = "finish" -> {todo \ {Merchant}}
                [] stage = "steps" \/ driver \in {"steps", "chatting"} -> SUBSET Actors \ {{}}
                [] OTHER -> {{}}
  /\ stage' = "off"

\* The lock admits one driver; a marker or a listener on the port stops it, and so
\* does an API that is not ready in time.
StartDriver ==
  /\ driver = "off" /\ maintenance = "idle" /\ ~marker
  /\ HostStarts("owned")
  /\ driver' \in {"ready", "closing"}
  /\ UNCHANGED <<stage, todo, unsafe, writeVars, session, unresolved, maintenance,
                 fixtureVars>>

BeginTask ==
  /\ driver = "ready"
  /\ driver' = "recover"
  /\ todo' = Actors /\ unsafe' = FALSE
  /\ business' = "old" /\ records' = "old"
  /\ UNCHANGED <<stage, writeVars, host, dbVars, maintenance, initialized, offer, java>>

\* The last entry, or the third provider failure in a row.
LastTask ==
  /\ driver = "ready"
  /\ driver' = "closing"
  /\ UNCHANGED <<stage, todo, unsafe, writeVars, host, dbVars, maintenance, fixtureVars>>

\* Evidence.begin_write, exclusively, for the overview that recovers prepares of the
\* merchant, before the reset and in the end, or for a step of the task.
BeginWrite ==
  /\ \/ driver \in {"recover", "finish"} /\ Merchant \in todo /\ Merchant \notin running
     \/ driver = "steps"
  /\ ~marker
  /\ marker' = TRUE
  /\ driver' = "marked" /\ stage' = driver
  /\ UNCHANGED <<todo, unsafe, written, host, dbVars, maintenance, fixtureVars>>

\* The request that the marker names.
SendWrite ==
  /\ driver = "marked"
  /\ written' = TRUE
  /\ driver' = "sent"
  /\ UNCHANGED <<stage, todo, unsafe, marker, host, dbVars, maintenance, fixtureVars>>

Answered ==
  /\ driver = "sent"
  /\ marker' = FALSE /\ written' = FALSE
  /\ driver' = stage /\ stage' = "off"
  /\ IF stage = "steps" THEN UNCHANGED <<todo, session, unresolved>>
     ELSE /\ todo' = todo \ {Merchant}
          /\ unresolved' = unresolved \ {Merchant}
          /\ session' = [session EXCEPT ![Merchant] = IF @ = "none" THEN @ ELSE "seen"]
  /\ UNCHANGED <<unsafe, host, running, maintenance, fixtureVars>>

\* definitive_rejection: the write did not take place.  While recovering and at
\* the end any failure is unsafe.
Rejected ==
  /\ driver = "sent"
  /\ marker' = FALSE /\ written' = FALSE
  /\ Fail(stage # "steps")
  /\ UNCHANGED <<host, dbVars, maintenance, fixtureVars>>

\* Fault: any answer with a status ends the write.
UnansweredFinished ==
  /\ driver = "sent"
  /\ Fail(TRUE)
  /\ marker' = FALSE
  /\ UNCHANGED <<written, host, dbVars, maintenance, fixtureVars>>

\* Transport failure, another status, or an answer that cannot be read.
Unanswered ==
  /\ driver = "sent"
  /\ Fail(TRUE)
  /\ unresolved' \in SUBSET Actors
  /\ unresolved \subseteq unresolved'
  /\ UNCHANGED <<writeVars, host, session, running, maintenance, fixtureVars>>

\* Sessions of a buyer are read, not written; a command in doubt is unsafe.
RecoverBuyer(b) ==
  /\ driver = "recover" /\ host # "off"
  /\ b \in todo \cap Buyers /\ b \notin running
  /\ IF b \in unresolved THEN Fail(TRUE) /\ UNCHANGED session
     ELSE /\ todo' = todo \ {b}
          /\ session' = [session EXCEPT ![b] = IF @ = "none" THEN @ ELSE "seen"]
          /\ UNCHANGED <<driver, stage, unsafe>>
  /\ UNCHANGED <<writeVars, host, running, unresolved, maintenance, fixtureVars>>

\* OwnedHost.stop, gracefully or by force.
StopHost ==
  /\ driver = "recover" /\ todo = {}
  /\ \/ /\ driver' = "stopped"
        /\ HostEnds
        /\ UNCHANGED <<stage, todo, unsafe>>
     \/ Fail(TRUE) /\ host' = "off" /\ UNCHANGED <<running, unresolved>>
  /\ UNCHANGED <<writeVars, session, maintenance, fixtureVars>>

\* Fault: sessions that appeared after the recovery are not looked for.
QuietLoosely == running = {}

\* Only sessions seen through their identity, none running, nothing in doubt.
Quiet ==
  /\ \A a \in Actors : session[a] # "new"
  /\ running = {} /\ unresolved = {}

local_reset_preflight ==
  /\ driver = "stopped"
  /\ IF Quiet THEN driver' = "resetting" /\ maintenance' = "drain" /\ UNCHANGED <<stage, todo, unsafe>>
     ELSE Fail(TRUE) /\ UNCHANGED maintenance
  /\ UNCHANGED <<writeVars, host, dbVars, fixtureVars>>

\* Fault: the exit status of the reset is not looked at.
ResetEndsAnyhow ==
  /\ driver = "resetting"
  /\ Step("done", "idle") \/ Step("failed", "idle")
  /\ driver' = "restart"
  /\ UNCHANGED <<stage, todo, unsafe, writeVars, host, dbVars, fixtureVars>>

ResetEnds ==
  /\ driver = "resetting"
  /\ \/ Step("done", "idle") /\ driver' = "restart" /\ UNCHANGED <<stage, todo, unsafe>>
     \/ Step("failed", "idle") /\ Fail(TRUE)
  /\ UNCHANGED <<writeVars, host, dbVars, fixtureVars>>

\* The API is started again and each participant gets a session of its own; any of
\* it may fail.
RestartHost ==
  /\ driver = "restart"
  /\ HostStarts("owned")
  /\ \E made \in SUBSET Actors :
       /\ session' = [a \in Actors |-> IF a \in made THEN "new" ELSE session[a]]
       /\ \/ /\ made # {} /\ driver' = "steps"
             /\ UNCHANGED <<stage, todo, unsafe>>
          \/ /\ driver' = "finish" /\ unsafe' \in BOOLEAN /\ todo' = made
             /\ UNCHANGED stage
  /\ UNCHANGED <<writeVars, unresolved, maintenance, fixtureVars>>

Chat(a) ==
  /\ driver = "steps" /\ host # "off" /\ session[a] = "new"
  /\ driver' = "chatting"
  /\ running' = running \cup {a}
  /\ UNCHANGED <<stage, todo, unsafe, writeVars, host, session, unresolved, maintenance,
                 fixtureVars>>

\* A terminal event, no session running, no command of a buyer in doubt.
ChatEnds ==
  /\ driver = "chatting" /\ host # "off"
  /\ running = {}
  /\ IF unresolved \cap Buyers = {} THEN driver' = "steps" /\ UNCHANGED <<stage, todo, unsafe>>
     ELSE Fail(TRUE)
  /\ UNCHANGED <<writeVars, host, dbVars, maintenance, fixtureVars>>

\* A failure that leaves nothing unknown (an error event, a refused or lost read,
\* also one that swallows an interruption), or one that does: a timeout, a broken
\* stream, an interruption.
StepFails ==
  /\ driver \in {"recover", "steps", "chatting"}
  /\ Fail(FALSE) \/ Fail(TRUE)
  /\ UNCHANGED <<writeVars, host, dbVars, maintenance, fixtureVars>>

\* An interrupted reset is killed at the step it has reached; a write that was
\* marked may not be sent.
InterruptDriver ==
  /\ driver \in {"marked", "stopped", "resetting", "restart"}
  /\ Fail(TRUE)
  /\ maintenance' = "idle"
  /\ UNCHANGED <<writeVars, host, dbVars, fixtureVars>>

\* All steps executed.
Executed ==
  /\ driver = "steps"
  /\ driver' = "finish" /\ todo' \in SUBSET Actors \ {{}}
  /\ UNCHANGED <<stage, unsafe, writeVars, host, dbVars, maintenance, fixtureVars>>

\* The look at a session in the end; that of the merchant is a write (BeginWrite).
Looked(a) ==
  /\ driver = "finish"
  /\ a \in todo
  /\ todo' = todo \ {a}
  /\ \/ /\ host # "off" /\ a \in Buyers \ (running \cup unresolved)
        /\ UNCHANGED unsafe
     \/ unsafe' = TRUE
  /\ UNCHANGED <<driver, stage, writeVars, host, dbVars, maintenance, fixtureVars>>

\* The record of the task; an unsafe one leaves the marker and is the last.
EndTask ==
  /\ driver = "finish" /\ todo = {}
  /\ \E changed \in BOOLEAN :
       LET retained == unsafe \/ changed
       IN /\ marker' = (marker \/ retained)
          /\ driver' = IF retained THEN "closing" ELSE "ready"
  /\ UNCHANGED <<stage, todo, unsafe, written, host, dbVars, maintenance, fixtureVars>>

\* The last stop of the API; forced or abnormal, it leaves the marker too.
CloseDriver ==
  /\ driver = "closing"
  /\ driver' = "off"
  /\ IF host = "off" THEN UNCHANGED <<host, running, unresolved>> ELSE HostEnds
  /\ marker' \in {marker, TRUE}
  /\ UNCHANGED <<stage, todo, unsafe, written, session, maintenance, fixtureVars>>

\* The driver alone is killed, outside a reset: its API lives on.
Kill ==
  /\ driver # "off" /\ driver # "resetting"
  /\ driver' = "off" /\ stage' = "off" /\ todo' = {} /\ unsafe' = FALSE
  /\ host' = IF host = "owned" THEN "foreign" ELSE host
  /\ UNCHANGED <<writeVars, dbVars, maintenance, fixtureVars>>

\* Every process is killed, as when the machine shuts down in good order: the marker
\* is not synchronized to disk (run_tasks.py:287-296), so a power loss may lose it.
Crash ==
  /\ driver' = "off" /\ stage' = "off" /\ todo' = {} /\ unsafe' = FALSE
  /\ host' = "off" /\ maintenance' = "idle" /\ java' = FALSE
  /\ UNCHANGED <<writeVars, dbVars, initialized, offer, business, records>>

\* A person resolves what the marker names.
Inspect ==
  /\ driver = "off" /\ marker
  /\ marker' = FALSE /\ written' = FALSE
  /\ UNCHANGED <<driverVars, host, dbVars, maintenance, fixtureVars>>

Maintain ==
  \/ Up \/ seed_seckill \/ UpStarted \/ Drained \/ seed_business
  \/ reset_fixture_sessions \/ publish_policies \/ start_java
  \/ MaintenanceFails \/ UpEnds

Drive ==
  \/ StartDriver \/ BeginTask \/ LastTask
  \/ BeginWrite \/ SendWrite \/ Answered \/ Rejected \/ Unanswered
  \/ StopHost \/ local_reset_preflight \/ ResetEnds \/ RestartHost
  \/ ChatEnds \/ StepFails \/ InterruptDriver \/ Executed \/ EndTask \/ CloseDriver
  \/ \E b \in Buyers : RecoverBuyer(b)
  \/ \E a \in Actors : Chat(a) \/ Looked(a)

EvaluationNext ==
  \/ Maintain \/ Drive
  \/ \E a \in Actors : NewSession(a) \/ TurnStarts(a) \/ TurnEnds(a) \/ Recovers(a)
  \/ StartApi \/ StopApi \/ ApiDies \/ Kill \/ Crash \/ Inspect

EvaluationSpec == EvaluationInit /\ [][EvaluationNext]_evaluationVars

-----------------------------------------------------------------------------
\* A write of an evaluation that may have taken place is on record in the marker
\* from before it is sent until its answer or a person settles it, whichever of the
\* processes die, short of a power loss (run_tasks.py:287-300, 579-610, 1216-1220).
UnresolvedMarked == written => marker

\* A task destroys the fixture only while the API is down, after every session was
\* looked at, with no turn running, no command or prepare in doubt and no write of
\* an evaluation unanswered (run_tasks.py:792-823, 984-988).
ResetQuietly ==
  [][driver = "resetting" /\ maintenance = "seed" /\ maintenance' = "records" =>
       /\ host = "off" /\ ~written
       /\ running = {} /\ unresolved = {}
       /\ \A a \in Actors : session[a] # "new"]_evaluationVars

\* A task works only on a fixture whose business data and sessions were both made
\* new for it, with Java running on them (run_tasks.py:996-1000,
\* local_runtime.py:471-486).
WholeFixture ==
  driver \in {"steps", "chatting"} \/ stage = "steps" =>
    business = "new" /\ records = "new" /\ java /\ host # "foreign"
=============================================================================
