------------------------ MODULE AnalysisSandboxProofs ------------------------
(***************************************************************************)
(* Theorems about AnalysisSandbox for any number of runs and slots, and    *)
(* about Evaluations for any buyer identities and any number of tasks,     *)
(* drivers, resets, turns, kills and crashes.                              *)
(***************************************************************************)
EXTENDS AnalysisSandbox, Evaluations, FiniteSetTheorems, TLAPS

Places == {"new", "queued", "ended"} \cup Working

TypeOK ==
  /\ pc \in [Runs -> Places]
  /\ outcome \in [Runs -> {"none", "answered", "failed", "interrupted",
                           "cleanup_failed", "unspawned"}]
  /\ create \in [Runs -> {"none", "running", "ok", "refused", "unspawned", "killed"}]
  /\ container \in [Runs -> {"none", "requested", "present", "removed"}]
  /\ slots \in Nat
  /\ names \subseteq Runs
  /\ _closed \in BOOLEAN
  /\ closing \in {"no", "gathering", "sweeping", "closed", "failed"}
  /\ gathered \subseteq Runs

\* The cleanup of the run failed and was reported.
Reported(r) == outcome[r] \in {"cleanup_failed", "unspawned"}

\* A run of its own, or one the shutdown sweeps up, removes its container.
Removing(r) == pc[r] \in {"removing", "listing"}

\* Docker has nothing that nobody asked for, a creation under way is waited for,
\* and what a run leaves behind is reported and still named.
RunSound(r) ==
  /\ pc[r] \in {"new", "queued"} => create[r] = "none"
  /\ create[r] = "none" => container[r] = "none"
  /\ container[r] = "requested" => create[r] \in {"running", "killed"}
  /\ container[r] = "present" => create[r] \in {"running", "ok", "killed"}
  /\ create[r] = "running" => pc[r] \in {"creating", "awaiting"}
  /\ create[r] = "killed" => Reported(r) /\ (pc[r] = "ended" \/ closing = "sweeping")
  /\ r \in Existing => /\ create[r] # "killed" => r \in names
                       /\ pc[r] = "ended" => Reported(r)

RunsSound == \A r \in Runs : RunSound(r)

\* The shutdown: once it sweeps, all runs have ended, and it removes one
\* leftover container at a time.
ClosingSound ==
  /\ closing # "no" => _closed
  /\ closing = "gathering" => \A r \in Runs \ gathered : pc[r] \in {"new", "ended"}
  /\ closing = "sweeping" =>
       /\ \A r \in Runs : /\ pc[r] \in {"new", "ended"} \/ (Removing(r) /\ r \in names)
                          /\ r \in Existing => Reported(r)
       /\ \A r, s \in Runs : Removing(r) /\ Removing(s) => r = s
  /\ closing \in {"closed", "failed"} => \A r \in Runs : pc[r] \in {"new", "ended"}
  /\ closing = "closed" => names = {}

Failed == \E r \in Runs : outcome[r] = "cleanup_failed"

FailureSeen == Failed => _closed

\* Until all runs of a shutdown have ended, each run at work holds one slot.
Holders == {r \in Runs : pc[r] \in Working}

SlotsSound ==
  closing \in {"no", "gathering"} =>
    IsFiniteSet(Holders) /\ slots + Cardinality(Holders) = SlotCount

IInv ==
  /\ TypeOK
  /\ RunsSound
  /\ ClosingSound
  /\ FailureSeen
  /\ SlotsSound

-----------------------------------------------------------------------------
(* Slots. *)

Holds(r) == pc[r] \in Working

\* A slot is taken by a run that starts to work, and given back by one that ends.
SlotStep(r) ==
  \/ (Holds(r)' <=> Holds(r)) /\ slots' = slots
  \/ ~Holds(r) /\ Holds(r)' /\ slots' = slots - 1
  \/ Holds(r) /\ ~Holds(r)' /\ slots' = slots + 1

LEMMA SlotsKept ==
  ASSUME TypeOK, NEW r \in Runs, \A q \in Runs \ {r} : pc'[q] = pc[q], SlotStep(r),
         IsFiniteSet(Holders), slots + Cardinality(Holders) = SlotCount
  PROVE  IsFiniteSet(Holders)' /\ (slots + Cardinality(Holders) = SlotCount)'
<1>1. Cardinality(Holders) \in Nat /\ slots \in Nat /\ SlotCount \in Nat
  BY FS_CardinalityType, SlotAssumption DEF TypeOK
<1>2. CASE (Holds(r)' <=> Holds(r)) /\ slots' = slots
  <2>1. Holders' = Holders
    BY <1>2 DEF Holders, Holds
  <2> QED BY <1>2, <2>1
<1>3. CASE ~Holds(r) /\ Holds(r)' /\ slots' = slots - 1
  <2>1. Holders' = Holders \cup {r} /\ r \notin Holders
    BY <1>3 DEF Holders, Holds
  <2>2. IsFiniteSet(Holders') /\ Cardinality(Holders') = Cardinality(Holders) + 1
    BY <2>1, FS_AddElement
  <2> QED BY <1>1, <1>3, <2>2
<1>4. CASE Holds(r) /\ ~Holds(r)' /\ slots' = slots + 1
  <2>1. Holders' = Holders \ {r} /\ r \in Holders
    BY <1>4 DEF Holders, Holds
  <2>2. IsFiniteSet(Holders') /\ Cardinality(Holders') = Cardinality(Holders) - 1
    BY <2>1, FS_RemoveElement
  <2> QED BY <1>1, <1>4, <2>2
<1> QED BY <1>2, <1>3, <1>4 DEF SlotStep

-----------------------------------------------------------------------------
(* A step that concerns one run. *)

Others(r) ==
  \A q \in Runs \ {r} : /\ pc'[q] = pc[q] /\ outcome'[q] = outcome[q]
                        /\ create'[q] = create[q] /\ container'[q] = container[q]

\* What a step of a run, or of Docker for it, does to what all runs share: at
\* most the name of the run is dropped, the sandbox is never opened again, and a
\* sweep only ends with the run whose container it was removing.
SharedStep(r) ==
  /\ names \ {r} \subseteq names'
  /\ closing = "closed" => names' = {}
  /\ _closed => _closed'
  /\ outcome'[r] = "cleanup_failed" => _closed'
  /\ gathered' = gathered
  /\ \/ closing' = closing
     \/ closing = "sweeping" /\ closing' = "failed" /\ Removing(r) /\ pc'[r] = "ended"

\* What it does to the run during a shutdown.
ShutStep(r) ==
  /\ closing # "no" /\ pc[r] \in {"new", "ended"} => pc'[r] \in {"new", "ended"}
  /\ closing = "sweeping" =>
       /\ pc'[r] \in {"new", "ended"} \/ (Removing(r)' /\ Removing(r) /\ r \in names')
       /\ r \in Existing' => Reported(r)'

LEMMA OneRun ==
  ASSUME IInv, NEW r \in Runs, TypeOK', Others(r), RunSound(r)',
         SharedStep(r), ShutStep(r), closing \in {"no", "gathering"} => SlotStep(r)
  PROVE  IInv'
<1>1. ASSUME NEW q \in Runs \ {r}
      PROVE  RunSound(q)'
  <2>1. /\ RunSound(q) /\ pc'[q] = pc[q] /\ outcome'[q] = outcome[q]
        /\ create'[q] = create[q] /\ container'[q] = container[q]
        /\ q \in names => q \in names'
    BY DEF IInv, RunsSound, Others, SharedStep
  <2>2. closing = "sweeping" /\ Removing(r) => pc[q] \in {"new", "ended"}
    BY DEF IInv, ClosingSound
  <2> QED BY <2>1, <2>2 DEF RunSound, SharedStep, Existing, Reported
<1>2. RunsSound'
  BY <1>1 DEF RunsSound
<1>3. ClosingSound'
  <2>1. (closing # "no" => _closed)'
    BY DEF IInv, ClosingSound, SharedStep
  <2>2. (closing = "gathering" => \A q \in Runs \ gathered : pc[q] \in {"new", "ended"})'
    BY DEF IInv, ClosingSound, SharedStep, ShutStep, Others
  <2>3. (closing = "sweeping" =>
           /\ \A q \in Runs : /\ pc[q] \in {"new", "ended"} \/ (Removing(q) /\ q \in names)
                              /\ q \in Existing => Reported(q)
           /\ \A q, s \in Runs : Removing(q) /\ Removing(s) => q = s)'
    <3> SUFFICES ASSUME closing' = "sweeping" PROVE
           /\ \A q \in Runs : /\ pc'[q] \in {"new", "ended"} \/ (Removing(q)' /\ q \in names')
                              /\ q \in Existing' => Reported(q)'
           /\ \A q, s \in Runs : Removing(q)' /\ Removing(s)' => q = s
      OBVIOUS
    <3>1. closing = "sweeping"
      BY DEF SharedStep
    <3>2. ASSUME NEW q \in Runs \ {r}
          PROVE  /\ pc'[q] \in {"new", "ended"} \/ (Removing(q)' /\ q \in names')
                 /\ q \in Existing' => Reported(q)'
                 /\ Removing(q)' <=> Removing(q)
      BY <3>1 DEF IInv, ClosingSound, SharedStep, Others, Removing, Existing, Reported
    <3>3. /\ pc'[r] \in {"new", "ended"} \/ (Removing(r)' /\ r \in names')
          /\ r \in Existing' => Reported(r)'
          /\ Removing(r)' => Removing(r)
      BY <3>1 DEF ShutStep, Removing
    <3>4. \A q, s \in Runs : Removing(q) /\ Removing(s) => q = s
      BY <3>1 DEF IInv, ClosingSound
    <3> QED BY <3>2, <3>3, <3>4
  <2>4. (closing \in {"closed", "failed"} => \A q \in Runs : pc[q] \in {"new", "ended"})'
    BY DEF IInv, ClosingSound, SharedStep, ShutStep, Others, Removing
  <2>5. (closing = "closed" => names = {})'
    BY DEF SharedStep
  <2> QED BY <2>1, <2>2, <2>3, <2>4, <2>5 DEF ClosingSound
<1>4. FailureSeen'
  BY DEF IInv, FailureSeen, Failed, SharedStep, Others
<1>5. SlotsSound'
  <2>1. SUFFICES ASSUME closing' \in {"no", "gathering"}
                 PROVE  IsFiniteSet(Holders)' /\ (slots + Cardinality(Holders) = SlotCount)'
    BY DEF SlotsSound
  <2>2. closing \in {"no", "gathering"}
    BY <2>1 DEF SharedStep
  <2> QED BY <2>2, SlotsKept DEF IInv, SlotsSound, Others
<1> QED BY <1>2, <1>3, <1>4, <1>5 DEF IInv

-----------------------------------------------------------------------------
(* The actions. *)

LEMMA InitInv == Init => IInv
<1> SUFFICES ASSUME Init PROVE IInv
  OBVIOUS
<1> USE DEF Init
<1>1. TypeOK
  BY SlotAssumption DEF TypeOK, Places
<1>2. RunsSound /\ ClosingSound /\ FailureSeen
  BY DEF RunsSound, RunSound, Existing, ClosingSound, FailureSeen, Failed
<1>3. SlotsSound
  <2>1. Holders = {}
    BY DEF Holders, Working, Cleaning
  <2> QED BY <2>1, FS_EmptySet, SlotAssumption DEF SlotsSound
<1> QED BY <1>1, <1>2, <1>3 DEF IInv

\* What the invariant says of one run.
Known(r) ==
  /\ TypeOK /\ RunSound(r)
  /\ closing # "no" => _closed
  /\ outcome[r] = "cleanup_failed" => _closed
  /\ closing = "sweeping" =>
       /\ pc[r] \in {"new", "ended"} \/ (Removing(r) /\ r \in names)
       /\ r \in Existing => Reported(r)
  /\ closing \in {"closed", "failed"} => pc[r] \in {"new", "ended"}
  /\ closing = "closed" => names = {}

LEMMA KnownOfRun == ASSUME IInv, NEW r \in Runs PROVE Known(r)
BY DEF IInv, Known, RunsSound, ClosingSound, FailureSeen, Failed

LEMMA EnterInv ==
  ASSUME IInv, NEW r \in Runs, Enter(r)
  PROVE  IInv'
<1> USE DEF Enter, Move, Result, hostVars, closeVars
<1>1. Known(r)
  BY KnownOfRun
<1>2. TypeOK' /\ Others(r)
  BY <1>1 DEF Known, TypeOK, Others, Places, Working, Cleaning
<1>3. RunSound(r)'
  BY <1>1 DEF Known, TypeOK, RunSound, Reported, Existing, Removing
<1>4. SharedStep(r)
  BY <1>1 DEF Known, TypeOK, SharedStep, Removing
<1>5. ShutStep(r)
  BY <1>1 DEF Known, TypeOK, RunSound, ShutStep, Removing, Existing, Reported
<1>6. closing \in {"no", "gathering"} => SlotStep(r)
  BY <1>1 DEF Known, TypeOK, SlotStep, Holds, Working, Cleaning
<1> QED BY <1>2, <1>3, <1>4, <1>5, <1>6, OneRun

LEMMA AcquireInv ==
  ASSUME IInv, NEW r \in Runs, Acquire(r)
  PROVE  IInv'
<1> USE DEF Acquire, Move, Result, closeVars
<1>1. Known(r)
  BY KnownOfRun
<1>2. TypeOK' /\ Others(r)
  BY <1>1 DEF Known, TypeOK, Others, Places, Working, Cleaning
<1>3. RunSound(r)'
  BY <1>1 DEF Known, TypeOK, RunSound, Reported, Existing, Removing
<1>4. SharedStep(r)
  BY <1>1 DEF Known, TypeOK, SharedStep, Removing
<1>5. ShutStep(r)
  BY <1>1 DEF Known, TypeOK, RunSound, ShutStep, Removing, Existing, Reported
<1>6. closing \in {"no", "gathering"} => SlotStep(r)
  BY <1>1 DEF Known, TypeOK, SlotStep, Holds, Working, Cleaning
<1> QED BY <1>2, <1>3, <1>4, <1>5, <1>6, OneRun

LEMMA CreatedInv ==
  ASSUME IInv, NEW r \in Runs, Created(r)
  PROVE  IInv'
<1> USE DEF Created, Move, Result, hostVars, closeVars
<1>1. Known(r)
  BY KnownOfRun
<1>2. TypeOK' /\ Others(r)
  BY <1>1 DEF Known, TypeOK, Others, Places, Working, Cleaning
<1>3. RunSound(r)'
  BY <1>1 DEF Known, TypeOK, RunSound, Reported, Existing, Removing
<1>4. SharedStep(r)
  BY <1>1 DEF Known, TypeOK, SharedStep, Removing
<1>5. ShutStep(r)
  BY <1>1 DEF Known, TypeOK, RunSound, ShutStep, Removing, Existing, Reported
<1>6. closing \in {"no", "gathering"} => SlotStep(r)
  BY <1>1 DEF Known, TypeOK, SlotStep, Holds, Working, Cleaning
<1> QED BY <1>2, <1>3, <1>4, <1>5, <1>6, OneRun

LEMMA WorkedInv ==
  ASSUME IInv, NEW r \in Runs, Worked(r)
  PROVE  IInv'
<1> USE DEF Worked, Move, Result, hostVars, closeVars
<1>1. Known(r)
  BY KnownOfRun
<1>2. TypeOK' /\ Others(r)
  BY <1>1 DEF Known, TypeOK, Others, Places, Working, Cleaning
<1>3. RunSound(r)'
  BY <1>1 DEF Known, TypeOK, RunSound, Reported, Existing, Removing
<1>4. SharedStep(r)
  BY <1>1 DEF Known, TypeOK, SharedStep, Removing
<1>5. ShutStep(r)
  BY <1>1 DEF Known, TypeOK, RunSound, ShutStep, Removing, Existing, Reported
<1>6. closing \in {"no", "gathering"} => SlotStep(r)
  BY <1>1 DEF Known, TypeOK, SlotStep, Holds, Working, Cleaning
<1> QED BY <1>2, <1>3, <1>4, <1>5, <1>6, OneRun

LEMMA InterruptInv ==
  ASSUME IInv, NEW r \in Runs, Interrupt(r)
  PROVE  IInv'
<1> USE DEF Interrupt, Move, Result, hostVars, closeVars, Cleaning
<1>1. Known(r)
  BY KnownOfRun
<1>2. TypeOK' /\ Others(r)
  BY <1>1 DEF Known, TypeOK, Others, Places, Working, Cleaning
<1>3. RunSound(r)'
  <2>1. CASE pc[r] = "queued"
    BY <1>1, <2>1 DEF Known, TypeOK, RunSound, Reported, Existing, Removing
  <2>2. CASE pc[r] \in {"creating", "started"}
    BY <1>1, <2>2 DEF Known, TypeOK, RunSound, Reported, Existing, Removing
  <2>3. CASE pc[r] \in Cleaning
    BY <1>1, <2>3 DEF Known, TypeOK, RunSound, Reported, Existing, Removing
  <2> QED BY <1>1, <2>1, <2>2, <2>3
<1>4. SharedStep(r)
  BY <1>1 DEF Known, TypeOK, SharedStep, Removing
<1>5. ShutStep(r)
  BY <1>1 DEF Known, TypeOK, RunSound, ShutStep, Removing, Existing, Reported
<1>6. closing \in {"no", "gathering"} => SlotStep(r)
  BY <1>1 DEF Known, TypeOK, SlotStep, Holds, Working, Cleaning
<1> QED BY <1>2, <1>3, <1>4, <1>5, <1>6, OneRun

LEMMA DockerInv ==
  ASSUME IInv, NEW r \in Runs, Commit(r) \/ Answer(r) \/ Decline(r) \/ Lose(r)
  PROVE  IInv'
<1> USE DEF Commit, Answer, Decline, Lose, runVars, hostVars,
    closeVars
<1>1. Known(r)
  BY KnownOfRun
<1>2. TypeOK' /\ Others(r)
  BY <1>1 DEF Known, TypeOK, Others, Places, Working, Cleaning
<1>3. RunSound(r)'
  BY <1>1 DEF Known, TypeOK, RunSound, Reported, Existing, Removing
<1>4. SharedStep(r)
  BY <1>1 DEF Known, TypeOK, SharedStep, Removing
<1>5. ShutStep(r)
  BY <1>1 DEF Known, TypeOK, RunSound, ShutStep, Removing, Existing, Reported
<1>6. closing \in {"no", "gathering"} => SlotStep(r)
  BY <1>1 DEF Known, TypeOK, SlotStep, Holds, Working, Cleaning
<1> QED BY <1>2, <1>3, <1>4, <1>5, <1>6, OneRun

LEMMA AwaitCreateInv ==
  ASSUME IInv, NEW r \in Runs, AwaitCreate(r)
  PROVE  IInv'
<1> USE DEF AwaitCreate, Unspawned, Ended, Move, Result, hostVars,
    closeVars
<1>1. Known(r)
  BY KnownOfRun
<1>2. TypeOK' /\ Others(r)
  BY <1>1 DEF Known, TypeOK, Others, Places, Working, Cleaning
<1>3. RunSound(r)'
  BY <1>1 DEF Known, TypeOK, RunSound, Reported, Existing, Removing
<1>4. SharedStep(r)
  BY <1>1 DEF Known, TypeOK, SharedStep, Removing
<1>5. ShutStep(r)
  BY <1>1 DEF Known, TypeOK, RunSound, ShutStep, Removing, Existing, Reported
<1>6. closing \in {"no", "gathering"} => SlotStep(r)
  BY <1>1 DEF Known, TypeOK, SlotStep, Holds, Working, Cleaning
<1> QED BY <1>2, <1>3, <1>4, <1>5, <1>6, OneRun

LEMMA RemoveInv ==
  ASSUME IInv, NEW r \in Runs, Remove(r)
  PROVE  IInv'
<1> USE DEF Remove, Verified, Ended, Move, hostVars, closeVars
<1>1. Known(r)
  BY KnownOfRun
<1>2. TypeOK' /\ Others(r)
  BY <1>1 DEF Known, TypeOK, Others, Places, Working, Cleaning
<1>3. RunSound(r)'
  BY <1>1 DEF Known, TypeOK, RunSound, Reported, Existing, Removing
<1>4. SharedStep(r)
  BY <1>1 DEF Known, TypeOK, SharedStep, Removing
<1>5. ShutStep(r)
  BY <1>1 DEF Known, TypeOK, RunSound, ShutStep, Removing, Existing, Reported
<1>6. closing \in {"no", "gathering"} => SlotStep(r)
  BY <1>1 DEF Known, TypeOK, SlotStep, Holds, Working, Cleaning
<1> QED BY <1>2, <1>3, <1>4, <1>5, <1>6, OneRun

LEMMA ListInv ==
  ASSUME IInv, NEW r \in Runs, List(r)
  PROVE  IInv'
<1> USE DEF List, Verified, Unverified, Ended, Move, Result
<1>1. Known(r)
  BY KnownOfRun
<1>2. TypeOK' /\ Others(r)
  <2>1. CASE Verified(r)
    BY <1>1, <2>1 DEF Known, TypeOK, Others, Places, Working, Cleaning
  <2>2. CASE Unverified(r) /\ UNCHANGED create
    BY <1>1, <2>2 DEF Known, TypeOK, Others, Places, Working, Cleaning
  <2> QED BY <1>1, <2>1, <2>2
<1>3. RunSound(r)'
  BY <1>1 DEF Known, TypeOK, RunSound, Reported, Existing, Removing
<1>4. SharedStep(r)
  BY <1>1 DEF Known, TypeOK, SharedStep, Removing
<1>5. ShutStep(r)
  BY <1>1 DEF Known, TypeOK, RunSound, ShutStep, Removing, Existing, Reported
<1>6. closing \in {"no", "gathering"} => SlotStep(r)
  BY <1>1 DEF Known, TypeOK, SlotStep, Holds, Working, Cleaning
<1> QED BY <1>2, <1>3, <1>4, <1>5, <1>6, OneRun

LEMMA CleanupTimeoutInv ==
  ASSUME IInv, NEW r \in Runs, CleanupTimeout(r)
  PROVE  IInv'
<1> USE DEF CleanupTimeout, Unverified, Ended, Move, Result, Cleaning
<1>1. Known(r)
  BY KnownOfRun
<1>2. TypeOK' /\ Others(r)
  BY <1>1 DEF Known, TypeOK, Others, Places, Working, Cleaning
<1>3. RunSound(r)'
  BY <1>1 DEF Known, TypeOK, RunSound, Reported, Existing, Removing
<1>4. SharedStep(r)
  BY <1>1 DEF Known, TypeOK, SharedStep, Removing
<1>5. ShutStep(r)
  BY <1>1 DEF Known, TypeOK, RunSound, ShutStep, Removing, Existing, Reported
<1>6. closing \in {"no", "gathering"} => SlotStep(r)
  BY <1>1 DEF Known, TypeOK, SlotStep, Holds, Working, Cleaning
<1> QED BY <1>2, <1>3, <1>4, <1>5, <1>6, OneRun

LEMMA SpawnFailsInv ==
  ASSUME IInv, NEW r \in Runs, SpawnFails(r)
  PROVE  IInv'
<1> USE DEF SpawnFails, Unspawned, Ended, Move, Result
<1>1. Known(r)
  BY KnownOfRun
<1>2. TypeOK' /\ Others(r)
  BY <1>1 DEF Known, TypeOK, Others, Places, Working, Cleaning
<1>3. RunSound(r)'
  BY <1>1 DEF Known, TypeOK, RunSound, Reported, Existing, Removing
<1>4. SharedStep(r)
  BY <1>1 DEF Known, TypeOK, SharedStep, Removing
<1>5. ShutStep(r)
  BY <1>1 DEF Known, TypeOK, RunSound, ShutStep, Removing, Existing, Reported
<1>6. closing \in {"no", "gathering"} => SlotStep(r)
  BY <1>1 DEF Known, TypeOK, SlotStep, Holds, Working, Cleaning
<1> QED BY <1>2, <1>3, <1>4, <1>5, <1>6, OneRun

LEMMA RunStepInv ==
  ASSUME IInv, NEW r \in Runs,
         RunStep(r) \/ Interrupt(r) \/ Commit(r) \/ Answer(r) \/ Decline(r) \/ Lose(r)
  PROVE  IInv'
BY EnterInv, AcquireInv, CreatedInv, WorkedInv, AwaitCreateInv, RemoveInv, ListInv,
   CleanupTimeoutInv, SpawnFailsInv, InterruptInv, DockerInv
DEF RunStep

\* The shutdown begins: runs at work go to their cleanup and keep their slots.
LEMMA CloseInv ==
  ASSUME IInv, Close
  PROVE  IInv'
<1> USE DEF Close
<1>1. TypeOK'
  BY DEF IInv, TypeOK, Places, Working, Cleaning
<1>2. RunsSound'
  <2> SUFFICES ASSUME NEW r \in Runs PROVE RunSound(r)'
    BY DEF RunsSound
  <2>1. RunSound(r) /\ TypeOK
    BY DEF IInv, RunsSound
  <2> QED BY <2>1 DEF RunSound, TypeOK, Existing, Reported
<1>3. ClosingSound'
  BY DEF IInv, TypeOK, Places, Working, Cleaning, ClosingSound
<1>4. FailureSeen'
  BY DEF FailureSeen
<1>5. SlotsSound'
  <2>1. Holders' = Holders
    BY DEF Holders, Working, Cleaning
  <2> QED BY <2>1 DEF IInv, SlotsSound
<1> QED BY <1>1, <1>2, <1>3, <1>4, <1>5 DEF IInv

\* All runs have ended: what exists then has been reported.
LEMMA SweepInv ==
  ASSUME IInv, Sweep
  PROVE  IInv'
<1> USE DEF Sweep, runVars, hostVars
<1>1. \A r \in Runs : pc[r] \in {"new", "ended"}
  BY DEF IInv, ClosingSound
<1>2. \A r \in Existing : Reported(r)
  BY <1>1 DEF IInv, RunsSound, RunSound, Existing
<1>3. TypeOK' /\ FailureSeen' /\ SlotsSound'
  BY DEF IInv, TypeOK, FailureSeen, Failed, SlotsSound
<1>4. RunsSound'
  BY DEF IInv, RunsSound, RunSound, Existing, Reported
<1>5. ClosingSound'
  BY <1>1, <1>2 DEF IInv, ClosingSound, Removing, Existing, Reported
<1> QED BY <1>3, <1>4, <1>5 DEF IInv

LEMMA SweepNextInv ==
  ASSUME IInv, SweepNext
  PROVE  IInv'
<1> USE DEF SweepNext, hostVars, closeVars
<1>1. PICK r \in names : pc' = [pc EXCEPT ![r] = "removing"]
  BY DEF Move
<1>2. /\ r \in Runs /\ pc'[r] = "removing" /\ pc[r] = "ended"
      /\ \A q \in Runs \ {r} : pc'[q] = pc[q]
  BY <1>1 DEF IInv, TypeOK
<1>3. \A q \in Runs : pc[q] \in {"new", "ended"}
  BY DEF IInv, ClosingSound, Removing
<1>4. TypeOK'
  BY <1>1, <1>2 DEF IInv, TypeOK, Places, Working, Cleaning
<1>5. RunsSound'
  BY <1>2, <1>3 DEF IInv, RunsSound, RunSound, Existing, Reported
<1>6. ClosingSound'
  BY <1>2, <1>3 DEF IInv, ClosingSound, Removing, Existing, Reported
<1>7. FailureSeen' /\ SlotsSound'
  BY DEF IInv, FailureSeen, Failed, SlotsSound
<1> QED BY <1>4, <1>5, <1>6, <1>7 DEF IInv

LEMMA ClosedInv ==
  ASSUME IInv, Closed
  PROVE  IInv'
<1> USE DEF Closed, runVars, hostVars
<1>1. \A r \in Runs : pc[r] \in {"new", "ended"}
  BY DEF IInv, ClosingSound
<1>2. TypeOK' /\ FailureSeen' /\ SlotsSound'
  BY DEF IInv, TypeOK, FailureSeen, Failed, SlotsSound
<1>3. RunsSound'
  BY <1>1 DEF IInv, RunsSound, RunSound, Existing, Reported
<1>4. ClosingSound'
  BY <1>1 DEF IInv, ClosingSound
<1> QED BY <1>2, <1>3, <1>4 DEF IInv

LEMMA Inductive ==
  ASSUME IInv, [Next]_vars
  PROVE  IInv'
<1>1. CASE Next /\ ~Rest
  BY <1>1, RunStepInv, CloseInv, SweepInv, SweepNextInv, ClosedInv DEF Next
<1>2. CASE UNCHANGED vars
  <2> USE <1>2 DEF vars, runVars, hostVars, closeVars
  <2>1. TypeOK' /\ FailureSeen' /\ SlotsSound'
    BY DEF IInv, TypeOK, FailureSeen, Failed, SlotsSound, Holders
  <2>2. RunsSound' /\ ClosingSound'
    BY DEF IInv, RunsSound, RunSound, ClosingSound, Existing, Reported, Removing
  <2> QED BY <2>1, <2>2 DEF IInv
<1> QED BY <1>1, <1>2 DEF Rest

LEMMA Invariant == Spec => []IInv
BY InitInv, Inductive, PTL DEF Spec

-----------------------------------------------------------------------------
(* The properties. *)

\* Runs, commands and containers stay in the states the code gives them, and no
\* slot is released that nobody holds.
THEOREM TypeCorrect == Spec => []TypeOK
<1>1. IInv => TypeOK
  BY DEF IInv
<1> QED BY <1>1, Invariant, PTL

\* Whatever is cancelled, times out or fails in a run or in the shutdown, a
\* container that may exist keeps its name in _containers until its absence was
\* seen, unless the host killed the command that creates it.
THEOREM NoContainerForgotten == Spec => []ContainersOwned
<1>1. IInv => ContainersOwned
  BY DEF IInv, ContainersOwned, Existing, RunsSound, RunSound, ClosingSound
<1> QED BY <1>1, Invariant, PTL

\* The semaphore of the sandbox bounds the containers too, those aside that a
\* failed cleanup reported: a run gives its slot back only after its container.
THEOREM AsManyAsSlots == Spec => []TwoAtOnce
<1>1. ASSUME IInv PROVE TwoAtOnce
  <2> DEFINE kept == {r \in Existing : outcome[r] \notin {"cleanup_failed", "unspawned"}}
  <2>1. CASE closing \in {"no", "gathering"}
    <3>1. kept \subseteq Holders
      BY <1>1 DEF IInv, TypeOK, Places, RunsSound, RunSound, Existing, Reported, Holders
    <3>2. Cardinality(kept) <= Cardinality(Holders) /\ Cardinality(Holders) <= SlotCount
      <4>1. IsFiniteSet(Holders) /\ slots + Cardinality(Holders) = SlotCount /\ slots \in Nat
        BY <1>1, <2>1 DEF IInv, SlotsSound, TypeOK
      <4>2. Cardinality(kept) <= Cardinality(Holders)
        BY <3>1, <4>1, FS_Subset
      <4>3. Cardinality(Holders) \in Nat
        BY <4>1, FS_CardinalityType
      <4> QED BY <4>1, <4>2, <4>3, SlotAssumption
    <3>3. Cardinality(kept) \in Nat /\ Cardinality(Holders) \in Nat
      BY <1>1, <2>1, <3>1, FS_Subset, FS_CardinalityType DEF IInv, SlotsSound
    <3> QED BY <3>2, <3>3, SlotAssumption DEF TwoAtOnce
  <2>2. CASE closing \notin {"no", "gathering"}
    <3>1. kept = {}
      BY <1>1, <2>2
      DEF IInv, TypeOK, ClosingSound, RunsSound, RunSound, Existing, Reported
    <3> QED BY <3>1, FS_EmptySet, SlotAssumption DEF TwoAtOnce
  <2> QED BY <2>1, <2>2
<1> QED BY <1>1, Invariant, PTL

\* A cleanup that could not be verified closes the sandbox, and from then on no
\* run sends a command that creates a container, also not one that had queued
\* before.
THEOREM NothingAfterFailure == Spec => FailureStopsWork
<1> DEFINE Stopped == Failed => \A r \in Runs : create[r] = "none" => create'[r] = "none"
<1>1. ASSUME IInv, [Next]_vars, Failed, NEW r \in Runs, create[r] = "none"
      PROVE  create'[r] = "none"
  <2>1. _closed /\ create \in [Runs -> {"none", "running", "ok", "refused", "unspawned",
                                         "killed"}]
    BY <1>1 DEF IInv, FailureSeen, TypeOK
  <2>2. CASE UNCHANGED create
    BY <1>1, <2>2
  <2>3. ASSUME NEW q \in Runs, Acquire(q) PROVE create'[r] = "none"
    BY <1>1, <2>1, <2>3 DEF Acquire
  <2>4. ASSUME NEW q \in Runs, Answer(q) \/ Decline(q) \/ CleanupTimeout(q)
        PROVE  create'[r] = "none"
    BY <1>1, <2>1, <2>4 DEF Answer, Decline, CleanupTimeout
  <2>5. ASSUME NEW q \in Runs,
               \/ Enter(q) \/ Created(q) \/ Worked(q) \/ Interrupt(q) \/ Commit(q) \/ Lose(q)
               \/ AwaitCreate(q) \/ Remove(q) \/ List(q) \/ SpawnFails(q)
        PROVE  UNCHANGED create
    BY <2>5 DEF Enter, Created, Worked, Interrupt, Commit, Lose, AwaitCreate, Unspawned,
      Remove, List, Verified, SpawnFails, runVars
  <2>6. ASSUME Close \/ Sweep \/ SweepNext \/ Closed \/ UNCHANGED vars
        PROVE  UNCHANGED create
    BY <2>6 DEF Close, Sweep, SweepNext, Closed, runVars, vars
  <2> QED BY <1>1, <2>2, <2>3, <2>4, <2>5, <2>6 DEF Next, RunStep, Rest
<1>2. IInv /\ [Next]_vars => [Stopped]_vars
  BY <1>1
<1>3. FailureStopsWork <=> [][Stopped]_vars
  BY DEF FailureStopsWork, Failed
<1> QED BY <1>2, <1>3, Invariant, PTL DEF Spec

-----------------------------------------------------------------------------
(* Evaluations: the fixture, its services and the evaluation driver. *)

Stages == {"off", "recover", "steps", "finish"}

PlacesOK ==
  /\ driver \in {"off", "ready", "recover", "marked", "sent", "stopped", "resetting", "restart",
             "steps", "chatting", "finish", "closing"}
  /\ stage \in Stages
  /\ host \in {"off", "owned", "foreign"}
  /\ maintenance \in {"idle", "offer", "projection", "start", "drain", "seed", "records",
                      "policies", "java", "done", "failed"}
  /\ offer \in {"none", "sql", "both"}
  /\ business \in {"old", "new"} /\ records \in {"old", "new"}

FlagsOK ==
  /\ unsafe \in BOOLEAN /\ marker \in BOOLEAN /\ written \in BOOLEAN
  /\ initialized \in BOOLEAN /\ java \in BOOLEAN

SetsOK ==
  /\ session \in [Actors -> {"none", "seen", "new"}]
  /\ todo \subseteq Actors /\ running \subseteq Actors /\ unresolved \subseteq Actors

EvaluationTypeOK == PlacesOK /\ FlagsOK /\ SetsOK

\* A driver that goes on with its work knows the answer to all it has written;
\* one that does not know it is at the end of its task, which is unsafe.
WritesKnown ==
  /\ written => marker
  /\ written => driver \in {"off", "sent", "closing"} \/ (driver = "finish" /\ unsafe)
  /\ stage # "off" <=> driver \in {"marked", "sent"}
  /\ driver = "marked" => marker

\* The steps of the services run alone: no API serves, and no driver is at work
\* but the one whose reset they are.
ServicesAlone ==
  /\ maintenance # "idle" => host = "off" /\ driver \in {"off", "resetting"}
  /\ driver = "resetting" => maintenance \notin {"offer", "projection", "start"}
  /\ driver \in {"stopped", "resetting", "restart"} => host = "off"
  /\ driver # "off" => host # "foreign"

ResetQuiet == driver = "resetting" => Quiet

New == business = "new" /\ records = "new"

\* How far the reset of a task has come.
ResetProgress ==
  /\ driver = "resetting" =>
       /\ maintenance = "records" => business = "new"
       /\ maintenance \in {"policies", "java", "done"} => New
       /\ maintenance = "done" => java
  /\ driver \in {"restart", "steps", "chatting"} \/ stage = "steps" => New /\ java

EvaluationInv ==
  /\ EvaluationTypeOK
  /\ WritesKnown
  /\ ServicesAlone
  /\ ResetQuiet
  /\ ResetProgress

-----------------------------------------------------------------------------
(* local_runtime.py and reset_fixture.py *)

LEMMA EvaluationInitInv == EvaluationInit => EvaluationInv
BY DEF EvaluationInit, EvaluationInv, EvaluationTypeOK, PlacesOK, FlagsOK, SetsOK, Stages,
   WritesKnown, ServicesAlone, ResetQuiet, ResetProgress

LEMMA MaintainInv ==
  ASSUME EvaluationInv, Maintain
  PROVE  EvaluationInv'
<1> USE DEF EvaluationInv, Maintain, Up, seed_seckill, UpStarted, Drained, seed_business,
    reset_fixture_sessions, publish_policies, start_java, MaintenanceFails, UpEnds, Step,
    driverVars, writeVars, dbVars, fixtureVars
<1>1. EvaluationTypeOK'
  BY DEF EvaluationTypeOK, PlacesOK, FlagsOK, SetsOK
<1>2. WritesKnown'
  BY DEF WritesKnown
<1>3. ServicesAlone'
  BY DEF ServicesAlone
<1>4. ResetQuiet'
  BY DEF ResetQuiet, Quiet, ServicesAlone
<1>5. ResetProgress'
  BY DEF ResetProgress, New, ServicesAlone, WritesKnown
<1> QED BY <1>1, <1>2, <1>3, <1>4, <1>5

-----------------------------------------------------------------------------
(* The API and its other clients.                                          *)

Serve ==
  \/ StartApi \/ StopApi \/ ApiDies
  \/ \E a \in Actors : NewSession(a) \/ TurnStarts(a) \/ TurnEnds(a) \/ Recovers(a)

\* Whatever clients of the API do, they do it while it is up, so no reset runs.
LEMMA ServeInv ==
  ASSUME EvaluationInv, Serve
  PROVE  EvaluationInv'
<1> USE DEF Serve, StartApi, StopApi, ApiDies, NewSession, TurnStarts, TurnEnds, Recovers,
    HostStarts, HostEnds, driverVars, writeVars, fixtureVars
<1>1. UNCHANGED <<driver, stage, todo, unsafe, marker, written, maintenance,
                  initialized, offer, business, records, java>>
  OBVIOUS
<1>2. EvaluationTypeOK'
  BY DEF EvaluationInv, EvaluationTypeOK, PlacesOK, FlagsOK, SetsOK
<1>3. WritesKnown' /\ ResetProgress'
  BY <1>1 DEF EvaluationInv, WritesKnown, ResetProgress, New
<1>4. ServicesAlone'
  BY DEF EvaluationInv, ServicesAlone
<1>5. driver # "resetting"
  BY DEF EvaluationInv, ServicesAlone
<1>6. ResetQuiet'
  BY <1>1, <1>5 DEF ResetQuiet
<1> QED BY <1>2, <1>3, <1>4, <1>6 DEF EvaluationInv

-----------------------------------------------------------------------------
(* The driver. *)

\* A failure leads to the end of the task, with identities to look at.
LEMMA FailEffect ==
  ASSUME EvaluationTypeOK, NEW isUnsafe \in BOOLEAN, Fail(isUnsafe)
  PROVE  /\ driver' = "finish" /\ stage' = "off"
         /\ todo' \subseteq Actors /\ unsafe' \in BOOLEAN
         /\ unsafe \/ isUnsafe => unsafe'
<1>1. todo' \subseteq Actors
  <2>1. todo' \in {todo \ {Merchant}} \/ todo' \in SUBSET Actors \ {{}} \/ todo' \in {{}}
    BY DEF Fail
  <2> QED BY <2>1 DEF EvaluationTypeOK, SetsOK
<1> QED BY <1>1 DEF Fail, EvaluationTypeOK, FlagsOK

\* What a step of the driver that fails has to leave behind.
LEMMA Fails ==
  ASSUME EvaluationInv, NEW isUnsafe \in BOOLEAN, Fail(isUnsafe), EvaluationTypeOK',
         written' => written /\ marker' /\ (unsafe \/ isUnsafe),
         maintenance' = "idle", host' # "foreign"
  PROVE  EvaluationInv'
<1>1. driver' = "finish" /\ stage' = "off" /\ (unsafe \/ isUnsafe => unsafe')
  BY FailEffect DEF EvaluationInv
<1> QED BY <1>1
  DEF EvaluationInv, WritesKnown, ServicesAlone, ResetQuiet, ResetProgress

LEMMA StartDriverInv ==
  ASSUME EvaluationInv, StartDriver
  PROVE  EvaluationInv'
<1> USE DEF EvaluationInv, EvaluationTypeOK, StartDriver, HostStarts, writeVars, fixtureVars
<1>1. PlacesOK'
  BY DEF PlacesOK, Stages
<1>2. FlagsOK'
  BY DEF FlagsOK
<1>3. SetsOK'
  BY DEF SetsOK, Actors
<1>4. WritesKnown'
  BY DEF WritesKnown
<1>5. ServicesAlone'
  BY DEF ServicesAlone, WritesKnown
<1>6. ResetQuiet' /\ ResetProgress'
  BY DEF ResetQuiet, Quiet, ResetProgress, New, WritesKnown, ServicesAlone
<1> QED BY <1>1, <1>2, <1>3, <1>4, <1>5, <1>6

LEMMA BeginTaskInv ==
  ASSUME EvaluationInv, BeginTask
  PROVE  EvaluationInv'
<1> USE DEF EvaluationInv, EvaluationTypeOK, BeginTask, writeVars, dbVars
<1>1. PlacesOK'
  BY DEF PlacesOK, Stages
<1>2. FlagsOK'
  BY DEF FlagsOK
<1>3. SetsOK'
  BY DEF SetsOK, Actors
<1>4. WritesKnown'
  BY DEF WritesKnown
<1>5. ServicesAlone'
  BY DEF ServicesAlone, WritesKnown
<1>6. ResetQuiet' /\ ResetProgress'
  BY DEF ResetQuiet, Quiet, ResetProgress, New, WritesKnown, ServicesAlone
<1> QED BY <1>1, <1>2, <1>3, <1>4, <1>5, <1>6

LEMMA LastTaskInv ==
  ASSUME EvaluationInv, LastTask
  PROVE  EvaluationInv'
<1> USE DEF EvaluationInv, EvaluationTypeOK, LastTask, writeVars, dbVars, fixtureVars
<1>1. PlacesOK'
  BY DEF PlacesOK, Stages
<1>2. FlagsOK'
  BY DEF FlagsOK
<1>3. SetsOK'
  BY DEF SetsOK, Actors
<1>4. WritesKnown'
  BY DEF WritesKnown
<1>5. ServicesAlone'
  BY DEF ServicesAlone, WritesKnown
<1>6. ResetQuiet' /\ ResetProgress'
  BY DEF ResetQuiet, Quiet, ResetProgress, New, WritesKnown, ServicesAlone
<1> QED BY <1>1, <1>2, <1>3, <1>4, <1>5, <1>6

LEMMA BeginWriteInv ==
  ASSUME EvaluationInv, BeginWrite
  PROVE  EvaluationInv'
<1> USE DEF EvaluationInv, EvaluationTypeOK, BeginWrite, dbVars, fixtureVars
<1>1. PlacesOK'
  BY DEF PlacesOK, Stages
<1>2. FlagsOK'
  BY DEF FlagsOK
<1>3. SetsOK'
  BY DEF SetsOK, Actors
<1>4. WritesKnown'
  BY DEF WritesKnown
<1>5. ServicesAlone'
  BY DEF ServicesAlone, WritesKnown
<1>6. ResetQuiet' /\ ResetProgress'
  BY DEF ResetQuiet, Quiet, ResetProgress, New, WritesKnown, ServicesAlone
<1> QED BY <1>1, <1>2, <1>3, <1>4, <1>5, <1>6

LEMMA SendWriteInv ==
  ASSUME EvaluationInv, SendWrite
  PROVE  EvaluationInv'
<1> USE DEF EvaluationInv, EvaluationTypeOK, SendWrite, dbVars, fixtureVars
<1>1. PlacesOK'
  BY DEF PlacesOK, Stages
<1>2. FlagsOK'
  BY DEF FlagsOK
<1>3. SetsOK'
  BY DEF SetsOK, Actors
<1>4. WritesKnown'
  BY DEF WritesKnown
<1>5. ServicesAlone'
  BY DEF ServicesAlone, WritesKnown
<1>6. ResetQuiet' /\ ResetProgress'
  BY DEF ResetQuiet, Quiet, ResetProgress, New, WritesKnown, ServicesAlone
<1> QED BY <1>1, <1>2, <1>3, <1>4, <1>5, <1>6

LEMMA AnsweredInv ==
  ASSUME EvaluationInv, Answered
  PROVE  EvaluationInv'
<1> USE DEF EvaluationInv, EvaluationTypeOK, Answered, fixtureVars
<1>1. driver' = stage /\ driver' \in {"recover", "steps", "finish"} /\ stage' = "off"
  BY DEF PlacesOK, Stages, WritesKnown
<1>2. PlacesOK'
  BY DEF PlacesOK, Stages
<1>3. FlagsOK'
  BY DEF FlagsOK
<1>4. SetsOK'
  BY DEF SetsOK, Actors
<1>5. WritesKnown'
  BY <1>1 DEF WritesKnown
<1>6. ServicesAlone' /\ ResetQuiet' /\ ResetProgress'
  BY <1>1 DEF ServicesAlone, ResetQuiet, ResetProgress, New
<1> QED BY <1>2, <1>3, <1>4, <1>5, <1>6

LEMMA RestartHostInv ==
  ASSUME EvaluationInv, RestartHost
  PROVE  EvaluationInv'
<1> USE DEF EvaluationInv, EvaluationTypeOK, RestartHost, HostStarts, writeVars, fixtureVars
<1>1. PlacesOK'
  BY DEF PlacesOK, Stages
<1>2. FlagsOK'
  BY DEF FlagsOK
<1>3. SetsOK'
  BY DEF SetsOK, Actors
<1>4. WritesKnown'
  BY DEF WritesKnown
<1>5. ServicesAlone'
  BY DEF ServicesAlone, WritesKnown
<1>6. ResetQuiet' /\ ResetProgress'
  BY DEF ResetQuiet, Quiet, ResetProgress, New, WritesKnown, ServicesAlone
<1> QED BY <1>1, <1>2, <1>3, <1>4, <1>5, <1>6

LEMMA ExecutedInv ==
  ASSUME EvaluationInv, Executed
  PROVE  EvaluationInv'
<1> USE DEF EvaluationInv, EvaluationTypeOK, Executed, writeVars, dbVars, fixtureVars
<1>1. PlacesOK'
  BY DEF PlacesOK, Stages
<1>2. FlagsOK'
  BY DEF FlagsOK
<1>3. SetsOK'
  BY DEF SetsOK, Actors
<1>4. WritesKnown'
  BY DEF WritesKnown
<1>5. ServicesAlone'
  BY DEF ServicesAlone, WritesKnown
<1>6. ResetQuiet' /\ ResetProgress'
  BY DEF ResetQuiet, Quiet, ResetProgress, New, WritesKnown, ServicesAlone
<1> QED BY <1>1, <1>2, <1>3, <1>4, <1>5, <1>6

LEMMA EndTaskInv ==
  ASSUME EvaluationInv, EndTask
  PROVE  EvaluationInv'
<1> USE DEF EvaluationInv, EvaluationTypeOK, EndTask, dbVars, fixtureVars
<1>1. PlacesOK'
  BY DEF PlacesOK, Stages
<1>2. FlagsOK'
  BY DEF FlagsOK
<1>3. SetsOK'
  BY DEF SetsOK, Actors
<1>4. WritesKnown'
  BY DEF WritesKnown
<1>5. ServicesAlone'
  BY DEF ServicesAlone, WritesKnown
<1>6. ResetQuiet' /\ ResetProgress'
  BY DEF ResetQuiet, Quiet, ResetProgress, New, WritesKnown, ServicesAlone
<1> QED BY <1>1, <1>2, <1>3, <1>4, <1>5, <1>6

LEMMA CloseDriverInv ==
  ASSUME EvaluationInv, CloseDriver
  PROVE  EvaluationInv'
<1> USE DEF EvaluationInv, EvaluationTypeOK, CloseDriver, HostEnds, fixtureVars
<1>1. PlacesOK'
  BY DEF PlacesOK, Stages
<1>2. FlagsOK'
  BY DEF FlagsOK
<1>3. SetsOK'
  BY DEF SetsOK, Actors
<1>4. WritesKnown'
  <2>1. marker => marker'
    BY Zenon
  <2> QED BY <2>1 DEF WritesKnown
<1>5. ServicesAlone'
  BY DEF ServicesAlone, WritesKnown
<1>6. ResetQuiet' /\ ResetProgress'
  BY DEF ResetQuiet, Quiet, ResetProgress, New, WritesKnown, ServicesAlone
<1> QED BY <1>1, <1>2, <1>3, <1>4, <1>5, <1>6

LEMMA ChatInv ==
  ASSUME EvaluationInv, NEW a \in Actors, Chat(a)
  PROVE  EvaluationInv'
<1> USE DEF EvaluationInv, EvaluationTypeOK, Chat, writeVars, fixtureVars
<1>1. PlacesOK'
  BY DEF PlacesOK, Stages
<1>2. FlagsOK'
  BY DEF FlagsOK
<1>3. SetsOK'
  BY DEF SetsOK, Actors
<1>4. WritesKnown'
  BY DEF WritesKnown
<1>5. ServicesAlone'
  BY DEF ServicesAlone, WritesKnown
<1>6. ResetQuiet' /\ ResetProgress'
  BY DEF ResetQuiet, Quiet, ResetProgress, New, WritesKnown, ServicesAlone
<1> QED BY <1>1, <1>2, <1>3, <1>4, <1>5, <1>6

LEMMA LookedInv ==
  ASSUME EvaluationInv, NEW a \in Actors, Looked(a)
  PROVE  EvaluationInv'
<1> USE DEF EvaluationInv, EvaluationTypeOK, Looked, writeVars, dbVars, fixtureVars
<1>1. PlacesOK'
  BY DEF PlacesOK, Stages
<1>2. FlagsOK'
  BY DEF FlagsOK
<1>3. SetsOK'
  BY DEF SetsOK, Actors
<1>4. WritesKnown'
  BY DEF WritesKnown
<1>5. ServicesAlone'
  BY DEF ServicesAlone, WritesKnown
<1>6. ResetQuiet' /\ ResetProgress'
  BY DEF ResetQuiet, Quiet, ResetProgress, New, WritesKnown, ServicesAlone
<1> QED BY <1>1, <1>2, <1>3, <1>4, <1>5, <1>6

\* The steps of the driver that may fail.
LEMMA WriteEndsInv ==
  ASSUME EvaluationInv, Rejected \/ Unanswered
  PROVE  EvaluationInv'
<1> USE DEF Rejected, Unanswered, writeVars, dbVars, fixtureVars
<1>1. /\ maintenance' = "idle" /\ host' # "foreign"
      /\ UNCHANGED <<host, offer, business, records, initialized, java, session, running>>
  BY DEF EvaluationInv, ServicesAlone
<1>2. PICK isUnsafe \in BOOLEAN : Fail(isUnsafe) /\ (written' => isUnsafe)
  <2>1. CASE Rejected
    <3>1. Fail(stage # "steps") /\ ~written' /\ (stage # "steps") \in BOOLEAN
      BY <2>1
    <3> QED BY <3>1
  <2>2. CASE Unanswered
    BY <2>2
  <2> QED BY <2>1, <2>2
<1>3. /\ driver' = "finish" /\ stage' = "off"
      /\ todo' \subseteq Actors /\ unsafe' \in BOOLEAN
  BY <1>2, FailEffect DEF EvaluationInv
<1>4. PlacesOK'
  BY <1>1, <1>3 DEF EvaluationInv, EvaluationTypeOK, PlacesOK, Stages
<1>5. FlagsOK'
  BY <1>1, <1>3 DEF EvaluationInv, EvaluationTypeOK, FlagsOK
<1>6. SetsOK'
  BY <1>1, <1>3 DEF EvaluationInv, EvaluationTypeOK, SetsOK
<1>7. written' => written /\ marker'
  BY DEF EvaluationInv, WritesKnown
<1> QED BY <1>1, <1>2, <1>4, <1>5, <1>6, <1>7, Fails DEF EvaluationTypeOK

\* Recovering a buyer, a step of the task, and their failures.
LEMMA StepsInv ==
  ASSUME EvaluationInv, StepFails \/ \E b \in Buyers : RecoverBuyer(b)
  PROVE  EvaluationInv'
<1> USE DEF StepFails, RecoverBuyer, writeVars, dbVars, fixtureVars
<1>1. /\ maintenance' = "idle" /\ host' # "foreign" /\ ~written'
      /\ UNCHANGED <<host, maintenance, marker, written, offer, business, records,
                     initialized, java, running, unresolved>>
  <2>1. /\ driver \in {"recover", "steps", "chatting"}
        /\ UNCHANGED <<host, maintenance, marker, written, offer, business, records,
                       initialized, java, running, unresolved>>
    OBVIOUS
  <2> QED BY <2>1 DEF EvaluationInv, ServicesAlone, WritesKnown
<1>2. CASE \E isUnsafe \in BOOLEAN : Fail(isUnsafe) /\ UNCHANGED session
  <2>1. PICK isUnsafe \in BOOLEAN : Fail(isUnsafe) /\ UNCHANGED session
    BY <1>2
  <2>2. /\ driver' = "finish" /\ stage' = "off"
        /\ todo' \subseteq Actors /\ unsafe' \in BOOLEAN
    BY <2>1, FailEffect DEF EvaluationInv
  <2>3. EvaluationTypeOK'
    BY <1>1, <2>1, <2>2 DEF EvaluationInv, EvaluationTypeOK, PlacesOK, FlagsOK, SetsOK, Stages
  <2> QED BY <1>1, <2>1, <2>3, Fails
<1>3. ASSUME NEW b \in Buyers, RecoverBuyer(b), b \notin unresolved
      PROVE  EvaluationInv'
  <2>1. driver = "recover" /\ UNCHANGED <<driver, stage, unsafe>>
    BY <1>3
  <2>2. SetsOK'
    BY <1>1, <1>3 DEF EvaluationInv, EvaluationTypeOK, SetsOK, Actors
  <2>3. PlacesOK' /\ FlagsOK'
    BY <1>1, <2>1 DEF EvaluationInv, EvaluationTypeOK, PlacesOK, FlagsOK
  <2>4. WritesKnown' /\ ServicesAlone' /\ ResetQuiet' /\ ResetProgress'
    BY <1>1, <2>1 DEF EvaluationInv, WritesKnown, ServicesAlone, ResetQuiet, ResetProgress, New
  <2> QED BY <2>2, <2>3, <2>4 DEF EvaluationInv, EvaluationTypeOK
<1>4. StepFails \/ (\E b \in Buyers : RecoverBuyer(b) /\ b \in unresolved)
        => \E isUnsafe \in BOOLEAN : Fail(isUnsafe) /\ UNCHANGED session
  OBVIOUS
<1> QED BY <1>2, <1>3, <1>4

\* The steps of a reset that may fail, and their interruption.
LEMMA ResetFailsInv ==
  ASSUME EvaluationInv, StopHost \/ local_reset_preflight \/ ResetEnds \/ InterruptDriver,
         NEW isUnsafe \in BOOLEAN, Fail(isUnsafe)
  PROVE  EvaluationInv'
<1> USE DEF StopHost, local_reset_preflight, ResetEnds, InterruptDriver, HostEnds, writeVars,
    dbVars, fixtureVars
<1>1. /\ driver \in {"recover", "marked", "stopped", "resetting", "restart"}
      /\ UNCHANGED <<marker, written, offer, business, records, initialized, java, session>>
  OBVIOUS
<1>2. /\ driver' = "finish" /\ stage' = "off"
      /\ todo' \subseteq Actors /\ unsafe' \in BOOLEAN
  BY FailEffect DEF EvaluationInv
<1>3. /\ maintenance' = "idle" /\ host' \in {host, "off"}
      /\ UNCHANGED <<running, unresolved>>
  BY <1>1, <1>2 DEF EvaluationInv, ServicesAlone, Step
<1>4. EvaluationTypeOK'
  BY <1>1, <1>2, <1>3 DEF EvaluationInv, EvaluationTypeOK, PlacesOK, FlagsOK, SetsOK, Stages
<1>5. ~written' /\ host' # "foreign"
  BY <1>1, <1>3 DEF EvaluationInv, WritesKnown, ServicesAlone
<1> QED BY <1>3, <1>4, <1>5, Fails

LEMMA StopHostInv ==
  ASSUME EvaluationInv, StopHost
  PROVE  EvaluationInv'
<1>1. CASE Fail(TRUE)
  BY <1>1, ResetFailsInv
<1>2. CASE driver = "recover" /\ driver' = "stopped" /\ HostEnds /\ UNCHANGED <<stage, todo, unsafe>>
  <2> USE <1>2 DEF StopHost, HostEnds, writeVars, fixtureVars
  <2>1. EvaluationTypeOK'
    BY DEF EvaluationInv, EvaluationTypeOK, PlacesOK, FlagsOK, SetsOK
  <2>2. WritesKnown' /\ ServicesAlone' /\ ResetQuiet' /\ ResetProgress'
    BY DEF EvaluationInv, WritesKnown, ServicesAlone, ResetQuiet, ResetProgress
  <2> QED BY <2>1, <2>2 DEF EvaluationInv
<1> QED BY <1>1, <1>2 DEF StopHost

\* The reset begins only on what was found quiet.
LEMMA PreflightInv ==
  ASSUME EvaluationInv, local_reset_preflight
  PROVE  EvaluationInv'
<1> USE DEF local_reset_preflight, writeVars, dbVars, fixtureVars
<1>1. CASE ~Quiet
  BY <1>1, ResetFailsInv
<1>2. CASE Quiet
  <2>1. /\ driver = "stopped" /\ driver' = "resetting" /\ maintenance' = "drain"
        /\ UNCHANGED <<stage, todo, unsafe, marker, written, host, session, running,
                       unresolved, initialized, offer, business, records, java>>
    BY <1>2
  <2>2. EvaluationTypeOK'
    BY <2>1 DEF EvaluationInv, EvaluationTypeOK, PlacesOK, FlagsOK, SetsOK
  <2>3. WritesKnown' /\ ServicesAlone' /\ ResetQuiet' /\ ResetProgress'
    BY <1>2, <2>1 DEF EvaluationInv, WritesKnown, ServicesAlone, ResetQuiet, Quiet, ResetProgress
  <2> QED BY <2>2, <2>3 DEF EvaluationInv
<1> QED BY <1>1, <1>2

\* A reset that succeeded has made both halves of the fixture new.
LEMMA ResetEndsInv ==
  ASSUME EvaluationInv, ResetEnds
  PROVE  EvaluationInv'
<1>1. CASE Fail(TRUE)
  BY <1>1, ResetFailsInv
<1>2. CASE ~Fail(TRUE)
  <2>1. /\ driver = "resetting" /\ driver' = "restart" /\ maintenance = "done" /\ maintenance' = "idle"
        /\ UNCHANGED <<stage, todo, unsafe, marker, written, host, session, running,
                       unresolved, initialized, offer, business, records, java>>
    BY <1>2 DEF ResetEnds, Step, writeVars, dbVars, fixtureVars
  <2>2. EvaluationTypeOK'
    BY <2>1 DEF EvaluationInv, EvaluationTypeOK, PlacesOK, FlagsOK, SetsOK
  <2>3. WritesKnown' /\ ServicesAlone' /\ ResetQuiet' /\ ResetProgress'
    BY <2>1 DEF EvaluationInv, WritesKnown, ServicesAlone, ResetQuiet, ResetProgress, New
  <2> QED BY <2>2, <2>3 DEF EvaluationInv
<1> QED BY <1>1, <1>2

LEMMA DriveInv ==
  ASSUME EvaluationInv, Drive
  PROVE  EvaluationInv'
<1>1. CASE InterruptDriver
  BY <1>1, ResetFailsInv DEF InterruptDriver
<1>2. CASE ChatEnds
  <2> USE <1>2 DEF ChatEnds, writeVars, dbVars, fixtureVars
  <2>1. CASE Fail(TRUE)
    <3>1. /\ driver' = "finish" /\ stage' = "off"
          /\ todo' \subseteq Actors /\ unsafe' \in BOOLEAN
      BY <2>1, FailEffect DEF EvaluationInv
    <3>2. EvaluationTypeOK'
      BY <3>1 DEF EvaluationInv, EvaluationTypeOK, PlacesOK, FlagsOK, SetsOK, Stages
    <3>3. ~written' /\ maintenance' = "idle" /\ host' # "foreign"
      BY DEF EvaluationInv, WritesKnown, ServicesAlone
    <3> QED BY <2>1, <3>2, <3>3, Fails
  <2>2. CASE ~Fail(TRUE)
    <3>1. /\ driver = "chatting" /\ driver' = "steps"
          /\ UNCHANGED <<stage, todo, unsafe, marker, written, host, session, running,
                         unresolved, maintenance, initialized, offer, business, records,
                         java>>
      BY <2>2
    <3>2. EvaluationTypeOK'
      BY <3>1 DEF EvaluationInv, EvaluationTypeOK, PlacesOK, FlagsOK, SetsOK
    <3>3. WritesKnown' /\ ServicesAlone' /\ ResetQuiet' /\ ResetProgress'
      BY <3>1 DEF EvaluationInv, WritesKnown, ServicesAlone, ResetQuiet, ResetProgress, New
    <3> QED BY <3>2, <3>3 DEF EvaluationInv
  <2> QED BY <2>1, <2>2
<1> QED BY <1>1, <1>2, StartDriverInv, BeginTaskInv, LastTaskInv, BeginWriteInv, SendWriteInv, AnsweredInv,
       WriteEndsInv, StepsInv, StopHostInv, PreflightInv, ResetEndsInv, RestartHostInv,
       ExecutedInv, EndTaskInv, CloseDriverInv, ChatInv, LookedInv
    DEF Drive

-----------------------------------------------------------------------------
(* Kills, crashes and people. *)

LEMMA DiesInv ==
  ASSUME EvaluationInv, Kill \/ Crash \/ Inspect
  PROVE  EvaluationInv'
<1> USE DEF EvaluationInv, EvaluationTypeOK, Kill, Crash, Inspect, driverVars, writeVars, dbVars, fixtureVars
<1>1. PlacesOK'
  BY DEF PlacesOK, Stages
<1>2. FlagsOK' /\ SetsOK'
  BY DEF FlagsOK, SetsOK
<1>3. WritesKnown'
  BY DEF WritesKnown
<1>4. ServicesAlone' /\ ResetQuiet' /\ ResetProgress'
  BY DEF ServicesAlone, ResetQuiet, ResetProgress, WritesKnown
<1> QED BY <1>1, <1>2, <1>3, <1>4

LEMMA EvaluationInductive ==
  ASSUME EvaluationInv, [EvaluationNext]_evaluationVars
  PROVE  EvaluationInv'
<1>1. CASE EvaluationNext
  BY <1>1, MaintainInv, ServeInv, DriveInv, DiesInv DEF EvaluationNext, Serve
<1>2. CASE UNCHANGED evaluationVars
  BY <1>2
  DEF evaluationVars, driverVars, writeVars, dbVars, fixtureVars, EvaluationInv, EvaluationTypeOK, PlacesOK, FlagsOK,
      SetsOK, WritesKnown, ServicesAlone, ResetQuiet, Quiet, ResetProgress, New
<1> QED BY <1>1, <1>2

LEMMA EvaluationInvariant == EvaluationSpec => []EvaluationInv
BY EvaluationInitInv, EvaluationInductive, PTL DEF EvaluationSpec

-----------------------------------------------------------------------------
(* The properties. *)

\* A write of an evaluation whose answer is unknown (Evidence.begin_write of
\* run_tasks.py) is on record in the marker file at every instant, through any
\* kills and crashes, until a person has looked.
THEOREM WritesAreMarked == EvaluationSpec => []UnresolvedMarked
<1>1. EvaluationInv => UnresolvedMarked
  BY DEF EvaluationInv, WritesKnown, UnresolvedMarked
<1> QED BY <1>1, EvaluationInvariant, PTL

\* A task never runs on a fixture that was reset by half (reset_fixture of
\* local_runtime.py), whatever failed or died in resets before.
THEOREM TasksRunOnNew == EvaluationSpec => []WholeFixture
<1>1. EvaluationInv => WholeFixture
  BY DEF EvaluationInv, WritesKnown, ServicesAlone, ResetProgress, New, WholeFixture
<1> QED BY <1>1, EvaluationInvariant, PTL

\* What local_reset_preflight of run_tasks.py has found still holds when the
\* business data are destroyed, although other clients, people and crashes may
\* step in between.
THEOREM ResetsAreQuiet == EvaluationSpec => ResetQuietly
<1> DEFINE Destroys == driver = "resetting" /\ maintenance = "seed" /\ maintenance' = "records"
           Nothing == /\ host = "off" /\ ~written
                      /\ running = {} /\ unresolved = {}
                      /\ \A a \in Actors : session[a] # "new"
<1>1. EvaluationInv => [Destroys => Nothing]_evaluationVars
  BY DEF EvaluationInv, WritesKnown, ServicesAlone, ResetQuiet, Quiet
<1>2. ResetQuietly <=> [][Destroys => Nothing]_evaluationVars
  BY DEF ResetQuietly
<1> QED BY <1>1, <1>2, EvaluationInvariant, PTL
=============================================================================
