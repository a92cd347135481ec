------------------------ MODULE PeriodicMonitorProofs ------------------------
(***************************************************************************)
(* What holds of a periodic monitor for every set of periods, every bound  *)
(* on lateness, every owner, every fault and whatever the memory of st     *)
(* held before it was assigned.                                            *)
(***************************************************************************)
EXTENDS PeriodicMonitor, TLAPS

(* The owner's calls return a typed state.                                 *)
LEMMA TypeOwner == TypeOK /\ (OwnerStep \/ OwnerCall) => TypeOK'
  <1>1. SUFFICES ASSUME TypeOK, OwnerStep \/ OwnerCall PROVE TypeOK'
    OBVIOUS
  <1> USE DEF TypeOK, TaskTypeOK, Status, tpcs, opcs, Stopping
  <1>2. CASE Create
    BY <1>1, <1>2 DEF Create, StartThread, Go, tvars
  <1>3. CASE Assign
    BY <1>1, <1>3 DEF Assign, AssignStatus
  <1>4. CASE SetActivate
    BY <1>1, <1>4 DEF SetActivate
  <1>5. CASE SetAbort
    BY <1>1, <1>5 DEF SetAbort
  <1>6. CASE Joined
    BY <1>1, <1>6 DEF Joined, tvars
  <1>7. CASE enable
    BY <1>1, <1>7 DEF enable, tvars
  <1>8. CASE disable
    BY <1>1, <1>8 DEF disable, tvars
  <1>9. CASE isRunning
    BY <1>1, <1>9 DEF isRunning, tvars
  <1>10. CASE join
    BY <1>1, <1>10 DEF join, tvars
  <1>11. CASE \E p \in Periods : setPeriod(p)
    BY <1>1, <1>11 DEF setPeriod, ovars
  <1> QED
    BY <1>1, <1>2, <1>3, <1>4, <1>5, <1>6, <1>7, <1>8, <1>9, <1>10, <1>11
       DEF OwnerStep, OwnerCall

(* Wherever the thread computes next, the previous one is over.            *)
ReleaseInv == tpc \in {"check", "run", "loop"} => left <= 0

(* Every step keeps the types and the release times.                       *)
LEMMA TypeStep == TypeOK /\ ReleaseInv /\ [Next]_vars => TypeOK' /\ ReleaseInv'
  <1>1. SUFFICES ASSUME TypeOK, ReleaseInv, [Next]_vars
                 PROVE  TypeOK' /\ ReleaseInv'
    OBVIOUS
  <1>2. CASE Thread
    <2>0. ThreadStep /\ early' \in BOOLEAN
      BY <1>1, <1>2 DEF Thread, TypeOK
    <2>a. UNCHANGED <<opc, enables, assigned, sure, stopping>>
      BY <1>2 DEF Thread
    <2> USE <1>1, <2>0, <2>a, PeriodsAssumption, MaxLateAssumption
        DEF TypeOK, TaskTypeOK, ReleaseInv, Status, tpcs, Go
    <2>1. CASE InitSync     BY <2>1 DEF InitSync
    <2>2. CASE Trap         BY <2>2 DEF Trap
    <2>3. CASE TrapAgain    BY <2>3 DEF TrapAgain
    <2>4. CASE LeaveTrap    BY <2>4 DEF LeaveTrap
    <2>5. CASE FirstRelease BY <2>5 DEF FirstRelease
    <2>6. CASE NextRelease
      <3>1. left' = left + period /\ period' = period /\ period \in Nat
        BY <2>6 DEF NextRelease
      <3>2. left <= 0 /\ left >= -MaxLate /\ left \in Int
        BY <2>6 DEF NextRelease
      <3>3. left' \in Int /\ left' >= -MaxLate /\ left' <= period
        BY <3>1, <3>2
      <3> QED BY <2>6, <3>1, <3>3 DEF NextRelease
    <2>7. CASE TimedWait    BY <2>7 DEF TimedWait
    <2>8. CASE CheckAbort   BY <2>8 DEF CheckAbort
    <2>9. CASE Aborted      BY <2>9 DEF Aborted
    <2>10. CASE RunJob      BY <2>10 DEF RunJob
    <2> QED
      BY <2>1, <2>2, <2>3, <2>4, <2>5, <2>6, <2>7, <2>8, <2>9, <2>10
         DEF ThreadStep
  <1>3. CASE Tick /\ UNCHANGED ovars
    <2>1. left' = left - 1 /\ left > -MaxLate /\ left \in Int
      BY <1>1, <1>3 DEF Tick, TypeOK, TaskTypeOK
    <2>2. left' \in Int /\ left' >= -MaxLate /\ left' <= left
      BY <2>1, MaxLateAssumption
    <2>3. \E p \in Periods : left' <= p
      BY <1>1, <2>1, <2>2, PeriodsAssumption DEF TypeOK, TaskTypeOK
    <2> QED
      BY <1>1, <1>3, <2>1, <2>2, <2>3
         DEF Tick, TypeOK, TaskTypeOK, ReleaseInv, ovars
  <1>4. CASE OwnerStep \/ OwnerCall
    <2>1. TypeOK'
      BY <1>1, <1>4, TypeOwner
    <2>2. left' = left /\ tpc' \in {tpc, "start"}
      BY <1>4 DEF OwnerStep, OwnerCall, Create, StartThread, Go, Assign,
         AssignStatus, SetActivate, SetAbort, Joined, enable, disable,
         isRunning, join, setPeriod, tvars
    <2> QED BY <1>1, <2>1, <2>2 DEF ReleaseInv
  <1>5. CASE UNCHANGED vars
    BY <1>1, <1>5 DEF vars, tvars, ovars, TypeOK, TaskTypeOK, ReleaseInv
  <1> QED
    BY <1>1, <1>2, <1>3, <1>4, <1>5 DEF Next

(* The types hold, and a wait is never for longer than a period: whatever  *)
(* setPeriod is called with, and however late the thread is.               *)
THEOREM TypeCorrect == Spec => []TypeOK
  <1>1. Init => TypeOK /\ ReleaseInv
    <2>1. SUFFICES ASSUME Init PROVE TypeOK /\ ReleaseInv
      OBVIOUS
    <2>2. period \in Nat /\ left = 0 /\ late = 0 /\ tpc = "none"
      BY <2>1, PeriodsAssumption DEF Init, TaskInit
    <2>3. 0 >= -MaxLate /\ 0 <= period
      BY <2>2, MaxLateAssumption
    <2>4. TaskTypeOK
      BY <2>1, <2>2, <2>3, UninitAssumption
         DEF Init, TaskInit, TaskTypeOK, Status, tpcs
    <2>5. opc \in opcs /\ enables \in 0 .. 2
      BY <2>1 DEF Init, opcs
    <2>6. /\ assigned \in BOOLEAN /\ early \in BOOLEAN /\ sure \in BOOLEAN
          /\ stopping \in {"no", "rash", "sure"}
      BY <2>1, Zenon DEF Init
    <2>7. ReleaseInv
      BY <2>2 DEF ReleaseInv
    <2> QED
      BY <2>4, <2>5, <2>6, <2>7, Zenon DEF TypeOK
  <1>2. TypeOK /\ ReleaseInv /\ [Next]_vars => (TypeOK /\ ReleaseInv)'
    BY TypeStep
  <1> QED
    BY <1>1, <1>2, PTL DEF Spec

-----------------------------------------------------------------------------
(* Once st was assigned nothing but enable() sets ACTIVATE, so the trap is *)
(* shut until then; before, a thread that gets past it is early.           *)
TrapInv ==
  /\ opc = "enable" => enables > 0
  /\ assigned /\ enables = 0 => st # "ACTIVATE"
  /\ TrapBlocks

(* A step keeps the trap shut until enable() is called.                    *)
LEMMA TrapStep == TypeOK /\ TrapInv /\ [Next]_vars => TrapInv'
  <1>1. SUFFICES ASSUME TypeOK, TrapInv, [Next]_vars PROVE TrapInv'
    OBVIOUS
  <1>2. enables \in {0, 1, 2} /\ assigned \in BOOLEAN /\ early \in BOOLEAN
    BY <1>1 DEF TypeOK
  <1> USE DEF TrapInv, TrapBlocks, Alive
  <1>3. CASE Thread
    <2>1. /\ early => early'
          /\ ~assigned /\ tpc = "trap" /\ tpc' = "enter" => early'
      BY <1>3, Zenon DEF Thread
    <2>2. ThreadStep /\ UNCHANGED <<opc, enables, assigned>>
      BY <1>3 DEF Thread
    <2>3. CASE Trap
      BY <1>1, <1>2, <2>1, <2>2, <2>3 DEF Trap, Go
    <2>4. CASE ~Trap
      BY <1>1, <2>1, <2>2, <2>4 DEF ThreadStep, InitSync, TrapAgain,
         LeaveTrap, FirstRelease, NextRelease, TimedWait, CheckAbort, Aborted,
         RunJob, Go
    <2> QED BY <2>3, <2>4
  <1>4. CASE Tick /\ UNCHANGED ovars
    BY <1>1, <1>4 DEF Tick, ovars
  <1>5. CASE OwnerStep
    BY <1>1, <1>2, <1>5 DEF OwnerStep, Create, StartThread, Go, Assign,
       AssignStatus, SetActivate, SetAbort, Joined, tvars
  <1>6. CASE OwnerCall
    BY <1>1, <1>2, <1>6 DEF OwnerCall, enable, disable, isRunning, join,
       setPeriod, tvars, ovars
  <1>7. CASE UNCHANGED vars
    BY <1>1, <1>7 DEF vars, tvars, ovars
  <1> QED
    BY <1>1, <1>3, <1>4, <1>5, <1>6, <1>7 DEF Next

(* Whatever the owner does, whatever fails and whatever st held, no job    *)
(* runs before enable() unless the thread found ACTIVATE in st before      *)
(* create_task(), or the owner, had assigned it.                           *)
THEOREM TrapHolds == Spec => []TrapBlocks
  <1>1. Init => TrapInv
    BY DEF Init, TaskInit, TrapInv, TrapBlocks, Alive
  <1>2. TypeOK /\ TypeOK' /\ TrapInv /\ [Next]_vars => TrapInv'
    BY TrapStep
  <1>3. TrapInv => TrapBlocks
    BY DEF TrapInv
  <1> QED
    BY <1>1, <1>2, <1>3, TypeCorrect, PTL DEF Spec

-----------------------------------------------------------------------------
(* While the constructor runs nobody has assigned st, and the thread       *)
(* exists only once it was created.                                        *)
CtorInv ==
  /\ opc \in {"create", "assign"} => ~assigned /\ ~sure /\ stopping = "no"
  /\ opc = "create" => tpc = "none"

(* RUNNING is only the status of a thread that is alive or broken.         *)
RunningInv == CtorInv /\ RunningMeansAlive

(* Only an error of the wait can leave RUNNING behind.                     *)
LEMMA RunningStep == RunningInv /\ [Next]_vars => RunningInv'
  <1>1. SUFFICES ASSUME RunningInv, [Next]_vars PROVE RunningInv'
    OBVIOUS
  <1> USE DEF RunningInv, CtorInv, RunningMeansAlive, Alive
  <1>2. CASE Thread
    BY <1>1, <1>2 DEF Thread, ThreadStep, InitSync, Trap, TrapAgain, LeaveTrap,
       FirstRelease, NextRelease, TimedWait, CheckAbort, Aborted, RunJob, Go
  <1>3. CASE Tick /\ UNCHANGED ovars
    BY <1>1, <1>3 DEF Tick, ovars
  <1>4. CASE OwnerStep
    BY <1>1, <1>4 DEF OwnerStep, Create, StartThread, Go, Assign, AssignStatus,
       SetActivate, SetAbort, Joined, tvars
  <1>5. CASE OwnerCall
    BY <1>1, <1>5 DEF OwnerCall, enable, disable, isRunning, join, setPeriod,
       tvars, ovars
  <1>6. CASE UNCHANGED vars
    BY <1>1, <1>6 DEF vars, tvars, ovars
  <1> QED
    BY <1>1, <1>2, <1>3, <1>4, <1>5, <1>6 DEF Next

(* isRunning() never says so of a thread that waits in the trap, that was  *)
(* never created or that disable() has ended.                              *)
THEOREM RunningIsAlive == Spec => []RunningMeansAlive
  <1>1. Init => RunningInv
    BY DEF Init, TaskInit, RunningInv, CtorInv, RunningMeansAlive
  <1>2. RunningInv /\ [Next]_vars => RunningInv'
    BY RunningStep
  <1>3. RunningInv => RunningMeansAlive
    BY DEF RunningInv
  <1> QED
    BY <1>1, <1>2, <1>3, PTL DEF Spec

-----------------------------------------------------------------------------
(* The thread has set RUNNING, so it will not overwrite an ABORT; or there *)
(* is no thread.                                                           *)
Past == tpc \in {"none", "first", "loop", "wait", "check", "abort", "run",
                 "ended", "broken"}

(* What an owner that saw RUNNING knows: the thread is past the trap;      *)
(* after disable() st stays ABORT until the thread has taken notice, and   *)
(* after one late job the thread is on its way to do so.                   *)
SureInv ==
  /\ CtorInv
  /\ assigned /\ st = "RUNNING" => Past
  /\ sure => Past /\ assigned
  /\ sure /\ st = "ABORT" => late \in {0, 1} /\ (late = 1 => tpc # "run")
  /\ stopping = "sure" => /\ sure
                          /\ st = "ABORT" \/ tpc = "ended"
                          /\ late \in {0, 1}

(* A disable() after RUNNING was seen is not lost.                         *)
LEMMA SureStep == SureInv /\ [Next]_vars => SureInv'
  <1>1. SUFFICES ASSUME SureInv, [Next]_vars PROVE SureInv'
    OBVIOUS
  <1> USE DEF SureInv, CtorInv, Past
  <1>2. CASE Thread
    <2>1. ThreadStep /\ UNCHANGED <<opc, assigned, sure, stopping>>
      BY <1>2 DEF Thread
    <2>2. CASE RunJob
      BY <1>1, <2>1, <2>2 DEF RunJob, Go
    <2>3. CASE ~RunJob
      BY <1>1, <2>1, <2>3 DEF ThreadStep, InitSync, Trap, TrapAgain, LeaveTrap,
         FirstRelease, NextRelease, TimedWait, CheckAbort, Aborted, Go
    <2> QED BY <2>2, <2>3
  <1>3. CASE Tick /\ UNCHANGED ovars
    BY <1>1, <1>3 DEF Tick, ovars
  <1>4. CASE OwnerStep
    BY <1>1, <1>4 DEF OwnerStep, Create, StartThread, Go, Assign, AssignStatus,
       SetActivate, SetAbort, Joined, tvars, Stopping
  <1>5. CASE OwnerCall
    <2>1. CASE isRunning
      <3>1. sure' => sure \/ (assigned /\ st = "RUNNING")
        BY <2>1, Zenon DEF isRunning
      <3> QED BY <1>1, <2>1, <3>1 DEF isRunning, tvars
    <2>2. CASE disable
      BY <1>1, <2>2 DEF disable, tvars, Stopping
    <2>3. CASE enable \/ join \/ \E p \in Periods : setPeriod(p)
      BY <1>1, <2>3 DEF enable, join, setPeriod, tvars, ovars
    <2> QED BY <1>5, <2>1, <2>2, <2>3 DEF OwnerCall
  <1>6. CASE UNCHANGED vars
    BY <1>1, <1>6 DEF vars, tvars, ovars
  <1> QED
    BY <1>1, <1>2, <1>3, <1>4, <1>5, <1>6 DEF Next

(* An owner that disables after isRunning() said so gets at most one more  *)
(* job: the thread sees ABORT before it would run another.                 *)
THEOREM FewLateJobs == Spec => []AtMostOneLateJob
  <1>1. Init => SureInv
    BY DEF Init, TaskInit, SureInv, CtorInv, Past
  <1>2. SureInv /\ [Next]_vars => SureInv'
    BY SureStep
  <1>3. SureInv => AtMostOneLateJob
    BY DEF SureInv, AtMostOneLateJob
  <1> QED
    BY <1>1, <1>2, <1>3, PTL DEF Spec

-----------------------------------------------------------------------------
(* The first enable() finds the thread in the trap or not yet there, and   *)
(* until it sets ACTIVATE the trap is shut, unless the thread came early;  *)
(* from then on nothing but disable() takes RUNNING away.                  *)
OneEnableInv ==
  /\ opc \in {"create", "assign"} => enables = 0 /\ ~assigned
  /\ opc = "enable" => enables > 0
  /\ (enables = 0 \/ (enables = 1 /\ opc = "enable")) /\ ~early
       => ~Alive /\ (assigned => st # "ACTIVATE")
  /\ ~assigned /\ Alive => early
  /\ tpc = "first" /\ enables = 1 /\ ~early /\ stopping = "no"
       => st = "RUNNING"
  /\ AliveMeansRunning

(* No step of the thread or of the owner breaks that.                      *)
LEMMA OneEnableStep == TypeOK /\ OneEnableInv /\ [Next]_vars => OneEnableInv'
  <1>1. SUFFICES ASSUME TypeOK, OneEnableInv, [Next]_vars PROVE OneEnableInv'
    OBVIOUS
  <1>2. enables \in {0, 1, 2} /\ assigned \in BOOLEAN /\ early \in BOOLEAN
    BY <1>1 DEF TypeOK
  <1> USE DEF OneEnableInv, AliveMeansRunning, Alive
  <1>3. CASE Thread
    BY <1>1, <1>2, <1>3 DEF Thread, ThreadStep, InitSync, Trap, TrapAgain,
       LeaveTrap, FirstRelease, NextRelease, TimedWait, CheckAbort, Aborted,
       RunJob, Go
  <1>4. CASE Tick /\ UNCHANGED ovars
    BY <1>1, <1>4 DEF Tick, ovars
  <1>5. CASE OwnerStep
    BY <1>1, <1>2, <1>5 DEF OwnerStep, Create, StartThread, Go, Assign,
       AssignStatus, SetActivate, SetAbort, Joined, tvars, Stopping
  <1>6. CASE enable
    BY <1>1, <1>2, <1>6 DEF enable, tvars
  <1>7. CASE disable
    BY <1>1, <1>7 DEF disable, tvars, Stopping
  <1>8. CASE isRunning \/ join \/ \E p \in Periods : setPeriod(p)
    BY <1>1, <1>8 DEF isRunning, join, setPeriod, tvars, ovars
  <1>9. CASE UNCHANGED vars
    BY <1>1, <1>9 DEF vars, tvars, ovars
  <1> QED
    BY <1>1, <1>3, <1>4, <1>5, <1>6, <1>7, <1>8, <1>9 DEF Next, OwnerCall

(* isRunning() says so of every thread in its job loop that was enabled    *)
(* once and not disabled, unless it had left the trap before st was        *)
(* assigned.                                                               *)
THEOREM AliveIsRunning == Spec => []AliveMeansRunning
  <1>1. Init => OneEnableInv
    BY DEF Init, TaskInit, OneEnableInv, Alive, AliveMeansRunning
  <1>2. TypeOK /\ TypeOK' /\ OneEnableInv /\ [Next]_vars => OneEnableInv'
    BY OneEnableStep
  <1>3. OneEnableInv => AliveMeansRunning
    BY DEF OneEnableInv
  <1> QED
    BY <1>1, <1>2, <1>3, TypeCorrect, PTL DEF Spec

=============================================================================
