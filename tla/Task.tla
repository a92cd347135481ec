-------------------------------- MODULE Task --------------------------------
(***************************************************************************)
(* struct task: a thread that waits in a trap until its st is ACTIVATE and *)
(* then runs a job every period until its st is ABORT.  st is a plain      *)
(* field that the thread and its owner read and write without a lock, so a *)
(* test of st and the assignment that follows it are two steps.            *)
(*                                                                         *)
(* fmtx is left out: no other thread ever takes it.                        *)
(***************************************************************************)
EXTENDS Integers

CONSTANTS Uninit,   \* what st may hold before create_task() assigns it
          Periods,  \* the periods in use, in ticks of the clock
          MaxLate,  \* the thread never falls further behind than this
          Faults    \* the library calls that may fail, of:
                    \* "create": pthread_create() or a call before it
                    \* "destroy": pthread_attr_destroy(), after it
                    \* "init": pthread_mutex_init() or _cond_init()
                    \* "wakeup": pthread_cond_timedwait() returns early

Status == {"ACTIVATE", "UNACTIVATE", "RUNNING", "DELAY", "ABORT", "ABORTED"}

ASSUME UninitAssumption == Uninit \subseteq Status
ASSUME PeriodsAssumption == Periods \subseteq Nat
ASSUME MaxLateAssumption == MaxLate \in Nat
ASSUME FaultsAssumption == Faults \subseteq {"create", "destroy", "init", "wakeup"}

VARIABLES st,       \* the status
          period,
          left,     \* next minus now: the time until the thread wakes up
          tpc,      \* where the thread is; "broken": ended by an error
          late      \* jobs begun since st was last set to ABORT, up to 2

tvars == <<st, period, left, tpc, late>>

tpcs == {"none", "start", "trap", "sleep", "enter", "first", "loop", "wait",
         "check", "abort", "run", "ended", "broken"}

(* The thread is past the trap.                                            *)
Alive == tpc \in {"enter", "first", "loop", "wait", "check", "abort", "run"}

TaskInit ==
  /\ st \in Uninit
  /\ period \in Periods
  /\ left = 0
  /\ tpc = "none"
  /\ late = 0

Go(from, to) == tpc = from /\ tpc' = to

(* pthread_create() in create_task().                                      *)
StartThread == Go("none", "start") /\ UNCHANGED <<st, period, left, late>>

(* Mutant: the task is taken for running as soon as it was created.        *)
MutAssignStatus == st' = "RUNNING" /\ UNCHANGED <<period, left, tpc, late>>

(* st = UNACTIVATE, after the thread was started.                          *)
AssignStatus == st' = "UNACTIVATE" /\ UNCHANGED <<period, left, tpc, late>>

-----------------------------------------------------------------------------
(* The mutex and the condition variable are made; the thread gives up if   *)
(* that fails.                                                             *)
InitSync ==
  /\ \/ Go("start", "trap")
     \/ "init" \in Faults /\ Go("start", "broken")
  /\ UNCHANGED <<st, period, left, late>>

(* Mutant: the trap lets every status through.                             *)
MutTrap ==
  /\ \/ Go("trap", "enter")
     \/ st # "ACTIVATE" /\ Go("trap", "sleep")
  /\ UNCHANGED <<st, period, left, late>>

(* The trap tests st ...                                                   *)
Trap ==
  /\ \/ st = "ACTIVATE" /\ Go("trap", "enter")
     \/ st # "ACTIVATE" /\ Go("trap", "sleep")
  /\ UNCHANGED <<st, period, left, late>>

(* ... and is tried again after nanosleep().                               *)
TrapAgain == Go("sleep", "trap") /\ UNCHANGED <<st, period, left, late>>

(* Mutant: the status is left as enable() set it.                          *)
MutLeaveTrap == Go("enter", "first") /\ UNCHANGED <<st, period, left, late>>

(* st = RUNNING, whatever it has become since it was tested.               *)
LeaveTrap ==
  /\ Go("enter", "first")
  /\ st' = "RUNNING"
  /\ UNCHANGED <<period, left, late>>

(* clock_gettime(&next)                                                    *)
FirstRelease ==
  /\ Go("first", "loop")
  /\ left' = 0
  /\ UNCHANGED <<st, period, late>>

(* next += period; a missed deadline is only printed.                      *)
NextRelease ==
  /\ Go("loop", "wait")
  /\ left' = left + period
  /\ UNCHANGED <<st, period, late>>

(* Mutant: the wait is over before next.                                   *)
MutTimedWait ==
  /\ \/ left <= 1 /\ Go("wait", "check")
     \/ "wakeup" \in Faults /\ Go("wait", "broken")
  /\ UNCHANGED <<st, period, left, late>>

(* pthread_cond_timedwait() returns ETIMEDOUT at next, at once if next is  *)
(* over already; anything else it returns ends the thread.                 *)
TimedWait ==
  /\ \/ left <= 0 /\ Go("wait", "check")
     \/ "wakeup" \in Faults /\ Go("wait", "broken")
  /\ UNCHANGED <<st, period, left, late>>

(* Mutant: the status is not looked at between two jobs.                   *)
MutCheckAbort ==
  /\ \/ st = "ABORTED" /\ Go("check", "abort")
     \/ st # "ABORTED" /\ Go("check", "run")
  /\ UNCHANGED <<st, period, left, late>>

(* Mutant: anything but an enabled monitor is aborted.                     *)
MutCheckStatus ==
  /\ \/ st # "ACTIVATE" /\ Go("check", "abort")
     \/ st = "ACTIVATE" /\ Go("check", "run")
  /\ UNCHANGED <<st, period, left, late>>

(* if (st == ABORT) ...                                                    *)
CheckAbort ==
  /\ \/ st = "ABORT" /\ Go("check", "abort")
     \/ st # "ABORT" /\ Go("check", "run")
  /\ UNCHANGED <<st, period, left, late>>

(* ... { st = ABORTED; return NULL; }                                      *)
Aborted ==
  /\ Go("abort", "ended")
  /\ st' = "ABORTED"
  /\ UNCHANGED <<period, left, late>>

(* run(run_payload)                                                        *)
RunJob ==
  /\ Go("run", "loop")
  /\ late' = IF late < 2 THEN late + 1 ELSE late
  /\ UNCHANGED <<st, period, left>>

ThreadStep ==
  \/ InitSync \/ Trap \/ TrapAgain \/ LeaveTrap \/ FirstRelease
  \/ NextRelease \/ TimedWait \/ CheckAbort \/ Aborted \/ RunJob

(* Time passes, while the thread waits or is held up.                      *)
Tick ==
  /\ left > -MaxLate
  /\ left' = left - 1
  /\ UNCHANGED <<st, period, tpc, late>>

(* Types; the next release is never more than one period ahead.            *)
TaskTypeOK ==
  /\ st \in Status
  /\ period \in Periods
  /\ left \in Int
  /\ left >= -MaxLate
  /\ \E p \in Periods : left <= p
  /\ tpc \in tpcs
  /\ late \in 0 .. 2

=============================================================================
