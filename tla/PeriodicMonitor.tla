-------------------------- MODULE PeriodicMonitor --------------------------
(***************************************************************************)
(* RTML_monitor: the life cycle of a periodic monitor as its owner drives  *)
(* it.  The owner constructs the monitor, which starts its Task, and then  *)
(* calls enable, disable, isRunning, setPeriod and join.                   *)
(***************************************************************************)
EXTENDS Task

CONSTANT Owner    \* how the owner uses the monitor:
                  \* "any": calls in any order;
                  \* "tests": enable once, then disable once, then join

ASSUME OwnerAssumption == Owner \in {"any", "tests"}

VARIABLES opc,      \* where the owner is
          (* History variables: no guard of a call but "tests" reads them. *)
          enables,  \* how often enable() was called, up to 2
          assigned, \* did create_task(), enable() or disable() assign st?
          early,    \* did the thread leave the trap before they did?
          sure,     \* did isRunning() return true once st was assigned?
          stopping  \* "no", or disable() returned, and enable() has not set
                    \* st since: "sure" if sure then, "rash" if not

ovars == <<opc, enables, assigned, early, sure, stopping>>
vars == <<tvars, ovars>>

opcs == {"create", "assign", "ready", "enable", "disable", "join", "done"}

Init ==
  /\ TaskInit
  /\ opc = "create"
  /\ enables = 0
  /\ assigned = FALSE
  /\ early = FALSE
  /\ sure = FALSE
  /\ stopping = "no"

(* The constructor: create_task() starts the thread and then sets st.  Its *)
(* error code is ignored, and if pthread_attr_destroy() is what failed the *)
(* thread is there but st is not set.                                      *)
Create ==
  /\ opc = "create"
  /\ \/ StartThread /\ opc' = "assign"
     \/ "create" \in Faults /\ opc' = "ready" /\ UNCHANGED tvars
     \/ "destroy" \in Faults /\ opc' = "ready" /\ StartThread
  /\ UNCHANGED <<enables, assigned, early, sure, stopping>>

Assign ==
  /\ opc = "assign"
  /\ opc' = "ready"
  /\ AssignStatus
  /\ assigned' = TRUE
  /\ UNCHANGED <<enables, early, sure, stopping>>

(* if (_task.st != ACTIVATE) ...                                           *)
enable ==
  /\ opc = "ready"
  /\ Owner = "tests" => enables = 0
  /\ opc' = IF st # "ACTIVATE" THEN "enable" ELSE "ready"
  /\ enables' = IF enables < 2 THEN enables + 1 ELSE enables
  /\ UNCHANGED <<tvars, assigned, early, sure, stopping>>

(* ... _task.st = ACTIVATE                                                 *)
SetActivate ==
  /\ opc = "enable"
  /\ opc' = "ready"
  /\ st' = "ACTIVATE"
  /\ assigned' = TRUE
  /\ stopping' = "no"
  /\ UNCHANGED <<period, left, tpc, late, enables, early, sure>>

Stopping == IF sure THEN "sure" ELSE "rash"

(* if (_task.st != ABORT) ...                                              *)
disable ==
  /\ opc = "ready"
  /\ Owner = "tests" => enables > 0 /\ stopping = "no"
  /\ \/ /\ st # "ABORT"
        /\ opc' = "disable"
        /\ UNCHANGED stopping
     \/ /\ st = "ABORT"
        /\ opc' = "ready"
        /\ stopping' = Stopping
  /\ UNCHANGED <<tvars, enables, assigned, early, sure>>

(* Mutant: disable() undoes enable() instead of asking for an abort.       *)
MutSetAbort ==
  /\ opc = "disable"
  /\ opc' = "ready"
  /\ st' = "UNACTIVATE"
  /\ late' = 0
  /\ assigned' = TRUE
  /\ stopping' = Stopping
  /\ UNCHANGED <<period, left, tpc, enables, early, sure>>

(* _task.st = ABORT                                                        *)
SetAbort ==
  /\ opc = "disable"
  /\ opc' = "ready"
  /\ st' = "ABORT"
  /\ late' = 0
  /\ assigned' = TRUE
  /\ stopping' = Stopping
  /\ UNCHANGED <<period, left, tpc, enables, early, sure>>

isRunning ==
  /\ opc = "ready"
  /\ sure' = (sure \/ (assigned /\ st = "RUNNING"))
  /\ UNCHANGED <<tvars, opc, enables, assigned, early, stopping>>

setPeriod(p) ==
  /\ opc = "ready"
  /\ period' = p
  /\ UNCHANGED <<st, left, tpc, late, ovars>>

(* pthread_join(), of a thread that was created; it returns once the       *)
(* thread has ended, and nothing may be called after it.                   *)
join ==
  /\ opc = "ready"
  /\ tpc # "none"
  /\ Owner = "tests" => stopping # "no"
  /\ opc' = "join"
  /\ UNCHANGED <<tvars, enables, assigned, early, sure, stopping>>

Joined ==
  /\ opc = "join"
  /\ tpc \in {"ended", "broken"}
  /\ opc' = "done"
  /\ UNCHANGED <<tvars, enables, assigned, early, sure, stopping>>

(* A step of the thread, which knows nothing of the owner.                 *)
Thread ==
  /\ ThreadStep
  /\ early' = (early \/ (~assigned /\ tpc = "trap" /\ tpc' = "enter"))
  /\ UNCHANGED <<opc, enables, assigned, sure, stopping>>

(* The owner inside a call.                                                *)
OwnerStep == Create \/ Assign \/ SetActivate \/ SetAbort \/ Joined

OwnerCall ==
  \/ enable \/ disable \/ isRunning \/ join
  \/ \E p \in Periods : setPeriod(p)

Next ==
  \/ Thread
  \/ Tick /\ UNCHANGED ovars
  \/ OwnerStep
  \/ OwnerCall

Spec == Init /\ [][Next]_vars

(* The thread is scheduled, time passes, and a call the owner is in goes   *)
(* on; the owner need not call anything.                                   *)
FairSpec ==
  /\ Spec
  /\ WF_vars(Thread)
  /\ WF_vars(Tick /\ UNCHANGED ovars)
  /\ WF_vars(OwnerStep)

-----------------------------------------------------------------------------
(* Types.                                                                  *)
TypeOK ==
  /\ TaskTypeOK
  /\ opc \in opcs
  /\ enables \in 0 .. 2
  /\ assigned \in BOOLEAN
  /\ early \in BOOLEAN
  /\ sure \in BOOLEAN
  /\ stopping \in {"no", "rash", "sure"}

(* "trap to block task start": the thread gets past the trap only after    *)
(* enable() was called, except before create_task() has assigned st: it    *)
(* does so after it has started the thread, which may find ACTIVATE in the *)
(* memory of st (ACTIVATE is 0) and run jobs unasked.                      *)
TrapBlocks == Alive => enables > 0 \/ early

(* "returns true if the monitor is running": once st was assigned, RUNNING *)
(* is the status of a thread that is past the trap and has not ended, or   *)
(* that an error of pthread_cond_timedwait() has ended: that path returns  *)
(* without a word to st.                                                   *)
RunningMeansAlive == assigned /\ st = "RUNNING" => Alive \/ tpc = "broken"

(* ... and it is the status of every thread in its job loop that was       *)
(* enabled and not disabled.  It is not after a second enable(), which     *)
(* sets ACTIVATE, nor when create_task() sets UNACTIVATE after the thread  *)
(* has left the trap.                                                      *)
AliveMeansRunning ==
  /\ tpc \in {"loop", "wait", "check", "run"}
  /\ enables = 1
  /\ ~early
  /\ stopping = "no"
  => st = "RUNNING"

(* After a disable() that follows an isRunning() that said so, the job in  *)
(* progress ends or one more is released, and no other.                    *)
AtMostOneLateJob == stopping = "sure" => late <= 1

(* "Disables the monitor": after such a disable() the thread ends, so that *)
(* join() returns, unless enable() is called again.                        *)
DisableStops ==
  stopping = "sure" ~> (tpc \in {"ended", "broken"} \/ stopping # "sure")

(* ... and so it does, says the test, after any disable().                 *)
DisableEnds ==
  stopping # "no" ~> (tpc \in {"ended", "broken"} \/ stopping = "no")

(* A monitor in its job loop keeps running jobs until it is disabled or    *)
(* broken, enabled once, twice or by accident.                             *)
JobsGoOn == tpc = "loop" ~> (tpc \in {"run", "broken"} \/ stopping # "no")

=============================================================================
