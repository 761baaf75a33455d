----------------------------- MODULE WorkerSleep -----------------------------
(***************************************************************************)
(* How the threads of scheduler.h fall asleep, wake each other and exit:   *)
(* go_sleep, may_wake_others, the loop of a spawned thread and ~Scheduler, *)
(* one action per access to a shared atomic.                               *)
(*                                                                         *)
(* wait_flag is only ever compared for equality with the value go_sleep    *)
(* loaded, so its value is abstracted to the set of threads for which it   *)
(* has moved since then; that 2^32 increments might fall between two       *)
(* instructions of one thread is left out.                                 *)
(***************************************************************************)
EXTENDS Integers, FiniteSets

CONSTANTS
  NumThreads,    \* num_threads, from TOGGLE_NUM_WORKERS
  MaxJobs        \* bound on the jobs in one deque

ASSUME SleepAssumption ==
  NumThreads \in Nat \ {0} /\ MaxJobs \in Nat \ {0}

Threads == 0..(NumThreads - 1)
Main    == 0
Spawned == Threads \ {Main}

VARIABLES
  pc,              \* where each thread is
  holds,           \* threads that have stolen a job and not finished it
  moved,           \* threads for which wait_flag # the epoch they loaded
  num_awake,
  num_exits,
  finished_flag,
  jobs             \* number of unclaimed jobs in each deque

sleep_vars == <<pc, holds, moved, num_awake, num_exits, finished_flag, jobs>>
sync == <<moved, num_awake, num_exits, finished_flag>>

(***************************************************************************)
(* run: in user code; push_first, push_next: in push_bottom; check, try,   *)
(* resume: in the loop of a spawned thread; load, sub, wait, blocked, add: *)
(* in go_sleep; wake, bump, notify: in may_wake_others; close: in the loop *)
(* of ~Scheduler.                                                          *)
(***************************************************************************)
Sleeping   == {"wait", "blocked", "add"}
Waking     == {"wake", "bump", "notify"}
PushPlaces == {"push_first", "push_next"}
SleepPlaces == Sleeping \cup Waking \cup PushPlaces \cup
               {"run", "check", "try", "resume", "load", "sub", "close", "exited"}

SleepInit ==
  /\ pc = [t \in Threads |-> IF t = Main THEN "run" ELSE "load"]
  /\ holds = {}
  /\ moved = {}
  /\ num_awake = NumThreads
  /\ num_exits = 0
  /\ finished_flag = FALSE
  /\ jobs = [t \in Threads |-> 0]

Goto(t, p) == pc' = [pc EXCEPT ![t] = p]

(* Where may_wake_others returns to. *)
Resumed(t) ==
  IF t \in holds \/ (t = Main /\ ~ finished_flag) THEN "run"
  ELSE IF t = Main THEN "close" ELSE "resume"

-----------------------------------------------------------------------------
(***************************************************************************)
(* parallel_do in user code: push_bottom loads the position of the deque,  *)
(* which decides whether the job is the first in it.  A push that finds    *)
(* its slot in use changes nothing.                                        *)
(***************************************************************************)
LengthLoad(t) ==
  /\ pc[t] = "run" /\ jobs[t] < MaxJobs
  /\ Goto(t, IF jobs[t] = 0 THEN "push_first" ELSE "push_next")
  /\ UNCHANGED <<holds, jobs, sync>>

(* push_bottom publishes the job, and the others are woken if it was to be  *)
(* the first; that those before it have been stolen meanwhile is not seen.  *)
JobPublish(t) ==
  /\ pc[t] \in PushPlaces
  /\ jobs' = [jobs EXCEPT ![t] = @ + 1]
  /\ Goto(t, IF pc[t] = "push_first" THEN "wake" ELSE "run")
  /\ UNCHANGED <<holds, sync>>

Push(t) == LengthLoad(t) \/ JobPublish(t)

(* pop_bottom gets the job back; it runs as part of the user code. *)
Pop(t) ==
  /\ pc[t] = "run" /\ jobs[t] > 0
  /\ jobs' = [jobs EXCEPT ![t] = @ - 1]
  /\ UNCHANGED <<pc, holds, sync>>

(***************************************************************************)
(* pop_top on some victim, from the loop of a thread or while it waits in  *)
(* user code.  It may get a job, or lose the race for it; unless it saw    *)
(* the deque empty or took the last job, it wakes the others.              *)
(***************************************************************************)
Steal(t) ==
  /\ pc[t] \in {"try", "run"}
  /\ \E v \in Threads \ {t}, got \in BOOLEAN :
       /\ got => jobs[v] > 0
       /\ jobs' = IF got THEN [jobs EXCEPT ![v] = @ - 1] ELSE jobs
       /\ holds' = IF got /\ pc[t] = "try" THEN holds \cup {t} ELSE holds
       /\ Goto(t, IF jobs[v] > (IF got THEN 1 ELSE 0) THEN "wake"
                  ELSE IF pc[t] = "run" \/ got THEN "run"
                  ELSE "resume")
  /\ UNCHANGED sync

(* The stolen job is finished, and so is what it pushed. *)
FinishJob(t) ==
  /\ t \in holds /\ pc[t] = "run" /\ jobs[t] = 0
  /\ holds' = holds \ {t}
  /\ Goto(t, "resume")
  /\ UNCHANGED <<jobs, sync>>

-----------------------------------------------------------------------------
(* may_wake_others: load num_awake. *)
WakeLoad(t) ==
  /\ pc[t] = "wake"
  /\ Goto(t, IF num_awake # NumThreads THEN "bump" ELSE Resumed(t))
  /\ UNCHANGED <<holds, jobs, sync>>

(* may_wake_others: wait_flag.fetch_add. *)
WakeBump(t) ==
  /\ pc[t] = "bump"
  /\ moved' = Spawned
  /\ Goto(t, "notify")
  /\ UNCHANGED <<holds, jobs, num_awake, num_exits, finished_flag>>

(* Bug for the mutation runs: one blocked thread is notified, not all. *)
WakeNotifyOne(t) ==
  /\ pc[t] = "notify"
  /\ LET blocked == {u \in Threads : pc[u] = "blocked"}
     IN  \E one \in SUBSET blocked :
           /\ Cardinality(one) = IF blocked = {} THEN 0 ELSE 1
           /\ pc' = [u \in Threads |-> IF u = t THEN Resumed(t)
                                       ELSE IF u \in one THEN "wait"
                                       ELSE pc[u]]
  /\ UNCHANGED <<holds, jobs, sync>>

(* may_wake_others: atomic_notify_all; those it wakes look at wait_flag again. *)
WakeNotify(t) ==
  /\ pc[t] = "notify"
  /\ pc' = [u \in Threads |-> IF u = t THEN Resumed(t)
                              ELSE IF pc[u] = "blocked" THEN "wait"
                              ELSE pc[u]]
  /\ UNCHANGED <<holds, jobs, sync>>

MayWakeOthers(t) == WakeLoad(t) \/ WakeBump(t) \/ WakeNotify(t)

-----------------------------------------------------------------------------
(* go_sleep: load the epoch. *)
SleepLoad(t) ==
  /\ pc[t] = "load"
  /\ moved' = moved \ {t}
  /\ Goto(t, "sub")
  /\ UNCHANGED <<holds, jobs, num_awake, num_exits, finished_flag>>

SleepSub(t) ==
  /\ pc[t] = "sub"
  /\ num_awake' = num_awake - 1
  /\ Goto(t, "wait")
  /\ UNCHANGED <<holds, jobs, moved, num_exits, finished_flag>>

(* Bug: the epoch is loaded only here. *)
SleepWaitFresh(t) ==
  /\ pc[t] = "wait"
  /\ Goto(t, "blocked")
  /\ moved' = moved \ {t}
  /\ UNCHANGED <<holds, jobs, num_awake, num_exits, finished_flag>>

(* atomic_wait: block unless wait_flag has moved from the epoch. *)
SleepWait(t) ==
  /\ pc[t] = "wait"
  /\ Goto(t, IF t \in moved THEN "add" ELSE "blocked")
  /\ UNCHANGED <<holds, jobs, sync>>

SleepAdd(t) ==
  /\ pc[t] = "add"
  /\ num_awake' = num_awake + 1
  /\ Goto(t, "check")
  /\ UNCHANGED <<holds, jobs, moved, num_exits, finished_flag>>

GoSleep(t) == SleepLoad(t) \/ SleepSub(t) \/ SleepWait(t) \/ SleepAdd(t)

-----------------------------------------------------------------------------
(* The head of the loop of a spawned thread. *)
Check(t) ==
  /\ pc[t] = "check"
  /\ Goto(t, IF finished_flag THEN "exited" ELSE "try")
  /\ num_exits' = IF finished_flag THEN num_exits + 1 ELSE num_exits
  /\ UNCHANGED <<holds, jobs, moved, num_awake, finished_flag>>

(* The end of the loop: idle for long enough or not. *)
Resume(t) ==
  /\ pc[t] = "resume"
  /\ \E p \in {"check", "load"} : Goto(t, p)
  /\ UNCHANGED <<holds, jobs, sync>>

(* ~Scheduler runs when no parallel call is in progress any more. *)
Close ==
  /\ pc[Main] = "run" /\ holds = {} /\ \A t \in Threads : jobs[t] = 0
  /\ finished_flag' = TRUE
  /\ Goto(Main, "close")
  /\ UNCHANGED <<holds, jobs, moved, num_awake, num_exits>>

(* Bug: ~Scheduler waits for the threads without waking them. *)
CloseLoopSilent ==
  /\ pc[Main] = "close"
  /\ Goto(Main, IF num_exits # NumThreads - 1 THEN "close" ELSE "exited")
  /\ UNCHANGED <<holds, jobs, sync>>

(* ~Scheduler: wake until all have counted themselves out, then join. *)
CloseLoop ==
  /\ pc[Main] = "close"
  /\ Goto(Main, IF num_exits # NumThreads - 1 THEN "wake" ELSE "exited")
  /\ UNCHANGED <<holds, jobs, sync>>

AllExited == \A t \in Threads : pc[t] = "exited"

Exited == AllExited /\ UNCHANGED sleep_vars

UserCode(t) == Push(t) \/ Pop(t) \/ FinishJob(t)

Loop(t) == Check(t) \/ Resume(t)

SleepNext ==
  \/ Exited
  \/ Close
  \/ CloseLoop
  \/ \E t \in Threads : UserCode(t) \/ Steal(t) \/ MayWakeOthers(t)
  \/ \E t \in Spawned : GoSleep(t) \/ Loop(t)

SleepSpec == SleepInit /\ [][SleepNext]_sleep_vars

(***************************************************************************)
(* A thread that is not blocked goes on with what it is in; user code need *)
(* not end, but ~Scheduler, once called, goes on.                          *)
(***************************************************************************)
Fairness ==
  /\ WF_sleep_vars(CloseLoop)
  /\ \A t \in Threads : WF_sleep_vars(MayWakeOthers(t))
  /\ \A t \in Spawned : WF_sleep_vars(GoSleep(t) \/ Loop(t) \/ (pc[t] = "try" /\ Steal(t)))

SleepFairSpec == SleepSpec /\ Fairness

-----------------------------------------------------------------------------
SleepTypeOK ==
  /\ pc \in [Threads -> SleepPlaces]
  /\ holds \subseteq Spawned
  /\ moved \subseteq Spawned
  /\ num_awake \in 0..NumThreads
  /\ num_exits \in 0..(NumThreads - 1)
  /\ finished_flag \in BOOLEAN
  /\ jobs \in [Threads -> 0..MaxJobs]

(***************************************************************************)
(* num_awake counts the threads outside go_sleep's window, at every step   *)
(* of the threads that are entering and leaving it: a thread it misses     *)
(* would make may_wake_others skip its wake-up for good.                   *)
(***************************************************************************)
AwakeIsCounted ==
  num_awake = NumThreads - Cardinality({t \in Threads : pc[t] \in Sleeping})

(***************************************************************************)
(* A thread blocked although wait_flag has moved is about to be notified.  *)
(***************************************************************************)
NoLostNotify ==
  \A t \in Spawned :
    pc[t] = "blocked" /\ t \in moved => \E u \in Threads : pc[u] = "notify"

(* num_exits counts the spawned threads that left their loop, each once. *)
ExitsAreCounted ==
  num_exits = Cardinality({t \in Spawned : pc[t] = "exited"})

(* The main thread is in user code, waking others or shutting down. *)
MainStaysAwake ==
  pc[Main] \in {"run", "close", "exited"} \cup Waking \cup PushPlaces

SleepInvariant ==
  /\ SleepTypeOK
  /\ AwakeIsCounted
  /\ ExitsAreCounted
  /\ MainStaysAwake
  /\ NoLostNotify

(***************************************************************************)
(* Once a thread is counted as sleeping, a wake-up decided by another      *)
(* thread reaches it, wherever it is between its decrement and its futex:  *)
(* the epoch is loaded before the decrement.                               *)
(***************************************************************************)
WakeUpsReachSleepers ==
  \A t \in Spawned :
    (pc[t] \in Sleeping /\ \E u \in Threads : pc[u] = "bump")
      ~> pc[t] \notin Sleeping

(***************************************************************************)
(* ~Scheduler terminates with all threads out of their loops, also when a  *)
(* thread goes to sleep while the flag is being set and notified.          *)
(***************************************************************************)
ShutdownCompletes == finished_flag ~> AllExited

=============================================================================
