--------------------------- MODULE SchedulerLock ---------------------------
(***************************************************************************)
(* The whole-run overlap guard of the Cloud Scheduler jobs                 *)
(* (functions/src/core/schedulerLock.ts, wired in functions/src/index.ts). *)
(*                                                                         *)
(* A tick fires on the wall clock, possibly several times for one slot     *)
(* (Cloud Scheduler delivers at least once), reads its own clock, and then *)
(* runs ONE transaction on scheduler_locks/{name} that either refuses the  *)
(* tick or stamps the lease with the clock value read BEFORE the           *)
(* transaction.  Nothing releases the lease: it expires.  A transaction    *)
(* that fails admits the tick all the same (fail OPEN).                    *)
(*                                                                         *)
(* Time is counted in abstract units; MaxTime only bounds the exploration. *)
(***************************************************************************)
EXTENDS Naturals

CONSTANTS Run,        \* invocations of the scheduled function
          TTL,        \* ttlMs, the life of a lease
          Cadence,    \* distance between two scheduled slots
          RunLimit,   \* timeoutSeconds: the platform kills a run at this age
          MaxTime     \* exploration bound on the clock

ASSUME ConstantsAssumption ==
    /\ TTL \in Nat \ {0}
    /\ Cadence \in Nat \ {0}
    /\ RunLimit \in Nat
    /\ MaxTime \in Nat

VARIABLES clock,        \* the wall clock every instance reads (Date.now())
          claimedAtMs,  \* scheduler_locks/{name}.claimedAtMs, 0 when absent
          pc,           \* where each invocation is
          nowMs         \* the clock value an invocation captured on entry

vars == <<clock, claimedAtMs, pc, nowMs>>

(* "locked": admitted by the transaction; "open": admitted because the     *)
(* transaction failed; "skipped": returned {ran: false}.                   *)
PC == {"idle", "claiming", "locked", "open", "skipped"}

Active(r) == pc[r] \in {"claiming", "locked", "open"}

(* Mutant: the lease ends one unit early.                                  *)
Live_EndsEarly(stamp, now) == stamp > 0 /\ now < stamp + TTL - 1

Live(stamp, now) == stamp > 0 /\ now < stamp + TTL

TypeOK ==
    /\ clock \in Nat \ {0}
    /\ claimedAtMs \in 0 .. clock   \* no lease from the future
    /\ pc \in [Run -> PC]
    /\ nowMs \in [Run -> 0 .. clock]

Init ==
    /\ clock = 1
    /\ claimedAtMs = 0
    /\ pc = [r \in Run |-> "idle"]
    /\ nowMs = [r \in Run |-> 0]

(* onSchedule fires an instance on a slot; nowMs is read before the        *)
(* transaction starts.                                                     *)
Fire(r) ==
    /\ ~Active(r)
    /\ clock % Cadence = 0
    /\ pc' = [pc EXCEPT ![r] = "claiming"]
    /\ nowMs' = [nowMs EXCEPT ![r] = clock]
    /\ UNCHANGED <<clock, claimedAtMs>>

(* The transaction commits: the check and the stamp are one step.  The     *)
(* stamp is the value captured at entry, however late the commit is.       *)
Acquire(r) ==
    /\ pc[r] = "claiming"
    /\ ~Live(claimedAtMs, nowMs[r])
    /\ claimedAtMs' = nowMs[r]
    /\ pc' = [pc EXCEPT ![r] = "locked"]
    /\ UNCHANGED <<clock, nowMs>>

Refuse(r) ==
    /\ pc[r] = "claiming"
    /\ Live(claimedAtMs, nowMs[r])
    /\ pc' = [pc EXCEPT ![r] = "skipped"]
    /\ UNCHANGED <<clock, claimedAtMs, nowMs>>

(* catch { acquired = true }: contention or an outage admits the tick.     *)
FailOpen(r) ==
    /\ pc[r] = "claiming"
    /\ pc' = [pc EXCEPT ![r] = "open"]
    /\ UNCHANGED <<clock, claimedAtMs, nowMs>>

(* The body returns, throws, or the platform kills the instance (also      *)
(* before its transaction commits).  In no case is the lease released.     *)
Finish(r) ==
    /\ Active(r)
    /\ pc' = [pc EXCEPT ![r] = "idle"]
    /\ UNCHANGED <<clock, claimedAtMs, nowMs>>

(* Time passes, but never past the age at which the platform kills a run.  *)
Tick ==
    /\ clock < MaxTime
    /\ \A r \in Run : Active(r) => clock < nowMs[r] + RunLimit
    /\ clock' = clock + 1
    /\ UNCHANGED <<claimedAtMs, pc, nowMs>>

Next ==
    \/ Tick
    \/ \E r \in Run : \/ Fire(r)
                      \/ Acquire(r)
                      \/ Refuse(r)
                      \/ FailOpen(r)
                      \/ Finish(r)

Spec == Init /\ [][Next]_vars

-----------------------------------------------------------------------------
(* Properties *)

(* Two ticks that the lock admitted and that are still running took their  *)
(* leases at least one TTL apart: the transaction makes "both see an       *)
(* absent lock and both run" impossible (schedulerLock.ts, CAS acquire).   *)
LeasesApart ==
    \A r, s \in Run :
        (r # s /\ pc[r] = "locked" /\ pc[s] = "locked")
            => (nowMs[r] + TTL <= nowMs[s] \/ nowMs[s] + TTL <= nowMs[r])

(* A whole-run guard: when the platform kills a run before its lease ends, *)
(* at most one tick admitted by the lock is running, even if the           *)
(* transaction committed long after the clock was read.                    *)
WholeRunExclusion ==
    RunLimit < TTL =>
        \A r, s \in Run : (pc[r] = "locked" /\ pc[s] = "locked") => r = s

(* A tick is skipped only for a lease stamped less than one TTL before the *)
(* tick read its clock: a crashed run never leaves a permanent lock.       *)
SkipsAreJustified ==
    \A r \in Run :
        pc[r] = "skipped" => claimedAtMs > 0 /\ nowMs[r] < claimedAtMs + TTL

(* The lease stamp never moves back, and moves only by a full TTL: a late  *)
(* commit with an old clock value cannot shorten a newer lease.            *)
StampsAdvance ==
    [][claimedAtMs' # claimedAtMs =>
          (claimedAtMs = 0 \/ claimedAtMs' >= claimedAtMs + TTL)]_vars

=============================================================================
