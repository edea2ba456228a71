---------------------------- MODULE PeopleProofs -----------------------------
(***************************************************************************)
(* The scheduler's lock for every set of invocations, every TTL, cadence   *)
(* and function timeout, with and without the ticket job under it; and the *)
(* ticket for any number of staff, tiers' waits, deaths and slow leases.   *)
(*                                                                         *)
(* The lock: its stamp is never older than the stamp of a running tick, so *)
(* a tick that finds the lease stale is a TTL later than every tick still  *)
(* running.                                                                *)
(*                                                                         *)
(* And the accounts, for any number of them, of calls, deaths and orders   *)
(* of a guest: roles and bonuses are each other's witness only through     *)
(* what the calls at work have still to write, so the invariant is mostly  *)
(* about those.                                                            *)
(***************************************************************************)
EXTENDS Tickets, Accounts, Sums, SequenceTheorems

-----------------------------------------------------------------------------
(* The lock.                                                               *)

(* A run in progress read its clock in the past and is not yet past the    *)
(* age at which the platform kills it.                                     *)
RunsAreYoung ==
    \A r \in Run :
        Active(r) => /\ nowMs[r] \in 1 .. clock
                     /\ clock <= nowMs[r] + RunLimit

(* The lease is at least as recent as any tick it admitted.                *)
LeaseCoversRuns ==
    \A r \in Run : pc[r] = "locked" => nowMs[r] <= claimedAtMs

IInv ==
    /\ TypeOK
    /\ RunsAreYoung
    /\ LeaseCoversRuns
    /\ LeasesApart
    /\ SkipsAreJustified

LEMMA InitIInv == Init => IInv
BY ConstantsAssumption
   DEF Init, IInv, TypeOK, PC, RunsAreYoung, Active, LeaseCoversRuns,
       LeasesApart, SkipsAreJustified

LEMMA StepIInv == IInv /\ [Next]_vars => IInv'
<1> SUFFICES ASSUME IInv, [Next]_vars PROVE IInv'
  OBVIOUS
<1> USE ConstantsAssumption DEF IInv, TypeOK, PC, Active
<1>1. CASE Tick
  <2>1. TypeOK'
    BY <1>1 DEF Tick
  <2>2. RunsAreYoung'
    BY <1>1 DEF Tick, RunsAreYoung
  <2>3. LeaseCoversRuns' /\ LeasesApart' /\ SkipsAreJustified'
    BY <1>1 DEF Tick, LeaseCoversRuns, LeasesApart, SkipsAreJustified
  <2> QED BY <2>1, <2>2, <2>3
<1>2. ASSUME NEW r \in Run, Fire(r) PROVE IInv'
  <2>1. TypeOK' /\ RunsAreYoung'
    BY <1>2 DEF Fire, RunsAreYoung
  <2>2. LeaseCoversRuns' /\ LeasesApart' /\ SkipsAreJustified'
    BY <1>2 DEF Fire, LeaseCoversRuns, LeasesApart, SkipsAreJustified
  <2> QED BY <2>1, <2>2
<1>3. ASSUME NEW r \in Run, Acquire(r) PROVE IInv'
  <2>1. nowMs[r] \in Nat /\ nowMs[r] > 0 /\ pc[r] = "claiming"
    BY <1>3 DEF Acquire, RunsAreYoung
  <2>2. claimedAtMs = 0 \/ claimedAtMs + TTL <= nowMs[r]
    BY <1>3, <2>1 DEF Acquire, Live
  <2>3. TypeOK' /\ RunsAreYoung'
    BY <1>3, <2>1 DEF Acquire, RunsAreYoung
  <2>4. claimedAtMs' = nowMs[r] /\ claimedAtMs <= claimedAtMs'
    BY <1>3, <2>1, <2>2 DEF Acquire
  <2>5. LeaseCoversRuns'
    BY <1>3, <2>1, <2>4 DEF Acquire, LeaseCoversRuns
  <2>6. ASSUME NEW s \in Run, s # r, pc[s] = "locked"
        PROVE  nowMs[s] + TTL <= nowMs[r]
    BY <2>1, <2>2, <2>6 DEF LeaseCoversRuns, RunsAreYoung
  <2>7. LeasesApart'
    BY <1>3, <2>1, <2>6 DEF Acquire, LeasesApart
  <2>8. SkipsAreJustified'
    BY <1>3, <2>1, <2>4 DEF Acquire, SkipsAreJustified
  <2> QED BY <2>3, <2>5, <2>7, <2>8
<1>4. ASSUME NEW r \in Run, Refuse(r) PROVE IInv'
  <2>1. TypeOK' /\ RunsAreYoung' /\ LeaseCoversRuns' /\ LeasesApart'
    BY <1>4 DEF Refuse, RunsAreYoung, LeaseCoversRuns, LeasesApart
  <2>2. SkipsAreJustified'
    BY <1>4 DEF Refuse, Live, SkipsAreJustified
  <2> QED BY <2>1, <2>2
<1>5. ASSUME NEW r \in Run, FailOpen(r) PROVE IInv'
  BY <1>5 DEF FailOpen, RunsAreYoung, LeaseCoversRuns, LeasesApart,
              SkipsAreJustified
<1>6. ASSUME NEW r \in Run, Finish(r) PROVE IInv'
  BY <1>6 DEF Finish, RunsAreYoung, LeaseCoversRuns, LeasesApart,
              SkipsAreJustified
<1>7. CASE UNCHANGED vars
  BY <1>7 DEF vars, RunsAreYoung, LeaseCoversRuns, LeasesApart,
              SkipsAreJustified
<1> QED
  BY <1>1, <1>2, <1>3, <1>4, <1>5, <1>6, <1>7 DEF Next

LEMMA SpecIInv == Spec => []IInv
BY InitIInv, StepIInv, PTL DEF Spec

(* The lock document and the invocations keep their types.                 *)
THEOREM TypeCorrect == Spec => []TypeOK
BY SpecIInv, PTL DEF IInv

(* Two running ticks admitted by withSchedulerLock took their leases at    *)
(* least one TTL apart, whatever the delays of their transactions.         *)
THEOREM LeasesAlwaysApart == Spec => []LeasesApart
BY SpecIInv, PTL DEF IInv

(* A skipped tick was skipped for a lease younger than one TTL: a crashed  *)
(* run never blocks the scheduler for good.                                *)
THEOREM SkipsAlwaysJustified == Spec => []SkipsAreJustified
BY SpecIInv, PTL DEF IInv

(* When the function timeout is below the TTL, the lock is a whole-run     *)
(* guard: no two ticks it admits ever run together.                        *)
THEOREM Exclusion == Spec => []WholeRunExclusion
<1>1. IInv => WholeRunExclusion
  <2> SUFFICES ASSUME IInv, RunLimit < TTL,
                      NEW r \in Run, NEW s \in Run,
                      pc[r] = "locked", pc[s] = "locked", r # s
               PROVE  FALSE
    BY DEF WholeRunExclusion
  <2>1. nowMs[r] + TTL <= nowMs[s] \/ nowMs[s] + TTL <= nowMs[r]
    BY DEF IInv, LeasesApart
  <2>2. /\ nowMs[r] \in 1 .. clock /\ clock <= nowMs[r] + RunLimit
        /\ nowMs[s] \in 1 .. clock /\ clock <= nowMs[s] + RunLimit
    BY DEF IInv, RunsAreYoung, Active
  <2> QED
    BY <2>1, <2>2, ConstantsAssumption DEF IInv, TypeOK
<1> QED
  BY <1>1, SpecIInv, PTL

(* The lease stamp only ever moves forward, by at least a TTL.             *)
THEOREM StampsAlwaysAdvance == Spec => StampsAdvance
<1>1. IInv /\ [Next]_vars
        => [claimedAtMs' # claimedAtMs =>
              (claimedAtMs = 0 \/ claimedAtMs' >= claimedAtMs + TTL)]_vars
  BY ConstantsAssumption
     DEF IInv, TypeOK, RunsAreYoung, Active, Next, Tick, Fire, Acquire, Live,
         Refuse, FailOpen, Finish, vars
<1> QED
  BY <1>1, SpecIInv, PTL DEF Spec, StampsAdvance

-----------------------------------------------------------------------------
(* The ticket.                                                             *)

TicketShape ==
    ticket = [status |-> ticket.status, tier |-> ticket.tier,
              lastActivityAt |-> ticket.lastActivityAt,
              branchReminderSent |-> ticket.branchReminderSent,
              claim |-> ticket.claim, resolution |-> ticket.resolution]

JobShape ==
    /\ job = [r \in Run |-> job[r]]
    /\ \A r \in Run : job[r] = [plan |-> job[r].plan, saw |-> job[r].saw]

(* A resolved ticket has no lease: claimTicketResolution refuses it and    *)
(* commitResolvedTicket clears the lease it resolves under.                *)
ResolvedIsFree == ticket.status = "resolved" => ticket.claim = None

(* The row of the ledger is written with the first credit.                 *)
RowTellsCredit == credits = 0 \/ (credits = 1 /\ ledger)

(* A run that is about to escalate has seen the ticket unattended.         *)
PlansAreSeen == \A r \in Run : job[r].plan \in Tier => job[r].saw \in Unattended

TicketInv == /\ TicketShape /\ JobShape /\ ResolvedIsFree /\ RowTellsCredit
             /\ PlansAreSeen /\ acts \in Nat

(* The job runs under the lock: every step is a step of the lock or leaves *)
(* it alone.                                                               *)
THEOREM JobKeepsTheLock == TicketSpec => Spec
<1>1. [TicketNext]_allVars => [Next]_vars
  BY DEF TicketNext, allVars, LockStep, Message, Escalate, LeaseAges, Resolve,
         ResolveNote, ClaimResolution, Settle, Credit, Commit, GiveUp, Die, Scan,
         Flush, Remind, FlagSent
<1>2. TicketInit => Init
  BY DEF TicketInit
<1> QED BY <1>1, <1>2, PTL DEF TicketSpec, Spec

(* When the timeout of checkTicketInactivityReminders is below the TTL of  *)
(* its lock, no two ticks that the lock admitted work at the same time.    *)
THEOREM TicksAreApart == TicketSpec => []WholeRunExclusion
BY JobKeepsTheLock, Exclusion, PTL

LEMMA TicketInitInv == TicketInit => TicketInv
<1> SUFFICES ASSUME TicketInit PROVE TicketInv
  OBVIOUS
<1>1. TicketShape /\ ResolvedIsFree
  <2>1. ticket = [status |-> "open", tier |-> "branch", lastActivityAt |-> 1,
                  branchReminderSent |-> FALSE, claim |-> None, resolution |-> None]
    BY DEF TicketInit
  <2>2. TicketShape
    BY <2>1, Zenon DEF TicketShape
  <2>3. ticket.status = "open"
    BY <2>1
  <2> QED BY <2>2, <2>3 DEF ResolvedIsFree
<1>2. RowTellsCredit /\ acts \in Nat
  BY DEF TicketInit, RowTellsCredit
<1>2a. JobShape
  <2>1. job = [r \in Run |-> NoJob]
    BY DEF TicketInit
  <2>2. \A r \in Run : job[r] = NoJob
    BY <2>1
  <2>3. NoJob = [plan |-> NoJob.plan, saw |-> NoJob.saw]
    BY Zenon DEF NoJob
  <2> QED BY <2>1, <2>2, <2>3, Zenon DEF JobShape
<1>3. PlansAreSeen
  BY DEF TicketInit, PlansAreSeen, NoJob, Tier
<1> QED BY <1>1, <1>2, <1>2a, <1>3 DEF TicketInv

(* A write of the ticket that leaves its lease alone and does not resolve  *)
(* it.                                                                     *)
LEMMA TicketStays ==
    ASSUME TicketInv, UNCHANGED ticket
    PROVE  TicketShape' /\ ResolvedIsFree'
BY DEF TicketInv, TicketShape, ResolvedIsFree

LEMMA TicketNextInv == TicketInv /\ [TicketNext]_allVars => TicketInv'
<1> SUFFICES ASSUME TicketInv, [TicketNext]_allVars PROVE TicketInv'
  OBVIOUS
<1>0. TicketShape /\ JobShape /\ ResolvedIsFree /\ RowTellsCredit /\ PlansAreSeen
  BY DEF TicketInv
<1>0a. acts' \in Nat
  <2>1. acts \in Nat
    BY DEF TicketInv
  <2>2. acts' = acts \/ Act
    BY DEF TicketNext, allVars, ticketVars, LockStep, Message, Escalate,
           LeaseAges, Resolve, ResolveNote, ClaimResolution, Settle, Credit,
           Commit, GiveUp, Die, Scan, Flush, Remind, FlagSent
  <2> QED BY <2>1, <2>2 DEF Act
<1>1. TicketShape' /\ ResolvedIsFree'
  <2>1. CASE UNCHANGED ticket
    BY <2>1, TicketStays
  <2>2. CASE Message
    BY <1>0, <2>2 DEF Message, TicketShape, ResolvedIsFree
  <2>3. CASE Escalate
    BY <1>0, <2>3 DEF Escalate, TicketShape, ResolvedIsFree
  <2>4. ASSUME NEW s \in Staff, NEW action, ClaimResolution(s, action)
        PROVE  TicketShape' /\ ResolvedIsFree'
    BY <1>0, <2>4 DEF ClaimResolution, TicketShape, ResolvedIsFree
  <2>5. ASSUME NEW s \in Staff, Commit(s) PROVE TicketShape' /\ ResolvedIsFree'
    BY <1>0, <2>5 DEF Commit, TicketShape, ResolvedIsFree
  <2>6. ASSUME NEW s \in Staff, GiveUp(s) PROVE TicketShape' /\ ResolvedIsFree'
    <3>1. CASE ticket.claim = s
      BY <1>0, <2>6, <3>1 DEF GiveUp, TicketShape, ResolvedIsFree
    <3>2. CASE ticket.claim # s
      <4>1. UNCHANGED ticket
        BY <2>6, <3>2 DEF GiveUp
      <4> QED BY <4>1, TicketStays
    <3> QED BY <3>1, <3>2
  <2>7. ASSUME NEW r \in Run, Flush(r) PROVE TicketShape' /\ ResolvedIsFree'
    BY <1>0, <2>7 DEF Flush, TicketShape, ResolvedIsFree
  <2>8. ASSUME NEW r \in Run, FlagSent(r) PROVE TicketShape' /\ ResolvedIsFree'
    BY <1>0, <2>8 DEF FlagSent, TicketShape, ResolvedIsFree
  <2>9. \/ UNCHANGED ticket \/ Message \/ Escalate
        \/ \E s \in Staff : \/ \E action : ClaimResolution(s, action)
                            \/ Commit(s) \/ GiveUp(s)
        \/ \E r \in Run : Flush(r) \/ FlagSent(r)
    BY DEF TicketNext, allVars, ticketVars, LockStep, LeaseAges, Resolve,
           ResolveNote, Settle, Credit, Die, Scan, Remind
  <2> QED BY <2>1, <2>2, <2>3, <2>4, <2>5, <2>6, <2>7, <2>8, <2>9
<1>2. RowTellsCredit'
  <2>1. CASE UNCHANGED <<credits, ledger>>
    BY <1>0, <2>1 DEF RowTellsCredit
  <2>2. ASSUME NEW s \in Staff, Credit(s) PROVE RowTellsCredit'
    BY <1>0, <2>2 DEF Credit, Owed, RowTellsCredit
  <2>3. UNCHANGED <<credits, ledger>> \/ \E s \in Staff : Credit(s)
    BY DEF TicketNext, allVars, ticketVars, LockStep, Message, Escalate, LeaseAges,
           Resolve, ResolveNote, ClaimResolution, Settle, Commit, GiveUp, Die, Scan,
           Flush, Remind, FlagSent
  <2> QED BY <2>1, <2>2, <2>3
<1>3. JobShape' /\ PlansAreSeen'
  <2>1. CASE UNCHANGED job
    BY <1>0, <2>1 DEF JobShape, PlansAreSeen
  <2>2. CASE LockStep
    <3>1. /\ job' = [r \in Run |-> job'[r]]
          /\ \A r \in Run : job'[r] = job[r] \/ job'[r] = NoJob
      BY <2>2 DEF LockStep
    <3>2. /\ NoJob.plan \notin Tier
          /\ NoJob = [plan |-> NoJob.plan, saw |-> NoJob.saw]
      BY DEF NoJob, Tier
    <3> QED BY <1>0, <3>1, <3>2 DEF JobShape, PlansAreSeen
  <2>3. ASSUME NEW r \in Run, Scan(r) PROVE JobShape' /\ PlansAreSeen'
    <3>1. PICK plan : /\ plan = (IF Matches THEN Verdict ELSE "nothing")
                      /\ job' = [job EXCEPT ![r] = [plan |-> plan, saw |-> ticket.status]]
      BY <2>3 DEF Scan
    <3>2. plan \in Tier => ticket.status \in Unattended
      <4>1. "nothing" \notin Tier
        BY DEF Tier
      <4>2. Matches \/ plan = "nothing"
        BY <3>1
      <4> QED BY <4>1, <4>2 DEF Matches
    <3>3. /\ job' = [q \in Run |-> job'[q]]
          /\ job'[r] = [plan |-> plan, saw |-> ticket.status]
          /\ \A q \in Run \ {r} : job'[q] = job[q]
      BY <1>0, <3>1 DEF JobShape
    <3>4. job'[r].plan = plan /\ job'[r].saw = ticket.status
      BY <3>3
    <3>5. job'[r] = [plan |-> job'[r].plan, saw |-> job'[r].saw]
      BY <3>3, <3>4, Zenon
    <3>6. JobShape'
      BY <1>0, <3>3, <3>5, Zenon DEF JobShape
    <3>7. PlansAreSeen'
      BY <1>0, <3>2, <3>3, <3>4 DEF PlansAreSeen
    <3> QED BY <3>6, <3>7
  <2>4. ASSUME NEW r \in Run, NEW plan, plan \notin Tier,
               job' = [job EXCEPT ![r].plan = plan]
        PROVE  JobShape' /\ PlansAreSeen'
    <3>1. /\ job' = [q \in Run |-> job'[q]]
          /\ job'[r] = [job[r] EXCEPT !.plan = plan]
          /\ \A q \in Run \ {r} : job'[q] = job[q]
      BY <1>0, <2>4 DEF JobShape
    <3> QED BY <1>0, <2>4, <3>1 DEF JobShape, PlansAreSeen
  <2>5. ASSUME NEW r \in Run, Flush(r) \/ Remind(r) \/ FlagSent(r)
        PROVE  JobShape' /\ PlansAreSeen'
    <3>1. "nothing" \notin Tier /\ "flag" \notin Tier
      BY DEF Tier
    <3> QED BY <2>4, <2>5, <3>1 DEF Flush, Remind, FlagSent
  <2>6. \/ UNCHANGED job \/ LockStep
        \/ \E r \in Run : Scan(r) \/ Flush(r) \/ Remind(r) \/ FlagSent(r)
    BY DEF TicketNext, allVars, ticketVars, Message, Escalate, LeaseAges, Resolve,
           ResolveNote, ClaimResolution, Settle, Credit, Commit, GiveUp, Die
  <2> QED BY <2>1, <2>2, <2>3, <2>5, <2>6
<1> QED BY <1>0a, <1>1, <1>2, <1>3 DEF TicketInv

LEMMA TicketSpecInv == TicketSpec => []TicketInv
BY TicketInitInv, TicketNextInv, PTL DEF TicketSpec

(* creditTicketLoyaltyCoins credits the customer of a ticket once, however *)
(* often the ticket is reopened, its lease taken over or its resolver      *)
(* killed.                                                                 *)
THEOREM CustomerIsCreditedOnce == TicketSpec => []CreditedOnce
<1>1. TicketInv => CreditedOnce
  BY DEF TicketInv, RowTellsCredit, CreditedOnce
<1> QED BY <1>1, TicketSpecInv, PTL

(* commitResolvedTicket never replaces the resolution of a ticket that is  *)
(* still resolved, however slow the executions are and whoever takes a     *)
(* lease over.                                                             *)
THEOREM ResolutionsStand == TicketSpec => ResolutionIsNotOverwritten
<1> DEFINE Stands == ticket.resolution # None /\ ticket'.resolution # ticket.resolution
                        => ticket.status # "resolved"
<1>1. TicketInv /\ [TicketNext]_allVars => Stands
  <2> SUFFICES ASSUME TicketInv, [TicketNext]_allVars,
                      ticket'.resolution # ticket.resolution
               PROVE  ticket.status # "resolved"
    OBVIOUS
  <2>0. TicketShape /\ ResolvedIsFree
    BY DEF TicketInv
  <2>1. ASSUME NEW s \in Staff, Commit(s) PROVE ticket.status # "resolved"
    BY <2>0, <2>1, TicketAssumption DEF Commit, HoldsLease, ResolvedIsFree
  <2>2. \/ ticket'.resolution = ticket.resolution
        \/ \E s \in Staff : Commit(s)
    <3>1. ASSUME NEW s \in Staff, GiveUp(s)
          PROVE  ticket'.resolution = ticket.resolution
      BY <2>0, <3>1 DEF GiveUp, TicketShape
    <3>2. CASE Message \/ Escalate
      BY <2>0, <3>2 DEF Message, Escalate, TicketShape
    <3>3. ASSUME NEW r \in Run, Flush(r) \/ FlagSent(r)
          PROVE  ticket'.resolution = ticket.resolution
      BY <2>0, <3>3 DEF Flush, FlagSent, TicketShape
    <3>4. ASSUME NEW s \in Staff, NEW action, ClaimResolution(s, action)
          PROVE  ticket'.resolution = ticket.resolution
      BY <2>0, <3>4 DEF ClaimResolution, TicketShape
    <3>5. \/ UNCHANGED ticket \/ Message \/ Escalate
          \/ \E s \in Staff : \/ \E action : ClaimResolution(s, action)
                              \/ Commit(s) \/ GiveUp(s)
          \/ \E r \in Run : Flush(r) \/ FlagSent(r)
      BY DEF TicketNext, allVars, ticketVars, LockStep, LeaseAges, Resolve,
             ResolveNote, Settle, Credit, Die, Scan, Remind
    <3> QED BY <3>1, <3>2, <3>3, <3>4, <3>5
  <2> QED BY <2>1, <2>2
<1>2. TicketSpec => [][Stands]_allVars
  BY <1>1, TicketSpecInv, PTL DEF TicketSpec
<1> QED BY <1>2 DEF ResolutionIsNotOverwritten

(* A resolved ticket opens again only because somebody wrote on it or      *)
(* escalated it, or because a run of the job saw it unattended before it   *)
(* was resolved and writes what it decided then.                           *)
THEOREM ReopeningsAreAsked == TicketSpec => ReopeningIsAsked
<1> DEFINE Asked == ticket.status = "resolved" /\ ticket'.status # "resolved" =>
               \/ acts' # acts
               \/ \E r \in Run : /\ job[r].plan \in Tier /\ job'[r].plan = "nothing"
                                  /\ job[r].saw \in Unattended
<1>1. TicketInv /\ [TicketNext]_allVars => Asked
  <2> SUFFICES ASSUME TicketInv, [TicketNext]_allVars, ticket.status = "resolved",
                      ticket'.status # "resolved", acts' = acts
               PROVE  \E r \in Run : /\ job[r].plan \in Tier
                                     /\ job'[r].plan = "nothing"
                                     /\ job[r].saw \in Unattended
    OBVIOUS
  <2>0. TicketShape /\ JobShape /\ PlansAreSeen
    BY DEF TicketInv
  <2>1. ASSUME NEW r \in Run, Flush(r)
        PROVE  /\ job[r].plan \in Tier /\ job'[r].plan = "nothing"
               /\ job[r].saw \in Unattended
    <3>1. job[r].plan \in Tier /\ job' = [job EXCEPT ![r].plan = "nothing"]
      BY <2>1 DEF Flush
    <3>2. job'[r] = [plan |-> "nothing", saw |-> job[r].saw]
      BY <2>0, <3>1 DEF JobShape
    <3> QED BY <2>0, <3>1, <3>2 DEF PlansAreSeen
  <2>2. ASSUME NEW s \in Staff, GiveUp(s) \/ Commit(s) PROVE FALSE
    BY <2>0, <2>2 DEF GiveUp, Commit, TicketShape
  <2>3. ASSUME NEW r \in Run, FlagSent(r) PROVE FALSE
    BY <2>0, <2>3 DEF FlagSent, TicketShape
  <2>4. ~Act
    <3>1. acts \in Nat
      BY DEF TicketInv
    <3> QED BY <3>1 DEF Act
  <2>5. \/ UNCHANGED ticket \/ Act
        \/ \E s \in Staff : Commit(s) \/ GiveUp(s)
        \/ \E r \in Run : Flush(r) \/ FlagSent(r)
    BY DEF TicketNext, allVars, ticketVars, LockStep, LeaseAges, Message, Escalate,
           Resolve, ResolveNote, ClaimResolution, Settle, Credit, Die, Scan, Remind
  <2> QED BY <2>1, <2>2, <2>3, <2>4, <2>5
<1>2. TicketSpec => [][Asked]_allVars
  BY <1>1, TicketSpecInv, PTL DEF TicketSpec
<1> QED BY <1>2 DEF ReopeningIsAsked

-----------------------------------------------------------------------------
(* The accounts.                                                           *)

(* Everything a migration may have to write.                               *)
Write == Order \cup {"profile", "cart", "empty"}

(* What a call carries.  A role and an account are only read of a call     *)
(* that is at work.                                                        *)
CallRecord ==
    {w \in [step : Step, uid : Account \cup {Nobody}, role : Role \cup {Nobody},
            invite : BOOLEAN, alone : BOOLEAN, seen : SUBSET (Account \cup Order),
            todo : Seq(Write), bonus : BOOLEAN] :
       /\ w.step # "idle" => w.uid \in Account
       /\ w.step \in {"invite", "profile", "registry", "named"} => w.role \in Role
       /\ w.step = "scanned" => w.seen \subseteq Order}

AccountsTypes ==
    /\ auth \in [Account -> {"absent", "live", "gone"}]
    /\ claims \in [Account -> Role] /\ users \in [Account -> Role]
    /\ admins \in [Account -> Role \cup {Nobody}]
    /\ toClean \subseteq Account /\ clean \in [Account -> BOOLEAN]
    /\ owner \in Account \cup {Nobody, "ownerless"} /\ listed \subseteq Account
    /\ customerId \in [Order -> Account \cup {"guest"}]
    /\ guestCart \in BOOLEAN /\ carts \subseteq Account
    /\ granted \subseteq Range(BonusKey) /\ coins \in [Account -> Nat]
    /\ claimed \subseteq Account /\ migrated \subseteq Account
    /\ call \in [Call -> CallRecord]
    /\ begun \in 0..MaxCalls /\ faults \in 0..MaxFailures

(* The changes of a role: one that is alone is the only one, its account   *)
(* is live and has the role in its claims, and what it has already written *)
(* says the same.                                                          *)
Changing(c, u) == call[c].uid = u /\ call[c].step \in {"profile", "registry", "named"}

ChangeIsSeen ==
    \A c \in Call, u \in Account : Changing(c, u) => ~clean[u]

AloneIsAlone ==
    \A c \in Call, u \in Account :
        Changing(c, u) /\ call[c].alone => \A d \in Call : Changing(d, u) => d = c

AloneIsInStep ==
    \A c \in Call, u \in Account :
        Changing(c, u) /\ call[c].alone =>
            /\ auth[u] = "live" /\ claims[u] = call[c].role
            /\ call[c].step \in {"registry", "named"} => users[u] = call[c].role
            /\ call[c].step = "named" =>
                 admins[u] = IF call[c].role = "customer" THEN Nobody ELSE call[c].role

LifeOfAccount ==
    \A u \in Account :
        /\ auth[u] = "absent" => claims[u] = "customer"
        /\ u \in toClean => auth[u] = "gone"

RoleInv == ChangeIsSeen /\ AloneIsAlone /\ AloneIsInStep /\ LifeOfAccount /\ RolesInStep

-----------------------------------------------------------------------------
(* Helpers.                                                                *)

LEMMA MinIsLeast ==
    ASSUME NEW a \in Nat, NEW b \in Nat
    PROVE  Min({a, b}) \in Nat /\ Min({a, b}) <= a /\ Min({a, b}) <= b
           /\ Min({a, b}) \in {a, b}
<1>1. \E x \in {a, b} : \A y \in {a, b} : x <= y
  OBVIOUS
<1>2. Min({a, b}) \in {a, b} /\ \A y \in {a, b} : Min({a, b}) <= y
  BY <1>1 DEF Min
<1> QED BY <1>2

(* The writes of a set of documents, each once and none missing.           *)
LEMMA SetToSeqIsWhole ==
    ASSUME NEW S, IsFiniteSet(S)
    PROVE  SetToSeq(S) \in Seq(S) /\ Range(SetToSeq(S)) = S
<1> DEFINE n == Cardinality(S)
<1>1. n \in Nat /\ ExistsBijection(1..n, S)
  BY FS_CardinalityType
<1>2. \E f \in [1..n -> S] : IsInjective(f)
  BY <1>1 DEF ExistsBijection, Bijection, Injection
<1>3. SetToSeq(S) \in [1..n -> S] /\ IsInjective(SetToSeq(S))
  BY <1>2 DEF SetToSeq
<1>4. SetToSeq(S) \in Injection(1..n, S)
  BY <1>3 DEF Injection
<1>5. IsFiniteSet(1..n) /\ Cardinality(1..n) = n
  BY <1>1, FS_Interval
<1>6. SetToSeq(S) \in Surjection(1..n, S)
  BY <1>4, <1>5, FS_Injection
<1>7. SetToSeq(S) \in Seq(S)
  <2> HIDE DEF n
  <2> QED BY <1>1, <1>3, SeqDef
<1> QED BY <1>3, <1>6, <1>7 DEF Range, Surjection

LEMMA RestOfWrites ==
    ASSUME NEW s \in Seq(Write), NEW n \in Nat
    PROVE  /\ SubSeq(s, n + 1, Len(s)) \in Seq(Write)
           /\ \A j \in 1..Len(s) : j > n => 
               /\ j - n \in 1..Len(SubSeq(s, n + 1, Len(s)))
               /\ SubSeq(s, n + 1, Len(s))[j - n] = s[j]
           /\ \A i \in 1..Len(SubSeq(s, n + 1, Len(s))) :
               i + n \in 1..Len(s) /\ SubSeq(s, n + 1, Len(s))[i] = s[i + n]
<1>1. Len(s) \in Nat /\ \A i \in 1..Len(s) : s[i] \in Write
  OBVIOUS
<1> DEFINE r == SubSeq(s, n + 1, Len(s))
<1>2. \A i \in (n + 1)..Len(s) : s[i] \in Write
  BY <1>1
<1>3. /\ r \in Seq(Write)
      /\ Len(r) = IF n + 1 <= Len(s) THEN Len(s) - (n + 1) + 1 ELSE 0
      /\ \A i \in 1 .. Len(s) - (n + 1) + 1 : r[i] = s[(n + 1) + i - 1]
  BY <1>1, <1>2, SubSeqProperties
<1> HIDE DEF r
<1>4. r \in Seq(Write)
  BY <1>3
<1>5. Len(r) = IF n < Len(s) THEN Len(s) - n ELSE 0
  BY <1>1, <1>3
<1>6. \A i \in 1 .. Len(s) - n : r[i] = s[n + i]
  BY <1>1, <1>3
<1>7. \A j \in 1..Len(s) : j > n => j - n \in 1..Len(r) /\ r[j - n] = s[j]
  BY <1>1, <1>5, <1>6
<1>8. \A i \in 1..Len(r) : i + n \in 1..Len(s) /\ r[i] = s[i + n]
  BY <1>1, <1>5, <1>6
<1> QED BY <1>4, <1>7, <1>8 DEF r

LEMMA IdleType == Idle \in CallRecord /\ Idle.step = "idle"
<1>1. <<>> \in Seq(Write)
  OBVIOUS
<1> QED BY <1>1 DEF Idle, At, CallRecord, Step, Role

-----------------------------------------------------------------------------
(* Calls: one begins, goes on, or ends, and keeps to itself.               *)

LEMMA WorkBegins ==
    ASSUME NEW step \in Step \ {"invite", "profile", "registry", "named"},
           NEW u \in Account
    PROVE  /\ At(step, u) \in CallRecord /\ At(step, u).step = step
           /\ At(step, u).uid = u /\ At(step, u).seen = {} /\ At(step, u).todo = <<>>
           /\ ~At(step, u).bonus
<1>1. <<>> \in Seq(Write)
  OBVIOUS
<1> QED BY <1>1 DEF At, CallRecord

LEMMA PutCall ==
    ASSUME AccountsTypes, NEW c \in Call, NEW w \in CallRecord,
           call' = [call EXCEPT ![c] = w]
    PROVE  /\ call' \in [Call -> CallRecord]
           /\ call'[c] = w
           /\ \A d \in Call : d # c => call'[d] = call[d]
BY DEF AccountsTypes

LEMMA DisturbedType ==
    ASSUME AccountsTypes, NEW u \in Account
    PROVE  /\ Disturbed(u) \in [Call -> CallRecord]
           /\ \A d \in Call :
                /\ Disturbed(u)[d] = [call[d] EXCEPT !.alone = @ /\ d \notin ChangingRole(u)]
                /\ Disturbed(u)[d].alone => call[d].alone /\ ~Changing(d, u)
                /\ Disturbed(u)[d].step = call[d].step /\ Disturbed(u)[d].uid = call[d].uid
                /\ Disturbed(u)[d].role = call[d].role /\ Disturbed(u)[d].seen = call[d].seen
                /\ Disturbed(u)[d].todo = call[d].todo /\ Disturbed(u)[d].bonus = call[d].bonus
<1>1. call \in [Call -> CallRecord]
  BY DEF AccountsTypes
<1>2. ASSUME NEW d \in Call, NEW b \in BOOLEAN
      PROVE  /\ [call[d] EXCEPT !.alone = b] \in CallRecord
             /\ [call[d] EXCEPT !.alone = b].alone = b
             /\ [call[d] EXCEPT !.alone = b].step = call[d].step
             /\ [call[d] EXCEPT !.alone = b].uid = call[d].uid
             /\ [call[d] EXCEPT !.alone = b].role = call[d].role
             /\ [call[d] EXCEPT !.alone = b].seen = call[d].seen
             /\ [call[d] EXCEPT !.alone = b].todo = call[d].todo
             /\ [call[d] EXCEPT !.alone = b].bonus = call[d].bonus
  BY <1>1 DEF CallRecord
<1>3. ASSUME NEW d \in Call
      PROVE  /\ (call[d].alone /\ d \notin ChangingRole(u)) \in BOOLEAN
             /\ d \in ChangingRole(u) <=> Changing(d, u)
  <2>1. call[d].alone \in BOOLEAN
    BY <1>1 DEF CallRecord
  <2> QED BY <2>1, Zenon DEF ChangingRole, Changing
<1>4. \A d \in Call :
        Disturbed(u)[d] = [call[d] EXCEPT !.alone = @ /\ d \notin ChangingRole(u)]
  BY Zenon DEF Disturbed
<1>5. ASSUME NEW d \in Call
      PROVE  /\ Disturbed(u)[d] \in CallRecord
             /\ Disturbed(u)[d].alone => call[d].alone /\ ~Changing(d, u)
             /\ Disturbed(u)[d].step = call[d].step /\ Disturbed(u)[d].uid = call[d].uid
             /\ Disturbed(u)[d].role = call[d].role /\ Disturbed(u)[d].seen = call[d].seen
             /\ Disturbed(u)[d].todo = call[d].todo /\ Disturbed(u)[d].bonus = call[d].bonus
  <2>1. PICK b \in BOOLEAN : b = (call[d].alone /\ d \notin ChangingRole(u))
    BY <1>3
  <2>2. Disturbed(u)[d] = [call[d] EXCEPT !.alone = b]
    BY <1>4, <2>1, Zenon
  <2>3. b => call[d].alone /\ ~Changing(d, u)
    BY <1>3, <2>1
  <2> QED BY <1>2, <2>2, <2>3
<1>6. Disturbed(u) = [d \in Call |-> Disturbed(u)[d]]
  BY DEF Disturbed
<1> QED BY <1>4, <1>5, <1>6

-----------------------------------------------------------------------------
(* Types: the steps of a role.                                             *)

LEMMA StampClaimsType ==
    ASSUME AccountsTypes, NEW c \in Call, NEW u \in Account, NEW role \in Role,
           NEW invite \in BOOLEAN, StampClaims(c, u, role, invite),
           auth' = auth, begun' \in 0..MaxCalls
    PROVE  /\ AccountsTypes'
           /\ \A d \in Call : d # c => call'[d] = Disturbed(u)[d]
           /\ call'[c].step = "profile" /\ call'[c].uid = u /\ call'[c].role = role
           /\ call'[c].alone <=> \A d \in Call : ~Changing(d, u)
<1> DEFINE b == ChangingRole(u) = {}
           w == [At("profile", u) EXCEPT !.role = role, !.invite = invite, !.alone = b]
<1>1. b \in BOOLEAN /\ (b <=> \A d \in Call : ~Changing(d, u))
  BY Zenon DEF ChangingRole, Changing
<1> HIDE DEF b
<1>2. <<>> \in Seq(Write)
  OBVIOUS
<1>3. w \in CallRecord /\ w.step = "profile" /\ w.uid = u /\ w.role = role /\ w.alone = b
  BY <1>1, <1>2 DEF At, CallRecord, Step
<1>4. call' = [Disturbed(u) EXCEPT ![c] = w]
  BY DEF StampClaims, b
<1> HIDE DEF w
<1>5. call' \in [Call -> CallRecord] /\ call'[c] = w
      /\ \A d \in Call : d # c => call'[d] = Disturbed(u)[d]
  BY <1>3, <1>4, DisturbedType
<1>6. claims' \in [Account -> Role] /\ clean' \in [Account -> BOOLEAN]
  BY DEF StampClaims, AccountsTypes
<1>7. UNCHANGED <<users, admins, toClean, deviceVars, guestVars, faults>>
  BY DEF StampClaims
<1>8. AccountsTypes'
  BY <1>5, <1>6, <1>7 DEF AccountsTypes, deviceVars, guestVars, bonusVars
<1> QED BY <1>1, <1>3, <1>5, <1>8

LEMMA MayType ==
    ASSUME AccountsTypes, NEW c \in Call, May(c)
    PROVE  begun' \in 0..MaxCalls
BY AccountsAssumption DEF AccountsTypes, May

LEMMA AssignRoleType ==
    ASSUME AccountsTypes, NEW c \in Call, NEW u \in Account, NEW r \in Role,
           AssignRole(c, u, r)
    PROVE  AccountsTypes'
BY MayType, StampClaimsType DEF AssignRole

LEMMA InviteClaimsType ==
    ASSUME AccountsTypes, NEW c \in Call, InviteClaims(c)
    PROVE  /\ AccountsTypes'
           /\ call[c].uid \in Account /\ call[c].role \in Role
<1>1. call[c].uid \in Account /\ call[c].role \in Role
  BY DEF AccountsTypes, CallRecord, InviteClaims
<1>2. begun' \in 0..MaxCalls
  BY DEF AccountsTypes, InviteClaims
<1> QED BY <1>1, <1>2, StampClaimsType DEF InviteClaims

LEMMA InviteType ==
    ASSUME AccountsTypes, NEW c \in Call, NEW u \in Account, NEW r \in Role,
           Invite(c, u, r)
    PROVE  AccountsTypes' /\ call'[c].step = "invite"
           /\ \A d \in Call : d # c => call'[d] = call[d]
<1> DEFINE w == [At("invite", u) EXCEPT !.role = r]
<1>1. <<>> \in Seq(Write)
  OBVIOUS
<1>2. w \in CallRecord /\ w.step = "invite"
  BY <1>1 DEF At, CallRecord, Step
<1>3. call' = [call EXCEPT ![c] = w] /\ begun' \in 0..MaxCalls
  BY MayType DEF Invite, Begin
<1> HIDE DEF w
<1>4. call' \in [Call -> CallRecord] /\ call'[c] = w
      /\ \A d \in Call : d # c => call'[d] = call[d]
  BY <1>2, <1>3, PutCall
<1>5. auth' \in [Account -> {"absent", "live", "gone"}]
  BY DEF AccountsTypes, Invite
<1>6. UNCHANGED <<claims, users, admins, toClean, clean, deviceVars, guestVars, faults>>
  BY DEF Invite
<1>7. AccountsTypes'
  BY <1>3, <1>4, <1>5, <1>6 DEF AccountsTypes, deviceVars, guestVars, bonusVars
<1> QED BY <1>2, <1>4, <1>7

(* The call moves to another write of the same role.                       *)
LEMMA RoleGoesOn ==
    ASSUME AccountsTypes, NEW c \in Call, call[c].role \in Role, call[c].uid \in Account,
           NEW step \in {"registry", "named"}, NEW alone \in BOOLEAN
    PROVE  \E w \in CallRecord :
             /\ w = [call[c] EXCEPT !.step = step, !.alone = alone]
             /\ w.step = step /\ w.alone = alone
             /\ w.uid = call[c].uid /\ w.role = call[c].role
<1> DEFINE w == [call[c] EXCEPT !.step = step, !.alone = alone]
<1>1. call[c] \in CallRecord
  BY DEF AccountsTypes
<1>2. /\ w \in CallRecord /\ w.step = step /\ w.alone = alone
      /\ w.uid = call[c].uid /\ w.role = call[c].role
  BY <1>1 DEF CallRecord, Step
<1>3. w = [call[c] EXCEPT !.step = step, !.alone = alone]
  OBVIOUS
<1> HIDE DEF w
<1> QED BY <1>2, <1>3

LEMMA RoleOfStep ==
    ASSUME AccountsTypes, NEW c \in Call,
           call[c].step \in {"invite", "profile", "registry", "named"}
    PROVE  call[c].role \in Role /\ call[c].uid \in Account /\ call[c].alone \in BOOLEAN
BY DEF AccountsTypes, CallRecord

LEMMA WriteProfileType ==
    ASSUME AccountsTypes, NEW c \in Call, WriteProfile(c)
    PROVE  /\ AccountsTypes'
           /\ \A d \in Call : d # c => call'[d] = call[d]
           /\ call'[c].step = "registry" /\ call'[c].uid = call[c].uid
           /\ call'[c].role = call[c].role /\ call'[c].alone = call[c].alone
<1>1. call[c].role \in Role /\ call[c].uid \in Account /\ call[c].alone \in BOOLEAN
  BY RoleOfStep DEF WriteProfile
<1>2. [call[c] EXCEPT !.step = "registry"]
        = [call[c] EXCEPT !.step = "registry", !.alone = call[c].alone]
  BY DEF AccountsTypes, CallRecord
<1>3. PICK w \in CallRecord :
        /\ w = [call[c] EXCEPT !.step = "registry"]
        /\ w.step = "registry" /\ w.uid = call[c].uid /\ w.role = call[c].role
        /\ w.alone = call[c].alone
  <2>1. PICK w \in CallRecord :
          /\ w = [call[c] EXCEPT !.step = "registry", !.alone = call[c].alone]
          /\ w.step = "registry" /\ w.alone = call[c].alone
          /\ w.uid = call[c].uid /\ w.role = call[c].role
    BY <1>1, RoleGoesOn
  <2> QED BY <1>2, <2>1
<1>4. call' = [call EXCEPT ![c] = w]
  BY <1>3 DEF AccountsTypes, WriteProfile, Goto
<1>5. call' \in [Call -> CallRecord] /\ call'[c] = w
      /\ \A d \in Call : d # c => call'[d] = call[d]
  BY <1>4, PutCall
<1>6. users' \in [Account -> Role] /\ begun' = begun
  BY <1>1 DEF AccountsTypes, WriteProfile, Goto
<1>7. UNCHANGED <<auth, claims, admins, toClean, clean, deviceVars, guestVars, faults>>
  BY DEF WriteProfile
<1>8. AccountsTypes'
  BY <1>5, <1>6, <1>7 DEF AccountsTypes, deviceVars, guestVars, bonusVars
<1> QED BY <1>3, <1>5, <1>8

LEMMA EndOfRoleType ==
    ASSUME AccountsTypes, NEW c \in Call, call[c].step = "registry",
           NEW alone \in BOOLEAN, EndOfRole(c, alone)
    PROVE  /\ call' \in [Call -> CallRecord] /\ begun' = begun
           /\ clean' \in [Account -> BOOLEAN]
           /\ \A d \in Call : d # c => call'[d] = call[d]
           /\ \/ /\ call'[c].step = "named" /\ call'[c].uid = call[c].uid
                 /\ call'[c].role = call[c].role /\ call'[c].alone = alone
                 /\ clean' = clean
              \/ /\ call'[c].step = "idle"
                 /\ clean' = [clean EXCEPT ![call[c].uid] = alone]
<1>1. call[c].role \in Role /\ call[c].uid \in Account
  BY RoleOfStep
<1>2. CASE call[c].invite
  <2>1. PICK w \in CallRecord :
        /\ w = [call[c] EXCEPT !.step = "named", !.alone = alone]
        /\ w.step = "named" /\ w.uid = call[c].uid /\ w.role = call[c].role
        /\ w.alone = alone
    <3>1. \E w \in CallRecord :
            /\ w = [call[c] EXCEPT !.step = "named", !.alone = alone]
            /\ w.step = "named" /\ w.alone = alone
            /\ w.uid = call[c].uid /\ w.role = call[c].role
      BY <1>1, RoleGoesOn
    <3> QED BY <3>1
  <2>2. call' = [call EXCEPT ![c] = w]
    BY <1>2, <2>1 DEF AccountsTypes, EndOfRole
  <2>3. clean' = clean /\ begun' = begun
    BY <1>2 DEF EndOfRole
  <2>4. call' \in [Call -> CallRecord] /\ call'[c] = w
        /\ \A d \in Call : d # c => call'[d] = call[d]
    BY <2>2, PutCall
  <2> QED BY <2>1, <2>3, <2>4 DEF AccountsTypes
<1>3. CASE ~call[c].invite
  <2>1. call' = [call EXCEPT ![c] = Idle] /\ begun' = begun
        /\ clean' = [clean EXCEPT ![call[c].uid] = alone]
    BY <1>3 DEF EndOfRole, Return
  <2>2. call' \in [Call -> CallRecord] /\ call'[c] = Idle
        /\ \A d \in Call : d # c => call'[d] = call[d]
    BY <2>1, IdleType, PutCall
  <2> QED BY <2>1, <2>2, IdleType DEF AccountsTypes
<1> QED BY <1>2, <1>3

LEMMA FaultType == ASSUME AccountsTypes, Fault PROVE faults' \in 0..MaxFailures
BY AccountsAssumption DEF AccountsTypes, Fault

LEMMA RegistryType ==
    ASSUME AccountsTypes, NEW c \in Call, WriteRegistry(c) \/ RegistryDeleteFails(c)
    PROVE  AccountsTypes'
<1>1. call[c].step = "registry"
  BY DEF WriteRegistry, RegistryDeleteFails
<1>2. call[c].role \in Role /\ call[c].uid \in Account /\ call[c].alone \in BOOLEAN
  BY <1>1, RoleOfStep
<1>3. PICK alone \in BOOLEAN : EndOfRole(c, alone)
  BY <1>2 DEF WriteRegistry, RegistryDeleteFails
<1>4. call' \in [Call -> CallRecord] /\ begun' = begun /\ clean' \in [Account -> BOOLEAN]
  BY <1>1, <1>3, EndOfRoleType
<1>5. UNCHANGED <<auth, claims, users, toClean, deviceVars, guestVars>>
  BY DEF WriteRegistry, RegistryDeleteFails
<1>6. admins' \in [Account -> Role \cup {Nobody}] /\ faults' \in 0..MaxFailures
  <2>1. CASE WriteRegistry(c)
    <3>1. Registered(call[c].uid, call[c].role) \in Role \cup {Nobody}
      BY <1>2 DEF Registered
    <3>2. /\ admins' = [admins EXCEPT ![call[c].uid] = Registered(call[c].uid, call[c].role)]
          /\ faults' = faults
      BY <2>1 DEF WriteRegistry
    <3> HIDE DEF Registered
    <3> QED BY <3>1, <3>2 DEF AccountsTypes
  <2>2. CASE RegistryDeleteFails(c)
    BY <2>2, FaultType DEF RegistryDeleteFails, AccountsTypes
  <2> QED BY <2>1, <2>2
<1> QED BY <1>4, <1>5, <1>6 DEF AccountsTypes, deviceVars, guestVars, bonusVars

LEMMA ReturnType ==
    ASSUME AccountsTypes, NEW c \in Call, Return(c)
    PROVE  /\ call' \in [Call -> CallRecord] /\ begun' = begun
           /\ call'[c].step = "idle"
           /\ \A d \in Call : d # c => call'[d] = call[d]
BY IdleType, PutCall DEF Return

LEMMA NameInvitedType ==
    ASSUME AccountsTypes, NEW c \in Call, NameInvited(c)
    PROVE  AccountsTypes'
<1>1. call[c].role \in Role /\ call[c].uid \in Account /\ call[c].alone \in BOOLEAN
  BY RoleOfStep DEF NameInvited
<1>2. call' \in [Call -> CallRecord] /\ begun' = begun
  BY ReturnType DEF NameInvited
<1>3. users' \in [Account -> Role] /\ clean' \in [Account -> BOOLEAN]
  BY <1>1 DEF AccountsTypes, NameInvited
<1>4. UNCHANGED <<auth, claims, admins, toClean, deviceVars, guestVars, faults>>
  BY DEF NameInvited
<1> QED BY <1>2, <1>3, <1>4 DEF AccountsTypes, deviceVars, guestVars, bonusVars

(* The end of a call, by an answer, a throw or a death.                    *)
LEMMA EndOfCallType ==
    ASSUME AccountsTypes, NEW c \in Call, InviteThrows(c) \/ Pruned(c) \/ Abort(c)
    PROVE  AccountsTypes'
<1>1. Return(c) /\ UNCHANGED <<roleVars, deviceVars, guestVars>>
  BY DEF InviteThrows, Pruned, Abort
<1>2. faults' \in 0..MaxFailures
  BY FaultType DEF InviteThrows, Pruned, Abort, AccountsTypes
<1>3. call' \in [Call -> CallRecord] /\ begun' = begun
  BY <1>1, ReturnType
<1> QED BY <1>1, <1>2, <1>3 DEF AccountsTypes, roleVars, deviceVars, guestVars, bonusVars

LEMMA EraseType ==
    ASSUME AccountsTypes, NEW u \in Account,
           DeleteAccount(u) \/ CleanUp(u) \/ CleanUpFails(u)
    PROVE  AccountsTypes'
<1>1. CASE DeleteAccount(u)
  <2>1. call' \in [Call -> CallRecord]
    BY <1>1, DisturbedType DEF DeleteAccount
  <2>2. auth' \in [Account -> {"absent", "live", "gone"}] /\ toClean' \subseteq Account
        /\ clean' \in [Account -> BOOLEAN] /\ begun' \in 0..MaxCalls
    BY <1>1, AccountsAssumption DEF AccountsTypes, DeleteAccount
  <2>3. UNCHANGED <<claims, users, admins, deviceVars, guestVars, faults>>
    BY <1>1 DEF DeleteAccount
  <2> QED BY <2>1, <2>2, <2>3 DEF AccountsTypes, deviceVars, guestVars, bonusVars
<1>2. CASE CleanUp(u)
  <2>1. (ChangingRole(u) = {}) \in BOOLEAN
    BY Zenon
  <2>2. clean' \in [Account -> BOOLEAN]
    BY <1>2, <2>1 DEF CleanUp, AccountsTypes
  <2>3. admins' \in [Account -> Role \cup {Nobody}] /\ users' \in [Account -> Role]
        /\ carts' \subseteq Account /\ toClean' \subseteq Account
    BY <1>2 DEF AccountsTypes, CleanUp, Role
  <2>4. UNCHANGED <<auth, claims, deviceVars, customerId, guestCart, bonusVars,
                   migrated, call, begun, faults>>
    BY <1>2 DEF CleanUp
  <2> QED BY <2>2, <2>3, <2>4 DEF AccountsTypes, deviceVars, bonusVars
<1>3. CASE CleanUpFails(u)
  <2>1. faults' \in 0..MaxFailures
    BY <1>3, FaultType DEF CleanUpFails
  <2>2. UNCHANGED <<auth, claims, users, admins, clean, deviceVars, guestVars, call, begun>>
        /\ toClean' = toClean \ {u}
    BY <1>3 DEF CleanUpFails
  <2> QED BY <2>1, <2>2 DEF AccountsTypes, deviceVars, guestVars, bonusVars
<1> QED BY <1>1, <1>2, <1>3

-----------------------------------------------------------------------------
(* Types: the token of a device.                                           *)

(* The steps of a device and of a migration begin with a call of their own *)
(* and keep to it; that call changes no role.                              *)
OwnCall(c) ==
    /\ call' \in [Call -> CallRecord]
    /\ \A d \in Call : d # c => call'[d] = call[d]
    /\ call'[c].step \notin {"profile", "registry", "named"}

LEMMA BeginType ==
    ASSUME AccountsTypes, NEW c \in Call, NEW w \in CallRecord, Begin(c, w)
    PROVE  /\ call' \in [Call -> CallRecord] /\ call'[c] = w
           /\ \A d \in Call : d # c => call'[d] = call[d]
           /\ begun' \in 0..MaxCalls
BY MayType, PutCall DEF Begin

LEMMA DeviceCallType ==
    ASSUME AccountsTypes, NEW c \in Call, NEW u \in Account,
           NEW step \in {"idle", "holders", "scrub", "self"}, Begin(c, At(step, u))
    PROVE  OwnCall(c) /\ call'[c].step = step /\ begun' \in 0..MaxCalls
<1>1. At(step, u) \in CallRecord /\ At(step, u).step = step
  BY WorkBegins DEF Step
<1> QED BY <1>1, BeginType DEF OwnCall

LEMMA RegisterType ==
    ASSUME AccountsTypes, NEW c \in Call, NEW u \in Account,
           Register(c, u) \/ Unregister(c, u)
    PROVE  /\ AccountsTypes' /\ OwnCall(c)
           /\ call'[c].step \notin {"scanned", "chunks"}
<1>1. OwnCall(c) /\ begun' \in 0..MaxCalls /\ call'[c].step \in {"idle", "holders", "scrub", "self"}
  <2>1. \/ \E step \in {"idle", "holders", "scrub", "self"} : Begin(c, At(step, u))
        \/ Begin(c, Idle)
    <3>1. CASE Register(c, u)
      BY <3>1 DEF Register
    <3>2. CASE Unregister(c, u)
      BY <3>2 DEF Unregister
    <3> QED BY <3>1, <3>2
  <2>2. CASE Begin(c, Idle)
    BY <2>2, IdleType, BeginType DEF OwnCall
  <2>3. ASSUME NEW step \in {"idle", "holders", "scrub", "self"}, Begin(c, At(step, u))
        PROVE  OwnCall(c) /\ call'[c].step = step /\ begun' \in 0..MaxCalls
    BY <2>3, DeviceCallType
  <2> QED BY <2>1, <2>2, <2>3
<1>2. owner' \in Account \cup {Nobody, "ownerless"} /\ listed' \subseteq Account
  <2>1. CASE Register(c, u)
    BY <2>1 DEF Register, AccountsTypes, deviceVars
  <2>2. CASE Unregister(c, u)
    BY <2>2 DEF Unregister, AccountsTypes
  <2> QED BY <2>1, <2>2
<1>3. UNCHANGED <<roleVars, guestVars, faults>>
  BY DEF Register, Unregister
<1>4. AccountsTypes'
  BY <1>1, <1>2, <1>3 DEF AccountsTypes, roleVars, guestVars, bonusVars, OwnCall
<1> QED BY <1>1, <1>4

LEMMA PruneType ==
    ASSUME AccountsTypes, NEW c \in Call, FindHolders(c) \/ Prune(c) \/ PruneFails(c)
    PROVE  /\ AccountsTypes' /\ OwnCall(c)
           /\ call'[c].step \notin {"scanned", "chunks"}
<1>1. call[c] \in CallRecord /\ call[c].step \in {"holders", "prune"} /\ listed \subseteq Account
  BY DEF AccountsTypes, FindHolders, Prune, PruneFails
<1>2. \E seen \in SUBSET (Account \cup Order) :
         call' = [call EXCEPT ![c] = [@ EXCEPT !.step = "prune", !.seen = seen]]
  <2>1. CASE FindHolders(c)
    <3>1. listed \ {call[c].uid} \in SUBSET (Account \cup Order)
      BY <1>1
    <3> QED BY <2>1, <3>1 DEF FindHolders, AccountsTypes
  <2>2. CASE Prune(c) \/ PruneFails(c)
    <3>1. PICK v \in call[c].seen : call' = [call EXCEPT ![c].seen = @ \ {v}]
      BY <2>2 DEF Prune, PruneFails
    <3>2. call[c].step = "prune"
      BY <2>2 DEF Prune, PruneFails
    <3>3. call[c].seen \ {v} \in SUBSET (Account \cup Order)
      BY <1>1 DEF CallRecord
    <3>4. [call[c] EXCEPT !.seen = @ \ {v}]
            = [call[c] EXCEPT !.step = "prune", !.seen = call[c].seen \ {v}]
      BY <1>1, <3>2 DEF CallRecord
    <3>5. call' = [call EXCEPT ![c] = [@ EXCEPT !.step = "prune", !.seen = call[c].seen \ {v}]]
      BY <3>1, <3>4 DEF AccountsTypes
    <3> QED BY <3>3, <3>5
  <2> QED BY <2>1, <2>2
<1>3. PICK seen \in SUBSET (Account \cup Order) :
         call' = [call EXCEPT ![c] = [@ EXCEPT !.step = "prune", !.seen = seen]]
  BY <1>2
<1>4. PICK w : w = [call[c] EXCEPT !.step = "prune", !.seen = seen]
  OBVIOUS
<1>5. w \in CallRecord /\ w.step = "prune"
  BY <1>1, <1>4 DEF CallRecord, Step
<1>6. call' = [call EXCEPT ![c] = w]
  BY <1>3, <1>4 DEF AccountsTypes
<1>7. OwnCall(c) /\ call'[c].step = "prune"
  BY <1>5, <1>6, PutCall DEF OwnCall
<1>8. UNCHANGED <<owner, roleVars, guestVars, begun>> /\ listed' \subseteq Account
  BY <1>1 DEF FindHolders, Prune, PruneFails, deviceVars
<1>9. faults' \in 0..MaxFailures
  BY FaultType DEF FindHolders, Prune, PruneFails, AccountsTypes
<1>10. AccountsTypes'
  BY <1>7, <1>8, <1>9 DEF AccountsTypes, roleVars, guestVars, bonusVars, OwnCall
<1> QED BY <1>7, <1>10

LEMMA ScrubType ==
    ASSUME AccountsTypes, NEW c \in Call, Scrub(c) \/ SelfScrub(c)
    PROVE  AccountsTypes'
<1>1. Return(c) /\ UNCHANGED <<owner, roleVars, guestVars, faults>>
  BY DEF Scrub, SelfScrub
<1>2. call' \in [Call -> CallRecord] /\ begun' = begun
  BY <1>1, ReturnType
<1>3. listed' \subseteq Account
  BY DEF Scrub, SelfScrub, Holders, AccountsTypes
<1> QED BY <1>1, <1>2, <1>3 DEF AccountsTypes, roleVars, guestVars, bonusVars

-----------------------------------------------------------------------------
(* Types: the migration of a guest.                                        *)

LEMMA MigrateType ==
    ASSUME AccountsTypes, NEW c \in Call, NEW u \in Account, Migrate(c, u)
    PROVE  /\ AccountsTypes' /\ OwnCall(c)
           /\ call'[c].step = "scanned" /\ call'[c].seen = GuestOwned
<1> DEFINE w == [At("scanned", u) EXCEPT !.seen = GuestOwned]
<1>1. GuestOwned \subseteq Order
  BY DEF GuestOwned
<1>2. At("scanned", u) \in CallRecord /\ At("scanned", u).step = "scanned"
  BY WorkBegins DEF Step
<1>3. w \in CallRecord /\ w.step = "scanned" /\ w.seen = GuestOwned
  BY <1>1, <1>2 DEF CallRecord
<1>4. Begin(c, w)
  BY DEF Migrate
<1> HIDE DEF w
<1>5. OwnCall(c) /\ call'[c] = w /\ begun' \in 0..MaxCalls
  BY <1>3, <1>4, BeginType DEF OwnCall
<1>6. UNCHANGED <<roleVars, deviceVars, guestVars, faults>>
  BY DEF Migrate
<1>7. AccountsTypes'
  BY <1>5, <1>6 DEF AccountsTypes, roleVars, deviceVars, guestVars, bonusVars, OwnCall
<1> QED BY <1>3, <1>5, <1>7

Writes(S) == SetToSeq(S) \o <<"profile">> \o CartWrites

LEMMA WritesAreWhole ==
    ASSUME NEW S \in SUBSET Order
    PROVE  /\ Writes(S) \in Seq(Write)
           /\ \A o \in S : \E j \in 1..Len(Writes(S)) : Writes(S)[j] = o
           /\ guestCart => \E j \in 1..Len(Writes(S)) : Writes(S)[j] = "empty"
           /\ \A j \in 1..Len(Writes(S)) :
                Writes(S)[j] = "empty" => \E i \in 1..(j - 1) : Writes(S)[i] = "cart"
<1>1. IsFiniteSet(S)
  BY AccountsAssumption, FS_Subset
<1>2. SetToSeq(S) \in Seq(S) /\ Range(SetToSeq(S)) = S
  BY <1>1, SetToSeqIsWhole
<1>3. PICK s \in Seq(Write), n \in Nat :
        /\ s = SetToSeq(S) /\ n = Len(s)
        /\ \A i \in 1..n : s[i] \in S
        /\ \A o \in S : \E i \in 1..n : s[i] = o
  <2>1. SetToSeq(S) \in Seq(Write)
    BY <1>2, SeqMonotonic DEF Write
  <2>2. \A i \in 1..Len(SetToSeq(S)) : SetToSeq(S)[i] \in S
    BY <1>2
  <2>3. \A o \in S : \E i \in 1..Len(SetToSeq(S)) : SetToSeq(S)[i] = o
    BY <1>2 DEF Range
  <2> QED BY <2>1, <2>2, <2>3
<1>4. PICK p \in Seq(Write) :
        p = s \o <<"profile">> /\ Len(p) = n + 1
        /\ (\A i \in 1..n : p[i] = s[i]) /\ p[n + 1] = "profile"
  <2>1. PICK one \in Seq(Write) : one = <<"profile">> /\ Len(one) = 1 /\ one[1] = "profile"
    <3>1. "profile" \in Write
      BY DEF Write
    <3>2. <<"profile">> \in Seq(Write)
      BY <3>1
    <3>3. Len(<<"profile">>) = 1 /\ <<"profile">>[1] = "profile"
      OBVIOUS
    <3> QED BY <3>2, <3>3
  <2>2. /\ s \o one \in Seq(Write) /\ Len(s \o one) = n + 1
        /\ \A i \in 1..(n + 1) : (s \o one)[i] = IF i <= n THEN s[i] ELSE one[i - n]
    BY <1>3, <2>1, ConcatProperties
  <2>3. (\A i \in 1..n : (s \o one)[i] = s[i]) /\ (s \o one)[n + 1] = "profile"
    BY <1>3, <2>1, <2>2
  <2> QED BY <2>1, <2>2, <2>3
<1>5. "empty" \notin S
  BY AccountsAssumption
<1>6. CASE guestCart
  <2>1. Writes(S) = p \o <<"cart", "empty">>
    BY <1>3, <1>4, <1>6 DEF Writes, CartWrites
  <2>2. PICK w \in Seq(Write) :
          w = Writes(S) /\ Len(w) = n + 3
          /\ (\A i \in 1..(n + 1) : w[i] = p[i]) /\ w[n + 2] = "cart" /\ w[n + 3] = "empty"
    <3>1. PICK two \in Seq(Write) :
            two = <<"cart", "empty">> /\ Len(two) = 2 /\ two[1] = "cart" /\ two[2] = "empty"
      <4>1. "cart" \in Write /\ "empty" \in Write
        BY DEF Write
      <4>2. <<"cart", "empty">> \in Seq(Write)
        BY <4>1
      <4>3. /\ Len(<<"cart", "empty">>) = 2
            /\ <<"cart", "empty">>[1] = "cart" /\ <<"cart", "empty">>[2] = "empty"
        OBVIOUS
      <4> QED BY <4>2, <4>3
    <3>2. /\ p \o two \in Seq(Write) /\ Len(p \o two) = n + 3
          /\ \A i \in 1..(n + 3) : (p \o two)[i] = IF i <= n + 1 THEN p[i] ELSE two[i - (n + 1)]
      <4>1. /\ p \o two \in Seq(Write) /\ Len(p \o two) = Len(p) + Len(two)
            /\ \A i \in 1..(Len(p) + Len(two)) :
                 (p \o two)[i] = IF i <= Len(p) THEN p[i] ELSE two[i - Len(p)]
        BY ConcatProperties
      <4>2. Len(p) = n + 1 /\ Len(p) + Len(two) = n + 3
        BY <1>3, <1>4, <3>1
      <4> QED BY <4>1, <4>2
    <3>3. (\A i \in 1..(n + 1) : (p \o two)[i] = p[i])
      <4> SUFFICES ASSUME NEW i \in 1..(n + 1) PROVE (p \o two)[i] = p[i]
        OBVIOUS
      <4>1. i \in 1..(n + 3) /\ i <= n + 1
        BY <1>3
      <4> QED BY <3>2, <4>1
    <3>4. (p \o two)[n + 2] = "cart"
      <4>1. n + 2 \in 1..(n + 3) /\ ~(n + 2 <= n + 1) /\ (n + 2) - (n + 1) = 1
        BY <1>3
      <4> QED BY <3>1, <3>2, <4>1
    <3>5. (p \o two)[n + 3] = "empty"
      <4>1. n + 3 \in 1..(n + 3) /\ ~(n + 3 <= n + 1) /\ (n + 3) - (n + 1) = 2
        BY <1>3
      <4> QED BY <3>1, <3>2, <4>1
    <3> QED BY <2>1, <3>1, <3>2, <3>3, <3>4, <3>5
  <2>3. \A o \in S : \E j \in 1..(n + 3) : w[j] = o
    BY <1>3, <1>4, <2>2
  <2>4. \A j \in 1..(n + 3) : w[j] = "empty" => j = n + 3
    <3> SUFFICES ASSUME NEW j \in 1..(n + 3), w[j] = "empty", j # n + 3 PROVE FALSE
      OBVIOUS
    <3>1. j \in 1..(n + 1) \/ j = n + 2
      BY <1>3
    <3>2. CASE j \in 1..(n + 1)
      <4>1. p[j] = "empty"
        BY <2>2, <3>2
      <4>2. CASE j = n + 1
        BY <1>4, <4>1, <4>2
      <4>3. CASE j # n + 1
        <5>1. j \in 1..n
          BY <1>3, <3>2, <4>3
        <5> QED BY <1>3, <1>4, <1>5, <4>1, <5>1
      <4> QED BY <4>2, <4>3
    <3>3. CASE j = n + 2
      BY <2>2, <3>3
    <3> QED BY <3>1, <3>2, <3>3
  <2>5. \A j \in 1..(n + 3) : w[j] = "empty" => \E i \in 1..(j - 1) : w[i] = "cart"
    BY <1>3, <2>2, <2>4
  <2>6. \E j \in 1..(n + 3) : w[j] = "empty"
    BY <1>3, <2>2
  <2> QED BY <2>2, <2>3, <2>5, <2>6
<1>7. CASE ~guestCart
  <2>1. Writes(S) = p \o <<>>
    BY <1>3, <1>4, <1>7 DEF Writes, CartWrites
  <2>2. Writes(S) = p
    BY <2>1, <1>4, ConcatEmptySeq
  <2>3. \A o \in S : \E j \in 1..(n + 1) : p[j] = o
    BY <1>3, <1>4
  <2>4. \A j \in 1..(n + 1) : p[j] # "empty"
    BY <1>3, <1>4, <1>5
  <2> QED BY <1>4, <1>7, <2>2, <2>3, <2>4
<1> QED BY <1>6, <1>7

LEMMA ReadGuestType ==
    ASSUME AccountsTypes, NEW c \in Call, ReadGuest(c)
    PROVE  /\ AccountsTypes' /\ OwnCall(c)
           /\ call[c].seen \in SUBSET Order /\ call[c].uid \in Account
           /\ call'[c].step = "chunks" /\ call'[c].todo = Writes(call[c].seen)
           /\ call'[c].uid = call[c].uid
           /\ call'[c].bonus <=> Eligible(call[c].uid)
<1>1. call[c] \in CallRecord
  BY DEF AccountsTypes
<1>2. call[c].seen \in SUBSET Order /\ call[c].uid \in Account
  BY <1>1 DEF ReadGuest, CallRecord
<1>3. Writes(call[c].seen) \in Seq(Write)
  BY <1>2, WritesAreWhole
<1>4. PICK b \in BOOLEAN, s \in Seq(Write) :
        b = Eligible(call[c].uid) /\ s = Writes(call[c].seen)
  BY <1>3 DEF Eligible
<1>5. PICK w : w = [call[c] EXCEPT !.step = "chunks", !.todo = s, !.bonus = b]
  OBVIOUS
<1>6. w \in CallRecord /\ w.step = "chunks" /\ w.todo = s /\ w.bonus = b /\ w.uid = call[c].uid
  BY <1>1, <1>2, <1>5 DEF CallRecord, Step
<1>7. call' = [call EXCEPT ![c] = w]
  BY <1>4, <1>5 DEF AccountsTypes, ReadGuest, Writes
<1>8. OwnCall(c) /\ call'[c] = w
  BY <1>6, <1>7, PutCall DEF OwnCall
<1>9. UNCHANGED <<roleVars, deviceVars, guestVars, begun, faults>>
  BY DEF ReadGuest
<1>10. AccountsTypes'
  BY <1>8, <1>9 DEF AccountsTypes, roleVars, deviceVars, guestVars, bonusVars, OwnCall
<1> QED BY <1>2, <1>4, <1>6, <1>8, <1>10

LEMMA CommitChunkType ==
    ASSUME AccountsTypes, NEW c \in Call, CommitChunk(c)
    PROVE  /\ AccountsTypes' /\ OwnCall(c)
           /\ call[c].todo \in Seq(Write) /\ call[c].uid \in Account
           /\ call'[c].step = "chunks" /\ call'[c].todo = Remaining(c)
           /\ call'[c].uid = call[c].uid /\ call'[c].bonus = call[c].bonus
<1>1. call[c] \in CallRecord
  BY DEF AccountsTypes
<1>2. call[c].todo \in Seq(Write) /\ call[c].uid \in Account /\ call[c].step = "chunks"
  BY <1>1 DEF CommitChunk, CallRecord
<1>3. Remaining(c) \in Seq(Write)
  BY <1>2, AccountsAssumption, RestOfWrites DEF Remaining
<1>4. PICK w : w = [call[c] EXCEPT !.todo = Remaining(c)]
  OBVIOUS
<1>5. w \in CallRecord /\ w.step = "chunks" /\ w.todo = Remaining(c)
      /\ w.uid = call[c].uid /\ w.bonus = call[c].bonus
  BY <1>1, <1>2, <1>3, <1>4 DEF CallRecord
<1>6. call' = [call EXCEPT ![c] = w]
  BY <1>4 DEF AccountsTypes, CommitChunk
<1>7. OwnCall(c) /\ call'[c] = w
  BY <1>5, <1>6, PutCall DEF OwnCall
<1>8. customerId' \in [Order -> Account \cup {"guest"}]
  BY <1>2 DEF AccountsTypes, CommitChunk
<1>9. ("empty" \notin Range(Chunk(c))) \in BOOLEAN
  BY Zenon
<1>10. guestCart' \in BOOLEAN
  BY <1>9, Zenon DEF AccountsTypes, CommitChunk
<1>11. carts' \subseteq Account
  BY <1>2 DEF AccountsTypes, CommitChunk
<1>12. UNCHANGED <<roleVars, deviceVars, bonusVars, migrated, begun, faults>>
  BY DEF CommitChunk
<1>13. AccountsTypes'
  BY <1>7, <1>8, <1>10, <1>11, <1>12
     DEF AccountsTypes, roleVars, deviceVars, bonusVars, OwnCall
<1> QED BY <1>2, <1>5, <1>7, <1>13

LEMMA AwardType ==
    ASSUME AccountsTypes, NEW c \in Call, Award(c) \/ AnswerMigrated(c)
    PROVE  AccountsTypes' /\ call[c].uid \in Account
<1>1. call[c].uid \in Account
  BY DEF AccountsTypes, CallRecord, Award, AnswerMigrated
<1>2. Return(c) /\ UNCHANGED <<roleVars, deviceVars, customerId, guestCart, carts, faults>>
  BY DEF Award, AnswerMigrated
<1>3. call' \in [Call -> CallRecord] /\ begun' = begun
  BY <1>2, ReturnType
<1>4. BonusKey[call[c].uid] \in Range(BonusKey)
  BY <1>1, AccountsAssumption DEF Range
<1>5. granted' \subseteq Range(BonusKey) /\ coins' \in [Account -> Nat]
      /\ claimed' \subseteq Account /\ migrated' \subseteq Account
  <2>1. CASE UNCHANGED bonusVars
    BY <1>1, <2>1 DEF AccountsTypes, Award, AnswerMigrated, bonusVars
  <2>2. CASE /\ granted' = granted \cup {BonusKey[call[c].uid]}
             /\ coins' = [coins EXCEPT ![call[c].uid] = @ + 1]
             /\ claimed' = claimed \cup {call[c].uid}
    <3>1. coins[call[c].uid] + 1 \in Nat
      BY <1>1 DEF AccountsTypes
    <3>2. migrated' \subseteq Account
      BY <1>1 DEF AccountsTypes, Award, AnswerMigrated
    <3> QED BY <1>1, <1>4, <2>2, <3>1, <3>2 DEF AccountsTypes
  <2>3. CASE AnswerMigrated(c)
    BY <2>1, <2>3 DEF AnswerMigrated
  <2>4. CASE Award(c)
    BY <2>1, <2>2, <2>4 DEF Award
  <2> QED BY <2>3, <2>4
<1> QED BY <1>1, <1>2, <1>3, <1>5 DEF AccountsTypes, roleVars, deviceVars

-----------------------------------------------------------------------------
(* Roles.                                                                  *)

(* Steps that change no role, and bring no call into the middle of one.    *)
LEMMA RoleFrame ==
    ASSUME RoleInv, UNCHANGED roleVars,
           \A d \in Call, u \in Account : Changing(d, u)' =>
               /\ Changing(d, u) /\ call'[d].step = call[d].step
               /\ call'[d].role = call[d].role /\ (call'[d].alone => call[d].alone)
    PROVE  RoleInv'
<1> USE DEF RoleInv, roleVars
<1>1. ChangeIsSeen' /\ AloneIsAlone'
  BY DEF ChangeIsSeen, AloneIsAlone
<1>2. AloneIsInStep'
  BY DEF AloneIsInStep
<1>3. LifeOfAccount' /\ RolesInStep'
  BY DEF LifeOfAccount, RolesInStep, Held
<1> QED BY <1>1, <1>2, <1>3

LEMMA OwnCallRoles ==
    ASSUME AccountsTypes, RoleInv, UNCHANGED roleVars, NEW c \in Call, OwnCall(c)
    PROVE  RoleInv'
<1>1. \A d \in Call, u \in Account : Changing(d, u)' => d # c
  BY DEF OwnCall, Changing
<1>2. \A d \in Call, u \in Account : Changing(d, u)' =>
               /\ Changing(d, u) /\ call'[d].step = call[d].step
               /\ call'[d].role = call[d].role /\ (call'[d].alone => call[d].alone)
  BY <1>1 DEF OwnCall, Changing
<1> QED BY <1>2, RoleFrame

(* A change begins: every other one of the account is disturbed.           *)
LEMMA StampClaimsRoles ==
    ASSUME AccountsTypes, RoleInv, NEW c \in Call, NEW u \in Account, NEW role \in Role,
           NEW invite \in BOOLEAN, StampClaims(c, u, role, invite),
           auth' = auth, auth[u] = "live", begun' \in 0..MaxCalls,
           \A v \in Account : ~Changing(c, v)
    PROVE  RoleInv'
<1>1. /\ \A d \in Call : d # c => call'[d] = Disturbed(u)[d]
      /\ call'[c].step = "profile" /\ call'[c].uid = u /\ call'[c].role = role
      /\ call'[c].alone <=> \A d \in Call : ~Changing(d, u)
  BY StampClaimsType
<1>2. /\ claims' = [claims EXCEPT ![u] = role] /\ clean' = [clean EXCEPT ![u] = FALSE]
      /\ UNCHANGED <<users, admins, toClean, auth>>
  BY DEF StampClaims
<1>3. ASSUME NEW d \in Call, d # c
      PROVE  /\ call'[d].step = call[d].step /\ call'[d].uid = call[d].uid
             /\ call'[d].role = call[d].role
             /\ call'[d].alone => call[d].alone /\ ~Changing(d, u)
  <2>1. call'[d] = Disturbed(u)[d]
    BY <1>1, <1>3
  <2>2. /\ Disturbed(u)[d].alone => call[d].alone /\ ~Changing(d, u)
        /\ Disturbed(u)[d].step = call[d].step /\ Disturbed(u)[d].uid = call[d].uid
        /\ Disturbed(u)[d].role = call[d].role
    BY DisturbedType
  <2> QED BY <2>1, <2>2
<1>4. \A d \in Call, v \in Account : d # c => (Changing(d, v)' <=> Changing(d, v))
  BY <1>3 DEF Changing
<1>5. \A v \in Account : Changing(c, v)' <=> v = u
  BY <1>1 DEF Changing
<1>6. clean' \in [Account -> BOOLEAN] /\ ~clean'[u] /\ \A v \in Account \ {u} : clean'[v] = clean[v]
  BY <1>2 DEF AccountsTypes
<1>7. claims'[u] = role /\ \A v \in Account \ {u} : claims'[v] = claims[v]
  BY <1>2 DEF AccountsTypes
<1>8. ChangeIsSeen'
  BY <1>4, <1>5, <1>6 DEF RoleInv, ChangeIsSeen
<1>9. AloneIsAlone'
  <2> SUFFICES ASSUME NEW d \in Call, NEW v \in Account, Changing(d, v)', call'[d].alone,
                      NEW e \in Call, Changing(e, v)'
               PROVE  e = d
    BY DEF AloneIsAlone
  <2>1. CASE d = c
    BY <1>1, <1>4, <1>5, <2>1
  <2>2. CASE d # c /\ e = c
    <3>1. v = u
      BY <1>5, <2>2
    <3>2. ~Changing(d, u)
      BY <1>3, <2>2
    <3> QED BY <1>4, <2>2, <3>1, <3>2
  <2>3. CASE d # c /\ e # c
    BY <1>3, <1>4, <2>3 DEF RoleInv, AloneIsAlone
  <2> QED BY <2>1, <2>2, <2>3
<1>10. AloneIsInStep'
  <2> SUFFICES ASSUME NEW d \in Call, NEW v \in Account, Changing(d, v)', call'[d].alone
               PROVE  /\ auth'[v] = "live" /\ claims'[v] = call'[d].role
                      /\ call'[d].step \in {"registry", "named"} => users'[v] = call'[d].role
                      /\ call'[d].step = "named" =>
                           admins'[v] = IF call'[d].role = "customer" THEN Nobody
                                        ELSE call'[d].role
    BY DEF AloneIsInStep
  <2>1. CASE d = c
    BY <1>1, <1>2, <1>5, <1>7, <2>1
  <2>2. CASE d # c
    <3>1. Changing(d, v) /\ call[d].alone /\ ~Changing(d, u)
      BY <1>3, <1>4, <2>2
    <3>2. v # u
      BY <3>1
    <3> QED BY <1>2, <1>3, <1>7, <2>2, <3>1, <3>2 DEF RoleInv, AloneIsInStep
  <2> QED BY <2>1, <2>2
<1>11. LifeOfAccount'
  BY <1>2, <1>7 DEF RoleInv, LifeOfAccount
<1>12. RolesInStep'
  BY <1>2, <1>6, <1>7 DEF RoleInv, RolesInStep, Held
<1> QED BY <1>8, <1>9, <1>10, <1>11, <1>12 DEF RoleInv

LEMMA AssignRoleRoles ==
    ASSUME AccountsTypes, RoleInv, NEW c \in Call, NEW u \in Account, NEW r \in Role,
           AssignRole(c, u, r)
    PROVE  RoleInv'
<1>1. begun' \in 0..MaxCalls
  BY MayType DEF AssignRole
<1>2. \A v \in Account : ~Changing(c, v)
  BY DEF AssignRole, May, Changing
<1> QED BY <1>1, <1>2, StampClaimsRoles DEF AssignRole

LEMMA InviteClaimsRoles ==
    ASSUME AccountsTypes, RoleInv, NEW c \in Call, InviteClaims(c)
    PROVE  RoleInv'
<1>1. call[c].uid \in Account /\ call[c].role \in Role
  BY RoleOfStep DEF InviteClaims
<1>2. begun' \in 0..MaxCalls
  BY DEF AccountsTypes, InviteClaims
<1>3. \A v \in Account : ~Changing(c, v)
  BY DEF InviteClaims, Changing
<1> QED BY <1>1, <1>2, <1>3, StampClaimsRoles DEF InviteClaims

LEMMA InviteRoles ==
    ASSUME AccountsTypes, RoleInv, NEW c \in Call, NEW u \in Account, NEW r \in Role,
           Invite(c, u, r)
    PROVE  RoleInv'
<1>1. call'[c].step = "invite" /\ \A d \in Call : d # c => call'[d] = call[d]
  BY InviteType
<1>2. /\ auth[u] # "gone" /\ auth' = [auth EXCEPT ![u] = "live"]
      /\ UNCHANGED <<claims, users, admins, toClean, clean>>
  BY DEF Invite
<1>3. auth'[u] = "live" /\ \A v \in Account \ {u} : auth'[v] = auth[v]
  BY <1>2 DEF AccountsTypes
<1>4. \A d \in Call, v \in Account : Changing(d, v)' => d # c /\ Changing(d, v)
  BY <1>1 DEF Changing
<1>5. ChangeIsSeen' /\ AloneIsAlone' /\ AloneIsInStep'
  BY <1>1, <1>2, <1>3, <1>4 DEF RoleInv, ChangeIsSeen, AloneIsAlone, AloneIsInStep
<1>6. LifeOfAccount'
  BY <1>2, <1>3 DEF RoleInv, LifeOfAccount
<1>7. \A v \in Account : Held(v)' = Held(v)
  BY <1>2, <1>3 DEF RoleInv, LifeOfAccount, Held, AccountsTypes
<1>8. RolesInStep'
  BY <1>2, <1>7 DEF RoleInv, RolesInStep
<1> QED BY <1>5, <1>6, <1>8 DEF RoleInv

LEMMA WriteProfileRoles ==
    ASSUME AccountsTypes, RoleInv, NEW c \in Call, WriteProfile(c)
    PROVE  RoleInv'
<1> DEFINE u == call[c].uid
<1>1. call[c].role \in Role /\ u \in Account /\ call[c].step = "profile" /\ Changing(c, u)
  BY RoleOfStep DEF WriteProfile, Changing
<1>2. /\ \A d \in Call : d # c => call'[d] = call[d]
      /\ call'[c].step = "registry" /\ call'[c].uid = u
      /\ call'[c].role = call[c].role /\ call'[c].alone = call[c].alone
  BY WriteProfileType
<1>3. users' = [users EXCEPT ![u] = call[c].role]
      /\ UNCHANGED <<auth, claims, admins, toClean, clean>>
  BY DEF WriteProfile
<1>4. users'[u] = call[c].role /\ \A v \in Account \ {u} : users'[v] = users[v]
  BY <1>1, <1>3 DEF AccountsTypes
<1> HIDE DEF u
<1>5. \A d \in Call, v \in Account :
         (Changing(d, v)' <=> Changing(d, v)) /\ call'[d].alone = call[d].alone
  BY <1>1, <1>2 DEF Changing, u
<1>6. ChangeIsSeen' /\ AloneIsAlone'
  BY <1>3, <1>5 DEF RoleInv, ChangeIsSeen, AloneIsAlone
<1>7. AloneIsInStep'
  <2> SUFFICES ASSUME NEW d \in Call, NEW v \in Account, Changing(d, v)', call'[d].alone
               PROVE  /\ auth'[v] = "live" /\ claims'[v] = call'[d].role
                      /\ call'[d].step \in {"registry", "named"} => users'[v] = call'[d].role
                      /\ call'[d].step = "named" =>
                           admins'[v] = IF call'[d].role = "customer" THEN Nobody
                                        ELSE call'[d].role
    BY DEF AloneIsInStep
  <2>1. Changing(d, v) /\ call[d].alone
    BY <1>5
  <2>2. CASE d = c
    <3>1. v = u
      BY <2>1, <2>2 DEF Changing, u
    <3> QED BY <1>2, <1>3, <1>4, <2>1, <2>2, <3>1 DEF RoleInv, AloneIsInStep
  <2>3. CASE d # c
    <3>1. v # u
      BY <1>1, <2>1, <2>3 DEF RoleInv, AloneIsAlone
    <3> QED BY <1>2, <1>3, <1>4, <2>1, <2>3, <3>1 DEF RoleInv, AloneIsInStep
  <2> QED BY <2>2, <2>3
<1>8. LifeOfAccount'
  BY <1>3 DEF RoleInv, LifeOfAccount
<1>9. RolesInStep'
  <2>1. ~clean[u]
    BY <1>1 DEF RoleInv, ChangeIsSeen
  <2> QED BY <1>3, <1>4, <2>1 DEF RoleInv, RolesInStep, Held
<1> QED BY <1>6, <1>7, <1>8, <1>9 DEF RoleInv

(* A change ends, or an invitation has one more write to make.             *)
LEMMA RegistryRoles ==
    ASSUME AccountsTypes, RoleInv, NEW c \in Call, WriteRegistry(c) \/ RegistryDeleteFails(c)
    PROVE  RoleInv'
<1> DEFINE u == call[c].uid
<1>1. call[c].role \in Role /\ u \in Account /\ call[c].alone \in BOOLEAN
      /\ call[c].step = "registry" /\ Changing(c, u)
  BY RoleOfStep DEF WriteRegistry, RegistryDeleteFails, Changing
<1>2. PICK alone \in BOOLEAN :
        /\ EndOfRole(c, alone)
        /\ alone => call[c].alone
        /\ alone => admins'[u] = IF call[c].role = "customer" THEN Nobody ELSE call[c].role
        /\ \A v \in Account \ {u} : admins'[v] = admins[v]
  <2>1. CASE WriteRegistry(c)
    BY <1>1, <2>1 DEF WriteRegistry, Registered, AccountsTypes
  <2>2. CASE RegistryDeleteFails(c)
    BY <1>1, <2>2 DEF RegistryDeleteFails
  <2> QED BY <2>1, <2>2
<1>3. UNCHANGED <<auth, claims, users, toClean>>
  BY DEF WriteRegistry, RegistryDeleteFails
<1>4. /\ \A d \in Call : d # c => call'[d] = call[d]
      /\ \/ /\ call'[c].step = "named" /\ call'[c].uid = u
            /\ call'[c].role = call[c].role /\ call'[c].alone = alone
            /\ clean' = clean
         \/ /\ call'[c].step = "idle"
            /\ clean' = [clean EXCEPT ![u] = alone]
  BY <1>1, <1>2, EndOfRoleType
<1>5. ~clean[u]
  BY <1>1 DEF RoleInv, ChangeIsSeen
<1>6. \A v \in Account \ {u} : clean'[v] = clean[v]
  BY <1>1, <1>4 DEF AccountsTypes
<1>7. \A d \in Call, v \in Account : Changing(d, v)' => Changing(d, v)
  BY <1>1, <1>4 DEF Changing
<1>8. clean'[u] => alone /\ call'[c].step = "idle"
  BY <1>1, <1>4, <1>5 DEF AccountsTypes, Changing
<1>9. alone => \A d \in Call : Changing(d, u) => d = c
  BY <1>1, <1>2 DEF RoleInv, AloneIsAlone
<1>10. alone => auth[u] = "live" /\ claims[u] = call[c].role /\ users[u] = call[c].role
  BY <1>1, <1>2 DEF RoleInv, AloneIsInStep
<1>11. \A d \in Call, v \in Account : Changing(d, v)' /\ d # c => call'[d] = call[d]
  BY <1>4
<1>12. \A v \in Account : Changing(c, v)' =>
          /\ v = u /\ call'[c].step = "named" /\ call'[c].role = call[c].role
          /\ call'[c].alone = alone
  BY <1>1, <1>4 DEF Changing
<1> HIDE DEF u
<1>13. ChangeIsSeen'
  <2> SUFFICES ASSUME NEW d \in Call, NEW v \in Account, Changing(d, v)', clean'[v]
               PROVE  FALSE
    BY DEF ChangeIsSeen
  <2>1. CASE v = u
    <3>1. Changing(d, u) /\ alone /\ call'[c].step = "idle"
      BY <1>7, <1>8, <2>1
    <3>2. d = c
      BY <1>9, <3>1
    <3> QED BY <2>1, <3>1, <3>2 DEF Changing
  <2>2. CASE v # u
    BY <1>6, <1>7, <2>2 DEF RoleInv, ChangeIsSeen
  <2> QED BY <2>1, <2>2
<1>14. AloneIsAlone'
  BY <1>2, <1>7, <1>11, <1>12 DEF RoleInv, AloneIsAlone
<1>15. AloneIsInStep'
  <2> SUFFICES ASSUME NEW d \in Call, NEW v \in Account, Changing(d, v)', call'[d].alone
               PROVE  /\ auth'[v] = "live" /\ claims'[v] = call'[d].role
                      /\ call'[d].step \in {"registry", "named"} => users'[v] = call'[d].role
                      /\ call'[d].step = "named" =>
                           admins'[v] = IF call'[d].role = "customer" THEN Nobody
                                        ELSE call'[d].role
    BY DEF AloneIsInStep
  <2>1. CASE d = c
    BY <1>2, <1>3, <1>10, <1>12, <2>1
  <2>2. CASE d # c
    <3>1. Changing(d, v) /\ call[d].alone /\ call'[d] = call[d]
      BY <1>7, <1>11, <2>2
    <3>2. v # u
      BY <1>1, <2>2, <3>1 DEF RoleInv, AloneIsAlone
    <3> QED BY <1>2, <1>3, <3>1, <3>2 DEF RoleInv, AloneIsInStep
  <2> QED BY <2>1, <2>2
<1>16. LifeOfAccount'
  BY <1>3 DEF RoleInv, LifeOfAccount
<1>17. RolesInStep'
  <2> SUFFICES ASSUME NEW v \in Account, clean'[v]
               PROVE  /\ users'[v] = Held(v)'
                      /\ admins'[v] = IF Held(v)' = "customer" THEN Nobody ELSE Held(v)'
    BY DEF RolesInStep
  <2>1. CASE v = u
    BY <1>2, <1>3, <1>8, <1>10, <2>1 DEF Held
  <2>2. CASE v # u
    BY <1>2, <1>3, <1>6, <2>2 DEF RoleInv, RolesInStep, Held
  <2> QED BY <2>1, <2>2
<1> QED BY <1>13, <1>14, <1>15, <1>16, <1>17 DEF RoleInv

LEMMA NameInvitedRoles ==
    ASSUME AccountsTypes, RoleInv, NEW c \in Call, NameInvited(c)
    PROVE  RoleInv'
<1> DEFINE u == call[c].uid
<1>1. call[c].role \in Role /\ u \in Account /\ call[c].alone \in BOOLEAN
      /\ call[c].step = "named" /\ Changing(c, u)
  BY RoleOfStep DEF NameInvited, Changing
<1>2. /\ users' = [users EXCEPT ![u] = call[c].role]
      /\ clean' = [clean EXCEPT ![u] = call[c].alone]
      /\ UNCHANGED <<auth, claims, admins, toClean>>
  BY DEF NameInvited
<1>3. call'[c].step = "idle" /\ \A d \in Call : d # c => call'[d] = call[d]
  BY ReturnType DEF NameInvited
<1>4. users'[u] = call[c].role /\ \A v \in Account \ {u} : users'[v] = users[v]
  BY <1>1, <1>2 DEF AccountsTypes
<1>5. clean'[u] = call[c].alone /\ \A v \in Account \ {u} : clean'[v] = clean[v]
  BY <1>1, <1>2 DEF AccountsTypes
<1> HIDE DEF u
<1>6. \A d \in Call, v \in Account :
        Changing(d, v)' => d # c /\ Changing(d, v) /\ call'[d] = call[d]
  BY <1>3 DEF Changing
<1>7. call[c].alone =>
        /\ \A d \in Call : Changing(d, u) => d = c
        /\ auth[u] = "live" /\ claims[u] = call[c].role
        /\ admins[u] = IF call[c].role = "customer" THEN Nobody ELSE call[c].role
  BY <1>1 DEF RoleInv, AloneIsAlone, AloneIsInStep
<1>8. ChangeIsSeen' /\ AloneIsAlone'
  BY <1>5, <1>6, <1>7 DEF RoleInv, ChangeIsSeen, AloneIsAlone
<1>9. AloneIsInStep'
  <2>1. \A d \in Call, v \in Account : Changing(d, v)' /\ call'[d].alone => v # u
    BY <1>1, <1>6 DEF RoleInv, AloneIsAlone
  <2> QED BY <1>2, <1>4, <1>6, <2>1 DEF RoleInv, AloneIsInStep
<1>10. LifeOfAccount'
  BY <1>2 DEF RoleInv, LifeOfAccount
<1>11. RolesInStep'
  <2> SUFFICES ASSUME NEW v \in Account, clean'[v]
               PROVE  /\ users'[v] = Held(v)'
                      /\ admins'[v] = IF Held(v)' = "customer" THEN Nobody ELSE Held(v)'
    BY DEF RolesInStep
  <2>1. CASE v = u
    BY <1>2, <1>4, <1>5, <1>7, <2>1 DEF Held
  <2>2. CASE v # u
    BY <1>2, <1>4, <1>5, <2>2 DEF RoleInv, RolesInStep, Held
  <2> QED BY <2>1, <2>2
<1> QED BY <1>8, <1>9, <1>10, <1>11 DEF RoleInv

LEMMA EraseRoles ==
    ASSUME AccountsTypes, RoleInv, NEW u \in Account,
           DeleteAccount(u) \/ CleanUp(u) \/ CleanUpFails(u)
    PROVE  RoleInv'
<1>1. CASE DeleteAccount(u)
  <2>1. /\ auth' = [auth EXCEPT ![u] = "gone"] /\ toClean' = toClean \cup {u}
        /\ clean' = [clean EXCEPT ![u] = FALSE] /\ call' = Disturbed(u)
        /\ UNCHANGED <<claims, users, admins>> /\ auth[u] = "live"
    BY <1>1 DEF DeleteAccount
  <2>2. auth'[u] = "gone" /\ \A v \in Account \ {u} : auth'[v] = auth[v]
    BY <2>1 DEF AccountsTypes
  <2>3. ~clean'[u] /\ \A v \in Account \ {u} : clean'[v] = clean[v]
    BY <2>1 DEF AccountsTypes
  <2>4. \A d \in Call :
           /\ call'[d].step = call[d].step /\ call'[d].uid = call[d].uid
           /\ call'[d].role = call[d].role
           /\ call'[d].alone => call[d].alone /\ ~Changing(d, u)
    BY <2>1, DisturbedType
  <2>5. \A d \in Call, v \in Account : Changing(d, v)' <=> Changing(d, v)
    BY <2>4 DEF Changing
  <2>6. ChangeIsSeen'
    BY <2>3, <2>5 DEF RoleInv, ChangeIsSeen
  <2>7. AloneIsAlone'
    BY <2>4, <2>5 DEF RoleInv, AloneIsAlone
  <2>8. AloneIsInStep'
    <3>1. \A d \in Call, v \in Account : Changing(d, v)' /\ call'[d].alone => v # u
      BY <2>4, <2>5
    <3> QED BY <2>1, <2>2, <2>4, <2>5, <3>1 DEF RoleInv, AloneIsInStep
  <2>9. LifeOfAccount' /\ RolesInStep'
    BY <2>1, <2>2, <2>3 DEF RoleInv, LifeOfAccount, RolesInStep, Held
  <2> QED BY <2>6, <2>7, <2>8, <2>9 DEF RoleInv
<1>2. CASE CleanUp(u)
  <2>1. /\ u \in toClean /\ toClean' = toClean \ {u}
        /\ admins' = [admins EXCEPT ![u] = Nobody]
        /\ users' = [users EXCEPT ![u] = "customer"]
        /\ UNCHANGED <<auth, claims, call>>
    BY <1>2 DEF CleanUp
  <2>2. /\ clean'[u] <=> \A d \in Call : ~Changing(d, u)
        /\ \A v \in Account \ {u} : clean'[v] = clean[v]
    <3>1. clean' = [clean EXCEPT ![u] = ChangingRole(u) = {}]
      BY <1>2 DEF CleanUp
    <3>2. clean'[u] <=> ChangingRole(u) = {}
      BY <3>1, Zenon DEF AccountsTypes
    <3>3. \A v \in Account \ {u} : clean'[v] = clean[v]
      BY <3>1 DEF AccountsTypes
    <3>4. ChangingRole(u) = {} <=> \A d \in Call : ~Changing(d, u)
      BY Zenon DEF ChangingRole, Changing
    <3> QED BY <3>2, <3>3, <3>4
  <2>3. auth[u] = "gone"
    BY <2>1 DEF RoleInv, LifeOfAccount
  <2>4. /\ admins'[u] = Nobody /\ users'[u] = "customer"
        /\ \A v \in Account \ {u} : admins'[v] = admins[v] /\ users'[v] = users[v]
    BY <2>1 DEF AccountsTypes
  <2>5. \A d \in Call, v \in Account : Changing(d, v)' <=> Changing(d, v)
    BY <2>1 DEF Changing
  <2>6. ChangeIsSeen' /\ AloneIsAlone'
    BY <2>1, <2>2, <2>5 DEF RoleInv, ChangeIsSeen, AloneIsAlone
  <2>7. AloneIsInStep'
    <3>1. \A d \in Call, v \in Account : Changing(d, v) /\ call[d].alone => v # u
      BY <2>3 DEF RoleInv, AloneIsInStep
    <3> QED BY <2>1, <2>4, <2>5, <3>1 DEF RoleInv, AloneIsInStep
  <2>8. LifeOfAccount' /\ RolesInStep'
    BY <2>1, <2>2, <2>3, <2>4 DEF RoleInv, LifeOfAccount, RolesInStep, Held
  <2> QED BY <2>6, <2>7, <2>8 DEF RoleInv
<1>3. CASE CleanUpFails(u)
  <2>1. UNCHANGED <<auth, claims, users, admins, clean, call>> /\ toClean' = toClean \ {u}
    BY <1>3 DEF CleanUpFails
  <2>2. \A d \in Call, v \in Account : Changing(d, v)' <=> Changing(d, v)
    BY <2>1 DEF Changing
  <2> QED BY <2>1, <2>2 DEF RoleInv, ChangeIsSeen, AloneIsAlone, AloneIsInStep,
             LifeOfAccount, RolesInStep, Held
<1> QED BY <1>1, <1>2, <1>3

-----------------------------------------------------------------------------
(* The bonus.                                                              *)

(* Whoever has the flag has the row.                                       *)
ClaimedHasRow == \A u \in claimed : BonusKey[u] \in granted

BonusInv == OneBonusPerKey /\ ClaimedHasRow

LEMMA BonusFrame ==
    ASSUME BonusInv, UNCHANGED bonusVars PROVE BonusInv'
BY DEF BonusInv, OneBonusPerKey, ClaimedHasRow, bonusVars

(* A bonus is one coin on the accounts of its key and none on the others.  *)
LEMMA AwardBonus ==
    ASSUME AccountsTypes, BonusInv, NEW c \in Call, Award(c)
    PROVE  BonusInv'
<1> DEFINE u == call[c].uid
<1>1. u \in Account
  BY AwardType
<1>2. CASE ~Ungranted(u)
  BY <1>2, BonusFrame DEF Award
<1>3. CASE Ungranted(u)
  <2>1. /\ BonusKey[u] \notin granted
        /\ granted' = granted \cup {BonusKey[u]}
        /\ coins' = [coins EXCEPT ![u] = @ + 1]
        /\ claimed' = claimed \cup {u}
    BY <1>3 DEF Award, Ungranted
  <2>2. ClaimedHasRow'
    BY <2>1 DEF BonusInv, ClaimedHasRow
  <2>3. PICK f, g : f = coins /\ g = coins'
    OBVIOUS
  <2>4. /\ \A v \in Account : f[v] \in Nat /\ g[v] \in Nat
        /\ g[u] = f[u] + 1 /\ \A v \in Account \ {u} : g[v] = f[v]
    BY <1>1, <2>1, <2>3 DEF AccountsTypes
  <2> HIDE DEF u
  <2>5. ASSUME NEW k \in Range(BonusKey)
        PROVE  SumFunctionOnSet(coins', {v \in Account : BonusKey[v] = k})
                 = IF k \in granted' THEN 1 ELSE 0
    <3> DEFINE S == {v \in Account : BonusKey[v] = k}
    <3>1. IsFiniteSet(S)
      BY AccountsAssumption, FS_Subset
    <3>2. SumOver(f, S) = IF k \in granted THEN 1 ELSE 0
      BY <2>3 DEF BonusInv, OneBonusPerKey, SumOver
    <3>3. CASE k = BonusKey[u]
      <4>1. u \in S /\ \A v \in S : f[v] \in Nat /\ g[v] \in Nat
        BY <1>1, <2>4, <3>3
      <4>2. \A v \in S \ {u} : f[v] = g[v]
        BY <2>4
      <4> HIDE DEF S
      <4>3. SumOver(g, S) + f[u] = SumOver(f, S) + g[u]
        BY <3>1, <4>1, <4>2, SumChangesBy
      <4>4. SumOver(f, S) = 0 /\ f[u] \in Nat /\ g[u] = f[u] + 1
        BY <1>1, <2>1, <2>4, <3>2, <3>3
      <4>5. SumOver(g, S) \in Nat
        BY <3>1, <4>1, SumIsNat
      <4>6. SumOver(g, S) = 1
        BY <4>3, <4>4, <4>5
      <4>7. k \in granted'
        BY <2>1, <3>3
      <4> QED BY <2>3, <4>6, <4>7 DEF SumOver, S
    <3>4. CASE k # BonusKey[u]
      <4>1. \A v \in S : f[v] = g[v]
        BY <2>4, <3>4
      <4> HIDE DEF S
      <4>2. SumOver(f, S) = SumOver(g, S)
        BY <3>1, <4>1, SumAgrees
      <4>3. k \in granted' <=> k \in granted
        BY <2>1, <3>4
      <4> QED BY <2>3, <3>2, <4>2, <4>3 DEF SumOver, S
    <3> QED BY <3>3, <3>4
  <2> QED BY <2>2, <2>5 DEF BonusInv, OneBonusPerKey
<1> QED BY <1>2, <1>3

-----------------------------------------------------------------------------
(* The guest session.                                                      *)

(* The items of the cart are with an account, or went with one.            *)
CartHasGone == carts # {} \/ \E u \in Account : auth[u] = "gone"

HasWrite(s, x) == \E j \in 1..Len(s) : s[j] = x

ScanIsWhole ==
    \A c \in Call : call[c].step = "scanned" => GuestOwned \subseteq call[c].seen

(* What a migration has left to write includes whatever the guest still    *)
(* has, and the cart before it is emptied; without a bonus to award its    *)
(* key has had one.                                                        *)
TodoIsWhole ==
    \A c \in Call : call[c].step = "chunks" =>
        /\ \A o \in GuestOwned : HasWrite(call[c].todo, o)
        /\ guestCart => HasWrite(call[c].todo, "empty")
        /\ CartHasGone \/ \A j \in 1..Len(call[c].todo) :
              call[c].todo[j] = "empty" => \E i \in 1..(j - 1) : call[c].todo[i] = "cart"
        /\ ~call[c].bonus => BonusKey[call[c].uid] \in granted

NothingLeft == migrated # {} => ~guestCart /\ GuestOwned = {}
MigratedHasRow == \A u \in migrated : BonusKey[u] \in granted
CartIsSomewhere == guestCart \/ CartHasGone

GuestInv == ScanIsWhole /\ TodoIsWhole /\ NothingLeft /\ MigratedHasRow /\ CartIsSomewhere

LEMMA GuestIsWhole == ASSUME AccountsTypes, GuestInv PROVE GuestIsMovedWhole
<1>1. GuestOwned = {} => "guest" \notin Range(customerId)
  BY DEF AccountsTypes, GuestOwned, Range
<1> QED BY <1>1 DEF GuestInv, NothingLeft, MigratedHasRow, CartIsSomewhere, CartHasGone,
                    GuestIsMovedWhole

(* Steps that leave the guest alone: the calls of a migration stay where   *)
(* they are or go away.                                                    *)
LEMMA GuestFrame ==
    ASSUME GuestInv, UNCHANGED <<customerId, guestCart, granted, migrated>>,
           CartHasGone => CartHasGone',
           \A d \in Call : call'[d].step \in {"scanned", "chunks"} =>
               /\ call'[d].step = call[d].step /\ call'[d].seen = call[d].seen
               /\ call'[d].todo = call[d].todo /\ call'[d].bonus = call[d].bonus
               /\ call'[d].uid = call[d].uid
    PROVE  GuestInv'
<1>1. GuestOwned' = GuestOwned
  BY DEF GuestOwned
<1>2. ScanIsWhole'
  BY <1>1 DEF GuestInv, ScanIsWhole
<1>3. TodoIsWhole'
  <2> SUFFICES ASSUME NEW c \in Call, call'[c].step = "chunks"
               PROVE  /\ \A o \in GuestOwned : HasWrite(call'[c].todo, o)
                      /\ guestCart => HasWrite(call'[c].todo, "empty")
                      /\ CartHasGone' \/ \A j \in 1..Len(call'[c].todo) :
                            call'[c].todo[j] = "empty" =>
                              \E i \in 1..(j - 1) : call'[c].todo[i] = "cart"
                      /\ ~call'[c].bonus => BonusKey[call'[c].uid] \in granted
    BY <1>1 DEF TodoIsWhole, HasWrite
  <2>1. /\ call[c].step = "chunks" /\ call'[c].todo = call[c].todo
        /\ call'[c].bonus = call[c].bonus /\ call'[c].uid = call[c].uid
    OBVIOUS
  <2> QED BY <2>1 DEF GuestInv, TodoIsWhole
<1>4. NothingLeft' /\ MigratedHasRow' /\ CartIsSomewhere'
  BY <1>1 DEF GuestInv, NothingLeft, MigratedHasRow, CartIsSomewhere
<1> QED BY <1>2, <1>3, <1>4 DEF GuestInv

(* One call, that is no migration afterwards.                              *)
LEMMA OtherCallGuest ==
    ASSUME GuestInv, UNCHANGED <<customerId, guestCart, granted, migrated>>,
           CartHasGone => CartHasGone', NEW c \in Call,
           call'[c].step \notin {"scanned", "chunks"},
           \A d \in Call : d # c => call'[d] = call[d]
    PROVE  GuestInv'
<1>1. \A d \in Call : call'[d].step \in {"scanned", "chunks"} => call'[d] = call[d]
  OBVIOUS
<1> QED BY <1>1, GuestFrame

LEMMA MigrateGuest ==
    ASSUME AccountsTypes, GuestInv, NEW c \in Call, NEW u \in Account, Migrate(c, u)
    PROVE  GuestInv'
<1>1. /\ call'[c].step = "scanned" /\ call'[c].seen = GuestOwned
      /\ \A d \in Call : d # c => call'[d] = call[d]
  BY MigrateType DEF OwnCall
<1>2. UNCHANGED <<customerId, guestCart, granted, migrated, auth, carts>>
  BY DEF Migrate, guestVars, bonusVars, roleVars
<1>3. GuestOwned' = GuestOwned /\ CartHasGone' = CartHasGone
  BY <1>2 DEF GuestOwned, CartHasGone
<1>4. ScanIsWhole'
  BY <1>1, <1>3 DEF GuestInv, ScanIsWhole
<1>5. TodoIsWhole'
  <2>1. \A d \in Call : call'[d].step = "chunks" => call'[d] = call[d]
    BY <1>1
  <2> QED BY <1>2, <1>3, <2>1 DEF GuestInv, TodoIsWhole, HasWrite
<1>6. NothingLeft' /\ MigratedHasRow' /\ CartIsSomewhere'
  BY <1>2, <1>3 DEF GuestInv, NothingLeft, MigratedHasRow, CartIsSomewhere
<1> QED BY <1>4, <1>5, <1>6 DEF GuestInv

LEMMA ReadGuestGuest ==
    ASSUME AccountsTypes, GuestInv, ClaimedHasRow, NEW c \in Call, ReadGuest(c)
    PROVE  GuestInv'
<1>1. /\ call[c].seen \in SUBSET Order /\ call[c].uid \in Account
      /\ call'[c].step = "chunks" /\ call'[c].todo = Writes(call[c].seen)
      /\ call'[c].uid = call[c].uid
      /\ call'[c].bonus <=> Eligible(call[c].uid)
      /\ \A d \in Call : d # c => call'[d] = call[d]
  BY ReadGuestType DEF OwnCall
<1>2. UNCHANGED <<customerId, guestCart, granted, migrated, auth, carts>>
  BY DEF ReadGuest, guestVars, bonusVars, roleVars
<1>3. GuestOwned' = GuestOwned /\ CartHasGone' = CartHasGone
  BY <1>2 DEF GuestOwned, CartHasGone
<1>4. GuestOwned \subseteq call[c].seen
  BY DEF GuestInv, ScanIsWhole, ReadGuest
<1>5. PICK w : w = Writes(call[c].seen)
  OBVIOUS
<1>6. /\ \A o \in GuestOwned : HasWrite(w, o)
      /\ guestCart => HasWrite(w, "empty")
      /\ \A j \in 1..Len(w) : w[j] = "empty" => \E i \in 1..(j - 1) : w[i] = "cart"
  BY <1>1, <1>4, <1>5, WritesAreWhole DEF HasWrite
<1>7. ~call'[c].bonus => BonusKey[call'[c].uid] \in granted
  BY <1>1 DEF Eligible, ClaimedHasRow
<1>8. ScanIsWhole'
  BY <1>1, <1>3 DEF GuestInv, ScanIsWhole
<1>9. TodoIsWhole'
  <2> SUFFICES ASSUME NEW d \in Call, call'[d].step = "chunks"
               PROVE  /\ \A o \in GuestOwned : HasWrite(call'[d].todo, o)
                      /\ guestCart => HasWrite(call'[d].todo, "empty")
                      /\ CartHasGone \/ \A j \in 1..Len(call'[d].todo) :
                            call'[d].todo[j] = "empty" =>
                              \E i \in 1..(j - 1) : call'[d].todo[i] = "cart"
                      /\ ~call'[d].bonus => BonusKey[call'[d].uid] \in granted
    BY <1>2, <1>3 DEF TodoIsWhole, HasWrite
  <2>1. CASE d = c
    BY <1>1, <1>5, <1>6, <1>7, <2>1
  <2>2. CASE d # c
    <3>1. call'[d] = call[d]
      BY <1>1, <2>2
    <3> QED BY <3>1 DEF GuestInv, TodoIsWhole
  <2> QED BY <2>1, <2>2
<1>10. NothingLeft' /\ MigratedHasRow' /\ CartIsSomewhere'
  BY <1>2, <1>3 DEF GuestInv, NothingLeft, MigratedHasRow, CartIsSomewhere
<1> QED BY <1>8, <1>9, <1>10 DEF GuestInv

(* A batch is the writes up to some place, and the rest is left.           *)
LEMMA ChunkIsPrefix ==
    ASSUME NEW c \in Call, call[c].todo \in Seq(Write)
    PROVE  \E n \in 0..Len(call[c].todo) :
             /\ Range(Chunk(c)) = {call[c].todo[j] : j \in 1..n}
             /\ Remaining(c) = SubSeq(call[c].todo, n + 1, Len(call[c].todo))
<1> DEFINE s == call[c].todo
           n == Min({BatchLimit, Len(s)})
<1>1. /\ BatchLimit \in Nat /\ Len(s) \in Nat /\ s \in Seq(Write)
      /\ \A j \in 1..Len(s) : s[j] \in Write
  BY AccountsAssumption
<1>2. n \in Nat /\ n <= Len(s) /\ n \in {BatchLimit, Len(s)} /\ n <= BatchLimit
  BY <1>1, MinIsLeast
<1>3. Chunk(c) = SubSeq(s, 1, n)
  BY DEF Chunk
<1> HIDE DEF n, s
<1>4. \A i \in 1..n : s[i] \in Write
  BY <1>1, <1>2
<1>5. /\ SubSeq(s, 1, n) \in Seq(Write)
      /\ Len(SubSeq(s, 1, n)) = IF 1 <= n THEN n - 1 + 1 ELSE 0
      /\ \A i \in 1..(n - 1 + 1) : SubSeq(s, 1, n)[i] = s[1 + i - 1]
  BY <1>2, <1>4, SubSeqProperties
<1>6. Len(SubSeq(s, 1, n)) = n /\ \A i \in 1..n : SubSeq(s, 1, n)[i] = s[i]
  BY <1>2, <1>5
<1>7. Range(Chunk(c)) = {SubSeq(s, 1, n)[j] : j \in 1..n}
  BY <1>3, <1>5, <1>6, RangeEquality
<1>8. Range(Chunk(c)) = {s[j] : j \in 1..n}
  BY <1>6, <1>7
<1>9. Remaining(c) = SubSeq(s, n + 1, Len(s))
  <2>1. CASE n = BatchLimit
    BY <2>1 DEF Remaining, s
  <2>2. CASE n = Len(s) /\ n # BatchLimit
    <3>1. Len(s) < BatchLimit + 1 /\ Len(s) < n + 1 /\ BatchLimit + 1 \in Int /\ n + 1 \in Int
          /\ Len(s) \in Int
      BY <1>1, <1>2, <2>2
    <3>2. SubSeq(s, BatchLimit + 1, Len(s)) = <<>>
      BY <3>1, SubSeqEmpty
    <3>3. SubSeq(s, n + 1, Len(s)) = <<>>
      BY <3>1, SubSeqEmpty
    <3> QED BY <3>2, <3>3 DEF Remaining, s
  <2> QED BY <1>2, <2>1, <2>2
<1>10. n \in 0..Len(s)
  BY <1>1, <1>2
<1> QED BY <1>8, <1>9, <1>10 DEF s

LEMMA CommitChunkGuest ==
    ASSUME AccountsTypes, GuestInv, NEW c \in Call, CommitChunk(c)
    PROVE  GuestInv'
<1> DEFINE u == call[c].uid
<1>1. /\ call[c].todo \in Seq(Write) /\ u \in Account /\ call[c].step = "chunks"
      /\ call'[c].step = "chunks" /\ call'[c].todo = Remaining(c)
      /\ call'[c].uid = u /\ call'[c].bonus = call[c].bonus
      /\ \A d \in Call : d # c => call'[d] = call[d]
  BY CommitChunkType DEF OwnCall, CommitChunk
<1>2. PICK s, n : /\ s = call[c].todo /\ n \in 0..Len(s)
                  /\ Range(Chunk(c)) = {s[j] : j \in 1..n}
                  /\ Remaining(c) = SubSeq(s, n + 1, Len(s))
  BY <1>1, ChunkIsPrefix
<1>3. PICK now : now = {s[j] : j \in 1..n} /\ now = Range(Chunk(c))
  BY <1>2
<1>4. /\ customerId' = [o \in Order |-> IF o \in now THEN u ELSE customerId[o]]
      /\ carts' = IF "cart" \in now THEN carts \cup {u} ELSE carts
      /\ guestCart' <=> guestCart /\ "empty" \notin now
      /\ UNCHANGED <<auth, granted, migrated>>
  BY <1>3 DEF CommitChunk, roleVars, bonusVars
<1>5. u # "guest"
  BY <1>1, AccountsAssumption
<1>6. PICK r : r = Remaining(c)
  OBVIOUS
<1>7. /\ s \in Seq(Write) /\ Len(s) \in Nat /\ n \in Nat
      /\ \A j \in 1..Len(s) : j > n => j - n \in 1..Len(r) /\ r[j - n] = s[j]
      /\ \A i \in 1..Len(r) : i + n \in 1..Len(s) /\ r[i] = s[i + n]
  <2>1. s \in Seq(Write) /\ Len(s) \in Nat /\ n \in Nat
    BY <1>1, <1>2
  <2>2. /\ \A j \in 1..Len(s) : j > n =>
             /\ j - n \in 1..Len(SubSeq(s, n + 1, Len(s)))
             /\ SubSeq(s, n + 1, Len(s))[j - n] = s[j]
        /\ \A i \in 1..Len(SubSeq(s, n + 1, Len(s))) :
             i + n \in 1..Len(s) /\ SubSeq(s, n + 1, Len(s))[i] = s[i + n]
    BY <2>1, RestOfWrites
  <2>3. r = SubSeq(s, n + 1, Len(s))
    BY <1>2, <1>6
  <2> QED BY <2>1, <2>2, <2>3
<1> HIDE DEF u
<1>8. GuestOwned' = GuestOwned \ now
  BY <1>4, <1>5 DEF GuestOwned
<1>9. ASSUME NEW x, HasWrite(s, x), x \notin now PROVE HasWrite(r, x)
  <2>1. PICK j \in 1..Len(s) : s[j] = x
    BY <1>9 DEF HasWrite
  <2>2. ~(j \in 1..n)
    BY <1>3, <1>9, <2>1
  <2>3. j > n
    BY <1>7, <2>2
  <2> QED BY <1>7, <2>1, <2>3 DEF HasWrite
<1>10. CartHasGone => CartHasGone'
  BY <1>4 DEF CartHasGone
<1>11. "cart" \in now => CartHasGone'
  BY <1>4 DEF CartHasGone
<1>12. /\ \A o \in GuestOwned : HasWrite(s, o)
       /\ guestCart => HasWrite(s, "empty")
       /\ CartHasGone \/ \A j \in 1..Len(s) :
              s[j] = "empty" => \E i \in 1..(j - 1) : s[i] = "cart"
       /\ ~call[c].bonus => BonusKey[u] \in granted
  BY <1>1, <1>2 DEF GuestInv, TodoIsWhole, u
<1>13. ASSUME ~CartHasGone', NEW j \in 1..Len(s), s[j] = "empty"
       PROVE  \E i \in (n + 1)..(j - 1) : s[i] = "cart"
  <2>1. PICK i \in 1..(j - 1) : s[i] = "cart"
    BY <1>10, <1>12, <1>13
  <2>2. ~(i \in 1..n)
    BY <1>3, <1>11, <1>13, <2>1
  <2> QED BY <1>7, <2>1, <2>2
<1>14. ScanIsWhole'
  <2>1. \A d \in Call : call'[d].step = "scanned" => call'[d] = call[d]
    BY <1>1
  <2> QED BY <1>8, <2>1 DEF GuestInv, ScanIsWhole
<1>15. TodoIsWhole'
  <2> SUFFICES ASSUME NEW d \in Call, call'[d].step = "chunks"
               PROVE  /\ \A o \in GuestOwned' : HasWrite(call'[d].todo, o)
                      /\ guestCart' => HasWrite(call'[d].todo, "empty")
                      /\ CartHasGone' \/ \A j \in 1..Len(call'[d].todo) :
                            call'[d].todo[j] = "empty" =>
                              \E i \in 1..(j - 1) : call'[d].todo[i] = "cart"
                      /\ ~call'[d].bonus => BonusKey[call'[d].uid] \in granted
    BY <1>4 DEF TodoIsWhole, HasWrite
  <2>1. CASE d = c
    <3>1. call'[d].todo = r
      BY <1>1, <1>6, <2>1
    <3>2. \A o \in GuestOwned' : HasWrite(r, o)
      BY <1>8, <1>9, <1>12
    <3>3. guestCart' => HasWrite(r, "empty")
      BY <1>4, <1>9, <1>12
    <3>4. ASSUME ~CartHasGone', NEW j \in 1..Len(r), r[j] = "empty"
          PROVE  \E i \in 1..(j - 1) : r[i] = "cart"
      <4>1. j + n \in 1..Len(s) /\ s[j + n] = "empty"
        BY <1>7, <3>4
      <4>2. PICK i \in (n + 1)..((j + n) - 1) : s[i] = "cart"
        BY <1>13, <3>4, <4>1
      <4>3. i \in 1..Len(s) /\ i > n /\ i - n \in 1..(j - 1)
        BY <1>7, <4>1, <4>2
      <4>4. r[i - n] = "cart"
        BY <1>7, <4>2, <4>3
      <4> QED BY <4>3, <4>4
    <3>5. ~call'[d].bonus => BonusKey[call'[d].uid] \in granted
      BY <1>1, <1>12, <2>1
    <3> QED BY <3>1, <3>2, <3>3, <3>4, <3>5
  <2>2. CASE d # c
    <3>1. call'[d] = call[d]
      BY <1>1, <2>2
    <3>2. (guestCart' => guestCart) /\ GuestOwned' \subseteq GuestOwned
      BY <1>4, <1>8
    <3> QED BY <1>10, <3>1, <3>2 DEF GuestInv, TodoIsWhole
  <2> QED BY <2>1, <2>2
<1>16. NothingLeft' /\ MigratedHasRow'
  BY <1>4, <1>8 DEF GuestInv, NothingLeft, MigratedHasRow
<1>17. CartIsSomewhere'
  <2>1. CASE guestCart' \/ CartHasGone
    BY <1>10, <2>1 DEF CartIsSomewhere
  <2>2. CASE ~guestCart' /\ ~CartHasGone
    <3>1. "empty" \in now
      BY <1>4, <2>2 DEF GuestInv, CartIsSomewhere
    <3>2. PICK j \in 1..n : s[j] = "empty"
      BY <1>3, <3>1
    <3>3. j \in 1..Len(s)
      BY <1>2, <1>7, <3>2
    <3>4. PICK i \in 1..(j - 1) : s[i] = "cart"
      BY <1>12, <2>2, <3>2, <3>3
    <3>5. i \in 1..n
      BY <1>7, <3>2, <3>4
    <3>6. "cart" \in now
      BY <1>3, <3>4, <3>5
    <3> QED BY <1>11, <3>6 DEF CartIsSomewhere
  <2> QED BY <2>1, <2>2
<1> QED BY <1>14, <1>15, <1>16, <1>17 DEF GuestInv

(* The answer of a migration: nothing is left to write.                    *)
LEMMA AwardGuest ==
    ASSUME AccountsTypes, GuestInv, NEW c \in Call, Award(c) \/ AnswerMigrated(c)
    PROVE  GuestInv'
<1> DEFINE u == call[c].uid
<1>1. /\ call[c].step = "chunks" /\ call[c].todo = <<>> /\ u \in Account
      /\ migrated' = migrated \cup {u} /\ Return(c)
      /\ UNCHANGED <<auth, customerId, guestCart, carts>>
  BY AwardType DEF Award, AnswerMigrated, roleVars
<1>2. call'[c].step = "idle" /\ \A d \in Call : d # c => call'[d] = call[d]
  BY <1>1, ReturnType
<1>3. \A x : ~HasWrite(call[c].todo, x)
  <2>1. Len(<<>>) = 0
    OBVIOUS
  <2> QED BY <1>1, <2>1 DEF HasWrite
<1>4. ~guestCart /\ GuestOwned = {}
  BY <1>1, <1>3 DEF GuestInv, TodoIsWhole
<1>5. GuestOwned' = GuestOwned /\ CartHasGone' = CartHasGone
  BY <1>1 DEF GuestOwned, CartHasGone
<1>6. granted \subseteq granted' /\ BonusKey[u] \in granted'
  <2>1. CASE Award(c)
    BY <2>1 DEF Award, Ungranted, bonusVars
  <2>2. CASE AnswerMigrated(c)
    BY <1>1, <2>2 DEF AnswerMigrated, bonusVars, GuestInv, TodoIsWhole
  <2> QED BY <2>1, <2>2
<1> HIDE DEF u
<1>7. \A d \in Call : call'[d].step \in {"scanned", "chunks"} => call'[d] = call[d]
  BY <1>2
<1>8. ScanIsWhole'
  BY <1>5, <1>7 DEF GuestInv, ScanIsWhole
<1>9. TodoIsWhole'
  <2> SUFFICES ASSUME NEW d \in Call, call'[d].step = "chunks"
               PROVE  /\ \A o \in GuestOwned : HasWrite(call'[d].todo, o)
                      /\ guestCart => HasWrite(call'[d].todo, "empty")
                      /\ CartHasGone \/ \A j \in 1..Len(call'[d].todo) :
                            call'[d].todo[j] = "empty" =>
                              \E i \in 1..(j - 1) : call'[d].todo[i] = "cart"
                      /\ ~call'[d].bonus => BonusKey[call'[d].uid] \in granted'
    BY <1>1, <1>5 DEF TodoIsWhole, HasWrite
  <2>1. call'[d] = call[d]
    BY <1>7
  <2> QED BY <1>6, <2>1 DEF GuestInv, TodoIsWhole
<1>10. NothingLeft' /\ CartIsSomewhere'
  BY <1>1, <1>4, <1>5 DEF GuestInv, NothingLeft, CartIsSomewhere
<1>11. MigratedHasRow'
  BY <1>1, <1>6 DEF GuestInv, MigratedHasRow
<1> QED BY <1>8, <1>9, <1>10, <1>11 DEF GuestInv

-----------------------------------------------------------------------------
(* Every step.                                                             *)

AccountsInv == AccountsTypes /\ RoleInv /\ BonusInv /\ GuestInv

LEMMA AccountsInitInv == AccountsInit => AccountsInv
<1> SUFFICES ASSUME AccountsInit PROVE AccountsInv
  OBVIOUS
<1>1. AccountsTypes
  <2>1. call \in [Call -> CallRecord]
    BY IdleType DEF AccountsInit
  <2>2. claims \in [Account -> Role] /\ users \in [Account -> Role]
        /\ admins \in [Account -> Role \cup {Nobody}] /\ coins \in [Account -> Nat]
    BY DEF AccountsInit, Role
  <2>3. begun \in 0..MaxCalls /\ faults \in 0..MaxFailures
    BY AccountsAssumption DEF AccountsInit
  <2>4. auth \in [Account -> {"absent", "live", "gone"}] /\ clean \in [Account -> BOOLEAN]
        /\ owner \in Account \cup {Nobody, "ownerless"} /\ listed \subseteq Account
    <3>1. auth \in [Account -> {"absent", "live"}] /\ {"absent", "live"} \subseteq {"absent", "live", "gone"}
      BY DEF AccountsInit
    <3>2. auth \in [Account -> {"absent", "live", "gone"}]
      BY <3>1
    <3> QED BY <3>2 DEF AccountsInit
  <2> QED BY <2>1, <2>2, <2>3, <2>4 DEF AccountsTypes, AccountsInit
<1>2. \A c \in Call : call[c].step = "idle"
  BY IdleType DEF AccountsInit
<1>3. RoleInv
  BY <1>2 DEF AccountsInit, RoleInv, ChangeIsSeen, AloneIsAlone, AloneIsInStep,
              LifeOfAccount, RolesInStep, Held, Changing
<1>4. BonusInv
  <2>1. ASSUME NEW S \in SUBSET Account PROVE SumFunctionOnSet(coins, S) = 0
    <3>1. IsFiniteSet(S)
      BY AccountsAssumption, FS_Subset
    <3>2. \A v \in S : coins[v] = 0
      BY DEF AccountsInit
    <3> QED BY <3>1, <3>2, SumOfZeros DEF SumOver
  <2>2. OneBonusPerKey
    <3> SUFFICES ASSUME NEW k \in Range(BonusKey)
                 PROVE  SumFunctionOnSet(coins, {v \in Account : BonusKey[v] = k})
                          = IF k \in granted THEN 1 ELSE 0
      BY DEF OneBonusPerKey
    <3>1. {v \in Account : BonusKey[v] = k} \in SUBSET Account
      OBVIOUS
    <3> QED BY <2>1, <3>1 DEF AccountsInit
  <2> QED BY <2>2 DEF BonusInv, ClaimedHasRow, AccountsInit
<1>5. GuestInv
  BY <1>2 DEF GuestInv, ScanIsWhole, TodoIsWhole, NothingLeft, MigratedHasRow,
              CartIsSomewhere, AccountsInit
<1> QED BY <1>1, <1>3, <1>4, <1>5 DEF AccountsInv

(* The steps of roles that are no part of the guest's migration.           *)
LEMMA RoleStepInv ==
    ASSUME AccountsInv, NEW c \in Call, RoleStep(c) PROVE AccountsInv'
<1>1. AccountsTypes /\ RoleInv /\ BonusInv /\ GuestInv
  BY DEF AccountsInv
<1>2. AccountsTypes' /\ RoleInv'
  <2>1. CASE \E u \in Account, r \in Role : AssignRole(c, u, r)
    BY <1>1, <2>1, AssignRoleType, AssignRoleRoles
  <2>2. CASE \E u \in Account, r \in Role : Invite(c, u, r)
    BY <1>1, <2>2, InviteType, InviteRoles
  <2>3. CASE InviteClaims(c)
    BY <1>1, <2>3, InviteClaimsType, InviteClaimsRoles
  <2>4. CASE InviteThrows(c)
    <3>1. OwnCall(c) /\ UNCHANGED roleVars
      BY <1>1, <2>4, ReturnType DEF InviteThrows, OwnCall
    <3> QED BY <1>1, <2>4, <3>1, EndOfCallType, OwnCallRoles
  <2>5. CASE WriteProfile(c)
    BY <1>1, <2>5, WriteProfileType, WriteProfileRoles
  <2>6. CASE WriteRegistry(c) \/ RegistryDeleteFails(c)
    BY <1>1, <2>6, RegistryType, RegistryRoles
  <2>7. CASE NameInvited(c)
    BY <1>1, <2>7, NameInvitedType, NameInvitedRoles
  <2> QED BY <2>1, <2>2, <2>3, <2>4, <2>5, <2>6, <2>7 DEF RoleStep
<1>3. UNCHANGED guestVars
  BY DEF RoleStep, AssignRole, Invite, InviteClaims, InviteThrows, WriteProfile,
         WriteRegistry, RegistryDeleteFails, NameInvited, StampClaims
<1>4. BonusInv'
  BY <1>1, <1>3, BonusFrame DEF guestVars
<1>5. \A d \in Call : call'[d].step \in {"scanned", "chunks"} =>
               /\ call'[d].step = call[d].step /\ call'[d].seen = call[d].seen
               /\ call'[d].todo = call[d].todo /\ call'[d].bonus = call[d].bonus
               /\ call'[d].uid = call[d].uid
  <2>1. ASSUME NEW u \in Account, NEW r \in Role, NEW i \in BOOLEAN,
               StampClaims(c, u, r, i), auth' = auth, begun' \in 0..MaxCalls,
               NEW d \in Call, call'[d].step \in {"scanned", "chunks"}
        PROVE  /\ call'[d].step = call[d].step /\ call'[d].seen = call[d].seen
               /\ call'[d].todo = call[d].todo /\ call'[d].bonus = call[d].bonus
               /\ call'[d].uid = call[d].uid
    <3>1. call'[c].step = "profile" /\ \A e \in Call : e # c => call'[e] = Disturbed(u)[e]
      BY <1>1, <2>1, StampClaimsType
    <3>2. call'[d] = Disturbed(u)[d]
      BY <2>1, <3>1
    <3>3. /\ Disturbed(u)[d].step = call[d].step /\ Disturbed(u)[d].uid = call[d].uid
          /\ Disturbed(u)[d].seen = call[d].seen
          /\ Disturbed(u)[d].todo = call[d].todo /\ Disturbed(u)[d].bonus = call[d].bonus
      BY <1>1, DisturbedType
    <3> QED BY <3>2, <3>3
  <2>2. CASE \E u \in Account, r \in Role : AssignRole(c, u, r)
    BY <1>1, <2>1, <2>2, MayType DEF AssignRole
  <2>3. CASE InviteClaims(c)
    <3>1. call[c].uid \in Account /\ call[c].role \in Role /\ begun' \in 0..MaxCalls
      BY <1>1, <2>3, RoleOfStep DEF InviteClaims, AccountsTypes
    <3> QED BY <2>1, <2>3, <3>1 DEF InviteClaims
  <2>4. ASSUME call'[c].step \notin {"scanned", "chunks"},
               \A d \in Call : d # c => call'[d] = call[d],
               NEW d \in Call, call'[d].step \in {"scanned", "chunks"}
        PROVE  call'[d] = call[d]
    BY <2>4
  <2>5. CASE \E u \in Account, r \in Role : Invite(c, u, r)
    BY <1>1, <2>4, <2>5, InviteType
  <2>6. CASE WriteProfile(c)
    BY <1>1, <2>4, <2>6, WriteProfileType
  <2>7. CASE WriteRegistry(c) \/ RegistryDeleteFails(c)
    <3>1. PICK alone \in BOOLEAN : EndOfRole(c, alone) /\ call[c].step = "registry"
      BY <1>1, <2>7, RoleOfStep DEF WriteRegistry, RegistryDeleteFails
    <3>2. call'[c].step \in {"named", "idle"} /\ \A d \in Call : d # c => call'[d] = call[d]
      BY <1>1, <3>1, EndOfRoleType
    <3> QED BY <2>4, <3>2
  <2>8. CASE InviteThrows(c) \/ NameInvited(c)
    BY <1>1, <2>4, <2>8, ReturnType DEF InviteThrows, NameInvited
  <2> QED BY <2>2, <2>3, <2>5, <2>6, <2>7, <2>8 DEF RoleStep
<1>6. CartHasGone => CartHasGone'
  <2>1. carts' = carts
    BY <1>3 DEF guestVars
  <2>2. \A v \in Account : auth[v] = "gone" => auth'[v] = "gone"
    <3>1. CASE UNCHANGED auth
      BY <3>1
    <3>2. CASE \E u \in Account, r \in Role : Invite(c, u, r)
      BY <1>1, <3>2 DEF Invite, AccountsTypes
    <3> QED BY <3>1, <3>2 DEF RoleStep, AssignRole, InviteClaims, InviteThrows, WriteProfile,
              WriteRegistry, RegistryDeleteFails, NameInvited, roleVars
  <2> QED BY <2>1, <2>2 DEF CartHasGone
<1>7. GuestInv'
  BY <1>1, <1>3, <1>5, <1>6, GuestFrame DEF guestVars, bonusVars
<1> QED BY <1>2, <1>4, <1>7 DEF AccountsInv

(* A step of one call that touches neither roles nor the guest.            *)
LEMMA OwnCallInv ==
    ASSUME AccountsInv, NEW c \in Call, UNCHANGED <<roleVars, guestVars>>,
           AccountsTypes', OwnCall(c), call'[c].step \notin {"scanned", "chunks"}
    PROVE  AccountsInv'
<1>1. AccountsTypes /\ RoleInv /\ BonusInv /\ GuestInv
  BY DEF AccountsInv
<1>2. RoleInv'
  BY <1>1, OwnCallRoles
<1>3. BonusInv'
  BY <1>1, BonusFrame DEF guestVars
<1>4. CartHasGone' = CartHasGone
  BY DEF CartHasGone, roleVars, guestVars
<1>5. GuestInv'
  BY <1>1, <1>4, OtherCallGuest DEF guestVars, bonusVars, OwnCall
<1> QED BY <1>2, <1>3, <1>5 DEF AccountsInv

LEMMA EndOfCallInv ==
    ASSUME AccountsInv, NEW c \in Call, Pruned(c) \/ Abort(c) \/ Scrub(c) \/ SelfScrub(c)
    PROVE  AccountsInv'
<1>1. AccountsTypes
  BY DEF AccountsInv
<1>2. AccountsTypes'
  BY <1>1, EndOfCallType, ScrubType
<1>3. Return(c) /\ UNCHANGED <<roleVars, guestVars>>
  BY DEF Pruned, Abort, Scrub, SelfScrub
<1>4. OwnCall(c) /\ call'[c].step = "idle"
  BY <1>1, <1>3, ReturnType DEF OwnCall
<1> QED BY <1>2, <1>3, <1>4, OwnCallInv

LEMMA DeviceStepInv ==
    ASSUME AccountsInv, NEW c \in Call, DeviceStep(c) PROVE AccountsInv'
<1>1. AccountsTypes
  BY DEF AccountsInv
<1>2. ASSUME NEW u \in Account, Register(c, u) \/ Unregister(c, u) PROVE AccountsInv'
  <2>1. UNCHANGED <<roleVars, guestVars>>
    BY <1>2 DEF Register, Unregister
  <2> QED BY <1>1, <1>2, <2>1, RegisterType, OwnCallInv
<1>3. CASE FindHolders(c) \/ Prune(c) \/ PruneFails(c)
  <2>1. UNCHANGED <<roleVars, guestVars>>
    BY <1>3 DEF FindHolders, Prune, PruneFails
  <2> QED BY <1>1, <1>3, <2>1, PruneType, OwnCallInv
<1>4. CASE Pruned(c) \/ Scrub(c) \/ SelfScrub(c)
  BY <1>4, EndOfCallInv
<1> QED BY <1>2, <1>3, <1>4 DEF DeviceStep

LEMMA MigrationStepInv ==
    ASSUME AccountsInv, NEW c \in Call, MigrationStep(c) PROVE AccountsInv'
<1>1. AccountsTypes /\ RoleInv /\ BonusInv /\ GuestInv /\ ClaimedHasRow
  BY DEF AccountsInv, BonusInv
<1>2. ASSUME NEW u \in Account, Migrate(c, u) PROVE AccountsInv'
  <2>1. UNCHANGED <<roleVars, bonusVars>>
    BY <1>2 DEF Migrate, guestVars
  <2>2. AccountsTypes' /\ OwnCall(c)
    BY <1>1, <1>2, MigrateType
  <2> QED BY <1>1, <1>2, <2>1, <2>2, OwnCallRoles, BonusFrame, MigrateGuest DEF AccountsInv
<1>3. CASE ReadGuest(c)
  <2>1. UNCHANGED <<roleVars, bonusVars>>
    BY <1>3 DEF ReadGuest, guestVars
  <2>2. AccountsTypes' /\ OwnCall(c)
    BY <1>1, <1>3, ReadGuestType
  <2> QED BY <1>1, <1>3, <2>1, <2>2, OwnCallRoles, BonusFrame, ReadGuestGuest DEF AccountsInv
<1>4. CASE CommitChunk(c)
  <2>1. UNCHANGED <<roleVars, bonusVars>>
    BY <1>4 DEF CommitChunk
  <2>2. AccountsTypes' /\ OwnCall(c)
    BY <1>1, <1>4, CommitChunkType
  <2> QED BY <1>1, <1>4, <2>1, <2>2, OwnCallRoles, BonusFrame, CommitChunkGuest DEF AccountsInv
<1>5. CASE Award(c) \/ AnswerMigrated(c)
  <2>1. UNCHANGED roleVars /\ Return(c)
    BY <1>5 DEF Award, AnswerMigrated
  <2>2. OwnCall(c)
    BY <1>1, <2>1, ReturnType DEF OwnCall
  <2>3. AccountsTypes' /\ RoleInv' /\ GuestInv'
    BY <1>1, <1>5, <2>1, <2>2, AwardType, OwnCallRoles, AwardGuest
  <2>4. BonusInv'
    <3>1. CASE Award(c)
      BY <1>1, <3>1, AwardBonus
    <3>2. CASE AnswerMigrated(c)
      BY <1>1, <3>2, BonusFrame DEF AnswerMigrated
    <3> QED BY <1>5, <3>1, <3>2
  <2> QED BY <2>3, <2>4 DEF AccountsInv
<1> QED BY <1>2, <1>3, <1>4, <1>5 DEF MigrationStep

LEMMA EraseInv ==
    ASSUME AccountsInv, NEW u \in Account, DeleteAccount(u) \/ CleanUp(u) \/ CleanUpFails(u)
    PROVE  AccountsInv'
<1>1. AccountsTypes /\ RoleInv /\ BonusInv /\ GuestInv
  BY DEF AccountsInv
<1>2. AccountsTypes' /\ RoleInv'
  BY <1>1, EraseType, EraseRoles
<1>3. UNCHANGED <<customerId, guestCart, bonusVars, migrated>>
  BY DEF DeleteAccount, CleanUp, CleanUpFails, guestVars
<1>4. BonusInv'
  BY <1>1, <1>3, BonusFrame
<1>5. \A d \in Call :
               /\ call'[d].step = call[d].step /\ call'[d].seen = call[d].seen
               /\ call'[d].todo = call[d].todo /\ call'[d].bonus = call[d].bonus
               /\ call'[d].uid = call[d].uid
  <2>1. CASE call' = Disturbed(u)
    BY <1>1, <2>1, DisturbedType
  <2>2. CASE call' = call
    BY <2>2
  <2> QED BY <2>1, <2>2 DEF DeleteAccount, CleanUp, CleanUpFails
<1>6. CartHasGone => CartHasGone'
  <2>1. CASE DeleteAccount(u)
    BY <1>1, <2>1 DEF DeleteAccount, guestVars, CartHasGone, AccountsTypes
  <2>2. CASE CleanUp(u)
    <3>1. auth[u] = "gone" /\ auth' = auth
      BY <1>1, <2>2 DEF CleanUp, RoleInv, LifeOfAccount
    <3> QED BY <3>1 DEF CartHasGone
  <2>3. CASE CleanUpFails(u)
    BY <2>3 DEF CleanUpFails, guestVars, CartHasGone
  <2> QED BY <2>1, <2>2, <2>3
<1>7. GuestInv'
  BY <1>1, <1>3, <1>5, <1>6, GuestFrame DEF bonusVars
<1> QED BY <1>2, <1>4, <1>7 DEF AccountsInv

LEMMA AccountsNextInv == AccountsInv /\ [AccountsNext]_accountsVars => AccountsInv'
<1> SUFFICES ASSUME AccountsInv, [AccountsNext]_accountsVars PROVE AccountsInv'
  OBVIOUS
<1>1. CASE UNCHANGED accountsVars
  <2>1. UNCHANGED <<auth, claims, users, admins, toClean, clean, owner, listed, customerId,
                    guestCart, carts, granted, coins, claimed, migrated, call, begun, faults>>
    BY <1>1 DEF accountsVars, roleVars, deviceVars, guestVars, bonusVars
  <2>2. AccountsTypes'
    BY <2>1 DEF AccountsInv, AccountsTypes
  <2>3. RoleInv'
    BY <2>1, RoleFrame DEF AccountsInv, roleVars, Changing
  <2>4. BonusInv'
    BY <2>1, BonusFrame DEF AccountsInv, bonusVars
  <2>5. GuestInv'
    BY <2>1, GuestFrame DEF AccountsInv, CartHasGone
  <2> QED BY <2>2, <2>3, <2>4, <2>5 DEF AccountsInv
<1>2. ASSUME NEW c \in Call, RoleStep(c) \/ DeviceStep(c) \/ MigrationStep(c) \/ Abort(c)
      PROVE AccountsInv'
  BY <1>2, RoleStepInv, DeviceStepInv, MigrationStepInv, EndOfCallInv
<1>3. ASSUME NEW u \in Account, DeleteAccount(u) \/ CleanUp(u) \/ CleanUpFails(u)
      PROVE AccountsInv'
  BY <1>3, EraseInv
<1> QED BY <1>1, <1>2, <1>3 DEF AccountsNext

LEMMA AccountsInvIsInvariant == AccountsSpec => []AccountsInv
BY AccountsInitInv, AccountsNextInv, PTL DEF AccountsSpec

(* Roles, devices, bonuses, carts and calls keep their types.              *)
THEOREM AccountsTypeCorrect == AccountsSpec => []AccountsTypeOK
<1>1. AccountsInv => AccountsTypeOK
  BY DEF AccountsInv, AccountsTypes, AccountsTypeOK, CallRecord
<1> QED BY <1>1, AccountsInvIsInvariant, PTL

(* The three places a role is written to say the same once its last change *)
(* ran to the end alone: assignUserRole, inviteStaffMember and the erasure *)
(* for any number of racing and dying calls, a failed delete included.     *)
THEOREM RolesStayInStep == AccountsSpec => []RolesInStep
<1>1. AccountsInv => RolesInStep
  BY DEF AccountsInv, RoleInv
<1> QED BY <1>1, AccountsInvIsInvariant, PTL

(* The welcome bonus is granted once for a phone: awardWelcomeBonus looks  *)
(* for the row of the key in the transaction that writes it.               *)
THEOREM BonusIsOnce == AccountsSpec => []OneBonusPerKey
<1>1. AccountsInv => OneBonusPerKey
  BY DEF AccountsInv, BonusInv
<1> QED BY <1>1, AccountsInvIsInvariant, PTL

(* A guest is moved whole, for any number of orders, any size of a batch   *)
(* and whatever other migrations of the session do or die of between two.  *)
THEOREM GuestArrivesWhole == AccountsSpec => []GuestIsMovedWhole
<1>1. AccountsInv => GuestIsMovedWhole
  BY GuestIsWhole DEF AccountsInv
<1> QED BY <1>1, AccountsInvIsInvariant, PTL

(* No step but a prune that found it earlier, or its own late logout,      *)
(* takes the owner of a token off its list: the scrub of unregisterDevice- *)
(* Token and the prune of registerDeviceToken, interleaved in any order.   *)
LEMMA DetachLeavesOwner ==
    ASSUME [AccountsNext]_accountsVars, NEW u \in Account,
           owner = u, owner' = u, u \in listed, u \notin listed'
    PROVE  \E c \in Call : \/ call[c].step = "prune" /\ u \in call[c].seen
                           \/ call[c].step = "self" /\ call[c].uid = u
<1>1. u # Nobody
  BY AccountsAssumption
<1>2. ~(UNCHANGED listed)
  OBVIOUS
<1>3. ASSUME NEW c \in Call, Prune(c) PROVE call[c].step = "prune" /\ u \in call[c].seen
  BY <1>3 DEF Prune
<1>4. ASSUME NEW c \in Call, SelfScrub(c) PROVE call[c].step = "self" /\ call[c].uid = u
  BY <1>4 DEF SelfScrub
<1>5. ASSUME NEW c \in Call, Scrub(c) PROVE FALSE
  BY <1>1, <1>5 DEF Scrub, Holders
<1>6. ASSUME NEW c \in Call, NEW v \in Account, Register(c, v) \/ Unregister(c, v) PROVE FALSE
  BY <1>6 DEF Register, Unregister, deviceVars
<1>7. ASSUME NEW c \in Call, FindHolders(c) \/ Pruned(c) \/ PruneFails(c) PROVE FALSE
  BY <1>7, <1>2 DEF FindHolders, Pruned, PruneFails, deviceVars
<1>8. ASSUME NEW c \in Call, RoleStep(c) PROVE FALSE
  BY <1>8, <1>2 DEF RoleStep, AssignRole, Invite, InviteClaims, InviteThrows, WriteProfile,
         WriteRegistry, RegistryDeleteFails, NameInvited, StampClaims, deviceVars
<1>9. ASSUME NEW c \in Call, MigrationStep(c) \/ Abort(c) PROVE FALSE
  BY <1>9, <1>2 DEF MigrationStep, Migrate, ReadGuest, CommitChunk, Award, AnswerMigrated,
         Abort, deviceVars
<1>10. ASSUME NEW v \in Account, DeleteAccount(v) \/ CleanUp(v) \/ CleanUpFails(v) PROVE FALSE
  BY <1>10, <1>2 DEF DeleteAccount, CleanUp, CleanUpFails, deviceVars
<1>11. ~(UNCHANGED accountsVars)
  BY <1>2 DEF accountsVars, deviceVars
<1> QED BY <1>3, <1>4, <1>5, <1>6, <1>7, <1>8, <1>9, <1>10, <1>11 DEF AccountsNext, DeviceStep

(* The owner of a device's token keeps getting its messages.               *)
THEOREM OwnerIsNotDetached == AccountsSpec => OwnerStaysListed
<1>1. [AccountsNext]_accountsVars
        => [\A u \in Account :
             owner = u /\ owner' = u /\ u \in listed /\ u \notin listed' =>
             \E c \in Call :
                 \/ call[c].step = "prune" /\ u \in call[c].seen
                 \/ call[c].step = "self" /\ call[c].uid = u]_accountsVars
  BY DetachLeavesOwner
<1> QED BY <1>1, PTL DEF AccountsSpec, OwnerStaysListed
=============================================================================
