-------------------------------- MODULE Tickets --------------------------------
(***************************************************************************)
(* One support ticket (tickets.service.ts) between the customer who writes *)
(* on it, the staff who resolve it, and the job that escalates it          *)
(* (ticketReminder.scheduler.ts), whose ticks run under the lock of        *)
(* SchedulerLock: every tick of the ticket job is a run of that module,    *)
(* and its body takes its steps between the acquisition and the end.       *)
(*                                                                         *)
(* A resolution runs under a lease on the ticket and its money moves       *)
(* before the status does.  Messages, escalations and the job's batch are  *)
(* plain writes: none of them looks at the status it overwrites.           *)
(***************************************************************************)
EXTENDS SchedulerLock, FiniteSets

CONSTANTS Staff,        \* executions of the resolve routes
          Wait,         \* TIER_WAIT_MS in units of the clock, per tier
          MaxActs,      \* bound: messages, escalations and resolutions begun
          MaxFaults,    \* bound: resolutions that die
          None

Tier == {"branch", "brand_support", "developer_team"}
TierAbove == [branch |-> "brand_support", brand_support |-> "developer_team"]

ASSUME TicketAssumption ==
    /\ Wait \in [Tier -> Nat \ {0}]
    /\ MaxActs \in Nat /\ MaxFaults \in Nat
    /\ None \notin Staff

VARIABLES
    ticket,      \* support_tickets/{id}
    leaseOld,    \* resolutionClaim is more than 2.5 minutes old
    desk,        \* what each resolution is doing
    job,         \* what each run of the job has decided from its query
    credits,     \* coins credited for the ticket, in credits
    ledger,      \* coin_transactions/coin_ticket_credit_{id} exists
    alerted,     \* FCM took a reminder of the ticket
    acts, deaths

ticketVars == <<ticket, leaseOld, desk, job, credits, ledger, alerted, acts, deaths>>
allVars == <<vars, ticketVars>>

Status == {"open", "in_progress", "escalated", "resolved"}
Action == {"refund", "loyalty_credit", "explanation"}
Unattended == {"open", "escalated"}     \* what the job's query matches
Plan == {"none", "nothing", "remind", "flag"} \cup Tier

Ticket == [status : Status, tier : Tier, lastActivityAt : Nat,
           branchReminderSent : BOOLEAN, claim : Staff \cup {None}, resolution : Action \cup {None}]

TicketTypeOK ==
    /\ ticket \in Ticket /\ leaseOld \in BOOLEAN
    /\ desk \in [Staff -> [step : {"away", "claimed", "done"},
                           action : Action \cup {None}]]
    /\ job \in [Run -> [plan : Plan, saw : Status \cup {None}]]
    /\ credits \in Nat /\ ledger \in BOOLEAN /\ alerted \in BOOLEAN
    /\ acts \in 0..MaxActs /\ deaths \in 0..MaxFaults

Away == [step |-> "away", action |-> None]
NoJob == [plan |-> "none", saw |-> None]

TicketInit ==
    /\ Init
    /\ ticket = [status |-> "open", tier |-> "branch", lastActivityAt |-> 1,
                 branchReminderSent |-> FALSE, claim |-> None,
                 resolution |-> None]
    /\ leaseOld = FALSE
    /\ desk = [s \in Staff |-> Away]
    /\ job = [r \in Run |-> NoJob]
    /\ credits = 0 /\ ledger = FALSE /\ alerted = FALSE
    /\ acts = 0 /\ deaths = 0

CreatedAt == 1

Act == acts < MaxActs /\ acts' = acts + 1

-----------------------------------------------------------------------------
(* The thread of the ticket.                                               *)

(* addTicketMessage: a customer's message opens the ticket, a staff        *)
(* member's puts it in progress, whatever its status was.                  *)
Message == \E to \in {"open", "in_progress"} :
    /\ Act
    /\ ticket' = [ticket EXCEPT !.status = to, !.lastActivityAt = clock]
    /\ UNCHANGED <<vars, leaseOld, desk, job, credits, ledger, alerted, deaths>>

Escalate == \E tier \in Tier \ {"branch"} :
    /\ Act
    /\ ticket' = [ticket EXCEPT !.status = "escalated", !.tier = tier,
                                !.lastActivityAt = clock]
    /\ UNCHANGED <<vars, leaseOld, desk, job, credits, ledger, alerted, deaths>>

-----------------------------------------------------------------------------
(* Resolving.                                                              *)

(* claimTicketResolution: the status and the lease are checked where the   *)
(* lease is written.                                                       *)
ClaimResolution(s, action) ==
    /\ desk[s].step = "away"
    /\ Act
    /\ ticket.status # "resolved"
    /\ ticket.claim # None => leaseOld
    /\ ticket' = [ticket EXCEPT !.claim = s]
    /\ leaseOld' = FALSE
    /\ desk' = [desk EXCEPT ![s] = [step |-> "claimed", action |-> action]]
    /\ UNCHANGED <<vars, job, credits, ledger, alerted, deaths>>

Resolve(s) == \E action \in Action : ClaimResolution(s, action)

(* resolveTicketNote: the words of an explanation, under the same lease.   *)
ResolveNote(s) == ClaimResolution(s, "explanation")

(* A refund that autoRefund executed, or an action that moves no money.    *)
(* The request's id is the digest of ticket and action, so what a second   *)
(* one does is Refund's subject.                                           *)
Settle(s) ==
    /\ desk[s].step = "claimed" /\ desk[s].action # "loyalty_credit"
    /\ desk' = [desk EXCEPT ![s].step = "done"]
    /\ UNCHANGED <<vars, ticket, leaseOld, job, credits, ledger, alerted, acts, deaths>>

(* Mutant: the credit does not look for the row of an earlier one.         *)
Owed_Always == TRUE

(* creditTicketLoyaltyCoins: one transaction over the balance and a row    *)
(* whose id is the ticket's; a row that is there is the answer.            *)
Owed == ~ledger

Credit(s) ==
    /\ desk[s].step = "claimed" /\ desk[s].action = "loyalty_credit"
    /\ credits' = IF Owed THEN credits + 1 ELSE credits
    /\ ledger' = TRUE
    /\ desk' = [desk EXCEPT ![s].step = "done"]
    /\ UNCHANGED <<vars, ticket, leaseOld, job, alerted, acts, deaths>>

(* Mutant: the final write does not check the lease.                       *)
HoldsLease_Always(s) == TRUE

HoldsLease(s) == ticket.claim = s

(* commitResolvedTicket: only under the lease this execution wrote.        *)
Commit(s) ==
    /\ desk[s].step = "done"
    /\ HoldsLease(s)
    /\ ticket' = [ticket EXCEPT !.status = "resolved", !.claim = None,
                                !.resolution = desk[s].action,
                                !.lastActivityAt = clock]
    /\ leaseOld' = FALSE
    /\ desk' = [desk EXCEPT ![s] = Away]
    /\ UNCHANGED <<vars, job, credits, ledger, alerted, acts, deaths>>

(* A refused refund, a lost lease or an error: releaseResolutionClaim      *)
(* clears the lease if it is still this execution's.                       *)
GiveUp(s) ==
    /\ \/ desk[s].step = "claimed" /\ desk[s].action # "explanation"
       \/ desk[s].step = "done" /\ ~HoldsLease(s)
    /\ ticket' = IF ticket.claim = s THEN [ticket EXCEPT !.claim = None] ELSE ticket
    /\ leaseOld' = (ticket.claim # s /\ leaseOld)
    /\ desk' = [desk EXCEPT ![s] = Away]
    /\ UNCHANGED <<vars, job, credits, ledger, alerted, acts, deaths>>

(* The execution dies and leaves its lease behind.                         *)
Die(s) ==
    /\ desk[s].step # "away" /\ deaths < MaxFaults
    /\ deaths' = deaths + 1
    /\ desk' = [desk EXCEPT ![s] = Away]
    /\ UNCHANGED <<vars, ticket, leaseOld, job, credits, ledger, alerted, acts>>

(* Nothing in the code ties the lease's age to the life of its holder, who *)
(* may be slow: the final write is fenced instead.                         *)
LeaseAges ==
    /\ ticket.claim # None /\ ~leaseOld
    /\ leaseOld' = TRUE
    /\ UNCHANGED <<vars, ticket, desk, job, credits, ledger, alerted, acts, deaths>>

-----------------------------------------------------------------------------
(* The job.                                                                *)

Admitted(r) == pc[r] \in {"locked", "open"}

(* nextTierForInactivity, or a first reminder at the branch, or nothing.   *)
Verdict ==
    IF ticket.tier # "developer_team"
         /\ clock - ticket.lastActivityAt >= Wait[ticket.tier]
      THEN TierAbove[ticket.tier]
    ELSE IF /\ ticket.tier = "branch" /\ ~ticket.branchReminderSent
            /\ clock - CreatedAt >= Wait["branch"]
      THEN "remind"
    ELSE "nothing"

(* Mutant: the query takes tickets of any status.                          *)
Matches_Any == TRUE
Matches == ticket.status \in Unattended

(* The query: everything below is decided from this snapshot.              *)
Scan(r) ==
    /\ Admitted(r) /\ job[r].plan = "none"
    /\ job' = [job EXCEPT ![r] = [plan |-> IF Matches THEN Verdict ELSE "nothing",
                                  saw |-> ticket.status]]
    /\ UNCHANGED <<vars, ticket, leaseOld, desk, credits, ledger, alerted,
                   acts, deaths>>

(* batch.commit: the escalation, over whatever the ticket has become.      *)
Flush(r) ==
    /\ Admitted(r) /\ job[r].plan \in Tier
    /\ ticket' = [ticket EXCEPT !.status = "escalated", !.tier = job[r].plan,
                                !.lastActivityAt = clock]
    /\ job' = [job EXCEPT ![r].plan = "nothing"]
    /\ UNCHANGED <<vars, leaseOld, desk, credits, ledger, alerted, acts, deaths>>

(* publishTicketAlert settles its sends and returns, whether FCM took them *)
(* or not; the flag is written in a second batch.                          *)
Remind(r) ==
    /\ Admitted(r) /\ job[r].plan = "remind"
    /\ job' = [job EXCEPT ![r].plan = "flag"]
    /\ alerted' \in {alerted, TRUE}
    /\ UNCHANGED <<vars, ticket, leaseOld, desk, credits, ledger, acts, deaths>>

FlagSent(r) ==
    /\ Admitted(r) /\ job[r].plan = "flag"
    /\ ticket' = [ticket EXCEPT !.branchReminderSent = TRUE,
                                !.lastActivityAt = clock]
    /\ job' = [job EXCEPT ![r].plan = "nothing"]
    /\ UNCHANGED <<vars, leaseOld, desk, credits, ledger, alerted, acts, deaths>>

(* A run of the lock's module: its end, at any point of the body, takes    *)
(* what it had decided with it.                                            *)
LockStep ==
    /\ Next
    /\ job' = [r \in Run |-> IF pc'[r] \in {"locked", "open"} THEN job[r] ELSE NoJob]
    /\ UNCHANGED <<ticket, leaseOld, desk, credits, ledger, alerted, acts, deaths>>

TicketNext ==
    \/ LockStep
    \/ Message \/ Escalate \/ LeaseAges
    \/ \E s \in Staff : \/ Resolve(s) \/ ResolveNote(s) \/ Settle(s) \/ Credit(s)
                        \/ Commit(s) \/ GiveUp(s) \/ Die(s)
    \/ \E r \in Run : Scan(r) \/ Flush(r) \/ Remind(r) \/ FlagSent(r)

TicketSpec == TicketInit /\ [][TicketNext]_allVars

-----------------------------------------------------------------------------
(* Properties.                                                             *)

(* A resolution on record is replaced only on a ticket that was opened     *)
(* again: a resolver who lost the lease while the money moved overwrites   *)
(* nobody's resolution (the fencing of commitResolvedTicket).              *)
ResolutionIsNotOverwritten ==
    [][ticket.resolution # None /\ ticket'.resolution # ticket.resolution =>
          ticket.status # "resolved"]_allVars

(* A resolved ticket is opened again by a message or an escalation someone *)
(* made, or by a run of the job whose query saw it before it was resolved: *)
(* the job never picks up a resolved ticket (checkTicketInactivityReminders*)
(* reads once and writes later, and its batch does not look again).        *)
ReopeningIsAsked ==
    [][ticket.status = "resolved" /\ ticket'.status # "resolved" =>
          \/ acts' # acts
          \/ \E r \in Run : /\ job[r].plan \in Tier /\ job'[r].plan = "nothing"
                             /\ job[r].saw \in Unattended]_allVars

(* However often a ticket is reopened, retried or taken over in the middle *)
(* of a credit, its customer is credited once (creditTicketLoyaltyCoins).  *)
CreditedOnce == credits <= 1

(* What the job says of its reminders ("sent" flags must only land when    *)
(* their alert actually went out): the flag means that FCM took one.       *)
FlagMeansSent == ticket.branchReminderSent => alerted
===============================================================================
