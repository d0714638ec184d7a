----------------------------- MODULE DraftTicket -----------------------------
(***************************************************************************)
(* What the worker promises of one draft request, with no queue, thread,   *)
(* timeout or store in it.  A request is refused or opened; an open one    *)
(* ends once, for good, and may be forgotten at any time.  The client is   *)
(* told once, and what it is told is how the request stands at that        *)
(* moment.  A draft it is told of is on offer until it is dropped, and     *)
(* only what is on offer can be executed.                                  *)
(***************************************************************************)

VARIABLES
  outcome,   \* "none" (not opened), "open", "done", "error" or "gone"
  told,      \* what the client was told, "none" before that
  offered,   \* the draft can be approved
  executed   \* it was approved and executed

ticketVars == <<outcome, told, offered, executed>>

TicketInit ==
  /\ outcome = "none"
  /\ told = "none"
  /\ offered = FALSE
  /\ executed = FALSE

Refuse ==
  /\ outcome = "none" /\ told = "none"
  /\ told' = "refused"
  /\ UNCHANGED <<outcome, offered, executed>>

Open ==
  /\ outcome = "none" /\ told = "none"
  /\ outcome' = "open"
  /\ UNCHANGED <<told, offered, executed>>

\* Nobody can work on it: it has failed, and the client is told at once.
Reject ==
  /\ outcome \in {"open", "gone"} /\ told = "none"
  /\ outcome' = IF outcome = "open" THEN "error" ELSE "gone"
  /\ told' = "refused"
  /\ UNCHANGED <<offered, executed>>

End ==
  /\ outcome = "open"
  /\ outcome' \in {"done", "error"}
  /\ UNCHANGED <<told, offered, executed>>

Evict ==
  /\ outcome # "none"
  /\ outcome' = "gone"
  /\ UNCHANGED <<told, offered, executed>>

TellDraft ==
  /\ outcome = "done" /\ told = "none"
  /\ told' = "draft"
  /\ offered' = TRUE
  /\ UNCHANGED <<outcome, executed>>

TellFailed ==
  /\ outcome = "error" /\ told = "none"
  /\ told' = "failed"
  /\ UNCHANGED <<outcome, offered, executed>>

\* 202: the job goes on, or it has been forgotten.
TellAccepted ==
  /\ outcome \in {"open", "gone"} /\ told = "none"
  /\ told' = "accepted"
  /\ UNCHANGED <<outcome, offered, executed>>

Drop ==
  /\ offered
  /\ offered' = FALSE
  /\ UNCHANGED <<outcome, told, executed>>

Execute ==
  /\ offered
  /\ executed' = TRUE
  /\ UNCHANGED <<outcome, told, offered>>

TicketNext ==
  \/ Refuse \/ Open \/ Reject \/ End \/ Evict
  \/ TellDraft \/ TellFailed \/ TellAccepted
  \/ Drop \/ Execute

TicketSpec == TicketInit /\ [][TicketNext]_ticketVars
==============================================================================
