----------------------------- MODULE Workspace -----------------------------
(***************************************************************************)
(* The status of one participant, src/src/workspace.ts, beside what it     *)
(* reports on: the receipts that the admissions of Capabilities leave with *)
(* the host, and the journal of the participant's bridge.                  *)
(*                                                                         *)
(* The time of the report is taken first.  Then the receipt is read, the   *)
(* live binding awaited, the worker inspected, and the journal read file   *)
(* by file while another process writes it.                                *)
(*                                                                         *)
(* Of an admission only its end is kept here: a receipt that an admission  *)
(* could have issued by now, for any binding up to the present one.        *)
(***************************************************************************)
EXTENDS Capabilities

CONSTANTS
    Within,        \* handlingWithinMs
    MaxDeliveries  \* bound on the deliveries of the journal

ASSUME WorkspaceAssumption == Within \in Nat /\ MaxDeliveries \in Nat

VARIABLES
    deliveries,    \* the journal: every delivery with its marks and their times
    status         \* the report being made, or the last one

allVars == <<vars, deliveries, status>>

Never == -1

(* A delivery is pending until its acked mark is there. *)
Pending(d) == deliveries[d].acked = Never

NoReport == [at |-> "none"]
Settled == "done"

WorkspaceInit ==
    /\ Init
    /\ deliveries = <<>>
    /\ status = NoReport

-----------------------------------------------------------------------------
(* The journal, as the bridge worker and the session's `handled` command    *)
(* write it.  There is at most one pending delivery.                        *)
Add ==
    /\ Len(deliveries) < MaxDeliveries
    /\ \A d \in DOMAIN deliveries : ~Pending(d)
    /\ deliveries' = Append(deliveries,
           [created |-> now, queued |-> FALSE, handled |-> Never, acked |-> Never])

MarkQueued(d) ==
    /\ Pending(d) /\ ~deliveries[d].queued
    /\ deliveries' = [deliveries EXCEPT ![d].queued = TRUE]

Handle(d) ==
    /\ deliveries[d].handled = Never
    /\ deliveries' = [deliveries EXCEPT ![d].handled = now]

MarkAcknowledged(d) ==
    /\ Pending(d) /\ deliveries[d].handled # Never
    /\ deliveries' = [deliveries EXCEPT ![d].acked = now]

JournalChanges ==
    /\ Add \/ \E d \in DOMAIN deliveries : MarkQueued(d) \/ Handle(d) \/ MarkAcknowledged(d)
    /\ UNCHANGED <<vars, status>>

(* An admission that began at `start` has ended with a receipt.  Receipts   *)
(* issued after the report has read its own play no part in it.             *)
Issue(profile, binding, start) ==
    /\ status = NoReport
    /\ binding.runtime <= live.runtime
    /\ start <= now /\ now < start + Timeout /\ now < start + Ttl
    /\ receipt' = [issued |-> TRUE, profile |-> profile, binding |-> binding,
                   start |-> start, end |-> start + Ttl]
    /\ UNCHANGED <<sessionVars, adm, answer, told, deliveries, status>>

-----------------------------------------------------------------------------
(* The report.                                                              *)

Report == UNCHANGED <<vars, deliveries>>

(* workspaceStatus and the head of capabilityStatus: the time, the profile  *)
(* the operator named, the receipt the host retained.  Without a hook for   *)
(* the live binding nothing is verified.  A report changes nothing, so one  *)
(* is enough.                                                               *)
Ask(profile, hook) ==
    /\ status = NoReport
    /\ status' = [at |-> IF hook /\ receipt.issued THEN "binding" ELSE "inspecting",
                  observed |-> now, profile |-> profile,
                  receipt |-> IF hook THEN receipt ELSE NoReceipt,
                  readiness |-> CASE ~hook -> "unverified"
                                  [] hook /\ ~receipt.issued -> "evidence-invalid"
                                  [] OTHER -> "unknown",
                  expires |-> Never, binding |-> live, readAt |-> Never,
                  item |-> 0, handling |-> "unobserved", phase |-> "unknown"]
    /\ Report

(* The host reads the binding; or it cannot, and the hook returns null. *)
ReadBinding ==
    /\ status.at = "binding"
    /\ \/ status' = [status EXCEPT !.at = "read", !.binding = live, !.readAt = now]
       \/ status' = [status EXCEPT !.at = "inspecting", !.receipt = NoReceipt,
                                   !.readiness = "binding-unavailable"]
    /\ Report

(* Mutant of Readiness: the receipt vouches for its own binding.            *)
ReadinessOfReceipt(r, profile, binding, t) ==
    IF r.profile # profile THEN "evidence-invalid"
    ELSE IF Valid(r, profile, r.binding, t) THEN "verified" ELSE "expired"

(* What the receipt is worth against a binding and a time.                  *)
Readiness(r, profile, binding, t) ==
    IF r.binding # binding THEN "binding-mismatch"
    ELSE IF r.profile # profile THEN "evidence-invalid"
    ELSE IF Valid(r, profile, binding, t) THEN "verified" ELSE "expired"

JudgeReceipt ==
    /\ status.at = "read"
    /\ LET worth == Readiness(status.receipt, status.profile, status.binding, status.observed)
       IN  status' = [status EXCEPT !.at = "inspecting", !.receipt = NoReceipt,
                        !.readiness = worth,
                        !.expires = IF worth = "verified" THEN status.receipt.end ELSE Never]
    /\ Report

(* The worker is inspected, which takes a while; then pending() reads the   *)
(* journal.  A delivery is evidence only if it was there when the report    *)
(* began.                                                                   *)
ReadPending ==
    /\ status.at = "inspecting"
    /\ LET due == {d \in DOMAIN deliveries : Pending(d)}
       IN  status' =
             IF due = {} THEN [status EXCEPT !.at = Settled, !.handling = "no-pending-delivery",
                                             !.phase = "idle"]
             ELSE LET d == CHOOSE d \in due : TRUE
                  IN  IF deliveries[d].created > status.observed
                      THEN [status EXCEPT !.at = Settled, !.item = d, !.handling = "evidence-invalid"]
                      ELSE [status EXCEPT !.at = "receipt", !.item = d]
    /\ Report

(* Mutant of Handling: a receipt counts whenever it was written.            *)
HandlingAtOnce(d) ==
    CASE d.handled # Never -> "handled-awaiting-ack"
      [] d.handled = Never /\ status.observed - d.created >= Within -> "handling-overdue"
      [] OTHER -> "awaiting-handling"

(* handlingStatus: what the receipt of the delivery says, as of `observed`. *)
Handling(d) ==
    CASE d.handled # Never /\ d.handled > status.observed -> "evidence-invalid"
      [] d.handled # Never /\ d.handled <= status.observed -> "handled-awaiting-ack"
      [] d.handled = Never /\ status.observed - d.created >= Within -> "handling-overdue"
      [] OTHER -> "awaiting-handling"

ReadReceipt ==
    /\ status.at = "receipt"
    /\ LET found == Handling(deliveries[status.item])
       IN  status' =
             CASE found = "evidence-invalid" -> [status EXCEPT !.at = Settled, !.handling = found]
               [] found = "handled-awaiting-ack" ->
                     [status EXCEPT !.at = Settled, !.handling = found, !.phase = "handled"]
               [] OTHER -> [status EXCEPT !.at = "queued", !.handling = found]
    /\ Report

ReadQueued ==
    /\ status.at = "queued"
    /\ status' = [status EXCEPT !.at = Settled,
           !.phase = IF deliveries[status.item].queued THEN "queued" ELSE "pending"]
    /\ Report

-----------------------------------------------------------------------------
(* The profiles an operator may have written to the profile file. *)
Profiles == {Resolved(w, "codex") : w \in {v \in Policies : Resolves(v, "codex")}}

Next ==
    \/ SessionChanges /\ UNCHANGED <<deliveries, status>>
    \/ JournalChanges
    \/ \E p \in Profiles, b \in Binding, t \in 0..MaxTime : Issue(p, b, t)
    \/ \E p \in Profiles, hook \in BOOLEAN : Ask(p, hook)
    \/ ReadBinding \/ JudgeReceipt \/ ReadPending \/ ReadReceipt \/ ReadQueued

Spec == WorkspaceInit /\ [][Next]_allVars
-----------------------------------------------------------------------------
(* Properties.                                                              *)

(* A participant is called verified only if its retained receipt is for     *)
(* this profile, had not expired when the report began, and names the       *)
(* binding the session still had at some moment after that; a receipt alone *)
(* never makes one ready (capabilityStatus, workspace.ts).                  *)
VerifiedWasLive ==
    [][status # NoReport /\ status'.readiness = "verified" /\ status.readiness # "verified" =>
        LET r == status.receipt
        IN  /\ r.profile = status.profile
            /\ r.start <= status.observed /\ status.observed < r.end
            /\ status'.expires = r.end
            /\ status.readAt >= status.observed
            /\ r.binding = status.binding]_allVars

(* What is reported of a pending delivery was so when the report began,     *)
(* although the journal is read file by file, later, beside its writers: it *)
(* was there, not yet acknowledged, and handled or not as reported          *)
(* (handlingStatus, workspace.ts).                                          *)
HandlingAsObserved ==
    status.at = Settled /\ status.handling \notin {"no-pending-delivery", "evidence-invalid"} =>
        LET d == deliveries[status.item]
        IN  /\ d.created <= status.observed
            /\ d.acked = Never \/ d.acked >= status.observed
            /\ IF status.handling = "handled-awaiting-ack"
               THEN d.handled # Never /\ d.handled <= status.observed
               ELSE d.handled = Never \/ d.handled >= status.observed
=============================================================================
