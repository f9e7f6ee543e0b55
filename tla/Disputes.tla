------------------------------ MODULE Disputes -------------------------------
(***************************************************************************)
(* Disputes of customers about their orders (disputes.service.ts).  The    *)
(* checks of a request and its writes are awaits apart: `disputeRaced'     *)
(* remembers the disputes another request touched in between.              *)
(***************************************************************************)
EXTENDS Requests

CONSTANTS DisputeIds, OrderIds, RefundWP

VARIABLES
  dispute,       \* disputes: order, status, refundedWp
  events,        \* dispute_events: the statuses the timeline shows
  refunds,       \* REFUND credits in the customer's ledger
  disputeRaced

disputeVars == <<dispute, events, refunds, disputeRaced>>

OpenStatus   == {"reported", "under_review", "investigating"}
ClosedStatus == {"resolved", "rejected"}
NoOrder      == "no order"
Dispute == [ order : OrderIds \cup {NoOrder}, status : {"none"} \cup OpenStatus \cup ClosedStatus,
             refunded : Nat ]

(* A handler, with its copy of the row.                                    *)
DisputeCall == [ pc : {"insert", "refund", "save"}, dispute : DisputeIds,
                 order : OrderIds \cup {NoOrder}, copy : Dispute ]

ASSUME DisputeConstantsOK == RefundWP \in Nat /\ NoCall \notin DisputeCall

DisputesInit ==
  /\ dispute = [d \in DisputeIds |-> [order |-> NoOrder, status |-> "none", refunded |-> 0]]
  /\ events = [d \in DisputeIds |-> {}]
  /\ refunds = [d \in DisputeIds |-> 0]
  /\ disputeRaced = {}

OnDispute(d) ==
  {p \in UNION {InFlight(pc) : pc \in {"insert", "refund", "save"}} : call[p].dispute = d}
IsOpen(d)    == dispute[d].status \in OpenStatus

(* create: no open dispute for the order yet; the insert comes later.      *)
CreateDispute(p, d, o) ==
  /\ dispute[d].status = "none" /\ OnDispute(d) = {}
  /\ \A e \in DisputeIds : dispute[e].order = o => ~IsOpen(e)
  /\ Begin(p, [pc |-> "insert", dispute |-> d, order |-> o,
               copy |-> [order |-> o, status |-> "reported", refunded |-> 0]])
  /\ UNCHANGED disputeVars

(* updateStatus and resolve: getOpenOrFail.                                *)
WorkOn(p, d, pc, copy) ==
  /\ IsOpen(d)
  /\ Begin(p, [pc |-> pc, dispute |-> d, order |-> dispute[d].order, copy |-> copy])
  /\ disputeRaced' = IF OnDispute(d) # {} THEN disputeRaced \cup {d} ELSE disputeRaced
  /\ UNCHANGED <<dispute, events, refunds>>

UpdateStatus(p, d, status) ==
  /\ status \in {"under_review", "investigating"}
  /\ WorkOn(p, d, "save", [dispute[d] EXCEPT !.status = status])

(* Mutant of Resolve: the refund is not written to the dispute.            *)
ResolveUnrecorded(p, d, rejecting, refund) ==
  /\ refund => ~rejecting
  /\ WorkOn(p, d, IF refund THEN "refund" ELSE "save",
            [dispute[d] EXCEPT !.status = IF rejecting THEN "rejected" ELSE "resolved"])

(* resolve: without an outcome, or when asked to, it rejects; otherwise it *)
(* may credit WashPoints first.                                            *)
Resolve(p, d, rejecting, refund) ==
  /\ refund => ~rejecting
  /\ WorkOn(p, d, IF refund THEN "refund" ELSE "save",
            [dispute[d] EXCEPT !.status = IF rejecting THEN "rejected" ELSE "resolved",
                               !.refunded = IF refund THEN RefundWP ELSE @])

CreditRefund(p) ==
  /\ At(p, "refund")
  /\ refunds' = [refunds EXCEPT ![call[p].dispute] = @ + RefundWP]
  /\ Goto(p, "save")
  /\ UNCHANGED <<dispute, events, disputeRaced>>

(* The row, then its event (one step: nothing reads between them).         *)
SaveDispute(p) ==
  /\ At(p, "insert") \/ At(p, "save")
  /\ LET d == call[p].dispute
     IN /\ dispute' = [dispute EXCEPT ![d] = call[p].copy]
        /\ events' = [events EXCEPT ![d] = @ \cup {call[p].copy.status}]
        /\ disputeRaced' =
             IF At(p, "insert")
             THEN disputeRaced \cup {e \in DisputeIds \cup {d} :
                    \E f \in DisputeIds \ {d} : /\ IsOpen(f) /\ dispute[f].order = call[p].order
                                                /\ e \in {d, f}}
             ELSE disputeRaced
  /\ End(p)
  /\ UNCHANGED refunds

DisputeStep(p) == CreditRefund(p) \/ SaveDispute(p)

DisputesNext ==
  \E p \in Procs :
    \/ \E d \in DisputeIds, o \in OrderIds : CreateDispute(p, d, o)
    \/ \E d \in DisputeIds, s \in {"under_review", "investigating"} : UpdateStatus(p, d, s)
    \/ \E d \in DisputeIds, r, w \in BOOLEAN : Resolve(p, d, r, w)
    \/ DisputeStep(p)
    \/ Dies(p) /\ UNCHANGED disputeVars

DisputesSpec == RequestsInit /\ DisputesInit /\ [][DisputesNext]_<<disputeVars, requestVars>>

-----------------------------------------------------------------------------
DisputesTypeOK ==
  /\ dispute \in [DisputeIds -> Dispute]
  /\ events \in [DisputeIds -> SUBSET (OpenStatus \cup ClosedStatus)]
  /\ refunds \in [DisputeIds -> Nat]
  /\ disputeRaced \subseteq DisputeIds

(* "One open dispute per order keeps the queue sane", and a dispute at     *)
(* rest has been refunded exactly what its row says, once; as long as no   *)
(* two requests worked on it at once and none died on the way.             *)
RefundedAsRecorded ==
  \A d \in DisputeIds \ disputeRaced :
    /\ OnDispute(d) = {} /\ deaths = 0 => refunds[d] = dispute[d].refunded
    /\ \A e \in DisputeIds \ (disputeRaced \cup {d}) :
         IsOpen(d) /\ IsOpen(e) => dispute[d].order # dispute[e].order
==============================================================================
