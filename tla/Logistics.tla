------------------------------ MODULE Logistics ------------------------------
(***************************************************************************)
(* Logistics legs: a rep carries clothes between a vendor and somebody,    *)
(* without washing (logistics.service.ts; cancelOrder, completeOrder and   *)
(* settleLogisticsLeg of orders.service.ts).  A leg is an order of a       *)
(* logistics flow.  Every handler loads the row, checks its status,        *)
(* awaits, and saves its copy; how an order is charged and assigned in     *)
(* detail is OrderSettlement's and Assignment's.                           *)
(***************************************************************************)
EXTENDS Requests

CONSTANTS
  Legs,
  Fees          \* prices of a leg: raw transport fee, its bounds, mobility fee

VARIABLES
  leg,          \* orders of a logistics flow
  held,         \* their order_escrows rows
  repPaid,      \* REP_TRANSPORT credits of a leg, in WashPoints
  refunded,     \* CANCELLATION_REFUND credits of a leg
  legRaced      \* legs saved from an outdated copy, paid or extended twice

logisticsVars == <<leg, held, repPaid, refunded, legRaced>>

LegStatus == {"none", "pending_payment", "paid", "scheduled", "picked_up", "delivered",
              "completed", "cancelled"}

Leg == [ status : LegStatus, flow : {"delivery", "collect"}, roundTrip : BOOLEAN,
         vendorAsks : BOOLEAN, parent : Legs \cup {"none"},
         transport : Nat, total : Nat, platform : Nat ]

NoLeg == [ status |-> "none", flow |-> "delivery", roundTrip |-> FALSE, vendorAsks |-> TRUE,
           parent |-> "none", transport |-> 0, total |-> 0, platform |-> 0 ]

(* The statuses in which a handler goes on with the copy it loaded; those  *)
(* of cancel are CANCELLABLE_STATUSES.                                     *)
Handlers == [ pay      |-> {"pending_payment"},
              schedule |-> {"paid"},
              pickUp   |-> {"scheduled"},
              deliver  |-> {"picked_up"},
              cancel   |-> {"pending_payment", "paid", "scheduled"},
              payRep   |-> {"delivered"} ]

LegCall == [ pc : {"spawn", "pay", "schedule", "pickUp", "deliver", "cancel", "complete",
                   "payRep", "settle"},
             leg : Legs, row : Leg ]

ASSUME LogisticsConstantsOK ==
  /\ Fees \subseteq [raw : Nat, min : Nat, max : Nat, mobility : Nat]
  /\ "none" \notin Legs /\ NoCall \notin LegCall

LogisticsInit ==
  /\ leg = [l \in Legs |-> NoLeg] /\ held = [l \in Legs |-> "none"]
  /\ repPaid = [l \in Legs |-> 0] /\ refunded = [l \in Legs |-> 0]
  /\ legRaced = {}

(* clamp of transport.service.ts: at least min, at most max if there is one. *)
Clamp(raw, min, max) ==
  LET v == IF raw < min THEN min ELSE raw
  IN IF max > 0 /\ v > max THEN max ELSE v

(* createLeg: priced, its mobility fee on top, unpaid.                     *)
NewLeg(l, flow, roundTrip, vendorAsks, parent, fee) ==
  leg' = [leg EXCEPT ![l] =
            [status |-> "pending_payment", flow |-> flow, roundTrip |-> roundTrip,
             vendorAsks |-> vendorAsks, parent |-> parent,
             transport |-> Clamp(fee.raw, fee.min, fee.max),
             total |-> Clamp(fee.raw, fee.min, fee.max) + fee.mobility,
             platform |-> 0]]

(* createDelivery, createCollect and createRoundTrip of a vendor,          *)
(* createCustomerCollect of a customer.                                    *)
CreateLeg(l, flow, roundTrip, vendorAsks, fee) ==
  /\ OneStep
  /\ leg[l].status = "none"
  /\ roundTrip => flow = "collect"
  /\ flow = "collect" => vendorAsks
  /\ NewLeg(l, flow, roundTrip, vendorAsks, "none", fee)
  /\ UNCHANGED <<held, repPaid, refunded, legRaced>>

(* A handler loads the leg and checks it.                                  *)
Load(p, l, pc) ==
  /\ Begin(p, [pc |-> pc, leg |-> l, row |-> leg[l]])
  /\ UNCHANGED logisticsVars

(* confirmPayment, a rep accepting, repPickedUp, repDelivered, cancelOrder *)
(* by the owner, completeOrder by the owner or an admin.                   *)
Handle(p, l, pc) == leg[l].status \in Handlers[pc] /\ Load(p, l, pc)

(* markReadyToDeliver: the delivery leg of a round trip, if there is none; *)
(* two requests may both find none.                                        *)
MarkReadyToDeliver(p, l) ==
  /\ leg[l].status # "none" /\ leg[l].flow = "collect" /\ leg[l].roundTrip
  /\ \A m \in Legs : leg[m].parent # l
  /\ Load(p, l, "spawn")

Spawn(p, m, fee) ==
  /\ At(p, "spawn") /\ leg[m].status = "none"
  /\ NewLeg(m, "delivery", FALSE, TRUE, call[p].leg, fee)
  /\ legRaced' = IF \E k \in Legs : leg[k].parent = call[p].leg
                 THEN legRaced \cup {call[p].leg} ELSE legRaced
  /\ End(p)
  /\ UNCHANGED <<held, repPaid, refunded>>

(* The copy is saved over whatever the row has become.                     *)
SaveLeg(p, row) ==
  LET l == call[p].leg
  IN /\ leg' = [leg EXCEPT ![l] = row]
     /\ legRaced' = IF leg[l] # call[p].row THEN legRaced \cup {l} ELSE legRaced

Saved(p, status) == SaveLeg(p, [call[p].row EXCEPT !.status = status])

(* The debit, the escrow row and the status commit together; the escrow's  *)
(* order_id is unique.                                                     *)
PayLeg(p) ==
  /\ At(p, "pay")
  /\ IF held[call[p].leg] # "none" THEN UNCHANGED logisticsVars
     ELSE /\ held' = [held EXCEPT ![call[p].leg] = "held"]
          /\ Saved(p, "paid")
          /\ UNCHANGED <<repPaid, refunded>>
  /\ End(p)

ScheduleLeg(p) ==
  /\ At(p, "schedule") /\ Saved(p, "scheduled") /\ End(p)
  /\ UNCHANGED <<held, repPaid, refunded>>

RepPickedUp(p) ==
  /\ At(p, "pickUp") /\ Saved(p, "picked_up") /\ End(p)
  /\ UNCHANGED <<held, repPaid, refunded>>

(* repDelivered saves DELIVERED, then completes the order.                 *)
RepDelivered(p) ==
  /\ At(p, "deliver") /\ Saved(p, "delivered") /\ Goto(p, "complete")
  /\ UNCHANGED <<held, repPaid, refunded>>

(* Mutant of CancelLeg: a paid leg is cancelled like a draft.              *)
CancelUnrefunded(p) ==
  /\ At(p, "cancel") /\ Saved(p, "cancelled") /\ End(p)
  /\ UNCHANGED <<held, repPaid, refunded>>

(* cancelOrder: a leg that was paid when it was read is refunded; refund,  *)
(* escrow and status commit together.                                      *)
CancelLeg(p) ==
  /\ At(p, "cancel")
  /\ LET l == call[p].leg
     IN IF call[p].row.status = "pending_payment" THEN UNCHANGED <<held, refunded>>
        ELSE /\ held' = [held EXCEPT ![l] = "refunded"]
             /\ refunded' = [refunded EXCEPT ![l] = @ + call[p].row.total]
  /\ Saved(p, "cancelled") /\ End(p)
  /\ UNCHANGED repPaid

(* completeOrder: the status on a copy read without a lock.                *)
ReadLeg(p) ==
  /\ At(p, "complete")
  /\ LET now == leg[call[p].leg]
     IN IF now.status = "delivered"
        THEN GotoState(p, [call[p] EXCEPT !.pc = "payRep", !.row = now]) ELSE End(p)
  /\ UNCHANGED logisticsVars

(* settleLogisticsLeg: the rep's credit is made outside the transaction    *)
(* that releases the escrow and completes the order.                       *)
PayRep(p) ==
  /\ At(p, "payRep")
  /\ LET l == call[p].leg
     IN /\ repPaid' = [repPaid EXCEPT ![l] = @ + call[p].row.transport]
        /\ legRaced' = IF repPaid[l] > 0 THEN legRaced \cup {l} ELSE legRaced
  /\ Goto(p, "settle")
  /\ UNCHANGED <<leg, held, refunded>>

Completes(p, platform) ==
  /\ At(p, "settle")
  /\ held' = [held EXCEPT ![call[p].leg] = "released"]
  /\ SaveLeg(p, [call[p].row EXCEPT !.status = "completed", !.platform = platform])
  /\ End(p)
  /\ UNCHANGED <<repPaid, refunded>>

(* Mutant of SettleLeg: the platform keeps the rep's part too.             *)
SettleWholeLeg(p) == Completes(p, call[p].row.total)

SettleLeg(p) == Completes(p, call[p].row.total - call[p].row.transport)

LegStep(p) ==
  \/ PayLeg(p) \/ ScheduleLeg(p) \/ RepPickedUp(p) \/ RepDelivered(p) \/ CancelLeg(p)
  \/ ReadLeg(p) \/ PayRep(p) \/ SettleLeg(p)
  \/ \E m \in Legs, fee \in Fees : Spawn(p, m, fee)

LogisticsNext ==
  \/ \E l \in Legs, flow \in {"delivery", "collect"}, r, v \in BOOLEAN, fee \in Fees :
       CreateLeg(l, flow, r, v, fee)
  \/ \E p \in Procs :
       \/ \E l \in Legs : MarkReadyToDeliver(p, l) \/ \E pc \in DOMAIN Handlers : Handle(p, l, pc)
       \/ LegStep(p)
       \/ Dies(p) /\ UNCHANGED logisticsVars

LogisticsSpec == RequestsInit /\ LogisticsInit /\ [][LogisticsNext]_<<logisticsVars, requestVars>>

-----------------------------------------------------------------------------
LogisticsTypeOK ==
  /\ leg \in [Legs -> Leg]
  /\ held \in [Legs -> {"none", "held", "refunded", "released"}]
  /\ repPaid \in [Legs -> Nat] /\ refunded \in [Legs -> Nat]
  /\ legRaced \subseteq Legs

(* Nothing is paid to a rep or back to the owner of a leg that was never   *)
(* charged.  Of a leg no outdated copy was saved over and no rep was paid  *)
(* for twice: a completed one is split between rep and platform without    *)
(* rest, the mobility fee being the platform's; a cancelled one is         *)
(* refunded in full if it had been charged, and its rep gets nothing; any  *)
(* other has refunded nothing, and paid a rep only when delivered.  And a  *)
(* round trip not extended twice is charged one delivery leg.              *)
LegMoneyAddsUp ==
  \A l \in Legs :
    /\ repPaid[l] + refunded[l] > 0 => held[l] # "none"
    /\ l \notin legRaced =>
         /\ CASE leg[l].status = "completed" ->
                    /\ held[l] = "released" /\ refunded[l] = 0
                    /\ leg[l].total = repPaid[l] + leg[l].platform
              [] leg[l].status = "cancelled" ->
                    /\ repPaid[l] = 0 /\ held[l] \in {"none", "refunded"}
                    /\ refunded[l] = IF held[l] = "none" THEN 0 ELSE leg[l].total
              [] OTHER ->
                    /\ refunded[l] = 0 /\ held[l] \in {"none", "held"}
                    /\ leg[l].status # "delivered" => repPaid[l] = 0
         /\ Cardinality({m \in Legs : leg[m].parent = l}) <= 1
==============================================================================
