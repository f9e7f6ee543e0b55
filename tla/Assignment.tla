------------------------------ MODULE Assignment ------------------------------
(***************************************************************************)
(* How a paid order gets a rep and then a vendor (assignment.service.ts):  *)
(* offers are broadcast in batches, a rep or vendor accepts or declines,   *)
(* the window of a batch ends, the expireAssignmentBroadcasts cron opens   *)
(* the next batch, an admin assigns by hand, the customer cancels.         *)
(*                                                                         *)
(* One order: offers of different orders meet only in the scoring of the   *)
(* candidates, which is any choice here.  Handlers are split at their      *)
(* awaits as in OrderSettlement: req[p] is where request p is and what it  *)
(* has loaded, and saving a loaded row overwrites the row.                 *)
(***************************************************************************)
EXTENDS Integers, Sequences, FiniteSets, OrderStatus

CONSTANTS
  Reps, Vendors,   \* ids of rep and vendor profiles
  None,            \* a column that is null
  Kinds,           \* which of the kinds below an order may have
  ChosenVendor,    \* orders.chosen_vendor_id of an order of kind "choose"
  BatchSize,       \* ASSIGNMENT_BROADCAST_N
  Procs, NoRequest,
  Ops,             \* operations that may be called
  MaxFailures      \* bound: requests that die between two awaits

Types == {"rep", "vendor"}

(* "choose": allocationMode = 'choose'; "logistics": isLogisticsFlow.      *)
AllKinds == {"laundry", "choose", "logistics"}

Order == [ status : Status, kind : AllKinds,
           rep : Reps \cup {None}, vendor : Vendors \cup {None} ]

(* A row of assignment_broadcasts; its index in offers is its id.  window  *)
(* numbers the expires_at of the type in the order of time.                *)
Offer == [ type : Types, to : Reps \cup Vendors, batch : Nat \ {0}, window : Nat \ {0},
           status : {"pending", "accepted", "declined", "expired", "cancelled"} ]

Pc == { "start", "transition", "save", "startVendor", "broadcast", "insert",
        "accept.order", "accept.offer", "accept.cancel", "decline.save",
        "decline.count", "decline.advance", "expire", "regroup", "cancel" }

(* What a handler goes on with after its "save" step.                      *)
Then == {"done", "broadcast", "startVendor", "schedule"}

(* to: target of transition(); offer: the offer answered; todo: candidates *)
(* not offered yet; ids: offers to expire; groups: batches to open next.   *)
Request == [ pc : Pc, type : Types, row : Order, to : Status, then : Then,
             offer : Nat, batch : Nat \ {0}, window : Nat \ {0}, todo : SUBSET (Reps \cup Vendors),
             ids : SUBSET Nat, groups : [Types -> Nat] ]

ASSUME AssignmentConstants ==
  /\ None \notin Reps \cup Vendors
  /\ Kinds \subseteq AllKinds
  /\ ChosenVendor \in Vendors
  /\ BatchSize \in Nat \ {0}
  /\ NoRequest \notin Request
  /\ MaxFailures \in Nat

VARIABLES
  order,      \* the row of orders
  offers,     \* the rows of assignment_broadcasts
  lapsed,     \* per type, the last window that is over
  escalated,  \* types whose broadcast found nobody and was left to an admin
  req,        \* in-flight requests
  failures    \* requests that have died so far

rows == <<order, offers, lapsed, escalated>>
vars == <<order, offers, lapsed, escalated, req, failures>>

(* A paid order nobody was asked about.                                    *)
Init ==
  /\ order \in {[status |-> "PAID", kind |-> k, rep |-> None, vendor |-> None] : k \in Kinds}
  /\ offers = <<>>
  /\ lapsed = [t \in Types |-> 0]
  /\ escalated = {}
  /\ req = [p \in Procs |-> NoRequest]
  /\ failures = 0

-----------------------------------------------------------------------------
Party(t) == IF t = "rep" THEN Reps ELSE Vendors
Broadcasting(t) == IF t = "rep" THEN "BROADCASTING_REP" ELSE "BROADCASTING_VENDOR"

OffersOf(t)  == {i \in DOMAIN offers : offers[i].type = t}
PendingOf(t) == {i \in OffersOf(t) : offers[i].status = "pending"}
Lapsed(i)    == offers[i].window <= lapsed[offers[i].type]

(* The greatest of a set of numbers, as a set.                             *)
Latest(N) == {n \in N : \A m \in N : m <= n}

(* The rows of offers with the status of those in S set to s.              *)
Marked(S, s) == [i \in DOMAIN offers |->
                   IF i \in S THEN [offers[i] EXCEPT !.status = s] ELSE offers[i]]

At(p, pc) == req[p] # NoRequest /\ req[p].pc = pc
Callable(p, op) == req[p] = NoRequest /\ op \in Ops
Enter(p, r) == req' = [req EXCEPT ![p] = r]
Finish(p)   == Enter(p, NoRequest)
Goto(p, pc) == Enter(p, [req[p] EXCEPT !.pc = pc])

NoGroups == [t \in Types |-> 0]
NoRow    == [status |-> "PAID", kind |-> "laundry", rep |-> None, vendor |-> None]

Fresh(pc, t) ==
  [pc |-> pc, type |-> t, row |-> NoRow, to |-> "PAID", then |-> "done", offer |-> 0,
   batch |-> 1, window |-> 1, todo |-> {}, ids |-> {}, groups |-> NoGroups]

(* About to run transition(to), then to open the first batch of type t.    *)
Moving(t, to, then) == [Fresh("transition", t) EXCEPT !.to = to, !.then = then]

(* About to save row.                                                      *)
Saving(t, row, then) == [Fresh("save", t) EXCEPT !.row = row, !.then = then]

(* The cron goes on to its next group, any other handler ends.             *)
Leave(p) == IF req[p].groups = NoGroups THEN Finish(p) ELSE Goto(p, "regroup")

-----------------------------------------------------------------------------
(* Writes of the order row.                                                *)

Save(p) ==
  /\ At(p, "save")
  /\ LET r == req[p] IN
       /\ order' = r.row
       /\ CASE r.then = "done"     -> Finish(p)
            [] r.then = "schedule" -> Enter(p, Moving(r.type, "SCHEDULED", "done"))
            [] OTHER               -> Enter(p, Fresh(r.then, r.type))
  /\ UNCHANGED <<offers, lapsed, escalated, failures>>

(* transition(): findOne and the state-machine guard.                      *)
TransitionRead(p) ==
  /\ At(p, "transition")
  /\ LET r == req[p] IN
       IF r.to \in Allowed(order.status) \cup {order.status}
         THEN Enter(p, Saving(r.type, [order EXCEPT !.status = r.to], r.then))
         ELSE Finish(p)
  /\ UNCHANGED <<rows, failures>>

(* adminAssignRep and adminAssignVendor: open offers are left as they are, *)
(* and a rep's assignment does not start the search for a vendor.          *)
Assignable(t) ==
  IF t = "rep" THEN {"PAID", "BROADCASTING_REP", "REP_ASSIGNED"}
               ELSE {"REP_ASSIGNED", "BROADCASTING_VENDOR", "VENDOR_ASSIGNED"}

AdminAssign(p, t, x) ==
  /\ Callable(p, "admin")
  /\ order.status \in Assignable(t)
  /\ Enter(p, IF t = "rep"
                THEN Saving(t, [order EXCEPT !.rep = x, !.status = "REP_ASSIGNED"], "done")
                ELSE Saving(t, [order EXCEPT !.vendor = x, !.status = "VENDOR_ASSIGNED"], "schedule"))
  /\ UNCHANGED <<rows, failures>>

(* repTransition on the way to the customer.                               *)
RepTransition(p) ==
  /\ Callable(p, "pickup")
  /\ \E to \in {"REP_EN_ROUTE_PICKUP", "PICKED_UP"}
             \cap (Allowed(order.status) \cup {order.status}) :
       Enter(p, Moving("rep", to, "done"))
  /\ UNCHANGED <<rows, failures>>

(* cancelOrder: guard on a copy; the commit saves it and kills the offers. *)
Cancel(p) ==
  /\ Callable(p, "cancel")
  /\ order.status \in Cancellable
  /\ Enter(p, [Fresh("cancel", "rep") EXCEPT !.row = [order EXCEPT !.status = "CANCELLED"]])
  /\ UNCHANGED <<rows, failures>>

(* Mutant of CancelCommit: the offers stay open.                           *)
CancelKeepsOffers(p) ==
  /\ At(p, "cancel")
  /\ order' = req[p].row
  /\ Finish(p)
  /\ UNCHANGED <<offers, lapsed, escalated, failures>>

CancelCommit(p) ==
  /\ At(p, "cancel")
  /\ order' = req[p].row
  /\ offers' = Marked(PendingOf("rep") \cup PendingOf("vendor"), "cancelled")
  /\ Finish(p)
  /\ UNCHANGED <<lapsed, escalated, failures>>

-----------------------------------------------------------------------------
(* Starting, and broadcasting a batch.                                     *)

(* startRepAssignment after a payment or by an admin.                      *)
StartRep(p) ==
  /\ Callable(p, "start")
  /\ order.status = "PAID"
  /\ Enter(p, Moving("rep", "BROADCASTING_REP", "broadcast"))
  /\ UNCHANGED <<rows, failures>>

(* sweepStalePaidOrders, whose startRepAssignment loads the order again.   *)
SweepPaid(p) ==
  /\ Callable(p, "start")
  /\ order.status = "PAID" /\ OffersOf("rep") = {}
  /\ Enter(p, Fresh("start", "rep"))
  /\ UNCHANGED <<rows, failures>>

StartSwept(p) ==
  /\ At(p, "start")
  /\ IF order.status = "PAID"
       THEN Enter(p, Moving("rep", "BROADCASTING_REP", "broadcast"))
       ELSE Finish(p)
  /\ UNCHANGED <<rows, failures>>

(* startVendorAssignment: the status of the row just loaded is not looked  *)
(* at when it is scheduled or a usable chosen vendor is pinned.            *)
StartVendor(p) ==
  /\ At(p, "startVendor")
  /\ \/ /\ order.kind = "logistics"
        /\ Enter(p, Saving("vendor", [order EXCEPT !.status = "SCHEDULED"], "done"))
     \/ /\ order.kind = "choose"
        /\ Enter(p, Saving("vendor", [order EXCEPT !.vendor = ChosenVendor,
                                                   !.status = "VENDOR_ASSIGNED"], "schedule"))
     \/ /\ order.kind # "logistics"
        /\ Enter(p, Moving("vendor", "BROADCASTING_VENDOR", "broadcast"))
  /\ UNCHANGED <<rows, failures>>

Notified(t) == {offers[i].to : i \in OffersOf(t)}

(* The latest window of type t so far.                                     *)
LastWindow(t) == Latest({lapsed[t]} \cup {offers[i].window : i \in OffersOf(t)})

(* broadcastReps, broadcastVendors: the best BatchSize of the available    *)
(* candidates never notified, of this area or else an adjacent one.        *)
Broadcast(p) ==
  /\ At(p, "broadcast")
  /\ LET r == req[p] IN
       \E S \in SUBSET (Party(r.type) \ Notified(r.type)) :
         /\ S # {}
         /\ Cardinality(S) <= BatchSize
         /\ \E w \in LastWindow(r.type) :
              Enter(p, [r EXCEPT !.pc = "insert", !.todo = S, !.window = w + 1])
  /\ UNCHANGED <<rows, failures>>

(* Nobody is available: an admin is asked to assign.                       *)
Escalate(p) ==
  /\ At(p, "broadcast")
  /\ escalated' = escalated \cup {req[p].type}
  /\ Leave(p)
  /\ UNCHANGED <<order, offers, lapsed, failures>>

NewOffer(r, x) ==
  [type |-> r.type, to |-> x, batch |-> r.batch, window |-> r.window, status |-> "pending"]

(* One row is inserted after the other.                                    *)
Insert(p) ==
  /\ At(p, "insert")
  /\ LET r == req[p] IN
       \E x \in r.todo :
         /\ offers' = Append(offers, NewOffer(r, x))
         /\ IF r.todo = {x} THEN Leave(p)
                            ELSE Enter(p, [r EXCEPT !.todo = @ \ {x}])
  /\ UNCHANGED <<order, lapsed, escalated, failures>>

-----------------------------------------------------------------------------
(* repAccepts, vendorAccepts.                                              *)

(* Find one's own pending offer whose window is open.                      *)
Accept(p, i) ==
  /\ Callable(p, "accept")
  /\ i \in PendingOf(offers[i].type)
  /\ ~Lapsed(i)
  /\ Enter(p, [Fresh("accept.order", offers[i].type) EXCEPT !.offer = i])
  /\ UNCHANGED <<rows, failures>>

AcceptOrder(p) ==
  /\ At(p, "accept.order")
  /\ LET r == req[p] IN
       IF order.status = Broadcasting(r.type)
         THEN Enter(p, [r EXCEPT !.pc = "accept.offer", !.row = order])
         ELSE Finish(p)
  /\ UNCHANGED <<rows, failures>>

AcceptOffer(p) ==
  /\ At(p, "accept.offer")
  /\ offers' = Marked({req[p].offer}, "accepted")
  /\ Goto(p, "accept.cancel")
  /\ UNCHANGED <<order, lapsed, escalated, failures>>

(* Cancel the other pending offers; the copy of the order is saved next.   *)
AcceptCancel(p) ==
  /\ At(p, "accept.cancel")
  /\ LET r == req[p]
         x == offers[r.offer].to IN
       /\ offers' = Marked(PendingOf(r.type) \ {r.offer}, "cancelled")
       /\ Enter(p, IF r.type = "rep"
            THEN Saving("vendor", [r.row EXCEPT !.rep = x, !.status = "REP_ASSIGNED"], "startVendor")
            ELSE Saving("vendor", [r.row EXCEPT !.vendor = x, !.status = "VENDOR_ASSIGNED"], "schedule"))
  /\ UNCHANGED <<order, lapsed, escalated, failures>>

-----------------------------------------------------------------------------
(* repDeclines, vendorDeclines, advanceBatchIfExhausted.                   *)

Decline(p, i) ==
  /\ Callable(p, "decline")
  /\ i \in PendingOf(offers[i].type)
  /\ Enter(p, [Fresh("decline.save", offers[i].type)
                 EXCEPT !.offer = i, !.batch = offers[i].batch + 1])
  /\ UNCHANGED <<rows, failures>>

DeclineSave(p) ==
  /\ At(p, "decline.save")
  /\ offers' = Marked({req[p].offer}, "declined")
  /\ Goto(p, "decline.count")
  /\ UNCHANGED <<order, lapsed, escalated, failures>>

DeclineCount(p) ==
  /\ At(p, "decline.count")
  /\ IF PendingOf(req[p].type) = {} THEN Goto(p, "decline.advance") ELSE Finish(p)
  /\ UNCHANGED <<rows, failures>>

DeclineAdvance(p) ==
  /\ At(p, "decline.advance")
  /\ IF order.status = Broadcasting(req[p].type) THEN Goto(p, "broadcast") ELSE Finish(p)
  /\ UNCHANGED <<rows, failures>>

-----------------------------------------------------------------------------
(* expireAssignmentBroadcasts.                                             *)

(* The oldest open window of type t ends.                                  *)
Lapse(t) ==
  /\ \E i \in OffersOf(t) : ~Lapsed(i)
  /\ lapsed' = [lapsed EXCEPT ![t] = @ + 1]
  /\ UNCHANGED <<order, offers, escalated, req, failures>>

(* The batch that follows the last of those in S, by type.                 *)
NextBatches(S) ==
  {g \in [Types -> {0} \cup {offers[i].batch + 1 : i \in S}] :
     \A t \in Types :
       IF S \cap OffersOf(t) = {}
         THEN g[t] = 0
         ELSE g[t] - 1 \in Latest({offers[i].batch : i \in S \cap OffersOf(t)})}

Expired == {i \in PendingOf("rep") \cup PendingOf("vendor") : Lapsed(i)}

(* Mutant of Expire: the query is restricted to reps.                      *)
ExpireReps(p) ==
  /\ Callable(p, "expire")
  /\ Expired \cap OffersOf("rep") # {}
  /\ \E g \in NextBatches(Expired \cap OffersOf("rep")) :
       Enter(p, [Fresh("expire", "rep")
                   EXCEPT !.ids = Expired \cap OffersOf("rep"), !.groups = g])
  /\ UNCHANGED <<rows, failures>>

Expire(p) ==
  /\ Callable(p, "expire")
  /\ Expired # {}
  /\ \E g \in NextBatches(Expired) :
       Enter(p, [Fresh("expire", "rep") EXCEPT !.ids = Expired, !.groups = g])
  /\ UNCHANGED <<rows, failures>>

(* Mutants of ExpireSave: the copy is saved as it was found, to be offered *)
(* again; the offers expire and no batch follows.                          *)
ExpireRenew(p) ==
  /\ At(p, "expire")
  /\ \E i \in req[p].ids :
       /\ offers' = Marked({i}, "pending")
       /\ Enter(p, [req[p] EXCEPT !.ids = @ \ {i},
                                  !.pc = IF req[p].ids = {i} THEN "regroup" ELSE "expire"])
  /\ UNCHANGED <<order, lapsed, escalated, failures>>

ExpireOnly(p) ==
  /\ At(p, "expire")
  /\ offers' = Marked(req[p].ids, "expired")
  /\ Finish(p)
  /\ UNCHANGED <<order, lapsed, escalated, failures>>

ExpireSave(p) ==
  /\ At(p, "expire")
  /\ \E i \in req[p].ids :
       /\ offers' = Marked({i}, "expired")
       /\ Enter(p, [req[p] EXCEPT !.ids = @ \ {i},
                                  !.pc = IF req[p].ids = {i} THEN "regroup" ELSE "expire"])
  /\ UNCHANGED <<order, lapsed, escalated, failures>>

(* One group after the other, whatever the status of the order.            *)
Regroup(p) ==
  /\ At(p, "regroup")
  /\ LET r == req[p] IN
       \E t \in Types :
         /\ r.groups[t] # 0
         /\ Enter(p, [r EXCEPT !.pc = "broadcast", !.type = t, !.batch = r.groups[t],
                               !.groups[t] = 0])
  /\ UNCHANGED <<rows, failures>>

-----------------------------------------------------------------------------
(* A request dies between two awaits; the cron survives a broadcast that   *)
(* throws and goes on to its next group.                                   *)
Fail(p) ==
  /\ req[p] # NoRequest
  /\ failures < MaxFailures
  /\ failures' = failures + 1
  /\ \/ Finish(p)
     \/ req[p].pc \in {"broadcast", "insert"} /\ Leave(p)
  /\ UNCHANGED rows

Start(p) ==
  \/ StartRep(p) \/ SweepPaid(p) \/ RepTransition(p) \/ Cancel(p) \/ Expire(p)
  \/ \E t \in Types : \E x \in Party(t) : AdminAssign(p, t, x)
  \/ \E i \in DOMAIN offers : Accept(p, i) \/ Decline(p, i)

Step(p) ==
  \/ Save(p) \/ TransitionRead(p) \/ CancelCommit(p) \/ StartSwept(p) \/ StartVendor(p)
  \/ Broadcast(p) \/ Escalate(p) \/ Insert(p) \/ AcceptOrder(p) \/ AcceptOffer(p)
  \/ AcceptCancel(p) \/ DeclineSave(p) \/ DeclineCount(p) \/ DeclineAdvance(p)
  \/ ExpireSave(p) \/ Regroup(p)

Next ==
  \/ \E p \in Procs : Start(p) \/ Step(p) \/ Fail(p)
  \/ \E t \in Types : Lapse(t)

Spec == Init /\ [][Next]_vars

(* Handlers are resumed, time passes, the crons tick for ever (strongly:   *)
(* they do not compete with requests for a slot).                          *)
FairSpec ==
  /\ Spec
  /\ \A p \in Procs : WF_vars(Step(p))
  /\ \A t \in Types : WF_vars(Lapse(t))
  /\ SF_vars(\E p \in Procs : SweepPaid(p))
  /\ SF_vars(\E p \in Procs : Expire(p))

-----------------------------------------------------------------------------
(* Properties under any interleaving.                                      *)

(* Rows and in-flight requests stay within their types.                    *)
TypeOK ==
  /\ order \in Order
  /\ offers \in Seq(Offer)
  /\ lapsed \in [Types -> Nat]
  /\ escalated \subseteq Types
  /\ req \in [Procs -> Request \cup {NoRequest}]
  /\ failures \in Nat

HasRep    == { "REP_ASSIGNED", "BROADCASTING_VENDOR", "VENDOR_ASSIGNED", "SCHEDULED",
               "REP_EN_ROUTE_PICKUP", "PICKED_UP" }
HasVendor == {"VENDOR_ASSIGNED", "SCHEDULED", "REP_EN_ROUTE_PICKUP", "PICKED_UP"}

Known(row) ==
  /\ row.kind = "laundry" /\ row.status \in HasRep => row.rep # None
  /\ row.kind # "logistics" /\ row.status \in HasVendor => row.vendor # None

(* The status of an order never runs ahead of its columns: a rep is known  *)
(* from REP_ASSIGNED on and a vendor from VENDOR_ASSIGNED on, whichever    *)
(* copies of the row overwrite each other.  Only a broadcast order's rep   *)
(* is certain: startVendorAssignment pins and schedules the other kinds    *)
(* on a row it does not check, which a late cancellation may have emptied. *)
PartyKnown == Known(order)

(* An order is never PAID and offered to reps, so sweepStalePaidOrders,    *)
(* which skips orders that have offers, never passes over a stuck one.     *)
PaidHasNoOffers == order.status = "PAID" => offers = <<>>

(* An answered, expired or cancelled offer is never open again, though     *)
(* handlers and the cron save rows they loaded while it was pending.       *)
ResolvedStaysResolved ==
  [][\A i \in DOMAIN offers : offers[i].status # "pending" => offers'[i].status # "pending"]_vars

-----------------------------------------------------------------------------
(* Properties when requests do not overlap.                                *)

Idle == \A p \in Procs : req[p] = NoRequest

(* Between requests, an order that is being broadcast has an open offer or *)
(* was escalated, and a cancelled one has no open offer.  Nobody is offered*)
(* the order twice, and a batch is opened only when every offer of the one *)
(* before is resolved.                                                     *)
OffersFollowOrder ==
  /\ Idle =>
       /\ \A t \in Types : order.status = Broadcasting(t) => PendingOf(t) # {} \/ t \in escalated
       /\ order.status = "CANCELLED" => PendingOf("rep") \cup PendingOf("vendor") = {}
  /\ \A i, j \in DOMAIN offers :
       offers[i].type = offers[j].type /\ offers[i].to = offers[j].to => i = j
  /\ \A t \in Types : \A i, j \in PendingOf(t) : offers[i].batch = offers[j].batch

(* A broadcast ends: somebody is assigned, the order is cancelled or an    *)
(* admin is asked, because batches lapse and the candidates are finite.    *)
AssignmentProceeds ==
  \A t \in Types : order.status = Broadcasting(t)
                     ~> order.status # Broadcasting(t) \/ t \in escalated

(* No offer stays open for ever.                                           *)
OffersAreResolved == []<>(PendingOf("rep") \cup PendingOf("vendor") = {})
===============================================================================
