--------------------------- MODULE AssignmentProofs ---------------------------
(***************************************************************************)
(* Proofs about Assignment, for any number of reps, vendors and requests   *)
(* in flight, any batch size, and failures at every await.  They use       *)
(* neither the bound on failures nor Ops.  The last part is about requests *)
(* that do not overlap and do not die: open offers follow the order, and   *)
(* each role is accepted once.                                             *)
(***************************************************************************)
EXTENDS Assignment, SequenceTheorems, FiniteSetTheorems, TLAPS

-----------------------------------------------------------------------------
(* The inductive invariant.  A request in flight agrees with the rows: the *)
(* copy it will save knows its parties and is not PAID, the offer it       *)
(* answers exists, and behind a request that is past its first look at the *)
(* order, the order is not PAID any more.                                  *)

Saves   == {"save", "cancel", "accept.offer", "accept.cancel"}
Answers == {"accept.order", "accept.offer", "accept.cancel", "decline.save"}
Early   == {"start", "transition", "save", "cancel"}
Targets == { "BROADCASTING_REP", "BROADCASTING_VENDOR", "SCHEDULED",
             "REP_EN_ROUTE_PICKUP", "PICKED_UP" }

Agrees(r, o, os) ==
  /\ r.pc \in Saves => /\ r.row.status # "PAID"
                       /\ r.row.kind = o.kind
                       /\ Known(r.row)
  /\ r.pc \in {"accept.offer", "accept.cancel"} => r.row.status = Broadcasting(r.type)
  /\ r.pc \in Answers => r.offer \in DOMAIN os /\ os[r.offer].type = r.type
  /\ r.pc = "transition" => r.to \in Targets
  /\ r.pc \notin Early => o.status # "PAID"
  /\ r.pc = "insert" => r.todo \subseteq Party(r.type)

OffersToParties == \A i \in DOMAIN offers : offers[i].to \in Party(offers[i].type)

RequestsAgree ==
  \A p \in Procs : req[p] # NoRequest => Agrees(req[p], order, offers)

IInv == /\ TypeOK
        /\ PartyKnown
        /\ PaidHasNoOffers
        /\ OffersToParties
        /\ RequestsAgree

-----------------------------------------------------------------------------
(* The records the actions build.                                          *)

LEMMA NoRowType == NoRow \in Order /\ "PAID" \in Status
  BY DEF NoRow, Order, Status, AllKinds

LEMMA FreshFields ==
  ASSUME NEW pc \in Pc, NEW t \in Types
  PROVE  LET r == Fresh(pc, t) IN
         /\ r \in Request /\ r.pc = pc /\ r.type = t /\ r.todo = {}
         /\ r.groups = NoGroups
  BY NoRowType DEF Fresh, Request, NoGroups, Then

LEMMA WithField ==
  ASSUME NEW r \in Request
  PROVE  /\ \A to \in Status : /\ [r EXCEPT !.to = to] \in Request
                              /\ [r EXCEPT !.to = to].to = to
         /\ \A row \in Order : /\ [r EXCEPT !.row = row] \in Request
                               /\ [r EXCEPT !.row = row].row = row
         /\ \A then \in Then : [r EXCEPT !.then = then] \in Request
  BY DEF Request

LEMMA MovingFields ==
  ASSUME NEW t \in Types, NEW to \in Status, NEW then \in Then
  PROVE  LET r == Moving(t, to, then) IN
         /\ r \in Request /\ r.pc = "transition" /\ r.to = to
         /\ r.type = t /\ r.then = then /\ r.groups = NoGroups
  <1> DEFINE f == Fresh("transition", t)
             g == [f EXCEPT !.to = to]
  <1>1. f \in Request /\ f.pc = "transition" /\ f.type = t /\ f.groups = NoGroups
    BY FreshFields DEF Pc
  <1>2. g \in Request /\ g.pc = "transition" /\ g.to = to /\ g.type = t /\ g.groups = NoGroups
    BY <1>1, WithField DEF Request
  <1>3. Moving(t, to, then) = [g EXCEPT !.then = then]
    BY DEF Moving
  <1> HIDE DEF f, g
  <1>4. [g EXCEPT !.then = then] \in Request
    BY <1>2, WithField
  <1>5. /\ \A c \in {"pc", "type", "to", "row", "groups"} : [g EXCEPT !.then = then][c] = g[c]
        /\ [g EXCEPT !.then = then].then = then
    BY <1>2 DEF Request
  <1> QED
    BY <1>2, <1>3, <1>4, <1>5

LEMMA SavingFields ==
  ASSUME NEW t \in Types, NEW row \in Order, NEW then \in Then
  PROVE  LET r == Saving(t, row, then) IN
         /\ r \in Request /\ r.pc = "save" /\ r.row = row
         /\ r.type = t /\ r.then = then /\ r.groups = NoGroups
  <1> DEFINE f == Fresh("save", t)
             g == [f EXCEPT !.row = row]
  <1>1. f \in Request /\ f.pc = "save" /\ f.type = t /\ f.groups = NoGroups
    BY FreshFields DEF Pc
  <1>2. g \in Request /\ g.pc = "save" /\ g.row = row /\ g.type = t /\ g.groups = NoGroups
    BY <1>1, WithField DEF Request
  <1>3. Saving(t, row, then) = [g EXCEPT !.then = then]
    BY DEF Saving
  <1> HIDE DEF f, g
  <1>4. [g EXCEPT !.then = then] \in Request
    BY <1>2, WithField
  <1>5. /\ \A c \in {"pc", "type", "to", "row", "groups"} : [g EXCEPT !.then = then][c] = g[c]
        /\ [g EXCEPT !.then = then].then = then
    BY <1>2 DEF Request
  <1> QED
    BY <1>2, <1>3, <1>4, <1>5

LEMMA OfferRows ==
  ASSUME offers \in Seq(Offer), NEW i \in DOMAIN offers
  PROVE  /\ i \in Nat \ {0} /\ offers[i] \in Offer
         /\ offers[i].type \in Types
         /\ offers[i].batch \in Nat \ {0} /\ offers[i].window \in Nat \ {0}
  <1>1. offers \in [1..Len(offers) -> Offer] /\ Len(offers) \in Nat
    BY SeqDef
  <1> QED
    BY <1>1 DEF Offer

(* The rows of offers after an update: same offers, none reopened.         *)
LEMMA MarkedRows ==
  ASSUME offers \in Seq(Offer), NEW S,
         NEW s \in {"accepted", "declined", "expired", "cancelled"}
  PROVE  /\ Marked(S, s) \in Seq(Offer)
         /\ DOMAIN Marked(S, s) = DOMAIN offers
         /\ \A i \in DOMAIN offers : /\ Marked(S, s)[i].type = offers[i].type
                                     /\ Marked(S, s)[i].to = offers[i].to
                                     /\ offers[i].status # "pending"
                                          => Marked(S, s)[i].status # "pending"
  <1>1. /\ offers \in [1..Len(offers) -> Offer]
        /\ Len(offers) \in Nat
        /\ DOMAIN offers = 1..Len(offers)
    BY SeqDef
  <1>2. Marked(S, s) \in [1..Len(offers) -> Offer]
    BY <1>1 DEF Marked, Offer
  <1>3. Marked(S, s) \in Seq(Offer)
    BY <1>1, <1>2, SeqDef
  <1> QED
    BY <1>1, <1>2, <1>3 DEF Marked, Offer

-----------------------------------------------------------------------------
(* What any step must show for IInv to survive it: p goes on with a        *)
(* request that agrees with the new rows or ends, no order turns PAID or   *)
(* changes kind, and offers are only added.                                *)
LEMMA StepKeepsIInv ==
  ASSUME IInv, NEW p \in Procs, NEW x, NEW o \in Order, NEW os \in Seq(Offer),
         req' = [req EXCEPT ![p] = x], order' = o, offers' = os,
         x = NoRequest \/ (x \in Request /\ Agrees(x, o, os)),
         o.kind = order.kind, Known(o),
         order.status # "PAID" => o.status # "PAID",
         o.status = "PAID" => os = <<>>,
         DOMAIN offers \subseteq DOMAIN os,
         \A i \in DOMAIN offers : os[i].type = offers[i].type,
         \A i \in DOMAIN os : os[i].to \in Party(os[i].type),
         lapsed' \in [Types -> Nat], escalated' \subseteq Types, failures' \in Nat
  PROVE  IInv'
  <1>1. TypeOK'
    BY DEF IInv, TypeOK
  <1>2. PartyKnown'
    BY DEF PartyKnown, Known, HasRep, HasVendor
  <1>3. PaidHasNoOffers' /\ OffersToParties'
    BY DEF PaidHasNoOffers, OffersToParties, Party
  <1>4. RequestsAgree'
    <2> SUFFICES ASSUME NEW q \in Procs, req'[q] # NoRequest
                 PROVE  Agrees(req'[q], o, os)
      BY DEF RequestsAgree, Agrees, Known, Broadcasting, Party
    <2>1. CASE q = p
      BY <2>1 DEF IInv, TypeOK
    <2>2. CASE q # p
      <3>1. req'[q] = req[q] /\ Agrees(req[q], order, offers)
        BY <2>2 DEF IInv, TypeOK, RequestsAgree
      <3> QED
        BY <3>1 DEF Agrees
    <2> QED
      BY <2>1, <2>2
  <1> QED
    BY <1>1, <1>2, <1>3, <1>4 DEF IInv

(* A step that only moves p on.                                            *)
LEMMA EnterKeepsIInv ==
  ASSUME IInv, NEW p \in Procs, NEW x, Enter(p, x),
         x = NoRequest \/ (x \in Request /\ Agrees(x, order, offers)),
         UNCHANGED <<order, offers, lapsed>>,
         escalated' \subseteq Types, failures' \in Nat
  PROVE  IInv'
  BY StepKeepsIInv DEF IInv, TypeOK, PartyKnown, PaidHasNoOffers, OffersToParties, Enter

LEMMA FinishKeepsIInv ==
  ASSUME IInv, NEW p \in Procs, Finish(p), UNCHANGED <<order, offers, lapsed>>,
         escalated' \subseteq Types, failures' \in Nat
  PROVE  IInv'
  BY EnterKeepsIInv DEF Finish

LEMMA MovingKeepsIInv ==
  ASSUME IInv, NEW p \in Procs, NEW t \in Types, NEW to \in Targets, NEW then \in Then,
         Enter(p, Moving(t, to, then)), UNCHANGED <<rows, failures>>
  PROVE  IInv'
  <1>1. to \in Status
    BY DEF Targets, Status
  <1>2. /\ Moving(t, to, then) \in Request
        /\ Agrees(Moving(t, to, then), order, offers)
    BY <1>1, MovingFields DEF Agrees, Saves, Answers, Early
  <1> QED
    BY <1>2, EnterKeepsIInv DEF IInv, TypeOK, rows

(* A row of the right kind that knows its parties may be saved.            *)
LEMMA SavingAgrees ==
  ASSUME NEW t \in Types, NEW row \in Order, NEW then \in Then, NEW o, NEW os,
         row.status # "PAID", row.kind = o.kind, Known(row)
  PROVE  Saving(t, row, then) \in Request /\ Agrees(Saving(t, row, then), o, os)
  BY SavingFields DEF Agrees, Saves, Answers, Early

LEMMA SavingKeepsIInv ==
  ASSUME IInv, NEW p \in Procs, NEW t \in Types, NEW row \in Order, NEW then \in Then,
         row.status # "PAID", row.kind = order.kind, Known(row),
         Enter(p, Saving(t, row, then)), UNCHANGED <<rows, failures>>
  PROVE  IInv'
  BY SavingAgrees, EnterKeepsIInv DEF IInv, TypeOK, rows

(* A step of p's that goes on to pc, with no copy to save and nobody to    *)
(* answer, once the order is known not to be PAID.                         *)
LEMMA FreshAgrees ==
  ASSUME NEW pc \in Pc, NEW t \in Types, NEW o, NEW os,
         pc \notin Saves \cup Answers \cup {"transition"},
         pc = "start" \/ o.status # "PAID"
  PROVE  Fresh(pc, t) \in Request /\ Agrees(Fresh(pc, t), o, os)
  BY FreshFields DEF Agrees, Early, Saves

(* Facts about a request in flight.                                        *)
LEMMA InFlight ==
  ASSUME IInv, NEW p \in Procs, NEW pc, At(p, pc)
  PROVE  /\ req[p] \in Request /\ req[p].pc = pc /\ Agrees(req[p], order, offers)
         /\ pc \in Pc
  BY DEF At, IInv, TypeOK, RequestsAgree, Request

(* The steps that only advance the program counter.                        *)
LEMMA GotoKeepsIInv ==
  ASSUME IInv, NEW p \in Procs, req[p] # NoRequest, NEW pc \in Pc,
         pc \notin Saves \cup Answers \cup {"transition", "start", "insert"},
         order.status # "PAID", Goto(p, pc),
         UNCHANGED <<order, offers, lapsed>>, escalated' \subseteq Types, failures' \in Nat
  PROVE  IInv'
  <1>1. req[p] \in Request /\ Agrees(req[p], order, offers)
    BY DEF IInv, TypeOK, RequestsAgree
  <1> DEFINE x == [req[p] EXCEPT !.pc = pc]
  <1>2. x \in Request /\ Agrees(x, order, offers)
    BY <1>1 DEF Request, Agrees, Saves, Answers, Early
  <1> QED
    BY <1>2, EnterKeepsIInv DEF Goto

LEMMA LeaveKeepsIInv ==
  ASSUME IInv, NEW p \in Procs, req[p] # NoRequest, order.status # "PAID", Leave(p),
         UNCHANGED <<order, offers, lapsed>>, escalated' \subseteq Types, failures' \in Nat
  PROVE  IInv'
  <1>1. "regroup" \in Pc \ (Saves \cup Answers \cup {"transition", "start", "insert"})
    BY DEF Pc, Saves, Answers
  <1> QED
    BY <1>1, FinishKeepsIInv, GotoKeepsIInv DEF Leave

-----------------------------------------------------------------------------
LEMMA InitIInv == Init => IInv
  <1> SUFFICES ASSUME Init PROVE IInv
    OBVIOUS
  <1>1. TypeOK
    BY AssignmentConstants DEF Init, TypeOK, Order, Status
  <1>2. order.status = "PAID" /\ offers = <<>> /\ DOMAIN offers = {}
    BY DEF Init
  <1>3. PartyKnown /\ PaidHasNoOffers /\ OffersToParties
    BY <1>2 DEF PartyKnown, Known, HasRep, HasVendor, PaidHasNoOffers, OffersToParties
  <1>4. RequestsAgree
    BY DEF Init, RequestsAgree
  <1> QED
    BY <1>1, <1>3, <1>4 DEF IInv

-----------------------------------------------------------------------------
(* Writes of the order row.                                                *)

LEMMA SaveStep == IInv => \A p \in Procs : Save(p) => IInv'
  <1> SUFFICES ASSUME IInv, NEW p \in Procs, Save(p) PROVE IInv'
    OBVIOUS
  <1> DEFINE r == req[p]
  <1>1. /\ r \in Request /\ r.row \in Order /\ r.type \in Types /\ r.then \in Then
        /\ r.row.status # "PAID" /\ r.row.kind = order.kind /\ Known(r.row)
    BY InFlight DEF Save, Agrees, Saves, Request
  <1>2. PICK x : /\ req' = [req EXCEPT ![p] = x]
                 /\ x = NoRequest \/ (x \in Request /\ Agrees(x, r.row, offers))
    <2>1. CASE r.then = "done"
      BY <2>1 DEF Save, Finish, Enter
    <2>2. CASE r.then = "schedule"
      <3>1. "SCHEDULED" \in Status /\ "done" \in Then
        BY DEF Status, Then
      <3>2. Agrees(Moving(r.type, "SCHEDULED", "done"), r.row, offers)
        BY <1>1, <3>1, MovingFields DEF Agrees, Saves, Answers, Early, Targets
      <3>3. req' = [req EXCEPT ![p] = Moving(r.type, "SCHEDULED", "done")]
        BY <2>2 DEF Save, Enter
      <3> QED
        BY <1>1, <3>1, <3>2, <3>3, MovingFields
    <2>3. CASE r.then \in {"broadcast", "startVendor"}
      <3>1. r.then \in Pc \ (Saves \cup Answers \cup {"transition"})
        BY <2>3 DEF Pc, Saves, Answers
      <3>2. req' = [req EXCEPT ![p] = Fresh(r.then, r.type)]
        BY <2>3 DEF Save, Enter
      <3> QED
        BY <1>1, <3>1, <3>2, FreshAgrees
    <2> QED
      BY <1>1, <2>1, <2>2, <2>3 DEF Then
  <1> QED
    BY <1>1, <1>2, StepKeepsIInv DEF Save, IInv, TypeOK, OffersToParties, PaidHasNoOffers

LEMMA TransitionReadStep == IInv => \A p \in Procs : TransitionRead(p) => IInv'
  <1> SUFFICES ASSUME IInv, NEW p \in Procs, TransitionRead(p) PROVE IInv'
    OBVIOUS
  <1> DEFINE r == req[p]
  <1>1. r \in Request /\ r.type \in Types /\ r.then \in Then /\ r.to \in Targets
    BY InFlight DEF TransitionRead, Agrees, Request
  <1>2. CASE r.to \in Allowed(order.status) \cup {order.status}
    <2> DEFINE row == [order EXCEPT !.status = r.to]
    <2>1. order \in Order /\ Known(order)
      BY DEF IInv, TypeOK, PartyKnown
    <2>2. row \in Order /\ row.kind = order.kind /\ row.status = r.to
      BY <1>1, <2>1 DEF Order, Targets, Status
    <2>3. r.to \in HasRep => order.status \in HasRep
      BY <1>1, <1>2 DEF Targets, HasRep, Allowed
    <2>4. r.to \in HasVendor => order.status \in HasVendor
      BY <1>1, <1>2 DEF Targets, HasVendor, Allowed
    <2>5. Known(row)
      BY <2>1, <2>2, <2>3, <2>4 DEF Known, Order
    <2>6. row.status # "PAID"
      BY <1>1, <2>2 DEF Targets
    <2> QED
      BY <1>1, <1>2, <2>2, <2>5, <2>6, SavingKeepsIInv DEF TransitionRead
  <1>3. CASE r.to \notin Allowed(order.status) \cup {order.status}
    BY <1>3, FinishKeepsIInv DEF TransitionRead, IInv, TypeOK, rows
  <1> QED
    BY <1>2, <1>3

LEMMA AdminAssignStep ==
  IInv => \A p \in Procs, t \in Types : \A x \in Party(t) : AdminAssign(p, t, x) => IInv'
  <1> SUFFICES ASSUME IInv, NEW p \in Procs, NEW t \in Types, NEW x \in Party(t),
                      AdminAssign(p, t, x)
               PROVE  IInv'
    OBVIOUS
  <1>1. order \in Order /\ Known(order) /\ order.status \in Assignable(t)
    BY DEF IInv, TypeOK, PartyKnown, AdminAssign
  <1>2. "done" \in Then /\ "schedule" \in Then
    BY DEF Then
  <1>3. CASE t = "rep"
    <2> DEFINE row == [order EXCEPT !.rep = x, !.status = "REP_ASSIGNED"]
    <2>1. x \in Reps /\ x # None
      BY <1>3, AssignmentConstants DEF Party
    <2>2. /\ row \in Order /\ row.kind = order.kind
          /\ row.status = "REP_ASSIGNED" /\ row.rep = x
      BY <1>1, <2>1 DEF Order, Status
    <2>3. row.status # "PAID" /\ Known(row)
      BY <2>1, <2>2 DEF Known, HasVendor
    <2> QED
      BY <1>2, <1>3, <2>2, <2>3, SavingKeepsIInv DEF AdminAssign
  <1>4. CASE t = "vendor"
    <2> DEFINE row == [order EXCEPT !.vendor = x, !.status = "VENDOR_ASSIGNED"]
    <2>1. x \in Vendors /\ x # None /\ order.status \in HasRep
      BY <1>1, <1>4, AssignmentConstants DEF Party, Assignable, HasRep
    <2>2. /\ row \in Order /\ row.kind = order.kind /\ row.rep = order.rep
          /\ row.status = "VENDOR_ASSIGNED" /\ row.vendor = x
      BY <1>1, <2>1 DEF Order, Status
    <2>3. row.status # "PAID" /\ Known(row)
      BY <1>1, <2>1, <2>2 DEF Known
    <2> QED
      BY <1>2, <1>4, <2>2, <2>3, SavingKeepsIInv DEF AdminAssign
  <1> QED
    BY <1>3, <1>4 DEF Types

LEMMA RepTransitionStep == IInv => \A p \in Procs : RepTransition(p) => IInv'
  <1> SUFFICES ASSUME IInv, NEW p \in Procs, RepTransition(p) PROVE IInv'
    OBVIOUS
  <1>1. PICK to \in Targets : Enter(p, Moving("rep", to, "done"))
    BY DEF RepTransition, Targets
  <1>2. "rep" \in Types /\ "done" \in Then
    BY DEF Types, Then
  <1> QED
    BY <1>1, <1>2, MovingKeepsIInv DEF RepTransition

LEMMA CancelStep == IInv => \A p \in Procs : Cancel(p) => IInv'
  <1> SUFFICES ASSUME IInv, NEW p \in Procs, Cancel(p) PROVE IInv'
    OBVIOUS
  <1> DEFINE row == [order EXCEPT !.status = "CANCELLED"]
             f   == Fresh("cancel", "rep")
             x   == [f EXCEPT !.row = row]
  <1>1. row \in Order /\ row.kind = order.kind /\ row.status = "CANCELLED"
    BY DEF IInv, TypeOK, Order, Status
  <1>2. f \in Request /\ f.pc = "cancel"
    BY FreshFields DEF Pc, Types
  <1>3. x \in Request /\ x.pc = "cancel" /\ x.row = row
    BY <1>1, <1>2, WithField DEF Request
  <1>4. Agrees(x, order, offers)
    BY <1>1, <1>3 DEF Agrees, Saves, Answers, Early, Known, HasRep, HasVendor
  <1>5. Enter(p, x)
    BY DEF Cancel
  <1> QED
    BY <1>3, <1>4, <1>5, EnterKeepsIInv DEF Cancel, rows, IInv, TypeOK

LEMMA CancelCommitStep == IInv => \A p \in Procs : CancelCommit(p) => IInv'
  <1> SUFFICES ASSUME IInv, NEW p \in Procs, CancelCommit(p) PROVE IInv'
    OBVIOUS
  <1> DEFINE row == req[p].row
             os  == Marked(PendingOf("rep") \cup PendingOf("vendor"), "cancelled")
  <1>1. row \in Order /\ row.status # "PAID" /\ row.kind = order.kind /\ Known(row)
    BY InFlight DEF CancelCommit, Agrees, Saves, Request
  <1>2. /\ os \in Seq(Offer) /\ DOMAIN os = DOMAIN offers
        /\ \A i \in DOMAIN offers : os[i].type = offers[i].type /\ os[i].to = offers[i].to
    BY MarkedRows DEF IInv, TypeOK
  <1> HIDE DEF os
  <1>3. \A i \in DOMAIN os : os[i].to \in Party(os[i].type)
    BY <1>2 DEF IInv, OffersToParties
  <1>4. req' = [req EXCEPT ![p] = NoRequest] /\ order' = row /\ offers' = os
    BY DEF CancelCommit, Finish, Enter, os
  <1> QED
    BY <1>1, <1>2, <1>3, <1>4, StepKeepsIInv DEF CancelCommit, IInv, TypeOK

-----------------------------------------------------------------------------
(* Starting, and broadcasting a batch.                                     *)

LEMMA FreshKeepsIInv ==
  ASSUME IInv, NEW p \in Procs, NEW pc \in Pc, NEW t \in Types,
         pc \notin Saves \cup Answers \cup {"transition"},
         pc = "start" \/ order.status # "PAID",
         Enter(p, Fresh(pc, t)), UNCHANGED <<rows, failures>>
  PROVE  IInv'
  BY FreshAgrees, EnterKeepsIInv DEF IInv, TypeOK, rows

LEMMA StartSteps ==
  IInv => \A p \in Procs : StartRep(p) \/ SweepPaid(p) \/ StartSwept(p) => IInv'
  <1> SUFFICES ASSUME IInv, NEW p \in Procs,
                      StartRep(p) \/ SweepPaid(p) \/ StartSwept(p)
               PROVE  IInv'
    OBVIOUS
  <1>1. "rep" \in Types /\ "BROADCASTING_REP" \in Targets /\ "broadcast" \in Then
    BY DEF Types, Targets, Then
  <1>2. "start" \in Pc /\ "start" \notin Saves \cup Answers \cup {"transition"}
    BY DEF Pc, Saves, Answers
  <1>3. CASE Enter(p, Moving("rep", "BROADCASTING_REP", "broadcast")) /\ UNCHANGED <<rows, failures>>
    BY <1>1, <1>3, MovingKeepsIInv
  <1>4. CASE Enter(p, Fresh("start", "rep")) /\ UNCHANGED <<rows, failures>>
    BY <1>1, <1>2, <1>4, FreshKeepsIInv
  <1>5. CASE Finish(p) /\ UNCHANGED <<rows, failures>>
    BY <1>5, FinishKeepsIInv DEF IInv, TypeOK, rows
  <1> QED
    BY <1>3, <1>4, <1>5 DEF StartRep, SweepPaid, StartSwept

LEMMA StartVendorStep == IInv => \A p \in Procs : StartVendor(p) => IInv'
  <1> SUFFICES ASSUME IInv, NEW p \in Procs, StartVendor(p) PROVE IInv'
    OBVIOUS
  <1>1. order \in Order
    BY DEF IInv, TypeOK
  <1>2. /\ "vendor" \in Types /\ "BROADCASTING_VENDOR" \in Targets
        /\ {"done", "schedule", "broadcast"} \subseteq Then
    BY DEF Types, Targets, Then
  <1>3. CASE /\ order.kind = "logistics"
             /\ Enter(p, Saving("vendor", [order EXCEPT !.status = "SCHEDULED"], "done"))
    <2> DEFINE row == [order EXCEPT !.status = "SCHEDULED"]
    <2>1. row \in Order /\ row.kind = order.kind /\ row.status = "SCHEDULED"
      BY <1>1 DEF Order, Status
    <2>2. row.status # "PAID" /\ Known(row)
      BY <1>3, <2>1 DEF Known
    <2> QED
      BY <1>2, <1>3, <2>1, <2>2, SavingKeepsIInv DEF StartVendor
  <1>4. CASE /\ order.kind = "choose"
             /\ Enter(p, Saving("vendor", [order EXCEPT !.vendor = ChosenVendor,
                                                        !.status = "VENDOR_ASSIGNED"], "schedule"))
    <2> DEFINE row == [order EXCEPT !.vendor = ChosenVendor, !.status = "VENDOR_ASSIGNED"]
    <2>1. /\ row \in Order /\ row.kind = order.kind
          /\ row.status = "VENDOR_ASSIGNED" /\ row.vendor # None
      BY <1>1, AssignmentConstants DEF Order, Status
    <2>2. row.status # "PAID" /\ Known(row)
      BY <1>4, <2>1 DEF Known
    <2> QED
      BY <1>2, <1>4, <2>1, <2>2, SavingKeepsIInv DEF StartVendor
  <1>5. CASE Enter(p, Moving("vendor", "BROADCASTING_VENDOR", "broadcast"))
    BY <1>2, <1>5, MovingKeepsIInv DEF StartVendor
  <1> QED
    BY <1>3, <1>4, <1>5 DEF StartVendor

LEMMA BroadcastStep == IInv => \A p \in Procs : Broadcast(p) => IInv'
  <1> SUFFICES ASSUME IInv, NEW p \in Procs, Broadcast(p) PROVE IInv'
    OBVIOUS
  <1> DEFINE r == req[p]
  <1>1. r \in Request /\ r.pc = "broadcast" /\ r.type \in Types /\ Agrees(r, order, offers)
    BY InFlight DEF Broadcast, Request
  <1>2. PICK S \in SUBSET Party(r.type), w \in LastWindow(r.type) :
          Enter(p, [r EXCEPT !.pc = "insert", !.todo = S, !.window = w + 1])
    BY DEF Broadcast
  <1>3. w + 1 \in Nat \ {0} /\ S \subseteq Reps \cup Vendors
    <2>1. lapsed[r.type] \in Nat /\ \A i \in DOMAIN offers : offers[i].window \in Nat
      BY <1>1, OfferRows DEF IInv, TypeOK
    <2>2. w \in Nat
      BY <1>2, <2>1 DEF LastWindow, Latest, OffersOf
    <2> QED
      BY <1>2, <2>2 DEF Party
  <1> DEFINE x == [r EXCEPT !.pc = "insert", !.todo = S, !.window = w + 1]
  <1>4. x \in Request /\ x.pc = "insert" /\ x.type = r.type /\ x.todo = S
    BY <1>1, <1>3 DEF Request, Pc
  <1>5. Agrees(x, order, offers)
    BY <1>1, <1>2, <1>4 DEF Agrees, Saves, Answers, Early
  <1> QED
    BY <1>2, <1>4, <1>5, EnterKeepsIInv DEF Broadcast, rows, IInv, TypeOK

LEMMA EscalateStep == IInv => \A p \in Procs : Escalate(p) => IInv'
  <1> SUFFICES ASSUME IInv, NEW p \in Procs, Escalate(p) PROVE IInv'
    OBVIOUS
  <1>1. req[p].type \in Types /\ order.status # "PAID"
    BY InFlight DEF Escalate, Agrees, Early, Request
  <1> QED
    BY <1>1, LeaveKeepsIInv DEF Escalate, At, IInv, TypeOK

LEMMA InsertStep == IInv => \A p \in Procs : Insert(p) => IInv'
  <1> SUFFICES ASSUME IInv, NEW p \in Procs, Insert(p) PROVE IInv'
    OBVIOUS
  <1> DEFINE r == req[p]
  <1>1. /\ r \in Request /\ r.pc = "insert" /\ Agrees(r, order, offers)
        /\ r.type \in Types /\ r.batch \in Nat \ {0} /\ r.window \in Nat \ {0}
        /\ r.todo \subseteq Party(r.type) /\ order.status # "PAID"
    BY InFlight DEF Insert, Agrees, Early, Request
  <1>2. PICK x \in r.todo :
          /\ offers' = Append(offers, NewOffer(r, x))
          /\ IF r.todo = {x} THEN Leave(p) ELSE Enter(p, [r EXCEPT !.todo = @ \ {x}])
    BY DEF Insert
  <1> DEFINE e == NewOffer(r, x)
             os == Append(offers, e)
  <1>3. e \in Offer /\ e.type = r.type /\ e.to = x /\ x \in Party(r.type)
    BY <1>1 DEF NewOffer, Offer, Party
  <1> HIDE DEF e
  <1>4. /\ os \in Seq(Offer)
        /\ Len(os) = Len(offers) + 1 /\ Len(offers) \in Nat
        /\ DOMAIN os = 1..Len(os) /\ DOMAIN offers = 1..Len(offers)
        /\ \A i \in 1..Len(offers) : os[i] = offers[i]
        /\ os[Len(offers) + 1] = e
    BY <1>3, AppendProperties DEF IInv, TypeOK
  <1> HIDE DEF os
  <1>5. /\ DOMAIN offers \subseteq DOMAIN os
        /\ \A i \in DOMAIN offers : os[i] = offers[i]
    BY <1>4
  <1>6. \A i \in DOMAIN os : os[i].to \in Party(os[i].type)
    <2> SUFFICES ASSUME NEW i \in DOMAIN os PROVE os[i].to \in Party(os[i].type)
      OBVIOUS
    <2>1. i \in DOMAIN offers \/ os[i] = e
      BY <1>4
    <2> QED
      BY <1>3, <1>5, <2>1 DEF IInv, OffersToParties
  <1>7. PICK y : /\ req' = [req EXCEPT ![p] = y]
                 /\ y = NoRequest \/ (y \in Request /\ Agrees(y, order, os))
    <2>1. CASE r.todo = {x} /\ Finish(p)
      BY <2>1 DEF Finish, Enter
    <2>2. CASE r.todo = {x} /\ Goto(p, "regroup")
      <3> DEFINE z == [r EXCEPT !.pc = "regroup"]
      <3>1. z \in Request /\ z.pc = "regroup" /\ z.type = r.type
        BY <1>1 DEF Request, Pc
      <3>2. Agrees(z, order, os)
        BY <1>1, <3>1 DEF Agrees, Saves, Answers, Early
      <3> QED
        BY <2>2, <3>1, <3>2 DEF Goto, Enter
    <2>3. CASE Enter(p, [r EXCEPT !.todo = @ \ {x}])
      <3> DEFINE z == [r EXCEPT !.todo = @ \ {x}]
      <3>1. /\ z \in Request /\ z.pc = "insert" /\ z.type = r.type
            /\ z.todo \subseteq r.todo
        BY <1>1 DEF Request
      <3>2. Agrees(z, order, os)
        BY <1>1, <3>1 DEF Agrees, Saves, Answers, Early
      <3> QED
        BY <2>3, <3>1, <3>2 DEF Enter
    <2> QED
      BY <1>2, <2>1, <2>2, <2>3 DEF Leave
  <1> QED
    BY <1>1, <1>2, <1>4, <1>5, <1>6, <1>7, StepKeepsIInv
    DEF Insert, IInv, TypeOK, PartyKnown, os, e

-----------------------------------------------------------------------------
(* Answers.                                                                *)

(* A step of p's that marks offers while the order is not PAID.            *)
LEMMA MarkKeepsIInv ==
  ASSUME IInv, NEW p \in Procs, NEW x, NEW S,
         NEW s \in {"accepted", "declined", "expired", "cancelled"},
         order.status # "PAID", offers' = Marked(S, s), Enter(p, x),
         x = NoRequest \/ (x \in Request /\ Agrees(x, order, offers)),
         UNCHANGED <<order, lapsed, escalated, failures>>
  PROVE  IInv'
  <1> DEFINE os == Marked(S, s)
  <1>1. /\ os \in Seq(Offer) /\ DOMAIN os = DOMAIN offers
        /\ \A i \in DOMAIN offers : os[i].type = offers[i].type /\ os[i].to = offers[i].to
    BY MarkedRows DEF IInv, TypeOK
  <1> HIDE DEF os
  <1>2. \A i \in DOMAIN os : os[i].to \in Party(os[i].type)
    BY <1>1 DEF IInv, OffersToParties
  <1>3. x = NoRequest \/ (x \in Request /\ Agrees(x, order, os))
    BY <1>1 DEF Agrees
  <1>4. req' = [req EXCEPT ![p] = x] /\ offers' = os
    BY DEF Enter, os
  <1> QED
    BY <1>1, <1>2, <1>3, <1>4, StepKeepsIInv DEF IInv, TypeOK, PartyKnown

(* Who is offered an order is asked before anything is known but the offer.*)
LEMMA AnswerAgrees ==
  ASSUME IInv, NEW i \in DOMAIN offers, NEW pc \in {"accept.order", "decline.save"},
         NEW b \in Nat \ {0}
  PROVE  LET f == Fresh(pc, offers[i].type)
             g == [f EXCEPT !.offer = i]
             r == [f EXCEPT !.offer = i, !.batch = b] IN
         /\ g \in Request /\ Agrees(g, order, offers)
         /\ r \in Request /\ Agrees(r, order, offers)
  <1>1. i \in Nat /\ offers[i].type \in Types /\ pc \in Pc
    BY OfferRows DEF IInv, TypeOK, Pc
  <1> DEFINE f == Fresh(pc, offers[i].type)
             g == [f EXCEPT !.offer = i]
  <1>2. f \in Request /\ f.pc = pc /\ f.type = offers[i].type
    BY <1>1, FreshFields
  <1> HIDE DEF f
  <1>3. /\ g \in Request /\ g.pc = pc /\ g.type = offers[i].type
        /\ g.offer = i
    BY <1>1, <1>2 DEF Request
  <1> HIDE DEF g
  <1> DEFINE r == [g EXCEPT !.batch = b]
  <1>4. /\ r \in Request /\ r.pc = pc /\ r.type = offers[i].type
        /\ r.offer = i
    BY <1>3 DEF Request
  <1>5. order.status # "PAID"
    BY DEF IInv, PaidHasNoOffers
  <1>6. Agrees(r, order, offers)
    BY <1>4, <1>5 DEF Agrees, Saves, Answers
  <1>7. Agrees(g, order, offers)
    BY <1>3, <1>5 DEF Agrees, Saves, Answers
  <1> QED
    BY <1>3, <1>4, <1>6, <1>7 DEF f, g

LEMMA AcceptStep ==
  IInv => \A p \in Procs : \A i \in DOMAIN offers : Accept(p, i) => IInv'
  <1> SUFFICES ASSUME IInv, NEW p \in Procs, NEW i \in DOMAIN offers, Accept(p, i)
               PROVE  IInv'
    OBVIOUS
  <1>1. 1 \in Nat \ {0}
    OBVIOUS
  <1> QED
    BY <1>1, AnswerAgrees, EnterKeepsIInv DEF Accept, rows, IInv, TypeOK

LEMMA AcceptOrderStep == IInv => \A p \in Procs : AcceptOrder(p) => IInv'
  <1> SUFFICES ASSUME IInv, NEW p \in Procs, AcceptOrder(p) PROVE IInv'
    OBVIOUS
  <1> DEFINE r == req[p]
             x == [r EXCEPT !.pc = "accept.offer", !.row = order]
  <1>1. r \in Request /\ r.pc = "accept.order" /\ Agrees(r, order, offers)
    BY InFlight DEF AcceptOrder
  <1>2. CASE order.status = Broadcasting(r.type)
    <2>1. order \in Order /\ Known(order) /\ order.status # "PAID"
      BY <1>2 DEF IInv, TypeOK, PartyKnown, Broadcasting
    <2>2. /\ x \in Request /\ x.pc = "accept.offer" /\ x.row = order
          /\ x.type = r.type /\ x.offer = r.offer
      BY <1>1, <2>1 DEF Request, Pc
    <2>3. Agrees(x, order, offers)
      BY <1>1, <1>2, <2>1, <2>2 DEF Agrees, Answers, Early
    <2> QED
      BY <1>2, <2>2, <2>3, EnterKeepsIInv DEF AcceptOrder, rows, IInv, TypeOK
  <1>3. CASE order.status # Broadcasting(r.type)
    BY <1>3, FinishKeepsIInv DEF AcceptOrder, rows, IInv, TypeOK
  <1> QED
    BY <1>2, <1>3

LEMMA AcceptOfferStep == IInv => \A p \in Procs : AcceptOffer(p) => IInv'
  <1> SUFFICES ASSUME IInv, NEW p \in Procs, AcceptOffer(p) PROVE IInv'
    OBVIOUS
  <1> DEFINE r == req[p]
             x == [r EXCEPT !.pc = "accept.cancel"]
  <1>1. /\ r \in Request /\ r.pc = "accept.offer" /\ Agrees(r, order, offers)
        /\ order.status # "PAID"
    BY InFlight DEF AcceptOffer, Agrees, Early
  <1>2. /\ x \in Request /\ x.pc = "accept.cancel" /\ x.row = r.row
        /\ x.type = r.type /\ x.offer = r.offer
    BY <1>1 DEF Request, Pc
  <1>3. Agrees(x, order, offers)
    BY <1>1, <1>2 DEF Agrees, Saves, Answers, Early
  <1> QED
    BY <1>1, <1>2, <1>3, MarkKeepsIInv DEF AcceptOffer, Goto

LEMMA AcceptCancelStep == IInv => \A p \in Procs : AcceptCancel(p) => IInv'
  <1> SUFFICES ASSUME IInv, NEW p \in Procs, AcceptCancel(p) PROVE IInv'
    OBVIOUS
  <1> DEFINE r == req[p]
             x == offers[r.offer].to
  <1>1. /\ r \in Request /\ r.type \in Types /\ r.row \in Order
        /\ r.row.status = Broadcasting(r.type) /\ r.row.kind = order.kind /\ Known(r.row)
        /\ r.offer \in DOMAIN offers /\ offers[r.offer].type = r.type
        /\ order.status # "PAID"
    BY InFlight DEF AcceptCancel, Agrees, Saves, Answers, Early, Request
  <1>2. x \in Party(r.type)
    BY <1>1 DEF IInv, OffersToParties
  <1>3. "vendor" \in Types /\ "startVendor" \in Then /\ "schedule" \in Then
    BY DEF Types, Then
  <1>4. CASE r.type = "rep"
    <2> DEFINE row == [r.row EXCEPT !.rep = x, !.status = "REP_ASSIGNED"]
    <2>1. x \in Reps /\ x # None
      BY <1>2, <1>4, AssignmentConstants DEF Party
    <2>2. /\ row \in Order /\ row.kind = r.row.kind
          /\ row.status = "REP_ASSIGNED" /\ row.rep = x
      BY <1>1, <2>1 DEF Order, Status
    <2>3. row.status # "PAID" /\ Known(row)
      BY <2>1, <2>2 DEF Known, HasVendor
    <2>4. Enter(p, Saving("vendor", row, "startVendor"))
      BY <1>4 DEF AcceptCancel
    <2> QED
      BY <1>1, <1>3, <2>2, <2>3, <2>4, SavingAgrees, MarkKeepsIInv DEF AcceptCancel
  <1>5. CASE r.type = "vendor"
    <2> DEFINE row == [r.row EXCEPT !.vendor = x, !.status = "VENDOR_ASSIGNED"]
    <2>1. x \in Vendors /\ x # None /\ r.row.status \in HasRep
      BY <1>1, <1>2, <1>5, AssignmentConstants DEF Party, Broadcasting, HasRep
    <2>2. /\ row \in Order /\ row.kind = r.row.kind /\ row.rep = r.row.rep
          /\ row.status = "VENDOR_ASSIGNED" /\ row.vendor = x
      BY <1>1, <2>1 DEF Order, Status
    <2>3. row.status # "PAID" /\ Known(row)
      BY <1>1, <2>1, <2>2 DEF Known
    <2>4. Enter(p, Saving("vendor", row, "schedule"))
      BY <1>5 DEF AcceptCancel
    <2> QED
      BY <1>1, <1>3, <2>2, <2>3, <2>4, SavingAgrees, MarkKeepsIInv DEF AcceptCancel
  <1> QED
    BY <1>1, <1>4, <1>5 DEF Types

LEMMA DeclineStep ==
  IInv => \A p \in Procs : \A i \in DOMAIN offers : Decline(p, i) => IInv'
  <1> SUFFICES ASSUME IInv, NEW p \in Procs, NEW i \in DOMAIN offers, Decline(p, i)
               PROVE  IInv'
    OBVIOUS
  <1>1. offers[i].batch + 1 \in Nat \ {0}
    BY OfferRows DEF IInv, TypeOK
  <1> QED
    BY <1>1, AnswerAgrees, EnterKeepsIInv DEF Decline, rows, IInv, TypeOK

LEMMA DeclineSaveStep == IInv => \A p \in Procs : DeclineSave(p) => IInv'
  <1> SUFFICES ASSUME IInv, NEW p \in Procs, DeclineSave(p) PROVE IInv'
    OBVIOUS
  <1> DEFINE r == req[p]
             x == [r EXCEPT !.pc = "decline.count"]
  <1>1. /\ r \in Request /\ r.pc = "decline.save" /\ Agrees(r, order, offers)
        /\ order.status # "PAID"
    BY InFlight DEF DeclineSave, Agrees, Early
  <1>2. x \in Request /\ x.pc = "decline.count" /\ x.type = r.type
    BY <1>1 DEF Request, Pc
  <1>3. Agrees(x, order, offers)
    BY <1>1, <1>2 DEF Agrees, Saves, Answers, Early
  <1> QED
    BY <1>1, <1>2, <1>3, MarkKeepsIInv DEF DeclineSave, Goto

LEMMA DeclineLaterSteps ==
  IInv => \A p \in Procs : DeclineCount(p) \/ DeclineAdvance(p) => IInv'
  <1> SUFFICES ASSUME IInv, NEW p \in Procs, DeclineCount(p) \/ DeclineAdvance(p)
               PROVE  IInv'
    OBVIOUS
  <1>1. req[p] # NoRequest /\ order.status # "PAID"
    BY InFlight DEF DeclineCount, DeclineAdvance, At, Agrees, Early
  <1>2. /\ {"decline.advance", "broadcast"} \subseteq Pc
        /\ {"decline.advance", "broadcast"} \cap (Saves \cup Answers \cup {"transition", "start", "insert"}) = {}
    BY DEF Pc, Saves, Answers
  <1>3. CASE Goto(p, "decline.advance") \/ Goto(p, "broadcast")
    BY <1>1, <1>2, <1>3, GotoKeepsIInv DEF DeclineCount, DeclineAdvance, rows, IInv, TypeOK
  <1>4. CASE Finish(p)
    BY <1>4, FinishKeepsIInv DEF DeclineCount, DeclineAdvance, rows, IInv, TypeOK
  <1> QED
    BY <1>3, <1>4 DEF DeclineCount, DeclineAdvance

-----------------------------------------------------------------------------
(* The expiry cron, time, and failures.                                    *)

LEMMA ExpireStep == IInv => \A p \in Procs : Expire(p) => IInv'
  <1> SUFFICES ASSUME IInv, NEW p \in Procs, Expire(p) PROVE IInv'
    OBVIOUS
  <1>1. PICK g \in NextBatches(Expired) :
          Enter(p, [Fresh("expire", "rep") EXCEPT !.ids = Expired, !.groups = g])
    BY DEF Expire
  <1>2. \A i \in Expired : i \in DOMAIN offers /\ i \in Nat /\ offers[i].batch + 1 \in Nat
    BY OfferRows DEF Expired, PendingOf, OffersOf, IInv, TypeOK
  <1>3. g \in [Types -> Nat]
    BY <1>1, <1>2 DEF NextBatches
  <1>4. order.status # "PAID"
    <2>1. PICK i : i \in Expired
      BY DEF Expire
    <2> QED
      BY <1>2, <2>1 DEF IInv, PaidHasNoOffers
  <1> DEFINE f == Fresh("expire", "rep")
             h == [f EXCEPT !.ids = Expired]
             x == [f EXCEPT !.ids = Expired, !.groups = g]
  <1>5. f \in Request /\ f.pc = "expire" /\ f.type = "rep"
    BY FreshFields DEF Pc, Types
  <1> HIDE DEF f
  <1>6. h \in Request /\ h.pc = "expire"
    BY <1>2, <1>5 DEF Request
  <1>7. x = [h EXCEPT !.groups = g]
    OBVIOUS
  <1> HIDE DEF h, x
  <1>8. x \in Request /\ x.pc = "expire"
    BY <1>3, <1>6, <1>7 DEF Request
  <1>9. Agrees(x, order, offers)
    BY <1>4, <1>8 DEF Agrees, Saves, Answers
  <1>10. Enter(p, x)
    BY <1>1 DEF x, f
  <1> QED
    BY <1>8, <1>9, <1>10, EnterKeepsIInv DEF Expire, rows, IInv, TypeOK

LEMMA ExpireSaveStep == IInv => \A p \in Procs : ExpireSave(p) => IInv'
  <1> SUFFICES ASSUME IInv, NEW p \in Procs, ExpireSave(p) PROVE IInv'
    OBVIOUS
  <1> DEFINE r == req[p]
  <1>1. /\ r \in Request /\ r.pc = "expire" /\ Agrees(r, order, offers)
        /\ order.status # "PAID"
    BY InFlight DEF ExpireSave, Agrees, Early
  <1>2. PICK i \in r.ids, pc \in {"regroup", "expire"} :
          /\ offers' = Marked({i}, "expired")
          /\ Enter(p, [r EXCEPT !.ids = @ \ {i}, !.pc = pc])
    BY DEF ExpireSave
  <1> DEFINE x == [r EXCEPT !.ids = @ \ {i}, !.pc = pc]
  <1>3. x \in Request /\ x.pc = pc /\ x.type = r.type
    BY <1>1 DEF Request, Pc
  <1>4. Agrees(x, order, offers)
    BY <1>1, <1>3 DEF Agrees, Saves, Answers
  <1> QED
    BY <1>1, <1>2, <1>3, <1>4, MarkKeepsIInv DEF ExpireSave

LEMMA RegroupStep == IInv => \A p \in Procs : Regroup(p) => IInv'
  <1> SUFFICES ASSUME IInv, NEW p \in Procs, Regroup(p) PROVE IInv'
    OBVIOUS
  <1> DEFINE r == req[p]
  <1>1. r \in Request /\ r.pc = "regroup" /\ order.status # "PAID"
    BY InFlight DEF Regroup, Agrees, Early
  <1>2. PICK t \in Types :
          /\ r.groups[t] # 0
          /\ Enter(p, [r EXCEPT !.pc = "broadcast", !.type = t, !.batch = r.groups[t],
                                !.groups[t] = 0])
    BY DEF Regroup
  <1> DEFINE x == [r EXCEPT !.pc = "broadcast", !.type = t, !.batch = r.groups[t],
                            !.groups[t] = 0]
  <1>3. x \in Request /\ x.pc = "broadcast"
    BY <1>1, <1>2 DEF Request, Pc
  <1>4. Agrees(x, order, offers)
    BY <1>1, <1>3 DEF Agrees, Saves, Answers
  <1> QED
    BY <1>2, <1>3, <1>4, EnterKeepsIInv DEF Regroup, rows, IInv, TypeOK

LEMMA FailStep == IInv => \A p \in Procs : Fail(p) => IInv'
  <1> SUFFICES ASSUME IInv, NEW p \in Procs, Fail(p) PROVE IInv'
    OBVIOUS
  <1>1. failures' \in Nat /\ escalated' \subseteq Types /\ UNCHANGED <<order, offers, lapsed>>
    BY DEF Fail, rows, IInv, TypeOK
  <1>2. CASE Finish(p)
    BY <1>1, <1>2, FinishKeepsIInv
  <1>3. CASE req[p].pc \in {"broadcast", "insert"} /\ Leave(p)
    <2>1. req[p] # NoRequest /\ order.status # "PAID"
      BY <1>3 DEF Fail, IInv, RequestsAgree, Agrees, Early
    <2> QED
      BY <1>1, <1>3, <2>1, LeaveKeepsIInv
  <1> QED
    BY <1>2, <1>3 DEF Fail

LEMMA LapseStep == IInv => \A t \in Types : Lapse(t) => IInv'
  <1> SUFFICES ASSUME IInv, NEW t \in Types, Lapse(t) PROVE IInv'
    OBVIOUS
  <1>1. UNCHANGED <<order, offers, escalated, req, failures>> /\ lapsed' \in [Types -> Nat]
    BY DEF Lapse, IInv, TypeOK
  <1>2. TypeOK'
    BY <1>1 DEF IInv, TypeOK
  <1>3. PartyKnown' /\ PaidHasNoOffers' /\ OffersToParties'
    BY <1>1 DEF IInv, PartyKnown, Known, PaidHasNoOffers, OffersToParties, Party
  <1>4. RequestsAgree'
    BY <1>1 DEF IInv, RequestsAgree, Agrees, Known, Broadcasting, Party
  <1> QED
    BY <1>2, <1>3, <1>4 DEF IInv

-----------------------------------------------------------------------------
LEMMA NextIInv == IInv /\ [Next]_vars => IInv'
  <1> SUFFICES ASSUME IInv, [Next]_vars PROVE IInv'
    OBVIOUS
  <1>1. ASSUME NEW p \in Procs, Start(p) PROVE IInv'
    BY <1>1, StartSteps, RepTransitionStep, CancelStep, ExpireStep, AdminAssignStep,
       AcceptStep, DeclineStep
    DEF Start
  <1>2. ASSUME NEW p \in Procs, Step(p) PROVE IInv'
    BY <1>2, SaveStep, TransitionReadStep, CancelCommitStep, StartSteps, StartVendorStep,
       BroadcastStep, EscalateStep, InsertStep, AcceptOrderStep, AcceptOfferStep,
       AcceptCancelStep, DeclineSaveStep, DeclineLaterSteps, ExpireSaveStep, RegroupStep
    DEF Step
  <1>3. ASSUME NEW p \in Procs, Fail(p) PROVE IInv'
    BY <1>3, FailStep
  <1>4. ASSUME NEW t \in Types, Lapse(t) PROVE IInv'
    BY <1>4, LapseStep
  <1>5. CASE UNCHANGED vars
    <2>1. UNCHANGED <<order, offers, lapsed, escalated, req, failures>>
      BY <1>5 DEF vars
    <2> QED
      BY <2>1 DEF IInv, TypeOK, PartyKnown, Known, PaidHasNoOffers, OffersToParties,
                  RequestsAgree, Agrees, Broadcasting, Party
  <1> QED
    BY <1>1, <1>2, <1>3, <1>4, <1>5 DEF Next

(* The invariant holds in every behaviour, whatever overlaps and dies.     *)
THEOREM Invariance == Spec => []IInv
  BY InitIInv, NextIInv, PTL DEF Spec

(* Rows and in-flight requests keep their types in every behaviour.        *)
THEOREM Typing == Spec => []TypeOK
  <1>1. IInv => TypeOK
    BY DEF IInv
  <1> QED
    BY <1>1, Invariance, PTL

(* The status of an order never runs ahead of its rep and vendor columns,  *)
(* although accepting, assigning, pinning, transition and cancelling all   *)
(* save copies of the row they loaded earlier.                             *)
THEOREM PartiesAreKnown == Spec => []PartyKnown
  <1>1. IInv => PartyKnown
    BY DEF IInv
  <1> QED
    BY <1>1, Invariance, PTL

(* An order still PAID has no offers: sweepStalePaidOrders, which skips    *)
(* the orders that have some, misses none that waits to be started.        *)
THEOREM PaidOrdersHaveNoOffers == Spec => []PaidHasNoOffers
  <1>1. IInv => PaidHasNoOffers
    BY DEF IInv
  <1> QED
    BY <1>1, Invariance, PTL

-----------------------------------------------------------------------------
(* How the rows of offers change: not at all, by marking, or by insertion. *)

NoneReopened ==
  \A i \in DOMAIN offers : offers[i].status # "pending" => offers'[i].status # "pending"

LEMMA MarkReopensNone ==
  ASSUME IInv, NEW S, NEW s \in {"accepted", "declined", "expired", "cancelled"},
         offers' = Marked(S, s)
  PROVE  NoneReopened
  BY MarkedRows DEF NoneReopened, IInv, TypeOK

LEMMA InsertReopensNone ==
  ASSUME IInv, NEW e \in Offer, offers' = Append(offers, e)
  PROVE  NoneReopened
  <1>1. /\ DOMAIN offers = 1..Len(offers)
        /\ \A i \in 1..Len(offers) : offers'[i] = offers[i]
    BY AppendProperties DEF IInv, TypeOK
  <1> QED
    BY <1>1 DEF NoneReopened

LEMMA NextReopensNone == IInv /\ Next => NoneReopened
  <1> SUFFICES ASSUME IInv, Next PROVE NoneReopened
    OBVIOUS
  <1>1. CASE offers' = offers
    BY <1>1 DEF NoneReopened
  <1>2. ASSUME NEW p \in Procs,
               CancelCommit(p) \/ AcceptOffer(p) \/ AcceptCancel(p)
                 \/ DeclineSave(p) \/ ExpireSave(p)
        PROVE  NoneReopened
    BY <1>2, MarkReopensNone
    DEF CancelCommit, AcceptOffer, AcceptCancel, DeclineSave, ExpireSave
  <1>3. ASSUME NEW p \in Procs, Insert(p) PROVE NoneReopened
    <2>1. PICK x \in req[p].todo : offers' = Append(offers, NewOffer(req[p], x))
      BY <1>3 DEF Insert
    <2>2. NewOffer(req[p], x) \in Offer
      <3>1. /\ req[p] \in Request /\ req[p].todo \subseteq Reps \cup Vendors
            /\ req[p].type \in Types
            /\ req[p].batch \in Nat \ {0} /\ req[p].window \in Nat \ {0}
        BY <1>3, InFlight DEF Insert, Request
      <3> QED
        BY <2>1, <3>1 DEF NewOffer, Offer
    <2> QED
      BY <2>1, <2>2, InsertReopensNone
  <1>4. ASSUME NEW p \in Procs, Start(p) PROVE offers' = offers
    BY <1>4 DEF Start, StartRep, SweepPaid, RepTransition, Cancel, Expire, AdminAssign,
                Accept, Decline, rows
  <1>5. ASSUME NEW p \in Procs,
               Save(p) \/ TransitionRead(p) \/ StartSwept(p) \/ StartVendor(p) \/ Broadcast(p)
                 \/ Escalate(p) \/ AcceptOrder(p) \/ DeclineCount(p) \/ DeclineAdvance(p)
                 \/ Regroup(p) \/ Fail(p)
        PROVE  offers' = offers
    BY <1>5 DEF Save, TransitionRead, StartSwept, StartVendor, Broadcast, Escalate,
                AcceptOrder, DeclineCount, DeclineAdvance, Regroup, Fail, rows
  <1>6. ASSUME NEW t \in Types, Lapse(t) PROVE offers' = offers
    BY <1>6 DEF Lapse
  <1> QED
    BY <1>1, <1>2, <1>3, <1>4, <1>5, <1>6 DEF Next, Step

(* An answered, expired or cancelled offer is never open again, whichever  *)
(* stale rows the handlers and the cron save.                              *)
THEOREM ResolvedOffersStay == Spec => ResolvedStaysResolved
  <1>1. IInv /\ [Next]_vars => [NoneReopened]_vars
    BY NextReopensNone
  <1>2. Spec => [][NoneReopened]_vars
    BY <1>1, Invariance, PTL DEF Spec
  <1> QED
    BY <1>2 DEF ResolvedStaysResolved, NoneReopened
-----------------------------------------------------------------------------
(* When requests do not overlap.  A request in flight then knows where the *)
(* order stands: Now says what it still owes to the rows.                  *)

(* No two requests overlap and none has died.                              *)
Undisturbed ==
  /\ failures = 0
  /\ \A p, q \in Procs : req[p] # NoRequest /\ req[q] # NoRequest => p = q

(* The offers of a type in os, and those still open.                       *)
Of(os, t)   == {i \in DOMAIN os : os[i].type = t}
Open(os, t) == {i \in Of(os, t) : os[i].status = "pending"}

(* The order never goes back into one of these sets once it has left it:   *)
(* no rep looked for yet, no vendor looked for yet, no vendor found yet.   *)
SeeksRep   == {"PAID", "BROADCASTING_REP"}
NoVendor   == {"PAID", "BROADCASTING_REP", "REP_ASSIGNED"}
SeeksVendor == NoVendor \cup {"BROADCASTING_VENDOR"}
Seeks(t)   == IF t = "rep" THEN SeeksRep ELSE SeeksVendor

Onward(s, u) == \A C \in {SeeksRep, NoVendor, SeeksVendor} : s \notin C => u \notin C

OffersInOrder(s, os) ==
  /\ \A i, j \in DOMAIN os : os[i].type = os[j].type /\ os[i].to = os[j].to => i = j
  /\ \A i, j \in DOMAIN os :
       os[i].type = os[j].type /\ os[i].status = "pending" /\ os[j].status = "pending"
         => os[i].batch = os[j].batch /\ os[i].window = os[j].window
  /\ \A i, j \in DOMAIN os :
       os[i].type = os[j].type /\ os[i].status = "accepted" /\ os[j].status = "accepted"
         => i = j
  /\ Of(os, "vendor") # {} => s \notin NoVendor
  /\ s = "CANCELLED" => \A t \in Types : Open(os, t) = {}

(* Whoever accepted has the order; who is looked for was asked, or an      *)
(* admin was.                                                              *)
Found(t, s, os)    == (\E i \in Of(os, t) : os[i].status = "accepted") => s \notin Seeks(t)
Asked(t, s, os, e) == s = Broadcasting(t) => Open(os, t) # {} \/ t \in e

Asks == {"broadcast", "insert", "decline.count", "decline.advance", "accept.cancel"}
Cron == {"expire", "regroup", "broadcast", "insert"}

(* Request r will ask the next batch of t or put an end to the search.     *)
WillAsk(r, t) == r.pc = "save" \/ r.groups[t] # 0 \/ (r.pc \in Asks /\ r.type = t)

SavesOnward(r, s, os) ==
  /\ r.pc = "save" =>
       /\ Onward(s, r.row.status)
       /\ r.row.status # "CANCELLED"
       /\ r.then = "broadcast" => /\ r.row.status = Broadcasting(r.type)
                                  /\ Of(os, r.type) = {}
       /\ r.then # "broadcast" => \A t \in Types : r.row.status # Broadcasting(t)
       /\ r.then = "startVendor" => r.row.status = "REP_ASSIGNED" /\ r.type = "vendor"
  /\ r.pc = "startVendor" => s = "REP_ASSIGNED" /\ r.type = "vendor"
  /\ r.pc = "cancel" => r.row.status = "CANCELLED"
  /\ r.pc = "transition" =>
       /\ r.to \in Targets
       /\ r.then = "broadcast" => /\ r.to = Broadcasting(r.type)
                                  /\ s = IF r.type = "rep" THEN "PAID" ELSE "REP_ASSIGNED"
       /\ r.then # "broadcast" => /\ r.then = "done"
                                  /\ \A t \in Types : r.to # Broadcasting(t)
  /\ r.pc \in {"accept.offer", "accept.cancel"} => s = Broadcasting(r.type)

AsksInOrder(r, s, os) ==
  /\ r.pc = "decline.advance" => Open(os, r.type) = {}
  /\ r.pc \in {"broadcast", "insert"} =>
       /\ r.groups[r.type] = 0
       /\ r.type = "vendor" => s \notin NoVendor
  /\ r.pc = "broadcast" => Open(os, r.type) = {}
  /\ r.pc = "insert" =>
       /\ \A i \in Open(os, r.type) : os[i].batch = r.batch /\ os[i].window = r.window
       /\ \A i \in Of(os, r.type) : os[i].to \notin r.todo
  /\ r.pc \notin Cron => r.groups = NoGroups
  /\ \A t \in Types :
       /\ r.groups[t] # 0 => Of(os, t) # {}
       /\ r.groups[t] # 0 => Open(os, t) \subseteq IF r.pc = "expire" THEN r.ids ELSE {}
       /\ r.pc = "expire" /\ r.ids \cap Of(os, t) # {} => r.groups[t] # 0

Now(r, s, os, e) ==
  /\ s # "CANCELLED"
  /\ SavesOnward(r, s, os)
  /\ AsksInOrder(r, s, os)
  /\ \A t \in Types :
       /\ \/ Found(t, s, os)
          \/ r.pc = "accept.cancel" /\ r.type = t
          \/ r.pc = "save" /\ r.row.status \notin Seeks(t)
       /\ Asked(t, s, os, e) \/ WillAsk(r, t)

Rest(s, os, e) == \A t \in Types : Found(t, s, os) /\ Asked(t, s, os, e)

Serial ==
  /\ OffersInOrder(order.status, offers)
  /\ Idle => Rest(order.status, offers, escalated)
  /\ \A p \in Procs : req[p] # NoRequest => Now(req[p], order.status, offers, escalated)

-----------------------------------------------------------------------------
(* What a step must show for Serial to survive it.                         *)

LEMMA OthersRest ==
  ASSUME Undisturbed, NEW p \in Procs, req[p] # NoRequest
  PROVE  \A q \in Procs : q # p => req[q] = NoRequest
  BY DEF Undisturbed

LEMMA StartsAlone ==
  ASSUME IInv, Undisturbed', NEW p \in Procs, req[p] = NoRequest,
         NEW x \in Request, Enter(p, x)
  PROVE  Idle /\ \A q \in Procs : q # p => req[q] = NoRequest
  <1>1. req'[p] = x /\ x # NoRequest
    BY AssignmentConstants DEF IInv, TypeOK, Enter
  <1>2. ASSUME NEW q \in Procs, q # p PROVE req[q] = NoRequest
    <2>1. req'[q] = req[q]
      BY <1>2 DEF IInv, TypeOK, Enter
    <2> QED
      BY <1>1, <1>2, <2>1 DEF Undisturbed
  <1> QED
    BY <1>2 DEF Idle

LEMMA SerialEnter ==
  ASSUME IInv, NEW p \in Procs, NEW x, NEW s, NEW os, NEW e, Enter(p, x),
         \A q \in Procs : q # p => req[q] = NoRequest,
         order'.status = s, offers' = os, escalated' = e,
         OffersInOrder(s, os),
         \/ x = NoRequest /\ Rest(s, os, e)
         \/ x \in Request /\ Now(x, s, os, e)
  PROVE  Serial'
  <1>1. req'[p] = x /\ \A q \in Procs : q # p => req'[q] = NoRequest
    BY DEF IInv, TypeOK, Enter
  <1>2. Idle' <=> x = NoRequest
    BY <1>1 DEF Idle
  <1>3. x \in Request => x # NoRequest
    BY AssignmentConstants
  <1>4. OffersInOrder(order.status, offers)'
    BY DEF OffersInOrder, Of, Open
  <1>5. Idle' => Rest(order.status, offers, escalated)'
    BY <1>2, <1>3 DEF Rest, Found, Asked, Of, Open, Broadcasting, Seeks
  <1>6. ASSUME NEW q \in Procs, req'[q] # NoRequest
        PROVE  Now(req'[q], order'.status, offers', escalated')
    <2>1. q = p
      BY <1>1, <1>6
    <2> QED
      BY <1>1, <1>3, <1>6, <2>1
  <1> QED
    BY <1>4, <1>5, <1>6 DEF Serial

(* A step of p's that changes no row.                                      *)
LEMMA SerialMove ==
  ASSUME IInv, Serial, Undisturbed, NEW p \in Procs, req[p] # NoRequest, NEW x, Enter(p, x),
         UNCHANGED <<order, offers, escalated>>,
         \/ x = NoRequest /\ Rest(order.status, offers, escalated)
         \/ x \in Request /\ Now(x, order.status, offers, escalated)
  PROVE  Serial'
  BY OthersRest, SerialEnter DEF Serial

LEMMA SerialStart ==
  ASSUME IInv, Serial, Undisturbed', NEW p \in Procs, req[p] = NoRequest,
         NEW x \in Request, Enter(p, x),
         UNCHANGED <<order, offers, escalated>>,
         Rest(order.status, offers, escalated) => Now(x, order.status, offers, escalated)
  PROVE  Serial'
  BY StartsAlone, SerialEnter DEF Serial

(* Outside the cron and the answers, a request owes the rows nothing.      *)
LEMMA NowOfRest ==
  ASSUME NEW r \in Request, NEW s, NEW os, NEW e, r.groups = NoGroups,
         r.pc \notin Cron \cup {"decline.advance"}, s # "CANCELLED",
         SavesOnward(r, s, os), Rest(s, os, e)
  PROVE  Now(r, s, os, e)
  BY DEF Now, Rest, AsksInOrder, NoGroups, Cron

LEMMA RestOfNow ==
  ASSUME NEW r \in Request, NEW s, NEW os, NEW e, Now(r, s, os, e), r.groups = NoGroups,
         r.pc \notin Asks \cup {"save"}
  PROVE  Rest(s, os, e)
  BY DEF Now, Rest, WillAsk, Asks, NoGroups

LEMMA SerialInFlight ==
  ASSUME IInv, Serial, NEW p \in Procs, NEW pc, At(p, pc)
  PROVE  /\ req[p] \in Request /\ req[p] # NoRequest /\ req[p].pc = pc
         /\ Agrees(req[p], order, offers)
         /\ Now(req[p], order.status, offers, escalated)
         /\ OffersInOrder(order.status, offers)
         /\ order \in Order /\ offers \in Seq(Offer)
  BY InFlight DEF At, Serial, IInv, TypeOK

(* What transition() may be asked for.                                     *)
LEMMA MovingNow ==
  ASSUME NEW t \in Types, NEW to \in Targets, NEW then \in {"done", "broadcast"},
         NEW s, NEW os, NEW e, s # "CANCELLED", Rest(s, os, e),
         \/ /\ then = "broadcast" /\ to = Broadcasting(t)
            /\ s = IF t = "rep" THEN "PAID" ELSE "REP_ASSIGNED"
         \/ then = "done" /\ \A u \in Types : to # Broadcasting(u)
  PROVE  LET r == Moving(t, to, then) IN r \in Request /\ Now(r, s, os, e)
  <1> DEFINE r == Moving(t, to, then)
  <1>1. to \in Status /\ then \in Then
    BY DEF Targets, Status, Then
  <1>2. /\ r \in Request /\ r.pc = "transition" /\ r.type = t /\ r.to = to
        /\ r.then = then /\ r.groups = NoGroups
    BY <1>1, MovingFields
  <1> HIDE DEF r
  <1>3. SavesOnward(r, s, os)
    BY <1>2 DEF SavesOnward
  <1>4. Now(r, s, os, e)
    BY <1>2, <1>3, NowOfRest DEF Cron
  <1> QED
    BY <1>2, <1>4 DEF r

LEMMA SavingNow ==
  ASSUME NEW t \in Types, NEW row \in Order, NEW then \in Then,
         NEW s, NEW os, NEW e, s # "CANCELLED",
         Onward(s, row.status), row.status # "CANCELLED",
         then = "broadcast" => row.status = Broadcasting(t) /\ Of(os, t) = {},
         then # "broadcast" => \A u \in Types : row.status # Broadcasting(u),
         then = "startVendor" => row.status = "REP_ASSIGNED" /\ t = "vendor",
         \A u \in Types : Found(u, s, os) \/ row.status \notin Seeks(u)
  PROVE  LET r == Saving(t, row, then) IN r \in Request /\ Now(r, s, os, e)
  <1> DEFINE r == Saving(t, row, then)
  <1>1. /\ r \in Request /\ r.pc = "save" /\ r.type = t /\ r.row = row
        /\ r.then = then /\ r.groups = NoGroups
    BY SavingFields
  <1> HIDE DEF r
  <1>2. SavesOnward(r, s, os)
    BY <1>1 DEF SavesOnward
  <1>3. AsksInOrder(r, s, os)
    BY <1>1 DEF AsksInOrder, NoGroups
  <1>4. Now(r, s, os, e)
    BY <1>1, <1>2, <1>3 DEF Now, WillAsk
  <1> QED
    BY <1>1, <1>4 DEF r

-----------------------------------------------------------------------------
(* Writes of the order row.                                                *)

LEMMA SerialSave == IInv /\ Serial /\ Undisturbed => \A p \in Procs : Save(p) => Serial'
  <1> SUFFICES ASSUME IInv, Serial, Undisturbed, NEW p \in Procs, Save(p) PROVE Serial'
    OBVIOUS
  <1> DEFINE r == req[p]
             s == r.row.status
  <1>1. /\ r \in Request /\ r # NoRequest /\ r.pc = "save"
        /\ Now(r, order.status, offers, escalated)
        /\ OffersInOrder(order.status, offers)
        /\ r.row \in Order /\ r.type \in Types /\ r.then \in Then
    BY SerialInFlight DEF Save, Request
  <1>2. /\ Onward(order.status, s) /\ s # "CANCELLED" /\ r.groups = NoGroups
        /\ r.then = "broadcast" => s = Broadcasting(r.type) /\ Of(offers, r.type) = {}
        /\ r.then # "broadcast" => \A t \in Types : s # Broadcasting(t)
        /\ r.then = "startVendor" => s = "REP_ASSIGNED" /\ r.type = "vendor"
    BY <1>1 DEF Now, SavesOnward, AsksInOrder, Cron
  <1>3. OffersInOrder(s, offers)
    BY <1>1, <1>2 DEF OffersInOrder, Onward
  <1>4. \A t \in Types : Found(t, s, offers)
    BY <1>1, <1>2 DEF Now, Found, Onward, Seeks
  <1>5. r.then # "broadcast" => Rest(s, offers, escalated)
    BY <1>2, <1>4 DEF Rest, Asked
  <1>6. order' = r.row /\ UNCHANGED <<offers, escalated>>
    BY DEF Save
  <1>7. \A q \in Procs : q # p => req[q] = NoRequest
    BY <1>1, OthersRest
  <1>8. CASE r.then = "done"
    BY <1>3, <1>5, <1>6, <1>7, <1>8, SerialEnter DEF Save, Finish
  <1>9. CASE r.then = "schedule"
    <2> DEFINE x == Moving(r.type, "SCHEDULED", "done")
    <2>1. "SCHEDULED" \in Targets /\ \A u \in Types : "SCHEDULED" # Broadcasting(u)
      BY DEF Targets, Broadcasting
    <2>2. x \in Request /\ Now(x, s, offers, escalated)
      BY <1>1, <1>2, <1>5, <1>9, <2>1, MovingNow
    <2> QED
      BY <1>3, <1>6, <1>7, <1>9, <2>2, SerialEnter DEF Save
  <1>10. CASE r.then = "startVendor"
    <2> DEFINE x == Fresh("startVendor", r.type)
    <2>1. x \in Request /\ x.pc = "startVendor" /\ x.type = "vendor" /\ x.groups = NoGroups
      BY <1>1, <1>2, <1>10, FreshFields DEF Pc
    <2> HIDE DEF x
    <2>2. SavesOnward(x, s, offers)
      BY <1>2, <1>10, <2>1 DEF SavesOnward
    <2>3. Now(x, s, offers, escalated)
      BY <1>2, <1>5, <1>10, <2>1, <2>2, NowOfRest DEF Cron
    <2>4. Enter(p, x)
      BY <1>10 DEF Save, x
    <2> QED
      BY <1>3, <1>6, <1>7, <2>1, <2>3, <2>4, SerialEnter
  <1>11. CASE r.then = "broadcast"
    <2> DEFINE x == Fresh("broadcast", r.type)
    <2>1. x \in Request /\ x.pc = "broadcast" /\ x.type = r.type /\ x.groups = NoGroups
      BY <1>1, FreshFields DEF Pc
    <2> HIDE DEF x
    <2>2. SavesOnward(x, s, offers)
      BY <2>1 DEF SavesOnward
    <2>3. AsksInOrder(x, s, offers)
      BY <1>1, <1>2, <1>11, <2>1 DEF AsksInOrder, NoGroups, Cron, Open, Broadcasting, NoVendor, Types
    <2>4. \A t \in Types : Asked(t, s, offers, escalated) \/ WillAsk(x, t)
      BY <1>1, <1>2, <1>11, <2>1 DEF Asked, WillAsk, Asks, Broadcasting, Types
    <2>5. Now(x, s, offers, escalated)
      BY <1>2, <1>4, <2>2, <2>3, <2>4 DEF Now
    <2>6. Enter(p, x)
      BY <1>11 DEF Save, x
    <2> QED
      BY <1>3, <1>6, <1>7, <2>1, <2>5, <2>6, SerialEnter
  <1> QED
    BY <1>1, <1>8, <1>9, <1>10, <1>11 DEF Then

LEMMA SerialTransitionRead ==
  IInv /\ Serial /\ Undisturbed => \A p \in Procs : TransitionRead(p) => Serial'
  <1> SUFFICES ASSUME IInv, Serial, Undisturbed, NEW p \in Procs, TransitionRead(p)
               PROVE  Serial'
    OBVIOUS
  <1> DEFINE r == req[p]
             s == order.status
             row == [order EXCEPT !.status = r.to]
  <1>1. /\ r \in Request /\ r # NoRequest /\ r.pc = "transition"
        /\ Now(r, s, offers, escalated) /\ OffersInOrder(s, offers) /\ order \in Order
        /\ r.type \in Types /\ r.then \in Then
    BY SerialInFlight DEF TransitionRead, Request
  <1>2. r.groups = NoGroups /\ s # "CANCELLED"
    BY <1>1 DEF Now, AsksInOrder, Cron
  <1>3. Rest(s, offers, escalated)
    BY <1>1, <1>2, RestOfNow DEF Asks
  <1>4. /\ r.to \in Targets
        /\ r.then = "broadcast" => /\ r.to = Broadcasting(r.type)
                                   /\ s = IF r.type = "rep" THEN "PAID" ELSE "REP_ASSIGNED"
        /\ r.then # "broadcast" => r.then = "done" /\ \A t \in Types : r.to # Broadcasting(t)
    BY <1>1 DEF Now, SavesOnward
  <1>5. row \in Order /\ row.status = r.to /\ r.to # "CANCELLED"
    BY <1>1, <1>4 DEF Order, Targets, Status
  <1>6. Onward(s, r.to)
    <2>1. CASE r.then = "broadcast"
      BY <1>1, <1>4, <2>1 DEF Onward, SeeksRep, NoVendor, SeeksVendor, Broadcasting, Types
    <2>2. CASE r.then # "broadcast"
      BY <1>4, <2>2 DEF Onward, SeeksRep, NoVendor, SeeksVendor, Broadcasting, Types, Targets
    <2> QED
      BY <2>1, <2>2
  <1>7. r.then = "broadcast" => Of(offers, r.type) = {}
    <2>1. s = "PAID" => offers = <<>>
      BY DEF IInv, PaidHasNoOffers
    <2>2. s = "REP_ASSIGNED" => Of(offers, "vendor") = {}
      BY <1>1 DEF OffersInOrder, NoVendor
    <2> QED
      BY <1>1, <1>4, <2>1, <2>2 DEF Of, Types
  <1>8. CASE Enter(p, Saving(r.type, row, r.then))
    <2>1. /\ Saving(r.type, row, r.then) \in Request
          /\ Now(Saving(r.type, row, r.then), s, offers, escalated)
      <3>1. r.then # "startVendor"
        BY <1>4
      <3>2. \A u \in Types : Found(u, s, offers)
        BY <1>3 DEF Rest
      <3> HIDE DEF row, r, s
      <3> QED
        BY <1>1, <1>2, <1>4, <1>5, <1>6, <1>7, <3>1, <3>2, SavingNow
    <2> QED
      BY <1>1, <1>8, <2>1, SerialMove DEF TransitionRead, rows
  <1>9. CASE Finish(p)
    BY <1>1, <1>3, <1>9, SerialMove DEF TransitionRead, rows, Finish
  <1> QED
    BY <1>8, <1>9 DEF TransitionRead

LEMMA SerialAdminAssign ==
  IInv /\ Serial /\ Undisturbed' =>
    \A p \in Procs, t \in Types : \A x \in Party(t) : AdminAssign(p, t, x) => Serial'
  <1> SUFFICES ASSUME IInv, Serial, Undisturbed', NEW p \in Procs, NEW t \in Types,
                      NEW x \in Party(t), AdminAssign(p, t, x)
               PROVE  Serial'
    OBVIOUS
  <1> DEFINE s == order.status
  <1>1. order \in Order /\ s \in Assignable(t) /\ s # "CANCELLED" /\ req[p] = NoRequest
    BY DEF IInv, TypeOK, AdminAssign, Assignable, Callable
  <1>2. {"done", "schedule"} \subseteq Then
    BY DEF Then
  <1>3. CASE t = "rep"
    <2> DEFINE row == [order EXCEPT !.rep = x, !.status = "REP_ASSIGNED"]
               y == Saving(t, row, "done")
    <2>1. row \in Order /\ row.status = "REP_ASSIGNED"
      BY <1>1, <1>3 DEF Order, Status, Party
    <2>2. /\ Onward(s, row.status) /\ row.status # "CANCELLED"
          /\ \A u \in Types : row.status # Broadcasting(u)
      BY <1>1, <1>3, <2>1 DEF Onward, SeeksRep, NoVendor, SeeksVendor, Assignable, Broadcasting
    <2> HIDE DEF row
    <2>3. Rest(s, offers, escalated) => y \in Request /\ Now(y, s, offers, escalated)
      BY <1>1, <1>2, <2>1, <2>2, SavingNow DEF Rest
    <2>4. Enter(p, y) /\ y \in Request
      BY <1>2, <1>3, <2>1, SavingFields DEF AdminAssign, row
    <2> QED
      BY <1>1, <2>3, <2>4, SerialStart DEF AdminAssign, rows
  <1>4. CASE t = "vendor"
    <2> DEFINE row == [order EXCEPT !.vendor = x, !.status = "VENDOR_ASSIGNED"]
               y == Saving(t, row, "schedule")
    <2>1. row \in Order /\ row.status = "VENDOR_ASSIGNED"
      BY <1>1, <1>4 DEF Order, Status, Party
    <2>2. /\ Onward(s, row.status) /\ row.status # "CANCELLED"
          /\ \A u \in Types : row.status # Broadcasting(u)
      BY <1>1, <1>4, <2>1 DEF Onward, SeeksRep, NoVendor, SeeksVendor, Assignable, Broadcasting
    <2> HIDE DEF row
    <2>3. Rest(s, offers, escalated) => y \in Request /\ Now(y, s, offers, escalated)
      BY <1>1, <1>2, <2>1, <2>2, SavingNow DEF Rest
    <2>4. Enter(p, y) /\ y \in Request
      BY <1>2, <1>4, <2>1, SavingFields DEF AdminAssign, row
    <2> QED
      BY <1>1, <2>3, <2>4, SerialStart DEF AdminAssign, rows
  <1> QED
    BY <1>3, <1>4 DEF Types

LEMMA SerialRepTransition ==
  IInv /\ Serial /\ Undisturbed' => \A p \in Procs : RepTransition(p) => Serial'
  <1> SUFFICES ASSUME IInv, Serial, Undisturbed', NEW p \in Procs, RepTransition(p)
               PROVE  Serial'
    OBVIOUS
  <1> DEFINE s == order.status
  <1>1. PICK to \in {"REP_EN_ROUTE_PICKUP", "PICKED_UP"} :
          to \in Allowed(s) \cup {s} /\ Enter(p, Moving("rep", to, "done"))
    BY DEF RepTransition
  <1> DEFINE x == Moving("rep", to, "done")
  <1>2. /\ to \in Targets /\ to \in Status /\ "rep" \in Types /\ "done" \in Then
        /\ \A u \in Types : to # Broadcasting(u)
    BY DEF Targets, Status, Types, Then, Broadcasting
  <1>3. s # "CANCELLED"
    BY <1>1 DEF Allowed
  <1>4. Rest(s, offers, escalated) => Now(x, s, offers, escalated)
    BY <1>2, <1>3, MovingNow
  <1>5. x \in Request /\ req[p] = NoRequest /\ UNCHANGED <<order, offers, escalated>>
    BY <1>2, MovingFields DEF RepTransition, Callable, rows
  <1> QED
    BY <1>1, <1>4, <1>5, SerialStart

LEMMA SerialCancel == IInv /\ Serial /\ Undisturbed' => \A p \in Procs : Cancel(p) => Serial'
  <1> SUFFICES ASSUME IInv, Serial, Undisturbed', NEW p \in Procs, Cancel(p) PROVE Serial'
    OBVIOUS
  <1> DEFINE s   == order.status
             row == [order EXCEPT !.status = "CANCELLED"]
             f   == Fresh("cancel", "rep")
             x   == [f EXCEPT !.row = row]
  <1>1. row \in Order /\ row.status = "CANCELLED"
    BY DEF IInv, TypeOK, Order, Status
  <1>2. s # "CANCELLED"
    BY DEF Cancel, Cancellable, Allowed
  <1>3. f \in Request /\ f.pc = "cancel" /\ f.groups = NoGroups
    BY FreshFields DEF Pc, Types
  <1>4. Enter(p, x) /\ req[p] = NoRequest /\ UNCHANGED <<order, offers, escalated>>
    BY DEF Cancel, Callable, rows
  <1> HIDE DEF f, row
  <1>5. x \in Request /\ x.pc = "cancel" /\ x.row = row /\ x.groups = NoGroups
    BY <1>1, <1>3 DEF Request
  <1> HIDE DEF x
  <1>6. SavesOnward(x, s, offers)
    BY <1>1, <1>5 DEF SavesOnward
  <1>7. Rest(s, offers, escalated) => Now(x, s, offers, escalated)
    BY <1>2, <1>5, <1>6, NowOfRest DEF Cron
  <1> QED
    BY <1>4, <1>5, <1>7, SerialStart

(* How marking leaves the rows of offers.                                  *)
LEMMA MarkedOpen ==
  ASSUME offers \in Seq(Offer), NEW S,
         NEW m \in {"accepted", "declined", "expired", "cancelled"}
  PROVE  LET os == Marked(S, m) IN
         /\ DOMAIN os = DOMAIN offers
         /\ \A i \in DOMAIN offers :
              /\ os[i].type = offers[i].type /\ os[i].to = offers[i].to
              /\ os[i].batch = offers[i].batch /\ os[i].window = offers[i].window
              /\ os[i].status = IF i \in S THEN m ELSE offers[i].status
         /\ \A t \in Types : Of(os, t) = Of(offers, t) /\ Open(os, t) = Open(offers, t) \ S
  <1> DEFINE os == Marked(S, m)
  <1>1. \A i \in DOMAIN offers : offers[i] \in Offer
    BY OfferRows
  <1>2. /\ DOMAIN os = DOMAIN offers
        /\ \A i \in DOMAIN offers :
              /\ os[i].type = offers[i].type /\ os[i].to = offers[i].to
              /\ os[i].batch = offers[i].batch /\ os[i].window = offers[i].window
              /\ os[i].status = IF i \in S THEN m ELSE offers[i].status
    BY <1>1 DEF Marked, Offer
  <1> HIDE DEF os
  <1>3. \A t \in Types : Of(os, t) = Of(offers, t) /\ Open(os, t) = Open(offers, t) \ S
    BY <1>2 DEF Of, Open
  <1> QED
    BY <1>2, <1>3 DEF os

LEMMA MarkedInOrder ==
  ASSUME offers \in Seq(Offer), NEW S, NEW s, OffersInOrder(s, offers),
         NEW m \in {"declined", "expired", "cancelled"}
  PROVE  /\ OffersInOrder(s, Marked(S, m))
         /\ \A t \in Types : Found(t, s, offers) => Found(t, s, Marked(S, m))
  <1> DEFINE os == Marked(S, m)
  <1>1. /\ DOMAIN os = DOMAIN offers
        /\ \A i \in DOMAIN offers :
              /\ os[i].type = offers[i].type /\ os[i].to = offers[i].to
              /\ os[i].batch = offers[i].batch /\ os[i].window = offers[i].window
              /\ os[i].status = IF i \in S THEN m ELSE offers[i].status
        /\ \A t \in Types : Of(os, t) = Of(offers, t) /\ Open(os, t) = Open(offers, t) \ S
    BY MarkedOpen
  <1> HIDE DEF os
  <1>2. /\ Of(os, "vendor") # {} => s \notin NoVendor
        /\ s = "CANCELLED" => \A t \in Types : Open(os, t) = {}
    BY <1>1 DEF OffersInOrder, Types
  <1>3. \A i, j \in DOMAIN os : os[i].type = os[j].type /\ os[i].to = os[j].to => i = j
    BY <1>1 DEF OffersInOrder
  <1>4. /\ \A i \in DOMAIN os : os[i].status = "pending" => offers[i].status = "pending"
        /\ \A i \in DOMAIN os : os[i].status = "accepted" => offers[i].status = "accepted"
    BY <1>1
  <1>5. \A i, j \in DOMAIN os :
          os[i].type = os[j].type /\ os[i].status = "pending" /\ os[j].status = "pending"
            => os[i].batch = os[j].batch /\ os[i].window = os[j].window
    BY <1>1, <1>4 DEF OffersInOrder
  <1>6. \A i, j \in DOMAIN os :
          os[i].type = os[j].type /\ os[i].status = "accepted" /\ os[j].status = "accepted"
            => i = j
    BY <1>1, <1>4 DEF OffersInOrder
  <1>7. OffersInOrder(s, os)
    BY <1>2, <1>3, <1>5, <1>6 DEF OffersInOrder
  <1>8. \A t \in Types : Found(t, s, offers) => Found(t, s, os)
    BY <1>1, <1>4 DEF Found, Of
  <1> QED
    BY <1>7, <1>8 DEF os

LEMMA SerialCancelCommit ==
  IInv /\ Serial /\ Undisturbed => \A p \in Procs : CancelCommit(p) => Serial'
  <1> SUFFICES ASSUME IInv, Serial, Undisturbed, NEW p \in Procs, CancelCommit(p)
               PROVE  Serial'
    OBVIOUS
  <1> DEFINE r  == req[p]
             S  == PendingOf("rep") \cup PendingOf("vendor")
             os == Marked(S, "cancelled")
  <1>1. /\ r \in Request /\ r # NoRequest /\ r.pc = "cancel"
        /\ Now(r, order.status, offers, escalated) /\ OffersInOrder(order.status, offers)
        /\ offers \in Seq(Offer)
    BY SerialInFlight DEF CancelCommit
  <1>2. r.row.status = "CANCELLED"
    BY <1>1 DEF Now, SavesOnward
  <1>3. order' = r.row /\ offers' = os /\ escalated' = escalated /\ Finish(p)
    BY DEF CancelCommit
  <1>4. OffersInOrder(order.status, os)
    BY <1>1, MarkedInOrder
  <1>5. \A t \in Types : Open(os, t) = {}
    <2>1. \A t \in Types : Open(offers, t) \subseteq S
      BY DEF Open, Of, PendingOf, OffersOf, Types
    <2>2. \A t \in Types : Open(os, t) = Open(offers, t) \ S
      BY <1>1, MarkedOpen
    <2> QED
      BY <2>1, <2>2
  <1> HIDE DEF os
  <1>6. OffersInOrder("CANCELLED", os)
    BY <1>4, <1>5 DEF OffersInOrder, NoVendor
  <1>7. Rest("CANCELLED", os, escalated)
    BY DEF Rest, Found, Asked, Seeks, SeeksRep, SeeksVendor, NoVendor, Broadcasting
  <1>8. Enter(p, NoRequest) /\ \A q \in Procs : q # p => req[q] = NoRequest
    BY <1>1, <1>3, OthersRest DEF Finish
  <1>9. order'.status = "CANCELLED"
    BY <1>2, <1>3
  <1> HIDE DEF r
  <1> QED
    BY <1>3, <1>6, <1>7, <1>8, <1>9, SerialEnter

-----------------------------------------------------------------------------
(* Starting.                                                               *)

LEMMA SerialStarts ==
  IInv /\ Serial /\ Undisturbed' => \A p \in Procs : StartRep(p) \/ SweepPaid(p) => Serial'
  <1> SUFFICES ASSUME IInv, Serial, Undisturbed', NEW p \in Procs, StartRep(p) \/ SweepPaid(p)
               PROVE  Serial'
    OBVIOUS
  <1> DEFINE s == order.status
  <1>1. s = "PAID" /\ req[p] = NoRequest /\ UNCHANGED <<order, offers, escalated>>
    BY DEF StartRep, SweepPaid, Callable, rows
  <1>2. /\ "rep" \in Types /\ "BROADCASTING_REP" \in Targets /\ "BROADCASTING_REP" \in Status
        /\ "broadcast" \in Then /\ Broadcasting("rep") = "BROADCASTING_REP"
    BY DEF Types, Targets, Then, Status, Broadcasting
  <1>3. CASE Enter(p, Moving("rep", "BROADCASTING_REP", "broadcast"))
    <2> DEFINE x == Moving("rep", "BROADCASTING_REP", "broadcast")
    <2>1. x \in Request
      BY <1>2, MovingFields
    <2>2. Rest(s, offers, escalated) => Now(x, s, offers, escalated)
      BY <1>1, <1>2, MovingNow
    <2> QED
      BY <1>1, <1>3, <2>1, <2>2, SerialStart
  <1>4. CASE Enter(p, Fresh("start", "rep"))
    <2> DEFINE x == Fresh("start", "rep")
    <2>1. x \in Request /\ x.pc = "start" /\ x.groups = NoGroups
      BY <1>2, FreshFields DEF Pc
    <2> HIDE DEF x
    <2>2. SavesOnward(x, s, offers)
      BY <2>1 DEF SavesOnward
    <2>3. Rest(s, offers, escalated) => Now(x, s, offers, escalated)
      BY <1>1, <2>1, <2>2, NowOfRest DEF Cron
    <2>4. Enter(p, x)
      BY <1>4 DEF x
    <2> QED
      BY <1>1, <2>1, <2>3, <2>4, SerialStart
  <1> QED
    BY <1>3, <1>4 DEF StartRep, SweepPaid

LEMMA SerialStartSwept ==
  IInv /\ Serial /\ Undisturbed => \A p \in Procs : StartSwept(p) => Serial'
  <1> SUFFICES ASSUME IInv, Serial, Undisturbed, NEW p \in Procs, StartSwept(p) PROVE Serial'
    OBVIOUS
  <1> DEFINE r == req[p]
             s == order.status
             x == Moving("rep", "BROADCASTING_REP", "broadcast")
  <1>1. /\ r \in Request /\ r # NoRequest /\ r.pc = "start" /\ Now(r, s, offers, escalated)
        /\ UNCHANGED <<order, offers, escalated>>
    BY SerialInFlight DEF StartSwept, rows
  <1>2. r.groups = NoGroups
    BY <1>1 DEF Now, AsksInOrder, Cron
  <1>3. Rest(s, offers, escalated)
    BY <1>1, <1>2, RestOfNow DEF Asks
  <1>4. /\ "rep" \in Types /\ "BROADCASTING_REP" \in Targets /\ "BROADCASTING_REP" \in Status
        /\ "broadcast" \in Then /\ Broadcasting("rep") = "BROADCASTING_REP"
    BY DEF Types, Targets, Then, Status, Broadcasting
  <1>5. s = "PAID" => x \in Request /\ Now(x, s, offers, escalated)
    BY <1>3, <1>4, MovingNow
  <1> HIDE DEF x
  <1>6. (s = "PAID" /\ Enter(p, x)) \/ Enter(p, NoRequest)
    BY DEF StartSwept, Finish, x
  <1> QED
    BY <1>1, <1>3, <1>5, <1>6, SerialMove

LEMMA SerialStartVendor ==
  IInv /\ Serial /\ Undisturbed => \A p \in Procs : StartVendor(p) => Serial'
  <1> SUFFICES ASSUME IInv, Serial, Undisturbed, NEW p \in Procs, StartVendor(p) PROVE Serial'
    OBVIOUS
  <1> DEFINE r == req[p]
             s == order.status
  <1>1. /\ r \in Request /\ r # NoRequest /\ r.pc = "startVendor"
        /\ Now(r, s, offers, escalated) /\ order \in Order
        /\ UNCHANGED <<order, offers, escalated>>
    BY SerialInFlight DEF StartVendor, rows
  <1>2. r.groups = NoGroups /\ s = "REP_ASSIGNED"
    BY <1>1 DEF Now, AsksInOrder, SavesOnward, Cron
  <1>3. Rest(s, offers, escalated) /\ \A u \in Types : Found(u, s, offers)
    BY <1>1, <1>2, RestOfNow DEF Asks, Rest
  <1>4. /\ "vendor" \in Types /\ "BROADCASTING_VENDOR" \in Targets
        /\ {"done", "broadcast", "schedule"} \subseteq Then
        /\ Broadcasting("vendor") = "BROADCASTING_VENDOR"
    BY DEF Types, Targets, Then, Broadcasting
  <1>5. ASSUME NEW row \in Order, row.status \in {"SCHEDULED", "VENDOR_ASSIGNED"},
               NEW then \in {"done", "schedule"}, Enter(p, Saving("vendor", row, then))
        PROVE  Serial'
    <2> DEFINE x == Saving("vendor", row, then)
    <2>1. /\ Onward(s, row.status) /\ row.status # "CANCELLED"
          /\ \A u \in Types : row.status # Broadcasting(u)
      BY <1>2, <1>5 DEF Onward, SeeksRep, NoVendor, SeeksVendor, Broadcasting
    <2>2. x \in Request /\ Now(x, s, offers, escalated)
      BY <1>2, <1>3, <1>4, <1>5, <2>1, SavingNow
    <2> QED
      BY <1>1, <1>5, <2>2, SerialMove
  <1>6. CASE Enter(p, Saving("vendor", [order EXCEPT !.status = "SCHEDULED"], "done"))
    <2>1. /\ [order EXCEPT !.status = "SCHEDULED"] \in Order
          /\ [order EXCEPT !.status = "SCHEDULED"].status = "SCHEDULED"
      BY <1>1 DEF Order, Status
    <2> QED
      BY <1>5, <1>6, <2>1
  <1>7. CASE Enter(p, Saving("vendor", [order EXCEPT !.vendor = ChosenVendor,
                                                     !.status = "VENDOR_ASSIGNED"], "schedule"))
    <2> DEFINE row == [order EXCEPT !.vendor = ChosenVendor, !.status = "VENDOR_ASSIGNED"]
    <2>1. row \in Order /\ row.status = "VENDOR_ASSIGNED"
      BY <1>1, AssignmentConstants DEF Order, Status
    <2> QED
      BY <1>5, <1>7, <2>1
  <1>8. CASE Enter(p, Moving("vendor", "BROADCASTING_VENDOR", "broadcast"))
    <2>1. LET x == Moving("vendor", "BROADCASTING_VENDOR", "broadcast") IN
          x \in Request /\ Now(x, s, offers, escalated)
      BY <1>2, <1>3, <1>4, MovingNow
    <2> QED
      BY <1>1, <1>8, <2>1, SerialMove
  <1> QED
    BY <1>6, <1>7, <1>8 DEF StartVendor

-----------------------------------------------------------------------------
(* Broadcasting a batch.                                                   *)

LEMMA LeaveNow ==
  ASSUME NEW r \in Request, r.pc \in {"broadcast", "insert"},
         NEW s, NEW os, NEW e, s # "CANCELLED",
         \A t \in Types : Found(t, s, os),
         \A t \in Types : r.groups[t] # 0 => Of(os, t) # {} /\ Open(os, t) = {},
         \A t \in Types : Asked(t, s, os, e) \/ r.groups[t] # 0
  PROVE  /\ r.groups = NoGroups => Rest(s, os, e)
         /\ LET x == [r EXCEPT !.pc = "regroup"] IN x \in Request /\ Now(x, s, os, e)
  <1>1. r.groups = NoGroups => Rest(s, os, e)
    BY DEF Rest, NoGroups
  <1> DEFINE x == [r EXCEPT !.pc = "regroup"]
  <1>2. x \in Request /\ x.pc = "regroup" /\ x.groups = r.groups
    BY DEF Request, Pc
  <1> HIDE DEF x
  <1>3. SavesOnward(x, s, os)
    BY <1>2 DEF SavesOnward
  <1>4. AsksInOrder(x, s, os)
    BY <1>2 DEF AsksInOrder, Cron
  <1>5. Now(x, s, os, e)
    BY <1>2, <1>3, <1>4 DEF Now, WillAsk
  <1> QED
    BY <1>1, <1>2, <1>5 DEF x

LEMMA SerialBroadcast ==
  IInv /\ Serial /\ Undisturbed => \A p \in Procs : Broadcast(p) => Serial'
  <1> SUFFICES ASSUME IInv, Serial, Undisturbed, NEW p \in Procs, Broadcast(p) PROVE Serial'
    OBVIOUS
  <1> DEFINE r == req[p]
             s == order.status
  <1>1. /\ r \in Request /\ r # NoRequest /\ r.pc = "broadcast" /\ r.type \in Types
        /\ Now(r, s, offers, escalated) /\ offers \in Seq(Offer)
        /\ UNCHANGED <<order, offers, escalated>>
    BY SerialInFlight DEF Broadcast, rows, Request
  <1>2. PICK S \in SUBSET (Party(r.type) \ Notified(r.type)), w \in LastWindow(r.type) :
          Enter(p, [r EXCEPT !.pc = "insert", !.todo = S, !.window = w + 1])
    BY DEF Broadcast
  <1>3. w + 1 \in Nat \ {0} /\ S \subseteq Reps \cup Vendors
    <2>1. lapsed[r.type] \in Nat /\ \A i \in DOMAIN offers : offers[i].window \in Nat
      BY <1>1, OfferRows DEF IInv, TypeOK
    <2>2. w \in Nat
      BY <1>2, <2>1 DEF LastWindow, Latest, OffersOf
    <2> QED
      BY <1>2, <2>2 DEF Party
  <1>4. \A i \in Of(offers, r.type) : offers[i].to \notin S
    BY <1>2 DEF Notified, OffersOf, Of
  <1> DEFINE x == [r EXCEPT !.pc = "insert", !.todo = S, !.window = w + 1]
  <1>5. /\ x \in Request /\ x.pc = "insert" /\ x.type = r.type /\ x.todo = S
        /\ x.groups = r.groups
    BY <1>1, <1>3 DEF Request, Pc
  <1>6. Enter(p, x)
    BY <1>2
  <1> HIDE DEF x, r
  <1>7. SavesOnward(x, s, offers)
    BY <1>5 DEF SavesOnward
  <1>8. AsksInOrder(x, s, offers)
    BY <1>1, <1>4, <1>5 DEF Now, AsksInOrder, Cron
  <1>9. Now(x, s, offers, escalated)
    BY <1>1, <1>5, <1>7, <1>8 DEF Now, WillAsk, Asks
  <1> QED
    BY <1>1, <1>5, <1>6, <1>9, SerialMove DEF r

LEMMA SerialEscalate == IInv /\ Serial /\ Undisturbed => \A p \in Procs : Escalate(p) => Serial'
  <1> SUFFICES ASSUME IInv, Serial, Undisturbed, NEW p \in Procs, Escalate(p) PROVE Serial'
    OBVIOUS
  <1> DEFINE r == req[p]
             s == order.status
             e == escalated \cup {r.type}
             x == [r EXCEPT !.pc = "regroup"]
  <1>1. /\ r \in Request /\ r # NoRequest /\ r.pc = "broadcast" /\ r.type \in Types
        /\ Now(r, s, offers, escalated) /\ OffersInOrder(s, offers)
        /\ order' = order /\ offers' = offers /\ escalated' = e
    BY SerialInFlight DEF Escalate, Request
  <1>2. /\ s # "CANCELLED"
        /\ \A t \in Types : Found(t, s, offers)
        /\ \A t \in Types : r.groups[t] # 0 => Of(offers, t) # {} /\ Open(offers, t) = {}
    BY <1>1 DEF Now, AsksInOrder
  <1>3. \A t \in Types : Asked(t, s, offers, e) \/ r.groups[t] # 0
    BY <1>1 DEF Now, Asked, WillAsk, Asks
  <1>4. /\ r.groups = NoGroups => Rest(s, offers, e)
        /\ x \in Request /\ Now(x, s, offers, e)
    BY <1>1, <1>2, <1>3, LeaveNow
  <1>5. \A q \in Procs : q # p => req[q] = NoRequest
    BY <1>1, OthersRest
  <1> HIDE DEF x, e
  <1>6. (r.groups = NoGroups /\ Enter(p, NoRequest)) \/ Enter(p, x)
    BY DEF Escalate, Leave, Finish, Goto, x
  <1> QED
    BY <1>1, <1>4, <1>5, <1>6, SerialEnter

(* A row more, for somebody not asked yet, in the batch that is open.      *)
LEMMA AppendedOffer ==
  ASSUME offers \in Seq(Offer), NEW e \in Offer, e.status = "pending", e.type \in Types, NEW s,
         s # "CANCELLED", OffersInOrder(s, offers),
         e.type = "vendor" => s \notin NoVendor,
         \A i \in Of(offers, e.type) : offers[i].to # e.to,
         \A i \in Open(offers, e.type) :
           offers[i].batch = e.batch /\ offers[i].window = e.window
  PROVE  LET os == Append(offers, e) IN
         /\ OffersInOrder(s, os)
         /\ \A t \in Types : Found(t, s, offers) => Found(t, s, os)
         /\ Open(os, e.type) # {}
         /\ \A i \in Open(os, e.type) : os[i].batch = e.batch /\ os[i].window = e.window
         /\ \A i \in Of(os, e.type) : (i \in Of(offers, e.type) /\ os[i] = offers[i]) \/ os[i] = e
         /\ \A t \in Types : t # e.type => Of(os, t) = Of(offers, t) /\ Open(os, t) = Open(offers, t)
  <1> DEFINE os == Append(offers, e)
             n  == Len(offers) + 1
  <1>1. /\ os \in Seq(Offer) /\ Len(offers) \in Nat
        /\ DOMAIN os = 1..n /\ DOMAIN offers = 1..Len(offers)
        /\ \A i \in 1..Len(offers) : os[i] = offers[i]
        /\ os[n] = e
    BY AppendProperties
  <1>2. /\ DOMAIN os = DOMAIN offers \cup {n} /\ n \notin DOMAIN offers
        /\ \A i \in DOMAIN offers : os[i] = offers[i]
        /\ os[n] = e
    BY <1>1
  <1> HIDE DEF os, n
  <1>3. \A i, j \in DOMAIN os : os[i].type = os[j].type /\ os[i].to = os[j].to => i = j
    <2>1. \A i \in DOMAIN offers : ~(offers[i].type = e.type /\ offers[i].to = e.to)
      BY DEF Of
    <2>2. \A i, j \in DOMAIN offers :
            offers[i].type = offers[j].type /\ offers[i].to = offers[j].to => i = j
      BY DEF OffersInOrder
    <2> QED
      BY <1>2, <2>1, <2>2
  <1>4. \A i, j \in DOMAIN os :
          os[i].type = os[j].type /\ os[i].status = "pending" /\ os[j].status = "pending"
            => os[i].batch = os[j].batch /\ os[i].window = os[j].window
    <2>1. \A i \in DOMAIN offers : offers[i].type = e.type /\ offers[i].status = "pending"
                                     => offers[i].batch = e.batch /\ offers[i].window = e.window
      BY DEF Of, Open
    <2>2. \A i, j \in DOMAIN offers :
            offers[i].type = offers[j].type
              /\ offers[i].status = "pending" /\ offers[j].status = "pending"
            => offers[i].batch = offers[j].batch /\ offers[i].window = offers[j].window
      BY DEF OffersInOrder
    <2> QED
      BY <1>2, <2>1, <2>2
  <1>5. \A i, j \in DOMAIN os :
          os[i].type = os[j].type /\ os[i].status = "accepted" /\ os[j].status = "accepted"
            => i = j
    <2>1. \A i, j \in DOMAIN offers :
            offers[i].type = offers[j].type
              /\ offers[i].status = "accepted" /\ offers[j].status = "accepted"
            => i = j
      BY DEF OffersInOrder
    <2> QED
      BY <1>2, <2>1
  <1>6. Of(os, "vendor") # {} => s \notin NoVendor
    BY <1>2 DEF Of, OffersInOrder
  <1>7. OffersInOrder(s, os)
    BY <1>3, <1>4, <1>5, <1>6 DEF OffersInOrder
  <1>8. \A t \in Types : Found(t, s, offers) => Found(t, s, os)
    BY <1>2 DEF Found, Of
  <1>9. /\ n \in Open(os, e.type)
        /\ \A i \in Of(os, e.type) : (i \in Of(offers, e.type) /\ os[i] = offers[i]) \/ os[i] = e
    BY <1>2 DEF Of, Open
  <1>10. \A i \in Open(os, e.type) : os[i].batch = e.batch /\ os[i].window = e.window
    BY <1>2 DEF Of, Open
  <1>11. \A t \in Types : t # e.type => Of(os, t) = Of(offers, t) /\ Open(os, t) = Open(offers, t)
    BY <1>2 DEF Of, Open
  <1>12. Open(os, e.type) # {}
    BY <1>9
  <1> QED
    BY <1>7, <1>8, <1>9, <1>10, <1>11, <1>12 DEF os

LEMMA SerialInsert == IInv /\ Serial /\ Undisturbed => \A p \in Procs : Insert(p) => Serial'
  <1> SUFFICES ASSUME IInv, Serial, Undisturbed, NEW p \in Procs, Insert(p) PROVE Serial'
    OBVIOUS
  <1> DEFINE r == req[p]
             s == order.status
  <1>1. /\ r \in Request /\ r # NoRequest /\ r.pc = "insert"
        /\ r.type \in Types /\ r.batch \in Nat \ {0} /\ r.window \in Nat \ {0}
        /\ r.todo \in SUBSET (Reps \cup Vendors)
        /\ Now(r, s, offers, escalated) /\ OffersInOrder(s, offers) /\ offers \in Seq(Offer)
    BY SerialInFlight DEF Insert, Request
  <1>2. PICK z \in r.todo :
          /\ offers' = Append(offers, NewOffer(r, z))
          /\ IF r.todo = {z} THEN Leave(p) ELSE Enter(p, [r EXCEPT !.todo = @ \ {z}])
    BY DEF Insert
  <1> DEFINE e  == NewOffer(r, z)
             os == Append(offers, e)
             x  == [r EXCEPT !.todo = @ \ {z}]
             y  == [r EXCEPT !.pc = "regroup"]
  <1>3. /\ e \in Offer /\ e.type = r.type /\ e.to = z /\ e.status = "pending"
        /\ e.batch = r.batch /\ e.window = r.window
    BY <1>1 DEF NewOffer, Offer
  <1>4. /\ s # "CANCELLED"
        /\ \A t \in Types : Found(t, s, offers)
        /\ \A t \in Types : r.groups[t] # 0 => Of(offers, t) # {} /\ Open(offers, t) = {}
        /\ r.groups[r.type] = 0
        /\ r.type = "vendor" => s \notin NoVendor
        /\ \A i \in Open(offers, r.type) : offers[i].batch = r.batch /\ offers[i].window = r.window
        /\ \A i \in Of(offers, r.type) : offers[i].to \notin r.todo
    BY <1>1 DEF Now, AsksInOrder
  <1> HIDE DEF e
  <1>5. /\ OffersInOrder(s, os)
        /\ \A t \in Types : Found(t, s, offers) => Found(t, s, os)
        /\ Open(os, r.type) # {}
        /\ \A i \in Open(os, r.type) : os[i].batch = r.batch /\ os[i].window = r.window
        /\ \A i \in Of(os, r.type) : (i \in Of(offers, r.type) /\ os[i] = offers[i]) \/ os[i] = e
        /\ \A t \in Types : t # r.type => Of(os, t) = Of(offers, t) /\ Open(os, t) = Open(offers, t)
    <2>1. /\ e \in Offer /\ e.status = "pending" /\ e.type \in Types
          /\ s # "CANCELLED" /\ OffersInOrder(s, offers)
          /\ e.type = "vendor" => s \notin NoVendor
          /\ \A i \in Of(offers, e.type) : offers[i].to # e.to
          /\ \A i \in Open(offers, e.type) :
               offers[i].batch = e.batch /\ offers[i].window = e.window
      BY <1>1, <1>2, <1>3, <1>4
    <2> HIDE DEF r, s
    <2> QED
      BY <1>1, <1>3, <2>1, AppendedOffer
  <1>6. offers' = os /\ order' = order /\ escalated' = escalated
    BY <1>2 DEF Insert, e
  <1>7. \A q \in Procs : q # p => req[q] = NoRequest
    BY <1>1, OthersRest
  <1> HIDE DEF os
  <1>8. \A t \in Types : Asked(t, s, os, escalated) \/ r.groups[t] # 0
    <2>1. Asked(r.type, s, os, escalated)
      BY <1>5 DEF Asked
    <2>2. \A t \in Types : t # r.type => Asked(t, s, offers, escalated) \/ r.groups[t] # 0
      BY <1>1 DEF Now, WillAsk
    <2> QED
      BY <1>5, <2>1, <2>2 DEF Asked
  <1>9. /\ \A t \in Types : r.groups[t] # 0 => Of(os, t) # {} /\ Open(os, t) = {}
        /\ \A t \in Types : Found(t, s, os)
    BY <1>4, <1>5
  <1>10. CASE Leave(p)
    <2>1. /\ r.groups = NoGroups => Rest(s, os, escalated)
          /\ y \in Request /\ Now(y, s, os, escalated)
      BY <1>1, <1>4, <1>8, <1>9, LeaveNow
    <2> HIDE DEF y
    <2>2. (r.groups = NoGroups /\ Enter(p, NoRequest)) \/ Enter(p, y)
      BY <1>10 DEF Leave, Finish, Goto, y
    <2> QED
      BY <1>5, <1>6, <1>7, <2>1, <2>2, SerialEnter
  <1>11. CASE Enter(p, x)
    <2>1. /\ x \in Request /\ x.pc = "insert" /\ x.type = r.type /\ x.todo = r.todo \ {z}
          /\ x.groups = r.groups /\ x.batch = r.batch /\ x.window = r.window
      BY <1>1 DEF Request
    <2> HIDE DEF x
    <2>2. \A i \in Of(os, r.type) : os[i].to \notin x.todo
      BY <1>3, <1>4, <1>5, <2>1
    <2>3. SavesOnward(x, s, os)
      BY <2>1 DEF SavesOnward
    <2>4. AsksInOrder(x, s, os)
      BY <1>1, <1>4, <1>5, <1>9, <2>1, <2>2 DEF AsksInOrder, Cron
    <2>5. Now(x, s, os, escalated)
      BY <1>4, <1>8, <1>9, <2>1, <2>3, <2>4 DEF Now, WillAsk
    <2> QED
      BY <1>5, <1>6, <1>7, <1>11, <2>1, <2>5, SerialEnter
  <1> QED
    BY <1>2, <1>10, <1>11

-----------------------------------------------------------------------------
(* Answers.                                                                *)

LEMMA SerialAnswers ==
  IInv /\ Serial /\ Undisturbed' =>
    \A p \in Procs : \A i \in DOMAIN offers : Accept(p, i) \/ Decline(p, i) => Serial'
  <1> SUFFICES ASSUME IInv, Serial, Undisturbed', NEW p \in Procs, NEW i \in DOMAIN offers,
                      Accept(p, i) \/ Decline(p, i)
               PROVE  Serial'
    OBVIOUS
  <1> DEFINE s == order.status
  <1>1. /\ i \in PendingOf(offers[i].type) /\ req[p] = NoRequest
        /\ UNCHANGED <<order, offers, escalated>>
    BY DEF Accept, Decline, Callable, rows
  <1>2. offers[i].type \in Types /\ i \in Nat /\ offers[i].batch + 1 \in Nat \ {0}
    BY OfferRows DEF IInv, TypeOK
  <1>3. s # "CANCELLED"
    BY <1>1, <1>2 DEF Serial, OffersInOrder, Open, Of, PendingOf, OffersOf
  <1>4. ASSUME NEW x \in Request, x.pc \in {"accept.order", "decline.save"},
               x.groups = NoGroups, Enter(p, x)
        PROVE  Serial'
    <2>1. SavesOnward(x, s, offers)
      BY <1>4 DEF SavesOnward
    <2>2. Rest(s, offers, escalated) => Now(x, s, offers, escalated)
      BY <1>3, <1>4, <2>1, NowOfRest DEF Cron
    <2> QED
      BY <1>1, <1>4, <2>2, SerialStart
  <1>5. CASE Accept(p, i)
    <2> DEFINE f == Fresh("accept.order", offers[i].type)
               x == [f EXCEPT !.offer = i]
    <2>1. f \in Request /\ f.pc = "accept.order" /\ f.groups = NoGroups
      BY <1>2, FreshFields DEF Pc
    <2> HIDE DEF f
    <2>2. x \in Request /\ x.pc = "accept.order" /\ x.groups = NoGroups
      BY <1>2, <2>1 DEF Request
    <2>3. Enter(p, x)
      BY <1>5 DEF Accept, f
    <2> QED
      BY <1>4, <2>2, <2>3
  <1>6. CASE Decline(p, i)
    <2> DEFINE f == Fresh("decline.save", offers[i].type)
               x == [f EXCEPT !.offer = i, !.batch = offers[i].batch + 1]
    <2>1. f \in Request /\ f.pc = "decline.save" /\ f.groups = NoGroups
      BY <1>2, FreshFields DEF Pc
    <2> HIDE DEF f
    <2>2. x \in Request /\ x.pc = "decline.save" /\ x.groups = NoGroups
      BY <1>2, <2>1 DEF Request
    <2>3. Enter(p, x)
      BY <1>6 DEF Decline, f
    <2> QED
      BY <1>4, <2>2, <2>3
  <1> QED
    BY <1>5, <1>6

LEMMA SerialAcceptOrder ==
  IInv /\ Serial /\ Undisturbed => \A p \in Procs : AcceptOrder(p) => Serial'
  <1> SUFFICES ASSUME IInv, Serial, Undisturbed, NEW p \in Procs, AcceptOrder(p) PROVE Serial'
    OBVIOUS
  <1> DEFINE r == req[p]
             s == order.status
             x == [r EXCEPT !.pc = "accept.offer", !.row = order]
  <1>1. /\ r \in Request /\ r # NoRequest /\ r.pc = "accept.order"
        /\ Now(r, s, offers, escalated) /\ order \in Order
        /\ UNCHANGED <<order, offers, escalated>>
    BY SerialInFlight DEF AcceptOrder, rows
  <1>2. r.groups = NoGroups /\ s # "CANCELLED"
    BY <1>1 DEF Now, AsksInOrder, Cron
  <1>3. Rest(s, offers, escalated)
    BY <1>1, <1>2, RestOfNow DEF Asks
  <1>4. s = Broadcasting(r.type) => x \in Request /\ Now(x, s, offers, escalated)
    <2> SUFFICES ASSUME s = Broadcasting(r.type)
                 PROVE  x \in Request /\ Now(x, s, offers, escalated)
      OBVIOUS
    <2>1. /\ x \in Request /\ x.pc = "accept.offer" /\ x.type = r.type
          /\ x.groups = NoGroups
      BY <1>1, <1>2 DEF Request, Pc
    <2> HIDE DEF x
    <2>2. SavesOnward(x, s, offers)
      BY <2>1 DEF SavesOnward
    <2> QED
      BY <1>2, <1>3, <2>1, <2>2, NowOfRest DEF Cron
  <1>5. (s = Broadcasting(r.type) /\ Enter(p, x)) \/ Enter(p, NoRequest)
    BY DEF AcceptOrder, Finish
  <1> HIDE DEF x
  <1> QED
    BY <1>1, <1>3, <1>4, <1>5, SerialMove

LEMMA SerialAcceptOffer ==
  IInv /\ Serial /\ Undisturbed => \A p \in Procs : AcceptOffer(p) => Serial'
  <1> SUFFICES ASSUME IInv, Serial, Undisturbed, NEW p \in Procs, AcceptOffer(p) PROVE Serial'
    OBVIOUS
  <1> DEFINE r  == req[p]
             s  == order.status
             i  == r.offer
             os == Marked({i}, "accepted")
             x  == [r EXCEPT !.pc = "accept.cancel"]
  <1>1. /\ r \in Request /\ r # NoRequest /\ r.pc = "accept.offer" /\ r.type \in Types
        /\ Now(r, s, offers, escalated) /\ OffersInOrder(s, offers)
        /\ i \in DOMAIN offers /\ offers[i].type = r.type /\ offers \in Seq(Offer)
    BY SerialInFlight DEF AcceptOffer, Agrees, Answers, Request
  <1>2. order' = order /\ offers' = os /\ escalated' = escalated /\ Enter(p, x)
    BY DEF AcceptOffer, Goto
  <1>3. /\ DOMAIN os = DOMAIN offers
        /\ \A j \in DOMAIN offers :
              /\ os[j].type = offers[j].type /\ os[j].to = offers[j].to
              /\ os[j].batch = offers[j].batch /\ os[j].window = offers[j].window
              /\ os[j].status = IF j \in {i} THEN "accepted" ELSE offers[j].status
        /\ \A t \in Types : Of(os, t) = Of(offers, t) /\ Open(os, t) = Open(offers, t) \ {i}
    BY <1>1, MarkedOpen
  <1>4. s # "CANCELLED" /\ s = Broadcasting(r.type) /\ r.groups = NoGroups
    BY <1>1 DEF Now, SavesOnward, AsksInOrder, Cron
  <1>5. \A t \in Types : Found(t, s, offers)
    BY <1>1 DEF Now
  <1>6. \A j \in DOMAIN offers : offers[j].type = r.type => offers[j].status # "accepted"
    <2>1. s \in Seeks(r.type)
      BY <1>1, <1>4 DEF Seeks, SeeksRep, SeeksVendor, Broadcasting, Types
    <2> QED
      BY <1>1, <1>5, <2>1 DEF Found, Of
  <1>7. /\ x \in Request /\ x.pc = "accept.cancel" /\ x.type = r.type
        /\ x.groups = NoGroups
    BY <1>1, <1>4 DEF Request, Pc
  <1> HIDE DEF os, x, i, r, s
  <1>8. OffersInOrder(s, os)
    <2>1. \A j, k \in DOMAIN os : os[j].type = os[k].type /\ os[j].to = os[k].to => j = k
      BY <1>1, <1>3 DEF OffersInOrder
    <2>2. \A j \in DOMAIN os : os[j].status = "pending" => offers[j].status = "pending"
      BY <1>3
    <2>3. \A j, k \in DOMAIN os :
            os[j].type = os[k].type /\ os[j].status = "pending" /\ os[k].status = "pending"
              => os[j].batch = os[k].batch /\ os[j].window = os[k].window
      BY <1>1, <1>3, <2>2 DEF OffersInOrder
    <2>4. \A j \in DOMAIN os : os[j].status = "accepted" => j = i \/ offers[j].status = "accepted"
      BY <1>3
    <2>5. \A j \in DOMAIN os : os[j].type = r.type /\ os[j].status = "accepted" => j = i
      BY <1>3, <1>6, <2>4
    <2>6. \A j, k \in DOMAIN os :
            os[j].type = os[k].type /\ os[j].status = "accepted" /\ os[k].status = "accepted"
              => j = k
      BY <1>1, <1>3, <2>4, <2>5 DEF OffersInOrder
    <2>7. Of(os, "vendor") # {} => s \notin NoVendor
      BY <1>1, <1>3 DEF OffersInOrder, Types
    <2> QED
      BY <1>4, <2>1, <2>3, <2>6, <2>7 DEF OffersInOrder
  <1>9. SavesOnward(x, s, os)
    BY <1>4, <1>7 DEF SavesOnward
  <1>10. AsksInOrder(x, s, os)
    BY <1>7 DEF AsksInOrder, NoGroups
  <1>11. \A t \in Types : t # r.type => Found(t, s, os)
    BY <1>1, <1>3, <1>5 DEF Found, Of
  <1>12. \A t \in Types : t # r.type => Asked(t, s, os, escalated)
    BY <1>1, <1>4 DEF Asked, Broadcasting, Types
  <1>13. Now(x, s, os, escalated)
    BY <1>4, <1>7, <1>9, <1>10, <1>11, <1>12 DEF Now, WillAsk, Asks
  <1>14. \A q \in Procs : q # p => req[q] = NoRequest
    BY <1>1, OthersRest DEF r
  <1> QED
    BY <1>2, <1>7, <1>8, <1>13, <1>14, SerialEnter DEF s

LEMMA SerialAcceptCancel ==
  IInv /\ Serial /\ Undisturbed => \A p \in Procs : AcceptCancel(p) => Serial'
  <1> SUFFICES ASSUME IInv, Serial, Undisturbed, NEW p \in Procs, AcceptCancel(p) PROVE Serial'
    OBVIOUS
  <1> DEFINE r  == req[p]
             s  == order.status
             z  == offers[r.offer].to
             S  == PendingOf(r.type) \ {r.offer}
             os == Marked(S, "cancelled")
  <1>1. /\ r \in Request /\ r # NoRequest /\ r.pc = "accept.cancel" /\ r.type \in Types
        /\ r.row \in Order /\ r.offer \in DOMAIN offers /\ offers[r.offer].type = r.type
        /\ Now(r, s, offers, escalated) /\ OffersInOrder(s, offers) /\ offers \in Seq(Offer)
    BY SerialInFlight DEF AcceptCancel, Agrees, Answers, Request
  <1>2. s # "CANCELLED" /\ s = Broadcasting(r.type)
    BY <1>1 DEF Now, SavesOnward
  <1>3. \A t \in Types : t # r.type => Found(t, s, offers)
    BY <1>1 DEF Now
  <1>4. /\ OffersInOrder(s, os)
        /\ \A t \in Types : Found(t, s, offers) => Found(t, s, os)
    BY <1>1, MarkedInOrder
  <1>5. z \in Party(r.type)
    BY <1>1 DEF IInv, OffersToParties
  <1>6. order' = order /\ offers' = os /\ escalated' = escalated
    BY DEF AcceptCancel
  <1>7. \A q \in Procs : q # p => req[q] = NoRequest
    BY <1>1, OthersRest
  <1> HIDE DEF os, S
  <1>8. {"startVendor", "schedule"} \subseteq Then /\ "vendor" \in Types
    BY DEF Then, Types
  <1>9. CASE r.type = "rep"
    <2> DEFINE row == [r.row EXCEPT !.rep = z, !.status = "REP_ASSIGNED"]
               x   == Saving("vendor", row, "startVendor")
    <2>1. row \in Order /\ row.status = "REP_ASSIGNED"
      BY <1>1, <1>5, <1>9 DEF Order, Status, Party
    <2>2. Enter(p, x)
      BY <1>9 DEF AcceptCancel
    <2>3. /\ Onward(s, row.status)
          /\ \A u \in Types : row.status # Broadcasting(u)
          /\ row.status \notin Seeks("rep")
      BY <1>2, <1>9, <2>1 DEF Onward, SeeksRep, NoVendor, SeeksVendor, Broadcasting, Seeks
    <2>4. \A u \in Types : Found(u, s, os) \/ row.status \notin Seeks(u)
      BY <1>3, <1>4, <1>9, <2>3
    <2> HIDE DEF row, r, s
    <2>5. x \in Request /\ Now(x, s, os, escalated)
      BY <1>2, <1>8, <2>1, <2>3, <2>4, SavingNow
    <2> QED
      BY <1>4, <1>6, <1>7, <2>2, <2>5, SerialEnter DEF s
  <1>10. CASE r.type = "vendor"
    <2> DEFINE row == [r.row EXCEPT !.vendor = z, !.status = "VENDOR_ASSIGNED"]
               x   == Saving("vendor", row, "schedule")
    <2>1. row \in Order /\ row.status = "VENDOR_ASSIGNED"
      BY <1>1, <1>5, <1>10 DEF Order, Status, Party
    <2>2. Enter(p, x)
      BY <1>10 DEF AcceptCancel
    <2>3. /\ Onward(s, row.status)
          /\ \A u \in Types : row.status # Broadcasting(u)
          /\ row.status \notin Seeks("vendor")
      BY <1>2, <1>10, <2>1 DEF Onward, SeeksRep, NoVendor, SeeksVendor, Broadcasting, Seeks
    <2>4. \A u \in Types : Found(u, s, os) \/ row.status \notin Seeks(u)
      BY <1>3, <1>4, <1>10, <2>3
    <2> HIDE DEF row, r, s
    <2>5. x \in Request /\ Now(x, s, os, escalated)
      BY <1>2, <1>8, <2>1, <2>3, <2>4, SavingNow
    <2> QED
      BY <1>4, <1>6, <1>7, <2>2, <2>5, SerialEnter DEF s
  <1> QED
    BY <1>1, <1>9, <1>10 DEF Types

LEMMA SerialDeclineSave ==
  IInv /\ Serial /\ Undisturbed => \A p \in Procs : DeclineSave(p) => Serial'
  <1> SUFFICES ASSUME IInv, Serial, Undisturbed, NEW p \in Procs, DeclineSave(p) PROVE Serial'
    OBVIOUS
  <1> DEFINE r  == req[p]
             s  == order.status
             i  == r.offer
             os == Marked({i}, "declined")
             x  == [r EXCEPT !.pc = "decline.count"]
  <1>1. /\ r \in Request /\ r # NoRequest /\ r.pc = "decline.save" /\ r.type \in Types
        /\ Now(r, s, offers, escalated) /\ OffersInOrder(s, offers)
        /\ i \in DOMAIN offers /\ offers[i].type = r.type /\ offers \in Seq(Offer)
    BY SerialInFlight DEF DeclineSave, Agrees, Answers, Request
  <1>2. order' = order /\ offers' = os /\ escalated' = escalated /\ Enter(p, x)
    BY DEF DeclineSave, Goto
  <1>3. s # "CANCELLED" /\ r.groups = NoGroups
    BY <1>1 DEF Now, AsksInOrder, Cron
  <1>4. Rest(s, offers, escalated)
    BY <1>1, <1>3, RestOfNow DEF Asks
  <1>5. /\ OffersInOrder(s, os)
        /\ \A t \in Types : Found(t, s, offers) => Found(t, s, os)
        /\ \A t \in Types : Open(os, t) = Open(offers, t) \ {i}
    <2>1. offers \in Seq(Offer) /\ OffersInOrder(s, offers)
      BY <1>1
    <2> HIDE DEF r, s, i
    <2>2. /\ OffersInOrder(s, os)
          /\ \A t \in Types : Found(t, s, offers) => Found(t, s, os)
      BY <2>1, MarkedInOrder
    <2>3. \A t \in Types : Open(os, t) = Open(offers, t) \ {i}
      BY <2>1, MarkedOpen
    <2> QED
      BY <2>2, <2>3
  <1>6. /\ x \in Request /\ x.pc = "decline.count" /\ x.type = r.type
        /\ x.groups = NoGroups
    BY <1>1, <1>3 DEF Request, Pc
  <1>7. \A q \in Procs : q # p => req[q] = NoRequest
    BY <1>1, OthersRest
  <1> HIDE DEF os, x
  <1>8. SavesOnward(x, s, os)
    BY <1>6 DEF SavesOnward
  <1>9. AsksInOrder(x, s, os)
    BY <1>6 DEF AsksInOrder, NoGroups
  <1>10. \A t \in Types : t # r.type => Asked(t, s, os, escalated)
    <2>1. \A t \in Types : t # r.type => i \notin Open(offers, t)
      BY <1>1 DEF Open, Of
    <2> QED
      BY <1>4, <1>5, <2>1 DEF Rest, Asked
  <1>11. Now(x, s, os, escalated)
    BY <1>3, <1>4, <1>5, <1>6, <1>8, <1>9, <1>10 DEF Now, Rest, WillAsk, Asks
  <1> QED
    BY <1>2, <1>5, <1>6, <1>7, <1>11, SerialEnter

LEMMA SerialDeclineLater ==
  IInv /\ Serial /\ Undisturbed =>
    \A p \in Procs : DeclineCount(p) \/ DeclineAdvance(p) => Serial'
  <1> SUFFICES ASSUME IInv, Serial, Undisturbed, NEW p \in Procs,
                      DeclineCount(p) \/ DeclineAdvance(p)
               PROVE  Serial'
    OBVIOUS
  <1> DEFINE r == req[p]
             s == order.status
             x(pc) == [r EXCEPT !.pc = pc]
  <1>1. /\ r \in Request /\ r # NoRequest /\ r.pc \in {"decline.count", "decline.advance"}
        /\ r.type \in Types /\ Now(r, s, offers, escalated)
        /\ UNCHANGED <<order, offers, escalated>>
    BY SerialInFlight DEF DeclineCount, DeclineAdvance, rows, Request
  <1>2. s # "CANCELLED" /\ r.groups = NoGroups /\ \A t \in Types : Found(t, s, offers)
    BY <1>1 DEF Now, AsksInOrder, Cron
  <1>3. \A t \in Types : t # r.type => Asked(t, s, offers, escalated)
    BY <1>1, <1>2 DEF Now, WillAsk, NoGroups
  <1>4. Asked(r.type, s, offers, escalated) => Rest(s, offers, escalated)
    BY <1>2, <1>3 DEF Rest
  <1>5. ASSUME NEW pc \in {"decline.advance", "broadcast"}, Open(offers, r.type) = {},
               pc = "broadcast" => s = Broadcasting(r.type)
        PROVE  x(pc) \in Request /\ Now(x(pc), s, offers, escalated)
    <2> DEFINE y == x(pc)
    <2>1. y \in Request /\ y.pc = pc /\ y.type = r.type /\ y.groups = NoGroups
      BY <1>1, <1>2 DEF Request, Pc
    <2> HIDE DEF y
    <2>2. SavesOnward(y, s, offers)
      BY <1>5, <2>1 DEF SavesOnward
    <2>3. AsksInOrder(y, s, offers)
      BY <1>1, <1>5, <2>1 DEF AsksInOrder, NoGroups, Broadcasting, NoVendor
    <2>4. Now(y, s, offers, escalated)
      BY <1>2, <1>3, <1>5, <2>1, <2>2, <2>3 DEF Now, WillAsk, Asks
    <2> QED
      BY <2>1, <2>4 DEF y
  <1>6. CASE DeclineCount(p)
    <2>1. PendingOf(r.type) = Open(offers, r.type)
      BY DEF PendingOf, OffersOf, Open, Of
    <2>2. \/ Open(offers, r.type) = {} /\ Enter(p, x("decline.advance"))
          \/ Open(offers, r.type) # {} /\ Enter(p, NoRequest)
      BY <1>6, <2>1 DEF DeclineCount, Goto, Finish
    <2>3. Open(offers, r.type) # {} => Asked(r.type, s, offers, escalated)
      BY DEF Asked
    <2> HIDE DEF x
    <2> QED
      BY <1>1, <1>4, <1>5, <2>2, <2>3, SerialMove
  <1>7. CASE DeclineAdvance(p)
    <2>1. Open(offers, r.type) = {}
      BY <1>1, <1>7 DEF Now, AsksInOrder, DeclineAdvance, At
    <2>2. \/ s = Broadcasting(r.type) /\ Enter(p, x("broadcast"))
          \/ s # Broadcasting(r.type) /\ Enter(p, NoRequest)
      BY <1>7 DEF DeclineAdvance, Goto, Finish
    <2>3. s # Broadcasting(r.type) => Asked(r.type, s, offers, escalated)
      BY DEF Asked
    <2> HIDE DEF x
    <2> QED
      BY <1>1, <1>4, <1>5, <2>1, <2>2, <2>3, SerialMove
  <1> QED
    BY <1>6, <1>7

-----------------------------------------------------------------------------
(* The expiry cron, time, and the end.                                     *)

LEMMA SerialExpire == IInv /\ Serial /\ Undisturbed' => \A p \in Procs : Expire(p) => Serial'
  <1> SUFFICES ASSUME IInv, Serial, Undisturbed', NEW p \in Procs, Expire(p) PROVE Serial'
    OBVIOUS
  <1> DEFINE s == order.status
  <1>1. PICK g \in NextBatches(Expired) :
          Enter(p, [Fresh("expire", "rep") EXCEPT !.ids = Expired, !.groups = g])
    BY DEF Expire
  <1>2. /\ offers \in Seq(Offer) /\ OffersInOrder(s, offers)
        /\ req[p] = NoRequest /\ UNCHANGED <<order, offers, escalated>>
    BY DEF IInv, TypeOK, Serial, Expire, Callable, rows
  <1>3. \A i \in Expired : /\ i \in DOMAIN offers /\ i \in Nat /\ offers[i].batch \in Nat \ {0}
                           /\ i \in Open(offers, offers[i].type) /\ offers[i].type \in Types
                           /\ offers[i].window <= lapsed[offers[i].type]
    BY <1>2, OfferRows DEF Expired, PendingOf, OffersOf, Open, Of, Lapsed
  <1>4. g \in [Types -> Nat]
    BY <1>1, <1>3 DEF NextBatches
  <1>5. s # "CANCELLED"
    <2>1. PICK i : i \in Expired
      BY DEF Expire
    <2> QED
      BY <1>2, <1>3, <2>1 DEF OffersInOrder
  <1>6. \A t \in Types : g[t] # 0 <=> Expired \cap Of(offers, t) # {}
    <2> SUFFICES ASSUME NEW t \in Types
                 PROVE  g[t] # 0 <=> Expired \cap Of(offers, t) # {}
      OBVIOUS
    <2>1. CASE Expired \cap Of(offers, t) = {}
      BY <1>1, <2>1 DEF NextBatches, OffersOf, Of
    <2>2. CASE Expired \cap Of(offers, t) # {}
      <3>1. g[t] - 1 \in {offers[i].batch : i \in Expired \cap Of(offers, t)}
        BY <1>1, <2>2 DEF NextBatches, OffersOf, Of, Latest
      <3> QED
        BY <1>3, <1>4, <2>2, <3>1
    <2> QED
      BY <2>1, <2>2
  <1>7. \A t \in Types : g[t] # 0 => Open(offers, t) \subseteq Expired
    <2> SUFFICES ASSUME NEW t \in Types, g[t] # 0, NEW j \in Open(offers, t)
                 PROVE  j \in Expired
      OBVIOUS
    <2>1. PICK i : i \in Expired /\ i \in Of(offers, t)
      BY <1>6
    <2>2. /\ i \in DOMAIN offers /\ j \in DOMAIN offers
          /\ offers[i].type = t /\ offers[j].type = t
          /\ offers[i].status = "pending" /\ offers[j].status = "pending"
      BY <1>3, <2>1 DEF Open, Of
    <2>3. offers[j].window = offers[i].window
      BY <1>2, <2>2 DEF OffersInOrder
    <2>4. Lapsed(j)
      BY <1>3, <2>1, <2>2, <2>3 DEF Lapsed
    <2> QED
      BY <2>2, <2>4 DEF Expired, PendingOf, OffersOf, Types
  <1> DEFINE f == Fresh("expire", "rep")
             h == [f EXCEPT !.ids = Expired]
             x == [f EXCEPT !.ids = Expired, !.groups = g]
  <1>8. f \in Request /\ f.pc = "expire"
    BY FreshFields DEF Pc, Types
  <1> HIDE DEF f
  <1>9. h \in Request /\ h.pc = "expire" /\ h.ids = Expired
    BY <1>3, <1>8 DEF Request
  <1>10. x = [h EXCEPT !.groups = g]
    OBVIOUS
  <1> HIDE DEF h, x
  <1>11. x \in Request /\ x.pc = "expire" /\ x.ids = Expired /\ x.groups = g
    BY <1>4, <1>9, <1>10 DEF Request
  <1>12. Enter(p, x)
    BY <1>1 DEF x, f
  <1>13. SavesOnward(x, s, offers)
    BY <1>11 DEF SavesOnward
  <1>14. AsksInOrder(x, s, offers)
    BY <1>6, <1>7, <1>11 DEF AsksInOrder, Cron
  <1>15. Rest(s, offers, escalated) => Now(x, s, offers, escalated)
    BY <1>5, <1>13, <1>14 DEF Now, Rest
  <1> QED
    BY <1>2, <1>11, <1>12, <1>15, SerialStart

LEMMA SerialExpireSave ==
  IInv /\ Serial /\ Undisturbed => \A p \in Procs : ExpireSave(p) => Serial'
  <1> SUFFICES ASSUME IInv, Serial, Undisturbed, NEW p \in Procs, ExpireSave(p) PROVE Serial'
    OBVIOUS
  <1> DEFINE r == req[p]
             s == order.status
  <1>1. /\ r \in Request /\ r # NoRequest /\ r.pc = "expire"
        /\ Now(r, s, offers, escalated) /\ OffersInOrder(s, offers) /\ offers \in Seq(Offer)
    BY SerialInFlight DEF ExpireSave
  <1>2. PICK i \in r.ids :
          /\ offers' = Marked({i}, "expired")
          /\ Enter(p, [r EXCEPT !.ids = @ \ {i},
                                !.pc = IF r.ids = {i} THEN "regroup" ELSE "expire"])
    BY DEF ExpireSave
  <1> DEFINE os == Marked({i}, "expired")
             pc == IF r.ids = {i} THEN "regroup" ELSE "expire"
             x  == [r EXCEPT !.ids = @ \ {i}, !.pc = pc]
  <1>3. /\ OffersInOrder(s, os)
        /\ \A t \in Types : Found(t, s, offers) => Found(t, s, os)
        /\ \A t \in Types : Of(os, t) = Of(offers, t) /\ Open(os, t) = Open(offers, t) \ {i}
    BY <1>1, MarkedInOrder, MarkedOpen
  <1>4. /\ s # "CANCELLED"
        /\ \A t \in Types : Found(t, s, offers)
        /\ \A t \in Types : Asked(t, s, offers, escalated) \/ r.groups[t] # 0
        /\ \A t \in Types : r.groups[t] # 0 => Of(offers, t) # {} /\ Open(offers, t) \subseteq r.ids
        /\ \A t \in Types : r.ids \cap Of(offers, t) # {} => r.groups[t] # 0
    BY <1>1 DEF Now, AsksInOrder, WillAsk, Asks
  <1>5. /\ x \in Request /\ x.pc = pc /\ x.ids = r.ids \ {i} /\ x.groups = r.groups
    BY <1>1 DEF Request, Pc
  <1>6. order' = order /\ offers' = os /\ escalated' = escalated /\ Enter(p, x)
    BY <1>2 DEF ExpireSave
  <1>7. \A q \in Procs : q # p => req[q] = NoRequest
    BY <1>1, OthersRest
  <1>8. pc = "expire" \/ (pc = "regroup" /\ x.ids = {})
    BY <1>5
  <1> HIDE DEF x, os, pc
  <1>9. SavesOnward(x, s, os)
    BY <1>5, <1>8 DEF SavesOnward
  <1>10. AsksInOrder(x, s, os)
    <2>1. \A t \in Types : r.groups[t] # 0 => Open(os, t) \subseteq x.ids
      BY <1>3, <1>4, <1>5
    <2> QED
      BY <1>3, <1>4, <1>5, <1>8, <2>1 DEF AsksInOrder, Cron
  <1>11. \A t \in Types : Asked(t, s, os, escalated) \/ r.groups[t] # 0
    <2>1. \A t \in Types : r.groups[t] = 0 => i \notin Open(offers, t)
      BY <1>4 DEF Open
    <2> QED
      BY <1>3, <1>4, <2>1 DEF Asked
  <1>12. Now(x, s, os, escalated)
    BY <1>3, <1>4, <1>5, <1>9, <1>10, <1>11 DEF Now, WillAsk
  <1> QED
    BY <1>3, <1>5, <1>6, <1>7, <1>12, SerialEnter

LEMMA SerialRegroup == IInv /\ Serial /\ Undisturbed => \A p \in Procs : Regroup(p) => Serial'
  <1> SUFFICES ASSUME IInv, Serial, Undisturbed, NEW p \in Procs, Regroup(p) PROVE Serial'
    OBVIOUS
  <1> DEFINE r == req[p]
             s == order.status
  <1>1. /\ r \in Request /\ r # NoRequest /\ r.pc = "regroup" /\ r.groups \in [Types -> Nat]
        /\ Now(r, s, offers, escalated) /\ OffersInOrder(s, offers)
        /\ UNCHANGED <<order, offers, escalated>>
    BY SerialInFlight DEF Regroup, Request, rows
  <1>2. PICK t \in Types :
          /\ r.groups[t] # 0
          /\ Enter(p, [r EXCEPT !.pc = "broadcast", !.type = t, !.batch = r.groups[t],
                                !.groups[t] = 0])
    BY DEF Regroup
  <1> DEFINE x == [r EXCEPT !.pc = "broadcast", !.type = t, !.batch = r.groups[t],
                            !.groups[t] = 0]
  <1>3. /\ x \in Request /\ x.pc = "broadcast" /\ x.type = t
        /\ x.groups = [r.groups EXCEPT ![t] = 0]
    BY <1>1, <1>2 DEF Request, Pc
  <1>4. x.groups[t] = 0 /\ \A u \in Types : u # t => x.groups[u] = r.groups[u]
    BY <1>1, <1>3
  <1> HIDE DEF x
  <1>5. /\ s # "CANCELLED"
        /\ \A u \in Types : Found(u, s, offers)
        /\ \A u \in Types : Asked(u, s, offers, escalated) \/ r.groups[u] # 0
        /\ \A u \in Types : r.groups[u] # 0 => Of(offers, u) # {} /\ Open(offers, u) = {}
    BY <1>1 DEF Now, AsksInOrder, WillAsk, Asks
  <1>6. t = "vendor" => s \notin NoVendor
    BY <1>1, <1>2, <1>5 DEF OffersInOrder
  <1>7. SavesOnward(x, s, offers)
    BY <1>3 DEF SavesOnward
  <1>8. AsksInOrder(x, s, offers)
    BY <1>2, <1>3, <1>4, <1>5, <1>6 DEF AsksInOrder, Cron
  <1>9. Now(x, s, offers, escalated)
    BY <1>3, <1>4, <1>5, <1>7, <1>8 DEF Now, WillAsk, Asks
  <1> QED
    BY <1>1, <1>2, <1>3, <1>9, SerialMove DEF x

LEMMA SerialNext ==
  IInv /\ Serial /\ Undisturbed /\ Undisturbed' /\ [Next]_vars => Serial'
  <1> SUFFICES ASSUME IInv, Serial, Undisturbed, Undisturbed', [Next]_vars PROVE Serial'
    OBVIOUS
  <1>1. ASSUME NEW p \in Procs, Start(p) PROVE Serial'
    BY <1>1, SerialStarts, SerialRepTransition, SerialCancel, SerialExpire,
       SerialAdminAssign, SerialAnswers
    DEF Start
  <1>2. ASSUME NEW p \in Procs, Step(p) PROVE Serial'
    BY <1>2, SerialSave, SerialTransitionRead, SerialCancelCommit, SerialStartSwept,
       SerialStartVendor, SerialBroadcast, SerialEscalate, SerialInsert, SerialAcceptOrder,
       SerialAcceptOffer, SerialAcceptCancel, SerialDeclineSave, SerialDeclineLater,
       SerialExpireSave, SerialRegroup
    DEF Step
  <1>3. ASSUME NEW p \in Procs, Fail(p) PROVE Serial'
    BY <1>3 DEF Fail, Undisturbed
  <1>4. CASE UNCHANGED <<order, offers, escalated, req>>
    BY <1>4 DEF Serial, Idle
  <1> QED
    BY <1>1, <1>2, <1>3, <1>4 DEF Next, Lapse, vars

LEMMA SerialInit == Init => Serial
  <1> SUFFICES ASSUME Init PROVE Serial
    OBVIOUS
  <1>1. order.status = "PAID" /\ offers = <<>> /\ \A p \in Procs : req[p] = NoRequest
    BY DEF Init
  <1>2. OffersInOrder(order.status, offers)
    BY <1>1 DEF OffersInOrder, Of
  <1>3. Rest(order.status, offers, escalated)
    BY <1>1 DEF Rest, Found, Asked, Of, Broadcasting
  <1> QED
    BY <1>1, <1>2, <1>3 DEF Serial

(* While no two requests overlap and none dies, offers and order agree up  *)
(* to what the one request in flight is about to do.                       *)
THEOREM SerialInvariance == Spec /\ []Undisturbed => []Serial
  BY SerialInit, SerialNext, Invariance, PTL DEF Spec

(* While no two requests overlap and none dies, an order that is broadcast *)
(* has an open offer or was escalated, a cancelled one has none open,      *)
(* nobody is asked twice and batches do not overlap, however many batches, *)
(* declines, expiries and assignments by hand it took.                     *)
THEOREM OffersFollow == Spec /\ []Undisturbed => []OffersFollowOrder
  <1>1. \A t \in Types : PendingOf(t) = Open(offers, t)
    BY DEF PendingOf, OffersOf, Open, Of
  <1>2. Serial => OffersFollowOrder
    BY <1>1 DEF Serial, OffersInOrder, Rest, Asked, OffersFollowOrder, Open, Of, Types
  <1> QED
    BY <1>2, SerialInvariance, PTL
===============================================================================
