----------------------------- MODULE NoticeTables -----------------------------
(***************************************************************************)
(* What the notify... methods of notifications.service.ts send, and the    *)
(* templates default-templates.ts has for it.  A notice is a sequence of   *)
(* groups; the messages of a group are sent together, the next group when  *)
(* they are through.  The wording is left out.                             *)
(***************************************************************************)
EXTENDS Sequences

Full  == {"email", "sms", "push", "in_app", "whatsapp"}
Four  == Full \ {"whatsapp"}
Three == {"email", "push", "in_app"}
Chat  == {"push", "in_app", "whatsapp"}
App   == {"push", "in_app"}
Plain == {"email", "in_app"}

Messages(key, to, channels) == {[key |-> key, to |-> to, channel |-> c] : c \in channels}
One(key, to, channels) == <<Messages(key, to, channels)>>
ToStaff(key) == Messages(key, "inbox", {"email"}) \cup Messages(key, "staff", {"in_app"})

-----------------------------------------------------------------------------
OrderNotices ==
  [placed      |-> One("order.placed.customer", "customer", Full),
   repAssigned |-> One("order.rep_assigned.customer", "customer", Chat),
   repEnRoute  |-> One("order.rep_en_route.customer", "customer", Chat),
   pickedUp    |-> <<Messages("order.picked_up.customer", "customer", Chat)
                       \cup Messages("order.picked_up.vendor", "vendor", Chat)>>,
   delivered   |-> One("order.delivered.customer", "customer", Full)]

ClosingNotices ==
  [completed |-> <<Messages("order.completed.customer", "customer", Three),
                   Messages("order.earning_credited.vendor", "vendor", Three),
                   Messages("order.earning_credited.rep", "rep", App)>>,
   cancelled |-> One("order.cancelled.customer", "customer", Four)]

AssignmentNotices ==
  [broadcastRep    |-> One("assignment.broadcast.rep", "rep", Full \ {"email"}),
   confirmedRep    |-> One("assignment.confirmed.rep", "rep", App),
   broadcastVendor |-> One("assignment.broadcast.vendor", "vendor", Full \ {"email"}),
   noReps          |-> One("assignment.no_reps.admin", "inbox", {"email"}),
   noVendors       |-> One("assignment.no_vendors.admin", "inbox", {"email"}),
   repFlagged      |-> One("rep.flagged_for_review", "rep", Three)]

VendorNotices ==
  [vendorReceived  |-> One("vendor.application_received", "vendor", Four),
   vendorRejected  |-> One("vendor.account_rejected", "vendor", Four),
   vendorSuspended |-> One("vendor.account_suspended", "vendor", Four),
   vendorVerified  |-> One("vendor.account_verified", "vendor", Four),
   vendorPending   |-> One("vendor.pending_verification.admin", "inbox", {"email"})]

PricingNotices ==
  [pricingApproved  |-> One("pricing.approved.vendor", "vendor", Three),
   pricingReviewed  |-> One("pricing.reviewed.vendor", "vendor", Three),
   garmentsLogged   |-> One("order.garments_logged.vendor", "vendor", Three),
   garmentsUnpriced |-> <<ToStaff("order.garments_unpriced.admin")>>,
   accountDeleted   |-> One("account.deleted.customer", "customer", {"email"})]

DisputeNotices ==
  [disputeCreated  |-> <<Messages("dispute.created.customer", "customer", Three),
                         ToStaff("dispute.created.admin")>>,
   disputeUpdated  |-> One("dispute.updated.customer", "customer", Three),
   disputeResolved |-> One("dispute.resolved.customer", "customer", Three),
   disputeRejected |-> One("dispute.rejected.customer", "customer", Three)]

ContentNotices ==
  [supportMessage |-> One("support.new_message.agent", "staff", {"in_app"}),
   supportReply   |-> One("support.reply.user", "customer", App),
   teamAdded      |-> One("team.member_added", "customer", Three),
   teamRole       |-> One("team.role_changed", "customer", Three),
   teamRemoved    |-> One("team.member_removed", "customer", Plain),
   blogSubmitted  |-> <<ToStaff("blog.submitted.admin")>>,
   blogApproved   |-> One("blog.approved.author", "customer", Plain),
   blogReturned   |-> One("blog.changes_requested.author", "customer", Plain)]

PayoutNotices ==
  [payoutRequest   |-> One("payout.new_request.admin", "inbox", {"email"}),
   payoutApproved  |-> One("payout.approved.vendor", "vendor", Full),
   payoutFailed    |-> One("payout.failed.vendor", "vendor", Four),
   payoutHeld      |-> One("payout.held.vendor", "vendor", Four),
   payoutReleased  |-> One("payout.released.vendor", "vendor", Four)]

DeductionNotices ==
  [deduction        |-> One("deduction.notice.vendor", "vendor", Four),
   deductionApplied |-> One("deduction.applied.vendor", "vendor", Four)]

StandingNotices ==
  [suspensionNotice |-> One("suspension.notice", "customer", Four),
   suspended        |-> One("suspension.enforced", "customer", Four),
   reinstated       |-> One("suspension.reinstated", "customer", Four),
   upheld           |-> One("suspension.upheld", "customer", Four),
   uncollected      |-> One("order.uncollected.customer", "customer", Four),
   abandoned        |-> One("order.abandoned.customer", "customer", Four)]

Tables == {OrderNotices, ClosingNotices, AssignmentNotices, VendorNotices, PricingNotices,
           DisputeNotices, ContentNotices, PayoutNotices, DeductionNotices, StandingNotices}

Notices ==
  [kind \in UNION {DOMAIN t : t \in Tables} |-> (CHOOSE t \in Tables : kind \in DOMAIN t)[kind]]

-----------------------------------------------------------------------------
Template(key, channels) == {[key |-> key, channel |-> c] : c \in channels}
ForEach(keys, channels) == UNION {Template(k, channels) : k \in keys}

OrderTemplates ==
  ForEach({"order.placed.customer", "order.delivered.customer"}, Full)
    \cup ForEach({"order.rep_assigned.customer", "order.picked_up.customer",
                  "order.rep_en_route.customer"}, Chat)

ClosingTemplates ==
  Template("order.completed.customer", Three) \cup Template("order.cancelled.customer", Four)

RepTemplates ==
  Template("assignment.broadcast.rep", Full \ {"email"})
    \cup ForEach({"assignment.confirmed.rep", "order.earning_credited.rep"}, App)
    \cup Template("rep.flagged_for_review", Three)

JobTemplates ==
  Template("assignment.broadcast.vendor", Full \ {"email"})
    \cup Template("order.picked_up.vendor", Chat)
    \cup Template("order.earning_credited.vendor", Three)

VendorTemplates ==
  ForEach({"vendor.application_received", "vendor.account_rejected",
           "vendor.account_suspended", "vendor.account_verified"}, Four)

PricingTemplates ==
  ForEach({"pricing.approved.vendor", "order.garments_logged.vendor", "pricing.reviewed.vendor"}, Three)
    \cup Template("order.garments_unpriced.admin", Plain)

PayoutTemplates ==
  Template("payout.approved.vendor", Full)
    \cup ForEach({"payout.failed.vendor", "payout.held.vendor", "payout.released.vendor"}, Four)

DeductionTemplates == ForEach({"deduction.notice.vendor", "deduction.applied.vendor"}, Four)

SuspensionTemplates ==
  ForEach({"suspension.notice", "suspension.enforced", "suspension.reinstated", "suspension.upheld"}, Four)

UncollectedTemplates == ForEach({"order.uncollected.customer", "order.abandoned.customer"}, Four)

AdminTemplates ==
  ForEach({"payout.new_request.admin", "assignment.no_reps.admin", "assignment.no_vendors.admin"}, Three)
    \cup Template("vendor.pending_verification.admin", Plain)

ContentTemplates ==
  ForEach({"blog.submitted.admin", "blog.approved.author", "blog.changes_requested.author"}, Plain)
    \cup Template("support.new_message.agent", {"in_app"})
    \cup Template("support.reply.user", App)
    \cup Template("account.deleted.customer", {"email"})

DisputeTemplates ==
  ForEach({"dispute.created.customer", "dispute.updated.customer", "dispute.resolved.customer"}, Three)
    \cup ForEach({"dispute.created.admin", "dispute.rejected.customer"}, Plain)

TeamTemplates ==
  ForEach({"team.member_added", "team.role_changed"}, Three) \cup Template("team.member_removed", Plain)

DEFAULT_TEMPLATES ==
  OrderTemplates \cup ClosingTemplates \cup RepTemplates \cup JobTemplates \cup VendorTemplates
    \cup PricingTemplates \cup PayoutTemplates \cup DeductionTemplates \cup SuspensionTemplates
    \cup UncollectedTemplates \cup AdminTemplates \cup ContentTemplates \cup DisputeTemplates
    \cup TeamTemplates
==============================================================================
