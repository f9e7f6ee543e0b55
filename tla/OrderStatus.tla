----------------------------- MODULE OrderStatus -----------------------------
(* The statuses of an order and the moves ordersService.transition() makes. *)

Status == { "PENDING_PAYMENT", "PAID", "BROADCASTING_REP", "REP_ASSIGNED",
            "BROADCASTING_VENDOR", "VENDOR_ASSIGNED", "SCHEDULED",
            "REP_EN_ROUTE_PICKUP", "PICKED_UP", "WITH_VENDOR", "IN_PROGRESS",
            "READY_FOR_DELIVERY", "REP_COLLECTED", "OUT_FOR_DELIVERY",
            "DELIVERED", "DELIVERY_FAILED", "ABANDONED", "COMPLETED",
            "DISPUTED", "CANCELLED" }

(* ALLOWED_TRANSITIONS: the targets transition() accepts from a status.    *)
Allowed(s) ==
  CASE s = "PENDING_PAYMENT"     -> {"PAID", "CANCELLED"}
    [] s = "PAID"                -> {"BROADCASTING_REP", "CANCELLED"}
    [] s = "BROADCASTING_REP"    -> {"REP_ASSIGNED", "CANCELLED"}
    [] s = "REP_ASSIGNED"        -> {"BROADCASTING_VENDOR", "CANCELLED"}
    [] s = "BROADCASTING_VENDOR" -> {"VENDOR_ASSIGNED", "CANCELLED"}
    [] s = "VENDOR_ASSIGNED"     -> {"SCHEDULED", "CANCELLED"}
    [] s = "SCHEDULED"           -> {"REP_EN_ROUTE_PICKUP", "PICKED_UP", "CANCELLED"}
    [] s = "REP_EN_ROUTE_PICKUP" -> {"PICKED_UP"}
    [] s = "PICKED_UP"           -> {"WITH_VENDOR"}
    [] s = "WITH_VENDOR"         -> {"IN_PROGRESS"}
    [] s = "IN_PROGRESS"         -> {"READY_FOR_DELIVERY"}
    [] s = "READY_FOR_DELIVERY"  -> {"REP_COLLECTED"}
    [] s = "REP_COLLECTED"       -> {"OUT_FOR_DELIVERY"}
    [] s = "OUT_FOR_DELIVERY"    -> {"DELIVERED", "DELIVERY_FAILED"}
    [] s = "DELIVERY_FAILED"     -> {"OUT_FOR_DELIVERY", "DELIVERED", "ABANDONED"}
    [] s = "DELIVERED"           -> {"COMPLETED"}
    [] OTHER                     -> {}

Cancellable == {s \in Status : "CANCELLED" \in Allowed(s)}
===============================================================================
