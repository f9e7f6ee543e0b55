---------------------------- MODULE MCOperations ----------------------------
(* The services around an order and its vendor share no state: each        *)
(* behaviour exercises one of them, chosen at the start, with at most      *)
(* Bound calls.                                                            *)
EXTENDS Reps, Payouts, Disputes, Logistics, VendorProfiles, VendorPricing,
        Catalogue, TLC

CONSTANTS r1, r2, d1, d2, o1, l1, l2, l3, v1, i1, i2, s1, s2, g1, g2, p1, p2

VARIABLE service

MCFees == {[raw |-> 3, min |-> 1, max |-> 2, mobility |-> 1]}

MCAsked == {<<>>, <<100, 250>>}
MCQuantities == g1 :> 1 @@ g2 :> 2

Bound == [reps |-> 5, payouts |-> 6, disputes |-> 6, logistics |-> 6, vendors |-> 6, pricing |-> 4,
          catalogue |-> 4]

vars == <<service, repVars, payoutVars, disputeVars, logisticsVars, vendorVars, pricingVars, catalogueVars,
          requestVars>>

Init ==
  /\ service \in DOMAIN Bound
  /\ call = [p \in Procs |-> NoCall] /\ deaths = 0
  /\ calls = MaxCalls - Bound[service]    \* so that Bound[service] are left
  /\ RepsInit /\ PayoutsInit /\ DisputesInit /\ LogisticsInit
  /\ VendorsInit /\ PricingInit /\ CatalogueInit
  \* A service that is idle starts in one state.
  /\ service # "catalogue" => \A i \in CatalogueItems : asked[i] = <<>> /\ entry[i] = NoEntry
  /\ service = "catalogue" => entry[g1].status = "active" /\ entry[g2].status = "none"

Is(name) == service = name /\ UNCHANGED service

Next ==
  \/ Is("reps") /\ RepsNext
       /\ UNCHANGED <<payoutVars, disputeVars, logisticsVars, vendorVars, pricingVars, catalogueVars>>
  \/ Is("payouts") /\ PayoutsNext
       /\ UNCHANGED <<repVars, disputeVars, logisticsVars, vendorVars, pricingVars, catalogueVars>>
  \/ Is("disputes") /\ DisputesNext
       /\ UNCHANGED <<repVars, payoutVars, logisticsVars, vendorVars, pricingVars, catalogueVars>>
  \/ Is("logistics") /\ LogisticsNext
       /\ UNCHANGED <<repVars, payoutVars, disputeVars, vendorVars, pricingVars, catalogueVars>>
  \/ Is("vendors") /\ VendorsNext
       /\ UNCHANGED <<repVars, payoutVars, disputeVars, logisticsVars, pricingVars, catalogueVars>>
  \/ Is("pricing") /\ PricingNext
       /\ UNCHANGED <<repVars, payoutVars, disputeVars, logisticsVars, vendorVars, catalogueVars>>
  \/ Is("catalogue") /\ CatalogueNext
       /\ UNCHANGED <<repVars, payoutVars, disputeVars, logisticsVars, vendorVars, pricingVars>>

Spec == Init /\ [][Next]_vars

TypeOK ==
  /\ RepsTypeOK /\ PayoutsTypeOK /\ DisputesTypeOK /\ LogisticsTypeOK
  /\ VendorsTypeOK /\ PricingTypeOK /\ CatalogueTypeOK

Symmetry == Permutations(Procs)
==============================================================================
