---------------------------- MODULE VendorPricing ----------------------------
(***************************************************************************)
(* The price sheets of a vendor (vendors.service.ts): proposals that       *)
(* accumulate, line-by-line review, and the sheet in force, the approved   *)
(* one that became effective last.  A handler reads a sheet, and saves the *)
(* whole of it; blurred says that a sheet changed in between, that two     *)
(* proposals are open, or that a sheet was approved for a later date.      *)
(***************************************************************************)
EXTENDS Requests

CONSTANTS
  Items, Prices,
  Sheets,
  MaxNow          \* bound: moments

VARIABLES
  sheet,     \* vendor_pricing
  now,
  cooling,   \* pricingLastUpdatedAt is less than cooldownDays ago
  blurred

pricingVars == <<sheet, now, cooling, blurred>>

ASSUME PricingConstantsOK == Prices \subseteq Nat \ {0} /\ MaxNow \in Nat

NoLine == [price |-> 0, status |-> "pending"]
Line   == [price : Prices \cup {0}, status : {"pending", "approved", "rejected"}]
Sheet  == [state : {"none", "open", "approved", "rejected"}, lines : [Items -> Line], from : 0..MaxNow]

PricingInit ==
  /\ sheet = [s \in Sheets |-> [state |-> "none", lines |-> [i \in Items |-> NoLine], from |-> 0]]
  /\ now = 0 /\ cooling = FALSE /\ blurred = FALSE

(* getActivePricing; no two sheets become effective at one moment.         *)
InForce(sheets, t) ==
  {s \in Sheets : /\ sheets[s].state = "approved" /\ sheets[s].from <= t
                  /\ \A r \in Sheets : sheets[r].state = "approved" /\ sheets[r].from <= t
                                         => sheets[r].from <= sheets[s].from}
(* What an order is charged, isPriceItemLive: 0 when the vendor has no     *)
(* price for the item.                                                     *)
LivePrice(sheets, t, i) ==
  IF \E s \in InForce(sheets, t) : sheets[s].lines[i].status = "approved"
  THEN sheets[CHOOSE s \in InForce(sheets, t) : TRUE].lines[i].price ELSE 0

OpenSheets == {s \in Sheets : sheet[s].state = "open"}

SaveLater(p, s, row, decided) ==
  /\ Begin(p, [pc |-> "sheet", sheet |-> s, row |-> row, read |-> sheet, decided |-> decided])
  /\ UNCHANGED pricingVars

-----------------------------------------------------------------------------
(* Mutant of Proposal: live lines may be repriced.                         *)
ProposalOfAnything(lines, i, v) ==
  [j \in Items |-> IF j = i THEN [price |-> v, status |-> "pending"] ELSE lines[j]]

(* proposePricing: live lines are carried over and cannot be repriced; the *)
(* other lines go to the proposal that is still open, or to a new one.     *)
Proposal(lines, i, v) ==
  [j \in Items |->
     IF LivePrice(sheet, now, j) > 0 THEN [price |-> LivePrice(sheet, now, j), status |-> "approved"]
     ELSE IF j = i THEN [price |-> v, status |-> "pending"] ELSE lines[j]]

ProposePricing(p, s, i, v) ==
  /\ ~cooling
  /\ IF OpenSheets = {} THEN sheet[s].state = "none" ELSE s \in OpenSheets
  /\ SaveLater(p, s, [sheet[s] EXCEPT !.state = "open", !.lines = Proposal(@, i, v)], FALSE)

(* decidePricingItem stages a decision; it is not live yet.                *)
DecideLine(p, s, i, decision) ==
  /\ sheet[s].state = "open" /\ sheet[s].lines[i].price > 0
  /\ SaveLater(p, s, [sheet[s] EXCEPT !.lines[i].status = decision], FALSE)

(* approvePricing: what was not rejected is approved, from a given moment. *)
ApprovePricing(p, s, from) ==
  /\ sheet[s].state = "open" /\ \A r \in Sheets : sheet[r].from # from
  /\ SaveLater(p, s,
       [state |-> "approved", from |-> from, lines |-> [i \in Items |->
          IF sheet[s].lines[i].price > 0 /\ sheet[s].lines[i].status = "pending"
          THEN [sheet[s].lines[i] EXCEPT !.status = "approved"] ELSE sheet[s].lines[i]]],
       TRUE)

(* rejectPricing: what was not approved is rejected, and the whole         *)
(* proposal when nothing was.                                              *)
RejectPricing(p, s) ==
  /\ sheet[s].state = "open" /\ \A r \in Sheets : sheet[r].from # now
  /\ LET lines == [i \in Items |->
            IF sheet[s].lines[i].price > 0 /\ sheet[s].lines[i].status = "pending"
            THEN [sheet[s].lines[i] EXCEPT !.status = "rejected"] ELSE sheet[s].lines[i]]
         survives == \E i \in Items : lines[i].status = "approved"
     IN SaveLater(p, s, IF survives THEN [state |-> "approved", from |-> now, lines |-> lines]
                                    ELSE [state |-> "rejected", from |-> 0, lines |-> lines],
                  survives)

(* The sheet is saved, and finalizeReview starts the cooldown when no line *)
(* was rejected.                                                           *)
SaveSheet(p) ==
  /\ At(p, "sheet")
  /\ LET c == call[p] IN
       /\ sheet' = [sheet EXCEPT ![c.sheet] = c.row]
       /\ cooling' = (cooling \/ (c.decided /\ \A i \in Items : c.row.lines[i].status # "rejected"))
       /\ blurred' = \/ blurred \/ sheet # c.read \/ c.row.from > now
                     \/ c.row.state = "open" /\ OpenSheets \ {c.sheet} # {}
                     \/ \E r \in Sheets \ {c.sheet} : c.row.from > 0 /\ sheet[r].from = c.row.from
  /\ End(p)
  /\ UNCHANGED now

Later ==
  /\ now < MaxNow
  /\ now' = now + 1
  /\ cooling' \in {FALSE, cooling}
  /\ UNCHANGED <<sheet, blurred, requestVars>>

PricingNext ==
  \/ \E p \in Procs, s \in Sheets :
       \/ \E i \in Items : \/ \E v \in Prices : ProposePricing(p, s, i, v)
                           \/ \E d \in {"approved", "rejected"} : DecideLine(p, s, i, d)
       \/ \E from \in now..MaxNow : from > 0 /\ ApprovePricing(p, s, from)
       \/ RejectPricing(p, s)
  \/ \E p \in Procs : SaveSheet(p)
  \/ Later

PricingSpec == RequestsInit /\ PricingInit /\ [][PricingNext]_<<pricingVars, requestVars>>

-----------------------------------------------------------------------------
PricingTypeOK ==
  /\ sheet \in [Sheets -> Sheet] /\ now \in 0..MaxNow
  /\ cooling \in BOOLEAN /\ blurred \in BOOLEAN

(* "Already-approved (live) prices are LOCKED": the price an order is       *)
(* charged for an item stays what it is, whatever the vendor proposes,      *)
(* until an admin rejects its line in a later sheet.                        *)
LivePriceIsLocked ==
  [][\A i \in Items :
       ~blurred' /\ LivePrice(sheet, now, i) > 0 =>
         \/ LivePrice(sheet', now', i) = LivePrice(sheet, now, i)
         \/ \E s \in InForce(sheet', now') : sheet'[s].lines[i].status = "rejected"]_pricingVars
==============================================================================
