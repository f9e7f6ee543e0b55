---------------------------- MODULE VendorProfiles ----------------------------
(***************************************************************************)
(* The vendors (vendors.service.ts): onboarding by an admin or by          *)
(* themselves (auth.service.ts), verification, suspension and availability.*)
(* A handler reads the vendor and saves the whole row; vendorOdd remembers *)
(* the vendors whose row changed in between.                               *)
(***************************************************************************)
EXTENDS Requests

CONSTANTS Vendors

VARIABLES
  profile,     \* vendors, the row of each; status "none": there is none
  vendorUser,  \* users, the account: status, has a password, has role VENDOR
  vendorInvite,\* Redis invite:*, the vendors with a live token
  notice,      \* what the vendor was last told of the account
  vendorOdd

vendorVars == <<profile, vendorUser, vendorInvite, notice, vendorOdd>>

Profile == [status : {"none", "pending_review", "verified", "rejected", "suspended"},
            available : BOOLEAN, located : BOOLEAN, stamped : BOOLEAN]
VendorUser == [status : {"none", "active", "pending"}, password : BOOLEAN, role : BOOLEAN]
NewProfile == [status |-> "pending_review", available |-> FALSE, located |-> FALSE, stamped |-> FALSE]

VendorsInit ==
  /\ profile = [v \in Vendors |-> [NewProfile EXCEPT !.status = "none"]]
  /\ vendorUser = [v \in Vendors |-> [status |-> "none", password |-> FALSE, role |-> FALSE]]
  /\ vendorInvite = {} /\ vendorOdd = {}
  /\ notice = [v \in Vendors |-> "none"]

Onboarded(v) == profile[v].status # "none"

SaveProfileLater(p, v, row, told) ==
  /\ Onboarded(v)
  /\ Begin(p, [pc |-> "vendor", vendor |-> v, row |-> row, read |-> profile[v], told |-> told])
  /\ UNCHANGED vendorVars

-----------------------------------------------------------------------------
(* auth.registerVendor: an active account with its password.               *)
RegisterVendor(v) ==
  /\ OneStep
  /\ vendorUser[v].status = "none"
  /\ vendorUser' = [vendorUser EXCEPT ![v] = [status |-> "active", password |-> TRUE, role |-> TRUE]]
  /\ profile' = [profile EXCEPT ![v] = NewProfile]
  /\ UNCHANGED <<vendorInvite, notice, vendorOdd>>

(* adminCreate: an account without a password, and an invitation to set    *)
(* one.  The status is left to its default, active.                        *)
AdminCreate(v) ==
  /\ OneStep
  /\ vendorUser[v].status = "none"
  /\ vendorUser' = [vendorUser EXCEPT ![v] = [status |-> "active", password |-> FALSE, role |-> TRUE]]
  /\ profile' = [profile EXCEPT ![v] = NewProfile]
  /\ vendorInvite' = vendorInvite \cup {v}
  /\ UNCHANGED <<notice, vendorOdd>>

(* auth.forgotPassword and resetPassword, for an active account.           *)
ResetPassword(v) ==
  /\ OneStep
  /\ vendorUser[v].status = "active"
  /\ vendorUser' = [vendorUser EXCEPT ![v].password = TRUE]
  /\ UNCHANGED <<profile, vendorInvite, notice, vendorOdd>>

VendorInviteExpires(v) ==
  /\ v \in vendorInvite
  /\ vendorInvite' = vendorInvite \ {v}
  /\ UNCHANGED <<profile, vendorUser, notice, vendorOdd, requestVars>>

-----------------------------------------------------------------------------
(* update, by the vendor or an admin: only the verified become available.  *)
UpdateProfile(p, v, available) ==
  /\ available => profile[v].status = "verified"
  /\ SaveProfileLater(p, v, [profile[v] EXCEPT !.available = available], notice[v])

UpdateMyLocation(p, v) ==
  SaveProfileLater(p, v, [profile[v] EXCEPT !.located = TRUE], notice[v])

(* verify: the decision; the role is granted before the row is saved.      *)
Verify(p, v, decision) ==
  /\ Onboarded(v)
  /\ Begin(p, [pc |-> "vendor", vendor |-> v, read |-> profile[v], told |-> decision,
               row |-> [profile[v] EXCEPT !.status = decision, !.stamped = decision = "verified"]])
  /\ vendorUser' = [vendorUser EXCEPT ![v].role = @ \/ decision = "verified"]
  /\ UNCHANGED <<profile, vendorInvite, notice, vendorOdd>>

(* Mutant of SuspendVendor: the vendor can still be chosen.                *)
SuspendAvailable(p, v) ==
  SaveProfileLater(p, v, [profile[v] EXCEPT !.status = "suspended"], "suspended")

(* updateVerificationStatus, whose only caller suspends; the vendor is     *)
(* told the first time.                                                    *)
SuspendVendor(p, v) ==
  SaveProfileLater(p, v, [profile[v] EXCEPT !.status = "suspended", !.available = FALSE],
    IF profile[v].status = "suspended" THEN notice[v] ELSE "suspended")

(* revertToPending; the role stays.                                        *)
RevertToPending(p, v) ==
  /\ profile[v].status # "pending_review"
  /\ SaveProfileLater(p, v, [NewProfile EXCEPT !.located = profile[v].located], notice[v])

SaveVendor(p) ==
  /\ At(p, "vendor")
  /\ LET c == call[p]
     IN /\ profile' = [profile EXCEPT ![c.vendor] = c.row]
        /\ notice' = [notice EXCEPT ![c.vendor] = c.told]
        /\ vendorOdd' = IF profile[c.vendor] = c.read THEN vendorOdd ELSE vendorOdd \cup {c.vendor}
  /\ End(p)
  /\ UNCHANGED <<vendorUser, vendorInvite>>

VendorsNext ==
  \/ \E v \in Vendors :
       RegisterVendor(v) \/ AdminCreate(v) \/ ResetPassword(v) \/ VendorInviteExpires(v)
  \/ \E p \in Procs, v \in Vendors :
       \/ \E b \in BOOLEAN : UpdateProfile(p, v, b)
       \/ \E d \in {"verified", "rejected"} : Verify(p, v, d)
       \/ UpdateMyLocation(p, v) \/ SuspendVendor(p, v) \/ RevertToPending(p, v)
  \/ \E p \in Procs : SaveVendor(p)

VendorsSpec == RequestsInit /\ VendorsInit /\ [][VendorsNext]_<<vendorVars, requestVars>>

-----------------------------------------------------------------------------
VendorsTypeOK ==
  /\ profile \in [Vendors -> Profile] /\ vendorUser \in [Vendors -> VendorUser]
  /\ vendorInvite \subseteq Vendors /\ vendorOdd \subseteq Vendors
  /\ notice \in [Vendors -> {"none", "verified", "rejected", "suspended"}]

(* "Deactivates the vendor and sets them unavailable", "can't receive      *)
(* orders while unreviewed": unless two saves of the row crossed, the      *)
(* suspended and the unreviewed are not available, the verified hold the   *)
(* role and the stamp, and who is suspended has been told so.              *)
StandingIsRight ==
  \A v \in Vendors \ vendorOdd :
    /\ profile[v].status \in {"suspended", "pending_review"} => ~profile[v].available
    /\ profile[v].status = "verified" => vendorUser[v].role /\ profile[v].stamped
    /\ profile[v].status = "suspended" => notice[v] = "suspended"
==============================================================================
