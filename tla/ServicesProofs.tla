---------------------------- MODULE ServicesProofs ----------------------------
(***************************************************************************)
(* Proofs about the services around an order and its vendor that           *)
(* MCOperations checks on small instances, for any number of rows and of   *)
(* handlers in flight.  A handler holds copies of rows: each inductive     *)
(* invariant says what a copy must satisfy for its save to be harmless.    *)
(***************************************************************************)
EXTENDS VendorProfiles, VendorPricing, Catalogue, Disputes, Logistics, TLAPS, FiniteSetTheorems

-----------------------------------------------------------------------------
(* A slot takes a state, or is free again; the others keep theirs.         *)

LEMMA SlotWritten ==
  ASSUME NEW Calls, call \in [Procs -> Calls \cup {NoCall}],
         NEW p \in Procs, NEW x \in Calls \cup {NoCall}, call' = [call EXCEPT ![p] = x]
  PROVE  /\ call' \in [Procs -> Calls \cup {NoCall}] /\ call'[p] = x
         /\ \A q \in Procs \ {p} : call'[q] = call[q]
  OBVIOUS

-----------------------------------------------------------------------------
(* Vendors.  The copy of a row and what the vendor will be told with it    *)
(* agree with each other; the role is never taken back.                    *)

Told       == {"none", "verified", "rejected", "suspended"}
VendorCall == [pc : {"vendor"}, vendor : Vendors, row : Profile, read : Profile, told : Told]

StandingOK(row, role, told) ==
  /\ row.status \in {"suspended", "pending_review"} => ~row.available
  /\ row.status = "verified" => role /\ row.stamped
  /\ row.status = "suspended" => told = "suspended"

VendorCallOK(c) == c.vendor \notin vendorOdd => StandingOK(c.row, vendorUser[c.vendor].role, c.told)

VendorIInv ==
  /\ VendorsTypeOK
  /\ call \in [Procs -> VendorCall \cup {NoCall}]
  /\ \A v \in Vendors \ vendorOdd : StandingOK(profile[v], vendorUser[v].role, notice[v])
  /\ \A p \in Procs : call[p] # NoCall => VendorCallOK(call[p])

LEMMA VendorRows ==
  ASSUME VendorIInv, NEW v \in Vendors
  PROVE  /\ profile[v] \in Profile /\ vendorUser[v] \in VendorUser /\ notice[v] \in Told
         /\ NewProfile \in Profile
  BY DEF VendorIInv, VendorsTypeOK, Told, NewProfile, Profile

LEMMA VendorInitIInv == RequestsInit /\ VendorsInit => VendorIInv
  <1> SUFFICES ASSUME RequestsInit, VendorsInit PROVE VendorIInv
    OBVIOUS
  <1> DEFINE row == [NewProfile EXCEPT !.status = "none"]
  <1>1. row \in Profile /\ row.status = "none"
    BY DEF NewProfile, Profile
  <1>2. \A v \in Vendors : profile[v] = row
    BY DEF VendorsInit
  <1>3. VendorsTypeOK
    BY <1>1 DEF VendorsInit, VendorsTypeOK, VendorUser
  <1> HIDE DEF row
  <1> QED  BY <1>1, <1>2, <1>3 DEF RequestsInit, VendorIInv, StandingOK

(* Nothing but the account of vendor v changes, which keeps its role.      *)
LEMMA AccountChanges ==
  ASSUME VendorIInv, NEW v \in Vendors, NEW account \in VendorUser,
         vendorUser[v].role => account.role, vendorUser' = [vendorUser EXCEPT ![v] = account],
         UNCHANGED <<profile, notice, vendorOdd, call>>, vendorInvite' \subseteq Vendors
  PROVE  VendorIInv'
  <1>1. \A w \in Vendors : vendorUser[w].role => vendorUser'[w].role
    BY DEF VendorIInv, VendorsTypeOK
  <1>2. \A p \in Procs : call[p] # NoCall => call[p].vendor \in Vendors
    BY DEF VendorIInv, VendorCall
  <1>3. VendorsTypeOK'
    BY DEF VendorIInv, VendorsTypeOK
  <1> QED  BY <1>1, <1>2, <1>3 DEF VendorIInv, StandingOK, VendorCallOK

(* An account and its vendor are new.                                      *)
LEMMA VendorJoins ==
  ASSUME VendorIInv, NEW v \in Vendors, NEW password \in BOOLEAN,
         vendorUser' = [vendorUser EXCEPT ![v] =
                          [status |-> "active", password |-> password, role |-> TRUE]],
         profile' = [profile EXCEPT ![v] = NewProfile],
         UNCHANGED <<notice, vendorOdd, call>>, vendorInvite' \subseteq Vendors
  PROVE  VendorIInv'
  <1>1. \A w \in Vendors : vendorUser[w].role => vendorUser'[w].role
    BY DEF VendorIInv, VendorsTypeOK
  <1>2. \A p \in Procs : call[p] # NoCall => call[p].vendor \in Vendors
    BY DEF VendorIInv, VendorCall
  <1>3. VendorsTypeOK'
    BY VendorRows DEF VendorIInv, VendorsTypeOK, VendorUser
  <1>4. \A w \in Vendors \ vendorOdd : StandingOK(profile'[w], vendorUser'[w].role, notice[w])
    BY <1>1 DEF VendorIInv, VendorsTypeOK, StandingOK, NewProfile
  <1> QED  BY <1>1, <1>2, <1>3, <1>4 DEF VendorIInv, StandingOK, VendorCallOK

(* A handler takes a copy that agrees with what it will tell.              *)
LEMMA VendorReads ==
  ASSUME VendorIInv, NEW p \in Procs, NEW v \in Vendors, NEW row \in Profile, NEW told \in Told,
         NEW role \in BOOLEAN, vendorUser[v].role => role,
         vendorUser' = [vendorUser EXCEPT ![v].role = role],
         v \notin vendorOdd => StandingOK(row, role, told),
         Begin(p, [pc |-> "vendor", vendor |-> v, row |-> row, read |-> profile[v], told |-> told]),
         UNCHANGED <<profile, vendorInvite, notice, vendorOdd>>
  PROVE  VendorIInv'
  <1> DEFINE x == [pc |-> "vendor", vendor |-> v, row |-> row, read |-> profile[v], told |-> told]
  <1>1. x \in VendorCall
    BY VendorRows DEF VendorCall
  <1>2. call' = [call EXCEPT ![p] = x]
    BY DEF Begin
  <1>3. /\ vendorUser' \in [Vendors -> VendorUser] /\ vendorUser'[v].role = role
        /\ \A w \in Vendors : vendorUser[w].role => vendorUser'[w].role
    BY DEF VendorIInv, VendorsTypeOK, VendorUser
  <1>4. call'[p] = x => VendorCallOK(call[p])'
    BY <1>3 DEF VendorCallOK
  <1> HIDE DEF x
  <1>5. /\ call' \in [Procs -> VendorCall \cup {NoCall}] /\ call'[p] = x
        /\ \A q \in Procs \ {p} : call'[q] = call[q]
    BY <1>1, <1>2, SlotWritten DEF VendorIInv
  <1>6. \A q \in Procs : call[q] # NoCall => call[q].vendor \in Vendors
    BY DEF VendorIInv, VendorCall
  <1>7. VendorsTypeOK'
    BY <1>3 DEF VendorIInv, VendorsTypeOK
  <1>8. \A w \in Vendors \ vendorOdd : StandingOK(profile[w], vendorUser'[w].role, notice[w])
    BY <1>3 DEF VendorIInv, StandingOK
  <1>9. \A q \in Procs \ {p} : call[q] # NoCall => VendorCallOK(call[q])'
    BY <1>3, <1>5, <1>6 DEF VendorIInv, VendorCallOK, StandingOK
  <1> QED  BY <1>4, <1>5, <1>7, <1>8, <1>9 DEF VendorIInv

(* The row is saved as it was read; it was another in the meantime, or the *)
(* copy agrees with what the vendor is told.                               *)
LEMMA VendorSaves ==
  ASSUME VendorIInv, NEW p \in Procs, SaveVendor(p)
  PROVE  VendorIInv'
  <1> DEFINE c == call[p]
  <1>1. /\ c # NoCall /\ call' = [call EXCEPT ![p] = NoCall]
        /\ profile' = [profile EXCEPT ![c.vendor] = c.row]
        /\ notice' = [notice EXCEPT ![c.vendor] = c.told]
        /\ vendorOdd' = IF profile[c.vendor] = c.read THEN vendorOdd ELSE vendorOdd \cup {c.vendor}
        /\ UNCHANGED <<vendorUser, vendorInvite>>
    BY DEF SaveVendor, At, End, GotoState
  <1>2. c \in VendorCall /\ VendorCallOK(c)
    BY <1>1 DEF VendorIInv
  <1>3. c.vendor \in Vendors /\ c.row \in Profile /\ c.told \in Told
    BY <1>2 DEF VendorCall
  <1> HIDE DEF c
  <1>4. /\ call' \in [Procs -> VendorCall \cup {NoCall}] /\ call'[p] = NoCall
        /\ \A q \in Procs \ {p} : call'[q] = call[q]
    BY <1>1, SlotWritten DEF VendorIInv
  <1>5. VendorsTypeOK'
    BY <1>1, <1>3 DEF VendorIInv, VendorsTypeOK, Told
  <1>6. \A v \in Vendors \ vendorOdd' : StandingOK(profile'[v], vendorUser[v].role, notice'[v])
    BY <1>1, <1>2, <1>3 DEF VendorIInv, VendorsTypeOK, VendorCallOK
  <1>7. \A q \in Procs \ {p} : call[q] # NoCall => VendorCallOK(call[q])'
    BY <1>1, <1>4 DEF VendorIInv, VendorCallOK
  <1> QED  BY <1>1, <1>4, <1>5, <1>6, <1>7 DEF VendorIInv

LEMMA VendorHandlersRead ==
  ASSUME VendorIInv, NEW p \in Procs, NEW v \in Vendors,
         \/ \E b \in BOOLEAN : UpdateProfile(p, v, b)
         \/ \E d \in {"verified", "rejected"} : Verify(p, v, d)
         \/ UpdateMyLocation(p, v) \/ SuspendVendor(p, v) \/ RevertToPending(p, v)
  PROVE  VendorIInv'
  <1> DEFINE Offered(b) == [profile[v] EXCEPT !.available = b]
             Decided(d) == [profile[v] EXCEPT !.status = d, !.stamped = d = "verified"]
             located    == [profile[v] EXCEPT !.located = TRUE]
             suspended  == [profile[v] EXCEPT !.status = "suspended", !.available = FALSE]
             pending    == [NewProfile EXCEPT !.located = profile[v].located]
  <1>0. /\ profile[v] \in Profile /\ vendorUser[v] \in VendorUser /\ notice[v] \in Told
        /\ v \notin vendorOdd => StandingOK(profile[v], vendorUser[v].role, notice[v])
        /\ vendorUser[v].role \in BOOLEAN
        /\ vendorUser = [vendorUser EXCEPT ![v].role = vendorUser[v].role]
    BY VendorRows DEF VendorIInv, VendorsTypeOK, VendorUser
  <1>1. ASSUME NEW b \in BOOLEAN, UpdateProfile(p, v, b)
        PROVE  VendorIInv'
    <2>1. /\ Begin(p, [pc |-> "vendor", vendor |-> v, row |-> Offered(b), read |-> profile[v],
                       told |-> notice[v]])
          /\ b => profile[v].status = "verified"
          /\ UNCHANGED vendorVars
      BY <1>1 DEF UpdateProfile, SaveProfileLater
    <2>2. Offered(b) \in Profile /\ Offered(b).status = profile[v].status
          /\ Offered(b).stamped = profile[v].stamped /\ Offered(b).available = b
      BY <1>0 DEF Profile
    <2> HIDE DEF Offered
    <2>3. v \notin vendorOdd => StandingOK(Offered(b), vendorUser[v].role, notice[v])
      BY <1>0, <2>1, <2>2 DEF StandingOK
    <2> QED  BY <1>0, <2>1, <2>2, <2>3, VendorReads DEF vendorVars
  <1>2. ASSUME NEW d \in {"verified", "rejected"}, Verify(p, v, d)
        PROVE  VendorIInv'
    <2> DEFINE role == vendorUser[v].role \/ d = "verified"
    <2>1. /\ Begin(p, [pc |-> "vendor", vendor |-> v, row |-> Decided(d), read |-> profile[v],
                       told |-> d])
          /\ vendorUser' = [vendorUser EXCEPT ![v].role = role]
          /\ UNCHANGED <<profile, vendorInvite, notice, vendorOdd>>
      BY <1>2 DEF Verify
    <2>2. Decided(d) \in Profile /\ Decided(d).status = d /\ Decided(d).stamped = (d = "verified")
      BY <1>0 DEF Profile
    <2> HIDE DEF Decided
    <2>3. StandingOK(Decided(d), role, d)
      BY <2>2 DEF StandingOK
    <2> QED  BY <1>0, <2>1, <2>2, <2>3, VendorReads DEF Told
  <1>3. CASE UpdateMyLocation(p, v)
    <2>1. /\ Begin(p, [pc |-> "vendor", vendor |-> v, row |-> located, read |-> profile[v],
                       told |-> notice[v]])
          /\ UNCHANGED vendorVars
      BY <1>3 DEF UpdateMyLocation, SaveProfileLater
    <2>2. located \in Profile /\ located.status = profile[v].status
          /\ located.stamped = profile[v].stamped /\ located.available = profile[v].available
      BY <1>0 DEF Profile
    <2> HIDE DEF located
    <2>3. v \notin vendorOdd => StandingOK(located, vendorUser[v].role, notice[v])
      BY <1>0, <2>2 DEF StandingOK
    <2> QED  BY <1>0, <2>1, <2>2, <2>3, VendorReads DEF vendorVars
  <1>4. CASE SuspendVendor(p, v)
    <2> DEFINE told == IF profile[v].status = "suspended" THEN notice[v] ELSE "suspended"
    <2>1. /\ Begin(p, [pc |-> "vendor", vendor |-> v, row |-> suspended, read |-> profile[v],
                       told |-> told])
          /\ UNCHANGED vendorVars
      BY <1>4 DEF SuspendVendor, SaveProfileLater
    <2>2. suspended \in Profile /\ suspended.status = "suspended" /\ suspended.available = FALSE
      BY <1>0 DEF Profile
    <2> HIDE DEF suspended
    <2>3. v \notin vendorOdd => StandingOK(suspended, vendorUser[v].role, told)
      BY <1>0, <2>2 DEF StandingOK
    <2>4. told \in Told
      BY <1>0 DEF Told
    <2> HIDE DEF told
    <2> QED  BY <1>0, <2>1, <2>2, <2>3, <2>4, VendorReads DEF vendorVars
  <1>5. CASE RevertToPending(p, v)
    <2>1. /\ Begin(p, [pc |-> "vendor", vendor |-> v, row |-> pending, read |-> profile[v],
                       told |-> notice[v]])
          /\ UNCHANGED vendorVars
      BY <1>5 DEF RevertToPending, SaveProfileLater
    <2>2. pending \in Profile /\ pending.status = "pending_review" /\ pending.available = FALSE
      BY <1>0 DEF Profile, NewProfile
    <2> HIDE DEF pending
    <2>3. StandingOK(pending, vendorUser[v].role, notice[v])
      BY <2>2 DEF StandingOK
    <2> QED  BY <1>0, <2>1, <2>2, <2>3, VendorReads DEF vendorVars
  <1> QED  BY <1>1, <1>2, <1>3, <1>4, <1>5

LEMMA VendorNextIInv == VendorIInv /\ [VendorsNext]_<<vendorVars, requestVars>> => VendorIInv'
  <1> SUFFICES ASSUME VendorIInv, [VendorsNext]_<<vendorVars, requestVars>>
               PROVE  VendorIInv'
    OBVIOUS
  <1>1. ASSUME NEW v \in Vendors, RegisterVendor(v) \/ AdminCreate(v)
        PROVE  VendorIInv'
    <2>1. vendorInvite' \subseteq Vendors
      BY <1>1 DEF RegisterVendor, AdminCreate, VendorIInv, VendorsTypeOK
    <2> QED  BY <1>1, <2>1, VendorJoins DEF RegisterVendor, AdminCreate, OneStep
  <1>2. ASSUME NEW v \in Vendors, ResetPassword(v)
        PROVE  VendorIInv'
    <2> DEFINE account == [vendorUser[v] EXCEPT !.password = TRUE]
    <2>1. account \in VendorUser /\ account.role = vendorUser[v].role
      BY VendorRows DEF VendorUser
    <2>2. vendorUser' = [vendorUser EXCEPT ![v] = account]
          /\ UNCHANGED <<profile, notice, vendorOdd, call, vendorInvite>>
      BY <1>2 DEF ResetPassword, OneStep
    <2> HIDE DEF account
    <2> QED  BY <2>1, <2>2, AccountChanges DEF VendorIInv, VendorsTypeOK
  <1>3. ASSUME NEW v \in Vendors, VendorInviteExpires(v)
        PROVE  VendorIInv'
    BY <1>3 DEF VendorInviteExpires, requestVars, VendorIInv, VendorsTypeOK, VendorCallOK
  <1>4. CASE UNCHANGED <<vendorVars, requestVars>>
    BY <1>4 DEF vendorVars, requestVars, VendorIInv, VendorsTypeOK, VendorCallOK
  <1> QED  BY <1>1, <1>2, <1>3, <1>4, VendorHandlersRead, VendorSaves DEF VendorsNext

(* Whatever handlers of a vendor overlap, who is suspended or unreviewed   *)
(* is not offered to customers, who is verified holds the role and the     *)
(* stamp and who is suspended was told, unless a save crossed another.     *)
THEOREM Standing == VendorsSpec => []StandingIsRight
  <1>1. VendorIInv => StandingIsRight
    BY DEF VendorIInv, StandingIsRight, StandingOK
  <1> QED  BY <1>1, VendorInitIInv, VendorNextIInv, PTL DEF VendorsSpec

-----------------------------------------------------------------------------
(* Price sheets.  While nothing is blurred one approved sheet is the last, *)
(* and the sheet a vendor has open carries every live price.               *)

SheetCall == [ pc : {"sheet"}, sheet : Sheets, row : Sheet, read : [Sheets -> Sheet],
               decided : BOOLEAN ]

Settled(sheets, t) ==
  /\ \A s \in Sheets : IF sheets[s].state = "approved" THEN 0 < sheets[s].from /\ sheets[s].from <= t
                                                      ELSE sheets[s].from = 0
  /\ \A r, s \in Sheets : sheets[r].state = "approved" /\ sheets[s].state = "approved"
                            /\ sheets[r].from = sheets[s].from => r = s

(* Lines that keep every live price, or reject it.                         *)
Carries(lines, sheets, t) ==
  \A i \in Items : LivePrice(sheets, t, i) > 0 =>
    lines[i].price = LivePrice(sheets, t, i) /\ lines[i].status \in {"approved", "rejected"}

Sound(sheets, t) ==
  /\ Settled(sheets, t)
  /\ \A r, s \in Sheets : sheets[r].state = "open" /\ sheets[s].state = "open" => r = s
  /\ \A s \in Sheets : sheets[s].state = "open" => Carries(sheets[s].lines, sheets, t)

SheetCallOK(c, t) ==
  /\ Settled(c.read, t)
  /\ c.read[c.sheet].state \in {"none", "open"}
  /\ c.row.state \in {"approved", "rejected"} => c.read[c.sheet].state = "open"
  /\ c.row.state = "approved" =>
       c.row.from > 0 /\ \A s \in Sheets : c.read[s].state = "approved" => c.read[s].from < c.row.from
  /\ c.row.state # "approved" => c.row.from = 0
  /\ c.row.state \in {"open", "approved"} => Carries(c.row.lines, c.read, t)

PricingIInv ==
  /\ PricingTypeOK
  /\ call \in [Procs -> SheetCall \cup {NoCall}]
  /\ ~blurred => Sound(sheet, now)
  /\ ~blurred => \A p \in Procs : call[p] # NoCall => SheetCallOK(call[p], now)

(* What the one sheet in force says is the live price.                     *)
LEMMA LiveInForce ==
  ASSUME NEW sheets, NEW t, NEW s, InForce(sheets, t) = {s}, NEW i
  PROVE  LivePrice(sheets, t, i) =
           IF sheets[s].lines[i].status = "approved" THEN sheets[s].lines[i].price ELSE 0
  <1>1. (CHOOSE r \in {s} : TRUE) = s
    OBVIOUS
  <1> QED  BY <1>1 DEF LivePrice

LEMMA NoneInForce ==
  ASSUME NEW sheets, NEW t, InForce(sheets, t) = {}, NEW i
  PROVE  LivePrice(sheets, t, i) = 0
  BY DEF LivePrice

LEMMA LiveTyped ==
  ASSUME NEW sheets \in [Sheets -> Sheet], NEW t, NEW i \in Items
  PROVE  LivePrice(sheets, t, i) \in Prices \cup {0}
  <1> DEFINE F == InForce(sheets, t)
             c == CHOOSE s \in F : TRUE
  <1>1. CASE F = {}
    BY <1>1, NoneInForce
  <1>2. CASE F # {}
    <2>1. c \in F
      BY <1>2
    <2>2. c \in Sheets
      BY <2>1 DEF InForce
    <2> HIDE DEF c
    <2>3. sheets[c].lines[i].price \in Prices \cup {0}
      BY <2>2 DEF Sheet, Line
    <2> QED  BY <2>3 DEF LivePrice, c
  <1> QED  BY <1>1, <1>2

(* At most one sheet is in force, the one that became effective last.      *)
LEMMA OneInForce ==
  ASSUME NEW sheets \in [Sheets -> Sheet], NEW t \in Nat, Settled(sheets, t)
  PROVE  /\ \A r, s \in InForce(sheets, t) : r = s
         /\ \A s \in InForce(sheets, t) : s \in Sheets /\ sheets[s].state = "approved"
  <1>1. \A s \in Sheets : sheets[s].from \in Nat
    BY PricingConstantsOK DEF Sheet
  <1> QED  BY <1>1 DEF InForce, Settled

(* Sheets that are not approved, and the time, do not move a price.        *)
LEMMA SameLive ==
  ASSUME NEW S \in [Sheets -> Sheet], NEW t \in Nat, Settled(S, t),
         NEW R \in [Sheets -> Sheet], NEW u \in Nat, Settled(R, u),
         \A s \in Sheets : S[s].state = "approved" \/ R[s].state = "approved" => S[s] = R[s]
  PROVE  /\ InForce(S, t) = InForce(R, u)
         /\ \A i \in Items : LivePrice(S, t, i) = LivePrice(R, u, i)
  <1>1. InForce(S, t) = InForce(R, u)
    BY DEF InForce, Settled
  <1>2. CASE InForce(S, t) = {}
    BY <1>1, <1>2, NoneInForce
  <1>3. CASE InForce(S, t) # {}
    <2>1. PICK s \in InForce(S, t) : TRUE
      BY <1>3
    <2>2. InForce(S, t) = {s} /\ InForce(R, u) = {s} /\ S[s] = R[s]
      BY <1>1, <2>1, OneInForce
    <2>3. \A i \in Items :
            /\ LivePrice(S, t, i) = IF S[s].lines[i].status = "approved" THEN S[s].lines[i].price ELSE 0
            /\ LivePrice(R, u, i) = IF R[s].lines[i].status = "approved" THEN R[s].lines[i].price ELSE 0
      BY <2>2, LiveInForce
    <2> QED  BY <1>1, <2>2, <2>3
  <1> QED  BY <1>1, <1>2, <1>3

LEMMA LaterSettled ==
  ASSUME NEW S \in [Sheets -> Sheet], NEW t \in Nat, Settled(S, t)
  PROVE  /\ Settled(S, t + 1)
         /\ \A i \in Items : LivePrice(S, t + 1, i) = LivePrice(S, t, i)
  <1>1. \A s \in Sheets : S[s].from \in Nat
    BY PricingConstantsOK DEF Sheet
  <1>2. Settled(S, t + 1)
    BY <1>1 DEF Settled
  <1>3. t + 1 \in Nat
    OBVIOUS
  <1> QED  BY <1>2, <1>3, SameLive

LEMMA PricingTypes ==
  ASSUME PricingIInv
  PROVE  /\ sheet \in [Sheets -> Sheet] /\ now \in Nat
         /\ \A s \in Sheets : /\ sheet[s] \in Sheet /\ sheet[s].from \in Nat
                               /\ sheet[s].lines \in [Items -> Line]
         /\ \A p \in Procs : call[p] # NoCall =>
              /\ call[p].sheet \in Sheets /\ call[p].row \in Sheet /\ call[p].row.from \in Nat
              /\ call[p].read \in [Sheets -> Sheet]
         /\ \A i \in Items : LivePrice(sheet, now, i) \in Prices \cup {0}
  <1>1. sheet \in [Sheets -> Sheet] /\ now \in Nat
    BY PricingConstantsOK DEF PricingIInv, PricingTypeOK
  <1>2. \A s \in Sheets : /\ sheet[s] \in Sheet /\ sheet[s].from \in Nat
                          /\ sheet[s].lines \in [Items -> Line]
    BY <1>1, PricingConstantsOK DEF Sheet
  <1>3. \A p \in Procs : call[p] # NoCall =>
          /\ call[p].sheet \in Sheets /\ call[p].row \in Sheet
          /\ call[p].read \in [Sheets -> Sheet]
    BY DEF PricingIInv, SheetCall
  <1>4. \A row \in Sheet : row.from \in Nat
    BY PricingConstantsOK DEF Sheet
  <1> QED  BY <1>1, <1>2, <1>3, <1>4, LiveTyped

LEMMA PricingInitIInv == RequestsInit /\ PricingInit => PricingIInv
  <1> SUFFICES ASSUME RequestsInit, PricingInit PROVE PricingIInv
    OBVIOUS
  <1> DEFINE new == [state |-> "none", lines |-> [i \in Items |-> NoLine], from |-> 0]
  <1>1. new \in Sheet /\ new.state = "none" /\ new.from = 0
    BY PricingConstantsOK DEF Sheet, Line, NoLine
  <1>2. sheet = [s \in Sheets |-> new] /\ now = 0 /\ cooling = FALSE /\ blurred = FALSE
    BY DEF PricingInit
  <1> HIDE DEF new
  <1>3. PricingTypeOK
    <2>1. sheet \in [Sheets -> Sheet]
      BY <1>1, <1>2
    <2>2. now \in 0..MaxNow
      BY <1>2, PricingConstantsOK
    <2> QED  BY <1>2, <2>1, <2>2 DEF PricingTypeOK
  <1>4. call \in [Procs -> SheetCall \cup {NoCall}] /\ \A p \in Procs : call[p] = NoCall
    BY DEF RequestsInit
  <1> QED
    BY <1>1, <1>2, <1>3, <1>4 DEF PricingIInv, Sound, Settled

(* A handler starts with a row that is harmless if nothing intervenes.     *)
LEMMA SheetRead ==
  ASSUME PricingIInv, NEW p \in Procs, NEW s \in Sheets, NEW row \in Sheet, NEW decided \in BOOLEAN,
         SaveLater(p, s, row, decided), sheet[s].state \in {"none", "open"},
         row.state \in {"approved", "rejected"} => sheet[s].state = "open",
         ~blurred /\ row.state = "approved" =>
           row.from > 0 /\ \A r \in Sheets : sheet[r].state = "approved" => sheet[r].from < row.from,
         ~blurred /\ row.state # "approved" => row.from = 0,
         ~blurred /\ row.state \in {"open", "approved"} => Carries(row.lines, sheet, now)
  PROVE  PricingIInv'
  <1> DEFINE x == [pc |-> "sheet", sheet |-> s, row |-> row, read |-> sheet, decided |-> decided]
  <1>1. x \in SheetCall /\ x.sheet = s /\ x.row = row /\ x.read = sheet
    BY PricingTypes DEF SheetCall
  <1>2. call' = [call EXCEPT ![p] = x] /\ UNCHANGED pricingVars
    BY DEF SaveLater, Begin
  <1> HIDE DEF x
  <1>3. ~blurred => SheetCallOK(x, now)
    BY <1>1 DEF SheetCallOK, PricingIInv, Sound
  <1>4. /\ call' \in [Procs -> SheetCall \cup {NoCall}] /\ call'[p] = x
        /\ \A q \in Procs \ {p} : call'[q] = call[q]
    BY <1>1, <1>2, SlotWritten DEF PricingIInv
  <1>5. ~blurred => \A q \in Procs : call'[q] # NoCall => SheetCallOK(call'[q], now)
    BY <1>3, <1>4 DEF PricingIInv
  <1>6. PricingTypeOK'
    BY <1>2 DEF PricingIInv, PricingTypeOK, pricingVars
  <1> QED  BY <1>2, <1>4, <1>5, <1>6 DEF PricingIInv, pricingVars

LEMMA SheetHandlersRead ==
  ASSUME PricingIInv, NEW p \in Procs, NEW s \in Sheets,
         \/ \E i \in Items : \/ \E v \in Prices : ProposePricing(p, s, i, v)
                             \/ \E d \in {"approved", "rejected"} : DecideLine(p, s, i, d)
         \/ \E from \in now..MaxNow : from > 0 /\ ApprovePricing(p, s, from)
         \/ RejectPricing(p, s)
  PROVE  PricingIInv'
  <1> DEFINE Live(i) == LivePrice(sheet, now, i)
             old     == sheet[s]
             price   == [i \in Items |-> Live(i)]
  <1>0. /\ old \in Sheet /\ old.lines \in [Items -> Line] /\ old.from \in Nat
        /\ \A i \in Items : Live(i) \in Prices \cup {0} /\ old.lines[i] \in Line
        /\ \A r \in Sheets : sheet[r].from \in Nat
        /\ now \in Nat
        /\ ~blurred => Settled(sheet, now)
        /\ ~blurred /\ old.state = "open" => Carries(old.lines, sheet, now)
    BY PricingTypes DEF PricingIInv, Sound
  <1>1. ASSUME NEW i \in Items, NEW v \in Prices, ProposePricing(p, s, i, v)
        PROVE  PricingIInv'
    <2> DEFINE lines == Proposal(old.lines, i, v)
               row   == [old EXCEPT !.state = "open", !.lines = lines]
    <2>1. /\ old.state \in {"none", "open"}
          /\ SaveLater(p, s, [old EXCEPT !.state = "open", !.lines = Proposal(@, i, v)], FALSE)
      BY <1>1 DEF ProposePricing, OpenSheets
    <2>2. /\ lines \in [Items -> Line]
          /\ \A j \in Items : Live(j) > 0 => lines[j] = [price |-> Live(j), status |-> "approved"]
      BY <1>0 DEF Proposal, Line
    <2>4. [old EXCEPT !.state = "open", !.lines = Proposal(@, i, v)] = row
      OBVIOUS
    <2> HIDE DEF lines
    <2>3. Carries(lines, sheet, now)
      BY <2>2 DEF Carries
    <2>5. row \in Sheet /\ row.state = "open" /\ row.lines = lines /\ row.from = old.from
      BY <1>0, <2>2 DEF Sheet
    <2>6. SaveLater(p, s, row, FALSE)
      BY <2>1, <2>4
    <2> HIDE DEF row
    <2>7. ~blurred => row.from = 0
      BY <1>0, <2>1, <2>5 DEF Settled
    <2> QED  BY <2>1, <2>3, <2>5, <2>6, <2>7, SheetRead
  <1>2. ASSUME NEW i \in Items, NEW d \in {"approved", "rejected"}, DecideLine(p, s, i, d)
        PROVE  PricingIInv'
    <2> DEFINE lines == [old.lines EXCEPT ![i].status = d]
               row   == [old EXCEPT !.lines[i].status = d]
    <2>1. old.state = "open" /\ SaveLater(p, s, row, FALSE)
      BY <1>2 DEF DecideLine
    <2>2. row \in Sheet /\ row.state = old.state /\ row.lines = lines /\ row.from = old.from
      BY <1>0 DEF Sheet, Line
    <2>3. /\ \A j \in Items \ {i} : lines[j] = old.lines[j]
          /\ lines[i].price = old.lines[i].price /\ lines[i].status = d
      BY <1>0 DEF Line
    <2> HIDE DEF lines, row
    <2>4. ~blurred => Carries(row.lines, sheet, now)
      BY <1>0, <2>1, <2>2, <2>3 DEF Carries
    <2>5. ~blurred => row.from = 0
      BY <1>0, <2>1, <2>2 DEF Settled
    <2> QED  BY <2>1, <2>2, <2>4, <2>5, SheetRead
  <1> DEFINE Reviewed(d) == [i \in Items |->
               IF old.lines[i].price > 0 /\ old.lines[i].status = "pending"
               THEN [old.lines[i] EXCEPT !.status = d] ELSE old.lines[i]]
             Row(d, state, from) == [state |-> state, from |-> from, lines |-> Reviewed(d)]
  <1>3. ASSUME NEW d \in {"approved", "rejected"}, NEW state \in {"approved", "rejected"},
               NEW from \in 0..MaxNow
        PROVE  /\ Row(d, state, from) \in Sheet /\ Row(d, state, from).state = state
               /\ Row(d, state, from).from = from /\ Row(d, state, from).lines = Reviewed(d)
               /\ ~blurred /\ old.state = "open" => Carries(Reviewed(d), sheet, now)
    <2>1. Reviewed(d) \in [Items -> Line]
      BY <1>0 DEF Line
    <2>2. ~blurred /\ old.state = "open" => Carries(Reviewed(d), sheet, now)
      <3>1. \A i \in Items : old.lines[i].status \in {"approved", "rejected"}
                               => Reviewed(d)[i] = old.lines[i]
        OBVIOUS
      <3> HIDE DEF Reviewed
      <3> QED  BY <1>0, <3>1 DEF Carries
    <2> HIDE DEF Reviewed
    <2> QED  BY <2>1, <2>2 DEF Sheet
  <1>4. ASSUME NEW from \in now..MaxNow, from > 0, ApprovePricing(p, s, from)
        PROVE  PricingIInv'
    <2>1. /\ old.state = "open" /\ \A r \in Sheets : sheet[r].from # from
          /\ SaveLater(p, s, Row("approved", "approved", from), TRUE)
      BY <1>4 DEF ApprovePricing
    <2>2. from \in 0..MaxNow /\ from >= now /\ from \in Nat
      BY <1>0, <1>4, PricingConstantsOK
    <2>3. ASSUME ~blurred, NEW r \in Sheets, sheet[r].state = "approved"
          PROVE  sheet[r].from < from
      <3>1. sheet[r].from <= now /\ sheet[r].from # from /\ sheet[r].from \in Nat
        BY <1>0, <2>1, <2>3 DEF Settled
      <3> QED  BY <1>0, <2>2, <3>1
    <2> DEFINE row == Row("approved", "approved", from)
    <2>4. /\ row \in Sheet /\ row.state = "approved" /\ row.from = from
          /\ ~blurred => Carries(row.lines, sheet, now)
      <3> HIDE DEF Row, Reviewed
      <3> QED  BY <1>3, <2>1, <2>2
    <2>5. SaveLater(p, s, row, TRUE)
      BY <2>1
    <2> HIDE DEF row
    <2> QED  BY <1>4, <2>1, <2>3, <2>4, <2>5, SheetRead
  <1>5. CASE RejectPricing(p, s)
    <2>1. /\ old.state = "open" /\ \A r \in Sheets : sheet[r].from # now
          /\ \E b \in BOOLEAN : SaveLater(p, s, IF b THEN Row("rejected", "approved", now)
                                                 ELSE Row("rejected", "rejected", 0), b)
      BY <1>5 DEF RejectPricing
    <2>2. PICK b \in BOOLEAN : SaveLater(p, s, IF b THEN Row("rejected", "approved", now)
                                                 ELSE Row("rejected", "rejected", 0), b)
      BY <2>1
    <2>3. now \in 0..MaxNow /\ 0 \in 0..MaxNow
      BY PricingConstantsOK DEF PricingIInv, PricingTypeOK
    <2>4. ~blurred => /\ now > 0
                      /\ \A r \in Sheets : sheet[r].state = "approved" => sheet[r].from < now
      BY <1>0, <2>1 DEF Settled
    <2>5. CASE b
      <3> DEFINE row == Row("rejected", "approved", now)
      <3>1. /\ row \in Sheet /\ row.state = "approved" /\ row.from = now
            /\ ~blurred => Carries(row.lines, sheet, now)
        <4> HIDE DEF Row, Reviewed
        <4> QED  BY <1>3, <2>1, <2>3
      <3>2. SaveLater(p, s, row, b)
        BY <2>2, <2>5
      <3> HIDE DEF row
      <3> QED  BY <2>1, <2>4, <3>1, <3>2, SheetRead
    <2>6. CASE ~b
      <3> DEFINE row == Row("rejected", "rejected", 0)
      <3>1. row \in Sheet /\ row.state = "rejected" /\ row.from = 0
        <4> HIDE DEF Row, Reviewed
        <4> QED  BY <1>3, <2>1, <2>3
      <3>2. SaveLater(p, s, row, b)
        BY <2>2, <2>6
      <3> HIDE DEF row
      <3> QED  BY <2>1, <3>1, <3>2, SheetRead
    <2> QED  BY <2>5, <2>6
  <1> QED  BY <1>1, <1>2, <1>4, <1>5

(* A row is saved over the one it was made from.                           *)
LEMMA SheetSaved ==
  ASSUME PricingIInv, NEW p \in Procs, SaveSheet(p), ~blurred'
  PROVE  /\ Sound(sheet', now)
         /\ \A i \in Items : LivePrice(sheet, now, i) > 0 =>
              \/ LivePrice(sheet', now, i) = LivePrice(sheet, now, i)
              \/ \E s \in InForce(sheet', now) : sheet'[s].lines[i].status = "rejected"
  <1>0. call[p] # NoCall /\ call[p].sheet \in Sheets /\ call[p].row \in Sheet /\ call[p].row.from \in Nat
    BY PricingTypes DEF SaveSheet, At
  <1> PICK s \in Sheets, row \in Sheet : s = call[p].sheet /\ row = call[p].row /\ row.from \in Nat
    BY <1>0
  <1>1. /\ sheet' = [sheet EXCEPT ![s] = row] /\ ~blurred /\ sheet = call[p].read /\ row.from <= now
        /\ row.state = "open" => \A r \in Sheets \ {s} : sheet[r].state # "open"
    BY <1>0, PricingTypes DEF SaveSheet, OpenSheets
  <1>2. /\ Settled(sheet, now) /\ sheet[s].state \in {"none", "open"}
        /\ row.state \in {"approved", "rejected"} => sheet[s].state = "open"
        /\ row.state = "approved" =>
             row.from > 0 /\ \A r \in Sheets : sheet[r].state = "approved" => sheet[r].from < row.from
        /\ row.state # "approved" => row.from = 0
        /\ row.state \in {"open", "approved"} => Carries(row.lines, sheet, now)
    BY <1>0, <1>1 DEF PricingIInv, SheetCallOK
  <1>3. /\ sheet \in [Sheets -> Sheet] /\ sheet' \in [Sheets -> Sheet] /\ now \in Nat
        /\ sheet'[s] = row /\ \A r \in Sheets \ {s} : sheet'[r] = sheet[r]
        /\ \A r \in Sheets : sheet[r].from \in Nat
    BY <1>1, PricingTypes
  <1>4. Settled(sheet', now)
    BY <1>1, <1>2, <1>3 DEF Settled
  <1>5. \A q, r \in Sheets : sheet'[q].state = "open" /\ sheet'[r].state = "open" => q = r
    BY <1>1, <1>3 DEF PricingIInv, Sound
  <1>6. CASE row.state # "approved"
    <2>1. \A i \in Items : LivePrice(sheet', now, i) = LivePrice(sheet, now, i)
      BY <1>2, <1>3, <1>4, <1>6, SameLive
    <2>2. ASSUME NEW r \in Sheets, sheet'[r].state = "open"
          PROVE  Carries(sheet'[r].lines, sheet, now)
      BY <1>1, <1>2, <1>3, <2>2 DEF PricingIInv, Sound
    <2>3. \A r \in Sheets : sheet'[r].state = "open" => Carries(sheet'[r].lines, sheet', now)
      BY <2>1, <2>2 DEF Carries
    <2> QED  BY <1>4, <1>5, <2>1, <2>3 DEF Sound
  <1>7. CASE row.state = "approved"
    <2>1. \A r \in Sheets : sheet'[r].state # "open"
      BY <1>1, <1>2, <1>3, <1>7 DEF PricingIInv, Sound
    <2>2. InForce(sheet', now) = {s}
      <3>1. \A r \in Sheets \ {s} : sheet'[r].state = "approved" => sheet'[r].from < sheet'[s].from
        BY <1>2, <1>3, <1>7
      <3>2. sheet'[s].state = "approved" /\ sheet'[s].from <= now
        BY <1>1, <1>3, <1>7
      <3>3. \A r \in Sheets : sheet'[r].from \in Nat
        BY <1>3
      <3> QED  BY <3>1, <3>2, <3>3 DEF InForce
    <2>3. ASSUME NEW i \in Items, LivePrice(sheet, now, i) > 0
          PROVE  \/ LivePrice(sheet', now, i) = LivePrice(sheet, now, i)
                 \/ \E r \in InForce(sheet', now) : sheet'[r].lines[i].status = "rejected"
      <3>0. LivePrice(sheet', now, i) =
              IF sheet'[s].lines[i].status = "approved" THEN sheet'[s].lines[i].price ELSE 0
        BY <2>2, LiveInForce
      <3>1. LivePrice(sheet', now, i) =
              IF row.lines[i].status = "approved" THEN row.lines[i].price ELSE 0
        BY <1>3, <3>0
      <3>2. row.lines[i].price = LivePrice(sheet, now, i) /\ row.lines[i].status \in {"approved", "rejected"}
        BY <1>2, <1>7, <2>3 DEF Carries
      <3> QED  BY <1>3, <2>2, <3>1, <3>2
    <2> QED  BY <1>4, <2>1, <2>3 DEF Sound
  <1> QED  BY <1>6, <1>7

(* A moment passes: no sheet was approved for it.                          *)
LEMMA SheetsLater ==
  ASSUME PricingIInv, Later, ~blurred
  PROVE  /\ Sound(sheet, now')
         /\ \A i \in Items : LivePrice(sheet, now', i) = LivePrice(sheet, now, i)
         /\ \A p \in Procs : call[p] # NoCall => SheetCallOK(call[p], now')
  <1>1. now' = now + 1 /\ Sound(sheet, now)
    BY DEF Later, PricingIInv
  <1>2. /\ Settled(sheet, now')
        /\ \A i \in Items : LivePrice(sheet, now', i) = LivePrice(sheet, now, i)
    BY <1>1, LaterSettled, PricingTypes DEF Sound
  <1>3. ASSUME NEW p \in Procs, call[p] # NoCall
        PROVE  SheetCallOK(call[p], now')
    <2>1. SheetCallOK(call[p], now) /\ call[p].read \in [Sheets -> Sheet] /\ now \in Nat
      BY <1>3, PricingTypes DEF PricingIInv
    <2>2. /\ Settled(call[p].read, now')
          /\ \A i \in Items : LivePrice(call[p].read, now', i) = LivePrice(call[p].read, now, i)
      BY <1>1, <2>1, LaterSettled DEF SheetCallOK
    <2> QED  BY <2>1, <2>2 DEF SheetCallOK, Carries
  <1> QED  BY <1>1, <1>2, <1>3 DEF Sound, Carries

LEMMA PricingNextIInv == PricingIInv /\ [PricingNext]_<<pricingVars, requestVars>> => PricingIInv'
  <1> SUFFICES ASSUME PricingIInv, [PricingNext]_<<pricingVars, requestVars>> PROVE PricingIInv'
    OBVIOUS
  <1>1. ASSUME NEW p \in Procs, SaveSheet(p)
        PROVE  PricingIInv'
    <2>1. /\ call' = [call EXCEPT ![p] = NoCall] /\ now' = now /\ call[p] # NoCall
          /\ sheet' = [sheet EXCEPT ![call[p].sheet] = call[p].row]
          /\ blurred' \in BOOLEAN /\ cooling' \in BOOLEAN
          /\ blurred => blurred'
      BY <1>1 DEF SaveSheet, At, End, GotoState, PricingIInv, PricingTypeOK
    <2>2. /\ call' \in [Procs -> SheetCall \cup {NoCall}] /\ call'[p] = NoCall
          /\ \A q \in Procs \ {p} : call'[q] = call[q]
      BY <2>1, SlotWritten DEF PricingIInv
    <2>3. sheet' \in [Sheets -> Sheet]
      BY <2>1, PricingTypes
    <2>4. PricingTypeOK'
      BY <2>1, <2>3 DEF PricingIInv, PricingTypeOK
    <2>5. ~blurred' => \A q \in Procs : call'[q] # NoCall => SheetCallOK(call'[q], now)
      BY <2>1, <2>2 DEF PricingIInv
    <2> QED  BY <1>1, <2>1, <2>2, <2>4, <2>5, SheetSaved DEF PricingIInv
  <1>2. CASE Later
    <2>1. now' \in 0..MaxNow /\ UNCHANGED <<sheet, blurred, call>>
      BY <1>2, PricingConstantsOK DEF Later, requestVars, PricingIInv, PricingTypeOK
    <2>3. cooling' \in BOOLEAN
      BY <1>2, ZenonT(20) DEF Later, PricingIInv, PricingTypeOK
    <2>2. PricingTypeOK'
      BY <2>1, <2>3 DEF PricingIInv, PricingTypeOK
    <2> QED  BY <1>2, <2>1, <2>2, SheetsLater DEF PricingIInv
  <1>3. CASE UNCHANGED <<pricingVars, requestVars>>
    BY <1>3 DEF pricingVars, requestVars, PricingIInv, PricingTypeOK
  <1> QED  BY <1>1, <1>2, <1>3, SheetHandlersRead DEF PricingNext

(* What a vendor's approved price for an item is, an order is charged,     *)
(* whatever is proposed, decided or approved next and when, until an admin *)
(* rejects the line in a later sheet.                                      *)
THEOREM PricesLocked == PricingSpec => LivePriceIsLocked
  <1>1. ASSUME PricingIInv, [PricingNext]_<<pricingVars, requestVars>>
        PROVE  [\A i \in Items :
                  ~blurred' /\ LivePrice(sheet, now, i) > 0 =>
                    \/ LivePrice(sheet', now', i) = LivePrice(sheet, now, i)
                    \/ \E s \in InForce(sheet', now') : sheet'[s].lines[i].status = "rejected"]_pricingVars
    <2>1. CASE \E p \in Procs : SaveSheet(p)
      BY <1>1, <2>1, SheetSaved DEF SaveSheet
    <2>2. CASE Later
      BY <1>1, <2>2, SheetsLater DEF Later
    <2>3. CASE UNCHANGED pricingVars
      BY <2>3
    <2> QED
      BY <1>1, <2>1, <2>2, <2>3 DEF PricingNext, ProposePricing, DecideLine, ApprovePricing,
                                    RejectPricing, SaveLater
  <1> QED  BY <1>1, PricingInitIInv, PricingNextIInv, PTL DEF PricingSpec, LivePriceIsLocked

-----------------------------------------------------------------------------
(* The catalogue.  A handler that will bring the cache up to date is alone *)
(* and has priced, step after step, what its position says it has.         *)

ItemCall == [pc : {"item"}, id : CatalogueItems, row : Entry, read : Entry]

IsBag(b)    == \E c, x, y : b = [capacity |-> c, price |-> x, points |-> y]
IsBundle(b) == \E m, x, y : b = [promo |-> m, price |-> x, points |-> y]

CallTyped(c) ==
  \/ c \in ItemCall /\ c.row.price = c.read.price
  \/ c \in EpochCall /\ \A i, j \in c.listing : i = j
  \/ \E b : IsBag(b) /\ \E pc \in {"editBag", "priceBag"} : c = [pc |-> pc, row |-> b]
  \/ \E b : IsBag(b) /\ \E pc \in {"saveBag", "priceBundle"}, e \in BOOLEAN :
                          c = [pc |-> pc, epoch |-> e, row |-> b]
  \/ \E b : IsBundle(b) /\ \E pc \in {"editBundle", "priceBundle", "saveBundle"} :
                             c = [pc |-> pc, row |-> b]

CatalogueTyped ==
  /\ asked \in [CatalogueItems -> Asked] /\ rate \in Nat /\ entry \in [CatalogueItems -> Entry]
  /\ listed \in [CatalogueItems -> Nat] /\ IsBag(bag) /\ IsBundle(bundle)
  /\ upToDate \in Procs \cup {"yes", "no"}
  /\ call = [p \in Procs |-> call[p]]
  /\ \A p \in Procs : call[p] # NoCall => CallTyped(call[p])

(* The price of an item is in the history, or a handler is about to add it. *)
ToList(p, i) == At(p, "epoch") /\ i \in call[p].listing /\ call[p].price[i] = entry[i].price
Listed(i)    == entry[i].price > 0 => listed[i] = entry[i].price \/ \E p \in Procs : ToList(p, i)

ItemRight(i) ==
  entry[i].status # "none" =>
    entry[i].price = Fair[i] /\ (entry[i].status = "active" => (entry[i].available <=> Fair[i] > 0))
ItemsRight     == \A i \in CatalogueItems : ItemRight(i)
BagRight(b)    == b.points = Points(BagPrice(Fair, b.capacity))
BundleRight(b) == b.points = Points(BundlePrice(Fair, b.promo))

Progress(c) ==
  /\ c.pc # "item"
  /\ c.pc = "epoch" => /\ c.price = Fair
                       /\ \A i \in c.todo : c.rows[i] = entry[i]
                       /\ \A i \in CatalogueItems \ c.todo : ItemRight(i)
  /\ c.pc # "epoch" => ItemsRight
  /\ c.pc = "saveBag" => BagRight(c.row)
  /\ c.pc \in {"editBundle", "priceBundle", "saveBundle"} => BagRight(bag)
  /\ c.pc = "saveBundle" => BundleRight(c.row)
  /\ c.pc \in {"editBag", "priceBag"} \/ (c.pc = "saveBag" /\ ~c.epoch) => BundleRight(bundle)

CatalogueIInv ==
  /\ CatalogueTyped
  /\ \A i \in CatalogueItems \ unlisted : Listed(i)
  /\ upToDate = "yes" => /\ \A p \in Procs : call[p] = NoCall
                         /\ ItemsRight /\ BagRight(bag) /\ BundleRight(bundle)
  /\ \A p \in Procs : upToDate = p => Alone(p) /\ (call[p] # NoCall => Progress(call[p]))

(* The order in which SetToSeq lists a finite set stays inside the set.    *)
LEMMA SeqOfSet ==
  ASSUME NEW S, IsFiniteSet(S)
  PROVE  SetToSeq(S) \in [1..Cardinality(S) -> S]
  <1>1. \E f \in [1..Cardinality(S) -> S] : IsInjective(f)
    BY FS_CardinalityType DEF ExistsBijection, Bijection, Injection
  <1> QED  BY <1>1 DEF SetToSeq

(* Prices that agree on the items sold make the same bag and bundle.       *)
LEMMA SamePrices ==
  ASSUME NEW s \in SUBSET CatalogueItems, ItemsRight
  PROVE  PricesOf(s, Cached) = PricesOf(s, Fair)
  <1> DEFINE Sold(price) == {i \in s : entry[i].status = "active" /\ price[i] > 0}
  <1>1. \A i \in CatalogueItems : entry[i].status = "active" => Cached[i] = Fair[i]
    BY DEF ItemsRight, ItemRight, Cached
  <1>2. Sold(Cached) = Sold(Fair)
    BY <1>1
  <1>3. \A i \in Sold(Fair) : Cached[i] = Fair[i]
    BY <1>1
  <1>4. IsFiniteSet(Sold(Fair))
    BY FS_Subset, CatalogueConstantsOK
  <1> DEFINE order == SetToSeq(Sold(Fair))
  <1>5. order \in [1..Cardinality(Sold(Fair)) -> Sold(Fair)]
    BY <1>4, SeqOfSet
  <1>6. PricesOf(s, Cached) = [k \in DOMAIN order |-> Cached[order[k]]]
        /\ PricesOf(s, Fair) = [k \in DOMAIN order |-> Fair[order[k]]]
    BY <1>2 DEF PricesOf
  <1> HIDE DEF order, Sold
  <1> QED  BY <1>3, <1>5, <1>6

LEMMA SameBagAndBundle ==
  ASSUME ItemsRight
  PROVE  /\ \A c : BagPrice(Cached, c) = BagPrice(Fair, c)
         /\ \A m : BundlePrice(Cached, m) = BundlePrice(Fair, m)
  <1>1. PricesOf(Everyday, Cached) = PricesOf(Everyday, Fair)
    BY SamePrices, CatalogueConstantsOK
  <1>2. PricesOf(DOMAIN Quantities, Cached) = PricesOf(DOMAIN Quantities, Fair)
    BY SamePrices, CatalogueConstantsOK
  <1> QED  BY <1>1, <1>2 DEF BagPrice, BundlePrice

LEMMA PointsTyped ==
  ASSUME NEW price \in Nat, rate \in Nat
  PROVE  Points(price) \in Nat
  <1>1. price * rate \in Nat
    OBVIOUS
  <1> DEFINE n == price * rate
  <1>2. n \in Nat
    BY <1>1
  <1> HIDE DEF n
  <1>3. (2 * n + 100) \div (2 * 100) \in Nat
    BY <1>2
  <1> QED  BY <1>3 DEF Points, Rounded, n

(* What is free in the vendors' sheets is free for the customer.           *)
LEMMA FreeIsFree == rate \in Nat => Points(Ironed(0)) = 0
  <1>1. IroningPercent \in Nat
    BY CatalogueConstantsOK
  <1>2. 0 * (100 + IroningPercent) = 0
    BY <1>1
  <1>3. Ironed(0) = 0
    BY <1>2 DEF Ironed, Rounded
  <1> QED  BY <1>3 DEF Points, Rounded

LEMMA CatalogueInitIInv == RequestsInit /\ CatalogueInit => CatalogueIInv
  <1> SUFFICES ASSUME RequestsInit, CatalogueInit PROVE CatalogueIInv
    OBVIOUS
  <1> DEFINE new == [NoEntry EXCEPT !.status = "active"]
  <1>1. NoEntry \in Entry /\ new \in Entry /\ NoEntry.price = 0 /\ new.price = 0
    BY DEF Entry, NoEntry
  <1>2. entry \in [CatalogueItems -> {NoEntry, new}]
    BY DEF CatalogueInit
  <1> HIDE DEF new
  <1>3. entry \in [CatalogueItems -> Entry] /\ \A i \in CatalogueItems : entry[i].price = 0
    BY <1>1, <1>2
  <1>4. IsBag(bag) /\ IsBundle(bundle)
    BY DEF CatalogueInit, IsBag, IsBundle
  <1>5. call = [p \in Procs |-> NoCall]
    BY DEF RequestsInit
  <1>6. /\ asked \in [CatalogueItems -> Asked] /\ upToDate = "no"
        /\ listed \in [CatalogueItems -> Nat]
    BY DEF CatalogueInit
  <1>7. rate \in Nat
    BY CatalogueConstantsOK DEF CatalogueInit
  <1> QED  BY <1>3, <1>4, <1>5, <1>6, <1>7, CatalogueConstantsOK DEF CatalogueIInv, CatalogueTyped, Listed

LEMMA CatalogueTypes ==
  ASSUME CatalogueIInv
  PROVE  /\ \A i \in CatalogueItems :
              /\ entry[i] \in Entry /\ entry[i].price \in Nat /\ listed[i] \in Nat
              /\ Fair[i] \in Nat /\ Fair[i] = Price(asked[i])
         /\ Fair \in [CatalogueItems -> Nat]
  <1>1. \A i \in CatalogueItems : Price(asked[i]) \in Nat
    BY CatalogueConstantsOK DEF CatalogueIInv, CatalogueTyped
  <1>2. Fair = [i \in CatalogueItems |-> Price(asked[i])]
    BY DEF Fair
  <1> QED  BY <1>1, <1>2 DEF CatalogueIInv, CatalogueTyped, Entry

(* A slot of any call.                                                     *)
LEMMA SlotSet ==
  ASSUME CatalogueIInv, NEW p \in Procs, NEW x, call' = [call EXCEPT ![p] = x]
  PROVE  /\ call' = [q \in Procs |-> call'[q]] /\ call'[p] = x
         /\ \A q \in Procs \ {p} : call'[q] = call[q]
  BY DEF CatalogueIInv, CatalogueTyped

(* The parts of the invariant that hold whoever intervenes: types and the  *)
(* history.                                                                *)
Kept == CatalogueTyped /\ \A i \in CatalogueItems \ unlisted : Listed(i)

LEMMA KeptMoves ==
  ASSUME CatalogueIInv, NEW p \in Procs, NEW x, call' = [call EXCEPT ![p] = x],
         x # NoCall => CallTyped(x),
         UNCHANGED <<asked, rate, entry, listed>>, IsBag(bag'), IsBundle(bundle'),
         upToDate' \in Procs \cup {"yes", "no"}, unlisted \subseteq unlisted',
         \A i \in CatalogueItems \ unlisted' : ~ToList(p, i)
  PROVE  Kept'
  <1>1. /\ call' = [q \in Procs |-> call'[q]] /\ call'[p] = x
        /\ \A q \in Procs \ {p} : call'[q] = call[q]
    BY SlotSet
  <1>2. CatalogueTyped'
    BY <1>1 DEF CatalogueIInv, CatalogueTyped
  <1>3. \A i \in CatalogueItems \ unlisted', q \in Procs : ToList(q, i) => ToList(q, i)'
    BY <1>1 DEF ToList, At
  <1>4. \A i \in CatalogueItems \ unlisted' : Listed(i)'
    BY <1>3 DEF CatalogueIInv, Listed
  <1> QED  BY <1>2, <1>4 DEF Kept

(* No handler of which anything is known runs beside another.              *)
LEMMA OneRefreshes ==
  ASSUME CatalogueIInv, NEW p \in Procs, call[p] # NoCall, upToDate # p
  PROVE  upToDate = "no"
  BY DEF CatalogueIInv, CatalogueTyped, Alone

LEMMA IsStale ==
  ASSUME Kept', upToDate' = "no"
  PROVE  CatalogueIInv'
  BY CatalogueConstantsOK DEF Kept, CatalogueIInv

(* A handler in flight moves, or ends.                                     *)
LEMMA IsFresh ==
  ASSUME CatalogueIInv, Kept', NEW p \in Procs, NEW x, call' = [call EXCEPT ![p] = x],
         call[p] # NoCall,
         upToDate # p => upToDate' \in {upToDate, "no"},
         upToDate = p => \/ upToDate' = p /\ (x # NoCall => Progress(x)')
                         \/ /\ upToDate' = "yes" /\ x = NoCall
                            /\ ItemsRight' /\ BagRight(bag)' /\ BundleRight(bundle)'
  PROVE  CatalogueIInv'
  <1>1. call'[p] = x /\ \A q \in Procs \ {p} : call'[q] = call[q]
    BY SlotSet
  <1>2. CASE upToDate # p
    <2>1. upToDate' = "no"
      BY <1>2, OneRefreshes
    <2> QED  BY <2>1, IsStale
  <1>3. CASE upToDate = p
    <2>1. Alone(p) /\ p \notin {"yes", "no"}
      BY <1>3, CatalogueConstantsOK DEF CatalogueIInv
    <2>2. CASE upToDate' = p /\ (x # NoCall => Progress(x)')
      <3>1. Alone(p)'
        BY <1>1, <2>1 DEF Alone
      <3>2. call'[p] # NoCall => Progress(call[p])'
        BY <1>1, <2>2 DEF Progress
      <3> QED  BY <2>1, <2>2, <3>1, <3>2 DEF Kept, CatalogueIInv
    <2>3. CASE /\ upToDate' = "yes" /\ x = NoCall
               /\ ItemsRight' /\ BagRight(bag)' /\ BundleRight(bundle)'
      <3>1. \A q \in Procs : call'[q] = NoCall /\ q # "yes"
        BY <1>1, <2>1, <2>3, CatalogueConstantsOK DEF Alone
      <3> QED  BY <2>3, <3>1 DEF Kept, CatalogueIInv
    <2> QED  BY <1>3, <2>2, <2>3
  <1> QED  BY <1>2, <1>3

(* Right is right as long as rows and prices stay.                         *)
LEMMA SameCache ==
  ASSUME UNCHANGED <<asked, rate, entry>>
  PROVE  /\ Fair' = Fair /\ \A i : ItemRight(i)' <=> ItemRight(i)
         /\ ItemsRight' <=> ItemsRight
         /\ \A b : BagRight(b)' <=> BagRight(b)
         /\ \A b : BundleRight(b)' <=> BundleRight(b)
  <1>1. Fair' = Fair
    BY DEF Fair
  <1>2. \A n : Points(n)' = Points(n)
    BY DEF Points
  <1>3. \A s, f : PricesOf(s, f)' = PricesOf(s, f)
    BY DEF PricesOf
  <1>4. \A f, c : BagPrice(f, c)' = BagPrice(f, c)
    BY <1>3 DEF BagPrice
  <1>5. \A f, m : BundlePrice(f, m)' = BundlePrice(f, m)
    BY <1>3 DEF BundlePrice
  <1>6. \A i : ItemRight(i)' <=> ItemRight(i)
    BY <1>1 DEF ItemRight
  <1> QED  BY <1>1, <1>2, <1>4, <1>5, <1>6 DEF ItemsRight, BagRight, BundleRight

(* A handler starts; it may bring the cache up to date if it is alone.     *)
LEMMA StartsFresh ==
  ASSUME CatalogueIInv, NEW p \in Procs, NEW x, CallTyped(x), Begin(p, x),
         UNCHANGED <<asked, rate, entry, listed, bag, bundle, unlisted>>,
         upToDate' = "no" \/ (upToDate' = p /\ Alone(p) /\ Progress(x))
  PROVE  CatalogueIInv'
  <1>1. call' = [call EXCEPT ![p] = x] /\ call[p] = NoCall
    BY DEF Begin
  <1>2. \A i \in CatalogueItems : ~ToList(p, i)
    BY <1>1 DEF ToList, At
  <1>3. Kept'
    BY <1>1, <1>2, KeptMoves DEF CatalogueIInv, CatalogueTyped
  <1>4. call'[p] = x /\ \A q \in Procs \ {p} : call'[q] = call[q]
    BY <1>1, SlotSet
  <1>5. CASE upToDate' = p /\ Alone(p) /\ Progress(x)
    <2>1. Alone(p)' /\ p \notin {"yes", "no"}
      BY <1>4, <1>5, CatalogueConstantsOK DEF Alone
    <2>2. Progress(call[p])'
      BY <1>4, <1>5, SameCache DEF Progress
    <2> QED  BY <1>3, <1>5, <2>1, <2>2 DEF Kept, CatalogueIInv
  <1> QED  BY <1>3, <1>5, IsStale

(* What happens beside the handlers: the cache is stale.                   *)
LEMMA CatalogueOutside ==
  ASSUME CatalogueIInv,
         \/ \E i \in CatalogueItems : CreateItem(i) \/ \E prices \in Asked : VendorsAsk(i, prices)
         \/ \E r \in Rates : RateChanges(r)
  PROVE  CatalogueIInv'
  <1>1. ASSUME NEW i \in CatalogueItems, NEW prices \in Asked, VendorsAsk(i, prices)
        PROVE  CatalogueIInv'
    <2>1. CatalogueTyped'
      BY <1>1 DEF VendorsAsk, OneStep, CatalogueIInv, CatalogueTyped
    <2>2. \A j \in CatalogueItems \ unlisted' : Listed(j)'
      BY <1>1 DEF VendorsAsk, OneStep, CatalogueIInv, Listed, ToList, At
    <2> QED  BY <1>1, <2>1, <2>2, IsStale DEF VendorsAsk, Kept
  <1>2. ASSUME NEW r \in Rates, RateChanges(r)
        PROVE  CatalogueIInv'
    <2>1. CatalogueTyped'
      BY <1>2, CatalogueConstantsOK DEF RateChanges, OneStep, CatalogueIInv, CatalogueTyped
    <2>2. \A j \in CatalogueItems \ unlisted' : Listed(j)'
      BY <1>2 DEF RateChanges, OneStep, CatalogueIInv, Listed, ToList, At
    <2> QED  BY <1>2, <2>1, <2>2, IsStale DEF RateChanges, Kept
  <1>3. ASSUME NEW i \in CatalogueItems, CreateItem(i)
        PROVE  CatalogueIInv'
    <2> DEFINE new == [NoEntry EXCEPT !.status = "active"]
    <2>1. new \in Entry /\ new.price = 0
      BY DEF Entry, NoEntry
    <2>2. entry' = [entry EXCEPT ![i] = new] /\ upToDate' = "no"
          /\ UNCHANGED <<asked, rate, listed, bag, bundle, unlisted, call>>
      BY <1>3 DEF CreateItem, OneStep
    <2> HIDE DEF new
    <2>3. /\ entry' \in [CatalogueItems -> Entry] /\ entry'[i] = new
          /\ \A j \in CatalogueItems \ {i} : entry'[j] = entry[j]
      BY <2>1, <2>2 DEF CatalogueIInv, CatalogueTyped
    <2>4. CatalogueTyped'
      BY <2>2, <2>3 DEF CatalogueIInv, CatalogueTyped
    <2>5. \A j \in CatalogueItems \ unlisted' : Listed(j)'
      BY <2>1, <2>2, <2>3 DEF CatalogueIInv, Listed, ToList, At
    <2> QED  BY <2>2, <2>4, <2>5, IsStale DEF Kept
  <1> QED  BY <1>1, <1>2, <1>3

LEMMA CatalogueStarts ==
  ASSUME CatalogueIInv, NEW p \in Procs,
         \/ \E i \in CatalogueItems, status \in {"active", "inactive"} : UpdateItem(p, i, status)
         \/ StartEpoch(p)
         \/ \E c \in Capacities : UpdateBag(p, c)
         \/ \E m \in Promos : UpdateBundle(p, m)
  PROVE  CatalogueIInv'
  <1>1. ASSUME NEW i \in CatalogueItems, NEW status \in {"active", "inactive"}, UpdateItem(p, i, status)
        PROVE  CatalogueIInv'
    <2> DEFINE row == [entry[i] EXCEPT !.status = status]
               x   == [pc |-> "item", id |-> i, row |-> row, read |-> entry[i]]
    <2>1. row \in Entry /\ row.price = entry[i].price /\ entry[i] \in Entry
      BY CatalogueTypes DEF Entry
    <2>2. Begin(p, x) /\ upToDate' = "no"
          /\ UNCHANGED <<asked, rate, entry, listed, bag, bundle, unlisted>>
      BY <1>1 DEF UpdateItem
    <2> HIDE DEF row
    <2>3. x \in ItemCall /\ x.row.price = x.read.price
      BY <2>1 DEF ItemCall
    <2> HIDE DEF x
    <2>4. CallTyped(x)
      BY <2>3 DEF CallTyped
    <2> QED  BY <2>2, <2>4, StartsFresh
  <1>2. CASE StartEpoch(p)
    <2> DEFINE todo   == {i \in CatalogueItems : entry[i].status # "none"}
               points == [i \in CatalogueItems |-> Points(Price(asked[i]))]
               x      == [pc |-> "epoch", listing |-> {}, todo |-> todo,
                          rows |-> entry, price |-> Fair, points |-> points]
    <2>1. /\ Begin(p, x) /\ UNCHANGED <<asked, rate, entry, listed, bag, bundle, unlisted>>
          /\ upToDate' = IF Alone(p) THEN p ELSE "no"
      BY <1>2 DEF StartEpoch, Refreshes, Fair
    <2>2. points \in [CatalogueItems -> Nat]
      BY CatalogueTypes, PointsTyped DEF CatalogueIInv, CatalogueTyped
    <2> HIDE DEF points
    <2>3. x \in EpochCall
      BY <2>2, CatalogueTypes DEF EpochCall, CatalogueIInv, CatalogueTyped
    <2>4. /\ x.pc = "epoch" /\ x.price = Fair /\ x.rows = entry /\ x.listing = {}
          /\ \A i \in CatalogueItems \ x.todo : entry[i].status = "none"
      OBVIOUS
    <2> HIDE DEF x
    <2>5. CallTyped(x)
      BY <2>3, <2>4 DEF CallTyped
    <2>6. Progress(x)
      BY <2>4 DEF Progress, ItemRight
    <2> QED  BY <2>1, <2>5, <2>6, StartsFresh
  <1>3. ASSUME NEW c \in Capacities, UpdateBag(p, c)
        PROVE  CatalogueIInv'
    <2> DEFINE row == [bag EXCEPT !.capacity = c]
               x   == [pc |-> "editBag", row |-> row]
    <2>1. /\ Begin(p, x) /\ UNCHANGED <<asked, rate, entry, listed, bag, bundle, unlisted>>
          /\ upToDate' = IF Alone(p) /\ upToDate = "yes" THEN p ELSE "no"
      BY <1>3 DEF UpdateBag, Refreshes
    <2>2. IsBag(row)
      <3>1. PICK k, x0, y : bag = [capacity |-> k, price |-> x0, points |-> y]
        BY DEF CatalogueIInv, CatalogueTyped, IsBag
      <3>2. row = [capacity |-> c, price |-> x0, points |-> y]
        BY <3>1
      <3> QED  BY <3>2 DEF IsBag
    <2> HIDE DEF row
    <2>3. CallTyped(x) /\ x.pc = "editBag"
      BY <2>2 DEF CallTyped
    <2> HIDE DEF x
    <2>4. upToDate = "yes" => Progress(x)
      BY <2>3 DEF Progress, CatalogueIInv
    <2> QED  BY <2>1, <2>3, <2>4, StartsFresh
  <1>4. ASSUME NEW m \in Promos, UpdateBundle(p, m)
        PROVE  CatalogueIInv'
    <2> DEFINE row == [bundle EXCEPT !.promo = m]
               x   == [pc |-> "editBundle", row |-> row]
    <2>1. /\ Begin(p, x) /\ UNCHANGED <<asked, rate, entry, listed, bag, bundle, unlisted>>
          /\ upToDate' = IF Alone(p) /\ upToDate = "yes" THEN p ELSE "no"
      BY <1>4 DEF UpdateBundle, Refreshes
    <2>2. IsBundle(row)
      <3>1. PICK k, x0, y : bundle = [promo |-> k, price |-> x0, points |-> y]
        BY DEF CatalogueIInv, CatalogueTyped, IsBundle
      <3>2. row = [promo |-> m, price |-> x0, points |-> y]
        BY <3>1
      <3> QED  BY <3>2 DEF IsBundle
    <2> HIDE DEF row
    <2>3. CallTyped(x) /\ x.pc = "editBundle"
      BY <2>2 DEF CallTyped
    <2> HIDE DEF x
    <2>4. upToDate = "yes" => Progress(x)
      BY <2>3 DEF Progress, CatalogueIInv
    <2> QED  BY <2>1, <2>3, <2>4, StartsFresh
  <1> QED  BY <1>1, <1>2, <1>3, <1>4

(* The states of the handlers that are not epochs or items.                *)
LEMMA CatalogueCalls ==
  ASSUME CatalogueIInv, NEW p \in Procs, call[p] # NoCall
  PROVE  /\ CallTyped(call[p])
         /\ call[p].pc \in {"item", "epoch", "editBag", "priceBag", "saveBag", "editBundle",
                            "priceBundle", "saveBundle"}
         /\ call[p].pc = "item" => call[p] \in ItemCall /\ call[p].row.price = call[p].read.price
         /\ call[p].pc = "epoch" => call[p] \in EpochCall /\ \A i, j \in call[p].listing : i = j
         /\ call[p].pc = "editBag" => \E b : IsBag(b) /\ call[p] = [pc |-> "editBag", row |-> b]
         /\ call[p].pc = "saveBag" => \E b : IsBag(b) /\ \E e \in BOOLEAN :
                                         call[p] = [pc |-> "saveBag", epoch |-> e, row |-> b]
         /\ call[p].pc \in {"editBundle", "saveBundle"} =>
              \E b : IsBundle(b) /\ call[p] = [pc |-> call[p].pc, row |-> b]
  <1> PICK c : c = call[p]
    OBVIOUS
  <1>1. CallTyped(c)
    BY DEF CatalogueIInv, CatalogueTyped
  <1>2. CASE c \in ItemCall /\ c.row.price = c.read.price
    BY <1>1, <1>2 DEF ItemCall
  <1>3. CASE c \in EpochCall /\ \A i, j \in c.listing : i = j
    BY <1>1, <1>3 DEF EpochCall
  <1>4. ASSUME NEW b, NEW pc \in {"editBag", "priceBag"}, IsBag(b), c = [pc |-> pc, row |-> b]
        PROVE  /\ c.pc \in {"editBag", "priceBag"}
               /\ c.pc = "editBag" => c = [pc |-> "editBag", row |-> b]
    <2>1. c.pc = pc
      BY <1>4
    <2> QED  BY <1>4, <2>1
  <1>5. ASSUME NEW b, NEW pc \in {"saveBag", "priceBundle"}, NEW e \in BOOLEAN, IsBag(b),
               c = [pc |-> pc, epoch |-> e, row |-> b]
        PROVE  /\ c.pc \in {"saveBag", "priceBundle"}
               /\ c.pc = "saveBag" => \E d \in BOOLEAN : c = [pc |-> "saveBag", epoch |-> d, row |-> b]
    <2>1. c.pc = pc
      BY <1>5
    <2> QED  BY <1>5, <2>1
  <1>6. ASSUME NEW b, NEW pc \in {"editBundle", "priceBundle", "saveBundle"},
               IsBundle(b), c = [pc |-> pc, row |-> b]
        PROVE  /\ c.pc \in {"editBundle", "priceBundle", "saveBundle"}
               /\ c = [pc |-> c.pc, row |-> b]
    <2>1. c.pc = pc
      BY <1>6
    <2> QED  BY <1>6, <2>1
  <1>7. \/ c \in ItemCall /\ c.row.price = c.read.price
        \/ c \in EpochCall /\ \A i, j \in c.listing : i = j
        \/ \E b : IsBag(b) /\ \E pc \in {"editBag", "priceBag"} : c = [pc |-> pc, row |-> b]
        \/ \E b : IsBag(b) /\ \E pc \in {"saveBag", "priceBundle"}, e \in BOOLEAN :
                                c = [pc |-> pc, epoch |-> e, row |-> b]
        \/ \E b : IsBundle(b) /\ \E pc \in {"editBundle", "priceBundle", "saveBundle"} :
                                   c = [pc |-> pc, row |-> b]
    BY <1>1 DEF CallTyped
  <1> QED  BY <1>1, <1>2, <1>3, <1>4, <1>5, <1>6, <1>7

LEMMA CatalogueSavesItem ==
  ASSUME CatalogueIInv, NEW p \in Procs, SaveItem(p)
  PROVE  CatalogueIInv'
  <1>0. call[p] # NoCall /\ call[p].pc = "item"
    BY DEF SaveItem, At
  <1> PICK c : c = call[p]
    OBVIOUS
  <1>1. c \in ItemCall /\ c.row.price = c.read.price /\ c.id \in CatalogueItems
        /\ c.row \in Entry /\ c.read \in Entry
    BY <1>0, CatalogueCalls DEF ItemCall
  <1>2. /\ entry' = [entry EXCEPT ![c.id] = c.row] /\ call' = [call EXCEPT ![p] = NoCall]
        /\ unlisted' = unlisted \cup {i \in {c.id} : entry[i] # c.read}
        /\ UNCHANGED <<asked, rate, listed, bag, bundle, upToDate>>
    BY DEF SaveItem, End, GotoState
  <1>3. /\ call' = [q \in Procs |-> call'[q]] /\ call'[p] = NoCall
        /\ \A q \in Procs \ {p} : call'[q] = call[q]
    BY <1>2, SlotSet
  <1>4. /\ entry' \in [CatalogueItems -> Entry] /\ entry'[c.id] = c.row
        /\ \A i \in CatalogueItems \ {c.id} : entry'[i] = entry[i]
    BY <1>1, <1>2 DEF CatalogueIInv, CatalogueTyped
  <1>5. CatalogueTyped'
    BY <1>2, <1>3, <1>4 DEF CatalogueIInv, CatalogueTyped
  <1>6. \A i \in CatalogueItems \ unlisted' : entry'[i].price = entry[i].price
    BY <1>1, <1>2, <1>4
  <1>7. \A i \in CatalogueItems \ unlisted', q \in Procs : ToList(q, i) => ToList(q, i)'
    BY <1>0, <1>3, <1>6 DEF ToList, At
  <1>8. \A i \in CatalogueItems \ unlisted' : Listed(i)'
    BY <1>2, <1>6, <1>7 DEF CatalogueIInv, Listed
  <1>9. upToDate # p
    BY <1>0 DEF CatalogueIInv, Progress
  <1>10. upToDate' = "no"
    BY <1>0, <1>2, <1>9, OneRefreshes
  <1> QED  BY <1>5, <1>8, <1>10, IsStale DEF Kept

(* An item takes the price of the epoch; it is to be listed when it moved.  *)
LEMMA CataloguePricesItem ==
  ASSUME CatalogueIInv, NEW p \in Procs, NEW i \in CatalogueItems, PriceItem(p, i)
  PROVE  CatalogueIInv'
  <1>0. call[p] # NoCall /\ call[p].pc = "epoch"
    BY DEF PriceItem, At
  <1> PICK c : c = call[p]
    OBVIOUS
  <1>1. /\ c \in EpochCall /\ c.pc = "epoch" /\ c.listing = {} /\ i \in c.todo
        /\ c.rows \in [CatalogueItems -> Entry] /\ c.price \in [CatalogueItems -> Nat]
        /\ c.points \in [CatalogueItems -> Nat]
    BY <1>0, CatalogueCalls DEF EpochCall, PriceItem
  <1> DEFINE row     == Repriced(c, i)
             listing == {j \in {i} : c.rows[j].price # c.price[j] /\ c.price[j] > 0}
             x       == [c EXCEPT !.todo = @ \ {i}, !.listing = listing]
  <1>2. /\ entry' = [entry EXCEPT ![i] = row] /\ call' = [call EXCEPT ![p] = x]
        /\ unlisted' = unlisted \cup {j \in {i} : entry[j] # c.rows[j]}
        /\ UNCHANGED <<asked, rate, listed, bag, bundle, upToDate>>
    BY DEF PriceItem, GotoState
  <1>3. /\ row \in Entry /\ row.price = c.price[i] /\ row.status = c.rows[i].status
        /\ row.available = (c.rows[i].status = "active" /\ c.price[i] > 0)
    BY <1>1 DEF Repriced, Entry
  <1>4. /\ x \in EpochCall /\ x.pc = "epoch" /\ x.listing = listing /\ x.todo = c.todo \ {i}
        /\ x.rows = c.rows /\ x.price = c.price
    <2>1. listing \in SUBSET CatalogueItems /\ c.todo \ {i} \in SUBSET CatalogueItems
      BY <1>1 DEF EpochCall
    <2> HIDE DEF listing
    <2> QED  BY <1>1, <2>1 DEF EpochCall
  <1>5. /\ \A j, k \in x.listing : j = k
        /\ c.rows[i].price # c.price[i] /\ c.price[i] > 0 => i \in x.listing
    BY <1>4
  <1> HIDE DEF row, x, listing
  <1>6. x # NoCall /\ CallTyped(x)
    BY <1>4, <1>5, CatalogueConstantsOK DEF CallTyped
  <1>7. /\ call' = [q \in Procs |-> call'[q]] /\ call'[p] = x
        /\ \A q \in Procs \ {p} : call'[q] = call[q]
    BY <1>2, SlotSet
  <1>8. /\ entry' \in [CatalogueItems -> Entry] /\ entry'[i] = row
        /\ \A j \in CatalogueItems \ {i} : entry'[j] = entry[j]
    BY <1>2, <1>3 DEF CatalogueIInv, CatalogueTyped
  <1>9. CatalogueTyped'
    BY <1>2, <1>6, <1>7, <1>8 DEF CatalogueIInv, CatalogueTyped
  <1>10. ASSUME NEW j \in CatalogueItems \ unlisted'
         PROVE  Listed(j)'
    <2>1. Listed(j) /\ listed' = listed
      BY <1>2 DEF CatalogueIInv
    <2>2. ASSUME entry'[j].price = entry[j].price, NEW q \in Procs, ToList(q, j)
          PROVE  ToList(q, j)'
      BY <1>1, <1>7, <2>2 DEF ToList, At
    <2>3. CASE j # i
      BY <1>8, <2>1, <2>2, <2>3 DEF Listed
    <2>4. CASE j = i /\ c.rows[i].price = c.price[i]
      <3>1. entry'[j].price = entry[j].price
        BY <1>2, <1>3, <1>8, <2>4
      <3> QED  BY <2>1, <2>2, <3>1 DEF Listed
    <2>5. CASE j = i /\ c.rows[i].price # c.price[i]
      <3>1. entry'[j].price > 0 => ToList(p, j)'
        BY <1>3, <1>4, <1>5, <1>6, <1>7, <1>8, <2>5 DEF ToList, At
      <3> QED  BY <3>1 DEF Listed
    <2> QED  BY <2>3, <2>4, <2>5
  <1>11. ASSUME upToDate = p
         PROVE  Progress(x)'
    <2>1. Progress(c)
      BY <1>0, <1>11 DEF CatalogueIInv
    <2>2. c.price = Fair /\ c.rows[i] = entry[i] /\ Fair' = Fair
      BY <1>1, <1>2, <2>1 DEF Progress, Fair
    <2>3. ItemRight(i)'
      BY <1>3, <1>8, <2>2 DEF ItemRight
    <2>4. \A j \in x.todo : x.rows[j] = entry'[j]
      BY <1>1, <1>4, <1>8, <2>1 DEF Progress, EpochCall
    <2>5. \A j \in CatalogueItems \ x.todo : ItemRight(j)'
      BY <1>1, <1>4, <1>8, <2>1, <2>2, <2>3 DEF Progress, ItemRight
    <2> QED  BY <1>4, <2>2, <2>4, <2>5 DEF Progress
  <1> QED  BY <1>0, <1>2, <1>9, <1>10, <1>11, IsFresh DEF Kept

LEMMA CatalogueListsPrice ==
  ASSUME CatalogueIInv, NEW p \in Procs, NEW i \in CatalogueItems, ListPrice(p, i)
  PROVE  CatalogueIInv'
  <1>0. call[p] # NoCall /\ call[p].pc = "epoch"
    BY DEF ListPrice, At
  <1> PICK c : c = call[p]
    OBVIOUS
  <1>1. /\ c \in EpochCall /\ c.pc = "epoch" /\ i \in c.listing /\ \A j, k \in c.listing : j = k
        /\ c.price \in [CatalogueItems -> Nat]
    BY <1>0, CatalogueCalls DEF EpochCall, ListPrice
  <1> DEFINE x == [c EXCEPT !.listing = {}]
  <1>2. /\ listed' = [listed EXCEPT ![i] = c.price[i]] /\ call' = [call EXCEPT ![p] = x]
        /\ unlisted' = unlisted \cup {j \in {i} : entry[j].price # c.price[j]}
        /\ UNCHANGED <<asked, rate, entry, bag, bundle, upToDate>>
    BY DEF ListPrice, GotoState
  <1>3. /\ x \in EpochCall /\ x.pc = "epoch" /\ x.listing = {} /\ x.todo = c.todo
        /\ x.rows = c.rows /\ x.price = c.price
    BY <1>1 DEF EpochCall
  <1> HIDE DEF x
  <1>4. CallTyped(x)
    BY <1>3 DEF CallTyped
  <1>5. /\ call' = [q \in Procs |-> call'[q]] /\ call'[p] = x
        /\ \A q \in Procs \ {p} : call'[q] = call[q]
    BY <1>2, SlotSet
  <1>6. /\ listed' \in [CatalogueItems -> Nat] /\ listed'[i] = c.price[i]
        /\ \A j \in CatalogueItems \ {i} : listed'[j] = listed[j]
    BY <1>1, <1>2 DEF CatalogueIInv, CatalogueTyped
  <1>7. CatalogueTyped'
    BY <1>2, <1>4, <1>5, <1>6 DEF CatalogueIInv, CatalogueTyped
  <1>8. ASSUME NEW j \in CatalogueItems \ unlisted'
        PROVE  Listed(j)'
    <2>1. CASE j = i
      BY <1>2, <1>6, <2>1 DEF Listed
    <2>2. CASE j # i
      <3>1. \A q \in Procs : ToList(q, j) => ToList(q, j)'
        BY <1>1, <1>2, <1>5, <2>2 DEF ToList, At
      <3> QED  BY <1>2, <1>6, <2>2, <3>1 DEF CatalogueIInv, Listed
    <2> QED  BY <2>1, <2>2
  <1>9. ASSUME upToDate = p
        PROVE  Progress(x)'
    <2>1. Progress(c)
      BY <1>0, <1>9 DEF CatalogueIInv
    <2> QED  BY <1>1, <1>2, <1>3, <2>1, SameCache DEF Progress
  <1> QED  BY <1>0, <1>2, <1>7, <1>8, <1>9, IsFresh DEF Kept

(* The bag is priced: everything sold has the price of the moment.         *)
LEMMA CataloguePricesBag ==
  ASSUME CatalogueIInv, NEW p \in Procs, PriceBag(p)
  PROVE  CatalogueIInv'
  <1> PICK c : c = call[p]
    OBVIOUS
  <1> PICK price : price = BagPrice(Cached, bag.capacity)
    OBVIOUS
  <1> PICK row : row = [bag EXCEPT !.price = price, !.points = Points(price)]
    OBVIOUS
  <1> PICK e \in BOOLEAN : e <=> At(p, "epoch")
    OBVIOUS
  <1> DEFINE x == [pc |-> "saveBag", epoch |-> e, row |-> row]
  <1>1. /\ c # NoCall /\ call[p] # NoCall
        /\ \/ c.pc = "priceBag" /\ ~e
           \/ c.pc = "epoch" /\ e /\ c.todo = {} /\ c.listing = {}
    BY DEF PriceBag, At
  <1>2. call' = [call EXCEPT ![p] = x] /\ UNCHANGED catalogueVars
    <2>1. At(p, "epoch") = e
      BY Zenon DEF At
    <2> QED  BY <2>1 DEF PriceBag, GotoState
  <1>3. IsBag(row) /\ row.capacity = bag.capacity /\ row.points = Points(price)
    <2>1. PICK k, x0, y : bag = [capacity |-> k, price |-> x0, points |-> y]
      BY DEF CatalogueIInv, CatalogueTyped, IsBag
    <2>2. row = [capacity |-> k, price |-> price, points |-> Points(price)]
      BY <2>1
    <2> QED  BY <2>1, <2>2 DEF IsBag
  <1>4. CallTyped(x)
    BY <1>3 DEF CallTyped
  <1>5. \A i \in CatalogueItems : ~ToList(p, i)
    BY <1>1 DEF ToList, At
  <1>6. Kept'
    <2>1. /\ UNCHANGED <<asked, rate, entry, listed>> /\ IsBag(bag') /\ IsBundle(bundle')
          /\ upToDate' \in Procs \cup {"yes", "no"} /\ unlisted \subseteq unlisted'
      BY <1>2 DEF catalogueVars, CatalogueIInv, CatalogueTyped
    <2> HIDE DEF x
    <2> QED  BY <1>2, <1>4, <1>5, <2>1, KeptMoves
  <1>7. ASSUME upToDate = p
        PROVE  Progress(x)'
    <2>1. Progress(c)
      BY <1>1, <1>7 DEF CatalogueIInv
    <2>2. ItemsRight
      BY <1>1, <2>1 DEF Progress, ItemsRight
    <2>3. BagRight(row)
      BY <1>3, <2>2, SameBagAndBundle DEF BagRight
    <2>4. ~e => BundleRight(bundle)
      BY <1>1, <2>1 DEF Progress
    <2>5. ItemsRight' /\ BagRight(row)' /\ (~e => BundleRight(bundle)')
      BY <1>2, <2>2, <2>3, <2>4, SameCache DEF catalogueVars
    <2>6. x.pc = "saveBag" /\ x.epoch = e /\ x.row = row
      OBVIOUS
    <2> HIDE DEF x
    <2> QED  BY <2>5, <2>6 DEF Progress
  <1> HIDE DEF x
  <1> QED  BY <1>1, <1>2, <1>6, <1>7, IsFresh DEF catalogueVars

(* The bag is saved; the epoch goes on to the bundle, an edit is done.     *)
LEMMA CatalogueSavesBag ==
  ASSUME CatalogueIInv, NEW p \in Procs, SaveBag(p)
  PROVE  CatalogueIInv'
  <1>0. call[p] # NoCall /\ call[p].pc = "saveBag"
    BY DEF SaveBag, At
  <1>1. PICK row : IsBag(row) /\ \E e \in BOOLEAN :
                     call[p] = [pc |-> "saveBag", epoch |-> e, row |-> row]
    BY <1>0, CatalogueCalls
  <1> PICK e \in BOOLEAN : call[p] = [pc |-> "saveBag", epoch |-> e, row |-> row]
    BY <1>1
  <1> DEFINE c == [pc |-> "saveBag", epoch |-> e, row |-> row]
  <1>2. /\ bag' = row /\ UNCHANGED <<asked, rate, entry, listed, bundle, unlisted>>
        /\ IF e THEN call' = [call EXCEPT ![p] = [pc |-> "priceBundle", epoch |-> e, row |-> row]]
                     /\ UNCHANGED upToDate
           ELSE /\ call' = [call EXCEPT ![p] = NoCall]
                /\ upToDate' = IF upToDate = p THEN "yes" ELSE "no"
    BY <1>1 DEF SaveBag, Goto, GotoState, End, Refreshed
  <1>3. /\ UNCHANGED <<asked, rate, entry, listed>> /\ IsBag(bag') /\ IsBundle(bundle')
        /\ upToDate' \in Procs \cup {"yes", "no"} /\ unlisted \subseteq unlisted'
    BY <1>1, <1>2 DEF CatalogueIInv, CatalogueTyped
  <1>4. \A i \in CatalogueItems : ~ToList(p, i)
    BY <1>0 DEF ToList, At
  <1>5. upToDate = p => ItemsRight /\ BagRight(row) /\ (~e => BundleRight(bundle))
    <2>1. upToDate = p => Progress(c)
      BY <1>0, <1>1 DEF CatalogueIInv
    <2>2. c.pc = "saveBag" /\ c.epoch = e /\ c.row = row
      OBVIOUS
    <2> HIDE DEF c
    <2> QED  BY <2>1, <2>2 DEF Progress
  <1>6. upToDate = p => ItemsRight' /\ BagRight(bag)' /\ (~e => BundleRight(bundle)')
    <2>1. upToDate = p => ItemsRight' /\ BagRight(row)' /\ (~e => BundleRight(bundle)')
      BY <1>2, <1>5, SameCache
    <2> QED  BY <1>2, <2>1 DEF BagRight
  <1>7. CASE e
    <2> DEFINE x == [pc |-> "priceBundle", epoch |-> e, row |-> row]
    <2>1. CallTyped(x)
      BY <1>1 DEF CallTyped
    <2>2. x.pc = "priceBundle"
      OBVIOUS
    <2>3. call' = [call EXCEPT ![p] = x] /\ UNCHANGED upToDate
      BY <1>2, <1>7
    <2> HIDE DEF x
    <2>4. Kept'
      BY <1>3, <1>4, <2>1, <2>3, KeptMoves
    <2>5. upToDate = p => Progress(x)'
      BY <1>6, <2>2 DEF Progress
    <2> QED  BY <1>0, <2>3, <2>4, <2>5, IsFresh
  <1>8. CASE ~e
    <2>1. call' = [call EXCEPT ![p] = NoCall] /\ upToDate' = IF upToDate = p THEN "yes" ELSE "no"
      BY <1>2, <1>8
    <2>2. Kept'
      BY <1>3, <1>4, <2>1, KeptMoves
    <2>3. upToDate # p => upToDate' = "no"
      BY <2>1
    <2>4. upToDate = p => upToDate' = "yes" /\ ItemsRight' /\ BagRight(bag)' /\ BundleRight(bundle)'
      BY <1>6, <1>8, <2>1
    <2> QED  BY <1>0, <2>1, <2>2, <2>3, <2>4, IsFresh
  <1> QED  BY <1>7, <1>8

(* The bundle is priced, then saved: everything is.                        *)
LEMMA CataloguePricesBundle ==
  ASSUME CatalogueIInv, NEW p \in Procs, PriceBundle(p)
  PROVE  CatalogueIInv'
  <1> PICK c : c = call[p]
    OBVIOUS
  <1> PICK price : price = BundlePrice(Cached, bundle.promo)
    OBVIOUS
  <1> PICK row : row = [bundle EXCEPT !.price = price, !.points = Points(price)]
    OBVIOUS
  <1> DEFINE x == [pc |-> "saveBundle", row |-> row]
  <1>1. c # NoCall /\ call[p] # NoCall /\ c.pc = "priceBundle"
    BY DEF PriceBundle, At
  <1>2. call' = [call EXCEPT ![p] = x] /\ UNCHANGED catalogueVars
    BY DEF PriceBundle, GotoState
  <1>3. IsBundle(row) /\ row.promo = bundle.promo /\ row.points = Points(price)
    <2>1. PICK m, x0, y : bundle = [promo |-> m, price |-> x0, points |-> y]
      BY DEF CatalogueIInv, CatalogueTyped, IsBundle
    <2>2. row = [promo |-> m, price |-> price, points |-> Points(price)]
      BY <2>1
    <2> QED  BY <2>1, <2>2 DEF IsBundle
  <1>4. CallTyped(x)
    BY <1>3 DEF CallTyped
  <1>5. \A i \in CatalogueItems : ~ToList(p, i)
    BY <1>1 DEF ToList, At
  <1>6. Kept'
    <2>1. /\ UNCHANGED <<asked, rate, entry, listed>> /\ IsBag(bag') /\ IsBundle(bundle')
          /\ upToDate' \in Procs \cup {"yes", "no"} /\ unlisted \subseteq unlisted'
      BY <1>2 DEF catalogueVars, CatalogueIInv, CatalogueTyped
    <2> HIDE DEF x
    <2> QED  BY <1>2, <1>4, <1>5, <2>1, KeptMoves
  <1>7. ASSUME upToDate = p
        PROVE  Progress(x)'
    <2>1. Progress(c)
      BY <1>1, <1>7 DEF CatalogueIInv
    <2>2. ItemsRight /\ BagRight(bag)
      BY <1>1, <2>1 DEF Progress
    <2>3. BundleRight(row)
      BY <1>3, <2>2, SameBagAndBundle DEF BundleRight
    <2>4. ItemsRight' /\ BundleRight(row)' /\ BagRight(bag)'
      <3>1. ItemsRight' /\ BundleRight(row)' /\ (BagRight(bag) => BagRight(bag'))
        BY <1>2, <2>2, <2>3, SameCache DEF catalogueVars
      <3>2. BagRight(bag)'
        BY <1>2, <2>2, SameCache DEF catalogueVars
      <3> QED  BY <3>1, <3>2
    <2>5. x.pc = "saveBundle" /\ x.row = row
      OBVIOUS
    <2> HIDE DEF x
    <2> QED  BY <2>4, <2>5 DEF Progress
  <1> HIDE DEF x
  <1> QED  BY <1>1, <1>2, <1>6, <1>7, IsFresh DEF catalogueVars

LEMMA CatalogueSavesBundle ==
  ASSUME CatalogueIInv, NEW p \in Procs, SaveBundle(p)
  PROVE  CatalogueIInv'
  <1>0. call[p] # NoCall /\ call[p].pc = "saveBundle"
    BY DEF SaveBundle, At
  <1>1. PICK row : IsBundle(row) /\ call[p] = [pc |-> "saveBundle", row |-> row]
    BY <1>0, CatalogueCalls
  <1> PICK c : c = call[p]
    OBVIOUS
  <1>2. /\ bundle' = row /\ UNCHANGED <<asked, rate, entry, listed, bag, unlisted>>
        /\ call' = [call EXCEPT ![p] = NoCall]
        /\ upToDate' = IF upToDate = p THEN "yes" ELSE "no"
    BY <1>1 DEF SaveBundle, GotoState, End, Refreshed
  <1>3. Kept'
    <2>1. /\ UNCHANGED <<asked, rate, entry, listed>> /\ IsBag(bag') /\ IsBundle(bundle')
          /\ upToDate' \in Procs \cup {"yes", "no"} /\ unlisted \subseteq unlisted'
      BY <1>1, <1>2 DEF CatalogueIInv, CatalogueTyped
    <2>2. \A i \in CatalogueItems : ~ToList(p, i)
      BY <1>0 DEF ToList, At
    <2> QED  BY <1>2, <2>1, <2>2, KeptMoves
  <1>4. upToDate # p => upToDate' = "no"
    BY <1>2
  <1>5. ASSUME upToDate = p
        PROVE  upToDate' = "yes" /\ ItemsRight' /\ BagRight(bag)' /\ BundleRight(bundle)'
    <2>1. Progress(c) /\ c.row = row /\ c.pc = "saveBundle"
      BY <1>0, <1>1, <1>5 DEF CatalogueIInv
    <2>2. ItemsRight /\ BagRight(bag) /\ BundleRight(row)
      BY <2>1 DEF Progress
    <2>3. ItemsRight' /\ BundleRight(row)'
      BY <1>2, <2>2, SameCache
    <2>4. BagRight(bag)'
      BY <1>2, <2>2, SameCache DEF BagRight
    <2>5. BundleRight(bundle)'
      BY <1>2, <2>3 DEF BundleRight
    <2> QED  BY <1>2, <1>5, <2>3, <2>4, <2>5
  <1> QED  BY <1>0, <1>2, <1>3, <1>4, <1>5, IsFresh

(* An edit of the bag or the bundle is saved, and it is priced again.      *)
LEMMA CatalogueSavesEdit ==
  ASSUME CatalogueIInv, NEW p \in Procs, SaveBagEdit(p) \/ SaveBundleEdit(p)
  PROVE  CatalogueIInv'
  <1> PICK c : c = call[p]
    OBVIOUS
  <1>1. CASE SaveBagEdit(p)
    <2>0. call[p] # NoCall /\ call[p].pc = "editBag"
      BY <1>1 DEF SaveBagEdit, At
    <2>1. PICK row : IsBag(row) /\ call[p] = [pc |-> "editBag", row |-> row]
      BY <2>0, CatalogueCalls
    <2> DEFINE x == [pc |-> "priceBag", row |-> row]
    <2>2. /\ bag' = row /\ UNCHANGED <<asked, rate, entry, listed, bundle, upToDate, unlisted>>
          /\ call' = [call EXCEPT ![p] = x]
      <3>1. call[p].row = row /\ [call[p] EXCEPT !.pc = "priceBag"] = x
        BY <2>1
      <3> QED  BY <1>1, <3>1 DEF SaveBagEdit, Goto, GotoState
    <2>3. CallTyped(x) /\ x.pc = "priceBag"
      BY <2>1 DEF CallTyped
    <2> HIDE DEF x
    <2>4. Kept'
      <3>1. /\ UNCHANGED <<asked, rate, entry, listed>> /\ IsBag(bag') /\ IsBundle(bundle')
            /\ upToDate' \in Procs \cup {"yes", "no"} /\ unlisted \subseteq unlisted'
        BY <2>1, <2>2 DEF CatalogueIInv, CatalogueTyped
      <3>2. \A i \in CatalogueItems : ~ToList(p, i)
        BY <2>0 DEF ToList, At
      <3> QED  BY <2>2, <2>3, <3>1, <3>2, KeptMoves
    <2>5. ASSUME upToDate = p
          PROVE  Progress(x)'
      <3>1. Progress(c) /\ c.pc = "editBag"
        BY <2>0, <2>5 DEF CatalogueIInv
      <3>2. ItemsRight /\ BundleRight(bundle)
        BY <3>1 DEF Progress
      <3>3. ItemsRight'
        BY <2>2, <3>2, SameCache
      <3>4. BundleRight(bundle)'
        BY <2>2, <3>2, SameCache DEF BundleRight
      <3> QED  BY <2>3, <3>3, <3>4 DEF Progress
    <2> QED  BY <2>0, <2>2, <2>4, <2>5, IsFresh
  <1>2. CASE SaveBundleEdit(p)
    <2>0. call[p] # NoCall /\ call[p].pc = "editBundle"
      BY <1>2 DEF SaveBundleEdit, At
    <2>1. PICK row : IsBundle(row) /\ call[p] = [pc |-> "editBundle", row |-> row]
      BY <2>0, CatalogueCalls
    <2> DEFINE x == [pc |-> "priceBundle", row |-> row]
    <2>2. /\ bundle' = row /\ UNCHANGED <<asked, rate, entry, listed, bag, upToDate, unlisted>>
          /\ call' = [call EXCEPT ![p] = x]
      <3>1. call[p].row = row /\ [call[p] EXCEPT !.pc = "priceBundle"] = x
        BY <2>1
      <3> QED  BY <1>2, <3>1 DEF SaveBundleEdit, Goto, GotoState
    <2>3. CallTyped(x) /\ x.pc = "priceBundle"
      BY <2>1 DEF CallTyped
    <2> HIDE DEF x
    <2>4. Kept'
      <3>1. /\ UNCHANGED <<asked, rate, entry, listed>> /\ IsBag(bag') /\ IsBundle(bundle')
            /\ upToDate' \in Procs \cup {"yes", "no"} /\ unlisted \subseteq unlisted'
        BY <2>1, <2>2 DEF CatalogueIInv, CatalogueTyped
      <3>2. \A i \in CatalogueItems : ~ToList(p, i)
        BY <2>0 DEF ToList, At
      <3> QED  BY <2>2, <2>3, <3>1, <3>2, KeptMoves
    <2>5. ASSUME upToDate = p
          PROVE  Progress(x)'
      <3>1. Progress(c) /\ c.pc = "editBundle"
        BY <2>0, <2>5 DEF CatalogueIInv
      <3>2. ItemsRight /\ BagRight(bag)
        BY <3>1 DEF Progress
      <3>3. ItemsRight'
        BY <2>2, <3>2, SameCache
      <3>4. BagRight(bag)'
        BY <2>2, <3>2, SameCache DEF BagRight
      <3> QED  BY <2>3, <3>3, <3>4 DEF Progress
    <2> QED  BY <2>0, <2>2, <2>4, <2>5, IsFresh
  <1> QED  BY <1>1, <1>2

(* A handler dies: what it was to list is lost, and the cache is stale.    *)
LEMMA CatalogueDies ==
  ASSUME CatalogueIInv, NEW p \in Procs, PricingDies(p)
  PROVE  CatalogueIInv'
  <1>1. /\ call' = [call EXCEPT ![p] = NoCall] /\ upToDate' = "no" /\ call[p] # NoCall
        /\ unlisted' = IF At(p, "epoch") THEN unlisted \cup call[p].listing ELSE unlisted
        /\ UNCHANGED <<asked, rate, entry, listed, bag, bundle>>
    BY DEF PricingDies, Dies
  <1>2. IsBag(bag') /\ IsBundle(bundle') /\ upToDate' \in Procs \cup {"yes", "no"}
    BY <1>1 DEF CatalogueIInv, CatalogueTyped
  <1>3. unlisted \subseteq unlisted' /\ \A i \in CatalogueItems \ unlisted' : ~ToList(p, i)
    BY <1>1 DEF ToList
  <1> QED  BY <1>1, <1>2, <1>3, KeptMoves, IsStale

LEMMA CatalogueNextIInv ==
  ASSUME CatalogueIInv, [CatalogueNext]_<<catalogueVars, requestVars>>
  PROVE  CatalogueIInv'
  <1>1. ASSUME UNCHANGED <<catalogueVars, requestVars>>
        PROVE  CatalogueIInv'
    <2>1. UNCHANGED <<asked, rate, entry, listed, bag, bundle, upToDate, unlisted, call>>
      BY <1>1 DEF catalogueVars, requestVars
    <2>2. \A i \in CatalogueItems : Listed(i)' <=> Listed(i)
      BY <2>1 DEF Listed, ToList, At
    <2>3. CatalogueTyped'
      BY <2>1 DEF CatalogueIInv, CatalogueTyped
    <2>4. upToDate' = "yes" => /\ \A p \in Procs : call'[p] = NoCall
                               /\ ItemsRight' /\ BagRight(bag)' /\ BundleRight(bundle)'
      BY <2>1, SameCache DEF CatalogueIInv, BagRight, BundleRight
    <2>5. ASSUME NEW p \in Procs, upToDate' = p
          PROVE  Alone(p)' /\ (call'[p] # NoCall => Progress(call[p])')
      <3>1. Alone(p)'
        BY <2>1, <2>5 DEF CatalogueIInv, Alone
      <3>2. call[p] # NoCall => Progress(call[p])
        BY <2>1, <2>5 DEF CatalogueIInv
      <3>3. /\ Fair' = Fair /\ (ItemsRight' <=> ItemsRight)
            /\ \A i : ItemRight(i)' <=> ItemRight(i)
            /\ \A b : (BagRight(b)' <=> BagRight(b)) /\ (BundleRight(b)' <=> BundleRight(b))
        BY <2>1, SameCache
      <3>4. /\ BagRight(bag)' <=> BagRight(bag)
            /\ BundleRight(bundle)' <=> BundleRight(bundle)
            /\ BagRight(call[p].row)' <=> BagRight(call[p].row)
            /\ BundleRight(call[p].row)' <=> BundleRight(call[p].row)
        BY <2>1, <3>3 DEF BagRight, BundleRight
      <3>5. call'[p] # NoCall => Progress(call[p])'
        BY <2>1, <3>2, <3>3, <3>4 DEF Progress
      <3> QED  BY <3>1, <3>5
    <2> QED  BY <2>1, <2>2, <2>3, <2>4, <2>5 DEF CatalogueIInv
  <1> QED  BY <1>1, CatalogueOutside, CatalogueStarts, CatalogueSavesItem, CataloguePricesItem,
              CatalogueListsPrice, CataloguePricesBag, CatalogueSavesBag, CataloguePricesBundle,
              CatalogueSavesBundle, CatalogueSavesEdit, CatalogueDies DEF CatalogueNext

(* The prices customers pay are cached three deep; once an epoch has run   *)
(* without interference, and whatever bags and bundles were edited after   *)
(* it one at a time, every quote is what the vendors' prices make it, and  *)
(* the history ends with the price in force.                               *)
THEOREM QuotesCurrent == CatalogueSpec => []QuotesAreCurrent
  <1>1. CatalogueIInv => QuotesAreCurrent
    <2> SUFFICES ASSUME CatalogueIInv, upToDate = "yes" PROVE QuotesAreCurrent
      BY DEF QuotesAreCurrent
    <2>1. ItemsRight /\ BagRight(bag) /\ BundleRight(bundle) /\ rate \in Nat
      BY DEF CatalogueIInv, CatalogueTyped
    <2>2. ASSUME NEW i \in CatalogueItems
          PROVE  QuoteItem(i) = IF entry[i].status = "active" THEN Points(Ironed(Fair[i])) ELSE 0
      <3>1. Fair[i] \in Nat
        BY CatalogueTypes
      <3>2. entry[i].status # "active" => QuoteItem(i) = 0
        BY DEF QuoteItem
      <3>3. ASSUME entry[i].status = "active"
            PROVE  QuoteItem(i) = Points(Ironed(Fair[i]))
        <4>1. entry[i].price = Fair[i] /\ (entry[i].available <=> Fair[i] > 0)
          BY <2>1, <3>3 DEF ItemsRight, ItemRight
        <4>2. CASE Fair[i] > 0
          BY <3>3, <4>1, <4>2 DEF QuoteItem
        <4>3. CASE Fair[i] = 0
          BY <2>1, <4>1, <4>3, FreeIsFree DEF QuoteItem
        <4> QED  BY <3>1, <4>2, <4>3
      <3> QED  BY <3>2, <3>3
    <2>3. \A i \in CatalogueItems \ unlisted : entry[i].price > 0 => listed[i] = entry[i].price
      BY DEF CatalogueIInv, Listed, ToList, At
    <2>4. QuoteBag = Points(BagPrice(Fair, bag.capacity)) /\ QuoteBundle = Points(BundlePrice(Fair, bundle.promo))
      BY <2>1 DEF BagRight, BundleRight, QuoteBag, QuoteBundle
    <2> QED  BY <2>2, <2>3, <2>4 DEF QuotesAreCurrent
  <1> QED  BY <1>1, CatalogueInitIInv, CatalogueNextIInv, PTL DEF CatalogueSpec


-----------------------------------------------------------------------------
(* Disputes.  One handler at a time works on a dispute that was never      *)
(* raced, and its copy will record what the customer has been credited.    *)

Handles(p, d) == call[p] # NoCall /\ call[p].dispute = d

(* Only a closed dispute has been refunded; a copy to be saved exists.     *)
CopyOK(row) == row.status # "none" /\ (row.status \in OpenStatus => row.refunded = 0)

HandlerOK(c, d) ==
  /\ c.copy.order = c.order
  /\ c.pc = "insert" => dispute[d].status = "none"
  /\ c.pc # "insert" => IsOpen(d) /\ dispute[d].order = c.order
  /\ deaths = 0 => c.copy.refunded = refunds[d] + (IF c.pc = "refund" THEN RefundWP ELSE 0)

Recorded(d) ==
  /\ \A p, q \in Procs : Handles(p, d) /\ Handles(q, d) => p = q
  /\ \A p \in Procs : Handles(p, d) => HandlerOK(call[p], d)
  /\ (\A p \in Procs : ~Handles(p, d)) /\ deaths = 0 => refunds[d] = dispute[d].refunded

Apart(d, e) == IsOpen(d) /\ IsOpen(e) => dispute[d].order # dispute[e].order

DisputeTyped ==
  /\ DisputesTypeOK /\ deaths \in Nat
  /\ call \in [Procs -> DisputeCall \cup {NoCall}]
  /\ \A d \in DisputeIds : dispute[d].status = "none" \/ CopyOK(dispute[d])
  /\ \A d \in DisputeIds : dispute[d].status = "none" => dispute[d].refunded = 0
  /\ \A p \in Procs : call[p] # NoCall => CopyOK(call[p].copy)

DisputeIInv ==
  /\ DisputeTyped
  /\ \A d \in DisputeIds \ disputeRaced : Recorded(d)
  /\ \A d, e \in DisputeIds \ disputeRaced : d # e => Apart(d, e)

LEMMA DisputeInitIInv == RequestsInit /\ DisputesInit => DisputeIInv
  <1> SUFFICES ASSUME RequestsInit, DisputesInit PROVE DisputeIInv
    OBVIOUS
  <1> DEFINE new == [order |-> NoOrder, status |-> "none", refunded |-> 0]
  <1>1. new \in Dispute /\ new.status = "none" /\ new.refunded = 0 /\ new.status \notin OpenStatus
    BY DEF Dispute, OpenStatus
  <1>2. \A d \in DisputeIds : dispute[d] = new /\ refunds[d] = 0
    BY DEF DisputesInit
  <1> HIDE DEF new
  <1>3. DisputesTypeOK
    BY <1>1, <1>2 DEF DisputesInit, DisputesTypeOK
  <1> QED
    BY <1>1, <1>2, <1>3 DEF RequestsInit, DisputeIInv, DisputeTyped, Recorded, Apart, IsOpen, Handles

LEMMA DisputeHandlers ==
  ASSUME DisputeTyped
  PROVE  /\ \A d \in DisputeIds, p \in Procs : p \in OnDispute(d) <=> Handles(p, d)
         /\ \A d \in DisputeIds : OnDispute(d) \subseteq Procs
         /\ \A p \in Procs : call[p] # NoCall =>
              /\ call[p] \in DisputeCall /\ call[p].dispute \in DisputeIds
              /\ call[p].copy \in Dispute /\ CopyOK(call[p].copy)
              /\ call[p].pc \in {"insert", "refund", "save"}
  <1>1. \A p \in Procs : call[p] # NoCall =>
          /\ call[p] \in DisputeCall /\ call[p].dispute \in DisputeIds
          /\ call[p].copy \in Dispute /\ CopyOK(call[p].copy)
          /\ call[p].pc \in {"insert", "refund", "save"}
    BY DEF DisputeTyped, DisputeCall
  <1>2. \A p \in Procs : call[p] # NoCall <=> \E pc \in {"insert", "refund", "save"} : At(p, pc)
    BY <1>1 DEF At
  <1> QED  BY <1>1, <1>2 DEF OnDispute, InFlight, Handles

(* A dispute no handler of which moved, and that was not written.          *)
LEMMA DisputeFrame ==
  ASSUME NEW d \in DisputeIds, Recorded(d),
         dispute'[d] = dispute[d], refunds'[d] = refunds[d], deaths' = deaths,
         \A p \in Procs : Handles(p, d)' <=> Handles(p, d),
         \A p \in Procs : Handles(p, d) => call'[p] = call[p]
  PROVE  Recorded(d)'
  BY DEF Recorded, HandlerOK, IsOpen

(* A handler starts on dispute d, with a copy of it to save.               *)
LEMMA DisputeStarts ==
  ASSUME DisputeIInv, NEW p \in Procs, NEW d \in DisputeIds, NEW x \in DisputeCall,
         x.dispute = d, CopyOK(x.copy), Begin(p, x), UNCHANGED <<dispute, events, refunds>>,
         disputeRaced \subseteq disputeRaced', disputeRaced' \subseteq DisputeIds,
         d \notin disputeRaced' => OnDispute(d) = {} /\ HandlerOK(x, d)
  PROVE  DisputeIInv'
  <1>1. /\ call' \in [Procs -> DisputeCall \cup {NoCall}] /\ call'[p] = x /\ call[p] = NoCall
        /\ \A q \in Procs \ {p} : call'[q] = call[q]
        /\ deaths' = deaths
    BY SlotWritten DEF Begin, DisputeIInv, DisputeTyped
  <1>2. DisputeTyped'
    BY <1>1 DEF DisputeIInv, DisputeTyped, DisputesTypeOK
  <1>3. ASSUME NEW e \in DisputeIds \ disputeRaced'
        PROVE  Recorded(e)'
    <2>1. Recorded(e)
      BY <1>3 DEF DisputeIInv
    <2>2. CASE e # d
      <3>1. \A q \in Procs : /\ Handles(q, e)' <=> Handles(q, e)
                             /\ Handles(q, e) => call'[q] = call[q]
        BY <1>1, <2>2 DEF Handles
      <3> QED  BY <1>1, <2>1, <3>1, DisputeFrame
    <2>3. CASE e = d
      <3>1. \A q \in Procs : ~Handles(q, d)
        BY <1>3, <2>3, DisputeHandlers DEF DisputeIInv
      <3>2. \A q \in Procs : Handles(q, d)' => q = p
        BY <1>1, <3>1 DEF Handles
      <3>3. HandlerOK(call[p], d)'
        BY <1>1, <1>3, <2>3 DEF HandlerOK, IsOpen
      <3>4. CASE Handles(p, d)'
        BY <2>3, <3>2, <3>3, <3>4 DEF Recorded
      <3>5. CASE ~Handles(p, d)'
        BY <1>1, <2>1, <2>3, <3>1, <3>2, <3>5 DEF Recorded
      <3> QED  BY <3>4, <3>5
    <2> QED  BY <2>2, <2>3
  <1>4. \A e, f \in DisputeIds \ disputeRaced' : e # f => Apart(e, f)'
    BY DEF DisputeIInv, Apart, IsOpen
  <1> QED  BY <1>2, <1>3, <1>4 DEF DisputeIInv

LEMMA DisputeHandlersStart ==
  ASSUME DisputeIInv, NEW p \in Procs, NEW d \in DisputeIds,
         \/ \E o \in OrderIds : CreateDispute(p, d, o)
         \/ \E s \in {"under_review", "investigating"} : UpdateStatus(p, d, s)
         \/ \E r, w \in BOOLEAN : Resolve(p, d, r, w)
  PROVE  DisputeIInv'
  <1>1. /\ dispute[d] \in Dispute /\ dispute[d].order \in OrderIds \cup {NoOrder}
        /\ dispute[d].refunded \in Nat /\ refunds[d] \in Nat
        /\ dispute[d].status = "none" \/ CopyOK(dispute[d])
        /\ dispute[d].status = "none" => dispute[d].refunded = 0
        /\ d \notin disputeRaced /\ OnDispute(d) = {} /\ deaths = 0
             => refunds[d] = dispute[d].refunded
    BY DisputeHandlers DEF DisputeIInv, DisputeTyped, DisputesTypeOK, Dispute, Recorded
  <1>2. ASSUME NEW o \in OrderIds, CreateDispute(p, d, o)
        PROVE  DisputeIInv'
    <2> DEFINE row == [order |-> o, status |-> "reported", refunded |-> 0]
               x   == [pc |-> "insert", dispute |-> d, order |-> o, copy |-> row]
    <2>1. Begin(p, x) /\ OnDispute(d) = {} /\ dispute[d].status = "none" /\ UNCHANGED disputeVars
      BY <1>2 DEF CreateDispute
    <2>2. row \in Dispute /\ CopyOK(row) /\ row.refunded = 0 /\ row.order = o
      BY DEF Dispute, CopyOK, OpenStatus
    <2> HIDE DEF row
    <2>3. /\ x \in DisputeCall /\ x.dispute = d /\ x.copy = row
          /\ x.pc = "insert" /\ x.order = o
      BY <2>2 DEF DisputeCall
    <2> HIDE DEF x
    <2>4. d \notin disputeRaced => HandlerOK(x, d)
      BY <1>1, <2>1, <2>2, <2>3 DEF HandlerOK
    <2> QED  BY <2>1, <2>2, <2>3, <2>4, DisputeStarts
             DEF disputeVars, DisputeIInv, DisputeTyped, DisputesTypeOK
  <1>3. ASSUME NEW pc \in {"refund", "save"}, NEW row \in Dispute, CopyOK(row),
               row.order = dispute[d].order, WorkOn(p, d, pc, row),
               row.refunded = dispute[d].refunded + (IF pc = "refund" THEN RefundWP ELSE 0)
        PROVE  DisputeIInv'
    <2> DEFINE x == [pc |-> pc, dispute |-> d, order |-> dispute[d].order, copy |-> row]
    <2>1. /\ x \in DisputeCall /\ x.dispute = d /\ x.copy = row
          /\ x.pc = pc /\ x.order = dispute[d].order
      BY <1>1, <1>3 DEF DisputeCall
    <2>2. Begin(p, x) /\ IsOpen(d) /\ UNCHANGED <<dispute, events, refunds>>
          /\ disputeRaced' = IF OnDispute(d) # {} THEN disputeRaced \cup {d} ELSE disputeRaced
      BY <1>3 DEF WorkOn
    <2> HIDE DEF x
    <2>3. d \notin disputeRaced' => OnDispute(d) = {} /\ HandlerOK(x, d)
      BY <1>1, <1>3, <2>1, <2>2 DEF HandlerOK
    <2>4. disputeRaced \subseteq disputeRaced' /\ disputeRaced' \subseteq DisputeIds
      BY <2>2 DEF DisputeIInv, DisputeTyped, DisputesTypeOK
    <2> QED  BY <1>3, <2>1, <2>2, <2>3, <2>4, DisputeStarts
  <1>4. IsOpen(d) => CopyOK(dispute[d]) /\ dispute[d].refunded = 0
    BY <1>1 DEF IsOpen, CopyOK, OpenStatus
  <1>5. ASSUME NEW s \in {"under_review", "investigating"}, UpdateStatus(p, d, s)
        PROVE  DisputeIInv'
    <2> DEFINE row == [dispute[d] EXCEPT !.status = s]
    <2>1. row \in Dispute /\ row.status = s /\ row.order = dispute[d].order
          /\ row.refunded = dispute[d].refunded
      BY <1>1 DEF Dispute, OpenStatus
    <2>2. WorkOn(p, d, "save", row) /\ IsOpen(d)
      BY <1>5 DEF UpdateStatus, WorkOn
    <2> HIDE DEF row
    <2> QED  BY <1>1, <1>3, <1>4, <2>1, <2>2 DEF CopyOK
  <1>6. ASSUME NEW r \in BOOLEAN, NEW w \in BOOLEAN, Resolve(p, d, r, w)
        PROVE  DisputeIInv'
    <2> DEFINE row == [dispute[d] EXCEPT !.status = IF r THEN "rejected" ELSE "resolved",
                                         !.refunded = IF w THEN RefundWP ELSE @]
               pc  == IF w THEN "refund" ELSE "save"
    <2>1. /\ row \in Dispute /\ row.status \in ClosedStatus /\ row.order = dispute[d].order
          /\ row.refunded = IF w THEN RefundWP ELSE dispute[d].refunded
      BY <1>1, DisputeConstantsOK DEF Dispute, ClosedStatus
    <2>2. WorkOn(p, d, pc, row) /\ IsOpen(d)
      BY <1>6 DEF Resolve, WorkOn
    <2> HIDE DEF row
    <2>3. CopyOK(row)
      BY <2>1 DEF CopyOK, OpenStatus, ClosedStatus
    <2>4. row.refunded = dispute[d].refunded + (IF pc = "refund" THEN RefundWP ELSE 0)
      BY <1>1, <1>4, <2>1, <2>2, DisputeConstantsOK
    <2> QED  BY <1>3, <2>1, <2>2, <2>3, <2>4
  <1> QED  BY <1>2, <1>5, <1>6

(* The credit, before the row says so.                                     *)
LEMMA DisputeCredited ==
  ASSUME DisputeIInv, NEW p \in Procs, CreditRefund(p)
  PROVE  DisputeIInv'
  <1> DEFINE c == call[p]
             x == [c EXCEPT !.pc = "save"]
  <1>0. c.dispute \in DisputeIds
    BY DisputeHandlers DEF DisputeIInv, CreditRefund, At
  <1> PICK d \in DisputeIds : d = c.dispute
    BY <1>0
  <1>1. /\ c # NoCall /\ c.pc = "refund" /\ call' = [call EXCEPT ![p] = x] /\ deaths' = deaths
        /\ refunds' = [refunds EXCEPT ![d] = @ + RefundWP]
        /\ UNCHANGED <<dispute, events, disputeRaced>>
    BY DEF CreditRefund, At, Goto, GotoState
  <1>2. c \in DisputeCall /\ d \in DisputeIds /\ CopyOK(c.copy)
    BY <1>1, DisputeHandlers DEF DisputeIInv
  <1>3. /\ x \in DisputeCall /\ x.dispute = d /\ x.copy = c.copy /\ x.order = c.order
        /\ x.pc = "save"
    BY <1>2 DEF DisputeCall
  <1> HIDE DEF x
  <1>4. /\ call' \in [Procs -> DisputeCall \cup {NoCall}] /\ call'[p] = x
        /\ \A q \in Procs \ {p} : call'[q] = call[q]
    BY <1>1, <1>3, SlotWritten DEF DisputeIInv, DisputeTyped
  <1>5. /\ refunds \in [DisputeIds -> Nat] /\ refunds' \in [DisputeIds -> Nat]
        /\ refunds'[d] = refunds[d] + RefundWP
        /\ \A e \in DisputeIds \ {d} : refunds'[e] = refunds[e]
    BY <1>1, <1>2, DisputeConstantsOK DEF DisputeIInv, DisputeTyped, DisputesTypeOK
  <1>6. DisputeTyped'
    BY <1>1, <1>2, <1>3, <1>4, <1>5 DEF DisputeIInv, DisputeTyped, DisputesTypeOK
  <1>7. \A q \in Procs, e \in DisputeIds : Handles(q, e)' <=> Handles(q, e)
    BY <1>1, <1>3, <1>4, DisputeConstantsOK DEF Handles
  <1>8. ASSUME NEW e \in DisputeIds \ disputeRaced
        PROVE  Recorded(e)'
    <2>1. Recorded(e)
      BY DEF DisputeIInv
    <2>2. CASE e # d
      <3>1. \A q \in Procs : Handles(q, e) => call'[q] = call[q]
        BY <1>4, <2>2 DEF Handles
      <3> QED  BY <1>1, <1>5, <1>7, <2>1, <2>2, <3>1, DisputeFrame
    <2>3. CASE e = d
      <3>1. Handles(p, d) /\ \A q \in Procs : Handles(q, d) => q = p
        BY <1>1, <2>1, <2>3 DEF Handles, Recorded
      <3>2. HandlerOK(c, d)
        BY <2>1, <2>3, <3>1 DEF Recorded
      <3>3. HandlerOK(call[p], e)'
        BY <1>1, <1>2, <1>3, <1>4, <1>5, <2>3, <3>2, DisputeConstantsOK
        DEF HandlerOK, IsOpen, DisputeCall, Dispute
      <3> QED  BY <1>1, <1>7, <2>3, <3>1, <3>3 DEF Recorded
    <2> QED  BY <2>2, <2>3
  <1>9. \A e, f \in DisputeIds \ disputeRaced' : e # f => Apart(e, f)'
    BY <1>1 DEF DisputeIInv, Apart, IsOpen
  <1> QED  BY <1>1, <1>6, <1>8, <1>9 DEF DisputeIInv

(* The copy becomes the row.                                               *)
LEMMA DisputeSaved ==
  ASSUME DisputeIInv, NEW p \in Procs, SaveDispute(p)
  PROVE  DisputeIInv'
  <1> DEFINE c == call[p]
  <1>0. c.dispute \in DisputeIds
    BY DisputeHandlers DEF DisputeIInv, SaveDispute, At
  <1> PICK d \in DisputeIds : d = c.dispute
    BY <1>0
  <1>1. /\ c # NoCall /\ call' = [call EXCEPT ![p] = NoCall] /\ deaths' = deaths
        /\ c.pc \in {"insert", "save"}
        /\ dispute' = [dispute EXCEPT ![d] = c.copy]
        /\ events' = [events EXCEPT ![d] = @ \cup {c.copy.status}]
        /\ refunds' = refunds
        /\ c.pc = "save" => disputeRaced' = disputeRaced
        /\ c.pc = "insert" => disputeRaced' =
             disputeRaced \cup {e \in DisputeIds \cup {d} :
                \E f \in DisputeIds \ {d} : IsOpen(f) /\ dispute[f].order = c.order /\ e \in {d, f}}
    BY DEF SaveDispute, At, End, GotoState
  <1>2. /\ c \in DisputeCall /\ d \in DisputeIds /\ CopyOK(c.copy) /\ c.copy \in Dispute
        /\ c.copy.status \in OpenStatus \cup ClosedStatus
    BY <1>1, DisputeHandlers DEF DisputeIInv, CopyOK, Dispute
  <1>3. disputeRaced \subseteq disputeRaced' /\ disputeRaced' \subseteq DisputeIds
    BY <1>1, <1>2 DEF DisputeIInv, DisputeTyped, DisputesTypeOK
  <1> HIDE DEF c
  <1>4. /\ call' \in [Procs -> DisputeCall \cup {NoCall}] /\ call'[p] = NoCall
        /\ \A q \in Procs \ {p} : call'[q] = call[q]
    BY <1>1, SlotWritten DEF DisputeIInv, DisputeTyped
  <1>5. /\ dispute' \in [DisputeIds -> Dispute] /\ dispute'[d] = c.copy
        /\ \A e \in DisputeIds \ {d} : dispute'[e] = dispute[e]
        /\ events' \in [DisputeIds -> SUBSET (OpenStatus \cup ClosedStatus)]
    BY <1>1, <1>2 DEF DisputeIInv, DisputeTyped, DisputesTypeOK
  <1>6. DisputeTyped'
    <2>1. \A e \in DisputeIds : dispute'[e].status = "none" \/ CopyOK(dispute'[e])
      BY <1>2, <1>5 DEF DisputeIInv, DisputeTyped
    <2>2. \A e \in DisputeIds : dispute'[e].status = "none" => dispute'[e].refunded = 0
      BY <1>2, <1>5 DEF DisputeIInv, DisputeTyped, CopyOK
    <2> QED  BY <1>1, <1>3, <1>4, <1>5, <2>1, <2>2 DEF DisputeIInv, DisputeTyped, DisputesTypeOK
  <1>7. d \notin disputeRaced' => Recorded(d) /\ HandlerOK(c, d)
    BY <1>1, <1>2, <1>3 DEF DisputeIInv, Recorded, Handles, c
  <1>8. ASSUME NEW e \in DisputeIds \ disputeRaced'
        PROVE  Recorded(e)'
    <2>1. Recorded(e)
      BY <1>3 DEF DisputeIInv
    <2>2. CASE e # d
      <3>1. \A q \in Procs : /\ Handles(q, e)' <=> Handles(q, e)
                             /\ Handles(q, e) => call'[q] = call[q]
        BY <1>4, <2>2 DEF Handles, c
      <3> QED  BY <1>1, <1>5, <2>1, <2>2, <3>1, DisputeFrame
    <2>3. CASE e = d
      <3>1. \A q \in Procs : ~Handles(q, e)'
        BY <1>1, <1>4, <2>1, <2>3 DEF Handles, Recorded, c
      <3>2. deaths' = 0 => refunds'[d] = dispute'[d].refunded
        BY <1>1, <1>5, <1>7, <2>3 DEF HandlerOK, DisputeIInv, DisputeTyped, DisputesTypeOK
      <3> QED  BY <2>3, <3>1, <3>2 DEF Recorded
    <2> QED  BY <2>2, <2>3
  <1>9. ASSUME NEW e \in DisputeIds \ disputeRaced', e # d, d \notin disputeRaced'
         PROVE  Apart(d, e)' /\ Apart(e, d)'
    <2>1. dispute'[d].order = c.order
      BY <1>5, <1>7, <1>9 DEF HandlerOK
    <2>2. CASE c.pc = "insert"
      <3>1. ~(IsOpen(e) /\ dispute[e].order = c.order)
        BY <1>1, <1>2, <1>9, <2>2
      <3> QED  BY <1>5, <1>9, <2>1, <3>1 DEF Apart, IsOpen
    <2>3. CASE c.pc = "save"
      <3>1. IsOpen(d) /\ dispute[d].order = c.order
        BY <1>7, <1>9, <2>3 DEF HandlerOK
      <3>2. Apart(d, e)
        BY <1>2, <1>3, <1>9 DEF DisputeIInv
      <3> QED  BY <1>5, <1>9, <2>1, <3>1, <3>2 DEF Apart, IsOpen
    <2> QED  BY <1>1, <2>2, <2>3
  <1>10. \A e, f \in DisputeIds \ disputeRaced' : e # f => Apart(e, f)'
    <2> SUFFICES ASSUME NEW e \in DisputeIds \ disputeRaced', NEW f \in DisputeIds \ disputeRaced', e # f
                 PROVE  Apart(e, f)'
      OBVIOUS
    <2>1. CASE e # d /\ f # d
      BY <1>3, <1>5, <2>1 DEF DisputeIInv, Apart, IsOpen
    <2> QED  BY <1>9, <2>1
  <1> QED  BY <1>6, <1>8, <1>10 DEF DisputeIInv

LEMMA DisputeDies ==
  ASSUME DisputeIInv, NEW p \in Procs, Dies(p), UNCHANGED disputeVars
  PROVE  DisputeIInv'
  <1>1. /\ call' \in [Procs -> DisputeCall \cup {NoCall}] /\ call'[p] = NoCall
        /\ \A q \in Procs \ {p} : call'[q] = call[q]
        /\ deaths' \in Nat /\ deaths' # 0 /\ UNCHANGED <<dispute, events, refunds, disputeRaced>>
    BY SlotWritten DEF Dies, DisputeIInv, DisputeTyped, disputeVars
  <1>2. DisputeTyped'
    BY <1>1 DEF DisputeIInv, DisputeTyped, DisputesTypeOK
  <1>3. \A q \in Procs, e \in DisputeIds : Handles(q, e)' => Handles(q, e) /\ call'[q] = call[q]
    BY <1>1 DEF Handles
  <1>4. \A e \in DisputeIds \ disputeRaced : Recorded(e)'
    BY <1>1, <1>3 DEF DisputeIInv, Recorded, HandlerOK, IsOpen
  <1> QED  BY <1>1, <1>2, <1>4 DEF DisputeIInv, Apart, IsOpen

LEMMA DisputeNextIInv ==
  DisputeIInv /\ [DisputesNext]_<<disputeVars, requestVars>> => DisputeIInv'
  <1>1. DisputeIInv /\ UNCHANGED <<disputeVars, requestVars>> => DisputeIInv'
    BY DEF disputeVars, requestVars, DisputeIInv, DisputeTyped, DisputesTypeOK, Recorded, Handles,
           HandlerOK, Apart, IsOpen
  <1> QED  BY <1>1, DisputeHandlersStart, DisputeCredited, DisputeSaved, DisputeDies
           DEF DisputesNext, DisputeStep

(* However the requests of customers and of support interleave: as long as *)
(* no two worked on a dispute at once and none died, what the customer was *)
(* credited is what the row says, and an order has one open dispute.       *)
THEOREM RefundsRecorded == DisputesSpec => []RefundedAsRecorded
  <1>1. DisputeIInv => RefundedAsRecorded
    BY DisputeHandlers DEF DisputeIInv, RefundedAsRecorded, Recorded, Apart
  <1> QED  BY <1>1, DisputeInitIInv, DisputeNextIInv, PTL DEF DisputesSpec

-----------------------------------------------------------------------------
(* Logistics.  A copy saved over a row that has changed since races the    *)
(* leg; of any other leg the accounts follow from its status.              *)

Escrowed == {"paid", "scheduled", "picked_up", "delivered", "completed"}

Accounts(l) ==
  /\ leg[l].status \in {"none", "pending_payment"} =>
       held[l] = "none" /\ repPaid[l] = 0 /\ refunded[l] = 0
  /\ leg[l].status \in {"paid", "scheduled", "picked_up"} =>
       held[l] = "held" /\ repPaid[l] = 0 /\ refunded[l] = 0
  /\ leg[l].status = "delivered" =>
       held[l] = "held" /\ repPaid[l] \in {0, leg[l].transport} /\ refunded[l] = 0
  /\ leg[l].status = "completed" =>
       /\ held[l] = "released" /\ repPaid[l] = leg[l].transport /\ refunded[l] = 0
       /\ leg[l].platform = leg[l].total - leg[l].transport
  /\ leg[l].status = "cancelled" =>
       /\ repPaid[l] = 0
       /\ \/ held[l] = "none" /\ refunded[l] = 0
          \/ held[l] = "refunded" /\ refunded[l] = leg[l].total

LegOK(l) ==
  /\ leg[l].transport <= leg[l].total
  /\ leg[l].status \in Escrowed => held[l] # "none"
  /\ leg[l].status = "none" => held[l] = "none" /\ repPaid[l] = 0 /\ refunded[l] = 0
  /\ repPaid[l] + refunded[l] > 0 => held[l] # "none"
  /\ l \notin legRaced => Accounts(l)

SameLeg(row, l) ==
  /\ row.transport = leg[l].transport /\ row.total = leg[l].total /\ row.parent = leg[l].parent
  /\ row.status # "none" /\ leg[l].status # "none"

LegCopyOK(c) ==
  /\ SameLeg(c.row, c.leg)
  /\ c.pc \in DOMAIN Handlers => c.row.status \in Handlers[c.pc]
  /\ c.pc = "settle" => c.row.status = "delivered"
  /\ c.row.status \in Escrowed => held[c.leg] # "none"
  /\ c.pc \in {"payRep", "settle"} /\ c.leg \notin legRaced =>
       leg[c.leg].status \in {"delivered", "completed"}
  /\ c.pc = "settle" /\ c.leg \notin legRaced => repPaid[c.leg] = leg[c.leg].transport

OneDelivery(l) == \A m, n \in Legs : leg[m].parent = l /\ leg[n].parent = l => m = n

LegIInv ==
  /\ LogisticsTypeOK
  /\ call \in [Procs -> LegCall \cup {NoCall}]
  /\ \A l \in Legs : LegOK(l)
  /\ \A p \in Procs : call[p] # NoCall => LegCopyOK(call[p])
  /\ \A l \in Legs \ legRaced : OneDelivery(l)

LEMMA LegRows ==
  ASSUME LogisticsTypeOK, NEW l \in Legs
  PROVE  /\ leg[l] \in Leg /\ repPaid[l] \in Nat /\ refunded[l] \in Nat
         /\ held[l] \in {"none", "held", "refunded", "released"}
         /\ leg[l].transport \in Nat /\ leg[l].total \in Nat /\ leg[l].platform \in Nat
         /\ leg[l].parent \in Legs \cup {"none"} /\ leg[l].status \in LegStatus
  BY DEF LogisticsTypeOK, Leg

LEMMA LegHandlers ==
  ASSUME LegIInv, NEW p \in Procs, call[p] # NoCall
  PROVE  /\ call[p] \in LegCall /\ call[p].leg \in Legs /\ call[p].row \in Leg /\ LegCopyOK(call[p])
         /\ call[p].pc \in {"spawn", "pay", "schedule", "pickUp", "deliver", "cancel", "complete",
                            "payRep", "settle"}
  BY DEF LegIInv, LegCall

LEMMA LegInitIInv == RequestsInit /\ LogisticsInit => LegIInv
  <1> SUFFICES ASSUME RequestsInit, LogisticsInit PROVE LegIInv
    OBVIOUS
  <1>1. /\ NoLeg \in Leg /\ NoLeg.status = "none" /\ NoLeg.transport = 0 /\ NoLeg.total = 0
        /\ NoLeg.parent = "none"
    BY DEF NoLeg, Leg, LegStatus
  <1>2. \A l \in Legs : leg[l] = NoLeg /\ repPaid[l] = 0 /\ refunded[l] = 0 /\ held[l] = "none"
    BY DEF LogisticsInit
  <1>3. LogisticsTypeOK
    BY <1>1, <1>2 DEF LogisticsInit, LogisticsTypeOK
  <1>4. \A l \in Legs : LegOK(l)
    BY <1>1, <1>2 DEF LegOK, Accounts, Escrowed
  <1> QED
    BY <1>1, <1>2, <1>3, <1>4, LogisticsConstantsOK DEF RequestsInit, LegIInv, OneDelivery

(* Handlers come and go; no row moves.                                     *)
LEMMA LegMoves ==
  ASSUME LegIInv, UNCHANGED logisticsVars, call' \in [Procs -> LegCall \cup {NoCall}],
         \A q \in Procs : call'[q] # NoCall => call'[q] = call[q] \/ LegCopyOK(call'[q])
  PROVE  LegIInv'
  <1>1. \A q \in Procs : call'[q] # NoCall => LegCopyOK(call'[q])
    BY DEF LegIInv
  <1>2. \A q \in Procs : call'[q] # NoCall => LegCopyOK(call[q])'
    BY <1>1 DEF LegCopyOK, SameLeg, logisticsVars
  <1>3. (\A l \in Legs : LegOK(l)') /\ LogisticsTypeOK'
    BY DEF LegIInv, LegOK, Accounts, LogisticsTypeOK, logisticsVars
  <1> QED  BY <1>2, <1>3 DEF LegIInv, OneDelivery, logisticsVars

(* A handler ends.                                                         *)
LEMMA LegEnds ==
  ASSUME LegIInv, UNCHANGED logisticsVars, NEW p \in Procs, call' = [call EXCEPT ![p] = NoCall]
  PROVE  LegIInv'
  <1>1. /\ call' \in [Procs -> LegCall \cup {NoCall}] /\ call'[p] = NoCall
        /\ \A q \in Procs \ {p} : call'[q] = call[q]
    BY SlotWritten DEF LegIInv
  <1> QED  BY <1>1, LegMoves

(* A handler's copy is saved, and the escrow with it: only if the leg is   *)
(* still what the handler read do its accounts stay in order.              *)
Saving(p, l, row, h, n) ==
  /\ call[p] # NoCall /\ call[p].pc # "spawn" /\ l = call[p].leg
  /\ SaveLeg(p, row)
  /\ row.transport = call[p].row.transport /\ row.total = call[p].row.total
  /\ row.parent = call[p].row.parent /\ row.status # "none"
  /\ held' = [held EXCEPT ![l] = h] /\ refunded' = [refunded EXCEPT ![l] = n]
  /\ repPaid' = repPaid
  /\ held[l] # "none" => h # "none"
  /\ row.status \in Escrowed \/ n > refunded[l] => h # "none"
  /\ leg[l] = call[p].row /\ l \notin legRaced =>
       /\ Accounts(l)'
       /\ leg[l].status \in {"delivered", "completed"} => row.status = "completed"
  /\ call' \in [Procs -> LegCall \cup {NoCall}] /\ \A q \in Procs \ {p} : call'[q] = call[q]
  /\ call'[p] # NoCall =>
       call'[p].leg = l /\ call'[p].row = call[p].row /\ call'[p].pc = "complete"

LEMMA LegSaved ==
  ASSUME LegIInv, NEW p \in Procs, NEW l \in Legs, NEW row \in Leg,
         NEW h \in {"none", "held", "refunded", "released"}, NEW n \in Nat,
         Saving(p, l, row, h, n)
  PROVE  LegIInv'
  <1>1. call[p] \in LegCall /\ call[p].leg \in Legs /\ call[p].row \in Leg /\ LegCopyOK(call[p])
    BY LegHandlers DEF Saving
  <1>2. /\ leg' = [leg EXCEPT ![l] = row]
        /\ legRaced' = IF leg[l] # call[p].row THEN legRaced \cup {l} ELSE legRaced
    BY DEF Saving, SaveLeg
  <1>3. /\ leg' \in [Legs -> Leg] /\ leg'[l] = row /\ \A m \in Legs \ {l} : leg'[m] = leg[m]
        /\ held'[l] = h /\ \A m \in Legs \ {l} : held'[m] = held[m]
        /\ refunded'[l] = n /\ \A m \in Legs \ {l} : refunded'[m] = refunded[m]
        /\ LogisticsTypeOK' /\ legRaced \subseteq legRaced'
        /\ \A m \in Legs \ {l} : m \in legRaced' <=> m \in legRaced
    BY <1>2 DEF Saving, LegIInv, LogisticsTypeOK
  <1>4. /\ row.transport = leg[l].transport /\ row.total = leg[l].total
        /\ row.parent = leg[l].parent /\ leg[l].status # "none"
    BY <1>1 DEF Saving, LegCopyOK, SameLeg
  <1>5. l \notin legRaced' => Accounts(l)' /\ leg[l] = call[p].row /\ l \notin legRaced
    BY <1>2 DEF Saving
  <1>6. \A m \in Legs : LegOK(m)'
    <2> SUFFICES ASSUME NEW m \in Legs PROVE LegOK(m)'
      OBVIOUS
    <2>1. LegOK(m) /\ repPaid[m] \in Nat /\ refunded[m] \in Nat
      BY LegRows DEF LegIInv
    <2>2. CASE m = l
      BY <1>3, <1>4, <1>5, <2>1, <2>2 DEF Saving, LegOK
    <2>3. CASE m # l
      BY <1>3, <2>1, <2>3 DEF Saving, LegOK, Accounts
    <2> QED  BY <2>2, <2>3
  <1>7. \A m \in Legs \ legRaced' : OneDelivery(m)'
    <2>1. \A m \in Legs : leg'[m].parent = leg[m].parent
      BY <1>3, <1>4
    <2> QED  BY <1>3, <2>1 DEF LegIInv, OneDelivery
  <1>8. ASSUME NEW q \in Procs, call'[q] # NoCall
        PROVE  LegCopyOK(call[q])'
    <2>1. call[q] # NoCall /\ LegCopyOK(call[q]) /\ call[q].leg \in Legs
      BY <1>8, LegHandlers DEF Saving
    <2>2. CASE q = p
      <3>1. call'[q].leg = l /\ call'[q].row = call[p].row /\ call'[q].pc = "complete"
        BY <1>8, <2>2 DEF Saving
      <3> QED  BY <1>1, <1>3, <1>4, <3>1 DEF Saving, LegCopyOK, SameLeg, Handlers
    <2>3. CASE q # p /\ call[q].leg = l
      BY <1>3, <1>4, <1>5, <2>1, <2>3, <1>8 DEF Saving, LegCopyOK, SameLeg
    <2>4. CASE q # p /\ call[q].leg # l
      BY <1>3, <2>1, <2>4 DEF Saving, LegCopyOK, SameLeg
    <2> QED  BY <2>2, <2>3, <2>4
  <1> QED  BY <1>3, <1>6, <1>7, <1>8 DEF Saving, LegIInv

LEMMA LegPriced ==
  ASSUME NEW fee \in Fees
  PROVE  Clamp(fee.raw, fee.min, fee.max) \in Nat /\ fee.mobility \in Nat
  BY LogisticsConstantsOK DEF Clamp

(* A new leg, of no round trip or the delivery of one.                     *)
LEMMA LegCreated ==
  ASSUME LegIInv, NEW l \in Legs, NEW flow \in {"delivery", "collect"}, NEW roundTrip \in BOOLEAN,
         NEW asks \in BOOLEAN, NEW parent \in Legs \cup {"none"}, NEW fee \in Fees,
         leg[l].status = "none", NewLeg(l, flow, roundTrip, asks, parent, fee),
         UNCHANGED <<held, repPaid, refunded>>, legRaced \subseteq legRaced', legRaced' \subseteq Legs,
         parent \in Legs \ legRaced' => \A m \in Legs : leg[m].parent # parent,
         call' \in [Procs -> LegCall \cup {NoCall}], \A q \in Procs : call'[q] \in {call[q], NoCall}
  PROVE  LegIInv'
  <1> DEFINE t   == Clamp(fee.raw, fee.min, fee.max)
             row == [ status |-> "pending_payment", flow |-> flow, roundTrip |-> roundTrip,
                      vendorAsks |-> asks, parent |-> parent, transport |-> t,
                      total |-> t + fee.mobility, platform |-> 0 ]
  <1>1. /\ row \in Leg /\ row.status = "pending_payment" /\ row.parent = parent
        /\ row.transport <= row.total
    <2>1. t \in Nat /\ t + fee.mobility \in Nat /\ t <= t + fee.mobility
      BY LegPriced
    <2> HIDE DEF t
    <2> QED  BY <2>1 DEF Leg, LegStatus
  <1>2. leg' = [leg EXCEPT ![l] = row]
    BY DEF NewLeg
  <1> HIDE DEF row
  <1>3. /\ leg' \in [Legs -> Leg] /\ leg'[l] = row /\ \A m \in Legs \ {l} : leg'[m] = leg[m]
        /\ LogisticsTypeOK' /\ repPaid[l] = 0 /\ refunded[l] = 0 /\ held[l] = "none"
    BY <1>1, <1>2 DEF LegIInv, LogisticsTypeOK, LegOK
  <1>4. \A m \in Legs : LegOK(m)'
    <2> SUFFICES ASSUME NEW m \in Legs PROVE LegOK(m)'
      OBVIOUS
    <2>1. CASE m = l
      BY <1>1, <1>3, <2>1 DEF LegOK, Escrowed, Accounts
    <2>2. CASE m # l
      BY <1>3, <2>2 DEF LegIInv, LegOK, Accounts
    <2> QED  BY <2>1, <2>2
  <1>5. \A m \in Legs \ legRaced' : OneDelivery(m)'
    BY <1>1, <1>3, LogisticsConstantsOK DEF LegIInv, OneDelivery
  <1>6. ASSUME NEW q \in Procs, call'[q] # NoCall
        PROVE  LegCopyOK(call[q])'
    <2>1. call'[q] = call[q] /\ LegCopyOK(call[q]) /\ call[q].leg \in Legs /\ call[q].leg # l
      BY <1>6, LegHandlers DEF LegCopyOK, SameLeg
    <2> QED  BY <1>3, <2>1 DEF LegCopyOK, SameLeg
  <1> QED  BY <1>3, <1>4, <1>5, <1>6 DEF LegIInv

(* The rep is credited; a second credit of anything races the leg.         *)
LEMMA LegPaysRep ==
  ASSUME LegIInv, NEW p \in Procs, PayRep(p)
  PROVE  LegIInv'
  <1>1. call[p] \in LegCall /\ call[p].leg \in Legs /\ call[p].pc = "payRep"
        /\ LegCopyOK(call[p]) /\ call[p].row \in Leg
    BY LegHandlers DEF PayRep, At
  <1> PICK l \in Legs : l = call[p].leg
    BY <1>1
  <1> PICK c \in LegCall : c = call[p]
    BY <1>1
  <1> DEFINE x == [c EXCEPT !.pc = "settle"]
  <1>2. x \in LegCall /\ x.pc = "settle" /\ x.leg = l /\ x.row = c.row /\ c.row \in Leg
    BY <1>1 DEF LegCall
  <1>3. /\ c.row.transport = leg[l].transport /\ c.row.status = "delivered"
        /\ held[l] # "none" /\ SameLeg(c.row, l)
    BY <1>1 DEF LegCopyOK, SameLeg, Handlers, Escrowed
  <1>4. /\ call' = [call EXCEPT ![p] = x] /\ UNCHANGED <<leg, held, refunded>>
        /\ repPaid' = [repPaid EXCEPT ![l] = @ + leg[l].transport]
        /\ legRaced' = IF repPaid[l] > 0 THEN legRaced \cup {l} ELSE legRaced
    BY <1>3 DEF PayRep, Goto, GotoState
  <1> HIDE DEF x
  <1>5. /\ call' \in [Procs -> LegCall \cup {NoCall}] /\ call'[p] = x
        /\ \A q \in Procs \ {p} : call'[q] = call[q]
    BY <1>2, <1>4, SlotWritten DEF LegIInv
  <1>6. /\ repPaid'[l] = repPaid[l] + leg[l].transport
        /\ \A m \in Legs \ {l} : repPaid'[m] = repPaid[m]
        /\ LogisticsTypeOK'
    BY <1>4, LegRows DEF LegIInv, LogisticsTypeOK
  <1>7. l \notin legRaced => leg[l].status \in {"delivered", "completed"}
    BY <1>1 DEF LegCopyOK
  <1>8. \A m \in Legs : LegOK(m)'
    <2> SUFFICES ASSUME NEW m \in Legs PROVE LegOK(m)'
      OBVIOUS
    <2>1. /\ LegOK(m) /\ leg[m].transport \in Nat /\ repPaid[m] \in Nat /\ refunded[m] \in Nat
      BY LegRows DEF LegIInv
    <2>2. CASE m = l
      <3>1. leg[l].status # "none"
        BY <1>3 DEF SameLeg
      <3>2. ASSUME l \notin legRaced' PROVE Accounts(l)'
        <4>1. repPaid[l] = 0 /\ l \notin legRaced /\ Accounts(l) /\ refunded[l] \in Nat
          BY <1>4, <2>1, <2>2, <3>2 DEF LegOK
        <4>2. repPaid'[l] = leg[l].transport
          BY <1>6, <2>1, <2>2, <4>1
        <4>3. CASE leg[l].status = "delivered"
          BY <1>4, <4>1, <4>2, <4>3 DEF Accounts
        <4>4. CASE leg[l].status = "completed"
          BY <1>4, <4>1, <4>2, <4>4 DEF Accounts
        <4> QED  BY <1>7, <4>1, <4>3, <4>4
      <3> QED  BY <1>3, <1>4, <1>6, <2>1, <2>2, <3>1, <3>2 DEF LegOK
    <2>3. CASE m # l
      BY <1>4, <1>6, <2>1, <2>3 DEF LegOK, Accounts
    <2> QED  BY <2>2, <2>3
  <1>9. ASSUME NEW q \in Procs, call'[q] # NoCall
        PROVE  LegCopyOK(call[q])'
    <2>1. repPaid[l] \in Nat /\ leg[l].transport \in Nat /\ refunded[l] \in Nat /\ LegOK(l)
      BY LegRows DEF LegIInv
    <2>2. CASE q = p
      <3> HIDE DEF x
      <3>1. l \notin legRaced' => repPaid'[l] = leg'[l].transport
        BY <1>4, <1>6, <2>1
      <3>2. SameLeg(x.row, l)'
        BY <1>2, <1>3, <1>4, <1>5 DEF SameLeg
      <3>3. l \notin legRaced' => leg'[l].status \in {"delivered", "completed"}
        BY <1>4, <1>7
      <3> QED  BY <1>2, <1>3, <1>4, <1>5, <2>2, <3>1, <3>2, <3>3 DEF LegCopyOK, Handlers
    <2>3. CASE q # p
      <3>1. LegCopyOK(call[q]) /\ call[q].leg \in Legs /\ call'[q] = call[q]
        BY <1>5, <1>9, <2>3, LegHandlers
      <3> QED  BY <1>4, <1>6, <2>1, <3>1 DEF LegCopyOK, SameLeg
    <2> QED  BY <2>2, <2>3
  <1>10. \A m \in Legs \ legRaced' : OneDelivery(m)'
    BY <1>4 DEF LegIInv, OneDelivery
  <1> QED  BY <1>5, <1>6, <1>8, <1>9, <1>10 DEF LegIInv

LEMMA LegSpawned ==
  ASSUME LegIInv, NEW p \in Procs, NEW m \in Legs, NEW fee \in Fees, Spawn(p, m, fee)
  PROVE  LegIInv'
  <1>1. call[p].leg \in Legs
    BY LegHandlers DEF Spawn, At
  <1> PICK l \in Legs : l = call[p].leg
    BY <1>1
  <1>2. /\ \E flow \in {"delivery", "collect"}, r, v \in BOOLEAN : NewLeg(m, flow, r, v, l, fee)
        /\ leg[m].status = "none"
        /\ legRaced' = IF \E k \in Legs : leg[k].parent = l THEN legRaced \cup {l} ELSE legRaced
        /\ call' = [call EXCEPT ![p] = NoCall] /\ UNCHANGED <<held, repPaid, refunded>>
    BY DEF Spawn, End, GotoState
  <1>3. /\ call' \in [Procs -> LegCall \cup {NoCall}]
        /\ \A q \in Procs : call'[q] \in {call[q], NoCall}
    BY <1>2, SlotWritten DEF LegIInv
  <1>4. /\ legRaced \subseteq legRaced' /\ legRaced' \subseteq Legs
        /\ l \in Legs \ legRaced' => \A k \in Legs : leg[k].parent # l
    BY <1>2 DEF LegIInv, LogisticsTypeOK
  <1>5. PICK flow \in {"delivery", "collect"}, r \in BOOLEAN, v \in BOOLEAN :
          NewLeg(m, flow, r, v, l, fee)
    BY <1>2
  <1>6. l \in Legs \cup {"none"}
    OBVIOUS
  <1> QED  BY <1>2, <1>3, <1>4, <1>5, <1>6, LegCreated

LEMMA LegReadAgain ==
  ASSUME LegIInv, NEW p \in Procs, ReadLeg(p)
  PROVE  LegIInv'
  <1>1. call[p] \in LegCall /\ call[p].pc = "complete" /\ UNCHANGED logisticsVars
        /\ call[p].leg \in Legs
    BY LegHandlers DEF ReadLeg, At
  <1> PICK l \in Legs : l = call[p].leg
    BY <1>1
  <1> DEFINE x == [call[p] EXCEPT !.pc = "payRep", !.row = leg[l]]
  <1>2. x \in LegCall /\ x.pc = "payRep" /\ x.leg = l /\ x.row = leg[l]
    BY <1>1, LegRows DEF LegCall, LegIInv
  <1>3. \/ call' = [call EXCEPT ![p] = NoCall]
        \/ call' = [call EXCEPT ![p] = x] /\ leg[l].status = "delivered"
    BY DEF ReadLeg, End, GotoState
  <1> HIDE DEF x
  <1>4. CASE call' = [call EXCEPT ![p] = NoCall]
    BY <1>1, <1>4, LegEnds
  <1>5. CASE call' = [call EXCEPT ![p] = x] /\ leg[l].status = "delivered"
    <2>1. LegCopyOK(x)
      BY <1>2, <1>5 DEF LegCopyOK, SameLeg, Handlers, LegIInv, LegOK, Escrowed
    <2>2. /\ call' \in [Procs -> LegCall \cup {NoCall}] /\ call'[p] = x
          /\ \A q \in Procs \ {p} : call'[q] = call[q]
      BY <1>2, <1>5, SlotWritten DEF LegIInv
    <2> QED  BY <1>1, <2>1, <2>2, LegMoves
  <1> QED  BY <1>3, <1>4, <1>5

(* A handler has loaded the leg.                                           *)
LEMMA LegLoaded ==
  ASSUME LegIInv, NEW p \in Procs, NEW l \in Legs, NEW pc \in {"spawn"} \cup DOMAIN Handlers,
         leg[l].status # "none", pc # "spawn" => leg[l].status \in Handlers[pc], Load(p, l, pc)
  PROVE  LegIInv'
  <1> DEFINE x == [pc |-> pc, leg |-> l, row |-> leg[l]]
  <1>1. x \in LegCall /\ x.pc = pc /\ x.leg = l /\ x.row = leg[l]
    BY LegRows DEF LegCall, LegIInv, Handlers
  <1>2. call' = [call EXCEPT ![p] = x] /\ UNCHANGED logisticsVars
    BY DEF Load, Begin
  <1> HIDE DEF x
  <1>3. LegCopyOK(x)
    BY <1>1 DEF LegCopyOK, SameLeg, Handlers, LegIInv, LegOK
  <1>4. /\ call' \in [Procs -> LegCall \cup {NoCall}] /\ call'[p] = x
        /\ \A q \in Procs \ {p} : call'[q] = call[q]
    BY <1>1, <1>2, SlotWritten DEF LegIInv
  <1> QED  BY <1>2, <1>3, <1>4, LegMoves

(* What a handler that saves its copy knows of it.                         *)
LEMMA LegSaver ==
  ASSUME LegIInv, NEW p \in Procs, NEW pc \in DOMAIN Handlers \cup {"settle"}, At(p, pc)
  PROVE  /\ call[p] # NoCall /\ call[p].pc = pc /\ call[p].leg \in Legs /\ call[p].row \in Leg
         /\ call[p] \in LegCall /\ SameLeg(call[p].row, call[p].leg)
         /\ pc # "settle" => call[p].row.status \in Handlers[pc]
         /\ pc = "settle" => call[p].row.status = "delivered"
         /\ call[p].row.status \in Escrowed => held[call[p].leg] # "none"
         /\ call[p].row.total \in Nat /\ call[p].row.transport \in Nat
         /\ call[p].row.transport <= call[p].row.total
  <1>1. /\ call[p] # NoCall /\ call[p].pc = pc /\ LegCopyOK(call[p]) /\ call[p].leg \in Legs
        /\ call[p].row \in Leg /\ call[p] \in LegCall
    BY LegHandlers DEF At
  <1>2. call[p].row.transport <= call[p].row.total
    BY <1>1 DEF LegCopyOK, SameLeg, LegIInv, LegOK
  <1> QED  BY <1>1, <1>2 DEF LegCopyOK, Leg

(* The steps that save a copy.                                             *)
LEMMA LegPaid ==
  ASSUME LegIInv, NEW p \in Procs, PayLeg(p)
  PROVE  LegIInv'
  <1>1. call[p] # NoCall /\ call[p].pc = "pay" /\ call[p].leg \in Legs /\ call[p].row \in Leg
        /\ call[p].row.status = "pending_payment" /\ SameLeg(call[p].row, call[p].leg)
    BY LegSaver DEF PayLeg, Handlers
  <1> PICK l \in Legs : l = call[p].leg
    BY <1>1
  <1>2. call' = [call EXCEPT ![p] = NoCall]
    BY DEF PayLeg, End, GotoState
  <1>3. CASE held[l] # "none"
    BY <1>2, <1>3, LegEnds DEF PayLeg
  <1>4. CASE held[l] = "none"
    <2> DEFINE row == [call[p].row EXCEPT !.status = "paid"]
    <2>1. /\ row \in Leg /\ row.status = "paid" /\ row.transport = call[p].row.transport
          /\ row.total = call[p].row.total /\ row.parent = call[p].row.parent
      BY <1>1 DEF Leg, LegStatus
    <2>2. /\ SaveLeg(p, row) /\ held' = [held EXCEPT ![l] = "held"]
          /\ repPaid' = repPaid /\ refunded' = [refunded EXCEPT ![l] = refunded[l]]
          /\ refunded[l] \in Nat /\ refunded' = refunded
      BY <1>4 DEF PayLeg, Saved, LegIInv, LogisticsTypeOK
    <2> HIDE DEF row
    <2>3. leg'[l] = row /\ held'[l] = "held"
      BY <2>2 DEF SaveLeg, LegIInv, LogisticsTypeOK
    <2>4. leg[l] = call[p].row /\ l \notin legRaced => Accounts(l)'
      BY <1>1, <2>1, <2>2, <2>3 DEF LegIInv, LegOK, Accounts
    <2>5. /\ call' \in [Procs -> LegCall \cup {NoCall}] /\ call'[p] = NoCall
          /\ \A q \in Procs \ {p} : call'[q] = call[q]
      BY <1>2, SlotWritten DEF LegIInv
    <2>6. Saving(p, l, row, "held", refunded[l])
      BY <1>1, <2>1, <2>2, <2>4, <2>5 DEF Saving
    <2> QED  BY <2>1, <2>2, <2>6, LegSaved
  <1> QED  BY <1>3, <1>4

LEMMA LegAdvanced ==
  ASSUME LegIInv, NEW p \in Procs, ScheduleLeg(p) \/ RepPickedUp(p) \/ RepDelivered(p)
  PROVE  LegIInv'
  <1>1. PICK pc \in {"schedule", "pickUp", "deliver"}, s \in {"scheduled", "picked_up", "delivered"} :
          /\ At(p, pc) /\ Saved(p, s) /\ UNCHANGED <<held, repPaid, refunded>>
          /\ pc = "deliver" <=> s = "delivered"
          /\ \/ call' = [call EXCEPT ![p] = NoCall]
             \/ call' = [call EXCEPT ![p] = [call[p] EXCEPT !.pc = "complete"]]
    <2>1. CASE ScheduleLeg(p)
      BY <2>1 DEF ScheduleLeg, End, GotoState
    <2>2. CASE RepPickedUp(p)
      BY <2>2 DEF RepPickedUp, End, GotoState
    <2>3. CASE RepDelivered(p)
      BY <2>3 DEF RepDelivered, Goto, GotoState
    <2> QED  BY <2>1, <2>2, <2>3
  <1>2. /\ call[p] # NoCall /\ call[p].pc = pc /\ call[p].leg \in Legs /\ call[p].row \in Leg
        /\ call[p] \in LegCall /\ call[p].row.status \in {"paid", "scheduled", "picked_up"}
        /\ held[call[p].leg] # "none"
    BY <1>1, LegSaver DEF Handlers, Escrowed
  <1> PICK l \in Legs : l = call[p].leg
    BY <1>2
  <1> DEFINE row == [call[p].row EXCEPT !.status = s]
             x   == [call[p] EXCEPT !.pc = "complete"]
  <1>3. /\ row \in Leg /\ row.status = s /\ row.transport = call[p].row.transport
        /\ row.total = call[p].row.total /\ row.parent = call[p].row.parent
    BY <1>2 DEF Leg, LegStatus
  <1>4. x \in LegCall /\ x.pc = "complete" /\ x.leg = l /\ x.row = call[p].row
    BY <1>2 DEF LegCall
  <1>5. /\ SaveLeg(p, row) /\ held' = [held EXCEPT ![l] = held[l]] /\ held' = held
        /\ held[l] \in {"none", "held", "refunded", "released"} /\ repPaid' = repPaid
        /\ refunded' = [refunded EXCEPT ![l] = refunded[l]] /\ refunded[l] \in Nat
        /\ refunded' = refunded
    BY <1>1 DEF Saved, LegIInv, LogisticsTypeOK
  <1>6. call' = [call EXCEPT ![p] = NoCall] \/ call' = [call EXCEPT ![p] = x]
    BY <1>1
  <1> HIDE DEF row, x
  <1>7. /\ call' \in [Procs -> LegCall \cup {NoCall}] /\ call'[p] \in {NoCall, x}
        /\ \A q \in Procs \ {p} : call'[q] = call[q]
    BY <1>4, <1>6, SlotWritten DEF LegIInv
  <1>8. leg'[l] = row
    BY <1>5 DEF SaveLeg, LegIInv, LogisticsTypeOK
  <1>9. leg[l] = call[p].row /\ l \notin legRaced => Accounts(l)'
    BY <1>2, <1>3, <1>5, <1>8 DEF LegIInv, LegOK, Accounts
  <1>10. Saving(p, l, row, held[l], refunded[l])
    BY <1>1, <1>2, <1>3, <1>4, <1>5, <1>7, <1>9 DEF Saving
  <1> QED  BY <1>3, <1>5, <1>10, LegSaved

LEMMA LegCancelled ==
  ASSUME LegIInv, NEW p \in Procs, CancelLeg(p)
  PROVE  LegIInv'
  <1>1. /\ call[p] # NoCall /\ call[p].pc = "cancel" /\ call[p].leg \in Legs /\ call[p].row \in Leg
        /\ call[p].row.status \in {"pending_payment", "paid", "scheduled"}
        /\ SameLeg(call[p].row, call[p].leg) /\ call[p].row.total \in Nat
    BY LegSaver DEF CancelLeg, Handlers
  <1> PICK l \in Legs : l = call[p].leg
    BY <1>1
  <1> DEFINE row   == [call[p].row EXCEPT !.status = "cancelled"]
             draft == call[p].row.status = "pending_payment"
             h     == IF draft THEN held[l] ELSE "refunded"
             n     == IF draft THEN refunded[l] ELSE refunded[l] + call[p].row.total
  <1>2. /\ row \in Leg /\ row.status = "cancelled" /\ row.transport = call[p].row.transport
        /\ row.total = call[p].row.total /\ row.parent = call[p].row.parent
    BY <1>1 DEF Leg, LegStatus
  <1>3. /\ held[l] \in {"none", "held", "refunded", "released"} /\ refunded[l] \in Nat
        /\ repPaid[l] \in Nat
    BY LegRows DEF LegIInv
  <1>4. /\ SaveLeg(p, row) /\ repPaid' = repPaid /\ call' = [call EXCEPT ![p] = NoCall]
        /\ held' = [held EXCEPT ![l] = h] /\ refunded' = [refunded EXCEPT ![l] = n]
    BY DEF CancelLeg, Saved, End, GotoState, LegIInv, LogisticsTypeOK
  <1>5. /\ h \in {"none", "held", "refunded", "released"} /\ n \in Nat
        /\ held[l] # "none" => h # "none"
        /\ n > refunded[l] => h # "none"
    BY <1>1, <1>3
  <1>6. leg'[l] = row /\ held'[l] = h /\ refunded'[l] = n
    BY <1>4 DEF SaveLeg, LegIInv, LogisticsTypeOK
  <1> HIDE DEF row
  <1>7. leg[l] = call[p].row /\ l \notin legRaced => Accounts(l)'
    BY <1>1, <1>2, <1>3, <1>4, <1>6 DEF LegIInv, LegOK, Accounts
  <1> HIDE DEF h, n, draft
  <1>8. /\ call' \in [Procs -> LegCall \cup {NoCall}] /\ call'[p] = NoCall
        /\ \A q \in Procs \ {p} : call'[q] = call[q]
    BY <1>4, SlotWritten DEF LegIInv
  <1>9. row.status \notin Escrowed
    BY <1>2 DEF Escrowed
  <1>10. Saving(p, l, row, h, n)
    <2>1. leg[l].status \in {"delivered", "completed"} => leg[l] # call[p].row
      BY <1>1
    <2>2. held' = [held EXCEPT ![l] = h] /\ refunded' = [refunded EXCEPT ![l] = n]
      BY <1>4
    <2>3. row.status # "none"
      BY <1>2
    <2> QED  BY <1>1, <1>2, <1>4, <1>5, <1>7, <1>8, <1>9, <2>1, <2>2, <2>3 DEF Saving
  <1> QED  BY <1>2, <1>5, <1>10, LegSaved

LEMMA LegSettled ==
  ASSUME LegIInv, NEW p \in Procs, SettleLeg(p)
  PROVE  LegIInv'
  <1>1. /\ call[p] # NoCall /\ call[p].pc = "settle" /\ call[p].leg \in Legs /\ call[p].row \in Leg
        /\ call[p].row.status = "delivered" /\ SameLeg(call[p].row, call[p].leg)
        /\ call[p].row.total - call[p].row.transport \in Nat /\ LegCopyOK(call[p])
    BY LegSaver, LegHandlers DEF SettleLeg, Completes
  <1> PICK l \in Legs : l = call[p].leg
    BY <1>1
  <1> DEFINE n   == call[p].row.total - call[p].row.transport
             row == [call[p].row EXCEPT !.status = "completed", !.platform = n]
  <1>2. /\ row \in Leg /\ row.status = "completed" /\ row.transport = call[p].row.transport
        /\ row.total = call[p].row.total /\ row.parent = call[p].row.parent
        /\ row.platform = row.total - row.transport
    BY <1>1 DEF Leg, LegStatus
  <1>3. /\ SaveLeg(p, row) /\ repPaid' = repPaid /\ call' = [call EXCEPT ![p] = NoCall]
        /\ held' = [held EXCEPT ![l] = "released"] /\ refunded' = [refunded EXCEPT ![l] = refunded[l]]
        /\ refunded[l] \in Nat /\ refunded' = refunded
    BY DEF SettleLeg, Completes, End, GotoState, LegIInv, LogisticsTypeOK
  <1> HIDE DEF row
  <1>4. leg'[l] = row /\ held'[l] = "released"
    BY <1>3 DEF SaveLeg, LegIInv, LogisticsTypeOK
  <1>5. leg[l] = call[p].row /\ l \notin legRaced => Accounts(l)'
    BY <1>1, <1>2, <1>3, <1>4 DEF LegIInv, LegOK, Accounts, LegCopyOK
  <1>6. /\ call' \in [Procs -> LegCall \cup {NoCall}] /\ call'[p] = NoCall
        /\ \A q \in Procs \ {p} : call'[q] = call[q]
    BY <1>3, SlotWritten DEF LegIInv
  <1>7. Saving(p, l, row, "released", refunded[l])
    BY <1>1, <1>2, <1>3, <1>5, <1>6 DEF Saving
  <1> QED  BY <1>2, <1>3, <1>7, LegSaved

LEMMA LegNextIInv == LegIInv /\ [LogisticsNext]_<<logisticsVars, requestVars>> => LegIInv'
  <1> SUFFICES ASSUME LegIInv, [LogisticsNext]_<<logisticsVars, requestVars>> PROVE LegIInv'
    OBVIOUS
  <1>1. ASSUME NEW l \in Legs, NEW flow \in {"delivery", "collect"}, NEW r \in BOOLEAN,
               NEW v \in BOOLEAN, NEW fee \in Fees, CreateLeg(l, flow, r, v, fee)
        PROVE  LegIInv'
    BY <1>1, LegCreated, LogisticsConstantsOK DEF CreateLeg, OneStep, LegIInv, LogisticsTypeOK
  <1>2. ASSUME NEW p \in Procs, NEW l \in Legs, MarkReadyToDeliver(p, l)
        PROVE  LegIInv'
    BY <1>2, LegLoaded DEF MarkReadyToDeliver
  <1>3. ASSUME NEW p \in Procs, NEW l \in Legs, NEW pc \in DOMAIN Handlers, Handle(p, l, pc)
        PROVE  LegIInv'
    <2>1. leg[l].status # "none"
      BY <1>3 DEF Handle, Handlers
    <2> QED  BY <1>3, <2>1, LegLoaded DEF Handle
  <1>4. ASSUME NEW p \in Procs, Dies(p), UNCHANGED logisticsVars
        PROVE  LegIInv'
    BY <1>4, LegEnds DEF Dies
  <1>5. CASE UNCHANGED <<logisticsVars, requestVars>>
    BY <1>5, LegMoves DEF requestVars, LegIInv
  <1> QED
    BY <1>1, <1>2, <1>3, <1>4, <1>5, LegPaid, LegAdvanced, LegCancelled, LegReadAgain, LegPaysRep,
       LegSettled, LegSpawned
    DEF LogisticsNext, LegStep

(* Whatever requests and crons overlap and die: nothing leaves an escrow   *)
(* that was never filled; and of a leg saved only from current copies and  *)
(* paid for once, a completed one is split between rep and platform        *)
(* without rest, a cancelled one is refunded in full or was never charged, *)
(* and a round trip has one delivery.                                      *)
THEOREM LegMoney == LogisticsSpec => []LegMoneyAddsUp
  <1>1. LegIInv => LegMoneyAddsUp
    <2> SUFFICES ASSUME LegIInv, NEW l \in Legs
                 PROVE  /\ repPaid[l] + refunded[l] > 0 => held[l] # "none"
                        /\ l \notin legRaced =>
                             /\ CASE leg[l].status = "completed" ->
                                        /\ held[l] = "released" /\ refunded[l] = 0
                                        /\ leg[l].total = repPaid[l] + leg[l].platform
                                  [] leg[l].status = "cancelled" ->
                                        /\ repPaid[l] = 0 /\ held[l] \in {"none", "refunded"}
                                        /\ refunded[l] = IF held[l] = "none" THEN 0 ELSE leg[l].total
                                  [] OTHER ->
                                        /\ refunded[l] = 0 /\ held[l] \in {"none", "held"}
                                        /\ leg[l].status # "delivered" => repPaid[l] = 0
                             /\ Cardinality({m \in Legs : leg[m].parent = l}) <= 1
      BY DEF LegMoneyAddsUp
    <2>1. /\ leg[l].total \in Nat /\ leg[l].transport \in Nat /\ leg[l].platform \in Nat
          /\ repPaid[l] \in Nat /\ leg[l].status \in LegStatus /\ LegOK(l)
      BY LegRows DEF LegIInv
    <2>2. ASSUME l \notin legRaced
          PROVE  Cardinality({m \in Legs : leg[m].parent = l}) <= 1
      <3> DEFINE S == {m \in Legs : leg[m].parent = l}
      <3>1. \A m, n \in S : m = n
        BY <2>2 DEF LegIInv, OneDelivery
      <3> HIDE DEF S
      <3>2. CASE S = {}
        <4>1. Cardinality(S) = 0
          BY <3>2, FS_EmptySet
        <4> QED  BY <4>1 DEF S
      <3>3. CASE S # {}
        <4>1. PICK m \in S : TRUE
          BY <3>3
        <4>2. S = {m}
          BY <3>1, <4>1
        <4>3. Cardinality(S) = 1
          BY <4>2, FS_Singleton
        <4> QED  BY <4>3 DEF S
      <3> QED  BY <3>2, <3>3
    <2>3. ASSUME l \notin legRaced
          PROVE  CASE leg[l].status = "completed" ->
                        /\ held[l] = "released" /\ refunded[l] = 0
                        /\ leg[l].total = repPaid[l] + leg[l].platform
                   [] leg[l].status = "cancelled" ->
                        /\ repPaid[l] = 0 /\ held[l] \in {"none", "refunded"}
                        /\ refunded[l] = IF held[l] = "none" THEN 0 ELSE leg[l].total
                   [] OTHER ->
                        /\ refunded[l] = 0 /\ held[l] \in {"none", "held"}
                        /\ leg[l].status # "delivered" => repPaid[l] = 0
      <3>1. Accounts(l)
        BY <2>1, <2>3 DEF LegOK
      <3>2. CASE leg[l].status = "completed"
        BY <2>1, <3>1, <3>2 DEF Accounts
      <3>3. CASE leg[l].status = "cancelled"
        BY <2>1, <3>1, <3>3 DEF Accounts
      <3>4. CASE leg[l].status \notin {"completed", "cancelled"}
        BY <2>1, <3>1, <3>4 DEF Accounts, LegStatus
      <3> QED  BY <3>2, <3>3, <3>4
    <2> QED  BY <2>1, <2>2, <2>3 DEF LegOK
  <1> QED  BY <1>1, LegInitIInv, LegNextIInv, PTL DEF LogisticsSpec

=============================================================================
