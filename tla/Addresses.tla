------------------------------ MODULE Addresses ------------------------------
(***************************************************************************)
(* A customer's addresses (users.service.ts): one of them the default.     *)
(* Every change first clears the other defaults, or reads the row, and     *)
(* then writes the row, if the handler gets there; entangled says that the *)
(* rows changed in between.                                                *)
(***************************************************************************)
EXTENDS Requests

CONSTANT AddressIds

VARIABLES
  address,    \* addresses of the customer: "none", "plain" or "default"
  entangled

addressVars == <<address, entangled>>

AddressesInit == address = [a \in AddressIds |-> "none"] /\ entangled = FALSE

Stored  == {a \in AddressIds : address[a] # "none"}
Cleared == [a \in AddressIds |-> IF a \in Stored THEN "plain" ELSE "none"]
As(isDefault) == IF isDefault THEN "default" ELSE "plain"

(* rows is the table after the first statement, value what a gets next.    *)
FirstStatement(p, rows, a, value) ==
  /\ address' = rows
  /\ Begin(p, [pc |-> "address", id |-> a, value |-> value, seen |-> rows])
  /\ UNCHANGED entangled

(* Mutant of AddAddress: a new default leaves the old one.                 *)
AddSecondDefault(p, a, wanted) ==
  /\ address[a] = "none" /\ \A q \in InFlight("address") : call[q].id # a
  /\ FirstStatement(p, address, a, wanted)

(* addAddress: asked to be the default, or the first one.                  *)
AddAddress(p, a, wanted) ==
  /\ address[a] = "none" /\ \A q \in InFlight("address") : call[q].id # a
  /\ FirstStatement(p, IF wanted = "default" THEN Cleared ELSE address, a,
                    IF wanted = "unsaid" THEN As(Stored = {}) ELSE wanted)

(* updateAddress: the row as read, but for what was asked.                 *)
UpdateAddress(p, a, wanted) ==
  /\ a \in Stored
  /\ FirstStatement(p, IF wanted = "default" THEN Cleared ELSE address, a,
                    IF wanted = "unsaid" THEN address[a] ELSE wanted)

SetDefaultAddress(p, a) == a \in Stored /\ FirstStatement(p, Cleared, a, "default")

(* deleteAddress: the most recent one left becomes the default.            *)
DeleteAddress(p, a) ==
  /\ a \in Stored
  /\ LET rest == [address EXCEPT ![a] = "none"] IN
     IF address[a] = "default" /\ Stored # {a}
     THEN \E b \in Stored \ {a} : FirstStatement(p, rest, b, "default")
     ELSE address' = rest /\ OneStep /\ UNCHANGED entangled

WriteAddress(p) ==
  /\ At(p, "address")
  /\ address' = [address EXCEPT ![call[p].id] = call[p].value]
  /\ entangled' = (entangled \/ address # call[p].seen)
  /\ End(p)

AddressesNext ==
  \E p \in Procs :
    \/ \E a \in AddressIds :
         \/ \E wanted \in {"default", "plain", "unsaid"} : AddAddress(p, a, wanted) \/ UpdateAddress(p, a, wanted)
         \/ SetDefaultAddress(p, a) \/ DeleteAddress(p, a)
    \/ WriteAddress(p)
    \/ Dies(p) /\ UNCHANGED addressVars

AddressesSpec == RequestsInit /\ AddressesInit /\ [][AddressesNext]_<<addressVars, requestVars>>

AddressesTypeOK == address \in [AddressIds -> {"none", "plain", "default"}] /\ entangled \in BOOLEAN

(* An order is collected at one address: a customer has at most one default *)
(* address, unless two changes overlapped.                                  *)
OneDefaultAddress ==
  ~entangled => \A a, b \in AddressIds : address[a] = "default" /\ address[b] = "default" => a = b
==============================================================================
