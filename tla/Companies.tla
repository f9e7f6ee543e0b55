------------------------------ MODULE Companies ------------------------------
(***************************************************************************)
(* Companies (companies.service.ts): invitation and activation, admins,    *)
(* benefit tiers and employees.  The activation link is a one-time token   *)
(* in Redis; companyOdd remembers the companies the owners of which        *)
(* changed while an admin was being demoted or removed.                    *)
(***************************************************************************)
EXTENDS Requests

CONSTANTS
  CompanyIds, Persons,
  OwnerOf,      \* OwnerOf[c]: the person the company's email belongs to
  TierIds,
  Rules         \* what a tier grants

VARIABLES
  company,      \* companies: activation, active, wallet frozen
  inviteToken,  \* companies with a live token in Redis
  account,      \* users: "none", "active", "suspended" or "pending"
  companyRoles, \* COMPANY_OWNER and COMPANY_ADMIN among user.roles
  companyAdmin, \* company_admins: "none", "ADMIN" or "OWNER"
  tier,         \* tiers: company, rule in force, staged rule
  employee,     \* company_employees: status and tier
  companyOdd

companyVars == <<company, inviteToken, account, companyRoles, companyAdmin, tier, employee,
                 companyOdd>>

NoTier == "noTier"
NoRule == "noRule"
Nowhere == "nowhere"
Company == [activation : {"none", "pending", "active"}, active : BOOLEAN, frozen : BOOLEAN]
Tier == [company : CompanyIds \cup {Nowhere}, rule : Rules \cup {NoRule}, staged : Rules \cup {NoRule}]
Employee == [status : {"none", "active", "inactive"}, tier : TierIds \cup {NoTier}]

(* An activation in flight, and a change of an admin: the role to be saved *)
(* and the row of the user as it was read, roles and status.               *)
AccountStatus == {"none", "active", "suspended", "pending"}
CompanyRoles == SUBSET {"COMPANY_OWNER", "COMPANY_ADMIN"}
Activation == [pc : {"consume", "owner", "admin", "activate"}, company : CompanyIds]
AdminCall  == {x \in [pc : {"owned", "saveAdmin", "removeAdmin", "scrub", "roles"},
                     op : {"grant", "change", "demote", "remove"},
                     company : CompanyIds, user : Persons, role : {"ADMIN", "OWNER"},
                     roles : CompanyRoles, status : AccountStatus] :
                 x.pc \in {"removeAdmin", "scrub"} => x.op = "remove" /\ x.role = "ADMIN"}
CompanyCall == Activation \cup AdminCall

ASSUME CompanyConstantsOK ==
  /\ OwnerOf \in [CompanyIds -> Persons] /\ IsFiniteSet(Persons)
  /\ Nowhere \notin CompanyIds /\ NoCall \notin CompanyCall

CompaniesInit ==
  /\ \E old \in SUBSET CompanyIds :    \* some companies are active already
       /\ company = [c \in CompanyIds |->
            [activation |-> IF c \in old THEN "active" ELSE "none", active |-> TRUE, frozen |-> FALSE]]
       /\ companyAdmin = [c \in CompanyIds |-> [u \in Persons |->
                             IF c \in old /\ u = OwnerOf[c] THEN "OWNER" ELSE "none"]]
       /\ companyRoles = [u \in Persons |-> {r \in {"COMPANY_OWNER"} : \E c \in old : OwnerOf[c] = u}]
       /\ account \in [Persons -> {"none", "active"}]
       /\ \A c \in old : account[OwnerOf[c]] = "active"
  /\ inviteToken = {} /\ companyOdd = {}
  /\ tier = [t \in TierIds |-> [company |-> Nowhere, rule |-> NoRule, staged |-> NoRule]]
  /\ employee = [c \in CompanyIds |-> [u \in Persons |-> [status |-> "none", tier |-> NoTier]]]

Owners(admins, c) == {u \in Persons : admins[c][u] = "OWNER"}
OwnsACompany(admins, u) == \E c \in CompanyIds : admins[c][u] = "OWNER"
OnTier(t) == {u \in Persons : \E c \in CompanyIds :
                employee[c][u].status = "active" /\ employee[c][u].tier = t}
Exists(c) == company[c].activation # "none"

(* x is about to take an ownership away, or to save a row it has read as   *)
(* an admin's.                                                             *)
Leaves(x, c) ==
  /\ x # NoCall /\ x.company = c /\ x.pc \in {"owned", "roles", "saveAdmin", "removeAdmin"}
  /\ x.role = "ADMIN" /\ x.op # "grant" /\ (x.pc = "roles" => x.op = "demote")

(* The companies the owners of which change meanwhile.                     *)
Overlapping(c) == companyOdd \cup {b \in {c} : \E q \in Procs : Leaves(call[q], b)}

(* assertCompanyAccess and assertOwnerAccess; "staff": a platform admin.   *)
MayAdminister(c, caller) == caller \in {"staff"} \cup {u \in Persons : companyAdmin[c][u] # "none"}
MayOwn(c, caller)        == caller \in {"staff"} \cup Owners(companyAdmin, c)
CompanyCallers           == Persons \cup {"staff"}

-----------------------------------------------------------------------------
(* createCompany: one company per email; the invitation is stored after    *)
(* the company, or not at all.                                             *)
CreateCompany(c) ==
  /\ OneStep
  /\ ~Exists(c) /\ \A b \in CompanyIds : Exists(b) => OwnerOf[b] # OwnerOf[c]
  /\ company' = [company EXCEPT ![c].activation = "pending"]
  /\ inviteToken' \in {inviteToken, inviteToken \cup {c}}
  /\ UNCHANGED <<account, companyRoles, companyAdmin, tier, employee, companyOdd>>

InviteExpires(c) ==
  /\ c \in inviteToken
  /\ inviteToken' = inviteToken \ {c}
  /\ UNCHANGED <<company, account, companyRoles, companyAdmin, tier, employee, companyOdd, requestVars>>

(* activateCompany reads the token, then deletes it and goes on: two       *)
(* requests may both have read it, and there is no way to issue another.   *)
ReadInvite(p, c) ==
  /\ c \in inviteToken
  /\ Begin(p, [pc |-> "consume", company |-> c])
  /\ UNCHANGED companyVars

(* The token is gone, also when the company is active, the owner's account *)
(* suspended, or the phone of a new account somebody else's.               *)
ConsumeInvite(p) ==
  /\ At(p, "consume")
  /\ LET c == call[p].company
         u == OwnerOf[c]
     IN /\ inviteToken' = inviteToken \ {c}
        /\ \/ company[c].activation = "pending" /\ account[u] # "suspended" /\ Goto(p, "owner")
           \/ (company[c].activation = "active" \/ account[u] \in {"none", "suspended"}) /\ End(p)
  /\ UNCHANGED <<company, account, companyRoles, companyAdmin, tier, employee, companyOdd>>

(* Then the owner's account with the role ...                              *)
GrantOwner(p) ==
  /\ At(p, "owner")
  /\ LET u == OwnerOf[call[p].company]
     IN /\ account' = [account EXCEPT ![u] = IF @ = "none" THEN "active" ELSE @]
        /\ companyRoles' = [companyRoles EXCEPT ![u] = @ \cup {"COMPANY_OWNER"}]
  /\ Goto(p, "admin")
  /\ UNCHANGED <<company, inviteToken, companyAdmin, tier, employee, companyOdd>>

(* ... the membership ...                                                  *)
SaveOwner(p) ==
  /\ At(p, "admin")
  /\ companyAdmin' = [companyAdmin EXCEPT ![call[p].company][OwnerOf[call[p].company]] = "OWNER"]
  /\ companyOdd' = Overlapping(call[p].company)
  /\ Goto(p, "activate")
  /\ UNCHANGED <<company, inviteToken, account, companyRoles, tier, employee>>

(* ... and the company are saved, one after the other.                     *)
ActivateCompany(p) ==
  /\ At(p, "activate")
  /\ company' = [company EXCEPT ![call[p].company].activation = "active"]
  /\ End(p)
  /\ UNCHANGED <<inviteToken, account, companyRoles, companyAdmin, tier, employee, companyOdd>>

(* updateCompanyStatus takes the wallet along; a failing freeze is logged. *)
UpdateCompanyStatus(c, active) ==
  /\ OneStep
  /\ Exists(c)
  /\ \E done \in BOOLEAN :
       company' = [company EXCEPT ![c].active = active,
                                  ![c].frozen = IF done THEN ~active ELSE @]
  /\ UNCHANGED <<inviteToken, account, companyRoles, companyAdmin, tier, employee, companyOdd>>

SuspendAccount(u) ==
  /\ OneStep
  /\ account[u] = "active"
  /\ account' = [account EXCEPT ![u] = "suspended"]
  /\ UNCHANGED <<company, inviteToken, companyRoles, companyAdmin, tier, employee, companyOdd>>

-----------------------------------------------------------------------------
CreateTier(c, t, rule, caller) ==
  /\ OneStep
  /\ Exists(c) /\ MayAdminister(c, caller) /\ tier[t].company = Nowhere
  /\ tier' = [tier EXCEPT ![t] = [company |-> c, rule |-> rule, staged |-> NoRule]]
  /\ UNCHANGED <<company, inviteToken, account, companyRoles, companyAdmin, employee, companyOdd>>

(* updateTier: at once without active employees on the tier, else staged.  *)
UpdateTier(c, t, rule, caller) ==
  /\ OneStep
  /\ tier[t].company = c /\ MayAdminister(c, caller)
  /\ tier' = IF OnTier(t) = {} THEN [tier EXCEPT ![t].rule = rule]
                               ELSE [tier EXCEPT ![t].staged = rule]
  /\ UNCHANGED <<company, inviteToken, account, companyRoles, companyAdmin, employee, companyOdd>>

(* deleteTier: the employees' tier_id is set to null.                      *)
DeleteTier(c, t, caller) ==
  /\ OneStep
  /\ tier[t].company = c /\ MayAdminister(c, caller)
  /\ tier' = [tier EXCEPT ![t] = [company |-> Nowhere, rule |-> NoRule, staged |-> NoRule]]
  /\ employee' = [b \in CompanyIds |-> [u \in Persons |->
                    IF employee[b][u].tier = t THEN [employee[b][u] EXCEPT !.tier = NoTier]
                                               ELSE employee[b][u]]]
  /\ UNCHANGED <<company, inviteToken, account, companyRoles, companyAdmin, companyOdd>>

(* addEmployee: also of somebody who left; a stranger gets an account.     *)
AddEmployee(c, u, t, caller) ==
  /\ OneStep
  /\ company[c].activation = "active" /\ MayAdminister(c, caller)
  /\ t # NoTier => tier[t].company = c
  /\ employee[c][u].status # "active"
  /\ employee' = [employee EXCEPT ![c][u] = [status |-> "active", tier |-> t]]
  /\ account' = [account EXCEPT ![u] = IF @ = "none" THEN "pending" ELSE @]
  /\ UNCHANGED <<company, inviteToken, companyRoles, companyAdmin, tier, companyOdd>>

RemoveEmployee(c, u, caller) ==
  /\ OneStep
  /\ employee[c][u].status # "none" /\ MayAdminister(c, caller)
  /\ employee' = [employee EXCEPT ![c][u].status = "inactive"]
  /\ UNCHANGED <<company, inviteToken, account, companyRoles, companyAdmin, tier, companyOdd>>

ReassignTier(c, u, t, caller) ==
  /\ OneStep
  /\ employee[c][u].status # "none" /\ MayAdminister(c, caller)
  /\ t # NoTier => tier[t].company = c
  /\ employee' = [employee EXCEPT ![c][u].tier = t]
  /\ UNCHANGED <<company, inviteToken, account, companyRoles, companyAdmin, tier, companyOdd>>

-----------------------------------------------------------------------------
(* addAdmin: OWNER only by an owner.  It reads the user's row, then the    *)
(* membership, and lets an owner be made an admin when there is another.   *)
BeginAdmin(p, pc, op, c, u, role) ==
  /\ Begin(p, [pc |-> pc, op |-> op, company |-> c, user |-> u, role |-> role,
               roles |-> companyRoles[u], status |-> account[u]])
  /\ companyOdd' = IF op # "grant" /\ role = "ADMIN" THEN Overlapping(c) ELSE companyOdd
  /\ UNCHANGED <<company, inviteToken, account, companyRoles, companyAdmin, tier, employee>>

MayAdd(c, u, role, caller) ==
  /\ Exists(c) /\ account[u] # "none"
  /\ MayAdminister(c, caller) /\ (role = "OWNER" => MayOwn(c, caller))

(* Mutant of AddAdmin: the last owner can be made an admin.                *)
AddAdminUnchecked(p, c, u, role, caller) ==
  /\ MayAdd(c, u, role, caller)
  /\ BeginAdmin(p, "saveAdmin", IF companyAdmin[c][u] = "none" THEN "grant" ELSE "change", c, u, role)

AddAdmin(p, c, u, role, caller) ==
  /\ MayAdd(c, u, role, caller)
  /\ \/ companyAdmin[c][u] = "none" /\ BeginAdmin(p, "saveAdmin", "grant", c, u, role)
     \/ /\ companyAdmin[c][u] = "OWNER" /\ role = "ADMIN"
        /\ Cardinality(Owners(companyAdmin, c)) > 1
        /\ BeginAdmin(p, "owned", "demote", c, u, role)
     \/ /\ companyAdmin[c][u] = "ADMIN" \/ (companyAdmin[c][u] = "OWNER" /\ role = "OWNER")
        /\ BeginAdmin(p, "saveAdmin", "change", c, u, role)

(* A demotion counts the ownerships before its row is saved: the user is   *)
(* an owner still, unless somebody else took the ownership away.           *)
LookAtOwnerships(p) ==
  /\ At(p, "owned")
  /\ IF ~OwnsACompany(companyAdmin, call[p].user) /\ "COMPANY_OWNER" \in call[p].roles
     THEN GotoState(p, [call[p] EXCEPT !.pc = "roles", !.roles = @ \ {"COMPANY_OWNER"}])
     ELSE Goto(p, "saveAdmin")
  /\ UNCHANGED companyVars

(* The user's row is saved as it was read but for the roles.               *)
SaveRoles(p) ==
  /\ At(p, "roles")
  /\ companyRoles' = [companyRoles EXCEPT ![call[p].user] = call[p].roles]
  /\ account' = [account EXCEPT ![call[p].user] = call[p].status]
  /\ IF call[p].op = "demote" THEN Goto(p, "saveAdmin") ELSE End(p)
  /\ UNCHANGED <<company, inviteToken, companyAdmin, tier, employee, companyOdd>>

(* The membership is saved; a changed row that was removed meanwhile comes *)
(* back, a second new one breaks the unique (companyId, userId).  Then a   *)
(* new admin gets the role; an upgraded one does not.                      *)
SaveAdmin(p) ==
  /\ At(p, "saveAdmin")
  /\ LET c == call[p].company
         u == call[p].user
         new == {IF call[p].role = "OWNER" THEN "COMPANY_OWNER" ELSE "COMPANY_ADMIN"}
     IN IF call[p].op = "grant" /\ companyAdmin[c][u] # "none"
        THEN companyAdmin' = companyAdmin /\ End(p)
        ELSE /\ companyAdmin' = [companyAdmin EXCEPT ![c][u] = call[p].role]
             /\ IF call[p].op = "grant" /\ ~(new \subseteq call[p].roles)
                THEN GotoState(p, [call[p] EXCEPT !.pc = "roles", !.roles = @ \cup new])
                ELSE End(p)
  /\ UNCHANGED <<company, inviteToken, account, companyRoles, tier, employee, companyOdd>>

(* removeAdmin: the checks, among them that an owner remains ...           *)
CheckRemoval(p, c, u, caller) ==
  /\ companyAdmin[c][u] # "none" /\ MayAdminister(c, caller)
  /\ companyAdmin[c][u] = "OWNER" =>
       MayOwn(c, caller) /\ Cardinality(Owners(companyAdmin, c)) > 1
  /\ BeginAdmin(p, "removeAdmin", "remove", c, u, "ADMIN")

(* ... the row is removed ...                                              *)
RemoveAdmin(p) ==
  /\ At(p, "removeAdmin")
  /\ companyAdmin' = [companyAdmin EXCEPT ![call[p].company][call[p].user] = "none"]
  /\ Goto(p, "scrub")
  /\ UNCHANGED <<company, inviteToken, account, companyRoles, tier, employee, companyOdd>>

(* ... and the user is read, to lose the roles no membership needs.        *)
ScrubRoles(p) ==
  /\ At(p, "scrub")
  /\ LET u == call[p].user
         kept == {r \in companyRoles[u] :
                    /\ r = "COMPANY_OWNER" => OwnsACompany(companyAdmin, u)
                    /\ r = "COMPANY_ADMIN" => \E b \in CompanyIds : companyAdmin[b][u] # "none"}
     IN GotoState(p, [call[p] EXCEPT !.pc = "roles", !.roles = kept, !.status = account[u]])
  /\ UNCHANGED companyVars

CompaniesNext ==
  \/ \E c \in CompanyIds : CreateCompany(c) \/ InviteExpires(c)
                           \/ \E b \in BOOLEAN : UpdateCompanyStatus(c, b)
  \/ \E u \in Persons : SuspendAccount(u)
  \/ \E c \in CompanyIds, caller \in CompanyCallers :
       \/ \E t \in TierIds : \/ DeleteTier(c, t, caller)
                             \/ \E r \in Rules : CreateTier(c, t, r, caller) \/ UpdateTier(c, t, r, caller)
       \/ \E u \in Persons :
            \/ \E t \in TierIds \cup {NoTier} :
                 AddEmployee(c, u, t, caller) \/ ReassignTier(c, u, t, caller)
            \/ RemoveEmployee(c, u, caller)
            \/ \E p \in Procs : \/ \E r \in {"ADMIN", "OWNER"} : AddAdmin(p, c, u, r, caller)
                                \/ CheckRemoval(p, c, u, caller)
  \/ \E p \in Procs :
       \/ LookAtOwnerships(p) \/ SaveRoles(p) \/ SaveAdmin(p) \/ RemoveAdmin(p) \/ ScrubRoles(p)
       \/ ConsumeInvite(p) \/ GrantOwner(p) \/ SaveOwner(p) \/ ActivateCompany(p)
       \/ \E c \in CompanyIds : ReadInvite(p, c)
       \/ Dies(p) /\ UNCHANGED companyVars

CompaniesSpec == RequestsInit /\ CompaniesInit /\ [][CompaniesNext]_<<companyVars, requestVars>>

-----------------------------------------------------------------------------
CompaniesTypeOK ==
  /\ company \in [CompanyIds -> Company]
  /\ inviteToken \subseteq CompanyIds /\ companyOdd \subseteq CompanyIds
  /\ account \in [Persons -> AccountStatus]
  /\ companyRoles \in [Persons -> CompanyRoles]
  /\ companyAdmin \in [CompanyIds -> [Persons -> {"none", "ADMIN", "OWNER"}]]
  /\ tier \in [TierIds -> Tier]
  /\ employee \in [CompanyIds -> [Persons -> Employee]]

(* "Cannot remove the last owner - company would be unmanageable": an      *)
(* activated company has an owner, whoever leaves, is demoted or activates *)
(* it twice, wherever a handler dies, unless its owners change, or another *)
(* of them is on the way out, between a demotion's or removal's count and  *)
(* its save; and it pays for its own tiers only.                           *)
CompanyHasOwner ==
  \A c \in CompanyIds :
    /\ c \notin companyOdd /\ company[c].activation = "active" => Owners(companyAdmin, c) # {}
    /\ \A u \in Persons : employee[c][u].tier # NoTier => tier[employee[c][u].tier].company = c
==============================================================================
