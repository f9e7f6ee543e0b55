------------------------------- MODULE Vaults -------------------------------
(***************************************************************************)
(* The vaults WashPoints are issued from (vaults.service.ts).  A vault has *)
(* a fixed size; issuing points raises usedPoints under a row lock.  The   *)
(* admin handlers, and the promotion and auto-creation that a debit leaves *)
(* running after its response, read a vault, let others run and save the   *)
(* copy: each is a job w \in Workers with the row it holds.                *)
(***************************************************************************)
EXTENDS Integers, FiniteSets

CONSTANTS
  VaultIds,       \* numbers, in the order of (sequence_order, created_at)
  InitialVaults,  \* the vaults there are to begin with
  VaultSizes,     \* sizes an admin may give a vault
  NextVault,      \* NextVault[v]: vaults.next_vault_id, 0 if null
  AutoThreshold,  \* auto_create_threshold; -1 without auto_create_on_threshold
  Workers,        \* bound: slots for vault jobs
  NoJob,          \* a free slot
  AdminOps,       \* vault operations admins may call
  MaxVaultOps     \* bound: admin operations on vaults

VARIABLES
  vault,     \* vaults, by id
  job,       \* jobs in flight
  vaultOps,  \* admin operations started so far
  given,     \* points a vault has given and not got back
  outdated   \* vaults whose count of used points an old copy overwrote

vaultVars == <<vault, job, vaultOps, given, outdated>>

VaultRow == [ status : {"absent", "active", "exhausted", "deactivated"},
              total : Nat, used : Nat, isDefault : BOOLEAN ]

Absent == [status |-> "absent", total |-> 0, used |-> 0, isDefault |-> FALSE]
New(total, isDefault) ==
  [status |-> "active", total |-> total, used |-> 0, isDefault |-> isDefault]

Job == [ pc : {"unset", "save", "retire", "promote", "autoCreate"},
         id : VaultIds, row : VaultRow ]

ASSUME VaultConstantsOK ==
  /\ VaultIds \subseteq Nat \ {0} /\ VaultSizes \subseteq Nat \ {0}
  /\ InitialVaults \in [VaultIds -> {Absent} \cup {New(n, d) : n \in VaultSizes, d \in BOOLEAN}]
  /\ NextVault \in [VaultIds -> VaultIds \cup {0}]
  /\ AutoThreshold \in Int /\ MaxVaultOps \in Nat
  /\ NoJob \notin Job

VaultsInit ==
  /\ vault = InitialVaults
  /\ job = [w \in Workers |-> NoJob]
  /\ vaultOps = 0
  /\ given = [v \in VaultIds |-> 0] /\ outdated = {}

InState(s) == {v \in VaultIds : vault[v].status = s}
Existing   == VaultIds \ InState("absent")
First(S)   == CHOOSE v \in S : \A u \in S : v <= u

(* getActiveDefaultVault(): an active default, else the first active one.  *)
DefaultVault(v) ==
  /\ v \in InState("active")
  /\ \/ vault[v].isDefault
     \/ /\ \A u \in InState("active") : ~vault[u].isDefault
        /\ v = First(InState("active"))

-----------------------------------------------------------------------------
(* Jobs.                                                                   *)

JobAt(w, pc) == job[w] # NoJob /\ job[w].pc = pc
SetJob(w, pc, id, row) == job' = [job EXCEPT ![w] = [pc |-> pc, id |-> id, row |-> row]]
EndJob(w) == job' = [job EXCEPT ![w] = NoJob]

StartAdmin(w, op) ==
  /\ op \in AdminOps /\ job[w] = NoJob /\ vaultOps < MaxVaultOps
  /\ vaultOps' = vaultOps + 1
  /\ UNCHANGED <<vault, given, outdated>>

(* createVault: a new default first takes the mark from every other vault. *)
(* A vault nobody else is inserting.                                       *)
CreateVault(w, v, size, isDefault) ==
  /\ StartAdmin(w, "create")
  /\ v \in InState("absent")
  /\ \A u \in Workers : job[u] # NoJob => job[u].id # v
  /\ SetJob(w, IF isDefault THEN "unset" ELSE "save", v, New(size, isDefault))

(* setDefault: the row read is the row saved after the unset.              *)
SetDefault(w, v) ==
  /\ StartAdmin(w, "setDefault")
  /\ v \in InState("active")
  /\ SetJob(w, "unset", v, [vault[v] EXCEPT !.isDefault = TRUE])

(* deactivateVault: refused for the default when no other vault is active. *)
DeactivateVault(w, v) ==
  /\ StartAdmin(w, "deactivate")
  /\ v \in Existing \ InState("deactivated")
  /\ vault[v].isDefault => InState("active") \ {v} # {}
  /\ SetJob(w, IF vault[v].isDefault THEN "retire" ELSE "save", v,
            [vault[v] EXCEPT !.status = "deactivated", !.isDefault = FALSE])

(* update({isDefault: true}, {isDefault: false}).                          *)
UnsetDefaults(w) ==
  /\ JobAt(w, "unset")
  /\ vault' = [v \in VaultIds |-> [vault[v] EXCEPT !.isDefault = FALSE]]
  /\ SetJob(w, "save", job[w].id, job[w].row)
  /\ UNCHANGED <<vaultOps, given, outdated>>

(* vaultRepo.save(copy) writes every column; a deactivated default leaves  *)
(* activateNextInSequence running.                                         *)
SaveVault(w) ==
  /\ JobAt(w, "save") \/ JobAt(w, "retire")
  /\ vault' = [vault EXCEPT ![job[w].id] = job[w].row]
  /\ IF job[w].pc = "retire" THEN SetJob(w, "promote", job[w].id, job[w].row)
                             ELSE EndJob(w)
  /\ outdated' = outdated \cup {v \in {job[w].id} : vault[v].used # job[w].row.used}
  /\ UNCHANGED <<vaultOps, given>>

(* activateNextInSequence: the designated vault if it is active, else the  *)
(* first other active vault, else nothing.                                 *)
Promote(w) ==
  /\ JobAt(w, "promote")
  /\ LET spent  == job[w].id
         others == InState("active") \ {spent}
         next   == IF NextVault[spent] \in InState("active") THEN {NextVault[spent]}
                   ELSE {v \in others : \A u \in others : v <= u}
     IN \/ next = {} /\ EndJob(w)
        \/ \E v \in next : SetJob(w, "unset", v, [vault[v] EXCEPT !.isDefault = TRUE])
  /\ UNCHANGED <<vault, vaultOps, given, outdated>>

(* triggerAutoCreate: a copy of the vault behind every other one; with no  *)
(* id left (bound) the job ends.                                           *)
AutoCreateVault(w) ==
  /\ JobAt(w, "autoCreate")
  /\ LET taken == Existing \cup {job[u].id : u \in {u \in Workers : job[u] # NoJob}}
         fresh == {v \in VaultIds : \A u \in taken : u < v}
     IN \/ fresh = {} /\ UNCHANGED vault
        \/ \E v \in fresh : /\ \A u \in fresh : v <= u
                             /\ vault' = [vault EXCEPT ![v] = New(job[w].row.total, FALSE)]
  /\ EndJob(w)
  /\ UNCHANGED <<vaultOps, given, outdated>>

(* The process stops between two awaits of the job.                        *)
JobDies(w) ==
  /\ job[w] # NoJob
  /\ EndJob(w)
  /\ UNCHANGED <<vault, vaultOps, given, outdated>>

VaultAdmin(w) ==
  \/ \E v \in VaultIds, n \in VaultSizes, d \in BOOLEAN : CreateVault(w, v, n, d)
  \/ \E v \in VaultIds : SetDefault(w, v) \/ DeactivateVault(w, v)

VaultStep(w) == UnsetDefaults(w) \/ SaveVault(w) \/ Promote(w) \/ AutoCreateVault(w)

-----------------------------------------------------------------------------
(* debitVault: one transaction under the row lock.  An exhausted vault     *)
(* leaves a promotion running, one below its threshold an auto-creation.   *)
CanDebit(v, n) ==
  vault[v].status = "active" /\ vault[v].total - vault[v].used >= n

(* Mutant of Debited: a vault is exhausted once it has given too much.     *)
DebitedPastFull(v, n) ==
  LET used == vault[v].used + n
  IN [vault[v] EXCEPT !.used = used,
        !.status = IF used > vault[v].total THEN "exhausted" ELSE @]

Debited(v, n) ==
  LET used == vault[v].used + n
  IN [vault[v] EXCEPT !.used = used,
        !.status = IF used >= vault[v].total THEN "exhausted" ELSE @]

FollowUp(row) ==
  {pc \in {"promote", "autoCreate"} :
     IF row.status = "exhausted" THEN pc = "promote"
     ELSE pc = "autoCreate" /\ row.total - row.used <= AutoThreshold}

DebitVault(v, n) ==
  /\ CanDebit(v, n)
  /\ vault' = [vault EXCEPT ![v] = Debited(v, n)]
  /\ IF FollowUp(Debited(v, n)) = {} THEN UNCHANGED job
     ELSE \E w \in Workers, pc \in FollowUp(Debited(v, n)) :
            job[w] = NoJob /\ SetJob(w, pc, v, Debited(v, n))
  /\ given' = [given EXCEPT ![v] = @ + n]
  /\ UNCHANGED <<vaultOps, outdated>>

-----------------------------------------------------------------------------
VaultsTypeOK ==
  /\ vault \in [VaultIds -> VaultRow]
  /\ job \in [Workers -> Job \cup {NoJob}]
  /\ vaultOps \in 0..MaxVaultOps
  /\ given \in [VaultIds -> Int] /\ outdated \subseteq VaultIds

(* A vault's count never passes its size, and the vault is exhausted       *)
(* exactly when nothing is left in it, whatever jobs save.  The count is   *)
(* what the vault has given, so that it never gives more than its size,    *)
(* unless a job saved a count it had read before other debits.             *)
WithinCapacity ==
  \A v \in VaultIds :
    /\ vault[v].used <= vault[v].total
    /\ vault[v].status = "active" => vault[v].used < vault[v].total
    /\ vault[v].status = "exhausted" => vault[v].used = vault[v].total
    /\ v \notin outdated => given[v] = vault[v].used
==============================================================================
