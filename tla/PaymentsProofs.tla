---------------------------- MODULE PaymentsProofs ----------------------------
(***************************************************************************)
(* Proofs about Payments and the vaults it issues from, for any number of  *)
(* references, links, vaults, handlers and jobs: what a vault has given,   *)
(* that points are credited for money that was taken, that a spent link    *)
(* has paid its order, and the promise of buying WashPoints.               *)
(***************************************************************************)
EXTENDS Payments, TLAPS

-----------------------------------------------------------------------------
(* Vaults.  A row is sound by itself, so that a job may save an old copy   *)
(* of it; only the count the copy brings back can be wrong.                *)

SoundVault(row) ==
  /\ row.used <= row.total
  /\ row.status = "active" => row.used < row.total
  /\ row.status = "exhausted" => row.used = row.total
  /\ row.status = "absent" => row.used = 0

VaultInv ==
  /\ VaultsTypeOK
  /\ \A v \in VaultIds : SoundVault(vault[v]) /\ (v \notin outdated => given[v] = vault[v].used)
  /\ \A w \in Workers : job[w] # NoJob =>
       SoundVault(job[w].row) /\ (job[w].pc = "autoCreate" => job[w].row.status = "active")

LEMMA VaultInvGives == VaultInv => VaultsTypeOK /\ WithinCapacity
  BY DEF VaultInv, WithinCapacity, SoundVault

LEMMA NewVault ==
  ASSUME NEW total \in Nat \ {0}, NEW isDefault \in BOOLEAN
  PROVE  /\ New(total, isDefault) \in VaultRow /\ SoundVault(New(total, isDefault))
         /\ New(total, isDefault).used = 0 /\ New(total, isDefault).status = "active"
  BY DEF New, VaultRow, SoundVault

LEMMA VaultsInitInv == VaultsInit => VaultInv
  <1> SUFFICES ASSUME VaultsInit
               PROVE  VaultInv
    OBVIOUS
  <1>1. Absent \in VaultRow /\ SoundVault(Absent) /\ Absent.used = 0
    BY DEF Absent, VaultRow, SoundVault
  <1>2. \A v \in VaultIds : vault[v] \in VaultRow /\ SoundVault(vault[v]) /\ vault[v].used = 0
    <2> TAKE v \in VaultIds
    <2>1. vault[v] \in {Absent} \cup {New(n, d) : n \in VaultSizes, d \in BOOLEAN}
      BY VaultConstantsOK DEF VaultsInit
    <2> QED  BY <1>1, <2>1, NewVault, VaultConstantsOK
  <1>3. vault \in [VaultIds -> VaultRow]
    BY <1>2, VaultConstantsOK DEF VaultsInit
  <1> QED  BY <1>2, <1>3, VaultConstantsOK DEF VaultsInit, VaultInv, VaultsTypeOK

(* A job takes its next step with a row it may save.                       *)
LEMMA JobTyped ==
  ASSUME VaultInv, NEW w \in Workers, NEW pc \in {"unset", "save", "retire", "promote", "autoCreate"},
         NEW v \in VaultIds, NEW row \in VaultRow, SoundVault(row), SetJob(w, pc, v, row),
         pc = "autoCreate" => row.status = "active"
  PROVE  /\ job' \in [Workers -> Job \cup {NoJob}]
         /\ \A u \in Workers : job'[u] # NoJob =>
              SoundVault(job'[u].row) /\ (job'[u].pc = "autoCreate" => job'[u].row.status = "active")
  <1> DEFINE j == [pc |-> pc, id |-> v, row |-> row]
  <1>1. j \in Job /\ j.row = row /\ j.pc = pc
    BY DEF Job
  <1>2. job' = [job EXCEPT ![w] = j]
    BY DEF SetJob
  <1> HIDE DEF j
  <1> QED  BY <1>1, <1>2 DEF VaultInv, VaultsTypeOK

LEMMA JobEnds ==
  ASSUME VaultInv, NEW w \in Workers, EndJob(w)
  PROVE  /\ job' \in [Workers -> Job \cup {NoJob}]
         /\ \A u \in Workers : job'[u] # NoJob => job'[u] = job[u]
  BY DEF EndJob, VaultInv, VaultsTypeOK

LEMMA VaultRows ==
  ASSUME VaultInv
  PROVE  /\ \A v \in VaultIds : vault[v] \in VaultRow /\ SoundVault(vault[v])
         /\ \A w \in Workers : job[w] # NoJob =>
              job[w] \in Job /\ job[w].id \in VaultIds /\ job[w].row \in VaultRow /\ SoundVault(job[w].row)
  BY DEF VaultInv, VaultsTypeOK, Job

(* The default mark does not enter into what is sound.                     *)
LEMMA DefaultMark ==
  ASSUME NEW row \in VaultRow, SoundVault(row), NEW d \in BOOLEAN
  PROVE  /\ [row EXCEPT !.isDefault = d] \in VaultRow /\ SoundVault([row EXCEPT !.isDefault = d])
         /\ [row EXCEPT !.isDefault = d].used = row.used
  BY DEF VaultRow, SoundVault

LEMMA VaultAdminInv ==
  ASSUME VaultInv, NEW w \in Workers, VaultAdmin(w)
  PROVE  VaultInv'
  <1>1. PICK pc \in {"unset", "save", "retire"}, v \in VaultIds, row \in VaultRow :
          SoundVault(row) /\ SetJob(w, pc, v, row) /\ \E op \in AdminOps : StartAdmin(w, op)
    <2>1. ASSUME NEW v \in VaultIds, NEW n \in VaultSizes, NEW d \in BOOLEAN, CreateVault(w, v, n, d)
          PROVE  /\ New(n, d) \in VaultRow /\ SoundVault(New(n, d))
                 /\ SetJob(w, IF d THEN "unset" ELSE "save", v, New(n, d))
                 /\ \E op \in AdminOps : StartAdmin(w, op)
      BY <2>1, NewVault, VaultConstantsOK DEF CreateVault, StartAdmin
    <2>2. ASSUME NEW v \in VaultIds, SetDefault(w, v)
          PROVE  /\ [vault[v] EXCEPT !.isDefault = TRUE] \in VaultRow
                 /\ SoundVault([vault[v] EXCEPT !.isDefault = TRUE])
                 /\ SetJob(w, "unset", v, [vault[v] EXCEPT !.isDefault = TRUE])
                 /\ \E op \in AdminOps : StartAdmin(w, op)
      BY <2>2, VaultRows, DefaultMark DEF SetDefault, StartAdmin
    <2>3. ASSUME NEW v \in VaultIds, DeactivateVault(w, v)
          PROVE  \E row \in VaultRow :
                   /\ SoundVault(row)
                   /\ SetJob(w, IF vault[v].isDefault THEN "retire" ELSE "save", v, row)
                   /\ \E op \in AdminOps : StartAdmin(w, op)
      <3> DEFINE row == [vault[v] EXCEPT !.status = "deactivated", !.isDefault = FALSE]
      <3>1. row \in VaultRow /\ SoundVault(row)
        BY VaultRows DEF VaultRow, SoundVault
      <3>2. SetJob(w, IF vault[v].isDefault THEN "retire" ELSE "save", v, row)
            /\ \E op \in AdminOps : StartAdmin(w, op)
        BY <2>3 DEF DeactivateVault, StartAdmin
      <3> HIDE DEF row
      <3> QED  BY <3>1, <3>2
    <2> QED  BY <2>1, <2>2, <2>3 DEF VaultAdmin
  <1>2. UNCHANGED <<vault, given, outdated>> /\ vaultOps' \in 0..MaxVaultOps
    BY <1>1, VaultConstantsOK DEF StartAdmin, VaultInv, VaultsTypeOK
  <1> QED  BY <1>1, <1>2, JobTyped DEF VaultInv, VaultsTypeOK

LEMMA VaultStepInv ==
  ASSUME VaultInv, NEW w \in Workers, VaultStep(w)
  PROVE  VaultInv'
  <1> DEFINE j == job[w]
  <1>0. j # NoJob /\ j \in Job /\ j.id \in VaultIds /\ j.row \in VaultRow /\ SoundVault(j.row)
    BY VaultRows DEF VaultStep, UnsetDefaults, SaveVault, Promote, AutoCreateVault, JobAt
  <1>1. CASE UnsetDefaults(w)
    <2>1. /\ vault' = [v \in VaultIds |-> [vault[v] EXCEPT !.isDefault = FALSE]]
          /\ SetJob(w, "save", j.id, j.row) /\ UNCHANGED <<vaultOps, given, outdated>>
      BY <1>1 DEF UnsetDefaults
    <2>2. \A v \in VaultIds : /\ vault'[v] \in VaultRow /\ SoundVault(vault'[v])
                              /\ vault'[v].used = vault[v].used
      BY <2>1, VaultRows, DefaultMark
    <2>3. vault' \in [VaultIds -> VaultRow]
      BY <2>1, <2>2
    <2> QED  BY <1>0, <2>1, <2>2, <2>3, JobTyped DEF VaultInv, VaultsTypeOK
  <1>2. CASE SaveVault(w)
    <2>1. /\ vault' = [vault EXCEPT ![j.id] = j.row]
          /\ SetJob(w, "promote", j.id, j.row) \/ EndJob(w)
          /\ outdated' = outdated \cup {v \in {j.id} : vault[v].used # j.row.used}
          /\ UNCHANGED <<vaultOps, given>>
      BY <1>2 DEF SaveVault
    <2>2. \A v \in VaultIds : /\ vault'[v] \in VaultRow /\ SoundVault(vault'[v])
                              /\ v \notin outdated' => given'[v] = vault'[v].used
      BY <1>0, <2>1 DEF VaultInv, VaultsTypeOK
    <2>3. vault' \in [VaultIds -> VaultRow] /\ outdated' \subseteq VaultIds
      BY <1>0, <2>1 DEF VaultInv, VaultsTypeOK
    <2> QED  BY <1>0, <2>1, <2>2, <2>3, JobTyped, JobEnds DEF VaultInv, VaultsTypeOK
  <1>3. CASE Promote(w)
    <2>1. UNCHANGED <<vault, vaultOps, given, outdated>>
      BY <1>3 DEF Promote
    <2>2. CASE EndJob(w)
      BY <2>1, <2>2, JobEnds DEF VaultInv, VaultsTypeOK
    <2>3. CASE ~EndJob(w)
      <3>1. PICK v \in VaultIds : SetJob(w, "unset", v, [vault[v] EXCEPT !.isDefault = TRUE])
        BY <1>3, <2>3 DEF Promote, InState
      <3>2. [vault[v] EXCEPT !.isDefault = TRUE] \in VaultRow
            /\ SoundVault([vault[v] EXCEPT !.isDefault = TRUE])
        BY VaultRows, DefaultMark
      <3> QED  BY <2>1, <3>1, <3>2, JobTyped DEF VaultInv, VaultsTypeOK
    <2> QED  BY <2>2, <2>3
  <1>4. CASE AutoCreateVault(w)
    <2>1. EndJob(w) /\ UNCHANGED <<vaultOps, given, outdated>>
      BY <1>4 DEF AutoCreateVault
    <2>2. CASE UNCHANGED vault
      BY <2>1, <2>2, JobEnds DEF VaultInv, VaultsTypeOK
    <2>3. CASE ~UNCHANGED vault
      <3>1. PICK v \in VaultIds : /\ v \notin Existing
                                  /\ vault' = [vault EXCEPT ![v] = New(j.row.total, FALSE)]
        <4> DEFINE taken == Existing \cup {job[u].id : u \in {u \in Workers : job[u] # NoJob}}
        <4>1. PICK v \in VaultIds : /\ \A u \in taken : u < v
                                    /\ vault' = [vault EXCEPT ![v] = New(j.row.total, FALSE)]
          BY <1>4, <2>3 DEF AutoCreateVault
        <4>2. VaultIds \subseteq Nat
          BY VaultConstantsOK
        <4>3. ~(v < v)
          BY <4>2
        <4>4. v \notin taken
          BY <4>1, <4>3
        <4> QED  BY <4>1, <4>4
      <3>2. j.row.total \in Nat \ {0}
        BY <1>0, <1>4 DEF AutoCreateVault, JobAt, VaultInv, VaultRow, SoundVault
      <3>3. vault[v].used = 0 /\ New(j.row.total, FALSE).used = 0
            /\ New(j.row.total, FALSE) \in VaultRow /\ SoundVault(New(j.row.total, FALSE))
        BY <3>1, <3>2, NewVault, VaultRows DEF Existing, InState, SoundVault
      <3>4. vault' \in [VaultIds -> VaultRow] /\ \A u \in VaultIds :
              SoundVault(vault'[u]) /\ vault'[u].used = vault[u].used
        BY <3>1, <3>3 DEF VaultInv, VaultsTypeOK
      <3> QED  BY <2>1, <3>4, JobEnds DEF VaultInv, VaultsTypeOK
    <2> QED  BY <2>2, <2>3
  <1> QED  BY <1>1, <1>2, <1>3, <1>4 DEF VaultStep

(* Points leave a vault that has them, and are counted.                    *)
LEMMA DebitVaultInv ==
  ASSUME VaultInv, NEW v \in VaultIds, NEW n \in Nat, DebitVault(v, n)
  PROVE  VaultInv'
  <1> DEFINE row == Debited(v, n)
  <1>1. /\ vault[v].status = "active" /\ vault[v].total - vault[v].used >= n
        /\ vault' = [vault EXCEPT ![v] = row] /\ given' = [given EXCEPT ![v] = @ + n]
        /\ UNCHANGED <<vaultOps, outdated>>
    BY DEF DebitVault, CanDebit
  <1>2. vault[v] \in VaultRow /\ SoundVault(vault[v])
    BY VaultRows
  <1>3. row \in VaultRow /\ row.used = vault[v].used + n /\ SoundVault(row)
        /\ (row.status # "exhausted" => row.status = "active")
    <2>1. /\ vault[v].used \in Nat /\ vault[v].total \in Nat
          /\ vault[v].status \in {"absent", "active", "exhausted", "deactivated"}
      BY <1>2 DEF VaultRow
    <2>2. row.used = vault[v].used + n /\ row.total = vault[v].total
          /\ row.status = IF vault[v].used + n >= vault[v].total THEN "exhausted" ELSE "active"
      BY <1>1, <1>2 DEF Debited, VaultRow
    <2>3. row \in VaultRow
      <3> DEFINE used == vault[v].used + n
                 status == IF used >= vault[v].total THEN "exhausted" ELSE vault[v].status
      <3>1. used \in Nat /\ status \in {"absent", "active", "exhausted", "deactivated"}
        BY <2>1
      <3>2. row = [vault[v] EXCEPT !.used = used, !.status = status]
        BY DEF Debited
      <3> HIDE DEF used, status, row
      <3> QED  BY <1>2, <3>1, <3>2 DEF VaultRow
    <2> QED  BY <1>1, <2>1, <2>2, <2>3 DEF SoundVault
  <1> HIDE DEF row
  <1>4. /\ vault' \in [VaultIds -> VaultRow] /\ given' \in [VaultIds -> Int]
        /\ \A u \in VaultIds : SoundVault(vault'[u]) /\ (u \notin outdated' => given'[u] = vault'[u].used)
    BY <1>1, <1>3 DEF VaultInv, VaultsTypeOK, VaultRow
  <1>5. CASE UNCHANGED job
    BY <1>1, <1>4, <1>5 DEF VaultInv, VaultsTypeOK
  <1>6. CASE ~UNCHANGED job
    <2>1. PICK w \in Workers, pc \in FollowUp(row) : SetJob(w, pc, v, row)
      BY <1>6 DEF DebitVault, row
    <2>2. pc \in {"promote", "autoCreate"} /\ (pc = "autoCreate" => row.status = "active")
      BY <1>3, <2>1 DEF FollowUp
    <2> QED  BY <1>1, <1>3, <1>4, <2>1, <2>2, JobTyped DEF VaultInv, VaultsTypeOK
  <1> QED  BY <1>5, <1>6

LEMMA JobDiesInv ==
  ASSUME VaultInv, NEW w \in Workers, JobDies(w)
  PROVE  VaultInv'
  BY JobEnds DEF JobDies, VaultInv, VaultsTypeOK

LEMMA VaultStutters == VaultInv /\ UNCHANGED vaultVars => VaultInv'
  BY DEF VaultInv, VaultsTypeOK, vaultVars

-----------------------------------------------------------------------------
(* Payments.  Before paystackInitialize a reference is one handler's own   *)
(* and unknown outside; a handler that credits holds one that was paid.    *)

Early == {"sponsor", "create", "initialize"}
Done  == {"vault", "mark", "settle", "link"}

On(p, t) == req[p] # NoRequest /\ req[p].tx = t

RowsInv ==
  /\ \A t \in Txs :
       /\ tx[t].status = "absent" => charge[t] = "none"
       /\ tx[t].status # "absent" => tx[t].vault \in VaultIds
       /\ charge[t] = "none" => t \notin declined
       /\ ledger[t] > 0 => charge[t] = "paid"
       /\ tx[t].credited => ledger[t] > 0
  /\ \A l \in Links : /\ link[l].status = "active" => link[l].vault \in VaultIds
                      /\ link[l].status = "paid" => order[l] # "draft"

RequestOK(p) ==
  LET x == req[p] IN
  /\ x.pc \in Early => /\ charge[x.tx] = "none"
                       /\ \A q \in Procs : On(q, x.tx) => q = p
  /\ x.pc \notin Early => charge[x.tx] # "none"
  /\ x.pc \in {"sponsor", "create"} => x.link \in Links /\ link[x.link].vault \in VaultIds
  /\ x.pc = "initialize" => tx[x.tx].status # "absent"
  /\ x.pc \in {"success", "credit"} \cup Done => charge[x.tx] = "paid"
  /\ x.pc \in Done => ledger[x.tx] > 0
  /\ x.pc \in {"settle", "link"} => tx[x.tx].link \in Links
  /\ x.pc = "link" => order[tx[x.tx].link] # "draft"

RequestInv == \A p \in Procs : req[p] # NoRequest => RequestOK(p)

(* While a reference is PENDING nobody has credited it or is about to; one *)
(* handler is on its way to credit a reference that was not overtaken.     *)
OnceInv ==
  /\ \A t \in Txs : tx[t].status = "PENDING" =>
       ledger[t] = 0 /\ \A p \in Procs : On(p, t) => req[p].pc \notin {"credit"} \cup Done
  /\ \A p \in Procs : req[p] # NoRequest /\ req[p].pc = "credit" /\ req[p].tx \notin overtaken =>
       /\ ledger[req[p].tx] = 0
       /\ \A q \in Procs : On(q, req[p].tx) /\ req[q].pc = "credit" => q = p
  /\ \A t \in Txs : ledger[t] > 1 => t \in overtaken

PayTypeOK ==
  /\ tx \in [Txs -> Tx]
  /\ charge \in [Txs -> {"none", "open", "paid"}]
  /\ declined \subseteq Txs
  /\ ledger \in [Txs -> Nat] /\ balance \in [Accounts -> Int]
  /\ link \in [Links -> Link]
  /\ expired \subseteq Links /\ overtaken \subseteq Txs
  /\ order \in [Links -> {"draft", "paid", "other"}]
  /\ req \in [Procs -> Request \cup {NoRequest}]
  /\ failures \in 0..MaxFailures

IInv == PayTypeOK /\ VaultInv /\ RowsInv /\ RequestInv /\ OnceInv

LEMMA TypedRequests ==
  ASSUME PayTypeOK
  PROVE  \A p \in Procs : req[p] # NoRequest =>
           req[p] \in Request /\ req[p].tx \in Txs /\ req[p].link \in Links \cup {NoLink}
  BY DEF PayTypeOK, Request

LEMMA Going ==
  ASSUME PayTypeOK, NEW p \in Procs, req[p] # NoRequest, NEW pc \in {"sponsor", "create", "initialize",
           "verify", "fail", "success", "credit", "vault", "mark", "settle", "link"}, Goto(p, pc)
  PROVE  /\ req' \in [Procs -> Request \cup {NoRequest}]
         /\ req'[p] # NoRequest /\ req'[p].pc = pc
         /\ req'[p].tx = req[p].tx /\ req'[p].link = req[p].link
         /\ \A q \in Procs \ {p} : req'[q] = req[q]
  <1> DEFINE x == [req[p] EXCEPT !.pc = pc]
  <1>1. x \in Request /\ x.pc = pc /\ x.tx = req[p].tx /\ x.link = req[p].link
    BY TypedRequests DEF Request
  <1>2. req' = [req EXCEPT ![p] = x]
    BY DEF Goto
  <1>3. x # NoRequest
    BY <1>1, PaymentConstantsOK
  <1> HIDE DEF x
  <1> QED  BY <1>1, <1>2, <1>3 DEF PayTypeOK

LEMMA Entering ==
  ASSUME PayTypeOK, NEW p \in Procs, NEW pc \in {"sponsor", "create", "initialize", "verify",
           "fail", "credit"}, NEW t \in Txs, NEW l \in Links \cup {NoLink}, Enter(p, pc, t, l)
  PROVE  /\ req' \in [Procs -> Request \cup {NoRequest}]
         /\ req'[p] # NoRequest /\ req'[p].pc = pc /\ req'[p].tx = t /\ req'[p].link = l
         /\ \A q \in Procs \ {p} : req'[q] = req[q]
  <1> DEFINE x == [pc |-> pc, tx |-> t, link |-> l]
  <1>1. x \in Request /\ x.pc = pc /\ x.tx = t /\ x.link = l
    BY DEF Request
  <1>2. req' = [req EXCEPT ![p] = x]
    BY DEF Enter
  <1>3. x # NoRequest
    BY <1>1, PaymentConstantsOK
  <1> HIDE DEF x
  <1> QED  BY <1>1, <1>2, <1>3 DEF PayTypeOK

LEMMA Finishing ==
  ASSUME PayTypeOK, NEW p \in Procs, Finish(p)
  PROVE  /\ req' \in [Procs -> Request \cup {NoRequest}] /\ req'[p] = NoRequest
         /\ \A q \in Procs \ {p} : req'[q] = req[q]
  BY DEF PayTypeOK, Finish

LEMMA Inserting ==
  ASSUME PayTypeOK, NEW t \in Txs, NEW v \in VaultIds \cup {0}, NEW a \in Accounts,
         NEW l \in Links \cup {NoLink}, Insert(t, v, a, l)
  PROVE  /\ tx' \in [Txs -> Tx] /\ tx'[t].status = "PENDING" /\ tx'[t].credited = FALSE
         /\ tx'[t].vault = v
         /\ \A u \in Txs \ {t} : tx'[u] = tx[u]
  BY DEF PayTypeOK, Insert, Tx

LEMMA Setting ==
  ASSUME PayTypeOK, NEW t \in Txs, NEW s \in {"SUCCESS", "FAILED"}, SetStatus(t, s)
  PROVE  /\ tx' \in [Txs -> Tx] /\ tx'[t].status = s /\ tx'[t].credited = FALSE
         /\ tx'[t].link = tx[t].link /\ tx'[t].vault = tx[t].vault
         /\ \A u \in Txs \ {t} : tx'[u] = tx[u]
  <1> DEFINE row == [tx[t] EXCEPT !.status = s, !.credited = FALSE]
  <1>1. tx[t] \in Tx
    BY DEF PayTypeOK
  <1>2. row \in Tx /\ row.status = s /\ row.credited = FALSE /\ row.link = tx[t].link
        /\ row.vault = tx[t].vault
    BY <1>1 DEF Tx
  <1>3. tx' = [tx EXCEPT ![t] = row]
    BY DEF SetStatus, PayTypeOK
  <1> HIDE DEF row
  <1> QED  BY <1>2, <1>3 DEF PayTypeOK

(* What an action that leaves the vaults alone has to show.                *)
LEMMA VaultsAside ==
  ASSUME IInv, UNCHANGED vaultVars, PayTypeOK', RowsInv', RequestInv', OnceInv'
  PROVE  IInv'
  BY VaultStutters DEF IInv

LEMMA InitIInv == Init => IInv
  <1> SUFFICES ASSUME Init
               PROVE  IInv
    OBVIOUS
  <1>1. AnyAccount \in Accounts
    BY PaymentConstantsOK DEF AnyAccount
  <1>2. PayTypeOK
    BY <1>1, PaymentConstantsOK DEF Init, PayTypeOK, Tx, Link
  <1>3. RowsInv /\ RequestInv /\ OnceInv
    BY DEF Init, RowsInv, RequestInv, OnceInv
  <1> QED  BY <1>2, <1>3, VaultsInitInv DEF Init, IInv

-----------------------------------------------------------------------------
(* The handlers that open a reference.                                     *)

LEMMA InitiateTopupIInv ==
  ASSUME IInv, NEW p \in Procs, NEW t \in Txs, NEW a \in Accounts, InitiateTopup(p, t, a)
  PROVE  IInv'
  <1>1. PICK v \in VaultIds : Insert(t, v, a, NoLink)
    BY DEF InitiateTopup
  <1>2. /\ Unused(t) /\ Enter(p, "initialize", t, NoLink) /\ req[p] = NoRequest
        /\ UNCHANGED <<charge, declined, ledger, balance, link, expired, overtaken, order, failures, vaultVars>>
    BY DEF InitiateTopup, Idle
  <1>3. /\ tx' \in [Txs -> Tx] /\ tx'[t].status = "PENDING" /\ tx'[t].credited = FALSE
        /\ tx'[t].vault = v /\ \A u \in Txs \ {t} : tx'[u] = tx[u]
    BY <1>1, Inserting DEF IInv
  <1>4. /\ req' \in [Procs -> Request \cup {NoRequest}]
        /\ req'[p] # NoRequest /\ req'[p].pc = "initialize" /\ req'[p].tx = t
        /\ \A q \in Procs \ {p} : req'[q] = req[q]
    BY <1>2, Entering DEF IInv
  <1>5. \A q \in Procs : ~On(q, t)
    BY <1>2 DEF Unused, Busy, On
  <1>6. charge[t] = "none" /\ ledger[t] = 0
    BY <1>2 DEF IInv, RowsInv, PayTypeOK, Unused
  <1>7. PayTypeOK'
    BY <1>2, <1>3, <1>4 DEF IInv, PayTypeOK
  <1>8. RowsInv'
    BY <1>2, <1>3, <1>6 DEF IInv, RowsInv
  <1>9. RequestInv'
    BY <1>2, <1>3, <1>4, <1>5, <1>6, TypedRequests
    DEF IInv, RequestInv, RequestOK, On, Early, Done
  <1>10. OnceInv'
    BY <1>2, <1>3, <1>4, <1>5, <1>6, TypedRequests
    DEF IInv, OnceInv, On, Done
  <1> QED  BY <1>2, <1>7, <1>8, <1>9, <1>10, VaultsAside

LEMMA PayLinkIInv ==
  ASSUME IInv, NEW p \in Procs, NEW t \in Txs, NEW l \in Links, PayLink(p, t, l)
  PROVE  IInv'
  <1>1. PICK pc \in {"sponsor", "create"} : Enter(p, pc, t, l)
    BY DEF PayLink
  <1>2. /\ Unused(t) /\ req[p] = NoRequest
        /\ UNCHANGED <<tx, charge, declined, ledger, balance, link, expired, overtaken, order, failures, vaultVars>>
    BY DEF PayLink, Idle
  <1>3. /\ req' \in [Procs -> Request \cup {NoRequest}]
        /\ req'[p] # NoRequest /\ req'[p].pc = pc /\ req'[p].tx = t /\ req'[p].link = l
        /\ \A q \in Procs \ {p} : req'[q] = req[q]
    BY <1>1, Entering DEF IInv
  <1>4. \A q \in Procs : ~On(q, t)
    BY <1>2 DEF Unused, Busy, On
  <1>5. charge[t] = "none" /\ link[l].vault \in VaultIds
    BY <1>2 DEF IInv, RowsInv, Unused, PayLink
  <1>6. PayTypeOK' /\ RowsInv'
    BY <1>2, <1>3 DEF IInv, PayTypeOK, RowsInv
  <1>7. RequestInv'
    BY <1>2, <1>3, <1>4, <1>5, TypedRequests
    DEF IInv, RequestInv, RequestOK, On, Early, Done
  <1>8. OnceInv'
    BY <1>2, <1>3, <1>4, <1>5, TypedRequests
    DEF IInv, OnceInv, On, Done
  <1> QED  BY <1>2, <1>6, <1>7, <1>8, VaultsAside

LEMMA SaveSponsorIInv ==
  ASSUME IInv, NEW p \in Procs, SaveSponsor(p)
  PROVE  IInv'
  <1>1. /\ req[p] # NoRequest /\ req[p].pc = "sponsor" /\ Goto(p, "create")
        /\ link' = [link EXCEPT ![req[p].link].status = "active"]
        /\ UNCHANGED <<tx, charge, declined, ledger, balance, expired, overtaken, order, failures, vaultVars>>
    BY DEF SaveSponsor, At
  <1>2. /\ req' \in [Procs -> Request \cup {NoRequest}]
        /\ req'[p] # NoRequest /\ req'[p].pc = "create"
        /\ req'[p].tx = req[p].tx /\ req'[p].link = req[p].link
        /\ \A q \in Procs \ {p} : req'[q] = req[q]
    BY <1>1, Going DEF IInv
  <1>0. req[p].link \in Links /\ link[req[p].link].vault \in VaultIds
    BY <1>1 DEF IInv, RequestInv, RequestOK
  <1>3. link' \in [Links -> Link]
        /\ \A l \in Links : /\ link'[l].status = "paid" => link[l].status = "paid"
                            /\ link'[l].vault = link[l].vault
                            /\ link'[l].status = "active" => link[l].status = "active" \/ l = req[p].link
    BY <1>0, <1>1 DEF IInv, PayTypeOK, Link
  <1>4. PayTypeOK' /\ RowsInv'
    BY <1>0, <1>1, <1>2, <1>3 DEF IInv, PayTypeOK, RowsInv
  <1>5. RequestInv'
    BY <1>0, <1>1, <1>2, <1>3 DEF IInv, RequestInv, RequestOK, On, Early, Done
  <1>6. OnceInv'
    BY <1>1, <1>2 DEF IInv, OnceInv, On, Done
  <1> QED  BY <1>1, <1>4, <1>5, <1>6, VaultsAside

LEMMA InitiateOrderFundingIInv ==
  ASSUME IInv, NEW p \in Procs, InitiateOrderFunding(p)
  PROVE  IInv'
  <1> DEFINE t == req[p].tx
             l == req[p].link
  <1>1. /\ req[p] # NoRequest /\ req[p].pc = "create" /\ Goto(p, "initialize")
        /\ Insert(t, link[l].vault, Customer[l], l)
        /\ UNCHANGED <<charge, declined, ledger, balance, link, expired, overtaken, order, failures, vaultVars>>
    BY DEF InitiateOrderFunding, At
  <1>2. /\ t \in Txs /\ l \in Links /\ charge[t] = "none" /\ link[l].vault \in VaultIds
        /\ \A q \in Procs : On(q, t) => q = p
    BY <1>1, TypedRequests DEF IInv, RequestInv, RequestOK, Early
  <1>3. /\ tx' \in [Txs -> Tx] /\ tx'[t].status = "PENDING" /\ tx'[t].credited = FALSE
        /\ tx'[t].vault \in VaultIds /\ \A u \in Txs \ {t} : tx'[u] = tx[u]
    <2>1. link[l].vault \in VaultIds \cup {0} /\ Customer[l] \in Accounts
      BY <1>2, PaymentConstantsOK DEF IInv, PayTypeOK, Link
    <2> QED  BY <1>1, <1>2, <2>1, Inserting DEF IInv
  <1>4. /\ req' \in [Procs -> Request \cup {NoRequest}]
        /\ req'[p] # NoRequest /\ req'[p].pc = "initialize" /\ req'[p].tx = t /\ req'[p].link = l
        /\ \A q \in Procs \ {p} : req'[q] = req[q]
    BY <1>1, Going DEF IInv
  <1>5. ledger[t] = 0
    BY <1>2 DEF IInv, PayTypeOK, RowsInv
  <1> HIDE DEF t, l
  <1>6. PayTypeOK'
    BY <1>1, <1>3, <1>4 DEF IInv, PayTypeOK
  <1>7. RowsInv'
    BY <1>1, <1>2, <1>3, <1>5 DEF IInv, RowsInv
  <1>8. \A q \in Procs \ {p} : req'[q] # NoRequest => req'[q].tx # t /\ req[q].tx # t
    BY <1>2, <1>4 DEF On
  <1>9. RequestInv'
    BY <1>1, <1>2, <1>3, <1>4, <1>8, TypedRequests DEF IInv, RequestInv, RequestOK, On, Early, Done
  <1>10. OnceInv'
    BY <1>1, <1>2, <1>3, <1>4, <1>5, <1>8, TypedRequests DEF IInv, OnceInv, On, Done
  <1> QED  BY <1>1, <1>6, <1>7, <1>9, <1>10, VaultsAside

LEMMA PaystackInitializeIInv ==
  ASSUME IInv, NEW p \in Procs, PaystackInitialize(p)
  PROVE  IInv'
  <1> DEFINE t == req[p].tx
  <1>1. /\ req[p] # NoRequest /\ req[p].pc = "initialize" /\ Finish(p)
        /\ charge' = [charge EXCEPT ![t] = "open"]
        /\ UNCHANGED <<tx, declined, ledger, balance, link, expired, overtaken, order, failures, vaultVars>>
    BY DEF PaystackInitialize, At
  <1>2. /\ t \in Txs /\ charge[t] = "none" /\ tx[t].status # "absent"
        /\ \A q \in Procs : On(q, t) => q = p
    BY <1>1, TypedRequests DEF IInv, RequestInv, RequestOK, Early
  <1>3. /\ req' \in [Procs -> Request \cup {NoRequest}] /\ req'[p] = NoRequest
        /\ \A q \in Procs \ {p} : req'[q] = req[q]
    BY <1>1, Finishing DEF IInv
  <1>4. charge'[t] = "open" /\ \A u \in Txs \ {t} : charge'[u] = charge[u]
    BY <1>1, <1>2 DEF IInv, PayTypeOK
  <1> HIDE DEF t
  <1>5. PayTypeOK'
    BY <1>1, <1>2, <1>3 DEF IInv, PayTypeOK
  <1>6. RowsInv'
    BY <1>1, <1>2, <1>4 DEF IInv, RowsInv
  <1>7. RequestInv'
    BY <1>1, <1>2, <1>3, <1>4, TypedRequests DEF IInv, RequestInv, RequestOK, On, Early, Done
  <1>8. OnceInv'
    BY <1>1, <1>3 DEF IInv, OnceInv, On, Done
  <1> QED  BY <1>1, <1>5, <1>6, <1>7, <1>8, VaultsAside

-----------------------------------------------------------------------------
(* The handlers that hear of a payment.                                    *)

(* A handler starts on a known reference and changes no row.               *)
LEMMA HearingIInv ==
  ASSUME IInv, NEW p \in Procs, NEW t \in Txs, NEW pc \in {"fail", "verify"},
         Enter(p, pc, t, NoLink), charge[t] # "none",
         UNCHANGED <<tx, charge, declined, ledger, balance, link, expired, overtaken, order, failures, vaultVars>>
  PROVE  IInv'
  <1>1. /\ req' \in [Procs -> Request \cup {NoRequest}]
        /\ req'[p] # NoRequest /\ req'[p].pc = pc /\ req'[p].tx = t
        /\ \A q \in Procs \ {p} : req'[q] = req[q]
    BY Entering DEF IInv
  <1>2. PayTypeOK' /\ RowsInv'
    BY <1>1 DEF IInv, PayTypeOK, RowsInv
  <1>3. RequestInv'
    BY <1>1, TypedRequests DEF IInv, RequestInv, RequestOK, On, Early, Done
  <1>4. OnceInv'
    BY <1>1, TypedRequests DEF IInv, OnceInv, On, Done
  <1> QED  BY <1>2, <1>3, <1>4, VaultsAside

LEMMA ChargeFailedIInv ==
  ASSUME IInv, NEW p \in Procs, NEW t \in Txs, ChargeFailed(p, t)
  PROVE  IInv'
  <1>1. charge[t] # "none"
    BY DEF ChargeFailed, IInv, RowsInv
  <1> QED  BY <1>1, HearingIInv DEF ChargeFailed

LEMMA VerifyTopupIInv ==
  ASSUME IInv, NEW p \in Procs, NEW t \in Txs, VerifyTopup(p, t)
  PROVE  IInv'
  BY HearingIInv DEF VerifyTopup

LEMMA ChargeSuccessIInv ==
  ASSUME IInv, NEW p \in Procs, NEW t \in Txs, ChargeSuccess(p, t)
  PROVE  IInv'
  <1>1. /\ charge[t] = "paid" /\ tx[t].status = "PENDING"
        /\ SetStatus(t, "SUCCESS") /\ Enter(p, "credit", t, NoLink) /\ req[p] = NoRequest
        /\ UNCHANGED <<charge, declined, ledger, balance, link, expired, overtaken, order, failures, vaultVars>>
    BY DEF ChargeSuccess, Idle
  <1>2. /\ tx' \in [Txs -> Tx] /\ tx'[t].status = "SUCCESS" /\ tx'[t].credited = FALSE
        /\ tx'[t].link = tx[t].link /\ tx'[t].vault = tx[t].vault
        /\ \A u \in Txs \ {t} : tx'[u] = tx[u]
    BY <1>1, Setting DEF IInv
  <1>3. /\ req' \in [Procs -> Request \cup {NoRequest}]
        /\ req'[p] # NoRequest /\ req'[p].pc = "credit" /\ req'[p].tx = t
        /\ \A q \in Procs \ {p} : req'[q] = req[q]
    BY <1>1, Entering DEF IInv
  <1>4. PayTypeOK' /\ RowsInv'
    BY <1>1, <1>2, <1>3 DEF IInv, PayTypeOK, RowsInv
  <1>5. \A u \in Txs : tx'[u].link = tx[u].link /\ (tx'[u].status = "absent" => tx[u].status = "absent")
    BY <1>2
  <1>6. RequestInv'
    BY <1>1, <1>3, <1>5, TypedRequests DEF IInv, RequestInv, RequestOK, On, Early, Done
  <1>7. OnceInv'
    <2>1. ledger[t] = 0 /\ \A q \in Procs : On(q, t) => req[q].pc \notin {"credit"} \cup Done
      BY <1>1 DEF IInv, OnceInv
    <2> QED  BY <1>1, <1>2, <1>3, <2>1, TypedRequests DEF IInv, OnceInv, On, Done
  <1> QED  BY <1>1, <1>4, <1>6, <1>7, VaultsAside

LEMMA VerifyAnswerIInv ==
  ASSUME IInv, NEW p \in Procs, VerifyAnswer(p)
  PROVE  IInv'
  <1>1. /\ req[p] # NoRequest /\ req[p].pc = "verify"
        /\ UNCHANGED <<tx, charge, declined, ledger, balance, link, expired, overtaken, order, failures, vaultVars>>
    BY DEF VerifyAnswer, At
  <1>2. CASE Finish(p)
    <2>1. /\ req' \in [Procs -> Request \cup {NoRequest}] /\ req'[p] = NoRequest
          /\ \A q \in Procs \ {p} : req'[q] = req[q]
      BY <1>2, Finishing DEF IInv
    <2>2. PayTypeOK' /\ RowsInv' /\ RequestInv' /\ OnceInv'
      BY <1>1, <2>1 DEF IInv, PayTypeOK, RowsInv, RequestInv, RequestOK, OnceInv, On
    <2> QED  BY <1>1, <2>2, VaultsAside
  <1>3. ASSUME NEW pc \in {"success", "fail"}, Goto(p, pc), pc = "success" => charge[req[p].tx] = "paid"
        PROVE  IInv'
    <2>1. /\ req' \in [Procs -> Request \cup {NoRequest}]
          /\ req'[p] # NoRequest /\ req'[p].pc = pc
          /\ req'[p].tx = req[p].tx
          /\ \A q \in Procs \ {p} : req'[q] = req[q]
      BY <1>1, <1>3, Going DEF IInv
    <2>2. PayTypeOK' /\ RowsInv'
      BY <1>1, <2>1 DEF IInv, PayTypeOK, RowsInv
    <2>3. RequestInv'
      BY <1>1, <1>3, <2>1 DEF IInv, RequestInv, RequestOK, On, Early, Done
    <2>4. OnceInv'
      BY <1>1, <2>1 DEF IInv, OnceInv, On, Done
    <2> QED  BY <1>1, <2>2, <2>3, <2>4, VaultsAside
  <1> QED  BY <1>2, <1>3 DEF VerifyAnswer

LEMMA SaveSuccessIInv ==
  ASSUME IInv, NEW p \in Procs, SaveSuccess(p)
  PROVE  IInv'
  <1> DEFINE t == req[p].tx
  <1>1. /\ req[p] # NoRequest /\ req[p].pc = "success" /\ Goto(p, "credit") /\ SetStatus(t, "SUCCESS")
        /\ overtaken' = IF tx[t].status = "PENDING" THEN overtaken ELSE overtaken \cup {t}
        /\ UNCHANGED <<charge, declined, ledger, balance, link, expired, order, failures, vaultVars>>
    BY DEF SaveSuccess, At
  <1>2. t \in Txs /\ charge[t] = "paid"
    BY <1>1, TypedRequests DEF IInv, RequestInv, RequestOK
  <1>3. /\ tx' \in [Txs -> Tx] /\ tx'[t].status = "SUCCESS" /\ tx'[t].credited = FALSE
        /\ tx'[t].link = tx[t].link /\ tx'[t].vault = tx[t].vault
        /\ \A u \in Txs \ {t} : tx'[u] = tx[u]
    BY <1>1, <1>2, Setting DEF IInv
  <1>4. /\ req' \in [Procs -> Request \cup {NoRequest}]
        /\ req'[p] # NoRequest /\ req'[p].pc = "credit" /\ req'[p].tx = t
        /\ \A q \in Procs \ {p} : req'[q] = req[q]
    BY <1>1, Going DEF IInv
  <1>5. PayTypeOK' /\ RowsInv'
    BY <1>1, <1>2, <1>3, <1>4 DEF IInv, PayTypeOK, RowsInv
  <1>6. \A u \in Txs : tx'[u].link = tx[u].link /\ (tx'[u].status = "absent" => tx[u].status = "absent")
    BY <1>3
  <1>7. RequestInv'
    BY <1>1, <1>2, <1>4, <1>6, TypedRequests DEF IInv, RequestInv, RequestOK, On, Early, Done
  <1>8. OnceInv'
    <2>1. t \notin overtaken' =>
            ledger[t] = 0 /\ \A q \in Procs : On(q, t) => req[q].pc \notin {"credit"} \cup Done
      BY <1>1, <1>2 DEF IInv, OnceInv
    <2>2. overtaken \subseteq overtaken' /\ UNCHANGED ledger
      BY <1>1
    <2>3. \A u \in Txs : tx'[u].status = "PENDING" => u # t /\ tx[u].status = "PENDING"
      BY <1>3
    <2>4. \A q \in Procs : On(q, t)' => q = p \/ On(q, t)
      BY <1>4 DEF On
    <2>5. ASSUME NEW q \in Procs, req'[q] # NoRequest, req'[q].pc = "credit", req'[q].tx \notin overtaken'
          PROVE  /\ ledger'[req'[q].tx] = 0
                 /\ \A r \in Procs : On(r, req[q].tx)' /\ req'[r].pc = "credit" => r = q
      <3>1. CASE req'[q].tx = t
        <4>1. \A r \in Procs : r # p /\ req'[r] # NoRequest /\ req'[r].tx = t => req'[r].pc # "credit"
          BY <1>4, <2>1, <2>5, <3>1 DEF On
        <4> QED  BY <1>4, <2>1, <2>2, <2>5, <3>1, <4>1 DEF On
      <3>2. CASE req'[q].tx # t
        <4>1. q # p /\ req'[q] = req[q]
          BY <1>4, <3>2
        <4>2. \A r \in Procs : On(r, req[q].tx)' => r # p /\ req'[r] = req[r]
          BY <1>4, <3>2 DEF On
        <4> QED  BY <2>2, <2>5, <4>1, <4>2 DEF IInv, OnceInv, On
      <3> QED  BY <3>1, <3>2
    <2>6. \A u \in Txs : tx'[u].status = "PENDING" =>
            ledger'[u] = 0 /\ \A q \in Procs : On(q, u)' => req'[q].pc \notin {"credit"} \cup Done
      BY <1>4, <2>2, <2>3 DEF IInv, OnceInv, On
    <2>7. \A u \in Txs : ledger'[u] > 1 => u \in overtaken'
      BY <2>2 DEF IInv, OnceInv
    <2> QED  BY <2>5, <2>6, <2>7 DEF OnceInv
  <1> QED  BY <1>1, <1>5, <1>7, <1>8, VaultsAside

LEMMA SaveFailedIInv ==
  ASSUME IInv, NEW p \in Procs, SaveFailed(p)
  PROVE  IInv'
  <1> DEFINE t == req[p].tx
  <1>1. /\ req[p] # NoRequest /\ req[p].pc = "fail" /\ Finish(p) /\ SetStatus(t, "FAILED")
        /\ UNCHANGED <<charge, declined, ledger, balance, link, expired, overtaken, order, failures, vaultVars>>
    BY DEF SaveFailed, At
  <1>2. t \in Txs /\ charge[t] # "none"
    BY <1>1, TypedRequests DEF IInv, RequestInv, RequestOK, Early
  <1>3. /\ tx' \in [Txs -> Tx] /\ tx'[t].status = "FAILED" /\ tx'[t].credited = FALSE
        /\ tx'[t].link = tx[t].link /\ tx'[t].vault = tx[t].vault
        /\ \A u \in Txs \ {t} : tx'[u] = tx[u]
    BY <1>1, <1>2, Setting DEF IInv
  <1>4. /\ req' \in [Procs -> Request \cup {NoRequest}] /\ req'[p] = NoRequest
        /\ \A q \in Procs \ {p} : req'[q] = req[q]
    BY <1>1, Finishing DEF IInv
  <1> HIDE DEF t
  <1>5. PayTypeOK' /\ RowsInv'
    BY <1>1, <1>2, <1>3, <1>4 DEF IInv, PayTypeOK, RowsInv
  <1>6. \A u \in Txs : tx'[u].link = tx[u].link /\ (tx'[u].status = "absent" => tx[u].status = "absent")
    BY <1>3
  <1>7. RequestInv'
    BY <1>1, <1>4, <1>6, TypedRequests DEF IInv, RequestInv, RequestOK, On, Early, Done
  <1>8. OnceInv'
    BY <1>1, <1>3, <1>4, TypedRequests DEF IInv, OnceInv, On, Done
  <1> QED  BY <1>1, <1>5, <1>7, <1>8, VaultsAside

-----------------------------------------------------------------------------
(* The handlers that credit a payment, and what funds an order.            *)

LEMMA CreditWalletIInv ==
  ASSUME IInv, NEW p \in Procs, CreditWallet(p)
  PROVE  IInv'
  <1> DEFINE t == req[p].tx
  <1>1. /\ req[p] # NoRequest /\ req[p].pc = "credit" /\ Goto(p, "vault")
        /\ ledger' = [ledger EXCEPT ![t] = @ + 1]
        /\ balance' = [balance EXCEPT ![tx[t].account] = @ + WP]
        /\ UNCHANGED <<tx, charge, declined, link, expired, overtaken, order, failures, vaultVars>>
    BY DEF CreditWallet, At
  <1>2. t \in Txs /\ charge[t] = "paid"
    BY <1>1, TypedRequests DEF IInv, RequestInv, RequestOK
  <1>3. /\ req' \in [Procs -> Request \cup {NoRequest}]
        /\ req'[p] # NoRequest /\ req'[p].pc = "vault" /\ req'[p].tx = t
        /\ \A q \in Procs \ {p} : req'[q] = req[q]
    BY <1>1, Going DEF IInv
  <1>4. /\ ledger' \in [Txs -> Nat] /\ ledger'[t] > 0
        /\ \A u \in Txs : ledger[u] > 0 => ledger'[u] > 0
        /\ \A u \in Txs \ {t} : ledger'[u] = ledger[u]
    BY <1>1, <1>2 DEF IInv, PayTypeOK
  <1>5. PayTypeOK' /\ RowsInv'
    <2>1. balance' \in [Accounts -> Int]
      <3>1. tx[t].account \in Accounts /\ WP \in Int
        BY <1>2, PaymentConstantsOK DEF IInv, PayTypeOK, Tx
      <3>2. balance \in [Accounts -> Int]
        BY DEF IInv, PayTypeOK
      <3> QED  BY <1>1, <3>1, <3>2
    <2>2. PayTypeOK'
      BY <1>1, <1>3, <1>4, <2>1 DEF IInv, PayTypeOK
    <2>3. RowsInv'
      BY <1>1, <1>2, <1>4 DEF IInv, RowsInv
    <2> QED  BY <2>2, <2>3
  <1>6. RequestInv'
    BY <1>1, <1>2, <1>3, <1>4, TypedRequests DEF IInv, RequestInv, RequestOK, On, Early, Done
  <1>7. OnceInv'
    <2>1. /\ tx[t].status # "PENDING"
          /\ t \notin overtaken =>
               ledger[t] = 0 /\ \A q \in Procs \ {p} : On(q, t) => req[q].pc # "credit"
      BY <1>1, <1>2 DEF IInv, OnceInv, On
    <2>2. t \notin overtaken => ledger'[t] = 1
      BY <1>1, <1>2, <2>1 DEF IInv, PayTypeOK
    <2> QED  BY <1>1, <1>3, <1>4, <2>1, <2>2, TypedRequests DEF IInv, OnceInv, On, Done
  <1> QED  BY <1>1, <1>5, <1>6, <1>7, VaultsAside

(* A handler that is past the credit goes on, or ends; it changes neither  *)
(* payments nor what makes a reference paid.                               *)
LEMMA PastCreditIInv ==
  ASSUME IInv, NEW p \in Procs, req[p] # NoRequest, req[p].pc \in Done, VaultInv',
         Finish(p) \/ \E pc \in {"mark", "settle", "link"} :
           /\ Goto(p, pc)
           /\ pc \in {"settle", "link"} => tx[req[p].tx].link \in Links
           /\ pc = "link" => order'[tx[req[p].tx].link] # "draft",
         tx' \in [Txs -> Tx],
         \A t \in Txs : /\ tx'[t].status = tx[t].status /\ tx'[t].link = tx[t].link
                        /\ tx'[t].vault = tx[t].vault
                        /\ tx'[t].credited => tx[t].credited \/ t = req[p].tx,
         order' \in [Links -> {"draft", "paid", "other"}], \A l \in Links : order[l] # "draft" => order'[l] # "draft",
         link' \in [Links -> Link],
         \A l \in Links : /\ link'[l].status = "paid" => order'[l] # "draft"
                          /\ link'[l].vault = link[l].vault
                          /\ link'[l].status = "active" => link[l].status = "active",
         balance' \in [Accounts -> Int],
         UNCHANGED <<charge, declined, ledger, expired, overtaken, failures>>
  PROVE  IInv'
  <1> DEFINE t == req[p].tx
  <1>1. t \in Txs /\ charge[t] = "paid" /\ ledger[t] > 0
    BY TypedRequests DEF IInv, RequestInv, RequestOK, Done
  <1>2. /\ req' \in [Procs -> Request \cup {NoRequest}]
        /\ \A q \in Procs \ {p} : req'[q] = req[q]
        /\ req'[p] # NoRequest =>
             /\ req'[p].tx = t /\ req'[p].pc \in {"mark", "settle", "link"}
             /\ req'[p].pc \in {"settle", "link"} => tx[t].link \in Links
             /\ req'[p].pc = "link" => order'[tx[t].link] # "draft"
    <2>1. CASE Finish(p)
      BY <2>1, Finishing DEF IInv
    <2>2. CASE ~Finish(p)
      <3>1. PICK pc \in {"mark", "settle", "link"} :
              /\ Goto(p, pc)
              /\ pc \in {"settle", "link"} => tx[t].link \in Links
              /\ pc = "link" => order'[tx[t].link] # "draft"
        BY <2>2
      <3> QED  BY <3>1, Going DEF IInv
    <2> QED  BY <2>1, <2>2
  <1>3. PayTypeOK' /\ RowsInv'
    BY <1>1, <1>2 DEF IInv, PayTypeOK, RowsInv
  <1>4. RequestInv'
    BY <1>1, <1>2, TypedRequests DEF IInv, RequestInv, RequestOK, On, Early, Done
  <1>5. OnceInv'
    BY <1>2, TypedRequests DEF IInv, OnceInv, On, Done
  <1> QED  BY <1>3, <1>4, <1>5 DEF IInv

LEMMA IssueFromVaultIInv ==
  ASSUME IInv, NEW p \in Procs, IssueFromVault(p)
  PROVE  IInv'
  <1> DEFINE v == tx[req[p].tx].vault
  <1>1. /\ req[p] # NoRequest /\ req[p].pc = "vault" /\ req[p].pc \in Done
        /\ UNCHANGED <<tx, charge, declined, ledger, balance, link, expired, overtaken, order, failures>>
    BY DEF IssueFromVault, At, Done
  <1>2. (DebitVault(v, WP) /\ Goto(p, "mark")) \/ (Finish(p) /\ UNCHANGED vaultVars)
    BY DEF IssueFromVault
  <1>3. v \in VaultIds
    BY <1>1, TypedRequests DEF IInv, RowsInv, RequestInv, RequestOK
  <1>4. VaultInv'
    BY <1>2, <1>3, DebitVaultInv, VaultStutters, PaymentConstantsOK DEF IInv
  <1>5. Finish(p) \/ \E pc \in {"mark", "settle", "link"} : Goto(p, pc) /\ pc \notin {"settle", "link"}
    BY <1>2
  <1> QED  BY <1>1, <1>4, <1>5, PastCreditIInv DEF IInv, PayTypeOK, RowsInv

LEMMA MarkCreditedIInv ==
  ASSUME IInv, NEW p \in Procs, MarkCredited(p)
  PROVE  IInv'
  <1> DEFINE t == req[p].tx
  <1>1. /\ req[p] # NoRequest /\ req[p].pc = "mark" /\ req[p].pc \in Done
        /\ tx' = [tx EXCEPT ![t].credited = TRUE]
        /\ IF tx[t].link = NoLink THEN Finish(p) ELSE Goto(p, "settle")
        /\ UNCHANGED <<charge, declined, ledger, balance, link, expired, overtaken, order, failures, vaultVars>>
    BY DEF MarkCredited, At, Done
  <1>2. t \in Txs /\ tx[t] \in Tx /\ tx[t].link \in Links \cup {NoLink}
    BY <1>1, TypedRequests DEF IInv, PayTypeOK, Tx
  <1>3. tx' \in [Txs -> Tx]
    BY <1>1, <1>2 DEF IInv, PayTypeOK, Tx
  <1>4. \A u \in Txs : /\ tx'[u].status = tx[u].status /\ tx'[u].link = tx[u].link
                       /\ tx'[u].vault = tx[u].vault
                       /\ tx'[u].credited => tx[u].credited \/ u = t
    BY <1>1, <1>2 DEF IInv, PayTypeOK, Tx
  <1>5. Finish(p) \/ \E pc \in {"mark", "settle", "link"} :
          Goto(p, pc) /\ (pc \in {"settle", "link"} => tx[t].link \in Links) /\ pc # "link"
    BY <1>1, <1>2
  <1>6. VaultInv'
    BY <1>1, VaultStutters DEF IInv
  <1>7. /\ order' \in [Links -> {"draft", "paid", "other"}] /\ link' \in [Links -> Link]
        /\ balance' \in [Accounts -> Int] /\ \A l \in Links : link'[l].status = "paid" => order'[l] # "draft"
    BY <1>1 DEF IInv, PayTypeOK, RowsInv
  <1> QED  BY <1>1, <1>3, <1>4, <1>5, <1>6, <1>7, PastCreditIInv

(* An order is paid from its owner's wallet.                               *)
LEMMA Confirming ==
  ASSUME PayTypeOK, NEW l \in Links, Confirm(l)
  PROVE  /\ order' \in [Links -> {"draft", "paid", "other"}] /\ order'[l] = "paid"
         /\ \A k \in Links : order[k] # "draft" => order'[k] # "draft"
         /\ balance' \in [Accounts -> Int]
  <1>1. Customer[l] \in Accounts /\ OrderWP \in Int
    BY PaymentConstantsOK
  <1> QED  BY <1>1 DEF Confirm, PayTypeOK

LEMMA SettleFundedIInv ==
  ASSUME IInv, NEW p \in Procs, SettleFunded(p)
  PROVE  IInv'
  <1> DEFINE l == tx[req[p].tx].link
  <1>1. /\ req[p] # NoRequest /\ req[p].pc = "settle" /\ req[p].pc \in Done
        /\ UNCHANGED <<tx, charge, declined, ledger, link, expired, overtaken, failures, vaultVars>>
    BY DEF SettleFunded, At, Done
  <1>2. l \in Links
    BY <1>1 DEF IInv, RequestInv, RequestOK
  <1>3. VaultInv'
    BY <1>1, VaultStutters DEF IInv
  <1>4. \/ Confirm(l) /\ Goto(p, "link")
        \/ order[l] = "paid" /\ Goto(p, "link") /\ UNCHANGED <<order, balance>>
        \/ Finish(p) /\ UNCHANGED <<order, balance>>
    BY DEF SettleFunded
  <1>5. /\ order' \in [Links -> {"draft", "paid", "other"}] /\ balance' \in [Accounts -> Int]
        /\ \A k \in Links : order[k] # "draft" => order'[k] # "draft"
    BY <1>2, <1>4, Confirming DEF IInv, PayTypeOK
  <1>6. Finish(p) \/ \E pc \in {"mark", "settle", "link"} :
          Goto(p, pc) /\ (pc = "link" => order'[l] # "draft")
    BY <1>2, <1>4, Confirming DEF IInv
  <1> QED  BY <1>1, <1>2, <1>3, <1>5, <1>6, PastCreditIInv DEF IInv, PayTypeOK, RowsInv

LEMMA SpendLinkIInv ==
  ASSUME IInv, NEW p \in Procs, SpendLink(p)
  PROVE  IInv'
  <1> DEFINE l == tx[req[p].tx].link
  <1>1. /\ req[p] # NoRequest /\ req[p].pc = "link" /\ req[p].pc \in Done /\ Finish(p)
        /\ link' = [link EXCEPT ![l].status = "paid"]
        /\ UNCHANGED <<tx, charge, declined, ledger, balance, expired, overtaken, order, failures, vaultVars>>
    BY DEF SpendLink, At, Done
  <1>2. l \in Links /\ order[l] # "draft" /\ tx[req[p].tx].status # "absent"
    BY <1>1, TypedRequests DEF IInv, RequestInv, RequestOK, RowsInv
  <1>3. VaultInv'
    BY <1>1, VaultStutters DEF IInv
  <1>4. link' \in [Links -> Link] /\ \A k \in Links :
          /\ link'[k].vault = link[k].vault /\ (link'[k].status = "active" => link[k].status = "active")
          /\ link'[k].status = "paid" => link[k].status = "paid" \/ k = l
    BY <1>1, <1>2 DEF IInv, PayTypeOK, Link
  <1> QED  BY <1>1, <1>2, <1>3, <1>4, PastCreditIInv DEF IInv, PayTypeOK, RowsInv

-----------------------------------------------------------------------------
(* What happens outside the handlers, and the step as a whole.             *)

LEMMA OutsideIInv ==
  ASSUME IInv, Outside
  PROVE  IInv'
  <1>1. UNCHANGED <<tx, ledger, req, overtaken, failures, vaultVars>>
    BY DEF Outside, CustomerPays, CardDeclined, CreateLink, OwnerConfirms, OrderMovesOn, LinkExpires
  <1>2. ASSUME NEW t \in Txs, CustomerPays(t)
        PROVE  IInv'
    <2>1. /\ charge' \in [Txs -> {"none", "open", "paid"}] /\ charge[t] = "open"
          /\ \A u \in Txs : /\ charge'[u] = "none" <=> charge[u] = "none"
                            /\ charge[u] = "paid" => charge'[u] = "paid"
          /\ UNCHANGED <<declined, balance, link, expired, overtaken, order>>
      BY <1>2 DEF CustomerPays, IInv, PayTypeOK
    <2>2. PayTypeOK' /\ RowsInv'
      BY <1>1, <2>1 DEF IInv, PayTypeOK, RowsInv
    <2>3. RequestInv'
      BY <1>1, <2>1, TypedRequests DEF IInv, RequestInv, RequestOK, On
    <2>4. OnceInv'
      BY <1>1 DEF IInv, OnceInv, On
    <2> QED  BY <1>1, <2>2, <2>3, <2>4, VaultsAside
  <1>3. ASSUME NEW t \in Txs, CardDeclined(t)
        PROVE  IInv'
    <2>1. declined' = declined \cup {t} /\ charge[t] = "open" /\ UNCHANGED <<charge, balance, link, expired, overtaken, order>>
      BY <1>3 DEF CardDeclined
    <2>2. PayTypeOK' /\ RowsInv'
      BY <1>1, <2>1 DEF IInv, PayTypeOK, RowsInv
    <2>3. RequestInv'
      BY <1>1, <2>1 DEF IInv, RequestInv, RequestOK, On
    <2>4. OnceInv'
      BY <1>1 DEF IInv, OnceInv, On
    <2> QED  BY <1>1, <2>2, <2>3, <2>4, VaultsAside
  \* Links and orders: a spent link stays with an order that left the draft.
  <1>4. ASSUME UNCHANGED <<charge, declined>>, balance' \in [Accounts -> Int],
               link' \in [Links -> Link], order' \in [Links -> {"draft", "paid", "other"}], expired' \subseteq Links,
               \A l \in Links :
                 /\ order[l] # "draft" => order'[l] # "draft"
                 /\ link[l].vault \in VaultIds => link'[l].vault \in VaultIds
                 /\ link'[l].status = "active" => link'[l].vault \in VaultIds
                 /\ link'[l].status = "paid" => link[l].status = "paid"
        PROVE  IInv'
    <2>1. PayTypeOK' /\ RowsInv'
      BY <1>1, <1>4 DEF IInv, PayTypeOK, RowsInv
    <2>2. RequestInv'
      BY <1>1, <1>4 DEF IInv, RequestInv, RequestOK, On, Done
    <2>3. OnceInv'
      BY <1>1 DEF IInv, OnceInv, On
    <2> QED  BY <1>1, <2>1, <2>2, <2>3, VaultsAside
  <1>5. ASSUME NEW l \in Links, CreateLink(l)
        PROVE  IInv'
    <2>1. PICK v \in VaultIds : link' = [link EXCEPT ![l] = [status |-> "active", vault |-> v]]
      BY <1>5 DEF CreateLink
    <2>2. link' \in [Links -> Link] /\ \A k \in Links :
            /\ link[k].vault \in VaultIds => link'[k].vault \in VaultIds
            /\ link'[k].status = "active" => link'[k].vault \in VaultIds
            /\ link'[k].status = "paid" => link[k].status = "paid"
      BY <2>1 DEF IInv, PayTypeOK, RowsInv, Link
    <2>3. UNCHANGED <<charge, declined, balance, expired, overtaken, order>>
      BY <1>5 DEF CreateLink
    <2> QED  BY <1>4, <2>2, <2>3 DEF IInv, PayTypeOK
  <1>6. ASSUME NEW l \in Links, OwnerConfirms(l)
        PROVE  IInv'
    <2>1. Confirm(l) /\ UNCHANGED <<charge, declined, link, expired, overtaken>>
      BY <1>6 DEF OwnerConfirms
    <2> QED  BY <1>4, <2>1, Confirming DEF IInv, PayTypeOK, RowsInv
  <1>7. ASSUME NEW l \in Links, OrderMovesOn(l)
        PROVE  IInv'
    <2>1. /\ order' \in [Links -> {"draft", "paid", "other"}]
          /\ \A k \in Links : order[k] # "draft" => order'[k] # "draft"
          /\ UNCHANGED <<charge, declined, balance, link, expired, overtaken>>
      BY <1>7 DEF OrderMovesOn, IInv, PayTypeOK
    <2> QED  BY <1>4, <2>1 DEF IInv, PayTypeOK, RowsInv
  <1>8. ASSUME NEW l \in Links, LinkExpires(l)
        PROVE  IInv'
    <2>1. expired' = expired \cup {l} /\ UNCHANGED <<charge, declined, balance, link, order>>
      BY <1>8 DEF LinkExpires
    <2> QED  BY <1>4, <2>1 DEF IInv, PayTypeOK, RowsInv
  <1> QED  BY <1>2, <1>3, <1>5, <1>6, <1>7, <1>8 DEF Outside

LEMMA FailIInv ==
  ASSUME IInv, NEW p \in Procs, Fail(p)
  PROVE  IInv'
  <1>1. /\ Finish(p) /\ failures < MaxFailures /\ failures' = failures + 1
        /\ UNCHANGED <<tx, charge, declined, ledger, balance, link, expired, overtaken, order, vaultVars>>
    BY DEF Fail
  <1>2. /\ req' \in [Procs -> Request \cup {NoRequest}] /\ req'[p] = NoRequest
        /\ \A q \in Procs \ {p} : req'[q] = req[q]
    BY <1>1, Finishing DEF IInv
  <1>3. failures' \in 0..MaxFailures
    BY <1>1, PaymentConstantsOK DEF IInv, PayTypeOK
  <1>4. PayTypeOK' /\ RowsInv' /\ RequestInv'
    BY <1>1, <1>2, <1>3 DEF IInv, PayTypeOK, RowsInv, RequestInv, RequestOK, On
  <1>5. OnceInv'
    BY <1>1, <1>2 DEF IInv, OnceInv, On
  <1> QED  BY <1>1, <1>4, <1>5, VaultsAside

LEMMA VaultNextIInv ==
  ASSUME IInv, VaultNext
  PROVE  IInv'
  <1>1. VaultInv' /\ UNCHANGED payVars
    BY VaultAdminInv, VaultStepInv, JobDiesInv DEF VaultNext, IInv
  <1> QED
    BY <1>1 DEF payVars, IInv, PayTypeOK, RowsInv, RequestInv, RequestOK, OnceInv, On

LEMMA NextIInv == IInv /\ [Next]_vars => IInv'
  <1> SUFFICES ASSUME IInv, [Next]_vars
               PROVE  IInv'
    OBVIOUS
  <1>1. ASSUME NEW p \in Procs, Call(p)
        PROVE  IInv'
    BY <1>1, InitiateTopupIInv, PayLinkIInv, ChargeSuccessIInv, ChargeFailedIInv, VerifyTopupIInv
    DEF Call
  <1>2. ASSUME NEW p \in Procs, Step(p)
        PROVE  IInv'
    BY <1>2, SaveSponsorIInv, InitiateOrderFundingIInv, PaystackInitializeIInv, VerifyAnswerIInv,
       SaveSuccessIInv, SaveFailedIInv, CreditWalletIInv, IssueFromVaultIInv, MarkCreditedIInv,
       SettleFundedIInv, SpendLinkIInv
    DEF Step
  <1>3. CASE UNCHANGED vars
    <2>1. UNCHANGED vaultVars /\ UNCHANGED payVars
      BY <1>3 DEF vars
    <2> QED
      BY <2>1, VaultStutters
      DEF payVars, IInv, PayTypeOK, RowsInv, RequestInv, RequestOK, OnceInv, On
  <1> QED  BY <1>1, <1>2, <1>3, FailIInv, OutsideIInv, VaultNextIInv DEF Next

LEMMA Inductive == Spec => []IInv
  BY InitIInv, NextIInv, PTL DEF Spec

(* Every row, request and job keeps its type.                              *)
THEOREM Typing == Spec => []TypeOK
  <1>1. IInv => TypeOK
    BY DEF IInv, PayTypeOK, VaultInv, TypeOK
  <1> QED  BY <1>1, Inductive, PTL

(* No vault gives more than its size, unless a job saved a count it had    *)
(* read before other debits, for any number of vaults, jobs and debits.    *)
THEOREM Capacity == Spec => []WithinCapacity
  <1>1. IInv => WithinCapacity
    BY VaultInvGives DEF IInv
  <1> QED  BY <1>1, Inductive, PTL

(* Points are credited only for money that was taken, however webhooks and *)
(* verifications repeat and overlap and wherever handlers die.             *)
THEOREM CreditsArePaid == Spec => []NoCreditUnpaid
  <1>1. IInv => NoCreditUnpaid
    BY DEF IInv, RowsInv, NoCreditUnpaid
  <1> QED  BY <1>1, Inductive, PTL

(* A funding link is marked paid only after its order left the draft.      *)
THEOREM SpentLinks == Spec => []SpentLinkOrderPaid
  <1>1. IInv => SpentLinkOrderPaid
    BY DEF IInv, RowsInv, SpentLinkOrderPaid
  <1> QED  BY <1>1, Inductive, PTL
-----------------------------------------------------------------------------
(* The promise of buying WashPoints.                                       *)

LEMMA Opens ==
  ASSUME IInv, NEW p \in Procs, PaystackInitialize(p)
  PROVE  Contract!Next
  <1>1. /\ req[p] # NoRequest /\ req[p].pc = "initialize"
        /\ charge' = [charge EXCEPT ![req[p].tx] = "open"] /\ UNCHANGED Credits
    BY DEF PaystackInitialize, At, Credits
  <1>2. req[p].tx \in Txs /\ charge[req[p].tx] = "none"
    BY <1>1, TypedRequests DEF IInv, RequestInv, RequestOK, Early
  <1> QED  BY <1>1, <1>2 DEF Contract!Next, Contract!Open

LEMMA CreditIsOne ==
  ASSUME IInv, NEW p \in Procs, CreditWallet(p)
  PROVE  UNCHANGED <<charge, Credits>> \/ Contract!Next
  <1> DEFINE t == req[p].tx
  <1>1. /\ req[p] # NoRequest /\ req[p].pc = "credit"
        /\ ledger' = [ledger EXCEPT ![t] = @ + 1] /\ UNCHANGED <<charge, overtaken>>
    BY DEF CreditWallet, At
  <1>2. t \in Txs /\ charge[t] = "paid" /\ ledger \in [Txs -> Nat]
    BY <1>1, TypedRequests DEF IInv, PayTypeOK, RequestInv, RequestOK
  <1>3. t \notin overtaken => ledger[t] = 0
    BY <1>1 DEF IInv, OnceInv
  <1> HIDE DEF t
  <1>4. Credits' = [Credits EXCEPT ![t] = 1]
    <2>1. \A u \in Txs : ledger'[u] = IF u = t THEN ledger[t] + 1 ELSE ledger[u]
      BY <1>1, <1>2
    <2>2. ledger[t] + 1 > 0 /\ (t \notin overtaken => ledger[t] + 1 = 1)
      BY <1>2, <1>3
    <2>3. \A u \in Txs : Credits'[u] = IF u = t THEN 1 ELSE Credits[u]
      BY <1>1, <1>2, <2>1, <2>2 DEF Credits
    <2> QED  BY <1>2, <2>3 DEF Credits
  <1>5. Credits[t] = 0 \/ Credits[t] = 1
    BY <1>2, <1>3 DEF Credits
  <1>6. CASE Credits[t] = 0
    BY <1>1, <1>2, <1>4, <1>6 DEF Contract!Next, Contract!Credit
  <1>7. CASE Credits[t] = 1
    BY <1>1, <1>4, <1>7 DEF Credits
  <1> QED  BY <1>5, <1>6, <1>7

(* An overtaken reference had at most one credit when it was overtaken.    *)
LEMMA OvertakingCounts ==
  ASSUME IInv, NEW p \in Procs, SaveSuccess(p)
  PROVE  UNCHANGED <<charge, Credits>>
  <1>1. UNCHANGED <<charge, ledger>> /\ overtaken \subseteq overtaken'
    BY DEF SaveSuccess
  <1>2. \A t \in Txs : ledger[t] \in Nat /\ (ledger[t] > 1 => t \in overtaken)
    BY DEF IInv, OnceInv, PayTypeOK
  <1>3. \A t \in Txs : t \notin overtaken => ledger[t] \in {0, 1}
    BY <1>2
  <1> QED  BY <1>1, <1>3 DEF Credits

LEMMA StepImplements ==
  ASSUME IInv, [Next]_vars
  PROVE  [Contract!Next]_Contract!topUpVars
  <1>1. ASSUME NEW p \in Procs, Call(p) \/ Fail(p)
        PROVE  UNCHANGED <<charge, Credits>>
    BY <1>1
    DEF Call, ChargeSuccess, ChargeFailed, VerifyTopup, InitiateTopup, PayLink, Fail, Credits
  <1>2. ASSUME NEW p \in Procs, Step(p)
        PROVE  UNCHANGED <<charge, Credits>> \/ Contract!Next
    BY <1>2, Opens, CreditIsOne, OvertakingCounts
    DEF Step, SaveSponsor, InitiateOrderFunding, VerifyAnswer, SaveFailed,
        IssueFromVault, MarkCredited, SettleFunded, SpendLink, Credits
  <1>3. ASSUME Outside
        PROVE  UNCHANGED <<charge, Credits>> \/ Contract!Next
    <2>1. ASSUME NEW t \in Txs, CustomerPays(t)
          PROVE  Contract!Next
      BY <2>1 DEF CustomerPays, Contract!Next, Contract!Pay, Credits
    <2> QED
      BY <1>3, <2>1 DEF Outside, CardDeclined, CreateLink, OwnerConfirms, OrderMovesOn, LinkExpires, Credits
  <1>4. ASSUME VaultNext \/ UNCHANGED vars
        PROVE  UNCHANGED <<charge, Credits>>
    BY <1>4 DEF VaultNext, vars, payVars, Credits
  <1> QED  BY <1>1, <1>2, <1>3, <1>4 DEF Next, Contract!topUpVars

(* Every behaviour implements the TopUpContract, however webhooks and      *)
(* verifications repeat, overlap and die: opened, paid, and credited once, *)
(* the further credits of overtaken references aside.                      *)
THEOREM TopUp == Spec => ImplementsTopUp
  <1>1. Init => Contract!Init
    BY DEF Init, Contract!Init, Credits
  <1>2. IInv /\ [Next]_vars => [Contract!Next]_Contract!topUpVars
    BY StepImplements
  <1> QED  BY <1>1, <1>2, Inductive, PTL DEF Spec, ImplementsTopUp, Contract!Spec
===============================================================================
