---------------------------- MODULE PlatformProofs ----------------------------
(***************************************************************************)
(* Proofs about services that MCPlatform checks on small instances, for    *)
(* any number of rows, people and overlapping handlers.  The handlers in   *)
(* flight hold copies of rows: each inductive invariant says what a copy   *)
(* must satisfy for its save to be harmless.                               *)
(***************************************************************************)
EXTENDS Addresses, Blog, Suspensions, Notifications, TLAPS

-----------------------------------------------------------------------------
(* Addresses.  The rows as they will be once a handler in flight has       *)
(* written have at most one default, as long as nothing came in between.   *)

Table       == [AddressIds -> {"none", "plain", "default"}]
AddressCall == [pc : {"address"}, id : AddressIds, value : {"plain", "default"}, seen : Table]
OneDefault(rows) ==
  \A a, b \in AddressIds : rows[a] = "default" /\ rows[b] = "default" => a = b

AddressIInv ==
  /\ AddressesTypeOK
  /\ call \in [Procs -> AddressCall \cup {NoCall}]
  /\ ~entangled => OneDefault(address)
  /\ \A p \in Procs : call[p] # NoCall /\ ~entangled =>
       OneDefault([call[p].seen EXCEPT ![call[p].id] = call[p].value])

LEMMA AddressRecords ==
  ASSUME NEW a \in AddressIds, NEW value \in {"plain", "default"}, NEW rows \in Table
  PROVE  LET c == [pc |-> "address", id |-> a, value |-> value, seen |-> rows] IN
         /\ c \in AddressCall
         /\ [rows EXCEPT ![a] = value] \in Table
  BY DEF AddressCall, Table

LEMMA AddressInitIInv == RequestsInit /\ AddressesInit => AddressIInv
  BY DEF RequestsInit, AddressesInit, AddressIInv, AddressesTypeOK, OneDefault

(* The first statement of a handler, and what it keeps in memory.          *)
LEMMA FirstStatementIInv ==
  ASSUME AddressIInv, NEW p \in Procs, NEW a \in AddressIds,
         NEW value \in {"plain", "default"}, NEW rows \in Table,
         FirstStatement(p, rows, a, value),
         ~entangled => OneDefault(rows) /\ OneDefault([rows EXCEPT ![a] = value])
  PROVE  AddressIInv'
  <1> DEFINE c == [pc |-> "address", id |-> a, value |-> value, seen |-> rows]
  <1>1. /\ address' = rows /\ entangled' = entangled
        /\ call' = [call EXCEPT ![p] = c]
    BY DEF FirstStatement, Begin
  <1>2. c \in AddressCall /\ c.id = a /\ c.value = value /\ c.seen = rows
    BY AddressRecords
  <1> HIDE DEF c
  <1>3. call' \in [Procs -> AddressCall \cup {NoCall}]
    BY <1>1, <1>2 DEF AddressIInv
  <1>4. AddressesTypeOK'
    BY <1>1 DEF AddressIInv, AddressesTypeOK, Table
  <1>5. ASSUME NEW q \in Procs, call'[q] # NoCall, ~entangled'
        PROVE  OneDefault([call'[q].seen EXCEPT ![call'[q].id] = call'[q].value])
    <2>1. CASE q = p
      <3>1. call'[q] = c
        BY <1>1, <2>1 DEF AddressIInv
      <3> QED  BY <3>1, <1>1, <1>2, <1>5
    <2>2. CASE q # p
      BY <1>1, <1>5, <2>2 DEF AddressIInv
    <2> QED  BY <2>1, <2>2
  <1> QED  BY <1>1, <1>3, <1>4, <1>5 DEF AddressIInv, OneDefault

(* Writing the row does what the handler foresaw, or entangles the rows.   *)
LEMMA WriteAddressIInv ==
  ASSUME AddressIInv, NEW p \in Procs, WriteAddress(p)
  PROVE  AddressIInv'
  <1> DEFINE c == call[p]
  <1>1. /\ c # NoCall /\ c \in AddressCall
        /\ address' = [address EXCEPT ![c.id] = c.value]
        /\ entangled' = (entangled \/ address # c.seen)
        /\ call' = [call EXCEPT ![p] = NoCall]
    BY DEF WriteAddress, At, End, GotoState, AddressIInv
  <1>2. c.id \in AddressIds /\ c.value \in {"plain", "default"}
    BY <1>1 DEF AddressCall
  <1>3. AddressesTypeOK'
    BY <1>1, <1>2 DEF AddressIInv, AddressesTypeOK
  <1>4. ~entangled' => OneDefault(address')
    BY <1>1 DEF AddressIInv
  <1>5. call' \in [Procs -> AddressCall \cup {NoCall}]
    BY <1>1 DEF AddressIInv
  <1>6. \A q \in Procs : call'[q] # NoCall /\ ~entangled' => call'[q] = call[q] /\ ~entangled
    BY <1>1 DEF AddressIInv
  <1> QED  BY <1>3, <1>4, <1>5, <1>6 DEF AddressIInv, OneDefault

LEMMA AddressNextIInv == AddressIInv /\ [AddressesNext]_<<addressVars, requestVars>> => AddressIInv'
  <1> SUFFICES ASSUME AddressIInv, [AddressesNext]_<<addressVars, requestVars>>
               PROVE  AddressIInv'
    OBVIOUS
  <1>0. address \in Table /\ Cleared \in Table
    BY DEF AddressIInv, AddressesTypeOK, Table, Cleared, Stored
  <1>c. ASSUME NEW a \in AddressIds
        PROVE  OneDefault(Cleared) /\ OneDefault([Cleared EXCEPT ![a] = "default"])
    BY DEF OneDefault, Cleared, Stored
  <1>p. ASSUME NEW a \in AddressIds, NEW value \in {"plain", "default"}, OneDefault(address),
               value = "default" => \A b \in AddressIds : address[b] = "default" => b = a
        PROVE  OneDefault([address EXCEPT ![a] = value])
    BY <1>0, <1>p DEF OneDefault, Table
  <1>1. ASSUME NEW p \in Procs, NEW a \in AddressIds, NEW wanted \in {"default", "plain", "unsaid"},
               AddAddress(p, a, wanted)
        PROVE  AddressIInv'
    <2>1. CASE wanted = "default"
      <3>1. FirstStatement(p, Cleared, a, "default")
        BY <1>1, <2>1 DEF AddAddress
      <3> QED  BY <3>1, <1>0, <1>c, FirstStatementIInv
    <2>2. CASE wanted = "plain"
      <3>1. FirstStatement(p, address, a, "plain")
        BY <1>1, <2>2 DEF AddAddress
      <3> QED  BY <3>1, <1>0, <1>p, FirstStatementIInv DEF AddressIInv
    <2>3. CASE wanted = "unsaid"
      <3>1. FirstStatement(p, address, a, As(Stored = {}))
        BY <1>1, <2>3 DEF AddAddress
      <3>2. As(Stored = {}) \in {"plain", "default"}
        BY DEF As
      <3>3. As(Stored = {}) = "default" => \A b \in AddressIds : address[b] # "default"
        BY DEF As, Stored
      <3> QED  BY <3>1, <3>2, <3>3, <1>0, <1>p, FirstStatementIInv DEF AddressIInv
    <2> QED  BY <2>1, <2>2, <2>3
  <1>2. ASSUME NEW p \in Procs, NEW a \in AddressIds, NEW wanted \in {"default", "plain", "unsaid"},
               UpdateAddress(p, a, wanted)
        PROVE  AddressIInv'
    <2>1. CASE wanted = "default"
      <3>1. FirstStatement(p, Cleared, a, "default")
        BY <1>2, <2>1 DEF UpdateAddress
      <3> QED  BY <3>1, <1>0, <1>c, FirstStatementIInv
    <2>2. CASE wanted = "plain"
      <3>1. FirstStatement(p, address, a, "plain")
        BY <1>2, <2>2 DEF UpdateAddress
      <3> QED  BY <3>1, <1>0, <1>p, FirstStatementIInv DEF AddressIInv
    <2>3. CASE wanted = "unsaid"
      <3>1. FirstStatement(p, address, a, address[a])
        BY <1>2, <2>3 DEF UpdateAddress
      <3>2. address[a] \in {"plain", "default"}
        BY <1>2, <1>0 DEF UpdateAddress, Stored, Table
      <3>3. OneDefault(address) /\ address[a] = "default" =>
              \A b \in AddressIds : address[b] = "default" => b = a
        BY DEF OneDefault
      <3> QED  BY <3>1, <3>2, <3>3, <1>0, <1>p, FirstStatementIInv DEF AddressIInv
    <2> QED  BY <2>1, <2>2, <2>3
  <1>3. ASSUME NEW p \in Procs, NEW a \in AddressIds, SetDefaultAddress(p, a)
        PROVE  AddressIInv'
    BY <1>3, <1>0, <1>c, FirstStatementIInv DEF SetDefaultAddress
  <1>4. ASSUME NEW p \in Procs, NEW a \in AddressIds, DeleteAddress(p, a)
        PROVE  AddressIInv'
    <2> DEFINE rest == [address EXCEPT ![a] = "none"]
    <2>1. rest \in Table /\ (OneDefault(address) => OneDefault(rest))
      BY <1>0 DEF Table, OneDefault
    <2>2. CASE address[a] = "default" /\ Stored # {a}
      <3>1. PICK b \in Stored \ {a} : FirstStatement(p, rest, b, "default")
        BY <1>4, <2>2 DEF DeleteAddress
      <3>2. OneDefault(address) => OneDefault([rest EXCEPT ![b] = "default"])
        BY <1>0, <2>2, <3>1 DEF OneDefault, Table, Stored
      <3>3. b \in AddressIds
        BY <3>1 DEF Stored
      <3> HIDE DEF rest
      <3> QED  BY <2>1, <3>1, <3>2, <3>3, FirstStatementIInv DEF AddressIInv
    <2>3. CASE ~(address[a] = "default" /\ Stored # {a})
      <3>1. address' = rest /\ call' = call /\ entangled' = entangled
        BY <1>4, <2>3 DEF DeleteAddress, OneStep
      <3> QED  BY <2>1, <3>1 DEF AddressIInv, AddressesTypeOK, Table, OneDefault
    <2> QED  BY <2>2, <2>3
  <1>5. ASSUME NEW p \in Procs, WriteAddress(p)
        PROVE  AddressIInv'
    BY <1>5, WriteAddressIInv
  <1>7. ASSUME NEW p \in Procs, Dies(p), UNCHANGED addressVars
        PROVE  AddressIInv'
    <2>1. call' = [call EXCEPT ![p] = NoCall] /\ address' = address /\ entangled' = entangled
      BY <1>7 DEF Dies, addressVars
    <2>2. call' \in [Procs -> AddressCall \cup {NoCall}] /\ call'[p] = NoCall
          /\ \A q \in Procs \ {p} : call'[q] = call[q]
      BY <2>1 DEF AddressIInv
    <2> QED  BY <2>1, <2>2 DEF AddressIInv, AddressesTypeOK, OneDefault
  <1>6. CASE UNCHANGED <<addressVars, requestVars>>
    BY <1>6 DEF AddressIInv, AddressesTypeOK, OneDefault, addressVars, requestVars
  <1> QED  BY <1>1, <1>2, <1>3, <1>4, <1>5, <1>6, <1>7 DEF AddressesNext

(* A customer's addresses never show two defaults, unless two changes      *)
(* overlapped, whichever change fails half way and however many addresses  *)
(* and handlers there are.                                                 *)
THEOREM AddressDefault == AddressesSpec => []OneDefaultAddress
  <1>1. AddressIInv => OneDefaultAddress
    BY DEF AddressIInv, OneDefaultAddress, OneDefault
  <1> QED  BY <1>1, AddressInitIInv, AddressNextIInv, PTL DEF AddressesSpec

-----------------------------------------------------------------------------
(* Suspensions.  What is true of a subject that is settled: at most one    *)
(* decision is in its middle, and the subject's standing is what its       *)
(* notices say, or what that decision will make them say.                  *)

DecidedOn(p, s) == call[p] # NoCall /\ call[p].pc = "decided" /\ call[p].subject = s

OneDecision(s) == \A p, q \in Procs : DecidedOn(p, s) /\ DecidedOn(q, s) => p = q
AsNoticed(s) ==
  (\A p \in Procs : ~DecidedOn(p, s)) => (standing[s] = "suspended" <=> Enforced(s) # {})
AsDecided(s) ==
  \A p \in Procs : DecidedOn(p, s) => (standing[s] = "suspended" <=> InForce(call[p].row))

Settled(s) == OneDecision(s) /\ AsNoticed(s) /\ AsDecided(s)

NoticesNamed == \A n \in NoticeIds : notice[n].status = "none" <=> notice[n].subject = NoSubject

(* A handler is about the subject of its notice, and one that leaves the   *)
(* standing leaves the notice in force, or not, as it was read.            *)
HandlingOK(p) ==
  call[p] # NoCall =>
    /\ call[p].row.subject = call[p].subject /\ call[p].row.status # "none"
    /\ notice[call[p].notice].subject \in {NoSubject, call[p].subject}
    /\ \A q \in Procs : call[q] # NoCall /\ call[q].notice = call[p].notice =>
         call[q].subject = call[p].subject
    /\ call[p].pc = "notice" => /\ call[p].read.subject = call[p].subject
                                /\ InForce(call[p].row) <=> InForce(call[p].read)
    /\ call[p].pc # "notice" => call[p].row.status \in {"suspended", "reinstated"}

SuspensionIInv ==
  /\ SuspensionsTypeOK
  /\ call \in [Procs -> NoticeCall \cup {NoCall}]
  /\ NoticesNamed /\ \A p \in Procs : HandlingOK(p)
  /\ \A s \in Subjects \ unsettled : Settled(s)

LEMMA SuspensionInitIInv == RequestsInit /\ SuspensionsInit => SuspensionIInv
  <1> SUFFICES ASSUME RequestsInit, SuspensionsInit
               PROVE  SuspensionIInv
    OBVIOUS
  <1>1. /\ SuspensionsTypeOK /\ call \in [Procs -> NoticeCall \cup {NoCall}]
        /\ \A p \in Procs : call[p] = NoCall
    BY DEF RequestsInit, SuspensionsInit, SuspensionsTypeOK, Notice, Standings
  <1>2. \A n \in NoticeIds : notice[n].status = "none" /\ notice[n].subject = NoSubject
    BY DEF SuspensionsInit
  <1>3. \A s \in Subjects : standing[s] = "active" /\ Enforced(s) = {}
    BY <1>2 DEF SuspensionsInit, Enforced, InForce
  <1>4. \A s \in Subjects : Settled(s)
    BY <1>1, <1>3 DEF Settled, OneDecision, AsNoticed, AsDecided, DecidedOn
  <1> QED  BY <1>1, <1>2, <1>4 DEF SuspensionIInv, NoticesNamed, HandlingOK

(* The set of the specification, handler by handler.                       *)
LEMMA DecidingIsDecidedOn ==
  ASSUME NEW s \in Subjects
  PROVE  Deciding(s) = {p \in Procs : DecidedOn(p, s)}
  BY DEF Deciding, InFlight, At, DecidedOn

LEMMA NoticeSlot ==
  ASSUME SuspensionIInv, NEW p \in Procs, NEW x \in NoticeCall \cup {NoCall},
         call' = [call EXCEPT ![p] = x]
  PROVE  /\ call' \in [Procs -> NoticeCall \cup {NoCall}] /\ call'[p] = x
         /\ \A q \in Procs \ {p} : call'[q] = call[q]
  BY DEF SuspensionIInv

LEMMA NoticeCalls ==
  ASSUME SuspensionIInv, NEW p \in Procs, call[p] # NoCall
  PROVE  \E c \in NoticeCall : c = call[p] /\ c # NoCall
  BY DEF SuspensionIInv

(* What a step does to other subjects leaves a subject settled.            *)
LEMMA Elsewhere ==
  ASSUME NEW s \in Subjects, Settled(s), standing'[s] = standing[s],
         (Enforced(s) # {})' <=> Enforced(s) # {},
         \A p \in Procs : /\ DecidedOn(p, s) => call'[p] = call[p]
                          /\ DecidedOn(p, s)' => DecidedOn(p, s)
  PROVE  Settled(s)'
  <1>1. \A p \in Procs : DecidedOn(p, s)' <=> DecidedOn(p, s)
    BY DEF DecidedOn
  <1>2. OneDecision(s)' /\ AsNoticed(s)'
    BY <1>1 DEF Settled, OneDecision, AsNoticed
  <1>3. AsDecided(s)'
    BY <1>1 DEF Settled, AsDecided
  <1> QED  BY <1>2, <1>3 DEF Settled

LEMMA SetStatusElsewhereIInv ==
  ASSUME SuspensionIInv, NEW s \in Subjects, NEW status \in Standings, SetStatusElsewhere(s, status)
  PROVE  SuspensionIInv'
  <1>1. /\ standing' = [standing EXCEPT ![s] = status] /\ notice' = notice /\ call' = call
        /\ unsettled' = unsettled \cup {s}
    BY DEF SetStatusElsewhere, OneStep
  <1>2. SuspensionsTypeOK' /\ NoticesNamed'
    BY <1>1 DEF SuspensionIInv, SuspensionsTypeOK, NoticesNamed
  <1>3. call' \in [Procs -> NoticeCall \cup {NoCall}] /\ \A p \in Procs : HandlingOK(p)'
    BY <1>1 DEF SuspensionIInv, HandlingOK
  <1>4. ASSUME NEW u \in Subjects \ unsettled' PROVE Settled(u)'
    <2>1. Settled(u) /\ standing'[u] = standing[u]
      BY <1>1 DEF SuspensionIInv, SuspensionsTypeOK
    <2>2. Enforced(u)' = Enforced(u) /\ \A p \in Procs : DecidedOn(p, u)' <=> DecidedOn(p, u)
      BY <1>1 DEF Enforced, DecidedOn
    <2> QED  BY <2>1, <2>2, <1>1, Elsewhere
  <1> QED  BY <1>2, <1>3, <1>4 DEF SuspensionIInv

(* A handler that begins, its notice read.                                 *)
LEMMA HandleIInv ==
  ASSUME SuspensionIInv, NEW p \in Procs, NEW n \in NoticeIds, NEW s \in Subjects,
         NEW pc \in {"standing", "notice"}, NEW row \in Notice, Handle(p, n, s, pc, row),
         row.subject = s, row.status # "none", notice[n].subject \in {NoSubject, s},
         \A q \in Procs : call[q] # NoCall /\ call[q].notice = n => call[q].subject = s,
         pc = "notice" => notice[n].subject = s /\ (InForce(row) <=> InForce(notice[n])),
         pc = "standing" => row.status \in {"suspended", "reinstated"}
  PROVE  SuspensionIInv'
  <1> DEFINE x == [pc |-> pc, notice |-> n, subject |-> s, row |-> row, read |-> notice[n]]
  <1>1. /\ UNCHANGED <<standing, notice, unsettled>>
        /\ call[p] = NoCall /\ call' = [call EXCEPT ![p] = x]
    BY DEF Handle, Begin, suspensionVars
  <1>2. /\ x \in NoticeCall /\ x.pc = pc /\ x.notice = n /\ x.subject = s /\ x.row = row
        /\ x.read = notice[n] /\ x # NoCall
    BY SuspensionConstantsOK DEF NoticeCall, SuspensionIInv, SuspensionsTypeOK
  <1> HIDE DEF x
  <1>3. /\ call' \in [Procs -> NoticeCall \cup {NoCall}] /\ call'[p] = x
        /\ \A q \in Procs \ {p} : call'[q] = call[q]
    BY <1>1, <1>2, NoticeSlot
  <1>4. SuspensionsTypeOK' /\ NoticesNamed'
    BY <1>1 DEF SuspensionIInv, SuspensionsTypeOK, NoticesNamed
  <1>5. ASSUME NEW q \in Procs PROVE HandlingOK(q)'
    <2>1. CASE q = p
      BY <2>1, <1>1, <1>2, <1>3 DEF HandlingOK
    <2>2. CASE q # p
      BY <2>2, <1>1, <1>2, <1>3 DEF HandlingOK, SuspensionIInv
    <2> QED  BY <2>1, <2>2
  <1>6. ASSUME NEW u \in Subjects \ unsettled' PROVE Settled(u)'
    <2>1. Settled(u) /\ Enforced(u)' = Enforced(u)
      BY <1>1 DEF SuspensionIInv, Enforced
    <2>2. \A q \in Procs : /\ DecidedOn(q, u) => call'[q] = call[q]
                           /\ DecidedOn(q, u)' => DecidedOn(q, u)
      BY <1>1, <1>2, <1>3 DEF DecidedOn
    <2> QED  BY <2>1, <2>2, <1>1, Elsewhere
  <1> QED  BY <1>3, <1>4, <1>5, <1>6 DEF SuspensionIInv

LEMMA IssueNoticeIInv ==
  ASSUME SuspensionIInv, NEW n \in NoticeIds, NEW s \in Subjects, IssueNotice(n, s)
  PROVE  SuspensionIInv'
  <1> DEFINE row == [notice[n] EXCEPT !.status = "notice", !.subject = s]
  <1>1. /\ notice[n].status = "none" /\ \A p \in Procs : call[p] # NoCall => call[p].notice # n
        /\ notice' = [notice EXCEPT ![n] = row] /\ UNCHANGED <<standing, unsettled, call>>
    BY DEF IssueNotice, OneStep, Handled
  <1>2. row \in Notice /\ row.status = "notice" /\ row.subject = s
    BY DEF SuspensionIInv, SuspensionsTypeOK, Notice
  <1> HIDE DEF row
  <1>3. notice'[n] = row /\ \A m \in NoticeIds \ {n} : notice'[m] = notice[m]
    BY <1>1 DEF SuspensionIInv, SuspensionsTypeOK
  <1>4. SuspensionsTypeOK' /\ NoticesNamed'
    BY <1>1, <1>2, <1>3, SuspensionConstantsOK DEF SuspensionIInv, SuspensionsTypeOK, NoticesNamed
  <1>5. call' \in [Procs -> NoticeCall \cup {NoCall}]
    BY <1>1 DEF SuspensionIInv
  <1>6. ASSUME NEW p \in Procs PROVE HandlingOK(p)'
    <2>1. CASE call[p] = NoCall
      BY <2>1, <1>1 DEF HandlingOK
    <2>2. CASE call[p] # NoCall
      <3>1. notice'[call[p].notice] = notice[call[p].notice]
        BY <2>2, <1>1
      <3> QED  BY <2>2, <3>1, <1>1 DEF HandlingOK, SuspensionIInv
    <2> QED  BY <2>1, <2>2
  <1>7. ASSUME NEW u \in Subjects \ unsettled' PROVE Settled(u)'
    <2>1. Settled(u)
      BY <1>1 DEF SuspensionIInv
    <2>2. Enforced(u)' = Enforced(u)
      BY <1>1, <1>2, <1>3 DEF Enforced, InForce
    <2>3. \A p \in Procs : DecidedOn(p, u)' <=> DecidedOn(p, u)
      BY <1>1 DEF DecidedOn
    <2> QED  BY <2>1, <2>2, <2>3, <1>1, Elsewhere
  <1> QED  BY <1>4, <1>5, <1>6, <1>7 DEF SuspensionIInv

(* The subject's status is saved: a decision in its middle.                *)
LEMMA SetStandingIInv ==
  ASSUME SuspensionIInv, NEW p \in Procs, SetStanding(p)
  PROVE  SuspensionIInv'
  <1>1. call[p] # NoCall /\ call[p].pc = "standing" /\ HandlingOK(p)
    BY DEF SetStanding, At, SuspensionIInv
  <1>2. PICK c \in NoticeCall : c = call[p] /\ c # NoCall
    BY <1>1, NoticeCalls
  <1> DEFINE x == [c EXCEPT !.pc = "decided"]
             s == c.subject
  <1>3. s \in Subjects /\ c.row \in Notice /\ c.row.status \in {"suspended", "reinstated"}
    BY <1>1, <1>2 DEF NoticeCall, HandlingOK
  <1>4. /\ x \in NoticeCall /\ x.pc = "decided" /\ x.notice = c.notice /\ x.subject = s
        /\ x.row = c.row /\ x.read = c.read /\ x # NoCall
    BY SuspensionConstantsOK DEF NoticeCall
  <1>5. /\ call' = [call EXCEPT ![p] = x] /\ notice' = notice
        /\ standing' = [standing EXCEPT ![s] = IF InForce(c.row) THEN "suspended" ELSE "active"]
        /\ unsettled' = IF Deciding(s) = {} THEN unsettled \ {s} ELSE unsettled \cup {s}
    BY <1>2 DEF SetStanding, Goto, GotoState
  <1> HIDE DEF x
  <1>6. /\ call' \in [Procs -> NoticeCall \cup {NoCall}] /\ call'[p] = x
        /\ \A q \in Procs \ {p} : call'[q] = call[q]
    BY <1>4, <1>5, NoticeSlot
  <1>7. SuspensionsTypeOK' /\ NoticesNamed'
    BY <1>3, <1>5 DEF SuspensionIInv, SuspensionsTypeOK, NoticesNamed, Standings
  <1>8. ASSUME NEW q \in Procs PROVE HandlingOK(q)'
    <2>1. CASE q = p
      BY <2>1, <1>1, <1>2, <1>3, <1>4, <1>5, <1>6 DEF HandlingOK
    <2>2. CASE q # p
      BY <2>2, <1>1, <1>2, <1>4, <1>5, <1>6 DEF HandlingOK, SuspensionIInv
    <2> QED  BY <2>1, <2>2
  <1>9. ASSUME NEW u \in Subjects \ unsettled' PROVE Settled(u)'
    <2>1. CASE u # s
      <3>1. Settled(u) /\ standing'[u] = standing[u]
        BY <2>1, <1>3, <1>5 DEF SuspensionIInv, SuspensionsTypeOK
      <3>2. Enforced(u)' = Enforced(u)
        BY <1>5 DEF Enforced
      <3>3. \A q \in Procs : /\ DecidedOn(q, u) => call'[q] = call[q]
                             /\ DecidedOn(q, u)' => DecidedOn(q, u)
        BY <2>1, <1>1, <1>2, <1>4, <1>6 DEF DecidedOn
      <3> QED  BY <3>1, <3>2, <3>3, Elsewhere
    <2>2. CASE u = s
      <3>1. Deciding(s) = {}
        BY <2>2, <1>5
      <3>2. \A q \in Procs : ~DecidedOn(q, s)
        BY <3>1, <1>3, DecidingIsDecidedOn
      <3>3. \A q \in Procs : DecidedOn(q, s)' <=> q = p
        BY <3>2, <1>4, <1>6 DEF DecidedOn
      <3>4. standing'[s] = "suspended" <=> InForce(c.row)
        BY <1>3, <1>5 DEF SuspensionIInv, SuspensionsTypeOK
      <3>5. OneDecision(s)' /\ AsNoticed(s)'
        BY <3>3 DEF OneDecision, AsNoticed
      <3>6. AsDecided(s)'
        BY <3>3, <3>4, <1>4, <1>6 DEF AsDecided
      <3> HIDE DEF s
      <3> QED  BY <2>2, <3>5, <3>6 DEF Settled
    <2> QED  BY <2>1, <2>2
  <1> QED  BY <1>6, <1>7, <1>8, <1>9 DEF SuspensionIInv

(* The notice is saved.                                                    *)
LEMMA SaveNoticeIInv ==
  ASSUME SuspensionIInv, NEW p \in Procs, SaveNotice(p)
  PROVE  SuspensionIInv'
  <1>1. call[p] # NoCall /\ call[p].pc \in {"decided", "notice"} /\ HandlingOK(p)
    BY DEF SaveNotice, At, SuspensionIInv
  <1>2. PICK c \in NoticeCall : c = call[p] /\ c # NoCall
    BY <1>1, NoticeCalls
  <1> DEFINE s == c.subject
             n == c.notice
  <1>3. s \in Subjects /\ n \in NoticeIds /\ c.row \in Notice
    BY DEF NoticeCall
  <1>4. /\ c.row.subject = s /\ c.row.status # "none" /\ notice[n].subject \in {NoSubject, s}
        /\ \A q \in Procs : call[q] # NoCall /\ call[q].notice = n => call[q].subject = s
        /\ c.pc = "notice" => c.read.subject = s /\ (InForce(c.row) <=> InForce(c.read))
        /\ c.pc # "notice" => c.row.status \in {"suspended", "reinstated"}
    BY <1>1, <1>2 DEF HandlingOK
  <1>5. /\ call' = [call EXCEPT ![p] = NoCall] /\ standing' = standing
        /\ notice' = [notice EXCEPT ![n] = c.row]
        /\ unsettled' = IF notice[n] # c.read \/ (c.row.status = "reinstated" /\ Enforced(s) # {n})
                        THEN unsettled \cup {s} ELSE unsettled
    BY <1>2 DEF SaveNotice, End, GotoState
  <1>6. /\ call' \in [Procs -> NoticeCall \cup {NoCall}] /\ call'[p] = NoCall
        /\ \A q \in Procs \ {p} : call'[q] = call[q]
    BY <1>5, NoticeSlot
  <1>7. notice'[n] = c.row /\ \A m \in NoticeIds \ {n} : notice'[m] = notice[m]
    BY <1>3, <1>5 DEF SuspensionIInv, SuspensionsTypeOK
  <1>8. SuspensionsTypeOK'
    BY <1>3, <1>5 DEF SuspensionIInv, SuspensionsTypeOK
  <1>9. NoticesNamed'
    BY <1>3, <1>4, <1>7, SuspensionConstantsOK DEF SuspensionIInv, NoticesNamed
  <1>10. ASSUME NEW q \in Procs PROVE HandlingOK(q)'
    <2>1. CASE call'[q] = NoCall
      BY <2>1 DEF HandlingOK
    <2>2. CASE call'[q] # NoCall
      <3>1. /\ call'[q] = call[q] /\ HandlingOK(q) /\ call[q] # NoCall
            /\ call[q].notice = n => call[q].subject = s
        BY <2>2, <1>4, <1>6 DEF SuspensionIInv
      <3>2. call[q].notice \in NoticeIds
        BY <3>1 DEF SuspensionIInv, NoticeCall
      <3>3. notice'[call[q].notice].subject \in {NoSubject, call[q].subject}
        BY <3>1, <3>2, <1>4, <1>7 DEF HandlingOK
      <3>4. \A r \in Procs : call'[r] # NoCall => call'[r] = call[r]
        BY <1>6
      <3> QED  BY <3>1, <3>3, <3>4 DEF HandlingOK
    <2> QED  BY <2>1, <2>2
  <1> HIDE DEF s, n
  <1>11. ASSUME NEW u \in Subjects \ unsettled' PROVE Settled(u)'
    <2>0. u \notin unsettled /\ Settled(u)
      BY <1>5 DEF SuspensionIInv
    <2>1. CASE u # s
      <3>1. Enforced(u)' = Enforced(u)
        BY <2>1, <1>3, <1>4, <1>7, SuspensionConstantsOK DEF Enforced
      <3>2. \A q \in Procs : /\ DecidedOn(q, u) => call'[q] = call[q]
                             /\ DecidedOn(q, u)' => DecidedOn(q, u)
        BY <2>1, <1>2, <1>6 DEF DecidedOn, s
      <3> QED  BY <2>0, <3>1, <3>2, <1>5, Elsewhere
    <2>2. CASE u = s /\ c.pc = "notice"
      <3>1. notice[n] = c.read
        BY <2>2, <1>5
      <3>2. Enforced(u)' = Enforced(u)
        BY <2>2, <3>1, <1>3, <1>4, <1>7 DEF Enforced
      <3>3. \A q \in Procs : /\ DecidedOn(q, u) => call'[q] = call[q]
                             /\ DecidedOn(q, u)' => DecidedOn(q, u)
        BY <2>2, <1>2, <1>6 DEF DecidedOn
      <3> QED  BY <2>0, <3>2, <3>3, <1>5, Elsewhere
    <2>3. CASE u = s /\ c.pc = "decided"
      <3>1. DecidedOn(p, u) /\ (standing[u] = "suspended" <=> InForce(c.row))
        BY <2>0, <2>3, <1>1, <1>2 DEF Settled, AsDecided, DecidedOn, s
      <3>2. \A q \in Procs : ~DecidedOn(q, u)'
        BY <2>0, <3>1, <1>6 DEF Settled, OneDecision, DecidedOn
      <3>3. InForce(c.row) <=> Enforced(u)' # {}
        <4>1. CASE c.row.status = "suspended"
          <5>1. n \in Enforced(u)' /\ InForce(c.row)
            BY <4>1, <2>3, <1>3, <1>4, <1>7 DEF Enforced, InForce
          <5> QED  BY <5>1
        <4>2. CASE c.row.status = "reinstated"
          <5>1. Enforced(u) = {n} /\ ~InForce(c.row)
            BY <4>2, <2>3, <1>5 DEF InForce
          <5>2. \A m \in NoticeIds : m # n => ~(notice[m].subject = u /\ InForce(notice[m]))
            BY <5>1 DEF Enforced
          <5>3. Enforced(u)' = {}
            BY <5>1, <5>2, <1>7 DEF Enforced
          <5> QED  BY <5>1, <5>3
        <4> QED  BY <4>1, <4>2, <2>3, <1>4
      <3> QED  BY <3>1, <3>2, <3>3, <1>5 DEF Settled, OneDecision, AsNoticed, AsDecided
    <2> QED  BY <2>1, <2>2, <2>3, <1>1, <1>2
  <1> QED  BY <1>6, <1>8, <1>9, <1>10, <1>11 DEF SuspensionIInv

LEMMA HandlingDiesIInv ==
  ASSUME SuspensionIInv, NEW p \in Procs, HandlingDies(p)
  PROVE  SuspensionIInv'
  <1>1. /\ call[p] # NoCall /\ UNCHANGED <<standing, notice>>
        /\ unsettled' = IF At(p, "decided") THEN unsettled \cup {call[p].subject} ELSE unsettled
        /\ call' = [call EXCEPT ![p] = NoCall]
    BY DEF HandlingDies, Dies
  <1>2. PICK c \in NoticeCall : c = call[p] /\ c # NoCall
    BY <1>1, NoticeCalls
  <1>3. /\ call' \in [Procs -> NoticeCall \cup {NoCall}] /\ call'[p] = NoCall
        /\ \A q \in Procs \ {p} : call'[q] = call[q]
    BY <1>1, NoticeSlot
  <1>4. c.subject \in Subjects
    BY DEF NoticeCall
  <1>5. SuspensionsTypeOK' /\ NoticesNamed'
    BY <1>1, <1>2, <1>4 DEF SuspensionIInv, SuspensionsTypeOK, NoticesNamed
  <1>6. \A q \in Procs : HandlingOK(q)'
    BY <1>1, <1>3 DEF SuspensionIInv, HandlingOK
  <1>7. ASSUME NEW u \in Subjects \ unsettled' PROVE Settled(u)'
    <2>1. Settled(u) /\ ~DecidedOn(p, u)
      BY <1>1 DEF SuspensionIInv, At, DecidedOn
    <2>2. \A q \in Procs : /\ DecidedOn(q, u) => call'[q] = call[q]
                           /\ DecidedOn(q, u)' => DecidedOn(q, u)
      BY <1>3, <2>1 DEF DecidedOn
    <2>3. Enforced(u)' = Enforced(u)
      BY <1>1 DEF Enforced
    <2> QED  BY <2>1, <2>2, <2>3, <1>1, Elsewhere
  <1> QED  BY <1>3, <1>5, <1>6, <1>7 DEF SuspensionIInv

LEMMA ImmediateSuspendIInv ==
  ASSUME SuspensionIInv, NEW p \in Procs, NEW n \in NoticeIds, NEW s \in Subjects,
         ImmediateSuspend(p, n, s)
  PROVE  SuspensionIInv'
  <1> DEFINE row == [status |-> "suspended", subject |-> s, immediate |-> TRUE, answered |-> FALSE]
  <1>1. row \in Notice /\ row.subject = s /\ row.status = "suspended"
    BY DEF Notice
  <1>2. Handle(p, n, s, "standing", row) /\ notice[n].subject = NoSubject
    BY DEF ImmediateSuspend, SuspensionIInv, NoticesNamed
  <1>3. \A q \in Procs : call[q] # NoCall => call[q].notice # n
    BY DEF ImmediateSuspend, Handled
  <1> HIDE DEF row
  <1> QED  BY <1>1, <1>2, <1>3, HandleIInv

(* The handlers of a notice that is there.                                 *)
LEMMA NoticeHandledIInv ==
  ASSUME SuspensionIInv, NEW p \in Procs, NEW n \in NoticeIds, NEW pc \in {"standing", "notice"},
         NEW row \in Notice, Handle(p, n, notice[n].subject, pc, row),
         notice[n].status # "none", row.subject = notice[n].subject, row.status # "none",
         pc = "notice" => (InForce(row) <=> InForce(notice[n])),
         pc = "standing" => row.status \in {"suspended", "reinstated"}
  PROVE  SuspensionIInv'
  <1>1. notice[n].subject \in Subjects
    BY DEF SuspensionIInv, SuspensionsTypeOK, NoticesNamed, Notice
  <1>2. \A q \in Procs : call[q] # NoCall /\ call[q].notice = n => call[q].subject = notice[n].subject
    BY <1>1, SuspensionConstantsOK DEF SuspensionIInv, HandlingOK
  <1> QED  BY <1>1, <1>2, HandleIInv

LEMMA NoticeStatus ==
  ASSUME SuspensionIInv, NEW n \in NoticeIds
  PROVE  \A st \in {"suspended", "reinstated", "withdrawn", "under_review"} :
           /\ [notice[n] EXCEPT !.status = st] \in Notice
           /\ [notice[n] EXCEPT !.status = st].status = st
           /\ [notice[n] EXCEPT !.status = st].subject = notice[n].subject
  <1>1. notice[n] \in Notice
    BY DEF SuspensionIInv, SuspensionsTypeOK
  <1> QED  BY <1>1 DEF Notice

LEMMA NoticeHandlersIInv ==
  ASSUME SuspensionIInv, NEW p \in Procs, NEW n \in NoticeIds,
         Enforce(p, n) \/ Withdraw(p, n) \/ Respond(p, n) \/ RequestReview(p, n)
  PROVE  SuspensionIInv'
  <1> DEFINE with(st) == [notice[n] EXCEPT !.status = st]
             answered == [notice[n] EXCEPT !.answered = TRUE]
  <1>1. \A st \in {"suspended", "reinstated", "withdrawn", "under_review"} :
           with(st) \in Notice /\ with(st).status = st /\ with(st).subject = notice[n].subject
    BY NoticeStatus
  <1>2. /\ answered \in Notice /\ answered.status = notice[n].status
        /\ answered.subject = notice[n].subject
    BY DEF SuspensionIInv, SuspensionsTypeOK, Notice
  <1>3. \/ notice[n].status = "notice" /\ Handle(p, n, notice[n].subject, "standing", with("suspended"))
        \/ notice[n].status = "notice" /\ Handle(p, n, notice[n].subject, "notice", with("withdrawn"))
        \/ notice[n].status = "notice" /\ Handle(p, n, notice[n].subject, "notice", answered)
        \/ notice[n].status = "suspended" /\ Handle(p, n, notice[n].subject, "notice", with("under_review"))
    BY DEF Enforce, Withdraw, Respond, RequestReview
  <1> HIDE DEF with, answered
  <1> QED  BY <1>1, <1>2, <1>3, NoticeHandledIInv DEF InForce

LEMMA DecideReviewIInv ==
  ASSUME SuspensionIInv, NEW p \in Procs, NEW n \in NoticeIds,
         NEW decision \in {"upheld", "overturned"}, DecideReview(p, n, decision)
  PROVE  SuspensionIInv'
  <1> DEFINE with(st) == [notice[n] EXCEPT !.status = st]
  <1>1. \A st \in {"suspended", "reinstated", "withdrawn", "under_review"} :
           with(st) \in Notice /\ with(st).status = st /\ with(st).subject = notice[n].subject
    BY NoticeStatus
  <1>2. /\ notice[n].status = "under_review"
        /\ \/ Handle(p, n, notice[n].subject, "standing", with("reinstated"))
           \/ Handle(p, n, notice[n].subject, "notice", with("suspended"))
    BY DEF DecideReview
  <1> HIDE DEF with
  <1> QED  BY <1>1, <1>2, NoticeHandledIInv DEF InForce

LEMMA SuspensionNextIInv ==
  SuspensionIInv /\ [SuspensionsNext]_<<suspensionVars, requestVars>> => SuspensionIInv'
  <1> SUFFICES ASSUME SuspensionIInv, [SuspensionsNext]_<<suspensionVars, requestVars>>
               PROVE  SuspensionIInv'
    OBVIOUS
  <1>1. ASSUME NEW s \in Subjects,
               \/ \E status \in Standings : SetStatusElsewhere(s, status)
               \/ \E n \in NoticeIds : IssueNotice(n, s)
               \/ \E p \in Procs, n \in NoticeIds : ImmediateSuspend(p, n, s)
        PROVE  SuspensionIInv'
    BY <1>1, SetStatusElsewhereIInv, IssueNoticeIInv, ImmediateSuspendIInv
  <1>2. ASSUME NEW p \in Procs, NEW n \in NoticeIds,
               \/ Enforce(p, n) \/ Withdraw(p, n) \/ Respond(p, n) \/ RequestReview(p, n)
               \/ \E decision \in {"upheld", "overturned"} : DecideReview(p, n, decision)
        PROVE  SuspensionIInv'
    BY <1>2, NoticeHandlersIInv, DecideReviewIInv
  <1>3. ASSUME NEW p \in Procs, SetStanding(p) \/ SaveNotice(p) \/ HandlingDies(p)
        PROVE  SuspensionIInv'
    BY <1>3, SetStandingIInv, SaveNoticeIInv, HandlingDiesIInv
  <1>4. CASE UNCHANGED <<suspensionVars, requestVars>>
    <2>1. UNCHANGED <<standing, notice, unsettled, call>>
      BY <1>4 DEF suspensionVars, requestVars
    <2>2. \A s \in Subjects : Settled(s) => Settled(s)'
      BY <2>1 DEF Settled, OneDecision, AsNoticed, AsDecided, DecidedOn, Enforced
    <2> QED  BY <2>1, <2>2 DEF SuspensionIInv, SuspensionsTypeOK, NoticesNamed, HandlingOK
  <1> QED  BY <1>1, <1>2, <1>3, <1>4 DEF SuspensionsNext

(* Once no decision is in its middle a subject is suspended exactly while  *)
(* one of its notices is in force, unless its status was last set without  *)
(* a notice or its last decision overlapped another, died half way, was    *)
(* saved over a changed notice or left another notice in force; for any    *)
(* number of subjects, notices and handlers.                               *)
THEOREM NoticeStanding == SuspensionsSpec => []NoticeTellsStanding
  <1>1. ASSUME SuspensionIInv PROVE NoticeTellsStanding
    <2> SUFFICES ASSUME NEW s \in Subjects \ unsettled, Deciding(s) = {}
                 PROVE  standing[s] = "suspended" <=> Enforced(s) # {}
      BY DEF NoticeTellsStanding
    <2>1. \A p \in Procs : ~DecidedOn(p, s)
      BY DecidingIsDecidedOn
    <2> QED  BY <2>1, <1>1 DEF SuspensionIInv, Settled, AsNoticed
  <1> QED  BY <1>1, SuspensionInitIInv, SuspensionNextIInv, PTL DEF SuspensionsSpec

-----------------------------------------------------------------------------
(* The blog.  A copy in a handler keeps what the row it was read from had  *)
(* promised, so that its save may only break the promise of a row another  *)
(* handler has changed since; and no copy holds a public text that has not *)
(* been in review, whatever overlapped.                                    *)

PostCall == [pc : {"blog"}, id : PostIds, row : Post, read : Post]

SoundPost(row) ==
  /\ row.status # "none" => row.slug \in Slugs
  /\ row.status = "in_review" => row.text \in Drafts
  /\ row.first => row.status # "none" /\ row.live # NoText

KeepsPromise(read, row) == read.first => row.first /\ row.slug = read.slug

BlogIInv ==
  /\ BlogTypeOK
  /\ call \in [Procs -> PostCall \cup {NoCall}]
  /\ \A b \in PostIds :
       /\ SoundPost(post[b])
       /\ post[b].live \in submitted[b] \cup {NoText}
       /\ post[b].status = "in_review" => post[b].text \in submitted[b]
       /\ b \notin postRaced /\ promised[b] # NoSlug => post[b].first /\ post[b].slug = promised[b]
  /\ \A p \in Procs : call[p] # NoCall =>
       /\ SoundPost(call[p].row) /\ KeepsPromise(call[p].read, call[p].row)
       /\ call[p].row.live \in submitted[call[p].id] \cup {NoText}
       /\ call[p].row.status = "in_review" => call[p].read.status # "in_review"

LEMMA BlogInitIInv == RequestsInit /\ BlogInit => BlogIInv
  <1> SUFFICES ASSUME RequestsInit, BlogInit
               PROVE  BlogIInv
    OBVIOUS
  <1>1. NoPost \in Post /\ SoundPost(NoPost) /\ NoPost.live = NoText /\ NoPost.status = "none"
    BY DEF NoPost, Post, SoundPost
  <1> QED  BY <1>1 DEF RequestsInit, BlogInit, BlogIInv, BlogTypeOK

(* A handler reads a row and changes its copy.                             *)
LEMMA ReadPostIInv ==
  ASSUME BlogIInv, NEW p \in Procs, NEW b \in PostIds, NEW row \in Post, ReadPost(p, b, row),
         SoundPost(row), KeepsPromise(post[b], row), row.live \in submitted[b] \cup {NoText},
         row.status = "in_review" => post[b].status # "in_review"
  PROVE  BlogIInv'
  <1> DEFINE c == [pc |-> "blog", id |-> b, row |-> row, read |-> post[b]]
  <1>1. call' = [call EXCEPT ![p] = c] /\ UNCHANGED blogVars
    BY DEF ReadPost, Begin
  <1>2. c \in PostCall /\ c.id = b /\ c.row = row /\ c.read = post[b]
    BY DEF PostCall, BlogIInv, BlogTypeOK
  <1> HIDE DEF c
  <1>3. call' \in [Procs -> PostCall \cup {NoCall}] /\ call'[p] = c
        /\ \A q \in Procs \ {p} : call'[q] = call[q]
    BY <1>1, <1>2 DEF BlogIInv
  <1>4. BlogTypeOK'
    BY <1>1 DEF BlogIInv, BlogTypeOK, blogVars
  <1> QED  BY <1>1, <1>2, <1>3, <1>4 DEF BlogIInv, blogVars

(* The copy is saved, unless another post has taken its address.           *)
LEMMA SavePostIInv ==
  ASSUME BlogIInv, NEW p \in Procs, SavePost(p)
  PROVE  BlogIInv'
  <1> DEFINE c == call[p]
  <1>1. /\ c \in PostCall /\ c # NoCall /\ call' = [call EXCEPT ![p] = NoCall]
    BY DEF SavePost, At, End, GotoState, BlogIInv
  <1>2. /\ c.id \in PostIds /\ c.row \in Post /\ SoundPost(c.row) /\ KeepsPromise(c.read, c.row)
        /\ c.row.live \in submitted[c.id] \cup {NoText}
        /\ c.row.status = "in_review" => c.read.status # "in_review"
    BY <1>1 DEF PostCall, BlogIInv
  <1>3. call' \in [Procs -> PostCall \cup {NoCall}] /\ call'[p] = NoCall
        /\ \A q \in Procs \ {p} : call'[q] = call[q]
    BY <1>1 DEF BlogIInv
  <1>4. CASE UNCHANGED blogVars
    BY <1>3, <1>4 DEF BlogIInv, BlogTypeOK, blogVars
  <1>5. CASE ~UNCHANGED blogVars
    <2> DEFINE added == {t \in {c.row.text} : c.row.status = "in_review" /\ c.read.status # "in_review"}
    <2>1. /\ post' = [post EXCEPT ![c.id] = c.row]
          /\ submitted' = [submitted EXCEPT ![c.id] = @ \cup added]
          /\ promised' = [promised EXCEPT ![c.id] = IF @ = NoSlug /\ c.row.first THEN c.row.slug ELSE @]
          /\ postRaced' = postRaced \cup {b \in {c.id} : post[b] # c.read}
      BY <1>5 DEF SavePost
    <2>2. added \subseteq Drafts /\ (c.row.status = "in_review" => c.row.text \in added)
      BY <1>2 DEF SoundPost
    <2> HIDE DEF added
    <2>3. submitted' \in [PostIds -> SUBSET Drafts] /\ \A b \in PostIds : submitted[b] \subseteq submitted'[b]
      BY <1>2, <2>1, <2>2 DEF BlogIInv, BlogTypeOK
    <2>4. promised' \in [PostIds -> Slugs \cup {NoSlug}]
      <3>1. c.row.slug \in Slugs \cup {NoSlug}
        BY <1>2 DEF Post
      <3> QED  BY <2>1, <3>1 DEF BlogIInv, BlogTypeOK
    <2>5. BlogTypeOK'
      BY <1>2, <2>1, <2>3, <2>4 DEF BlogIInv, BlogTypeOK
    <2>6. ASSUME NEW b \in PostIds
          PROVE  /\ SoundPost(post'[b]) /\ post'[b].live \in submitted'[b] \cup {NoText}
                 /\ post'[b].status = "in_review" => post'[b].text \in submitted'[b]
                 /\ b \notin postRaced' /\ promised'[b] # NoSlug =>
                      post'[b].first /\ post'[b].slug = promised'[b]
      <3>1. CASE b # c.id
        <4>1. post'[b] = post[b] /\ submitted'[b] = submitted[b] /\ promised'[b] = promised[b]
              /\ (b \notin postRaced' => b \notin postRaced)
          BY <2>1, <3>1 DEF BlogIInv, BlogTypeOK
        <4> QED  BY <4>1 DEF BlogIInv
      <3>2. CASE b = c.id
        <4>1. post'[b] = c.row /\ submitted'[b] = submitted[b] \cup added
          BY <1>2, <2>1, <3>2 DEF BlogIInv, BlogTypeOK
        <4>2. promised'[b] = IF promised[b] = NoSlug /\ c.row.first THEN c.row.slug ELSE promised[b]
          BY <1>2, <2>1, <3>2 DEF BlogIInv, BlogTypeOK
        <4>3. b \notin postRaced' => b \notin postRaced /\ post[b] = c.read
          BY <2>1, <3>2
        <4>4. b \notin postRaced' /\ promised'[b] # NoSlug => c.row.first /\ c.row.slug = promised'[b]
          BY <1>2, <4>2, <4>3 DEF BlogIInv, KeepsPromise
        <4> QED  BY <1>2, <2>2, <3>2, <4>1, <4>4
      <3> QED  BY <3>1, <3>2
    <2>7. ASSUME NEW q \in Procs, call'[q] # NoCall
          PROVE  /\ SoundPost(call'[q].row) /\ KeepsPromise(call'[q].read, call'[q].row)
                 /\ call'[q].row.live \in submitted'[call'[q].id] \cup {NoText}
                 /\ call'[q].row.status = "in_review" => call'[q].read.status # "in_review"
      <3>1. call'[q] = call[q] /\ call[q].id \in PostIds
        BY <1>3, <2>7 DEF BlogIInv, PostCall
      <3> QED  BY <2>3, <2>7, <3>1 DEF BlogIInv
    <2> QED  BY <1>3, <2>5, <2>6, <2>7 DEF BlogIInv
  <1> QED  BY <1>4, <1>5

LEMMA BlogNextIInv == BlogIInv /\ [BlogNext]_<<blogVars, requestVars>> => BlogIInv'
  <1> SUFFICES ASSUME BlogIInv, [BlogNext]_<<blogVars, requestVars>>
               PROVE  BlogIInv'
    OBVIOUS
  <1>0. \A b \in PostIds : post[b] \in Post /\ SoundPost(post[b]) /\ post[b].live \in submitted[b] \cup {NoText}
    BY DEF BlogIInv, BlogTypeOK
  <1>s. submitted \in [PostIds -> SUBSET Drafts]
    BY DEF BlogIInv, BlogTypeOK
  <1>1. ASSUME NEW p \in Procs, NEW b \in PostIds, NEW text \in Drafts \cup {Blank}, NEW slug \in Slugs,
               CreatePost(p, b, text, slug)
        PROVE  BlogIInv'
    <2> DEFINE row == [NoPost EXCEPT !.status = "draft", !.text = text, !.slug = slug]
    <2>1. row.status = "draft" /\ row.slug = slug /\ row.live = NoText /\ row.first = FALSE
      BY DEF NoPost
    <2>2. row \in Post /\ SoundPost(row)
      BY <2>1 DEF NoPost, Post, SoundPost
    <2>3. ReadPost(p, b, row) /\ ~post[b].first
      BY <1>0, <1>1 DEF CreatePost, SoundPost
    <2> HIDE DEF row
    <2> QED  BY <2>1, <2>2, <2>3, ReadPostIInv DEF KeepsPromise
  <1>2. ASSUME NEW p \in Procs, NEW b \in PostIds, NEW text \in Drafts \cup {Blank}, NEW slug \in Slugs,
               UpdatePost(p, b, text, slug)
        PROVE  BlogIInv'
    <2> DEFINE row == [post[b] EXCEPT !.status = Reopened(@), !.text = text, !.slug = slug]
    <2>1. row.status = Reopened(post[b].status) /\ row.live = post[b].live /\ row.slug = slug
          /\ row.first = post[b].first
      BY <1>0 DEF Post
    <2>2. ReadPost(p, b, row) /\ post[b].status \notin {"none", "in_review"}
          /\ (slug = post[b].slug \/ ~post[b].first)
      BY <1>2 DEF UpdatePost
    <2>3. Reopened(post[b].status) \in {"draft", "archived"}
      BY <1>0, <2>2 DEF Reopened, Post
    <2>4. row \in Post
      <3>1. slug \in Slugs \cup {NoSlug} /\ Reopened(post[b].status) \in
              {"none", "draft", "in_review", "published", "archived"}
        BY <2>3
      <3> QED  BY <1>0, <3>1 DEF Post
    <2>5. SoundPost(row) /\ KeepsPromise(post[b], row) /\ row.live = post[b].live /\ row.status # "in_review"
      BY <1>0, <2>1, <2>2, <2>3 DEF SoundPost, KeepsPromise
    <2> HIDE DEF row
    <2> QED  BY <1>0, <2>2, <2>4, <2>5, ReadPostIInv
  <1>3. ASSUME NEW p \in Procs, NEW b \in PostIds, RemovePost(p, b)
        PROVE  BlogIInv'
    <2>1. NoPost \in Post /\ SoundPost(NoPost) /\ NoPost.live = NoText /\ NoPost.status = "none"
      BY DEF NoPost, Post, SoundPost
    <2>2. ReadPost(p, b, NoPost) /\ ~post[b].first
      BY <1>3 DEF RemovePost
    <2> QED  BY <2>1, <2>2, ReadPostIInv DEF KeepsPromise
  \* The other handlers change the status of the copy, and approve its public text.
  <1>4. ASSUME NEW p \in Procs, NEW b \in PostIds,
               NEW status \in {"draft", "in_review", "published", "archived"},
               ReadPost(p, b, [post[b] EXCEPT !.status = status]), post[b].status # "none",
               status = "in_review" => post[b].status # "in_review" /\ post[b].text # Blank
        PROVE  BlogIInv'
    <2> DEFINE row == [post[b] EXCEPT !.status = status]
    <2>1. row \in Post /\ row.status = status /\ row.live = post[b].live /\ row.text = post[b].text
          /\ row.slug = post[b].slug /\ row.first = post[b].first
      BY <1>0 DEF Post
    <2>2. post[b].text \in Drafts \cup {Blank}
      BY <1>0 DEF Post
    <2>3. SoundPost(row) /\ KeepsPromise(post[b], row)
      BY <1>0, <1>4, <2>1, <2>2 DEF SoundPost, KeepsPromise
    <2>4. ReadPost(p, b, row)
      BY <1>4
    <2> HIDE DEF row
    <2> QED  BY <1>0, <1>4, <2>1, <2>3, <2>4, ReadPostIInv
  <1>5. ASSUME NEW p \in Procs, NEW b \in PostIds,
               SubmitPost(p, b) \/ RequestChanges(p, b) \/ ArchivePost(p, b) \/ UnarchivePost(p, b)
        PROVE  BlogIInv'
    <2>1. CASE SubmitPost(p, b)
      <3>1. ReadPost(p, b, [post[b] EXCEPT !.status = "in_review"])
            /\ post[b].status \in {"draft", "published"} /\ post[b].text # Blank
        BY <2>1 DEF SubmitPost
      <3> QED  BY <3>1, <1>4
    <2>2. CASE RequestChanges(p, b)
      <3>1. ReadPost(p, b, [post[b] EXCEPT !.status = "draft"]) /\ post[b].status = "in_review"
        BY <2>2 DEF RequestChanges
      <3> QED  BY <3>1, <1>4
    <2>3. CASE ArchivePost(p, b)
      <3>1. ReadPost(p, b, [post[b] EXCEPT !.status = "archived"]) /\ post[b].status # "none"
        BY <2>3 DEF ArchivePost
      <3> QED  BY <3>1, <1>4
    <2>4. CASE UnarchivePost(p, b)
      <3> DEFINE status == IF post[b].live # NoText THEN "published" ELSE "draft"
      <3>1. ReadPost(p, b, [post[b] EXCEPT !.status = status]) /\ post[b].status = "archived"
        BY <2>4 DEF UnarchivePost
      <3>2. status \in {"draft", "published"}
        OBVIOUS
      <3> HIDE DEF status
      <3> QED  BY <3>1, <3>2, <1>4
    <2> QED  BY <1>5, <2>1, <2>2, <2>3, <2>4
  <1>6. ASSUME NEW p \in Procs, NEW b \in PostIds, ApprovePost(p, b)
        PROVE  BlogIInv'
    <2> DEFINE row == [post[b] EXCEPT !.status = "published", !.live = post[b].text, !.first = TRUE]
    <2>1. row.status = "published" /\ row.live = post[b].text /\ row.slug = post[b].slug /\ row.first = TRUE
      BY <1>0 DEF Post
    <2>2. ReadPost(p, b, row) /\ post[b].status = "in_review"
      BY <1>6 DEF ApprovePost
    <2>3. post[b].text \in submitted[b] /\ post[b].text \in Drafts /\ post[b].slug \in Slugs
      BY <1>0, <2>2 DEF BlogIInv, SoundPost
    <2>4. row \in Post
      BY <1>0, <2>3 DEF Post
    <2>5. SoundPost(row) /\ KeepsPromise(post[b], row) /\ row.live = post[b].text /\ row.status = "published"
      BY <2>1, <2>3, BlogConstantsOK DEF SoundPost, KeepsPromise
    <2> HIDE DEF row
    <2> QED  BY <2>2, <2>3, <2>4, <2>5, ReadPostIInv
  <1>7. ASSUME NEW p \in Procs, SavePost(p)
        PROVE  BlogIInv'
    BY <1>7, SavePostIInv
  <1>8. CASE UNCHANGED <<blogVars, requestVars>>
    BY <1>8 DEF BlogIInv, BlogTypeOK, blogVars, requestVars
  <1> QED  BY <1>1, <1>2, <1>3, <1>5, <1>6, <1>7, <1>8 DEF BlogNext

(* Readers only find text that has been in review, whatever overlaps, and  *)
(* a published post stays at its address unless it is archived or two      *)
(* handlers overlapped on it, for any number of posts, texts and handlers. *)
THEOREM Readers == BlogSpec => []ReadersFindReviewed
  <1>1. BlogIInv => ReadersFindReviewed
    <2> SUFFICES ASSUME BlogIInv
                 PROVE  ReadersFindReviewed
      OBVIOUS
    <2>1. \A slug \in Slugs : \A b \in ReadAt(slug) : post[b].live \in submitted[b]
      BY DEF BlogIInv, ReadAt
    <2>2. ASSUME NEW b \in PostIds \ postRaced, promised[b] # NoSlug, post[b].status # "archived"
          PROVE  b \in ReadAt(promised[b])
      BY <2>2 DEF BlogIInv, SoundPost, ReadAt
    <2> QED  BY <2>1, <2>2 DEF ReadersFindReviewed
  <1> QED  BY <1>1, BlogInitIInv, BlogNextIInv, PTL DEF BlogSpec
-----------------------------------------------------------------------------
(* Notices.  Every message of a notice has a default template, but for the *)
(* push of a rejected dispute; this is a matter of the tables only, and is *)
(* looked up table by table.                                               *)

HasTemplate(m) ==
  TemplateOf(m) \in DEFAULT_TEMPLATES \/ (m.key = "dispute.rejected.customer" /\ m.channel = "push")

NoticeOK(n) == /\ Len(n) \in Nat \ {0} /\ DOMAIN n = 1..Len(n)
               /\ \A i \in DOMAIN n : \A m \in n[i] : HasTemplate(m)

Served(key, channels) == Template(key, channels) \subseteq DEFAULT_TEMPLATES

(* What a set of messages, a notice and a staff message need of the tables. *)
LEMMA MessagesServed ==
  ASSUME NEW key, NEW to, NEW chs, Served(key, chs)
  PROVE  \A m \in Messages(key, to, chs) : HasTemplate(m)
  BY DEF Messages, TemplateOf, Template, HasTemplate, Served

LEMMA OneServed ==
  ASSUME NEW key, NEW to, NEW chs, Served(key, chs)
  PROVE  NoticeOK(One(key, to, chs))
  BY MessagesServed DEF One, NoticeOK

LEMMA Each ==
  ASSUME NEW keys, NEW channels, ForEach(keys, channels) \subseteq DEFAULT_TEMPLATES
  PROVE \A key \in keys : \A some \in SUBSET channels : Served(key, some)
  BY DEF ForEach, Template, Served

LEMMA Single ==
  ASSUME NEW key, NEW channels, Template(key, channels) \subseteq DEFAULT_TEMPLATES
  PROVE \A some \in SUBSET channels : Served(key, some)
  BY DEF Template, Served

LEMMA Narrow ==
  ASSUME NEW key, NEW channels, NEW some \in SUBSET channels, Served(key, channels)
  PROVE  Served(key, some)
  BY DEF Template, Served

LEMMA StaffServed ==
  ASSUME NEW key, Served(key, Plain)
  PROVE  \A m \in ToStaff(key) : HasTemplate(m)
  <1>1. Served(key, {"email"}) /\ Served(key, {"in_app"})
    BY Narrow DEF Plain
  <1> QED  BY <1>1, MessagesServed DEF ToStaff

LEMMA OrderTemplatesServed ==
  /\ Served("order.placed.customer", Full)
  /\ Served("order.delivered.customer", Full)
  /\ Served("order.rep_assigned.customer", Chat)
  /\ Served("order.picked_up.customer", Chat)
  /\ Served("order.rep_en_route.customer", Chat)
  <1>1. /\ ForEach({"order.placed.customer",
                      "order.delivered.customer"}, Full) \subseteq DEFAULT_TEMPLATES
        /\ ForEach({"order.rep_assigned.customer",
                      "order.picked_up.customer",
                      "order.rep_en_route.customer"}, Chat) \subseteq DEFAULT_TEMPLATES
    BY DEF DEFAULT_TEMPLATES, OrderTemplates
  <1> QED  BY <1>1, Each, Single

LEMMA ClosingTemplatesServed ==
  /\ Served("order.completed.customer", Three)
  /\ Served("order.cancelled.customer", Four)
  <1>1. /\ Template("order.completed.customer", Three) \subseteq DEFAULT_TEMPLATES
        /\ Template("order.cancelled.customer", Four) \subseteq DEFAULT_TEMPLATES
    BY DEF DEFAULT_TEMPLATES, ClosingTemplates
  <1> QED  BY <1>1, Each, Single

LEMMA RepTemplatesServed ==
  /\ Served("assignment.broadcast.rep", Full \ {"email"})
  /\ Served("assignment.confirmed.rep", App)
  /\ Served("order.earning_credited.rep", App)
  /\ Served("rep.flagged_for_review", Three)
  <1>1. /\ Template("assignment.broadcast.rep", Full \ {"email"}) \subseteq DEFAULT_TEMPLATES
        /\ ForEach({"assignment.confirmed.rep",
                      "order.earning_credited.rep"}, App) \subseteq DEFAULT_TEMPLATES
        /\ Template("rep.flagged_for_review", Three) \subseteq DEFAULT_TEMPLATES
    BY DEF DEFAULT_TEMPLATES, RepTemplates
  <1> QED  BY <1>1, Each, Single

LEMMA JobTemplatesServed ==
  /\ Served("assignment.broadcast.vendor", Full \ {"email"})
  /\ Served("order.picked_up.vendor", Chat)
  /\ Served("order.earning_credited.vendor", Three)
  <1>1. /\ Template("assignment.broadcast.vendor", Full \ {"email"}) \subseteq DEFAULT_TEMPLATES
        /\ Template("order.picked_up.vendor", Chat) \subseteq DEFAULT_TEMPLATES
        /\ Template("order.earning_credited.vendor", Three) \subseteq DEFAULT_TEMPLATES
    BY DEF DEFAULT_TEMPLATES, JobTemplates
  <1> QED  BY <1>1, Each, Single

LEMMA VendorTemplatesServed ==
  /\ Served("vendor.application_received", Four)
  /\ Served("vendor.account_rejected", Four)
  /\ Served("vendor.account_suspended", Four)
  /\ Served("vendor.account_verified", Four)
  <1>1. /\ ForEach({"vendor.application_received",
                      "vendor.account_rejected",
                      "vendor.account_suspended",
                      "vendor.account_verified"}, Four) \subseteq DEFAULT_TEMPLATES
    BY DEF DEFAULT_TEMPLATES, VendorTemplates
  <1> QED  BY <1>1, Each, Single

LEMMA PricingTemplatesServed ==
  /\ Served("pricing.approved.vendor", Three)
  /\ Served("order.garments_logged.vendor", Three)
  /\ Served("pricing.reviewed.vendor", Three)
  /\ Served("order.garments_unpriced.admin", Plain)
  <1>1. /\ ForEach({"pricing.approved.vendor",
                      "order.garments_logged.vendor",
                      "pricing.reviewed.vendor"}, Three) \subseteq DEFAULT_TEMPLATES
        /\ Template("order.garments_unpriced.admin", Plain) \subseteq DEFAULT_TEMPLATES
    BY DEF DEFAULT_TEMPLATES, PricingTemplates
  <1> QED  BY <1>1, Each, Single

LEMMA PayoutTemplatesServed ==
  /\ Served("payout.approved.vendor", Full)
  /\ Served("payout.failed.vendor", Four)
  /\ Served("payout.held.vendor", Four)
  /\ Served("payout.released.vendor", Four)
  <1>1. /\ Template("payout.approved.vendor", Full) \subseteq DEFAULT_TEMPLATES
        /\ ForEach({"payout.failed.vendor",
                      "payout.held.vendor",
                      "payout.released.vendor"}, Four) \subseteq DEFAULT_TEMPLATES
    BY DEF DEFAULT_TEMPLATES, PayoutTemplates
  <1> QED  BY <1>1, Each, Single

LEMMA DeductionTemplatesServed ==
  /\ Served("deduction.notice.vendor", Four)
  /\ Served("deduction.applied.vendor", Four)
  <1>1. /\ ForEach({"deduction.notice.vendor",
                      "deduction.applied.vendor"}, Four) \subseteq DEFAULT_TEMPLATES
    BY DEF DEFAULT_TEMPLATES, DeductionTemplates
  <1> QED  BY <1>1, Each, Single

LEMMA SuspensionTemplatesServed ==
  /\ Served("suspension.notice", Four)
  /\ Served("suspension.enforced", Four)
  /\ Served("suspension.reinstated", Four)
  /\ Served("suspension.upheld", Four)
  <1>1. /\ ForEach({"suspension.notice",
                      "suspension.enforced",
                      "suspension.reinstated",
                      "suspension.upheld"}, Four) \subseteq DEFAULT_TEMPLATES
    BY DEF DEFAULT_TEMPLATES, SuspensionTemplates
  <1> QED  BY <1>1, Each, Single

LEMMA UncollectedTemplatesServed ==
  /\ Served("order.uncollected.customer", Four)
  /\ Served("order.abandoned.customer", Four)
  <1>1. /\ ForEach({"order.uncollected.customer",
                      "order.abandoned.customer"}, Four) \subseteq DEFAULT_TEMPLATES
    BY DEF DEFAULT_TEMPLATES, UncollectedTemplates
  <1> QED  BY <1>1, Each, Single

LEMMA AdminTemplatesServed ==
  /\ Served("payout.new_request.admin", Three)
  /\ Served("assignment.no_reps.admin", Three)
  /\ Served("assignment.no_vendors.admin", Three)
  /\ Served("vendor.pending_verification.admin", Plain)
  <1>1. /\ ForEach({"payout.new_request.admin",
                      "assignment.no_reps.admin",
                      "assignment.no_vendors.admin"}, Three) \subseteq DEFAULT_TEMPLATES
        /\ Template("vendor.pending_verification.admin", Plain) \subseteq DEFAULT_TEMPLATES
    BY DEF DEFAULT_TEMPLATES, AdminTemplates
  <1> QED  BY <1>1, Each, Single

LEMMA ContentTemplatesServed ==
  /\ Served("blog.submitted.admin", Plain)
  /\ Served("blog.approved.author", Plain)
  /\ Served("blog.changes_requested.author", Plain)
  /\ Served("support.new_message.agent", {"in_app"})
  /\ Served("support.reply.user", App)
  /\ Served("account.deleted.customer", {"email"})
  <1>1. /\ ForEach({"blog.submitted.admin",
                      "blog.approved.author",
                      "blog.changes_requested.author"}, Plain) \subseteq DEFAULT_TEMPLATES
        /\ Template("support.new_message.agent", {"in_app"}) \subseteq DEFAULT_TEMPLATES
        /\ Template("support.reply.user", App) \subseteq DEFAULT_TEMPLATES
        /\ Template("account.deleted.customer", {"email"}) \subseteq DEFAULT_TEMPLATES
    BY DEF DEFAULT_TEMPLATES, ContentTemplates
  <1> QED  BY <1>1, Each, Single

LEMMA DisputeTemplatesServed ==
  /\ Served("dispute.created.customer", Three)
  /\ Served("dispute.updated.customer", Three)
  /\ Served("dispute.resolved.customer", Three)
  /\ Served("dispute.created.admin", Plain)
  /\ Served("dispute.rejected.customer", Plain)
  <1>1. /\ ForEach({"dispute.created.customer",
                      "dispute.updated.customer",
                      "dispute.resolved.customer"}, Three) \subseteq DEFAULT_TEMPLATES
        /\ ForEach({"dispute.created.admin",
                      "dispute.rejected.customer"}, Plain) \subseteq DEFAULT_TEMPLATES
    BY DEF DEFAULT_TEMPLATES, DisputeTemplates
  <1> QED  BY <1>1, Each, Single

LEMMA TeamTemplatesServed ==
  /\ Served("team.member_added", Three)
  /\ Served("team.role_changed", Three)
  /\ Served("team.member_removed", Plain)
  <1>1. /\ ForEach({"team.member_added", "team.role_changed"}, Three) \subseteq DEFAULT_TEMPLATES
        /\ Template("team.member_removed", Plain) \subseteq DEFAULT_TEMPLATES
    BY DEF DEFAULT_TEMPLATES, TeamTemplates
  <1> QED  BY <1>1, Each, Single

LEMMA OrderNoticesServed == \A kind \in DOMAIN OrderNotices : NoticeOK(OrderNotices[kind])
  <1>1. /\ NoticeOK(OrderNotices.placed)
        /\ NoticeOK(OrderNotices.repAssigned)
        /\ NoticeOK(OrderNotices.repEnRoute)
        /\ NoticeOK(OrderNotices.pickedUp)
        /\ NoticeOK(OrderNotices.delivered)
    BY OrderTemplatesServed, JobTemplatesServed, Narrow, OneServed, MessagesServed, StaffServed
       DEF OrderNotices, NoticeOK, Full, Four, Three, Chat, App, Plain
  <1>2. DOMAIN OrderNotices = {"placed", "repAssigned", "repEnRoute", "pickedUp", "delivered"}
    BY DEF OrderNotices
  <1> QED  BY <1>1, <1>2

LEMMA ClosingNoticesServed == \A kind \in DOMAIN ClosingNotices : NoticeOK(ClosingNotices[kind])
  <1>1. /\ NoticeOK(ClosingNotices.completed)
        /\ NoticeOK(ClosingNotices.cancelled)
    BY ClosingTemplatesServed, JobTemplatesServed, RepTemplatesServed, Narrow, OneServed,
       MessagesServed, StaffServed
       DEF ClosingNotices, NoticeOK, Full, Four, Three, Chat, App, Plain
  <1>2. DOMAIN ClosingNotices = {"completed", "cancelled"}
    BY DEF ClosingNotices
  <1> QED  BY <1>1, <1>2

LEMMA AssignmentNoticesServed == \A kind \in DOMAIN AssignmentNotices : NoticeOK(AssignmentNotices[kind])
  <1>1. /\ NoticeOK(AssignmentNotices.broadcastRep)
        /\ NoticeOK(AssignmentNotices.confirmedRep)
        /\ NoticeOK(AssignmentNotices.broadcastVendor)
        /\ NoticeOK(AssignmentNotices.noReps)
        /\ NoticeOK(AssignmentNotices.noVendors)
        /\ NoticeOK(AssignmentNotices.repFlagged)
    BY RepTemplatesServed, JobTemplatesServed, AdminTemplatesServed, Narrow, OneServed,
       MessagesServed, StaffServed
       DEF AssignmentNotices, NoticeOK, Full, Four, Three, Chat, App, Plain
  <1>2. DOMAIN AssignmentNotices = {"broadcastRep", "confirmedRep", "broadcastVendor", "noReps",
                                    "noVendors", "repFlagged"}
    BY DEF AssignmentNotices
  <1> QED  BY <1>1, <1>2

LEMMA VendorNoticesServed == \A kind \in DOMAIN VendorNotices : NoticeOK(VendorNotices[kind])
  <1>1. /\ NoticeOK(VendorNotices.vendorReceived)
        /\ NoticeOK(VendorNotices.vendorRejected)
        /\ NoticeOK(VendorNotices.vendorSuspended)
        /\ NoticeOK(VendorNotices.vendorVerified)
        /\ NoticeOK(VendorNotices.vendorPending)
    BY VendorTemplatesServed, AdminTemplatesServed, Narrow, OneServed, MessagesServed, StaffServed
       DEF VendorNotices, NoticeOK, Full, Four, Three, Chat, App, Plain
  <1>2. DOMAIN VendorNotices = {"vendorReceived", "vendorRejected", "vendorSuspended",
                                "vendorVerified", "vendorPending"}
    BY DEF VendorNotices
  <1> QED  BY <1>1, <1>2

LEMMA PricingNoticesServed == \A kind \in DOMAIN PricingNotices : NoticeOK(PricingNotices[kind])
  <1>1. /\ NoticeOK(PricingNotices.pricingApproved)
        /\ NoticeOK(PricingNotices.pricingReviewed)
        /\ NoticeOK(PricingNotices.garmentsLogged)
        /\ NoticeOK(PricingNotices.garmentsUnpriced)
        /\ NoticeOK(PricingNotices.accountDeleted)
    BY PricingTemplatesServed, ContentTemplatesServed, Narrow, OneServed, MessagesServed,
       StaffServed
       DEF PricingNotices, NoticeOK, Full, Four, Three, Chat, App, Plain
  <1>2. DOMAIN PricingNotices = {"pricingApproved", "pricingReviewed", "garmentsLogged",
                                 "garmentsUnpriced", "accountDeleted"}
    BY DEF PricingNotices
  <1> QED  BY <1>1, <1>2

LEMMA DisputeNoticesServed == \A kind \in DOMAIN DisputeNotices : NoticeOK(DisputeNotices[kind])
  <1>1. /\ NoticeOK(DisputeNotices.disputeCreated)
        /\ NoticeOK(DisputeNotices.disputeUpdated)
        /\ NoticeOK(DisputeNotices.disputeResolved)
    BY DisputeTemplatesServed, Narrow, OneServed, MessagesServed, StaffServed
       DEF DisputeNotices, NoticeOK, Three, Plain
  <1>2. NoticeOK(DisputeNotices.disputeRejected)
    <2>1. \A m \in Messages("dispute.rejected.customer", "customer", Three) : HasTemplate(m)
      <3>1. \A c \in Three : c = "push" \/ c \in Plain
        BY DEF Three, Plain
      <3>2. Template("dispute.rejected.customer", Plain) \subseteq DEFAULT_TEMPLATES
        BY DisputeTemplatesServed DEF Served
      <3> QED  BY <3>1, <3>2 DEF HasTemplate, Messages, Template, TemplateOf
    <2> QED  BY <2>1 DEF DisputeNotices, One, NoticeOK
  <1>3. DOMAIN DisputeNotices = {"disputeCreated", "disputeUpdated", "disputeResolved",
                                 "disputeRejected"}
    BY DEF DisputeNotices
  <1> QED  BY <1>1, <1>2, <1>3

LEMMA ContentNoticesServed == \A kind \in DOMAIN ContentNotices : NoticeOK(ContentNotices[kind])
  <1>1. /\ NoticeOK(ContentNotices.supportMessage)
        /\ NoticeOK(ContentNotices.supportReply)
        /\ NoticeOK(ContentNotices.teamAdded)
        /\ NoticeOK(ContentNotices.teamRole)
        /\ NoticeOK(ContentNotices.teamRemoved)
        /\ NoticeOK(ContentNotices.blogSubmitted)
        /\ NoticeOK(ContentNotices.blogApproved)
        /\ NoticeOK(ContentNotices.blogReturned)
    BY ContentTemplatesServed, TeamTemplatesServed, Narrow, OneServed, MessagesServed, StaffServed
       DEF ContentNotices, NoticeOK, Full, Four, Three, Chat, App, Plain
  <1>2. DOMAIN ContentNotices = {"supportMessage", "supportReply", "teamAdded", "teamRole",
                                 "teamRemoved", "blogSubmitted", "blogApproved", "blogReturned"}
    BY DEF ContentNotices
  <1> QED  BY <1>1, <1>2

LEMMA PayoutNoticesServed == \A kind \in DOMAIN PayoutNotices : NoticeOK(PayoutNotices[kind])
  <1>1. /\ NoticeOK(PayoutNotices.payoutRequest)
        /\ NoticeOK(PayoutNotices.payoutApproved)
        /\ NoticeOK(PayoutNotices.payoutFailed)
        /\ NoticeOK(PayoutNotices.payoutHeld)
        /\ NoticeOK(PayoutNotices.payoutReleased)
    BY AdminTemplatesServed, PayoutTemplatesServed, Narrow, OneServed, MessagesServed, StaffServed
       DEF PayoutNotices, NoticeOK, Full, Four, Three, Chat, App, Plain
  <1>2. DOMAIN PayoutNotices = {"payoutRequest", "payoutApproved", "payoutFailed", "payoutHeld",
                                "payoutReleased"}
    BY DEF PayoutNotices
  <1> QED  BY <1>1, <1>2

LEMMA DeductionNoticesServed == \A kind \in DOMAIN DeductionNotices : NoticeOK(DeductionNotices[kind])
  <1>1. /\ NoticeOK(DeductionNotices.deduction)
        /\ NoticeOK(DeductionNotices.deductionApplied)
    BY DeductionTemplatesServed, Narrow, OneServed, MessagesServed, StaffServed
       DEF DeductionNotices, NoticeOK, Full, Four, Three, Chat, App, Plain
  <1>2. DOMAIN DeductionNotices = {"deduction", "deductionApplied"}
    BY DEF DeductionNotices
  <1> QED  BY <1>1, <1>2

LEMMA StandingNoticesServed == \A kind \in DOMAIN StandingNotices : NoticeOK(StandingNotices[kind])
  <1>1. /\ NoticeOK(StandingNotices.suspensionNotice)
        /\ NoticeOK(StandingNotices.suspended)
        /\ NoticeOK(StandingNotices.reinstated)
        /\ NoticeOK(StandingNotices.upheld)
        /\ NoticeOK(StandingNotices.uncollected)
        /\ NoticeOK(StandingNotices.abandoned)
    BY SuspensionTemplatesServed, UncollectedTemplatesServed, Narrow, OneServed, MessagesServed,
       StaffServed
       DEF StandingNotices, NoticeOK, Full, Four, Three, Chat, App, Plain
  <1>2. DOMAIN StandingNotices = {"suspensionNotice", "suspended", "reinstated", "upheld",
                                  "uncollected", "abandoned"}
    BY DEF StandingNotices
  <1> QED  BY <1>1, <1>2


(* Each kind of notice is in a table.                                      *)
LEMMA EveryNoticeOK == \A kind \in DOMAIN Notices : NoticeOK(Notices[kind])
  <1> SUFFICES ASSUME NEW kind \in DOMAIN Notices
               PROVE  NoticeOK(Notices[kind])
    OBVIOUS
  <1>1. \A t \in Tables : \A k \in DOMAIN t : NoticeOK(t[k])
    BY OrderNoticesServed, ClosingNoticesServed, AssignmentNoticesServed, VendorNoticesServed,
       PricingNoticesServed, DisputeNoticesServed, ContentNoticesServed, PayoutNoticesServed,
       DeductionNoticesServed, StandingNoticesServed DEF Tables
  <1>2. kind \in UNION {DOMAIN t : t \in Tables}
        /\ Notices[kind] = (CHOOSE t \in Tables : kind \in DOMAIN t)[kind]
    BY DEF Notices
  <1>3. PICK t \in Tables : t = (CHOOSE u \in Tables : kind \in DOMAIN u) /\ kind \in DOMAIN t
    BY <1>2
  <1> QED  BY <1>1, <1>2, <1>3

-----------------------------------------------------------------------------
(* A notice on its way that has not failed has tried all messages of the   *)
(* groups behind it and those of its group that are no longer pending.     *)

Sending == [pc : {"notify"}, kind : Kinds, group : Nat, pending : SUBSET Looked, failed : BOOLEAN]

Tried(k, m) ==
  \/ \E o \in outcome : o.kind = k /\ o.message = m /\ o.became # "no_template"
  \/ m.key = "dispute.rejected.customer" /\ m.channel = "push"

KeepsUp(c) ==
  /\ c.group \in DOMAIN Notices[c.kind] /\ c.pending \subseteq Notices[c.kind][c.group]
  /\ ~c.failed => \A i \in 1..c.group : \A m \in Notices[c.kind][i] :
       (i = c.group /\ m \in c.pending) \/ Tried(c.kind, m)

NoticesIInv ==
  /\ call \in [Procs -> Sending \cup {NoCall}]
  /\ \A p \in Procs : call[p] # NoCall => call[p] \in Sending /\ KeepsUp(call[p])
  /\ through \subseteq Kinds
  /\ \A k \in through : \A i \in DOMAIN Notices[k] : \A m \in Notices[k][i] : Tried(k, m)

LEMMA KindNotice ==
  ASSUME NEW k \in Kinds
  PROVE  NoticeOK(Notices[k]) /\ \A i \in DOMAIN Notices[k] : Notices[k][i] \subseteq Looked
  BY EveryNoticeOK, KindsOK DEF Looked, AllMessages

(* Nothing that has been tried is forgotten.                               *)
LEMMA NoticesGoOn ==
  ASSUME NoticesIInv, outcome \subseteq outcome', NEW p \in Procs, NEW x \in Sending \cup {NoCall},
         call' = [call EXCEPT ![p] = x], x # NoCall => KeepsUp(x)',
         \/ through' = through
         \/ \E k \in Kinds : /\ through' = through \cup {k}
                             /\ \A i \in DOMAIN Notices[k] : \A m \in Notices[k][i] : Tried(k, m)'
  PROVE  NoticesIInv'
  <1>1. \A k, m : Tried(k, m) => Tried(k, m)'
    BY DEF Tried
  <1>2. \A q \in Procs \ {p} : call'[q] = call[q]
    BY DEF NoticesIInv
  <1>3. call' \in [Procs -> Sending \cup {NoCall}] /\ call'[p] = x
    BY DEF NoticesIInv
  <1>4. ASSUME NEW q \in Procs, call'[q] # NoCall
        PROVE  call'[q] \in Sending /\ KeepsUp(call[q])'
    <2>1. CASE q = p
      BY <1>3, <1>4, <2>1 DEF KeepsUp
    <2>2. CASE q # p
      BY <1>1, <1>2, <1>4, <2>2 DEF NoticesIInv, KeepsUp
    <2> QED  BY <2>1, <2>2
  <1>5. /\ through' \subseteq Kinds
        /\ \A k \in through' : \A i \in DOMAIN Notices[k] : \A m \in Notices[k][i] : Tried(k, m)'
    BY <1>1 DEF NoticesIInv
  <1> QED  BY <1>3, <1>4, <1>5 DEF NoticesIInv

LEMMA NoticesStand ==
  ASSUME NoticesIInv, call' = call, outcome' = outcome, through' = through
  PROVE  NoticesIInv'
  BY DEF NoticesIInv, KeepsUp, Tried

LEMMA NotifyIInv == ASSUME NoticesIInv, NEW p \in Procs, NEW k \in Kinds, Notify(p, k) PROVE NoticesIInv'
  <1>1. NoticeOK(Notices[k]) /\ 1 \in DOMAIN Notices[k] /\ Notices[k][1] \subseteq Looked
    BY KindNotice DEF NoticeOK
  <1> DEFINE x == [pc |-> "notify", kind |-> k, group |-> 1, pending |-> Notices[k][1], failed |-> FALSE]
  <1>2. x \in Sending
    BY <1>1 DEF Sending
  <1>3. call' = [call EXCEPT ![p] = x] /\ outcome' = outcome /\ through' = through
    BY DEF Notify, Begin, noticeVars
  <1>4. KeepsUp(x)'
    BY <1>1 DEF KeepsUp
  <1> HIDE DEF x
  <1> QED  BY <1>2, <1>3, <1>4, NoticesGoOn

(* What the handler in a slot holds.                                       *)
LEMMA SendingCall ==
  ASSUME NoticesIInv, NEW p \in Procs, At(p, "notify")
  PROVE  \E c \in Sending : c = call[p] /\ KeepsUp(c)
  BY DEF NoticesIInv, At

LEMMA SendIInv == ASSUME NoticesIInv, NEW p \in Procs, NEW m \in Looked, Send(p, m) PROVE NoticesIInv'
  <1>1. PICK c \in Sending : c = call[p] /\ KeepsUp(c) /\ m \in c.pending
    BY SendingCall DEF Send
  <1>2. c.kind \in Kinds /\ c.group \in Nat /\ c.failed \in BOOLEAN /\ c.pending \subseteq Looked
    BY DEF Sending
  <1>3. PICK x \in Sending : x = [c EXCEPT !.pending = @ \ {m}]
    BY <1>2 DEF Sending
  <1>4. x.kind = c.kind /\ x.group = c.group /\ x.failed = c.failed /\ x.pending = c.pending \ {m}
    BY <1>3 DEF Sending
  <1>5. call' = [call EXCEPT ![p] = x] /\ through' = through /\ outcome \subseteq outcome'
    BY <1>1, <1>3 DEF Send, GotoState
  <1>6. HasTemplate(m)
    BY <1>1, <1>2, KindNotice DEF KeepsUp, NoticeOK
  <1>7. Tried(c.kind, m)'
    <2>1. TemplateOf(m) \in Rows \/ (m.key = "dispute.rejected.customer" /\ m.channel = "push")
      BY <1>6 DEF HasTemplate, Rows
    <2>2. CASE m.key = "dispute.rejected.customer" /\ m.channel = "push"
      BY <2>2 DEF Tried
    <2>3. CASE TemplateOf(m) \in Rows
      <3>1. PICK became \in {"no_contact", "sent"} :
              outcome' = outcome \cup {[kind |-> c.kind, message |-> m, became |-> became]}
        BY <1>1, <2>3 DEF Send, Rendered
      <3>2. PICK o : o = [kind |-> c.kind, message |-> m, became |-> became]
        OBVIOUS
      <3>3. o.kind = c.kind /\ o.message = m /\ o.became # "no_template" /\ o \in outcome'
        BY <3>1, <3>2
      <3> QED  BY <3>3 DEF Tried
    <2> QED  BY <2>1, <2>2, <2>3
  <1>8. \A n : Tried(c.kind, n) => Tried(c.kind, n)'
    BY <1>5 DEF Tried
  <1>9. KeepsUp(x)'
    BY <1>1, <1>2, <1>4, <1>7, <1>8 DEF KeepsUp
  <1> QED  BY <1>5, <1>9, NoticesGoOn

LEMMA SendFailsIInv ==
  ASSUME NoticesIInv, NEW p \in Procs, NEW m \in Looked, SendFails(p, m) PROVE NoticesIInv'
  <1>1. PICK c \in Sending : c = call[p] /\ KeepsUp(c) /\ m \in c.pending
    BY SendingCall DEF SendFails
  <1>2. PICK x \in Sending : x = [c EXCEPT !.pending = @ \ {m}, !.failed = TRUE]
    BY DEF Sending
  <1>3. x.kind = c.kind /\ x.group = c.group /\ x.failed = TRUE /\ x.pending = c.pending \ {m}
    BY <1>2 DEF Sending
  <1>4. call' = [call EXCEPT ![p] = x] /\ through' = through /\ outcome \subseteq outcome'
    BY <1>1, <1>2 DEF SendFails, noticeVars, NoticesIInv
  <1>5. KeepsUp(x)'
    BY <1>1, <1>3 DEF KeepsUp
  <1> QED  BY <1>4, <1>5, NoticesGoOn

LEMMA NextGroupIInv == ASSUME NoticesIInv, NEW p \in Procs, NextGroup(p) PROVE NoticesIInv'
  <1>1. PICK c \in Sending : c = call[p] /\ KeepsUp(c) /\ c.pending = {}
    BY SendingCall DEF NextGroup
  <1>2. c.kind \in Kinds /\ c.group \in Nat /\ c.failed \in BOOLEAN
    BY DEF Sending
  <1>3. PICK n \in Nat \ {0} : n = Len(Notices[c.kind]) /\ DOMAIN Notices[c.kind] = 1..n
                               /\ \A i \in 1..n : Notices[c.kind][i] \subseteq Looked
    BY <1>2, KindNotice DEF NoticeOK
  <1>4. c.group \in 1..n
    BY <1>1, <1>3 DEF KeepsUp
  <1>5. outcome' = outcome /\ \A m : Tried(c.kind, m) => Tried(c.kind, m)'
    BY DEF NextGroup, Tried
  <1>6. ~c.failed => \A i \in 1..c.group : \A m \in Notices[c.kind][i] : Tried(c.kind, m)'
    BY <1>1, <1>5 DEF KeepsUp
  <1>7. CASE c.failed \/ c.group = n
    <2>1. call' = [call EXCEPT ![p] = NoCall]
          /\ through' = IF c.group = n /\ ~c.failed THEN through \cup {c.kind} ELSE through
      BY <1>1, <1>3, <1>7 DEF NextGroup, End, GotoState
    <2>2. c.group = n /\ ~c.failed =>
            \A i \in DOMAIN Notices[c.kind] : \A m \in Notices[c.kind][i] : Tried(c.kind, m)'
      BY <1>3, <1>6
    <2> QED  BY <1>2, <1>5, <2>1, <2>2, NoticesGoOn
  <1>8. CASE ~c.failed /\ c.group # n
    <2>1. PICK g \in 1..n : g = c.group + 1
      BY <1>4, <1>8
    <2>2. PICK x \in Sending : x = [c EXCEPT !.group = g, !.pending = Notices[c.kind][g]]
      <3>1. PICK s \in SUBSET Looked : s = Notices[c.kind][g]
        BY <1>3
      <3>2. \A h \in Nat : [c EXCEPT !.group = h, !.pending = s] \in Sending
        BY <1>2 DEF Sending
      <3>3. g \in Nat
        BY <1>3
      <3> QED  BY <3>1, <3>2, <3>3
    <2>3. x.kind = c.kind /\ x.group = g /\ x.failed = c.failed /\ x.pending = Notices[c.kind][g]
      BY <2>2 DEF Sending
    <2>4. call' = [call EXCEPT ![p] = x] /\ through' = through
      <3>1. call' = [call EXCEPT ![p] = [c EXCEPT !.group = @ + 1, !.pending = Notices[c.kind][c.group + 1]]]
            /\ through' = through
        BY <1>1, <1>3, <1>8 DEF NextGroup, GotoState
      <3> QED  BY <2>1, <2>2, <3>1
    <2>5. \A i \in 1..g : i = g \/ i \in 1..c.group
      BY <1>4, <2>1
    <2>6. KeepsUp(x)'
      BY <1>3, <1>6, <1>8, <2>1, <2>3, <2>5 DEF KeepsUp
    <2> QED  BY <1>5, <2>4, <2>6, NoticesGoOn
  <1> QED  BY <1>2, <1>7, <1>8

LEMMA NoticesInitIInv == RequestsInit /\ NoticesInit => NoticesIInv
  BY DEF RequestsInit, NoticesInit, NoticesIInv

LEMMA NoticesNextIInv == NoticesIInv /\ [NoticesNext]_<<noticeVars, requestVars>> => NoticesIInv'
  <1> SUFFICES ASSUME NoticesIInv, [NoticesNext]_<<noticeVars, requestVars>>
               PROVE  NoticesIInv'
    OBVIOUS
  <1>1. CASE SeedDefaults \/ ResyncDefaults \/ \E t \in Rows, s \in {"on", "off"} : SetTemplate(t, s)
    BY <1>1, NoticesStand DEF SeedDefaults, ResyncDefaults, SetTemplate, OneStep
  <1>2. CASE \/ \E r \in Recipients : RegisterDevice(r) \/ MarkAllRead(r)
             \/ \E m \in unread : MarkRead(m)
    BY <1>2, NoticesStand DEF RegisterDevice, MarkAllRead, MarkRead, OneStep
  <1>3. ASSUME NEW p \in Procs,
               \/ \E k \in Kinds : Notify(p, k)
               \/ \E m \in Looked : Send(p, m) \/ SendFails(p, m)
               \/ NextGroup(p)
        PROVE  NoticesIInv'
    BY <1>3, NotifyIInv, SendIInv, SendFailsIInv, NextGroupIInv
  <1>4. CASE UNCHANGED <<noticeVars, requestVars>>
    BY <1>4, NoticesStand DEF noticeVars, requestVars
  <1> QED  BY <1>1, <1>2, <1>3, <1>4 DEF NoticesNext

(* A notice that went through all its groups has tried every message with  *)
(* a template for what can be reached, whatever an admin does to the       *)
(* stored templates meanwhile; for every set of kinds the tables have, and *)
(* any number of handlers in flight.                                       *)
THEOREM AllAddressed == NoticesSpec => []NobodyLeftOut
  <1>1. NoticesIInv => NobodyLeftOut
    BY DEF NoticesIInv, NobodyLeftOut, Tried, AllMessages
  <1> QED  BY <1>1, NoticesInitIInv, NoticesNextIInv, PTL DEF NoticesSpec
=============================================================================
