--------------------------- MODULE OperationsProofs ---------------------------
(***************************************************************************)
(* Proofs about field reps and about the vendor's payouts, for any number  *)
(* of them and of handlers in flight: what a bonus cycle may write back,   *)
(* and that the money of a transfer has left the vendor's wallet.          *)
(***************************************************************************)
EXTENDS Reps, Payouts, TLAPS, FiniteSetTheorems

-----------------------------------------------------------------------------
(* A slot takes a state, or is free again; the others keep theirs.         *)

LEMMA SlotTakes ==
  ASSUME NEW Calls, NoCall \notin Calls, call \in [Procs -> Calls \cup {NoCall}],
         NEW p \in Procs, NEW x \in Calls, call' = [call EXCEPT ![p] = x]
  PROVE  /\ call' \in [Procs -> Calls \cup {NoCall}] /\ call'[p] = x /\ x # NoCall
         /\ \A q \in Procs \ {p} : call'[q] = call[q]
  OBVIOUS

LEMMA SlotFreed ==
  ASSUME NEW Calls, call \in [Procs -> Calls \cup {NoCall}],
         NEW p \in Procs, call' = [call EXCEPT ![p] = NoCall]
  PROVE  /\ call' \in [Procs -> Calls \cup {NoCall}] /\ call'[p] = NoCall
         /\ \A q \in Procs \ {p} : call'[q] = call[q]
  OBVIOUS

-----------------------------------------------------------------------------
(* Reps.  A handler that holds a copy of a rep's row holds one in which    *)
(* only the active are available, unless two saves of the row overlapped.  *)

ActiveOnly(x) == x.available => x.status = "active"

CopiesOK(x) ==
  /\ x.pc \in {"repSave", "repWrite"} /\ x.rep \notin repRaced => ActiveOnly(x.row)
  /\ \A r \in RepIds \ repRaced : ActiveOnly(x.copy[r])

RepIInv ==
  /\ RepsTypeOK
  /\ call \in [Procs -> RepCall \cup {NoCall}]
  /\ AvailableIsActive
  /\ \A p \in Procs : call[p] # NoCall => CopiesOK(call[p])

LEMMA RepInitIInv == RequestsInit /\ RepsInit => RepIInv
  BY RepConstantsOK
  DEF RequestsInit, RepsInit, RepIInv, RepsTypeOK, AvailableIsActive, NoRep, Rep, PseudoWallet, NoPoint

LEMMA RepCallFields ==
  ASSUME NEW c \in RepCall
  PROVE  /\ c.rep \in RepIds /\ c.todo \in Seq(RepIds) /\ c.wallet \in PseudoWallet
         /\ c.amount \in Nat /\ c.base \in Nat /\ c.copy \in [RepIds -> Rep]
         /\ c.row \in Rep /\ c.seen \in Rep /\ c # NoCall
  BY RepConstantsOK DEF RepCall

LEMMA RepCalls ==
  ASSUME RepIInv
  PROVE  \A p \in Procs : call[p] # NoCall => call[p] \in RepCall /\ CopiesOK(call[p])
  BY DEF RepIInv

LEMMA RepRowOK ==
  ASSUME RepIInv, NEW r \in RepIds
  PROVE  rep[r] \in Rep /\ pseudo[r] \in PseudoWallet /\ (r \notin repRaced => ActiveOnly(rep[r]))
  BY DEF RepIInv, RepsTypeOK, AvailableIsActive, ActiveOnly

(* The rows of reps stay; a handler takes a state whose copies are right.  *)
LEMMA RowsStayIInv ==
  ASSUME RepIInv, NEW p \in Procs, NEW x \in RepCall \cup {NoCall},
         call' = [call EXCEPT ![p] = x], UNCHANGED <<rep, repRaced>>,
         x # NoCall => CopiesOK(x),
         pseudo' \in [RepIds -> PseudoWallet], repRows' \in [RepIds -> Nat],
         rated' \in [RepIds -> Nat], pseudoRaced' \subseteq RepIds
  PROVE  RepIInv'
  <1>1. call' \in [Procs -> RepCall \cup {NoCall}]
    BY DEF RepIInv
  <1>2. RepsTypeOK' /\ AvailableIsActive'
    BY DEF RepIInv, RepsTypeOK, AvailableIsActive
  <1>3. \A q \in Procs : call'[q] # NoCall => CopiesOK(call'[q])
    BY DEF RepIInv
  <1>4. \A q \in Procs : call'[q] # NoCall => CopiesOK(call[q])'
    BY <1>3 DEF CopiesOK
  <1> QED  BY <1>1, <1>2, <1>4 DEF RepIInv

LEMMA LedgersTyped ==
  ASSUME RepIInv, UNCHANGED <<pseudo, repRows, rated, pseudoRaced>>
  PROVE  /\ pseudo' \in [RepIds -> PseudoWallet] /\ repRows' \in [RepIds -> Nat]
         /\ rated' \in [RepIds -> Nat] /\ pseudoRaced' \subseteq RepIds
  BY DEF RepIInv, RepsTypeOK

LEMMA WorksTyped ==
  ASSUME NEW r \in RepIds, NEW pc \in {"repSave", "credit", "cycleRep"}
  PROVE  Works(pc, r) \in RepCall
  <1>1. NoRep \in Rep /\ NoPoint \in PseudoWallet
    BY DEF NoRep, Rep, NoPoint, PseudoWallet
  <1>2. <<>> \in Seq(RepIds) /\ [s \in RepIds |-> NoRep] \in [RepIds -> Rep]
    BY <1>1
  <1> QED  BY <1>1, <1>2 DEF Works, RepCall

(* A handler that loads a row and makes one of it in which only the active *)
(* are available.                                                          *)
LEMMA ChangeIInv ==
  ASSUME RepIInv, NEW p \in Procs, NEW r \in RepIds, NEW row \in Rep,
         r \notin repRaced => ActiveOnly(row), Change(p, r, row)
  PROVE  RepIInv'
  <1> DEFINE w == Works("repSave", r)
             x == [w EXCEPT !.row = row]
  <1>1. call' = [call EXCEPT ![p] = x] /\ UNCHANGED repVars
    BY DEF Change, Begin
  <1>2. w \in RepCall
    BY WorksTyped
  <1>3. w.rep = r /\ \A s \in RepIds : w.copy[s] = NoRep
    BY DEF Works
  <1> HIDE DEF w
  <1>4. x \in RepCall /\ x.rep = r /\ x.row = row /\ x.copy = w.copy
    BY <1>2, <1>3 DEF RepCall
  <1> HIDE DEF x
  <1>5. CopiesOK(x)
    BY <1>3, <1>4 DEF CopiesOK, ActiveOnly, NoRep
  <1>6. UNCHANGED <<rep, repRaced, pseudo, repRows, rated, pseudoRaced>>
    BY <1>1 DEF repVars
  <1> QED  BY <1>1, <1>4, <1>5, <1>6, LedgersTyped, RowsStayIInv

LEMMA CreateIInv ==
  ASSUME RepIInv, NEW r \in RepIds, CreateRep(r)
  PROVE  RepIInv'
  <1> DEFINE row == [rep[r] EXCEPT !.status = "active"]
  <1>1. UNCHANGED <<call, pseudo, repRows, rated, pseudoRaced, repRaced>> /\ rep' = [rep EXCEPT ![r] = row]
    BY DEF CreateRep, OneStep
  <1>2. rep[r] \in Rep
    BY RepRowOK
  <1>3. row \in Rep /\ row.status = "active"
    BY <1>2 DEF Rep
  <1> HIDE DEF row
  <1>4. RepsTypeOK' /\ AvailableIsActive'
    BY <1>1, <1>3 DEF RepIInv, RepsTypeOK, AvailableIsActive
  <1>5. \A p \in Procs : call'[p] # NoCall => CopiesOK(call[p])'
    BY <1>1 DEF RepIInv, CopiesOK
  <1> QED  BY <1>1, <1>4, <1>5 DEF RepIInv

(* The reps of a cycle, in some order.                                     *)
LEMMA OrdersTyped ==
  ASSUME NEW S \in SUBSET RepIds, NEW s \in Orders(S), s # <<>>
  PROVE  s \in Seq(RepIds) /\ s[1] \in RepIds
  <1> DEFINE n == Cardinality(S)
  <1>1. n \in Nat
    BY RepConstantsOK, FS_Subset, FS_CardinalityType
  <1>2. s \in [1..n -> RepIds]
    BY DEF Orders
  <1> HIDE DEF n
  <1>3. s \in Seq(RepIds)
    BY <1>1, <1>2
  <1> QED  BY <1>3

LEMMA RepRequestIInv ==
  ASSUME RepIInv, RepRequest
  PROVE  RepIInv'
  <1> DEFINE StatusRow(r, s) == [rep[r] EXCEPT !.status = s, !.available = @ /\ s = "active"]
             FlagRow(r, b) == [rep[r] EXCEPT !.flagged = b]
             AvailableRow(r, b) == [rep[r] EXCEPT !.available = b]
  <1>0. ASSUME NEW r \in RepIds
        PROVE  /\ \A b \in BOOLEAN :
                    /\ FlagRow(r, b) \in Rep /\ (r \notin repRaced => ActiveOnly(FlagRow(r, b)))
                    /\ AvailableRow(r, b) \in Rep
                    /\ rep[r].status = "active" => ActiveOnly(AvailableRow(r, b))
               /\ \A s \in {"active", "inactive", "suspended"} :
                    StatusRow(r, s) \in Rep /\ ActiveOnly(StatusRow(r, s))
    <2> PICK row \in Rep : row = rep[r]
      BY RepRowOK
    <2>1. r \notin repRaced => ActiveOnly(row)
      BY RepRowOK
    <2> QED  BY <2>1 DEF Rep, ActiveOnly
  <1>1. ASSUME NEW r \in RepIds, CreateRep(r)
        PROVE  RepIInv'
    BY <1>1, CreateIInv
  <1>2. ASSUME NEW p \in Procs, NEW r \in RepIds, ClearFlag(p, r) \/ RateRep(p, r)
        PROVE  RepIInv'
    <2>1. Change(p, r, FlagRow(r, FALSE)) \/ Change(p, r, FlagRow(r, TRUE))
      BY <1>2 DEF ClearFlag, RateRep
    <2> HIDE DEF FlagRow
    <2> QED  BY <1>0, <2>1, ChangeIInv
  <1>3. ASSUME NEW p \in Procs, NEW r \in RepIds, NEW s \in {"active", "inactive", "suspended"},
               UpdateRep(p, r, s)
        PROVE  RepIInv'
    <2>1. Change(p, r, StatusRow(r, s))
      BY <1>3 DEF UpdateRep
    <2> HIDE DEF StatusRow
    <2> QED  BY <1>0, <2>1, ChangeIInv
  <1>4. ASSUME NEW p \in Procs, NEW r \in RepIds, NEW b \in BOOLEAN, SetAvailability(p, r, b)
        PROVE  RepIInv'
    <2>1. rep[r].status = "active" /\ Change(p, r, AvailableRow(r, b))
      BY <1>4 DEF SetAvailability
    <2> HIDE DEF AvailableRow
    <2> QED  BY <1>0, <2>1, ChangeIInv
  <1>5. ASSUME NEW p \in Procs, NEW r \in RepIds, OrderPaysRep(p, r)
        PROVE  RepIInv'
    <2> DEFINE w == Works("credit", r)
               x == [w EXCEPT !.wallet = pseudo[r], !.amount = OrderPay]
    <2>1. w \in RepCall /\ w.pc = "credit" /\ \A s \in RepIds : w.copy[s] = NoRep
      BY WorksTyped DEF Works
    <2>2. call' = [call EXCEPT ![p] = x] /\ UNCHANGED repVars
      BY <1>5 DEF OrderPaysRep, Begin
    <2> HIDE DEF w
    <2>3. x \in RepCall /\ x.pc = "credit" /\ x.copy = w.copy
      BY <2>1, RepRowOK, RepConstantsOK DEF RepCall
    <2> HIDE DEF x
    <2>4. CopiesOK(x)
      BY <2>1, <2>3 DEF CopiesOK, ActiveOnly, NoRep
    <2>5. UNCHANGED <<rep, repRaced, pseudo, repRows, rated, pseudoRaced>>
      BY <2>2 DEF repVars
    <2> QED  BY <2>2, <2>3, <2>4, <2>5, LedgersTyped, RowsStayIInv
  <1>6. ASSUME NEW p \in Procs, RunBonusCycle(p)
        PROVE  RepIInv'
    <2>1. PICK s \in Orders({r \in RepIds : rep[r].status = "active"}) :
            s # <<>> /\ Begin(p, [Works("cycleRep", s[1]) EXCEPT !.todo = s, !.copy = rep])
      BY <1>6 DEF RunBonusCycle
    <2>2. s \in Seq(RepIds) /\ s[1] \in RepIds
      BY <2>1, OrdersTyped
    <2> DEFINE w == Works("cycleRep", s[1])
               x == [w EXCEPT !.todo = s, !.copy = rep]
    <2>3. w \in RepCall /\ w.pc = "cycleRep"
      BY <2>2, WorksTyped DEF Works
    <2>4. call' = [call EXCEPT ![p] = x] /\ UNCHANGED repVars
      BY <1>6, <2>1 DEF RunBonusCycle, Begin
    <2>5. rep \in [RepIds -> Rep]
      BY DEF RepIInv, RepsTypeOK
    <2> HIDE DEF w
    <2>6. x \in RepCall /\ x.pc = "cycleRep" /\ x.copy = rep
      BY <2>2, <2>3, <2>5 DEF RepCall
    <2> HIDE DEF x
    <2>7. CopiesOK(x)
      BY <2>6, RepRowOK DEF CopiesOK
    <2>8. UNCHANGED <<rep, repRaced, pseudo, repRows, rated, pseudoRaced>>
      BY <2>4 DEF repVars
    <2> QED  BY <2>4, <2>6, <2>7, <2>8, LedgersTyped, RowsStayIInv
  <1> QED  BY <1>1, <1>2, <1>3, <1>4, <1>5, <1>6 DEF RepRequest

(* A handler moves on in place, to a copy made of the one it holds.        *)
LEMMA MovesIInv ==
  ASSUME RepIInv, NEW p \in Procs, call[p] # NoCall, NEW x \in RepCall,
         call' = [call EXCEPT ![p] = x], x.copy = call[p].copy,
         x.pc \in {"repSave", "repWrite"} /\ x.rep \notin repRaced => ActiveOnly(x.row),
         UNCHANGED <<rep, repRaced>>,
         pseudo' \in [RepIds -> PseudoWallet], repRows' \in [RepIds -> Nat],
         rated' \in [RepIds -> Nat], pseudoRaced' \subseteq RepIds
  PROVE  RepIInv'
  <1>1. CopiesOK(x)
    BY RepCalls DEF CopiesOK
  <1> QED  BY <1>1, RowsStayIInv

LEMMA EndsIInv ==
  ASSUME RepIInv, NEW p \in Procs, End(p), UNCHANGED <<rep, repRaced>>,
         pseudo' \in [RepIds -> PseudoWallet], repRows' \in [RepIds -> Nat],
         rated' \in [RepIds -> Nat], pseudoRaced' \subseteq RepIds
  PROVE  RepIInv'
  BY RowsStayIInv DEF End, GotoState

LEMMA NextRepIInv ==
  ASSUME RepIInv, NEW p \in Procs, call[p] # NoCall, NextRep(p), UNCHANGED <<rep, repRaced>>,
         pseudo' \in [RepIds -> PseudoWallet], repRows' \in [RepIds -> Nat],
         rated' \in [RepIds -> Nat], pseudoRaced' \subseteq RepIds
  PROVE  RepIInv'
  <1> PICK c \in RepCall : c = call[p]
    BY RepCalls
  <1> DEFINE rest == Tail(c.todo)
             x == [c EXCEPT !.pc = "cycleRep", !.todo = rest, !.rep = rest[1], !.base = 0]
  <1>1. CASE End(p)
    BY <1>1, EndsIInv
  <1>2. CASE ~End(p)
    <2>1. rest # <<>> /\ call' = [call EXCEPT ![p] = x]
      BY <1>2 DEF NextRep, GotoState
    <2>2. rest \in Seq(RepIds) /\ rest[1] \in RepIds
      <3>1. c.todo \in Seq(RepIds)
        BY RepCallFields
      <3> PICK todo \in Seq(RepIds) : todo = c.todo
        BY <3>1
      <3>2. todo # <<>> => Tail(todo) \in Seq(RepIds)
        OBVIOUS
      <3>3. CASE todo = <<>>
        <4>1. Tail(todo) = <<>>
          BY <3>3
        <4> QED  BY <2>1, <4>1
      <3>4. CASE todo # <<>>
        <4>1. Tail(todo) \in Seq(RepIds) /\ Tail(todo) # <<>>
          BY <2>1, <3>2, <3>4
        <4>2. Tail(todo)[1] \in RepIds
          BY <4>1
        <4> QED  BY <4>1, <4>2
      <3> QED  BY <3>3, <3>4
    <2>3. x \in RepCall /\ x.pc = "cycleRep" /\ x.copy = c.copy
      BY <2>2 DEF RepCall
    <2> HIDE DEF x
    <2> QED  BY <2>1, <2>3, MovesIInv
  <1> QED  BY <1>1, <1>2

LEMMA SaveRepIInv ==
  ASSUME RepIInv, NEW p \in Procs, SaveRep(p)
  PROVE  RepIInv'
  <1>1. call[p] # NoCall /\ call[p].pc = "repSave"
    BY DEF SaveRep, At
  <1> PICK c \in RepCall : c = call[p] /\ CopiesOK(c)
    BY <1>1, RepCalls
  <1> DEFINE x == [c EXCEPT !.pc = "repWrite", !.seen = rep[c.rep]]
  <1>2. call' = [call EXCEPT ![p] = x] /\ UNCHANGED <<rep, repRaced, pseudo, repRows, rated, pseudoRaced>>
    BY DEF SaveRep, GotoState, repVars
  <1>3. rep[c.rep] \in Rep
    BY RepCallFields, RepRowOK
  <1>4. x \in RepCall /\ x.copy = c.copy /\ x.rep = c.rep /\ x.row = c.row
    BY <1>3 DEF RepCall
  <1> HIDE DEF x
  <1>5. x.rep \notin repRaced => ActiveOnly(x.row)
    BY <1>1, <1>4 DEF CopiesOK
  <1> QED  BY <1>1, <1>2, <1>4, <1>5, LedgersTyped, MovesIInv

LEMMA MergedRow ==
  ASSUME NEW row \in Rep, NEW seen \in Rep, NEW now \in Rep
  PROVE  Merged(row, seen, now) \in Rep /\ (seen = now /\ ActiveOnly(row) => ActiveOnly(Merged(row, seen, now)))
  BY DEF Merged, Rep, ActiveOnly

LEMMA WriteRepIInv ==
  ASSUME RepIInv, NEW p \in Procs, WriteRep(p)
  PROVE  RepIInv'
  <1>1. call[p] # NoCall /\ call[p].pc = "repWrite"
    BY DEF WriteRep, At
  <1> PICK c \in RepCall : c = call[p] /\ CopiesOK(c)
    BY <1>1, RepCalls
  <1> DEFINE r == c.rep
             row == Merged(c.row, c.seen, rep[r])
             x == [c EXCEPT !.pc = "cycleReset", !.wallet = pseudo[r]]
  <1>2. /\ rep' = [rep EXCEPT ![r] = row]
        /\ repRaced' = IF rep[r] # c.seen THEN repRaced \cup {r} ELSE repRaced
        /\ call' = [call EXCEPT ![p] = NoCall] \/ call' = [call EXCEPT ![p] = x]
        /\ UNCHANGED <<pseudo, repRows, rated, pseudoRaced>>
    BY DEF WriteRep, End, GotoState
  <1>3. /\ r \in RepIds /\ rep[r] \in Rep /\ c.row \in Rep /\ c.seen \in Rep /\ pseudo[r] \in PseudoWallet
        /\ c \in RepCall /\ c.copy \in [RepIds -> Rep]
    BY RepCallFields, RepRowOK
  <1>4. row \in Rep /\ (c.seen = rep[r] /\ ActiveOnly(c.row) => ActiveOnly(row))
    BY <1>3, MergedRow
  <1>5. r \notin repRaced' => r \notin repRaced /\ c.seen = rep[r]
    BY <1>2
  <1>6. r \notin repRaced => ActiveOnly(c.row)
    BY <1>1 DEF CopiesOK
  <1>7. r \notin repRaced' => ActiveOnly(row)
    BY <1>4, <1>5, <1>6
  <1>8. x \in RepCall /\ x.pc = "cycleReset" /\ x.copy = c.copy
    BY <1>3 DEF RepCall
  <1> HIDE DEF row, x
  <1>9. repRaced \subseteq repRaced' /\ repRaced' \subseteq RepIds
    BY <1>2, <1>3 DEF RepIInv, RepsTypeOK
  <1>10. RepsTypeOK'
    BY <1>2, <1>4, <1>9 DEF RepIInv, RepsTypeOK
  <1>11. AvailableIsActive'
    BY <1>2, <1>3, <1>7, <1>9 DEF RepIInv, RepsTypeOK, AvailableIsActive, ActiveOnly
  <1>12. call' \in [Procs -> RepCall \cup {NoCall}]
    BY <1>2, <1>8 DEF RepIInv
  <1>13. ASSUME NEW q \in Procs, call'[q] # NoCall PROVE CopiesOK(call[q])'
    <2>1. CASE q # p
      <3>1. call'[q] = call[q] /\ CopiesOK(call[q])
        BY <1>2, <1>13, <2>1 DEF RepIInv
      <3> QED  BY <1>9, <3>1 DEF CopiesOK
    <2>2. CASE q = p
      <3>1. call'[q] = x
        BY <1>2, <1>13, <2>2 DEF RepIInv
      <3> QED  BY <1>8, <1>9, <3>1 DEF CopiesOK
    <2> QED  BY <2>1, <2>2
  <1> QED  BY <1>10, <1>11, <1>12, <1>13 DEF RepIInv

LEMMA CreditedTyped ==
  ASSUME NEW w \in PseudoWallet, NEW n \in Nat
  PROVE  Credited(w, n) \in PseudoWallet
  BY DEF Credited, PseudoWallet

LEMMA SaveRepCreditIInv ==
  ASSUME RepIInv, NEW p \in Procs, SaveRepCredit(p)
  PROVE  RepIInv'
  <1>1. call[p] # NoCall
    BY DEF SaveRepCredit, At
  <1> PICK c \in RepCall : c = call[p]
    BY <1>1, RepCalls
  <1> DEFINE w == Credited(c.wallet, c.amount)
             x == [c EXCEPT !.pc = "creditRow"]
  <1>2. /\ pseudo' = [pseudo EXCEPT ![c.rep] = w] /\ call' = [call EXCEPT ![p] = x]
        /\ pseudoRaced' \subseteq pseudoRaced \cup {c.rep} /\ UNCHANGED <<rep, repRows, rated, repRaced>>
    BY DEF SaveRepCredit, Goto, GotoState
  <1>3. c.rep \in RepIds /\ w \in PseudoWallet
    BY RepCallFields, CreditedTyped
  <1>4. x \in RepCall /\ x.pc = "creditRow" /\ x.copy = c.copy
    BY DEF RepCall
  <1> HIDE DEF w, x
  <1>5. /\ pseudo' \in [RepIds -> PseudoWallet] /\ repRows' \in [RepIds -> Nat]
        /\ rated' \in [RepIds -> Nat] /\ pseudoRaced' \subseteq RepIds
    BY <1>2, <1>3 DEF RepIInv, RepsTypeOK
  <1> QED  BY <1>1, <1>2, <1>4, <1>5, MovesIInv

LEMMA RowOfRepCreditIInv ==
  ASSUME RepIInv, NEW p \in Procs, RowOfRepCredit(p)
  PROVE  RepIInv'
  <1>1. call[p] # NoCall
    BY DEF RowOfRepCredit, At
  <1> PICK c \in RepCall : c = call[p]
    BY <1>1, RepCalls
  <1> DEFINE x == [c EXCEPT !.pc = "cycleFlag"]
  <1>2. /\ repRows' = [repRows EXCEPT ![c.rep] = @ + c.amount]
        /\ End(p) \/ call' = [call EXCEPT ![p] = x]
        /\ UNCHANGED <<rep, pseudo, rated, pseudoRaced, repRaced>>
    BY DEF RowOfRepCredit, Goto, GotoState
  <1>3. c.rep \in RepIds /\ c.amount \in Nat
    BY RepCallFields
  <1>4. x \in RepCall /\ x.pc = "cycleFlag" /\ x.copy = c.copy
    BY DEF RepCall
  <1> HIDE DEF x
  <1>5. /\ pseudo' \in [RepIds -> PseudoWallet] /\ repRows' \in [RepIds -> Nat]
        /\ rated' \in [RepIds -> Nat] /\ pseudoRaced' \subseteq RepIds
    BY <1>2, <1>3 DEF RepIInv, RepsTypeOK
  <1>6. CASE End(p)
    BY <1>2, <1>5, <1>6, EndsIInv
  <1>7. CASE call' = [call EXCEPT ![p] = x]
    BY <1>1, <1>2, <1>4, <1>5, <1>7, MovesIInv
  <1> QED  BY <1>2, <1>6, <1>7

(* What a rep's turn in a cycle rates.                                     *)
LEMMA BonusTyped ==
  ASSUME NEW b \in Nat, NEW percent \in BonusPercent
  PROVE  (b * percent) \div 100 \in Nat
  <1> DEFINE product == b * percent
  <1>1. percent \in Nat
    BY RepConstantsOK
  <1>2. product \in Nat
    BY <1>1
  <1> HIDE DEF product
  <1>3. product \div 100 \in Nat
    BY <1>2
  <1> QED  BY <1>3 DEF product

RatedCall(c, bonus, pc, base) == [c EXCEPT !.amount = bonus, !.pc = pc, !.base = base]

(* A rep's turn with a balance, its bonus named.                           *)
LEMMA CycleRates ==
  ASSUME RepIInv, NEW p \in Procs, NEW c \in RepCall, c = call[p], CycleRep(p),
         ~(NextRep(p) /\ UNCHANGED rated)
  PROVE  \E bonus \in Nat, base \in Nat, pc \in {"cycleBonus", "cycleFlag"} :
           /\ base = pseudo[c.rep].balance + bonus
           /\ pc = "cycleBonus" <=> bonus > 0
           /\ base > 0
           /\ call' = [call EXCEPT ![p] = RatedCall(c, bonus, pc, base)]
           /\ rated' = [rated EXCEPT ![c.rep] = @ + base]
           /\ UNCHANGED <<calls, deaths>>
  <1> DEFINE b == pseudo[c.rep].balance
  <1>1. b # 0 /\ \E percent \in BonusPercent :
          LET bonus == (b * percent) \div 100
          IN /\ GotoState(p, [c EXCEPT !.amount = bonus,
                                !.pc = IF bonus > 0 THEN "cycleBonus" ELSE "cycleFlag", !.base = b + bonus])
             /\ rated' = [rated EXCEPT ![c.rep] = @ + b + bonus]
    BY DEF CycleRep
  <1>2. c.rep \in RepIds /\ b \in Nat /\ rated \in [RepIds -> Nat]
    BY RepCallFields, RepRowOK DEF PseudoWallet, RepIInv, RepsTypeOK
  <1> HIDE DEF b
  <1> PICK percent \in BonusPercent :
          LET bonus == (b * percent) \div 100
          IN /\ GotoState(p, [c EXCEPT !.amount = bonus,
                                !.pc = IF bonus > 0 THEN "cycleBonus" ELSE "cycleFlag", !.base = b + bonus])
             /\ rated' = [rated EXCEPT ![c.rep] = @ + b + bonus]
    BY <1>1
  <1> PICK bonus \in Nat : bonus = (b * percent) \div 100
    BY <1>2, BonusTyped
  <1> PICK pc \in {"cycleBonus", "cycleFlag"} : pc = IF bonus > 0 THEN "cycleBonus" ELSE "cycleFlag"
    OBVIOUS
  <1> PICK base \in Nat : base = b + bonus
    BY <1>2
  <1>3. /\ GotoState(p, [c EXCEPT !.amount = bonus, !.pc = pc, !.base = base])
        /\ rated' = [rated EXCEPT ![c.rep] = @ + b + bonus]
    OBVIOUS
  <1>4. rated[c.rep] + b + bonus = rated[c.rep] + base
    BY <1>2
  <1>5a. base > 0
    BY <1>1, <1>2
  <1>5. base > 0 /\ base = pseudo[c.rep].balance + bonus
    BY <1>5a DEF b
  <1>6. pc = "cycleBonus" <=> bonus > 0
    OBVIOUS
  <1>7. /\ call' = [call EXCEPT ![p] = RatedCall(c, bonus, pc, base)]
        /\ UNCHANGED <<calls, deaths>>
    BY <1>3 DEF GotoState, RatedCall
  <1>8. rated' = [rated EXCEPT ![c.rep] = @ + base]
    BY <1>3, <1>4
  <1> QED  BY <1>5, <1>6, <1>7, <1>8

LEMMA CycleRepIInv ==
  ASSUME RepIInv, NEW p \in Procs, CycleRep(p)
  PROVE  RepIInv'
  <1>1. call[p] # NoCall /\ UNCHANGED <<rep, pseudo, repRows, pseudoRaced, repRaced>>
    BY DEF CycleRep, At
  <1> PICK c \in RepCall : c = call[p]
    BY <1>1, RepCalls
  <1>2. CASE NextRep(p) /\ UNCHANGED rated
    BY <1>1, <1>2, LedgersTyped, NextRepIInv
  <1>3. CASE ~(NextRep(p) /\ UNCHANGED rated)
    <2>0. \E bonus \in Nat, base \in Nat, pc \in {"cycleBonus", "cycleFlag"} :
           /\ base = pseudo[c.rep].balance + bonus
           /\ pc = "cycleBonus" <=> bonus > 0
           /\ base > 0
           /\ call' = [call EXCEPT ![p] = RatedCall(c, bonus, pc, base)]
           /\ rated' = [rated EXCEPT ![c.rep] = @ + base]
           /\ UNCHANGED <<calls, deaths>>
      BY <1>3, CycleRates
    <2> PICK bonus \in Nat, base \in Nat, pc \in {"cycleBonus", "cycleFlag"} :
           /\ call' = [call EXCEPT ![p] = RatedCall(c, bonus, pc, base)]
           /\ rated' = [rated EXCEPT ![c.rep] = @ + base]
      BY <2>0
    <2> DEFINE x == RatedCall(c, bonus, pc, base)
    <2>1. x \in RepCall /\ x.pc = pc /\ x.copy = c.copy
      BY DEF RepCall, RatedCall
    <2>2. call' = [call EXCEPT ![p] = x]
      OBVIOUS
    <2> HIDE DEF x
    <2>3. c.rep \in RepIds
      BY RepCallFields
    <2>4. /\ pseudo' \in [RepIds -> PseudoWallet] /\ repRows' \in [RepIds -> Nat]
          /\ rated' \in [RepIds -> Nat] /\ pseudoRaced' \subseteq RepIds
      BY <1>1, <2>3 DEF RepIInv, RepsTypeOK
    <2> QED  BY <1>1, <2>1, <2>2, <2>4, MovesIInv
  <1> QED  BY <1>2, <1>3

LEMMA CycleBonusIInv ==
  ASSUME RepIInv, NEW p \in Procs, CycleBonus(p)
  PROVE  RepIInv'
  <1>1. call[p] # NoCall
    BY DEF CycleBonus, At
  <1> PICK c \in RepCall : c = call[p]
    BY <1>1, RepCalls
  <1> DEFINE x == [c EXCEPT !.pc = "credit", !.wallet = pseudo[c.rep]]
  <1>2. call' = [call EXCEPT ![p] = x] /\ UNCHANGED <<rep, repRaced, pseudo, repRows, rated, pseudoRaced>>
    BY DEF CycleBonus, GotoState, repVars
  <1>3. pseudo[c.rep] \in PseudoWallet
    BY RepCallFields, RepRowOK
  <1>4. x \in RepCall /\ x.pc = "credit" /\ x.copy = c.copy
    BY <1>3 DEF RepCall
  <1> HIDE DEF x
  <1> QED  BY <1>1, <1>2, <1>4, LedgersTyped, MovesIInv

LEMMA CycleFlagIInv ==
  ASSUME RepIInv, NEW p \in Procs, CycleFlag(p)
  PROVE  RepIInv'
  <1>1. call[p] # NoCall
    BY DEF CycleFlag, At
  <1> PICK c \in RepCall : c = call[p] /\ CopiesOK(c)
    BY <1>1, RepCalls
  <1> DEFINE copy == c.copy[c.rep]
             row == [copy EXCEPT !.flagged = TRUE]
             x == [c EXCEPT !.pc = "cycleReset", !.wallet = pseudo[c.rep]]
             y == [c EXCEPT !.pc = "repSave", !.row = row]
  <1>2. /\ call' = [call EXCEPT ![p] = x] \/ call' = [call EXCEPT ![p] = y]
        /\ UNCHANGED <<rep, repRaced, pseudo, repRows, rated, pseudoRaced>>
    BY DEF CycleFlag, GotoState, repVars
  <1>3. c.rep \in RepIds /\ pseudo[c.rep] \in PseudoWallet /\ copy \in Rep
    BY RepCallFields, RepRowOK
  <1>4. c.rep \notin repRaced => ActiveOnly(copy)
    BY <1>3 DEF CopiesOK
  <1>5. row \in Rep /\ (ActiveOnly(copy) => ActiveOnly(row))
    BY <1>3 DEF Rep, ActiveOnly
  <1>6. x \in RepCall /\ x.pc = "cycleReset" /\ x.copy = c.copy
    BY <1>3 DEF RepCall
  <1> HIDE DEF row
  <1>7. y \in RepCall /\ y.copy = c.copy /\ y.rep = c.rep /\ y.row = row
    BY <1>5 DEF RepCall
  <1> HIDE DEF copy, x, y
  <1>8. CASE call' = [call EXCEPT ![p] = x]
    BY <1>1, <1>2, <1>6, <1>8, LedgersTyped, MovesIInv
  <1>9. CASE call' = [call EXCEPT ![p] = y]
    BY <1>1, <1>2, <1>4, <1>5, <1>7, <1>9, LedgersTyped, MovesIInv
  <1> QED  BY <1>2, <1>8, <1>9

LEMMA CycleResetIInv ==
  ASSUME RepIInv, NEW p \in Procs, CycleReset(p)
  PROVE  RepIInv'
  <1>1. call[p] # NoCall
    BY DEF CycleReset, At
  <1> PICK c \in RepCall : c = call[p]
    BY <1>1, RepCalls
  <1> DEFINE w == [balance |-> 0, earned |-> c.wallet.earned]
  <1>2. /\ NextRep(p) /\ UNCHANGED <<rep, repRows, rated, repRaced>>
        /\ pseudo' = [pseudo EXCEPT ![c.rep] = w] /\ pseudoRaced' \subseteq pseudoRaced \cup {c.rep}
    BY DEF CycleReset
  <1>3. c.rep \in RepIds /\ w \in PseudoWallet
    BY RepCallFields DEF PseudoWallet
  <1> HIDE DEF w
  <1>4. /\ pseudo' \in [RepIds -> PseudoWallet] /\ repRows' \in [RepIds -> Nat]
        /\ rated' \in [RepIds -> Nat] /\ pseudoRaced' \subseteq RepIds
    BY <1>2, <1>3 DEF RepIInv, RepsTypeOK
  <1> QED  BY <1>1, <1>2, <1>4, NextRepIInv

LEMMA RepNextIInv == RepIInv /\ [RepsNext]_<<repVars, requestVars>> => RepIInv'
  <1> SUFFICES ASSUME RepIInv, [RepsNext]_<<repVars, requestVars>>
               PROVE  RepIInv'
    OBVIOUS
  <1>1. ASSUME NEW p \in Procs, RepStep(p)
        PROVE  RepIInv'
    BY <1>1, SaveRepIInv, WriteRepIInv, SaveRepCreditIInv, RowOfRepCreditIInv, CycleRepIInv,
       CycleBonusIInv, CycleFlagIInv, CycleResetIInv
    DEF RepStep
  <1>2. ASSUME NEW p \in Procs, RepDies(p)
        PROVE  RepIInv'
    <2>1. call' = [call EXCEPT ![p] = NoCall] /\ UNCHANGED <<rep, repRaced, pseudo, repRows, rated, pseudoRaced>>
      BY <1>2 DEF RepDies, Dies, repVars
    <2> QED  BY <2>1, LedgersTyped, RowsStayIInv
  <1>3. CASE UNCHANGED <<repVars, requestVars>>
    BY <1>3 DEF repVars, requestVars, RepIInv, RepsTypeOK, AvailableIsActive, CopiesOK
  <1> QED  BY <1>1, <1>2, <1>3, RepRequestIInv DEF RepsNext

(* Only an active rep can be asked to work, however admins, the reps,      *)
(* customers who rate them and bonus cycles save stale copies over each    *)
(* other, unless two saves of the row overlapped between select and        *)
(* update.                                                                 *)
THEOREM OnlyActiveAvailable == RepsSpec => []AvailableIsActive
  <1>1. RepIInv => AvailableIsActive
    BY DEF RepIInv
  <1> QED  BY <1>1, RepInitIInv, RepNextIInv, PTL DEF RepsSpec

-----------------------------------------------------------------------------
(* The points of rep r that cycles under way have rated, and the rows of   *)
(* credits under way, one element for each point: a wallet of which no     *)
(* copy was outdated has earned what the ledger and the rows to come say,  *)
(* and what past cycles and its balance account for, less the points of    *)
(* cycles under way.                                                       *)

Heap(f) == {t \in Procs \X Nat : t[2] \in 1..f[t[1]]}

BaseOf(x, r) == IF x # NoCall /\ x.rep = r THEN x.base ELSE 0
DueOf(x, r)  == IF x # NoCall /\ x.rep = r /\ x.pc = "creditRow" THEN x.amount ELSE 0

PointsRated(r) == Heap([p \in Procs |-> BaseOf(call[p], r)])
RowsDue(r)     == Heap([p \in Procs |-> DueOf(call[p], r)])

PlaceOK(x) ==
  /\ x.todo = <<>> => x.base = 0
  /\ x.pc = "cycleRep" => x.base = 0 /\ x.todo # <<>>

Accounted(r) ==
  r \notin pseudoRaced =>
    /\ repRows[r] + Cardinality(RowsDue(r)) <= pseudo[r].earned
    /\ deaths = 0 =>
         /\ repRows[r] + Cardinality(RowsDue(r)) = pseudo[r].earned
         /\ pseudo[r].earned + Cardinality(PointsRated(r)) = rated[r] + pseudo[r].balance

RepBooks ==
  /\ RepIInv /\ deaths \in Nat
  /\ \A p \in Procs : call[p] # NoCall => PlaceOK(call[p])
  /\ \A r \in RepIds : /\ IsFiniteSet(PointsRated(r)) /\ IsFiniteSet(RowsDue(r))
                       /\ Accounted(r)

LEMMA Block ==
  ASSUME NEW p, NEW b \in Nat
  PROVE  IsFiniteSet({p} \X (1..b)) /\ Cardinality({p} \X (1..b)) = b
  <1>1. IsFiniteSet({p}) /\ Cardinality({p}) = 1
    BY FS_Singleton
  <1>2. IsFiniteSet(1..b) /\ Cardinality(1..b) = b
    BY FS_Interval
  <1>3. IsFiniteSet({p} \X (1..b)) /\ Cardinality({p} \X (1..b)) = Cardinality({p}) * Cardinality(1..b)
    <2> DEFINE S == {p}
               T == 1..b
    <2>1. IsFiniteSet(S) /\ IsFiniteSet(T)
      BY <1>1, <1>2
    <2> HIDE DEF S, T
    <2>2. IsFiniteSet(S \X T) /\ Cardinality(S \X T) = Cardinality(S) * Cardinality(T)
      BY <2>1, FS_Product
    <2> QED  BY <2>2 DEF S, T
  <1> QED  BY <1>1, <1>2, <1>3

(* A finite set that has one part exchanged for another.                   *)
LEMMA PartExchanged ==
  ASSUME NEW R, IsFiniteSet(R), NEW S, IsFiniteSet(S), NEW T, IsFiniteSet(T),
         R \cap S = {}, R \cap T = {}
  PROVE  /\ IsFiniteSet(R \cup T)
         /\ Cardinality(R \cup T) = Cardinality(R \cup S) - Cardinality(S) + Cardinality(T)
  <1>1. /\ Cardinality(R) \in Nat /\ Cardinality(S) \in Nat /\ Cardinality(T) \in Nat
        /\ Cardinality({}) = 0
    BY FS_CardinalityType, FS_EmptySet
  <1>2. /\ IsFiniteSet(R \cup T)
        /\ Cardinality(R \cup T) = Cardinality(R) + Cardinality(T) - Cardinality(R \cap T)
        /\ Cardinality(R \cup S) = Cardinality(R) + Cardinality(S) - Cardinality(R \cap S)
    BY FS_Union
  <1>3. Cardinality(R \cap T) = 0 /\ Cardinality(R \cap S) = 0
    BY <1>1
  <1> DEFINE r == Cardinality(R)
             s == Cardinality(S)
             t == Cardinality(T)
             rt == Cardinality(R \cup T)
             rs == Cardinality(R \cup S)
  <1>4. r \in Nat /\ s \in Nat /\ t \in Nat /\ rt = r + t - 0 /\ rs = r + s - 0
    BY <1>1, <1>2, <1>3
  <1> HIDE DEF r, s, t, rt, rs
  <1>5. rt = rs - s + t
    BY <1>4
  <1> QED  BY <1>2, <1>5 DEF r, s, t, rt, rs

LEMMA HeapChanges ==
  ASSUME NEW f \in [Procs -> Nat], NEW g \in [Procs -> Nat], NEW p \in Procs,
         \A q \in Procs \ {p} : g[q] = f[q], IsFiniteSet(Heap(f))
  PROVE  /\ IsFiniteSet(Heap(g))
         /\ Cardinality(Heap(g)) = Cardinality(Heap(f)) - f[p] + g[p]
  <1> DEFINE R == {t \in Heap(f) : t[1] # p}
             S == {p} \X (1..f[p])
             T == {p} \X (1..g[p])
  <1>1. f[p] \in Nat /\ g[p] \in Nat
    OBVIOUS
  <1>2. IsFiniteSet(S) /\ Cardinality(S) = f[p] /\ IsFiniteSet(T) /\ Cardinality(T) = g[p]
    BY <1>1, Block
  <1>3. IsFiniteSet(R)
    BY FS_Subset
  <1>4. Heap(f) = R \cup S
    BY <1>1 DEF Heap
  <1>5. Heap(g) = R \cup T
    BY <1>1 DEF Heap
  <1>6. R \cap S = {} /\ R \cap T = {}
    OBVIOUS
  <1> HIDE DEF R, S, T
  <1> QED  BY <1>2, <1>3, <1>4, <1>5, <1>6, PartExchanged

LEMMA HeapEmpty ==
  ASSUME NEW f \in [Procs -> Nat], \A p \in Procs : f[p] = 0
  PROVE  Heap(f) = {} /\ IsFiniteSet(Heap(f)) /\ Cardinality(Heap(f)) = 0
  <1>1. Heap(f) = {}
    BY DEF Heap
  <1> QED  BY <1>1, FS_EmptySet

LEMMA WeightsTyped ==
  ASSUME NEW x \in RepCall \cup {NoCall}, NEW r \in RepIds
  PROVE  BaseOf(x, r) \in Nat /\ DueOf(x, r) \in Nat
  <1>1. x # NoCall => x.base \in Nat /\ x.amount \in Nat
    BY RepCallFields
  <1> QED  BY <1>1 DEF BaseOf, DueOf

(* One slot changes: the two sets change by what it stood for.             *)
OneSlot(p) == \A q \in Procs \ {p} : call'[q] = call[q]

LEMMA SlotChanges ==
  ASSUME RepIInv, RepIInv', NEW p \in Procs, OneSlot(p),
         NEW r \in RepIds, IsFiniteSet(PointsRated(r)), IsFiniteSet(RowsDue(r))
  PROVE  /\ IsFiniteSet(PointsRated(r)') /\ IsFiniteSet(RowsDue(r)')
         /\ Cardinality(PointsRated(r)') =
              Cardinality(PointsRated(r)) - BaseOf(call[p], r) + BaseOf(call'[p], r)
         /\ Cardinality(RowsDue(r)') =
              Cardinality(RowsDue(r)) - DueOf(call[p], r) + DueOf(call'[p], r)
  <1>1. \A q \in Procs : call[q] \in RepCall \cup {NoCall} /\ call'[q] \in RepCall \cup {NoCall}
    BY DEF RepIInv
  <1> DEFINE f == [q \in Procs |-> BaseOf(call[q], r)]
             g == [q \in Procs |-> BaseOf(call'[q], r)]
             h == [q \in Procs |-> DueOf(call[q], r)]
             k == [q \in Procs |-> DueOf(call'[q], r)]
  <1>2. f \in [Procs -> Nat] /\ g \in [Procs -> Nat] /\ h \in [Procs -> Nat] /\ k \in [Procs -> Nat]
    BY <1>1, WeightsTyped
  <1>3. \A q \in Procs \ {p} : g[q] = f[q] /\ k[q] = h[q]
    BY DEF OneSlot
  <1>4. f[p] = BaseOf(call[p], r) /\ g[p] = BaseOf(call'[p], r)
        /\ h[p] = DueOf(call[p], r) /\ k[p] = DueOf(call'[p], r)
    OBVIOUS
  <1>5. PointsRated(r) = Heap(f) /\ RowsDue(r) = Heap(h)
    BY DEF PointsRated, RowsDue
  <1>6. PointsRated(r)' = Heap(g) /\ RowsDue(r)' = Heap(k)
    BY DEF PointsRated, RowsDue, Heap, BaseOf, DueOf
  <1> HIDE DEF f, g, h, k
  <1>7. IsFiniteSet(Heap(g)) /\ Cardinality(Heap(g)) = Cardinality(Heap(f)) - f[p] + g[p]
    BY <1>2, <1>3, <1>5, HeapChanges
  <1>8. IsFiniteSet(Heap(k)) /\ Cardinality(Heap(k)) = Cardinality(Heap(h)) - h[p] + k[p]
    BY <1>2, <1>3, <1>5, HeapChanges
  <1> QED  BY <1>4, <1>5, <1>6, <1>7, <1>8

(* The numbers of rep r: what the ledger has and is due, what cycles have  *)
(* rated and work on, and the wallet.                                      *)
LEMMA RepNumbers ==
  ASSUME RepBooks, NEW r \in RepIds
  PROVE  /\ Cardinality(RowsDue(r)) \in Nat /\ Cardinality(PointsRated(r)) \in Nat
         /\ repRows[r] \in Nat /\ rated[r] \in Nat
         /\ pseudo[r].earned \in Nat /\ pseudo[r].balance \in Nat
         /\ IsFiniteSet(PointsRated(r)) /\ IsFiniteSet(RowsDue(r)) /\ Accounted(r) /\ RepIInv
  <1>1. IsFiniteSet(PointsRated(r)) /\ IsFiniteSet(RowsDue(r)) /\ Accounted(r) /\ RepIInv
    BY DEF RepBooks
  <1>2. repRows[r] \in Nat /\ rated[r] \in Nat /\ pseudo[r] \in PseudoWallet
    BY <1>1 DEF RepIInv, RepsTypeOK
  <1> QED  BY <1>1, <1>2, FS_CardinalityType DEF PseudoWallet

LEMMA WeightNumbers ==
  ASSUME RepIInv, RepIInv', NEW p \in Procs, NEW r \in RepIds
  PROVE  /\ BaseOf(call[p], r) \in Nat /\ BaseOf(call'[p], r) \in Nat
         /\ DueOf(call[p], r) \in Nat /\ DueOf(call'[p], r) \in Nat
  <1>1. call[p] \in RepCall \cup {NoCall} /\ call'[p] \in RepCall \cup {NoCall}
    BY DEF RepIInv
  <1> QED  BY <1>1, WeightsTyped

(* The books of rep r are right after the step.                            *)
Booked(r) == IsFiniteSet(PointsRated(r)') /\ IsFiniteSet(RowsDue(r)') /\ Accounted(r)'

(* Nothing but the place of a handler changes; or it dies, and its points  *)
(* and its row are lost.                                                   *)
LEMMA AsideBooked ==
  ASSUME RepBooks, RepIInv', NEW p \in Procs, OneSlot(p), NEW r \in RepIds,
         UNCHANGED <<pseudo, repRows, rated, pseudoRaced>>,
         \/ /\ deaths' = deaths
            /\ BaseOf(call'[p], r) = BaseOf(call[p], r) /\ DueOf(call'[p], r) = DueOf(call[p], r)
         \/ deaths' = deaths + 1 /\ DueOf(call'[p], r) = 0
  PROVE  Booked(r)
  <1>1. /\ IsFiniteSet(PointsRated(r)') /\ IsFiniteSet(RowsDue(r)')
        /\ Cardinality(PointsRated(r)') =
             Cardinality(PointsRated(r)) - BaseOf(call[p], r) + BaseOf(call'[p], r)
        /\ Cardinality(RowsDue(r)') =
             Cardinality(RowsDue(r)) - DueOf(call[p], r) + DueOf(call'[p], r)
    BY RepNumbers, SlotChanges
  <1> DEFINE P == Cardinality(PointsRated(r))
             D == Cardinality(RowsDue(r))
             PP == Cardinality(PointsRated(r)')
             DD == Cardinality(RowsDue(r)')
  <1>2. /\ BaseOf(call[p], r) \in Nat /\ BaseOf(call'[p], r) \in Nat
        /\ DueOf(call[p], r) \in Nat /\ DueOf(call'[p], r) \in Nat
    BY RepNumbers, WeightNumbers
  <1>3. P \in Nat /\ D \in Nat /\ repRows[r] \in Nat /\ pseudo[r].earned \in Nat /\ deaths \in Nat
    BY RepNumbers DEF RepBooks
  <1>4. PP = P - BaseOf(call[p], r) + BaseOf(call'[p], r) /\ DD = D - DueOf(call[p], r) + DueOf(call'[p], r)
    BY <1>1
  <1>5. \/ deaths' = deaths /\ PP = P /\ DD = D
        \/ deaths' # 0 /\ DD <= D /\ DD \in Int
    <2> HIDE DEF P, D, PP, DD
    <2> QED  BY <1>2, <1>3, <1>4
  <1>6. Accounted(r)'
    <2> SUFFICES ASSUME r \notin pseudoRaced'
                 PROVE  /\ repRows'[r] + DD <= pseudo'[r].earned
                        /\ deaths' = 0 => /\ repRows'[r] + DD = pseudo'[r].earned
                                          /\ pseudo'[r].earned + PP = rated'[r] + pseudo'[r].balance
      BY DEF Accounted
    <2>1. /\ repRows[r] + D <= pseudo[r].earned
          /\ deaths = 0 => /\ repRows[r] + D = pseudo[r].earned
                           /\ pseudo[r].earned + P = rated[r] + pseudo[r].balance
      BY RepNumbers DEF Accounted
    <2> HIDE DEF P, D, PP, DD
    <2> QED  BY <1>3, <1>5, <2>1
  <1> QED  BY <1>1, <1>6 DEF Booked

(* A step of a handler that is no death: what is added to the wallet, to   *)
(* the ledger, to the points rated and to the two sets balances, or the    *)
(* wallet is raced from now on.                                            *)
LEMMA MovedBooked ==
  ASSUME RepBooks, RepIInv', NEW p \in Procs, OneSlot(p), NEW r \in RepIds,
         deaths' = deaths, pseudoRaced \subseteq pseudoRaced',
         r \notin pseudoRaced' =>
           /\ pseudo'[r].earned = pseudo[r].earned + (DueOf(call'[p], r) - DueOf(call[p], r))
                                    + (repRows'[r] - repRows[r])
           /\ pseudo'[r].earned + (BaseOf(call'[p], r) - BaseOf(call[p], r)) - pseudo[r].earned
                = (rated'[r] - rated[r]) + (pseudo'[r].balance - pseudo[r].balance)
  PROVE  Booked(r)
  <1>1. /\ IsFiniteSet(PointsRated(r)') /\ IsFiniteSet(RowsDue(r)')
        /\ Cardinality(PointsRated(r)') =
             Cardinality(PointsRated(r)) - BaseOf(call[p], r) + BaseOf(call'[p], r)
        /\ Cardinality(RowsDue(r)') =
             Cardinality(RowsDue(r)) - DueOf(call[p], r) + DueOf(call'[p], r)
    BY RepNumbers, SlotChanges
  <1> DEFINE P == Cardinality(PointsRated(r))
             D == Cardinality(RowsDue(r))
             PP == Cardinality(PointsRated(r)')
             DD == Cardinality(RowsDue(r)')
             b == BaseOf(call[p], r)
             bb == BaseOf(call'[p], r)
             d == DueOf(call[p], r)
             dd == DueOf(call'[p], r)
             e == pseudo[r].earned
             ee == pseudo'[r].earned
             l == pseudo[r].balance
             ll == pseudo'[r].balance
             n == repRows[r]
             nn == repRows'[r]
             t == rated[r]
             tt == rated'[r]
  <1>2. b \in Nat /\ bb \in Nat /\ d \in Nat /\ dd \in Nat
    BY RepNumbers, WeightNumbers
  <1>3. P \in Nat /\ D \in Nat /\ n \in Nat /\ t \in Nat /\ e \in Nat /\ l \in Nat
    BY RepNumbers
  <1>4. PP = P - b + bb /\ DD = D - d + dd
    BY <1>1
  <1>5. nn \in Nat /\ tt \in Nat /\ ee \in Nat /\ ll \in Nat
    BY DEF RepIInv, RepsTypeOK, PseudoWallet
  <1>6. Accounted(r)'
    <2> SUFFICES ASSUME r \notin pseudoRaced'
                 PROVE  /\ nn + DD <= ee
                        /\ deaths' = 0 => nn + DD = ee /\ ee + PP = tt + ll
      BY DEF Accounted
    <2>1. /\ n + D <= e
          /\ deaths = 0 => n + D = e /\ e + P = t + l
      BY RepNumbers DEF Accounted
    <2>2. ee = e + (dd - d) + (nn - n) /\ ee + (bb - b) - e = (tt - t) + (ll - l)
      OBVIOUS
    <2>3. n + D <= e => nn + DD <= ee
      <3> HIDE DEF P, D, PP, DD, b, bb, d, dd, e, ee, l, ll, n, nn, t, tt
      <3> QED  BY <1>2, <1>3, <1>4, <1>5, <2>2
    <2>4. n + D = e /\ e + P = t + l => nn + DD = ee /\ ee + PP = tt + ll
      <3> HIDE DEF P, D, PP, DD, b, bb, d, dd, e, ee, l, ll, n, nn, t, tt
      <3> QED  BY <1>2, <1>3, <1>4, <1>5, <2>2
    <2> HIDE DEF P, D, PP, DD, b, bb, d, dd, e, ee, l, ll, n, nn, t, tt
    <2> QED  BY <2>1, <2>3, <2>4
  <1> QED  BY <1>1, <1>6 DEF Booked

-----------------------------------------------------------------------------
(* The steps.  Each proof says what the handler's slot was and becomes.    *)

LEMMA SlotSet ==
  ASSUME RepIInv, NEW p \in Procs, NEW x, call' = [call EXCEPT ![p] = x]
  PROVE  OneSlot(p) /\ call'[p] = x
  BY DEF RepIInv, OneSlot

(* What a step establishes of the slot of p.                               *)
StepBooked(p) ==
  /\ OneSlot(p) /\ deaths' \in Nat
  /\ call'[p] # NoCall => PlaceOK(call'[p])
  /\ \A r \in RepIds : Booked(r)

LEMMA BegunBooked ==
  ASSUME RepBooks, RepIInv', NEW p \in Procs, NEW x \in RepCall, Begin(p, x), UNCHANGED repVars,
         x.base = 0, x.pc # "creditRow", x.pc = "cycleRep" => x.todo # <<>>
  PROVE  StepBooked(p)
  <1>1. call[p] = NoCall /\ call' = [call EXCEPT ![p] = x] /\ deaths' = deaths
        /\ UNCHANGED <<pseudo, repRows, rated, pseudoRaced>>
    BY DEF Begin, repVars
  <1>2. OneSlot(p) /\ call'[p] = x
    BY <1>1, SlotSet DEF RepBooks
  <1>3. \A r : BaseOf(x, r) = 0 /\ DueOf(x, r) = 0 /\ BaseOf(NoCall, r) = 0 /\ DueOf(NoCall, r) = 0
    BY DEF BaseOf, DueOf
  <1>4. \A r \in RepIds : Booked(r)
    BY <1>1, <1>2, <1>3, AsideBooked
  <1> QED  BY <1>1, <1>2, <1>4 DEF StepBooked, PlaceOK, RepBooks

(* A handler goes on with the same rep, and has neither rated points nor   *)
(* a row due that it had not before.                                       *)
LEMMA PlaceBooked ==
  ASSUME RepBooks, RepIInv', NEW p \in Procs, NEW c \in RepCall, c = call[p],
         NEW x \in RepCall, call' = [call EXCEPT ![p] = x],
         UNCHANGED <<pseudo, repRows, rated, pseudoRaced, deaths>>,
         x.rep = c.rep, x.base = c.base, x.todo = c.todo,
         c.pc # "creditRow", x.pc # "creditRow", x.pc # "cycleRep"
  PROVE  StepBooked(p)
  <1>1. OneSlot(p) /\ call'[p] = x
    BY SlotSet DEF RepBooks
  <1>2. x # NoCall /\ c # NoCall
    BY RepCallFields
  <1>3. \A r : BaseOf(x, r) = BaseOf(c, r) /\ DueOf(x, r) = 0 /\ DueOf(c, r) = 0
    BY <1>2 DEF BaseOf, DueOf
  <1>4. \A r \in RepIds : Booked(r)
    BY <1>1, <1>3, AsideBooked
  <1>5. PlaceOK(c)
    BY <1>2 DEF RepBooks
  <1> QED  BY <1>1, <1>4, <1>5 DEF StepBooked, PlaceOK, RepBooks

LEMMA ChangeBooked ==
  ASSUME RepBooks, RepIInv', NEW p \in Procs, NEW r \in RepIds, NEW row \in Rep, Change(p, r, row)
  PROVE  StepBooked(p)
  <1> DEFINE w == Works("repSave", r)
             x == [w EXCEPT !.row = row]
  <1>1. w \in RepCall /\ w.pc = "repSave" /\ w.base = 0
    BY WorksTyped DEF Works
  <1>2. Begin(p, x) /\ UNCHANGED repVars
    BY DEF Change
  <1> HIDE DEF w
  <1>3. x \in RepCall /\ x.pc = "repSave" /\ x.base = 0
    BY <1>1 DEF RepCall
  <1> HIDE DEF x
  <1> QED  BY <1>2, <1>3, BegunBooked

LEMMA RequestBooked ==
  ASSUME RepBooks, RepIInv', RepRequest
  PROVE  \/ UNCHANGED <<call, deaths, pseudo, repRows, rated, pseudoRaced>>
         \/ \E p \in Procs : StepBooked(p)
  <1>0. ASSUME NEW r \in RepIds
        PROVE  /\ \A s : s \in {"active", "inactive", "suspended"} =>
                    [rep[r] EXCEPT !.status = s, !.available = @ /\ s = "active"] \in Rep
               /\ \A b \in BOOLEAN : /\ [rep[r] EXCEPT !.flagged = b] \in Rep
                                     /\ [rep[r] EXCEPT !.available = b] \in Rep
    <2> PICK row \in Rep : row = rep[r]
      BY RepRowOK DEF RepBooks
    <2> QED  BY DEF Rep
  <1>1. ASSUME NEW r \in RepIds, CreateRep(r)
        PROVE  UNCHANGED <<call, deaths, pseudo, repRows, rated, pseudoRaced>>
    BY <1>1 DEF CreateRep, OneStep
  <1>2. ASSUME NEW p \in Procs, NEW r \in RepIds,
               \/ ClearFlag(p, r) \/ RateRep(p, r)
               \/ \E s \in {"active", "inactive", "suspended"} : UpdateRep(p, r, s)
               \/ \E b \in BOOLEAN : SetAvailability(p, r, b)
        PROVE  StepBooked(p)
    <2>1. PICK row \in Rep : Change(p, r, row)
      BY <1>0, <1>2 DEF ClearFlag, RateRep, UpdateRep, SetAvailability
    <2> QED  BY <2>1, ChangeBooked
  <1>3. ASSUME NEW p \in Procs, NEW r \in RepIds, OrderPaysRep(p, r)
        PROVE  StepBooked(p)
    <2> DEFINE w == Works("credit", r)
               x == [w EXCEPT !.wallet = pseudo[r], !.amount = OrderPay]
    <2>1. w \in RepCall /\ w.pc = "credit" /\ w.base = 0
      BY WorksTyped DEF Works
    <2>2. Begin(p, x) /\ UNCHANGED repVars
      BY <1>3 DEF OrderPaysRep
    <2>3. pseudo[r] \in PseudoWallet /\ OrderPay \in Nat
      BY RepRowOK, RepConstantsOK DEF RepBooks
    <2> HIDE DEF w
    <2>4. x \in RepCall /\ x.pc = "credit" /\ x.base = 0
      BY <2>1, <2>3 DEF RepCall
    <2> HIDE DEF x
    <2> QED  BY <2>2, <2>4, BegunBooked
  <1>4. ASSUME NEW p \in Procs, RunBonusCycle(p)
        PROVE  StepBooked(p)
    <2>1. PICK s \in Orders({r \in RepIds : rep[r].status = "active"}) :
            s # <<>> /\ Begin(p, [Works("cycleRep", s[1]) EXCEPT !.todo = s, !.copy = rep])
      BY <1>4 DEF RunBonusCycle
    <2>2. s \in Seq(RepIds) /\ s[1] \in RepIds
      BY <2>1, OrdersTyped
    <2> DEFINE w == Works("cycleRep", s[1])
               x == [w EXCEPT !.todo = s, !.copy = rep]
    <2>3. w \in RepCall /\ w.pc = "cycleRep" /\ w.base = 0
      BY <2>2, WorksTyped DEF Works
    <2>4. Begin(p, x) /\ UNCHANGED repVars
      BY <1>4, <2>1 DEF RunBonusCycle
    <2>5. rep \in [RepIds -> Rep]
      BY DEF RepBooks, RepIInv, RepsTypeOK
    <2> HIDE DEF w
    <2>6. x \in RepCall /\ x.pc = "cycleRep" /\ x.base = 0 /\ x.todo = s
      BY <2>2, <2>3, <2>5 DEF RepCall
    <2> HIDE DEF x
    <2> QED  BY <2>1, <2>4, <2>6, BegunBooked
  <1> QED  BY <1>1, <1>2, <1>3, <1>4 DEF RepRequest

LEMMA SaveRepBooked ==
  ASSUME RepBooks, RepIInv', NEW p \in Procs, SaveRep(p)
  PROVE  StepBooked(p)
  <1>1. call[p] # NoCall /\ call[p].pc = "repSave" /\ RepIInv
    BY DEF SaveRep, At, RepBooks
  <1> PICK c \in RepCall : c = call[p]
    BY <1>1, RepCalls
  <1> DEFINE x == [c EXCEPT !.pc = "repWrite", !.seen = rep[c.rep]]
  <1>2. call' = [call EXCEPT ![p] = x] /\ UNCHANGED <<pseudo, repRows, rated, pseudoRaced, deaths>>
    BY DEF SaveRep, GotoState, repVars
  <1>3. rep[c.rep] \in Rep
    BY <1>1, RepCallFields, RepRowOK
  <1>4. x \in RepCall /\ x.pc = "repWrite" /\ x.rep = c.rep /\ x.base = c.base /\ x.todo = c.todo
    BY <1>3 DEF RepCall
  <1> HIDE DEF x
  <1> QED  BY <1>1, <1>2, <1>4, PlaceBooked

LEMMA EndBooked ==
  ASSUME RepBooks, RepIInv', NEW p \in Procs, call[p] # NoCall, call' = [call EXCEPT ![p] = NoCall],
         call[p].base = 0, call[p].pc # "creditRow",
         UNCHANGED <<pseudo, repRows, rated, pseudoRaced, deaths>>
  PROVE  StepBooked(p)
  <1>1. OneSlot(p) /\ call'[p] = NoCall
    BY SlotSet DEF RepBooks
  <1>2. \A r : /\ BaseOf(call'[p], r) = BaseOf(call[p], r)
               /\ DueOf(call'[p], r) = DueOf(call[p], r)
    BY <1>1 DEF BaseOf, DueOf
  <1>3. \A r \in RepIds : Booked(r)
    BY <1>1, <1>2, AsideBooked
  <1> QED  BY <1>1, <1>3 DEF StepBooked, RepBooks

LEMMA WriteRepBooked ==
  ASSUME RepBooks, RepIInv', NEW p \in Procs, WriteRep(p)
  PROVE  StepBooked(p)
  <1>1. call[p] # NoCall /\ call[p].pc = "repWrite" /\ RepIInv
    BY DEF WriteRep, At, RepBooks
  <1> PICK c \in RepCall : c = call[p]
    BY <1>1, RepCalls
  <1> DEFINE x == [c EXCEPT !.pc = "cycleReset", !.wallet = pseudo[c.rep]]
  <1>2. /\ \/ c.todo = <<>> /\ call' = [call EXCEPT ![p] = NoCall]
           \/ call' = [call EXCEPT ![p] = x]
        /\ UNCHANGED <<pseudo, repRows, rated, pseudoRaced, deaths>>
    BY DEF WriteRep, End, GotoState
  <1>3. pseudo[c.rep] \in PseudoWallet
    BY <1>1, RepCallFields, RepRowOK
  <1>4. x \in RepCall /\ x.pc = "cycleReset" /\ x.rep = c.rep /\ x.base = c.base /\ x.todo = c.todo
    BY <1>3 DEF RepCall
  <1> HIDE DEF x
  <1>5. c.todo = <<>> => c.base = 0
    BY <1>1 DEF RepBooks, PlaceOK
  <1>6. CASE c.todo = <<>> /\ call' = [call EXCEPT ![p] = NoCall]
    BY <1>1, <1>2, <1>5, <1>6, EndBooked
  <1>7. CASE call' = [call EXCEPT ![p] = x]
    BY <1>1, <1>2, <1>4, <1>7, PlaceBooked
  <1> QED  BY <1>2, <1>6, <1>7

LEMMA SaveRepCreditBooked ==
  ASSUME RepBooks, RepIInv', NEW p \in Procs, SaveRepCredit(p)
  PROVE  StepBooked(p)
  <1>1. call[p] # NoCall /\ call[p].pc = "credit" /\ RepIInv
    BY DEF SaveRepCredit, At, RepBooks
  <1> PICK c \in RepCall : c = call[p]
    BY <1>1, RepCalls
  <1> DEFINE x == [c EXCEPT !.pc = "creditRow"]
  <1>2. /\ pseudo' = [pseudo EXCEPT ![c.rep] = Credited(c.wallet, c.amount)]
        /\ pseudoRaced' = IF pseudo[c.rep] # c.wallet THEN pseudoRaced \cup {c.rep} ELSE pseudoRaced
        /\ call' = [call EXCEPT ![p] = x] /\ UNCHANGED <<repRows, rated, deaths>>
    BY DEF SaveRepCredit, Goto, GotoState
  <1>3. /\ x \in RepCall /\ x.pc = "creditRow" /\ x.rep = c.rep /\ x.base = c.base /\ x.todo = c.todo
        /\ x.amount = c.amount
    BY DEF RepCall
  <1> HIDE DEF x
  <1>4. OneSlot(p) /\ call'[p] = x /\ x # NoCall /\ c # NoCall
    BY <1>1, <1>2, <1>3, SlotSet, RepCallFields
  <1>5. PlaceOK(x)
    BY <1>1, <1>3 DEF RepBooks, PlaceOK
  <1>6. c.amount \in Nat /\ c.base \in Nat /\ c.rep \in RepIds
    BY RepCallFields
  <1>7. ASSUME NEW r \in RepIds PROVE Booked(r)
    <2>1. /\ BaseOf(x, r) = BaseOf(c, r) /\ DueOf(c, r) = 0
          /\ DueOf(x, r) = IF r = c.rep THEN c.amount ELSE 0
      BY <1>1, <1>3, <1>4 DEF BaseOf, DueOf
    <2>2. BaseOf(c, r) \in Nat
      BY <1>6 DEF BaseOf
    <2>3. ASSUME r \notin pseudoRaced'
          PROVE  LET n == IF r = c.rep THEN c.amount ELSE 0
                 IN pseudo'[r].earned = pseudo[r].earned + n /\ pseudo'[r].balance = pseudo[r].balance + n
      <3>1. CASE r # c.rep
        BY <1>1, <1>2, <1>6, <3>1, RepNumbers DEF RepIInv, RepsTypeOK
      <3>2. CASE r = c.rep
        <4>1. pseudo[r] = c.wallet
          BY <1>2, <2>3, <3>2
        <4>2. pseudo'[r] = Credited(pseudo[r], c.amount)
          BY <1>1, <1>2, <1>6, <3>2, <4>1 DEF RepIInv, RepsTypeOK
        <4> QED  BY <3>2, <4>2 DEF Credited
      <3> QED  BY <3>1, <3>2
    <2>4. pseudo[r].earned \in Nat /\ pseudo[r].balance \in Nat /\ repRows[r] \in Nat /\ rated[r] \in Nat
      BY RepNumbers
    <2>5. pseudoRaced \subseteq pseudoRaced'
      BY <1>2
    <2>6. r \notin pseudoRaced' =>
           /\ pseudo'[r].earned = pseudo[r].earned + (DueOf(x, r) - DueOf(c, r))
                                    + (repRows'[r] - repRows[r])
           /\ pseudo'[r].earned + (BaseOf(x, r) - BaseOf(c, r)) - pseudo[r].earned
                = (rated'[r] - rated[r]) + (pseudo'[r].balance - pseudo[r].balance)
      BY <1>2, <1>6, <2>1, <2>2, <2>3, <2>4
    <2> QED  BY <1>2, <1>4, <2>5, <2>6, MovedBooked
  <1> QED  BY <1>2, <1>4, <1>5, <1>7 DEF StepBooked, RepBooks

LEMMA RowOfRepCreditBooked ==
  ASSUME RepBooks, RepIInv', NEW p \in Procs, RowOfRepCredit(p)
  PROVE  StepBooked(p)
  <1>1. call[p] # NoCall /\ call[p].pc = "creditRow" /\ RepIInv
    BY DEF RowOfRepCredit, At, RepBooks
  <1> PICK c \in RepCall : c = call[p]
    BY <1>1, RepCalls
  <1> DEFINE x == [c EXCEPT !.pc = "cycleFlag"]
  <1>2. /\ repRows' = [repRows EXCEPT ![c.rep] = @ + c.amount]
        /\ \/ c.todo = <<>> /\ call' = [call EXCEPT ![p] = NoCall]
           \/ call' = [call EXCEPT ![p] = x]
        /\ UNCHANGED <<pseudo, pseudoRaced, rated, deaths>>
    BY DEF RowOfRepCredit, Goto, End, GotoState
  <1>3. x \in RepCall /\ x.pc = "cycleFlag" /\ x.rep = c.rep /\ x.base = c.base /\ x.todo = c.todo
    BY DEF RepCall
  <1> HIDE DEF x
  <1>4. c # NoCall /\ x # NoCall /\ PlaceOK(c)
    BY <1>1, <1>3, RepCallFields DEF RepBooks
  <1>5. \/ call'[p] = NoCall /\ c.base = 0
        \/ call'[p] = x
    BY <1>1, <1>2, <1>4, SlotSet DEF PlaceOK
  <1>6. OneSlot(p)
    BY <1>1, <1>2, SlotSet
  <1>7. call'[p] # NoCall => PlaceOK(call'[p])
    BY <1>3, <1>4, <1>5 DEF PlaceOK
  <1>8. c.amount \in Nat /\ c.base \in Nat /\ c.rep \in RepIds
    BY RepCallFields
  <1>9. ASSUME NEW r \in RepIds PROVE Booked(r)
    <2>1. /\ BaseOf(call'[p], r) = BaseOf(c, r) /\ DueOf(call'[p], r) = 0
          /\ DueOf(c, r) = IF r = c.rep THEN c.amount ELSE 0
      BY <1>1, <1>3, <1>4, <1>5 DEF BaseOf, DueOf
    <2>2. BaseOf(c, r) \in Nat
      BY <1>8 DEF BaseOf
    <2>3. pseudo[r].earned \in Nat /\ pseudo[r].balance \in Nat /\ repRows[r] \in Nat /\ rated[r] \in Nat
      BY RepNumbers
    <2>4. repRows'[r] = repRows[r] + DueOf(c, r)
      BY <1>1, <1>2, <1>8, <2>1, <2>3 DEF RepIInv, RepsTypeOK
    <2>5. DueOf(c, r) \in Nat
      BY <1>8, <2>1
    <2>6. /\ pseudo'[r].earned = pseudo[r].earned + (DueOf(call'[p], r) - DueOf(c, r))
                                    + (repRows'[r] - repRows[r])
          /\ pseudo'[r].earned + (BaseOf(call'[p], r) - BaseOf(c, r)) - pseudo[r].earned
                = (rated'[r] - rated[r]) + (pseudo'[r].balance - pseudo[r].balance)
      <3> HIDE DEF BaseOf, DueOf
      <3>1. pseudo'[r] = pseudo[r] /\ rated'[r] = rated[r]
        BY <1>2
      <3> DEFINE d == DueOf(c, r)
                 b == BaseOf(c, r)
                 n == repRows[r]
                 nn == repRows'[r]
      <3>2. nn = n + d /\ n \in Nat /\ d \in Nat
        BY <2>3, <2>4, <2>5
      <3> HIDE DEF d, n, nn
      <3>3. pseudo[r].earned = pseudo[r].earned + (0 - d) + (nn - n)
        BY <2>3, <3>2
      <3> QED  BY <2>1, <2>2, <2>3, <3>1, <3>3 DEF d, n, nn
    <2> QED  BY <1>2, <1>6, <2>6, MovedBooked
  <1> QED  BY <1>2, <1>6, <1>7, <1>9 DEF StepBooked, RepBooks

(* A cycle goes on with its next rep, or ends.                             *)
LEMMA NextRepMoves ==
  ASSUME RepIInv, NEW p \in Procs, call[p] # NoCall, NextRep(p)
  PROVE  /\ OneSlot(p) /\ deaths' = deaths
         /\ call'[p] # NoCall => PlaceOK(call'[p])
         /\ \A r : BaseOf(call'[p], r) = 0 /\ DueOf(call'[p], r) = 0
  <1> PICK c \in RepCall : c = call[p]
    BY RepCalls
  <1> DEFINE rest == Tail(c.todo)
             x == [c EXCEPT !.pc = "cycleRep", !.todo = rest, !.rep = rest[1], !.base = 0]
  <1>1. /\ deaths' = deaths
        /\ \/ call' = [call EXCEPT ![p] = NoCall]
           \/ rest # <<>> /\ call' = [call EXCEPT ![p] = x]
    BY DEF NextRep, End, GotoState
  <1>2. x.pc = "cycleRep" /\ x.base = 0 /\ x.todo = rest
    BY DEF RepCall
  <1> HIDE DEF x, rest
  <1>3. CASE call' = [call EXCEPT ![p] = NoCall]
    BY <1>1, <1>3, SlotSet DEF BaseOf, DueOf
  <1>4. CASE rest # <<>> /\ call' = [call EXCEPT ![p] = x]
    <2>1. OneSlot(p) /\ call'[p] = x
      BY <1>4, SlotSet
    <2> QED  BY <1>1, <1>2, <1>4, <2>1 DEF BaseOf, DueOf, PlaceOK
  <1> QED  BY <1>1, <1>3, <1>4

LEMMA CycleRepBooked ==
  ASSUME RepBooks, RepIInv', NEW p \in Procs, CycleRep(p)
  PROVE  StepBooked(p)
  <1>1. call[p] # NoCall /\ call[p].pc = "cycleRep" /\ RepIInv /\ UNCHANGED <<pseudo, repRows, pseudoRaced>>
    BY DEF CycleRep, At, RepBooks
  <1> PICK c \in RepCall : c = call[p]
    BY <1>1, RepCalls
  <1>2. c.base = 0 /\ c.todo # <<>>
    BY <1>1 DEF RepBooks, PlaceOK
  <1>3. \A r : BaseOf(c, r) = 0 /\ DueOf(c, r) = 0
    BY <1>1, <1>2 DEF BaseOf, DueOf
  <1>4. CASE NextRep(p) /\ UNCHANGED rated
    <2>1. \A r \in RepIds : Booked(r)
      BY <1>1, <1>3, <1>4, NextRepMoves, AsideBooked
    <2> QED  BY <1>1, <1>4, <2>1, NextRepMoves DEF StepBooked, RepBooks
  <1>5. CASE ~(NextRep(p) /\ UNCHANGED rated)
    <2>0. \E bonus \in Nat, base \in Nat, pc \in {"cycleBonus", "cycleFlag"} :
           /\ base = pseudo[c.rep].balance + bonus
           /\ pc = "cycleBonus" <=> bonus > 0
           /\ base > 0
           /\ call' = [call EXCEPT ![p] = RatedCall(c, bonus, pc, base)]
           /\ rated' = [rated EXCEPT ![c.rep] = @ + base]
           /\ UNCHANGED <<calls, deaths>>
      BY <1>1, <1>5, CycleRates
    <2> PICK bonus \in Nat, base \in Nat, pc \in {"cycleBonus", "cycleFlag"} :
           /\ base = pseudo[c.rep].balance + bonus
           /\ pc = "cycleBonus" <=> bonus > 0
           /\ base > 0
           /\ call' = [call EXCEPT ![p] = RatedCall(c, bonus, pc, base)]
           /\ rated' = [rated EXCEPT ![c.rep] = @ + base]
           /\ UNCHANGED <<calls, deaths>>
      BY <2>0
    <2> DEFINE x == RatedCall(c, bonus, pc, base)
    <2>1. x \in RepCall /\ x.pc = pc /\ x.rep = c.rep /\ x.base = base /\ x.todo = c.todo
      BY DEF RepCall, RatedCall
    <2>2. call' = [call EXCEPT ![p] = x]
      OBVIOUS
    <2> HIDE DEF x
    <2>3. OneSlot(p) /\ call'[p] = x /\ x # NoCall
      BY <1>1, <2>1, <2>2, SlotSet, RepCallFields
    <2>4. c.rep \in RepIds
      BY RepCallFields
    <2>5. ASSUME NEW r \in RepIds PROVE Booked(r)
      <3>1. BaseOf(x, r) = (IF r = c.rep THEN base ELSE 0) /\ DueOf(x, r) = 0
        BY <2>1, <2>3 DEF BaseOf, DueOf
      <3>2. pseudo[r].earned \in Nat /\ pseudo[r].balance \in Nat /\ repRows[r] \in Nat /\ rated[r] \in Nat
        BY RepNumbers
      <3>3. rated'[r] = rated[r] + BaseOf(x, r)
        BY <1>1, <2>4, <3>1, <3>2 DEF RepIInv, RepsTypeOK
      <3>4. BaseOf(x, r) \in Nat
        BY <3>1
      <3>5. /\ pseudo'[r].earned = pseudo[r].earned + (DueOf(x, r) - DueOf(c, r))
                                    + (repRows'[r] - repRows[r])
            /\ pseudo'[r].earned + (BaseOf(x, r) - BaseOf(c, r)) - pseudo[r].earned
                = (rated'[r] - rated[r]) + (pseudo'[r].balance - pseudo[r].balance)
        <4> HIDE DEF BaseOf, DueOf
        <4>1. pseudo'[r] = pseudo[r] /\ repRows'[r] = repRows[r]
          BY <1>1
        <4> DEFINE b == BaseOf(x, r)
                   t == rated[r]
                   tt == rated'[r]
        <4>2. tt = t + b /\ t \in Nat /\ b \in Nat
          BY <3>2, <3>3, <3>4
        <4> HIDE DEF b, t, tt
        <4>3. pseudo[r].earned + (b - 0) - pseudo[r].earned = tt - t
          BY <3>2, <4>2
        <4> QED  BY <1>3, <3>1, <3>2, <4>1, <4>2, <4>3 DEF b, t, tt
      <3> QED  BY <1>1, <2>3, <3>5, MovedBooked
    <2>6. PlaceOK(x)
      BY <1>2, <2>1 DEF PlaceOK
    <2> QED  BY <2>3, <2>5, <2>6 DEF StepBooked, RepBooks
  <1> QED  BY <1>4, <1>5

LEMMA CycleBonusBooked ==
  ASSUME RepBooks, RepIInv', NEW p \in Procs, CycleBonus(p)
  PROVE  StepBooked(p)
  <1>1. call[p] # NoCall /\ call[p].pc = "cycleBonus" /\ RepIInv
    BY DEF CycleBonus, At, RepBooks
  <1> PICK c \in RepCall : c = call[p]
    BY <1>1, RepCalls
  <1> DEFINE x == [c EXCEPT !.pc = "credit", !.wallet = pseudo[c.rep]]
  <1>2. call' = [call EXCEPT ![p] = x] /\ UNCHANGED <<pseudo, repRows, rated, pseudoRaced, deaths>>
    BY DEF CycleBonus, GotoState, repVars
  <1>3. pseudo[c.rep] \in PseudoWallet
    BY <1>1, RepCallFields, RepRowOK
  <1>4. x \in RepCall /\ x.pc = "credit" /\ x.rep = c.rep /\ x.base = c.base /\ x.todo = c.todo
    BY <1>3 DEF RepCall
  <1> HIDE DEF x
  <1> QED  BY <1>1, <1>2, <1>4, PlaceBooked

LEMMA CycleFlagBooked ==
  ASSUME RepBooks, RepIInv', NEW p \in Procs, CycleFlag(p)
  PROVE  StepBooked(p)
  <1>1. call[p] # NoCall /\ call[p].pc = "cycleFlag" /\ RepIInv
    BY DEF CycleFlag, At, RepBooks
  <1> PICK c \in RepCall : c = call[p]
    BY <1>1, RepCalls
  <1> DEFINE row == [c.copy[c.rep] EXCEPT !.flagged = TRUE]
             x == [c EXCEPT !.pc = "cycleReset", !.wallet = pseudo[c.rep]]
             y == [c EXCEPT !.pc = "repSave", !.row = row]
  <1>2. /\ call' = [call EXCEPT ![p] = x] \/ call' = [call EXCEPT ![p] = y]
        /\ UNCHANGED <<pseudo, repRows, rated, pseudoRaced, deaths>>
    BY DEF CycleFlag, GotoState, repVars
  <1>3. pseudo[c.rep] \in PseudoWallet /\ c.copy[c.rep] \in Rep
    BY <1>1, RepCallFields, RepRowOK
  <1>4. row \in Rep
    BY <1>3 DEF Rep
  <1> HIDE DEF row
  <1>5. x \in RepCall /\ x.pc = "cycleReset" /\ x.rep = c.rep /\ x.base = c.base /\ x.todo = c.todo
    BY <1>3 DEF RepCall
  <1>6. y \in RepCall /\ y.pc = "repSave" /\ y.rep = c.rep /\ y.base = c.base /\ y.todo = c.todo
    BY <1>4 DEF RepCall
  <1> HIDE DEF x, y
  <1>7. CASE call' = [call EXCEPT ![p] = x]
    BY <1>1, <1>2, <1>5, <1>7, PlaceBooked
  <1>8. CASE call' = [call EXCEPT ![p] = y]
    BY <1>1, <1>2, <1>6, <1>8, PlaceBooked
  <1> QED  BY <1>2, <1>7, <1>8

LEMMA CycleResetBooked ==
  ASSUME RepBooks, RepIInv', NEW p \in Procs, CycleReset(p)
  PROVE  StepBooked(p)
  <1>1. call[p] # NoCall /\ call[p].pc = "cycleReset" /\ RepIInv
    BY DEF CycleReset, At, RepBooks
  <1> PICK c \in RepCall : c = call[p]
    BY <1>1, RepCalls
  <1>2. /\ pseudo' = [pseudo EXCEPT ![c.rep] = [balance |-> 0, earned |-> c.wallet.earned]]
        /\ pseudoRaced' = IF pseudo[c.rep] # c.wallet \/ pseudo[c.rep].balance # c.base
                          THEN pseudoRaced \cup {c.rep} ELSE pseudoRaced
        /\ NextRep(p) /\ UNCHANGED <<repRows, rated>>
    BY DEF CycleReset
  <1>3. OneSlot(p) /\ deaths' = deaths /\ (call'[p] # NoCall => PlaceOK(call'[p]))
        /\ \A r : BaseOf(call'[p], r) = 0 /\ DueOf(call'[p], r) = 0
    BY <1>1, <1>2, NextRepMoves
  <1>4. c.rep \in RepIds /\ c.base \in Nat /\ c # NoCall
    BY RepCallFields
  <1>5. ASSUME NEW r \in RepIds PROVE Booked(r)
    <2>1. BaseOf(c, r) = (IF r = c.rep THEN c.base ELSE 0) /\ DueOf(c, r) = 0
      BY <1>1, <1>4 DEF BaseOf, DueOf
    <2>2. pseudo[r].earned \in Nat /\ pseudo[r].balance \in Nat /\ repRows[r] \in Nat /\ rated[r] \in Nat
      BY RepNumbers
    <2>3. r \notin pseudoRaced' =>
            pseudo'[r].earned = pseudo[r].earned /\ pseudo'[r].balance = pseudo[r].balance - BaseOf(c, r)
      <3>1. CASE r # c.rep
        BY <1>1, <1>2, <2>1, <2>2, <3>1 DEF RepIInv, RepsTypeOK
      <3>2. CASE r = c.rep
        <4> SUFFICES ASSUME r \notin pseudoRaced'
                     PROVE  pseudo'[r].earned = pseudo[r].earned /\ pseudo'[r].balance = pseudo[r].balance - c.base
          BY <2>1, <3>2
        <4>1. pseudo[r] = c.wallet /\ pseudo[r].balance = c.base
          BY <1>2, <3>2
        <4>2. pseudo'[r] = [balance |-> 0, earned |-> c.wallet.earned]
          BY <1>1, <1>2, <1>4, <3>2 DEF RepIInv, RepsTypeOK
        <4> QED  BY <1>4, <4>1, <4>2
      <3> QED  BY <3>1, <3>2
    <2>4. BaseOf(c, r) \in Nat
      BY <1>4, <2>1
    <2>5. pseudoRaced \subseteq pseudoRaced'
      BY <1>2
    <2>6. r \notin pseudoRaced' =>
           /\ pseudo'[r].earned = pseudo[r].earned + (DueOf(call'[p], r) - DueOf(c, r))
                                    + (repRows'[r] - repRows[r])
           /\ pseudo'[r].earned + (BaseOf(call'[p], r) - BaseOf(c, r)) - pseudo[r].earned
                = (rated'[r] - rated[r]) + (pseudo'[r].balance - pseudo[r].balance)
      <3> SUFFICES ASSUME r \notin pseudoRaced'
                   PROVE  /\ pseudo'[r].earned = pseudo[r].earned + (0 - 0) + (repRows'[r] - repRows[r])
                          /\ pseudo'[r].earned + (0 - BaseOf(c, r)) - pseudo[r].earned
                               = (rated'[r] - rated[r]) + (pseudo'[r].balance - pseudo[r].balance)
        BY <1>3, <2>1
      <3> HIDE DEF BaseOf
      <3> DEFINE b == BaseOf(c, r)
                 e == pseudo[r].earned
                 ee == pseudo'[r].earned
                 l == pseudo[r].balance
                 ll == pseudo'[r].balance
                 n == repRows[r]
                 t == rated[r]
      <3>1. e \in Nat /\ l \in Nat /\ n \in Nat /\ t \in Nat /\ b \in Nat /\ ee = e /\ ll = l - b
        BY <2>2, <2>3, <2>4
      <3>2. repRows'[r] = n /\ rated'[r] = t
        BY <1>2
      <3> HIDE DEF b, e, ee, l, ll, n, t
      <3>3. ee = e + (0 - 0) + (n - n) /\ ee + (0 - b) - e = (t - t) + (ll - l)
        BY <3>1
      <3> QED  BY <3>2, <3>3 DEF b, e, ee, l, ll, n, t
    <2> QED  BY <1>3, <2>5, <2>6, MovedBooked
  <1> QED  BY <1>3, <1>5 DEF StepBooked, RepBooks

LEMMA RepDiesBooked ==
  ASSUME RepBooks, RepIInv', NEW p \in Procs, RepDies(p)
  PROVE  StepBooked(p)
  <1>1. /\ call' = [call EXCEPT ![p] = NoCall] /\ deaths' = deaths + 1
        /\ UNCHANGED <<pseudo, repRows, rated, pseudoRaced>>
    BY DEF RepDies, Dies, repVars
  <1>2. OneSlot(p) /\ call'[p] = NoCall
    BY <1>1, SlotSet DEF RepBooks
  <1>3. \A r : DueOf(call'[p], r) = 0
    BY <1>2 DEF DueOf
  <1>4. \A r \in RepIds : Booked(r)
    BY <1>1, <1>2, <1>3, AsideBooked
  <1> QED  BY <1>1, <1>2, <1>4 DEF StepBooked, RepBooks

LEMMA RepBooksNext == RepBooks /\ [RepsNext]_<<repVars, requestVars>> => RepBooks'
  <1> SUFFICES ASSUME RepBooks, [RepsNext]_<<repVars, requestVars>>
               PROVE  RepBooks'
    OBVIOUS
  <1>1. RepIInv'
    BY RepNextIInv DEF RepBooks
  <1>2. \/ UNCHANGED <<call, deaths, pseudo, repRows, rated, pseudoRaced>>
        \/ \E p \in Procs : StepBooked(p)
    <2>1. ASSUME NEW p \in Procs, RepStep(p)
          PROVE  StepBooked(p)
      BY <1>1, <2>1, SaveRepBooked, WriteRepBooked, SaveRepCreditBooked, RowOfRepCreditBooked,
         CycleRepBooked, CycleBonusBooked, CycleFlagBooked, CycleResetBooked
      DEF RepStep
    <2>2. CASE UNCHANGED <<repVars, requestVars>>
      BY <2>2 DEF repVars, requestVars
    <2> QED  BY <1>1, <2>1, <2>2, RequestBooked, RepDiesBooked DEF RepsNext
  <1>3. CASE UNCHANGED <<call, deaths, pseudo, repRows, rated, pseudoRaced>>
    <2>1. \A r \in RepIds : /\ PointsRated(r)' = PointsRated(r) /\ RowsDue(r)' = RowsDue(r)
                            /\ Accounted(r) => Accounted(r)'
      BY <1>3 DEF PointsRated, RowsDue, Heap, BaseOf, DueOf, Accounted
    <2> QED  BY <1>1, <1>3, <2>1 DEF RepBooks
  <1>4. ASSUME NEW p \in Procs, StepBooked(p)
        PROVE  RepBooks'
    <2>1. \A q \in Procs : call'[q] # NoCall => PlaceOK(call'[q])
      BY <1>4 DEF StepBooked, OneSlot, RepBooks
    <2> QED  BY <1>1, <1>4, <2>1 DEF StepBooked, Booked, RepBooks, PlaceOK
  <1> QED  BY <1>2, <1>3, <1>4

(* The ledger never shows more than a rep has earned; what it lacks is     *)
(* under way or was lost with a handler; and every point is counted by one *)
(* cycle or still in the balance, when no cycle works on the wallet and no *)
(* outdated copy of it was saved.                                          *)
THEOREM PointsCountedOnce == RepsSpec => []EveryPointInOneCycle
  <1>1. RequestsInit /\ RepsInit => RepBooks
    <2> SUFFICES ASSUME RequestsInit, RepsInit PROVE RepBooks
      OBVIOUS
    <2>1. \A r \in RepIds : pseudo[r].earned = 0 /\ pseudo[r].balance = 0 /\ repRows[r] = 0 /\ rated[r] = 0
      BY DEF RepsInit, NoPoint
    <2>2. \A p \in Procs : call[p] = NoCall
      BY DEF RequestsInit
    <2>3. ASSUME NEW r \in RepIds
          PROVE  /\ IsFiniteSet(PointsRated(r)) /\ Cardinality(PointsRated(r)) = 0
                 /\ IsFiniteSet(RowsDue(r)) /\ Cardinality(RowsDue(r)) = 0
      <3> DEFINE f == [p \in Procs |-> BaseOf(call[p], r)]
                 g == [p \in Procs |-> DueOf(call[p], r)]
      <3>1. f \in [Procs -> Nat] /\ g \in [Procs -> Nat] /\ \A p \in Procs : f[p] = 0 /\ g[p] = 0
        BY <2>2 DEF BaseOf, DueOf
      <3> HIDE DEF f, g
      <3>2. /\ IsFiniteSet(Heap(f)) /\ Cardinality(Heap(f)) = 0
            /\ IsFiniteSet(Heap(g)) /\ Cardinality(Heap(g)) = 0
        BY <3>1, HeapEmpty
      <3> QED  BY <3>2 DEF f, g, PointsRated, RowsDue
    <2>4. \A r \in RepIds : Accounted(r)
      BY <2>1, <2>3 DEF Accounted
    <2> QED  BY <2>2, <2>3, <2>4, RepInitIInv DEF RepBooks, RequestsInit
  <1>2. RepBooks => EveryPointInOneCycle
    <2> SUFFICES ASSUME RepBooks, NEW r \in RepIds, r \notin pseudoRaced
                 PROVE  /\ repRows[r] <= pseudo[r].earned
                        /\ ~Crediting(r) /\ deaths = 0 => repRows[r] = pseudo[r].earned
                        /\ ~InCycle(r) /\ deaths = 0 => pseudo[r].earned = rated[r] + pseudo[r].balance
      BY DEF EveryPointInOneCycle
    <2> DEFINE f == [p \in Procs |-> BaseOf(call[p], r)]
               g == [p \in Procs |-> DueOf(call[p], r)]
    <2>1. \A p \in Procs : call[p] \in RepCall \cup {NoCall} /\ (call[p] # NoCall => call[p].base \in Nat)
      BY RepCallFields DEF RepBooks, RepIInv
    <2>2. f \in [Procs -> Nat] /\ g \in [Procs -> Nat]
      BY <2>1, WeightsTyped
    <2>3. ~InCycle(r) => Cardinality(PointsRated(r)) = 0
      <3>1. ~InCycle(r) => \A p \in Procs : f[p] = 0
        BY <2>1 DEF InCycle, BaseOf
      <3>2. PointsRated(r) = Heap(f)
        BY DEF PointsRated
      <3> HIDE DEF f
      <3> QED  BY <2>2, <3>1, <3>2, HeapEmpty
    <2>4. ~Crediting(r) => Cardinality(RowsDue(r)) = 0
      <3>1. ~Crediting(r) => \A p \in Procs : g[p] = 0
        BY DEF Crediting, InFlight, At, DueOf
      <3>2. RowsDue(r) = Heap(g)
        BY DEF RowsDue
      <3> HIDE DEF g
      <3> QED  BY <2>2, <3>1, <3>2, HeapEmpty
    <2> HIDE DEF f, g
    <2> QED  BY <2>3, <2>4, RepNumbers DEF Accounted
  <1> QED  BY <1>1, <1>2, RepBooksNext, PTL DEF RepsSpec

-----------------------------------------------------------------------------
(* Payouts.  What a handler in flight is about to do to the wallet, and    *)
(* what it has done already.                                               *)

InWallet == {"walletRead", "walletSave", "walletRow"}
On(p, i) == call[p] # NoCall /\ call[p].item = i

StateOK(x) ==
  /\ x.item = 0 => x.pc \in InWallet /\ x.amount = Earning /\ x.then = "end"
  /\ x.item \in DeductionIds =>
       \/ x.pc \in {"respond", "cancel", "apply", "applied"}
       \/ x.pc \in InWallet /\ x.amount = -Amount /\ x.then = "applied"
  /\ x.item \in PayoutIds =>
       \/ x.pc \in {"approve", "hold", "release", "transfer", "completed", "processing", "failed"}
       \/ x.pc \in InWallet /\ x.amount = -Amount /\ x.then = "transfer"
       \/ x.pc \in InWallet /\ x.amount = Amount /\ x.then = "end"
  /\ x.pc = "walletSave" => x.copy.balance + x.amount >= 0

(* The handlers that have debited the vendor for payout i and may still    *)
(* undo it.                                                                *)
Holds(p, i) ==
  /\ On(p, i)
  /\ \/ call[p].pc \in {"transfer", "completed", "processing", "failed"}
     \/ call[p].pc \in InWallet /\ call[p].then = "end"
Holders(i) == {p \in Procs : Holds(p, i)}

(* An item one handler at a time has worked on, with and without it.       *)
Rest(i) ==
  /\ i \in PayoutIds =>
       /\ payout[i] = "completed" => transfer[i] = "executed" /\ charged[i] = Amount
       /\ payout[i] = "processing" => charged[i] = IF transfer[i] = "none" THEN 0 ELSE Amount
       /\ payout[i] = "failed" => charged[i] = 0
       /\ payout[i] \in {"none", "pending", "held"} => transfer[i] = "none" /\ charged[i] = 0
  /\ i \in DeductionIds => charged[i] = IF deduction[i] = "applied" THEN Amount ELSE 0

WithHandler(p, i) ==
  LET x == call[p] IN
  /\ i \in PayoutIds =>
       /\ x.pc \in {"approve", "hold"} => payout[i] = "pending" /\ charged[i] = 0
       /\ x.pc = "release" => payout[i] = "held" /\ charged[i] = 0
       /\ x.pc \in InWallet /\ x.then = "transfer" => payout[i] = "processing" /\ charged[i] = 0
       /\ x.pc \in {"approve", "hold", "release", "transfer"} => transfer[i] = "none"
       /\ x.pc \in InWallet /\ x.then = "transfer" => transfer[i] = "none"
       /\ x.pc = "processing" => transfer[i] # "none"
       /\ x.pc \in {"transfer", "completed", "processing", "failed"} =>
            payout[i] = "processing" /\ charged[i] = Amount
       /\ x.pc = "completed" => transfer[i] = "executed"
       /\ x.pc \in InWallet /\ x.then = "end" => payout[i] = "failed" /\ charged[i] = Amount
  /\ i \in DeductionIds =>
       /\ deduction[i] = "pending_response"
       /\ charged[i] = IF x.pc = "applied" THEN Amount ELSE 0

WalletOK ==
  /\ PayoutsTypeOK /\ deaths \in Nat
  /\ call \in [Procs -> PayoutCall \cup {NoCall}]
  /\ \A p \in Procs : call[p] # NoCall => StateOK(call[p])
  /\ earnings.balance >= 0

Backed == \A i \in PayoutIds : charged[i] >= Amount * Cardinality(Holders(i))

Alone(i) == \A p, q \in Procs : On(p, i) /\ On(q, i) => p = q
Books ==
  deaths = 0 => \A i \in Charges \ payoutRaced :
    /\ Alone(i)
    /\ (\A p \in Procs : ~On(p, i)) => Rest(i)
    /\ \A p \in Procs : On(p, i) => WithHandler(p, i)

LEMMA PayoutCalls ==
  ASSUME WalletOK
  PROVE  /\ \A p \in Procs : call[p] # NoCall =>
              /\ call[p] \in PayoutCall /\ StateOK(call[p]) /\ call[p].item \in Charges \cup {0}
              /\ call[p].copy \in EarningsWallet /\ call[p].amount \in Int
         /\ \A i \in Charges : Working(i) <=> \E p \in Procs : On(p, i)
  BY DEF WalletOK, PayoutCall, Working, On

LEMMA HolderCount ==
  ASSUME NEW i
  PROVE  IsFiniteSet(Holders(i)) /\ Cardinality(Holders(i)) \in Nat
  BY PayoutConstantsOK, FS_Subset, FS_CardinalityType DEF Holders

(* One handler more, or one less, has debited the vendor.                  *)
LEMMA HoldersMove ==
  ASSUME NEW i \in PayoutIds, NEW p \in Procs,
         \A q \in Procs \ {p} : call'[q] = call[q]
  PROVE  /\ (Holds(p, i) <=> Holds(p, i)') => Holders(i)' = Holders(i)
         /\ ~Holds(p, i) /\ Holds(p, i)' => Cardinality(Holders(i)') = Cardinality(Holders(i)) + 1
         /\ Holds(p, i) /\ ~Holds(p, i)' => Cardinality(Holders(i)') = Cardinality(Holders(i)) - 1
  <1>1. \A q \in Procs \ {p} : Holds(q, i)' <=> Holds(q, i)
    BY DEF Holds, On
  <1>2. (Holds(p, i) <=> Holds(p, i)') => Holders(i)' = Holders(i)
    BY <1>1 DEF Holders
  <1>3. ASSUME ~Holds(p, i), Holds(p, i)'
        PROVE  Cardinality(Holders(i)') = Cardinality(Holders(i)) + 1
    <2>1. Holders(i)' = Holders(i) \cup {p} /\ p \notin Holders(i)
      BY <1>1, <1>3 DEF Holders
    <2> QED  BY <2>1, HolderCount, FS_AddElement
  <1>4. ASSUME Holds(p, i), ~Holds(p, i)'
        PROVE  Cardinality(Holders(i)') = Cardinality(Holders(i)) - 1
    <2>1. Holders(i)' = Holders(i) \ {p} /\ p \in Holders(i)
      BY <1>1, <1>4 DEF Holders
    <2> QED  BY <2>1, HolderCount, FS_RemoveElement
  <1> QED  BY <1>2, <1>3, <1>4

LEMMA OneMore ==
  ASSUME NEW n \in Nat
  PROVE  /\ Amount * n \in Nat /\ Amount * (n + 1) = Amount * n + Amount
         /\ Amount * (n - 1) = Amount * n - Amount
  BY PayoutConstantsOK

(* A handler p moves on within its item: what it holds changes with what   *)
(* the item is charged.                                                    *)
LEMMA BackedMoves ==
  ASSUME WalletOK, Backed, NEW p \in Procs, NEW i \in PayoutIds,
         \A q \in Procs \ {p} : call'[q] = call[q],
         \A j \in PayoutIds \ {i} : charged'[j] = charged[j] /\ ~Holds(p, j) /\ ~Holds(p, j)',
         NEW d \in {-Amount, 0, Amount}, charged'[i] = charged[i] + d,
         Holds(p, i)' /\ ~Holds(p, i) => d = Amount,
         (Holds(p, i)' <=> Holds(p, i)) => d >= 0,
         d = -Amount => Holds(p, i) /\ ~Holds(p, i)'
  PROVE  Backed'
  <1>1. ASSUME NEW j \in PayoutIds
        PROVE  charged'[j] >= Amount * Cardinality(Holders(j)')
    <2> DEFINE n == Cardinality(Holders(j))
    <2>1. n \in Nat /\ charged[j] >= Amount * n /\ charged[j] \in Int
      BY HolderCount DEF Backed, WalletOK, PayoutsTypeOK, Charges
    <2>2. CASE j # i
      BY <2>1, <2>2, HoldersMove
    <2>3. CASE j = i
      <3>1. CASE Holds(p, i) <=> Holds(p, i)'
        BY <2>1, <2>3, <3>1, HoldersMove, PayoutConstantsOK
      <3>2. CASE ~Holds(p, i) /\ Holds(p, i)'
        <4>1. Cardinality(Holders(j)') = n + 1 /\ d = Amount
          BY <2>3, <3>2, HoldersMove
        <4> HIDE DEF n
        <4> QED  BY <2>1, <2>3, <4>1, OneMore, PayoutConstantsOK
      <3>3. CASE Holds(p, i) /\ ~Holds(p, i)'
        <4>1. Cardinality(Holders(j)') = n - 1
          BY <2>3, <3>3, HoldersMove
        <4> HIDE DEF n
        <4> QED  BY <2>1, <2>3, <4>1, OneMore, PayoutConstantsOK
      <3> QED  BY <3>1, <3>2, <3>3
    <2> QED  BY <2>2, <2>3
  <1> QED  BY <1>1 DEF Backed

(* The handler p of item i takes a step that leaves the other items alone. *)
LEMMA BooksMove ==
  ASSUME WalletOK, Books, deaths' = deaths, payoutRaced' = payoutRaced,
         NEW p \in Procs, NEW i \in Charges \cup {0}, On(p, i),
         call'[p] = NoCall \/ On(p, i)',
         \A q \in Procs \ {p} : call'[q] = call[q],
         \A j \in PayoutIds \ {i} : payout'[j] = payout[j] /\ transfer'[j] = transfer[j]
                                                           /\ charged'[j] = charged[j],
         \A j \in DeductionIds \ {i} : deduction'[j] = deduction[j] /\ charged'[j] = charged[j],
         deaths = 0 /\ i \in Charges \ payoutRaced /\ WithHandler(p, i)
           => IF call'[p] = NoCall THEN Rest(i)' ELSE WithHandler(p, i)'
  PROVE  Books'
  <1> SUFFICES ASSUME deaths = 0, NEW j \in Charges, j \notin payoutRaced
               PROVE  /\ Alone(j)'
                      /\ (\A q \in Procs : ~On(q, j)') => Rest(j)'
                      /\ \A q \in Procs : On(q, j)' => WithHandler(q, j)'
    BY DEF Books
  <1>1. /\ Alone(j)
        /\ (\A q \in Procs : ~On(q, j)) => Rest(j)
        /\ \A q \in Procs : On(q, j) => WithHandler(q, j)
    BY DEF Books
  <1>2. CASE j = i
    <2>1. \A q \in Procs \ {p} : ~On(q, j)'
      BY <1>1, <1>2 DEF On, Alone
    <2>2. IF call'[p] = NoCall THEN Rest(j)' ELSE WithHandler(p, j)'
      BY <1>1, <1>2
    <2>3. On(p, j)' <=> call'[p] # NoCall
      BY <1>2 DEF On
    <2> HIDE DEF On
    <2> QED  BY <2>1, <2>2, <2>3 DEF Alone
  <1>3. CASE j # i
    <2>1. /\ \A q \in Procs : On(q, j)' <=> On(q, j)
          /\ \A q \in Procs : On(q, j) => call'[q] = call[q]
      BY <1>3 DEF On
    <2>2. Rest(j)' <=> Rest(j)
      BY <1>3 DEF Rest
    <2>3. \A q \in Procs : On(q, j) => (WithHandler(q, j)' <=> WithHandler(q, j))
      BY <1>3, <2>1 DEF WithHandler
    <2>4. Alone(j)'
      BY <1>1, <2>1 DEF Alone
    <2> QED  BY <1>1, <2>1, <2>2, <2>3, <2>4
  <1> QED  BY <1>2, <1>3

(* No more holders, and no less charged.                                   *)
LEMMA BackedAside ==
  ASSUME WalletOK, Backed, NEW p \in Procs, \A q \in Procs \ {p} : call'[q] = call[q],
         \A j \in PayoutIds : charged'[j] \in Int /\ charged'[j] >= charged[j] /\ (Holds(p, j)' => Holds(p, j))
  PROVE  Backed'
  <1>1. ASSUME NEW j \in PayoutIds
        PROVE  charged'[j] >= Amount * Cardinality(Holders(j)')
    <2> DEFINE n == Cardinality(Holders(j))
    <2>1. n \in Nat /\ charged[j] >= Amount * n /\ charged[j] \in Int
      BY HolderCount DEF Backed, WalletOK, PayoutsTypeOK, Charges
    <2>2. CASE Holds(p, j) <=> Holds(p, j)'
      BY <2>1, <2>2, HoldersMove, PayoutConstantsOK
    <2>3. CASE Holds(p, j) /\ ~Holds(p, j)'
      <3>1. Cardinality(Holders(j)') = n - 1
        BY <2>3, HoldersMove
      <3> HIDE DEF n
      <3> QED  BY <2>1, <3>1, OneMore, PayoutConstantsOK
    <2> QED  BY <2>2, <2>3
  <1> QED  BY <1>1 DEF Backed

LEMMA WalletOKMoves ==
  ASSUME WalletOK, PayoutsTypeOK', deaths' \in Nat, earnings'.balance >= 0, NEW p \in Procs,
         \/ call' = [call EXCEPT ![p] = NoCall]
         \/ \E x \in PayoutCall : StateOK(x) /\ call' = [call EXCEPT ![p] = x]
  PROVE  WalletOK' /\ \A q \in Procs \ {p} : call'[q] = call[q]
  <1>1. CASE call' = [call EXCEPT ![p] = NoCall]
    BY <1>1, SlotFreed DEF WalletOK
  <1>2. CASE \E x \in PayoutCall : StateOK(x) /\ call' = [call EXCEPT ![p] = x]
    <2>1. PICK x \in PayoutCall : StateOK(x) /\ call' = [call EXCEPT ![p] = x]
      BY <1>2
    <2> QED  BY <2>1, SlotTakes, PayoutConstantsOK DEF WalletOK
  <1> QED  BY <1>1, <1>2

-----------------------------------------------------------------------------
PayoutIInv == WalletOK /\ Backed /\ Books

LEMMA PayoutInitIInv == RequestsInit /\ PayoutsInit => PayoutIInv
  <1> SUFFICES ASSUME RequestsInit, PayoutsInit
               PROVE  PayoutIInv
    OBVIOUS
  <1>1. WalletOK
    <2>1. earnings \in EarningsWallet /\ earnings.balance = 0
      BY DEF PayoutsInit, EarningsWallet
    <2>2. PayoutsTypeOK
      <3>0. earningsRaced \in BOOLEAN
        BY Zenon DEF PayoutsInit
      <3>1. /\ rows \in Int /\ due \subseteq Charges
            /\ payoutRaced \subseteq Charges /\ charged \in [Charges -> Int]
        BY DEF PayoutsInit
      <3>2. /\ payout \in [PayoutIds -> PayoutStatus] /\ deduction \in [DeductionIds -> DeductionStatus]
            /\ transfer \in [PayoutIds -> {"none", "queued", "executed"}]
        BY DEF PayoutsInit, PayoutStatus, DeductionStatus
      <3> QED  BY <2>1, <3>0, <3>1, <3>2 DEF PayoutsTypeOK
    <2>3. /\ call \in [Procs -> PayoutCall \cup {NoCall}] /\ deaths \in Nat
          /\ \A p \in Procs : call[p] = NoCall
      BY DEF RequestsInit
    <2> QED  BY <2>1, <2>2, <2>3 DEF WalletOK
  <1>2. Backed
    <2>1. ASSUME NEW i \in PayoutIds
          PROVE  charged[i] >= Amount * Cardinality(Holders(i))
      <3>1. Holders(i) = {} /\ charged[i] = 0
        BY DEF RequestsInit, PayoutsInit, Holders, Holds, On, Charges
      <3>2. Cardinality(Holders(i)) = 0
        BY <3>1, FS_EmptySet
      <3>3. Amount * 0 = 0
        BY PayoutConstantsOK
      <3> QED  BY <3>1, <3>2, <3>3
    <2> QED  BY <2>1 DEF Backed
  <1>3. Books
    <2>1. \A p \in Procs, i \in Charges : ~On(p, i)
      BY DEF RequestsInit, On
    <2>2. \A i \in Charges : Rest(i)
      BY DEF PayoutsInit, Rest
    <2> QED  BY <2>1, <2>2 DEF Books, Alone
  <1> QED  BY <1>1, <1>2, <1>3 DEF PayoutIInv

(* The records a handler goes on with.                                     *)
LEMMA NextState ==
  ASSUME NEW c \in PayoutCall,
         NEW pc \in {"walletRow", "transfer", "completed", "processing", "failed", "applied"}
  PROVE  LET x == [c EXCEPT !.pc = pc] IN
         /\ x \in PayoutCall /\ x.pc = pc /\ x.item = c.item /\ x.amount = c.amount
         /\ x.then = c.then
  BY DEF PayoutCall

LEMMA SaveState ==
  ASSUME NEW c \in PayoutCall, NEW w \in EarningsWallet
  PROVE  LET x == [c EXCEPT !.pc = "walletSave", !.copy = w] IN
         /\ x \in PayoutCall /\ x.pc = "walletSave" /\ x.item = c.item /\ x.amount = c.amount
         /\ x.then = c.then /\ x.copy = w
  BY DEF PayoutCall

(* A handler ends, or goes on with the same item, and charges nothing.     *)
Others(i) ==
  /\ \A j \in PayoutIds \ {i} : payout'[j] = payout[j] /\ transfer'[j] = transfer[j]
  /\ \A j \in DeductionIds \ {i} : deduction'[j] = deduction[j]

LEMMA HandlerEnds ==
  ASSUME PayoutIInv, NEW p \in Procs, NEW i \in Charges \cup {0}, On(p, i), End(p),
         UNCHANGED <<payoutRaced, charged>>, PayoutsTypeOK', earnings'.balance >= 0, Others(i),
         i \in Charges /\ WithHandler(p, i) => Rest(i)'
  PROVE  PayoutIInv'
  <1>1. call' = [call EXCEPT ![p] = NoCall] /\ deaths' = deaths
    BY DEF End, GotoState
  <1>2. call'[p] = NoCall /\ WalletOK' /\ \A q \in Procs \ {p} : call'[q] = call[q]
    BY <1>1, WalletOKMoves, SlotFreed DEF PayoutIInv, WalletOK
  <1>3. Backed'
    BY <1>2, BackedAside DEF PayoutIInv, WalletOK, PayoutsTypeOK, Charges, Holds, On
  <1>4. Books'
    BY <1>1, <1>2, BooksMove DEF PayoutIInv, Others
  <1> QED  BY <1>2, <1>3, <1>4 DEF PayoutIInv

LEMMA HandlerGoesOn ==
  ASSUME PayoutIInv, NEW p \in Procs, NEW i \in Charges \cup {0}, On(p, i),
         NEW x \in PayoutCall, StateOK(x), x.item = i, GotoState(p, x),
         UNCHANGED <<payoutRaced, charged>>, PayoutsTypeOK', earnings'.balance >= 0, Others(i),
         call'[p] = x /\ i \in PayoutIds /\ Holds(p, i)' => Holds(p, i),
         call'[p] = x /\ i \in Charges /\ WithHandler(p, i) => WithHandler(p, i)'
  PROVE  PayoutIInv'
  <1>1. call' = [call EXCEPT ![p] = x] /\ deaths' = deaths
    BY DEF GotoState
  <1>2. /\ call'[p] = x /\ x # NoCall /\ WalletOK'
        /\ \A q \in Procs \ {p} : call'[q] = call[q]
    BY <1>1, WalletOKMoves, SlotTakes, PayoutConstantsOK DEF PayoutIInv, WalletOK
  <1>3. \A j \in PayoutIds : Holds(p, j)' => Holds(p, j)
    BY <1>2 DEF Holds, On
  <1>4. Backed'
    BY <1>2, <1>3, BackedAside DEF PayoutIInv, WalletOK, PayoutsTypeOK, Charges
  <1>5. On(p, i)'
    BY <1>2 DEF On
  <1>6. Books'
    BY <1>1, <1>2, <1>5, BooksMove DEF PayoutIInv, Others
  <1> QED  BY <1>2, <1>4, <1>6 DEF PayoutIInv

(* What is known of a handler on the way.                                  *)
LEMMA OnTheWay ==
  ASSUME PayoutIInv, NEW p \in Procs, call[p] # NoCall
  PROVE  /\ call[p] \in PayoutCall /\ StateOK(call[p]) /\ call[p].amount \in Int
         /\ call[p].copy \in EarningsWallet
         /\ \E i \in Charges \cup {0} : i = call[p].item /\ On(p, i)
         /\ earnings \in EarningsWallet /\ earnings.balance \in Int /\ earnings.balance >= 0
  BY PayoutCalls DEF PayoutIInv, WalletOK, PayoutsTypeOK, EarningsWallet, On

LEMMA WalletReadIInv ==
  ASSUME PayoutIInv, NEW p \in Procs, WalletRead(p)
  PROVE  PayoutIInv'
  <1> DEFINE c == call[p]
             x == [c EXCEPT !.pc = "walletSave", !.copy = earnings]
  <1>1. c # NoCall /\ c.pc = "walletRead" /\ UNCHANGED payoutVars
    BY DEF WalletRead, At
  <1>2. PICK i \in Charges \cup {0} : i = c.item /\ On(p, i)
    BY <1>1, OnTheWay
  <1>3. \/ earnings.balance + c.amount < 0 /\ End(p)
        \/ earnings.balance + c.amount >= 0 /\ GotoState(p, x)
    <2>1. ~(earnings.balance + c.amount < 0) => earnings.balance + c.amount >= 0
      BY <1>1, OnTheWay
    <2> QED  BY <2>1 DEF WalletRead
  <1>4. PayoutsTypeOK' /\ earnings'.balance >= 0 /\ Others(i) /\ UNCHANGED <<payoutRaced, charged>>
    BY <1>1, OnTheWay DEF PayoutIInv, WalletOK, PayoutsTypeOK, payoutVars, Others
  <1>5. CASE earnings.balance + c.amount < 0 /\ End(p)
    <2>1. c.amount = -Amount
      BY <1>1, <1>2, <1>5, OnTheWay, PayoutConstantsOK DEF StateOK, Charges, InWallet
    <2>2. ASSUME i \in Charges, WithHandler(p, i)
          PROVE  Rest(i)'
      <3>1. i \in PayoutIds => payout[i] = "processing" /\ transfer[i] = "none" /\ charged[i] = 0
        BY <1>1, <1>2, <2>1, <2>2, OnTheWay, PayoutConstantsOK DEF StateOK, WithHandler, InWallet
      <3>2. i \in DeductionIds => deduction[i] = "pending_response" /\ charged[i] = 0
        BY <1>1, <2>2 DEF WithHandler
      <3> QED  BY <1>1, <3>1, <3>2 DEF Rest, payoutVars
    <2> QED  BY <1>2, <1>4, <1>5, <2>2, HandlerEnds
  <1>6. CASE earnings.balance + c.amount >= 0 /\ GotoState(p, x)
    <2>1. /\ x \in PayoutCall /\ x.pc = "walletSave" /\ x.item = c.item /\ x.amount = c.amount
          /\ x.then = c.then /\ x.copy = earnings
      BY <1>1, OnTheWay, SaveState
    <2> HIDE DEF x
    <2>2. StateOK(x)
      BY <1>1, <1>6, <2>1, OnTheWay DEF StateOK, InWallet
    <2>3. ASSUME call'[p] = x
          PROVE  (Holds(p, i)' => Holds(p, i)) /\ (WithHandler(p, i) => WithHandler(p, i)')
      BY <1>1, <1>2, <2>1, <2>3 DEF Holds, On, WithHandler, InWallet, payoutVars
    <2> QED  BY <1>2, <1>4, <1>6, <2>1, <2>2, <2>3, HandlerGoesOn
  <1> QED  BY <1>3, <1>5, <1>6

LEMMA WalletSaveIInv ==
  ASSUME PayoutIInv, NEW p \in Procs, WalletSave(p)
  PROVE  PayoutIInv'
  <1> DEFINE c == call[p]
             x == [c EXCEPT !.pc = "walletRow"]
             w == [ balance |-> c.copy.balance + c.amount,
                    earned  |-> IF c.item \in Charges THEN c.copy.earned ELSE c.copy.earned + c.amount ]
  <1>1. /\ c # NoCall /\ c.pc = "walletSave" /\ GotoState(p, x) /\ earnings' = w
        /\ earningsRaced' = (earningsRaced \/ earnings # c.copy
                                 \/ \E q \in Procs \ {p} : At(q, "walletSave"))
        /\ UNCHANGED <<rows, payout, deduction, due, transfer, charged, payoutRaced>>
    BY DEF WalletSave, At, Goto
  <1>2. PICK i \in Charges \cup {0} : i = c.item /\ On(p, i)
    BY <1>1, OnTheWay
  <1>3. w \in EarningsWallet /\ w.balance >= 0
    <2>1. c.item \notin Charges => c.amount \in Nat
      BY <1>1, <1>2, OnTheWay, PayoutConstantsOK DEF StateOK
    <2> QED  BY <1>1, <2>1, OnTheWay DEF StateOK, EarningsWallet
  <1> HIDE DEF w
  <1>4. PayoutsTypeOK' /\ earnings'.balance >= 0 /\ Others(i)
    <2>1. earningsRaced' \in BOOLEAN
      BY <1>1
    <2> QED  BY <1>1, <1>3, <2>1 DEF PayoutIInv, WalletOK, PayoutsTypeOK, Others
  <1>5. /\ x \in PayoutCall /\ x.pc = "walletRow" /\ x.item = c.item /\ x.amount = c.amount
        /\ x.then = c.then
    BY <1>1, OnTheWay, NextState
  <1> HIDE DEF x
  <1>6. StateOK(x)
    BY <1>1, <1>5, OnTheWay DEF StateOK, InWallet
  <1>7. ASSUME call'[p] = x
        PROVE  (Holds(p, i)' => Holds(p, i)) /\ (WithHandler(p, i) => WithHandler(p, i)')
    BY <1>1, <1>2, <1>5, <1>7 DEF Holds, On, WithHandler, InWallet
  <1> QED  BY <1>1, <1>2, <1>4, <1>5, <1>6, <1>7, HandlerGoesOn

(* The ledger row: a payout's debit makes its handler a holder, and the    *)
(* credit that undoes it ends the handler.                                 *)
LEMMA WalletRowIInv ==
  ASSUME PayoutIInv, NEW p \in Procs, WalletRow(p)
  PROVE  PayoutIInv'
  <1> DEFINE c == call[p]
             x == [c EXCEPT !.pc = c.then]
  <1>1. /\ c # NoCall /\ c.pc = "walletRow" /\ rows' = rows + c.amount
        /\ charged' = IF c.item \in Charges THEN [charged EXCEPT ![c.item] = @ - c.amount] ELSE charged
        /\ IF c.then = "end" THEN End(p) ELSE GotoState(p, x)
        /\ UNCHANGED <<earnings, earningsRaced, payout, deduction, due, transfer, payoutRaced>>
    BY DEF WalletRow, At, Goto
  <1>2. PICK i \in Charges \cup {0} : i = c.item /\ On(p, i)
    BY <1>1, OnTheWay
  <1>3. c \in PayoutCall /\ StateOK(c) /\ c.amount \in Int /\ deaths' = deaths
    BY <1>1, OnTheWay DEF End, GotoState
  <1>4. PayoutsTypeOK' /\ earnings'.balance >= 0
    <2>1. rows' \in Int /\ charged' \in [Charges -> Int]
      BY <1>1, <1>3 DEF PayoutIInv, WalletOK, PayoutsTypeOK
    <2> QED  BY <1>1, <2>1 DEF PayoutIInv, WalletOK, PayoutsTypeOK
  <1>5. /\ i \in Charges => charged'[i] = charged[i] - c.amount
        /\ \A j \in Charges \ {i} : charged'[j] = charged[j]
    BY <1>1, <1>2 DEF PayoutIInv, WalletOK, PayoutsTypeOK
  <1>6. CASE c.then = "end"
    <2>1. call' = [call EXCEPT ![p] = NoCall]
      BY <1>1, <1>6 DEF End, GotoState
    <2>2. call'[p] = NoCall /\ WalletOK' /\ \A q \in Procs \ {p} : call'[q] = call[q]
      BY <1>3, <1>4, <2>1, WalletOKMoves, SlotFreed DEF PayoutIInv, WalletOK
    <2>3. i \notin DeductionIds
      BY <1>1, <1>2, <1>3, <1>6 DEF StateOK
    <2>4. CASE i = 0
      <3>1. Backed'
        BY <1>2, <1>5, <2>2, <2>4, PayoutConstantsOK, BackedAside
        DEF PayoutIInv, WalletOK, PayoutsTypeOK, Charges, Holds, On
      <3>2. Books'
        BY <1>1, <1>2, <1>3, <1>5, <2>2, <2>4, BooksMove, PayoutConstantsOK DEF PayoutIInv, Charges
      <3> QED  BY <2>2, <3>1, <3>2 DEF PayoutIInv
    <2>5. CASE i \in PayoutIds
      <3>1. c.amount = Amount /\ Holds(p, i) /\ charged'[i] = charged[i] + (-Amount)
        <4>1. c.amount = Amount
          BY <1>1, <1>2, <1>3, <1>6, <2>5 DEF StateOK
        <4>2. Holds(p, i)
          BY <1>1, <1>2, <1>6 DEF Holds, InWallet
        <4>3. charged[i] \in Int
          BY <2>5 DEF PayoutIInv, WalletOK, PayoutsTypeOK, Charges
        <4> QED  BY <1>5, <2>5, <4>1, <4>2, <4>3, PayoutConstantsOK DEF Charges
      <3>2. ~Holds(p, i)' /\ \A j \in PayoutIds \ {i} : charged'[j] = charged[j] /\ ~Holds(p, j) /\ ~Holds(p, j)'
        BY <1>2, <1>5, <2>2 DEF Holds, On, Charges
      <3>3. Backed'
        BY <2>2, <2>5, <3>1, <3>2, BackedMoves, PayoutConstantsOK DEF PayoutIInv
      <3>4. ASSUME WithHandler(p, i)
            PROVE  Rest(i)'
        <4>1. payout[i] = "failed" /\ charged'[i] = 0
          BY <1>1, <1>6, <2>5, <3>1, <3>4, PayoutConstantsOK DEF WithHandler, InWallet
        <4> QED  BY <1>1, <2>3, <4>1 DEF Rest
      <3>5. Books'
        BY <1>1, <1>2, <1>3, <1>5, <2>2, <3>4, BooksMove DEF PayoutIInv, Charges
      <3> QED  BY <2>2, <3>3, <3>5 DEF PayoutIInv
    <2> QED  BY <2>3, <2>4, <2>5 DEF Charges
  <1>7. CASE c.then # "end"
    <2>1. /\ i \in Charges /\ c.amount = -Amount
          /\ i \in PayoutIds => c.then = "transfer"
          /\ i \in DeductionIds => c.then = "applied"
      BY <1>1, <1>2, <1>3, <1>7 DEF StateOK, Charges
    <2>2. /\ x \in PayoutCall /\ x.pc = c.then /\ x.item = c.item
          /\ call' = [call EXCEPT ![p] = x]
      <3>1. PICK pc \in {"transfer", "applied"} : pc = c.then
        BY <2>1 DEF Charges
      <3> DEFINE y == [c EXCEPT !.pc = pc]
      <3>2. y \in PayoutCall /\ y.pc = c.then /\ y.item = c.item /\ x = y
        <4>0. pc \in {"walletRow", "transfer", "completed", "processing", "failed", "applied"}
          OBVIOUS
        <4>1. y \in PayoutCall /\ y.pc = pc /\ y.item = c.item
          BY <1>3, <4>0, NextState
        <4>2. x = y
          BY <3>1
        <4> QED  BY <3>1, <4>1, <4>2
      <3>3. call' = [call EXCEPT ![p] = x]
        BY <1>1, <1>7 DEF GotoState
      <3> HIDE DEF x, y
      <3> QED  BY <3>2, <3>3
    <2> HIDE DEF x
    <2>3. StateOK(x)
      BY <1>2, <2>1, <2>2, PayoutConstantsOK DEF StateOK, Charges
    <2>4. /\ call'[p] = x /\ x # NoCall /\ WalletOK'
          /\ \A q \in Procs \ {p} : call'[q] = call[q]
      BY <1>3, <1>4, <2>2, <2>3, WalletOKMoves, SlotTakes, PayoutConstantsOK DEF PayoutIInv, WalletOK
    <2>5. charged'[i] = charged[i] + Amount /\ charged[i] \in Int /\ charged'[i] \in Int
      BY <1>4, <1>5, <2>1, PayoutConstantsOK DEF PayoutIInv, WalletOK, PayoutsTypeOK
    <2>6. CASE i \in PayoutIds
      <3>1. ~Holds(p, i) /\ Holds(p, i)'
        BY <1>1, <1>2, <2>1, <2>2, <2>4, <2>6 DEF Holds, On, InWallet
      <3>2. \A j \in PayoutIds \ {i} : charged'[j] = charged[j] /\ ~Holds(p, j) /\ ~Holds(p, j)'
        BY <1>2, <1>5, <2>2, <2>4 DEF Holds, On, Charges
      <3>3. Backed'
        BY <2>4, <2>5, <2>6, <3>1, <3>2, BackedMoves, PayoutConstantsOK DEF PayoutIInv
      <3>4. ASSUME WithHandler(p, i)
            PROVE  WithHandler(p, i)'
        <4>1. payout[i] = "processing" /\ charged'[i] = Amount /\ transfer'[i] = "none"
          BY <1>1, <2>1, <2>5, <2>6, <3>4, PayoutConstantsOK DEF WithHandler, InWallet
        <4> QED
          BY <1>1, <2>1, <2>2, <2>4, <2>6, <4>1, PayoutConstantsOK DEF WithHandler, InWallet
      <3>5. On(p, i)'
        BY <1>2, <2>2, <2>4 DEF On
      <3>6. Books'
        BY <1>1, <1>2, <1>3, <1>5, <2>4, <3>4, <3>5, BooksMove DEF PayoutIInv, Charges
      <3> QED  BY <2>4, <3>3, <3>6 DEF PayoutIInv
    <2>7. CASE i \in DeductionIds
      <3>1. i \notin PayoutIds
        BY <2>7, PayoutConstantsOK
      <3>2. \A j \in PayoutIds : charged'[j] = charged[j] /\ ~Holds(p, j)'
        BY <1>2, <1>5, <2>2, <2>4, <3>1 DEF Holds, On, Charges
      <3>3. Backed'
        BY <1>4, <2>4, <3>2, BackedAside DEF PayoutIInv, WalletOK, PayoutsTypeOK, Charges
      <3>4. ASSUME WithHandler(p, i)
            PROVE  WithHandler(p, i)'
        <4>1. deduction[i] = "pending_response" /\ charged'[i] = Amount
          BY <1>1, <2>5, <2>7, <3>4, PayoutConstantsOK DEF WithHandler
        <4> QED  BY <1>1, <2>1, <2>2, <2>4, <2>7, <3>1, <4>1 DEF WithHandler
      <3>5. On(p, i)'
        BY <1>2, <2>2, <2>4 DEF On
      <3>6. Books'
        BY <1>1, <1>2, <1>3, <1>5, <2>4, <3>4, <3>5, BooksMove DEF PayoutIInv, Charges
      <3> QED  BY <2>4, <3>3, <3>6 DEF PayoutIInv
    <2> QED  BY <2>1, <2>6, <2>7 DEF Charges
  <1> QED  BY <1>6, <1>7

-----------------------------------------------------------------------------
(* The steps around the wallet.                                            *)

LEMMA SaveHoldIInv ==
  ASSUME PayoutIInv, NEW p \in Procs, SaveHold(p)
  PROVE  PayoutIInv'
  <1> DEFINE c == call[p]
  <1>1. /\ c # NoCall /\ c.pc \in {"hold", "release"} /\ End(p)
        /\ due' = due \ {c.item}
        /\ UNCHANGED <<earnings, rows, earningsRaced, deduction, transfer, charged, payoutRaced>>
    BY DEF SaveHold, At
  <1>2. PICK i \in Charges \cup {0} : i = c.item /\ On(p, i)
    BY <1>1, OnTheWay
  <1>3. PICK s \in {"held", "pending"} : SetPayout(i, s)
    BY <1>2 DEF SaveHold
  <1>4. i \in PayoutIds /\ i \notin DeductionIds
    BY <1>1, <1>2, OnTheWay, PayoutConstantsOK DEF StateOK, InWallet, Charges
  <1>5. PayoutsTypeOK' /\ earnings'.balance >= 0 /\ Others(i)
    <2>1. payout' \in [PayoutIds -> PayoutStatus]
      BY <1>3 DEF PayoutIInv, WalletOK, PayoutsTypeOK, SetPayout, PayoutStatus
    <2> QED
      BY <1>1, <1>3, <2>1 DEF PayoutIInv, WalletOK, PayoutsTypeOK, SetPayout, Others
  <1>6. WithHandler(p, i) => Rest(i)'
    BY <1>1, <1>3, <1>4 DEF WithHandler, Rest, SetPayout, PayoutIInv, WalletOK, PayoutsTypeOK
  <1> QED  BY <1>1, <1>2, <1>5, <1>6, HandlerEnds

LEMMA WalletCalled ==
  ASSUME NEW p \in Procs, call[p] \in PayoutCall, NEW amount \in Int,
         NEW then \in {"end", "transfer", "applied"}, CallWallet(p, amount, then)
  PROVE  \E x \in PayoutCall : /\ GotoState(p, x) /\ x.pc = "walletRead" /\ x.item = call[p].item
                               /\ x.amount = amount /\ x.then = then
  <1> DEFINE x == [call[p] EXCEPT !.pc = "walletRead", !.amount = amount, !.then = then]
  <1>1. /\ x \in PayoutCall /\ x.pc = "walletRead" /\ x.item = call[p].item /\ x.amount = amount
        /\ x.then = then
    BY DEF PayoutCall
  <1>2. GotoState(p, x)
    BY DEF CallWallet
  <1> HIDE DEF x
  <1> QED  BY <1>1, <1>2

(* A handler calls the wallet.                                             *)
LEMMA CallWalletIInv ==
  ASSUME PayoutIInv, NEW p \in Procs, NEW i \in Charges, On(p, i), i = call[p].item,
         NEW amount \in {-Amount, Amount}, NEW then \in {"end", "transfer", "applied"},
         CallWallet(p, amount, then),
         i \in DeductionIds => amount = -Amount /\ then = "applied",
         i \in PayoutIds => \/ amount = -Amount /\ then = "transfer"
                            \/ amount = Amount /\ then = "end" /\ Holds(p, i),
         UNCHANGED <<payoutRaced, charged>>, PayoutsTypeOK', earnings'.balance >= 0, Others(i),
         WithHandler(p, i) /\ i \in PayoutIds =>
           IF then = "transfer"
           THEN payout'[i] = "processing" /\ charged[i] = 0 /\ transfer'[i] = "none"
           ELSE payout'[i] = "failed" /\ charged[i] = Amount,
         WithHandler(p, i) /\ i \in DeductionIds => deduction'[i] = "pending_response" /\ charged[i] = 0
  PROVE  PayoutIInv'
  <1>1. PICK x \in PayoutCall : /\ GotoState(p, x) /\ x.pc = "walletRead" /\ x.item = call[p].item
                                /\ x.amount = amount /\ x.then = then
    <2>1. call[p] \in PayoutCall /\ amount \in Int
      BY OnTheWay, PayoutConstantsOK DEF On
    <2> QED  BY <2>1, WalletCalled
  <1>2. x.item = i
    BY <1>1
  <1>3. StateOK(x)
    BY <1>1, <1>2, PayoutConstantsOK DEF StateOK, InWallet
  <1>4. ASSUME call'[p] = x
        PROVE  /\ i \in PayoutIds /\ Holds(p, i)' => Holds(p, i)
               /\ WithHandler(p, i) => WithHandler(p, i)'
    <2>1. i \in PayoutIds /\ Holds(p, i)' => Holds(p, i)
      BY <1>1, <1>2, <1>4, PayoutConstantsOK DEF Holds, InWallet
    <2>2. WithHandler(p, i) => WithHandler(p, i)'
      BY <1>1, <1>2, <1>4, PayoutConstantsOK DEF WithHandler, InWallet
    <2> QED  BY <2>1, <2>2
  <1> QED  BY <1>1, <1>2, <1>3, <1>4, HandlerGoesOn

LEMMA SaveProcessingIInv ==
  ASSUME PayoutIInv, NEW p \in Procs, SaveProcessing(p)
  PROVE  PayoutIInv'
  <1> DEFINE c == call[p]
  <1>1. /\ c # NoCall /\ c.pc = "approve" /\ CallWallet(p, -Amount, "transfer")
        /\ payout' = [payout EXCEPT ![c.item] = "processing"]
        /\ UNCHANGED <<earnings, rows, earningsRaced, deduction, due, transfer, charged, payoutRaced>>
    BY DEF SaveProcessing, At, SetPayout
  <1>2. PICK i \in Charges \cup {0} : i = c.item /\ On(p, i)
    BY <1>1, OnTheWay
  <1>3. i \in PayoutIds /\ i \notin DeductionIds /\ i \in Charges
    BY <1>1, <1>2, OnTheWay, PayoutConstantsOK DEF StateOK, InWallet, Charges
  <1>4. PayoutsTypeOK' /\ earnings'.balance >= 0 /\ Others(i) /\ payout'[i] = "processing"
    <2>1. payout' \in [PayoutIds -> PayoutStatus] /\ payout'[i] = "processing"
      BY <1>1, <1>2, <1>3 DEF PayoutIInv, WalletOK, PayoutsTypeOK, PayoutStatus
    <2> QED
      BY <1>1, <1>2, <2>1 DEF PayoutIInv, WalletOK, PayoutsTypeOK, Others
  <1>5. WithHandler(p, i) => charged[i] = 0 /\ transfer'[i] = "none"
    BY <1>1, <1>3 DEF WithHandler
  <1> QED  BY <1>1, <1>2, <1>3, <1>4, <1>5, CallWalletIInv

LEMMA ApplyDeductionIInv ==
  ASSUME PayoutIInv, NEW p \in Procs, ApplyDeduction(p)
  PROVE  PayoutIInv'
  <1> DEFINE c == call[p]
  <1>1. c # NoCall /\ c.pc = "apply" /\ CallWallet(p, -Amount, "applied") /\ UNCHANGED payoutVars
    BY DEF ApplyDeduction, At
  <1>2. PICK i \in Charges \cup {0} : i = c.item /\ On(p, i)
    BY <1>1, OnTheWay
  <1>3. i \in DeductionIds /\ i \notin PayoutIds /\ i \in Charges
    BY <1>1, <1>2, OnTheWay, PayoutConstantsOK DEF StateOK, InWallet, Charges
  <1>4. /\ PayoutsTypeOK' /\ earnings'.balance >= 0 /\ Others(i)
        /\ UNCHANGED <<deduction, charged, payoutRaced>>
    BY <1>1 DEF PayoutIInv, WalletOK, PayoutsTypeOK, payoutVars, Others
  <1>5. WithHandler(p, i) => deduction[i] = "pending_response" /\ charged[i] = 0
    BY <1>1, <1>3 DEF WithHandler
  <1> QED  BY <1>1, <1>2, <1>3, <1>4, <1>5, CallWalletIInv

(* What InitiateTransfer needs, and the property asks for.                 *)
LEMMA TransferBacked ==
  ASSUME PayoutIInv, NEW p \in Procs, InitiateTransfer(p)
  PROVE  call[p].item \in PayoutIds /\ charged[call[p].item] >= Amount
  <1>1. PICK i \in Charges \cup {0} : i = call[p].item /\ On(p, i)
    BY OnTheWay DEF InitiateTransfer, At
  <1>2. call[p].pc = "transfer"
    BY DEF InitiateTransfer, At
  <1>3. i \in PayoutIds
    BY <1>1, <1>2, OnTheWay DEF StateOK, InWallet, Charges, On
  <1>4. p \in Holders(i)
    BY <1>1, <1>2 DEF Holders, Holds
  <1> DEFINE n == Cardinality(Holders(i))
  <1>5. n \in Nat /\ n # 0
    BY <1>4, HolderCount, FS_EmptySet
  <1>6. charged[i] >= Amount * n /\ charged[i] \in Int
    BY <1>3 DEF PayoutIInv, Backed, WalletOK, PayoutsTypeOK, Charges
  <1> HIDE DEF n
  <1>7. Amount * n >= Amount /\ Amount * n \in Nat
    BY <1>5, PayoutConstantsOK
  <1>8. charged[i] >= Amount
    BY <1>6, <1>7, PayoutConstantsOK
  <1> QED  BY <1>1, <1>3, <1>8

LEMMA InitiateTransferIInv ==
  ASSUME PayoutIInv, NEW p \in Procs, InitiateTransfer(p)
  PROVE  PayoutIInv'
  <1> DEFINE c == call[p]
  <1>1. /\ c # NoCall /\ c.pc = "transfer"
        /\ UNCHANGED <<earnings, rows, earningsRaced, payout, deduction, due, charged, payoutRaced>>
    BY DEF InitiateTransfer, At
  <1>2. PICK i \in Charges \cup {0} : i = c.item /\ On(p, i)
    BY <1>1, OnTheWay
  <1>3. i \in PayoutIds /\ i \notin DeductionIds
    BY <1>1, <1>2, OnTheWay, PayoutConstantsOK DEF StateOK, InWallet, Charges
  <1> DEFINE Outcome(pc) ==
               /\ GotoState(p, [c EXCEPT !.pc = pc])
               /\ \/ UNCHANGED transfer /\ pc = "failed"
                  \/ \E t \in {"queued", "executed"} : /\ transfer' = [transfer EXCEPT ![i] = t]
                                                       /\ pc = "completed" => t = "executed"
  <1>4. \E pc \in {"completed", "processing", "failed"} : Outcome(pc)
    <2>1. CASE Goto(p, "failed") /\ UNCHANGED transfer
      <3>1. Outcome("failed")
        BY <2>1 DEF Goto
      <3> QED  BY <3>1
    <2>2. ASSUME NEW t \in {"queued", "executed"}, NEW answered \in BOOLEAN,
                 transfer' = [transfer EXCEPT ![i] = t],
                 Goto(p, IF ~answered THEN "failed"
                         ELSE IF t = "executed" THEN "completed" ELSE "processing")
          PROVE  \E pc \in {"completed", "processing", "failed"} : Outcome(pc)
      <3> DEFINE pc == IF ~answered THEN "failed" ELSE IF t = "executed" THEN "completed" ELSE "processing"
      <3>1. pc \in {"completed", "processing", "failed"} /\ (pc = "completed" => t = "executed")
        OBVIOUS
      <3>2. GotoState(p, [c EXCEPT !.pc = pc])
        BY <2>2 DEF Goto
      <3> HIDE DEF pc
      <3>3. Outcome(pc)
        BY <2>2, <3>1, <3>2
      <3> HIDE DEF Outcome
      <3> QED  BY <3>1, <3>3
    <2> HIDE DEF Outcome
    <2> QED  BY <1>2, <2>1, <2>2 DEF InitiateTransfer
  <1>5. PICK pc \in {"completed", "processing", "failed"} : Outcome(pc)
    BY <1>4
  <1> DEFINE x == [c EXCEPT !.pc = pc]
  <1>6. /\ transfer' \in [PayoutIds -> {"none", "queued", "executed"}]
        /\ pc = "completed" => transfer'[i] = "executed"
        /\ pc = "processing" => transfer'[i] # "none"
        /\ \A j \in PayoutIds \ {i} : transfer'[j] = transfer[j]
    BY <1>3, <1>5 DEF PayoutIInv, WalletOK, PayoutsTypeOK
  <1>7. PayoutsTypeOK' /\ earnings'.balance >= 0 /\ Others(i)
    BY <1>1, <1>6 DEF PayoutIInv, WalletOK, PayoutsTypeOK, Others
  <1>8. x \in PayoutCall /\ x.pc = pc /\ x.item = c.item
    <2>1. pc \in {"walletRow", "transfer", "completed", "processing", "failed", "applied"}
      OBVIOUS
    <2>2. c \in PayoutCall
      BY <1>1, OnTheWay
    <2> QED  BY <2>1, <2>2, NextState
  <1>9. GotoState(p, x)
    BY <1>5
  <1> HIDE DEF x
  <1>10. StateOK(x)
    BY <1>2, <1>3, <1>8, PayoutConstantsOK DEF StateOK, Charges
  <1>11. ASSUME call'[p] = x
         PROVE  (Holds(p, i)' => Holds(p, i)) /\ (WithHandler(p, i) => WithHandler(p, i)')
    <2>1. Holds(p, i)' => Holds(p, i)
      BY <1>1, <1>2 DEF Holds
    <2>2. WithHandler(p, i) => WithHandler(p, i)'
      BY <1>1, <1>3, <1>6, <1>8, <1>11 DEF WithHandler, InWallet
    <2> QED  BY <2>1, <2>2
  <1> QED  BY <1>1, <1>2, <1>7, <1>8, <1>9, <1>10, <1>11, HandlerGoesOn

LEMMA SaveOutcomeIInv ==
  ASSUME PayoutIInv, NEW p \in Procs, SaveOutcome(p)
  PROVE  PayoutIInv'
  <1> DEFINE c == call[p]
  <1>1. PICK s \in {"completed", "processing", "failed"} : At(p, s) /\ SetPayout(c.item, s)
    BY DEF SaveOutcome
  <1>2. /\ c # NoCall /\ c.pc = s /\ payout' = [payout EXCEPT ![c.item] = s]
        /\ IF s = "failed" THEN CallWallet(p, Amount, "end") ELSE End(p)
        /\ UNCHANGED <<earnings, rows, earningsRaced, deduction, due, transfer, charged, payoutRaced>>
    BY <1>1 DEF SaveOutcome, At, SetPayout
  <1>3. PICK i \in Charges \cup {0} : i = c.item /\ On(p, i)
    BY <1>2, OnTheWay
  <1>4. i \in PayoutIds /\ i \notin DeductionIds /\ i \in Charges
    BY <1>2, <1>3, OnTheWay, PayoutConstantsOK DEF StateOK, InWallet, Charges
  <1>5. PayoutsTypeOK' /\ earnings'.balance >= 0 /\ Others(i) /\ payout'[i] = s
    <2>1. payout' \in [PayoutIds -> PayoutStatus] /\ payout'[i] = s
      BY <1>2, <1>3, <1>4 DEF PayoutIInv, WalletOK, PayoutsTypeOK, PayoutStatus
    <2> QED
      BY <1>2, <1>3, <2>1 DEF PayoutIInv, WalletOK, PayoutsTypeOK, Others
  <1>6. WithHandler(p, i) => /\ charged[i] = Amount
                             /\ s = "completed" => transfer[i] = "executed"
                             /\ s = "processing" => transfer[i] # "none"
    BY <1>2, <1>4 DEF WithHandler
  <1>7. CASE s = "failed"
    <2>1. Holds(p, i)
      BY <1>2, <1>3, <1>7 DEF Holds
    <2> QED  BY <1>2, <1>3, <1>4, <1>5, <1>6, <1>7, <2>1, CallWalletIInv
  <1>8. CASE s # "failed"
    <2>1. WithHandler(p, i) => Rest(i)'
      BY <1>2, <1>4, <1>5, <1>6, <1>8 DEF Rest
    <2> QED  BY <1>2, <1>3, <1>5, <1>8, <2>1, HandlerEnds
  <1> QED  BY <1>7, <1>8

LEMMA SaveDeductionIInv ==
  ASSUME PayoutIInv, NEW p \in Procs, SaveDeduction(p)
  PROVE  PayoutIInv'
  <1> DEFINE c == call[p]
  <1>1. PICK pc \in {"respond", "cancel", "applied"} :
          At(p, pc) /\ SetDeduction(c.item, [respond |-> "pending_response", cancel |-> "cancelled",
                                             applied |-> "applied"][pc])
    BY DEF SaveDeduction
  <1>2. PICK s \in {"pending_response", "cancelled", "applied"} :
          deduction' = [deduction EXCEPT ![c.item] = s] /\ (s = "applied" <=> pc = "applied")
    <2>1. CASE pc = "respond"
      BY <1>1, <2>1 DEF SetDeduction
    <2>2. CASE pc = "cancel"
      BY <1>1, <2>2 DEF SetDeduction
    <2>3. CASE pc = "applied"
      BY <1>1, <2>3 DEF SetDeduction
    <2> QED  BY <2>1, <2>2, <2>3
  <1>3. /\ c # NoCall /\ c.pc = pc /\ End(p)
        /\ UNCHANGED <<earnings, rows, earningsRaced, payout, due, transfer, charged, payoutRaced>>
    BY <1>1 DEF SaveDeduction, At
  <1>4. PICK i \in Charges \cup {0} : i = c.item /\ On(p, i)
    BY <1>3, OnTheWay
  <1>5. i \in DeductionIds /\ i \notin PayoutIds
    BY <1>3, <1>4, OnTheWay, PayoutConstantsOK DEF StateOK, InWallet, Charges
  <1>6. PayoutsTypeOK' /\ earnings'.balance >= 0 /\ Others(i) /\ deduction'[i] = s
    <2>1. deduction' \in [DeductionIds -> DeductionStatus] /\ deduction'[i] = s
      BY <1>2, <1>4, <1>5 DEF PayoutIInv, WalletOK, PayoutsTypeOK, DeductionStatus
    <2> QED
      BY <1>2, <1>3, <1>4, <2>1 DEF PayoutIInv, WalletOK, PayoutsTypeOK, Others
  <1>7. WithHandler(p, i) => Rest(i)'
    BY <1>2, <1>3, <1>5, <1>6 DEF WithHandler, Rest
  <1> QED  BY <1>3, <1>4, <1>6, <1>7, HandlerEnds

-----------------------------------------------------------------------------
(* Requests that start, rows that change by themselves, and deaths.        *)

LEMMA EnterIInv ==
  ASSUME PayoutIInv, NEW p \in Procs, NEW i \in Charges,
         NEW pc \in {"approve", "hold", "release", "respond", "cancel", "apply"}, Enter(p, i, pc),
         \/ i \in PayoutIds /\ pc \in {"approve", "hold"} /\ payout[i] = "pending"
         \/ i \in PayoutIds /\ pc = "release" /\ payout[i] = "held"
         \/ i \in DeductionIds /\ pc \in {"respond", "cancel", "apply"} /\ deduction[i] = "pending_response",
         UNCHANGED <<earnings, rows, earningsRaced, payout, deduction, due, transfer, charged>>
  PROVE  PayoutIInv'
  <1> DEFINE x == [pc |-> pc, item |-> i, copy |-> earnings, amount |-> 0, then |-> "end"]
  <1>1. /\ call[p] = NoCall /\ call' = [call EXCEPT ![p] = x] /\ deaths' = deaths
        /\ payoutRaced' = IF Working(i) THEN payoutRaced \cup {i} ELSE payoutRaced
    BY DEF Enter, Begin
  <1>2. x \in PayoutCall /\ x.item = i /\ x.pc = pc
    BY DEF PayoutCall, PayoutIInv, WalletOK, PayoutsTypeOK
  <1> HIDE DEF x
  <1>3. StateOK(x)
    BY <1>2, PayoutConstantsOK DEF StateOK, InWallet, Charges
  <1>4. PayoutsTypeOK' /\ earnings'.balance >= 0 /\ deaths' \in Nat
    BY <1>1 DEF PayoutIInv, WalletOK, PayoutsTypeOK
  <1>5. /\ call'[p] = x /\ x # NoCall /\ WalletOK'
        /\ \A q \in Procs \ {p} : call'[q] = call[q]
    BY <1>1, <1>2, <1>3, <1>4, WalletOKMoves, SlotTakes, PayoutConstantsOK DEF PayoutIInv, WalletOK
  <1>6. \A j \in PayoutIds : ~Holds(p, j)'
    BY <1>2, <1>5 DEF Holds, InWallet
  <1>7. Backed'
    BY <1>5, <1>6, BackedAside DEF PayoutIInv, WalletOK, PayoutsTypeOK, Charges
  <1>8. Books'
    <2> SUFFICES ASSUME deaths = 0, NEW j \in Charges, j \notin payoutRaced'
                 PROVE  /\ Alone(j)'
                        /\ (\A q \in Procs : ~On(q, j)') => Rest(j)'
                        /\ \A q \in Procs : On(q, j)' => WithHandler(q, j)'
      BY <1>1 DEF Books
    <2>1. /\ Alone(j)
          /\ (\A q \in Procs : ~On(q, j)) => Rest(j)
          /\ \A q \in Procs : On(q, j) => WithHandler(q, j)
      BY <1>1 DEF PayoutIInv, Books
    <2>2. /\ Rest(j) => Rest(j)'
          /\ \A q \in Procs \ {p} : /\ On(q, j)' <=> On(q, j)
                                    /\ WithHandler(q, j) => WithHandler(q, j)'
      BY <1>5 DEF Rest, On, WithHandler
    <2>3. CASE j = i
      <3>1. ~Working(i)
        BY <1>1, <2>3
      <3>2. \A q \in Procs : ~On(q, j)
        BY <2>3, <3>1, PayoutCalls DEF PayoutIInv
      <3>3. Rest(j)
        BY <2>1, <3>2
      <3>4. On(p, j)'
        BY <1>2, <1>5, <2>3 DEF On
      <3>5. WithHandler(p, j)'
        BY <1>2, <1>5, <2>3, <3>3, PayoutConstantsOK DEF WithHandler, Rest, InWallet
      <3>6. Alone(j)'
        BY <2>2, <3>2 DEF Alone
      <3> QED  BY <2>2, <3>2, <3>4, <3>5, <3>6
    <2>4. CASE j # i
      <3>1. ~On(p, j)' /\ ~On(p, j)
        BY <1>1, <1>2, <1>5, <2>4 DEF On
      <3>2. Alone(j)'
        BY <2>1, <2>2, <3>1 DEF Alone
      <3> QED  BY <2>1, <2>2, <3>1, <3>2
    <2> QED  BY <2>3, <2>4
  <1> QED  BY <1>5, <1>7, <1>8 DEF PayoutIInv

LEMMA OrderCompletedIInv ==
  ASSUME PayoutIInv, NEW p \in Procs, OrderCompleted(p)
  PROVE  PayoutIInv'
  <1> DEFINE x == [pc |-> "walletRead", item |-> 0, copy |-> earnings, amount |-> Earning,
                   then |-> "end"]
  <1>1. /\ call[p] = NoCall /\ call' = [call EXCEPT ![p] = x] /\ deaths' = deaths
        /\ UNCHANGED payoutVars
    BY DEF OrderCompleted, Begin
  <1>2. x \in PayoutCall /\ x.item = 0 /\ x.pc = "walletRead" /\ StateOK(x)
    <2>1. x \in PayoutCall
      BY PayoutConstantsOK DEF PayoutCall, PayoutIInv, WalletOK, PayoutsTypeOK
    <2>2. StateOK(x)
      BY PayoutConstantsOK DEF StateOK, InWallet, Charges
    <2> QED  BY <2>1, <2>2
  <1> HIDE DEF x
  <1>3. PayoutsTypeOK' /\ earnings'.balance >= 0 /\ deaths' \in Nat
    BY <1>1 DEF PayoutIInv, WalletOK, PayoutsTypeOK, payoutVars
  <1>4. /\ call'[p] = x /\ x # NoCall /\ WalletOK'
        /\ \A q \in Procs \ {p} : call'[q] = call[q]
    BY <1>1, <1>2, <1>3, WalletOKMoves, SlotTakes, PayoutConstantsOK DEF PayoutIInv, WalletOK
  <1>5. \A j \in Charges : ~On(p, j)' /\ ~On(p, j)
    BY <1>1, <1>2, <1>4, PayoutConstantsOK DEF On
  <1>6. Backed'
    BY <1>1, <1>4, <1>5, BackedAside
    DEF PayoutIInv, WalletOK, PayoutsTypeOK, Charges, payoutVars, Holds
  <1>7. Books'
    <2> SUFFICES ASSUME deaths = 0, NEW j \in Charges, j \notin payoutRaced
                 PROVE  /\ Alone(j)'
                        /\ (\A q \in Procs : ~On(q, j)') => Rest(j)'
                        /\ \A q \in Procs : On(q, j)' => WithHandler(q, j)'
      BY <1>1 DEF Books, payoutVars
    <2>1. /\ Alone(j)
          /\ (\A q \in Procs : ~On(q, j)) => Rest(j)
          /\ \A q \in Procs : On(q, j) => WithHandler(q, j)
      BY DEF PayoutIInv, Books
    <2>2. /\ Rest(j) => Rest(j)'
          /\ \A q \in Procs \ {p} : /\ On(q, j)' <=> On(q, j)
                                    /\ WithHandler(q, j) => WithHandler(q, j)'
      BY <1>1, <1>4 DEF Rest, On, WithHandler, payoutVars
    <2>3. Alone(j)'
      BY <1>5, <2>1, <2>2 DEF Alone
    <2> QED  BY <1>5, <2>1, <2>2, <2>3
  <1> QED  BY <1>4, <1>6, <1>7 DEF PayoutIInv

(* No handler moves; the rows change in a way its copy allows.             *)
LEMMA RowsChange ==
  ASSUME PayoutIInv, UNCHANGED <<call, deaths, charged, payoutRaced, earnings>>, PayoutsTypeOK',
         \A i \in Charges : Rest(i) => Rest(i)',
         \A p \in Procs, i \in Charges : On(p, i) /\ WithHandler(p, i) => WithHandler(p, i)'
  PROVE  PayoutIInv'
  <1>1. WalletOK'
    BY DEF PayoutIInv, WalletOK
  <1>2. \A p \in Procs : \A i : (On(p, i)' <=> On(p, i)) /\ (Holds(p, i)' <=> Holds(p, i))
    BY DEF On, Holds
  <1>3. \A i : Holders(i)' = Holders(i)
    BY <1>2 DEF Holders
  <1>4. Backed'
    BY <1>3 DEF PayoutIInv, Backed
  <1>5. Books'
    BY <1>2 DEF PayoutIInv, Books, Alone
  <1> QED  BY <1>1, <1>4, <1>5 DEF PayoutIInv

LEMMA RowsIInv ==
  ASSUME PayoutIInv,
         \/ \E i \in PayoutIds : RequestPayout(i) \/ TransferExecutes(i)
         \/ \E i \in DeductionIds : CreateDeductionNotice(i)
         \/ \E i \in Charges : Lapse(i)
  PROVE  PayoutIInv'
  <1>1. ASSUME NEW i \in PayoutIds, RequestPayout(i)
        PROVE  PayoutIInv'
    <2>1. /\ UNCHANGED <<call, deaths, earnings, rows, earningsRaced, deduction, due, transfer, charged,
                         payoutRaced>>
          /\ payout[i] = "none" /\ payout' = [payout EXCEPT ![i] = "pending"]
      BY <1>1 DEF RequestPayout, OneStep, SetPayout
    <2>2. PayoutsTypeOK'
      BY <2>1 DEF PayoutIInv, WalletOK, PayoutsTypeOK, PayoutStatus
    <2>3. payout'[i] = "pending" /\ \A j \in PayoutIds \ {i} : payout'[j] = payout[j]
      BY <2>1 DEF PayoutIInv, WalletOK, PayoutsTypeOK
    <2>4. \A j \in Charges : Rest(j) => Rest(j)'
      BY <2>1, <2>3 DEF Rest
    <2>5. ASSUME NEW p \in Procs, NEW j \in Charges, On(p, j), WithHandler(p, j)
          PROVE  WithHandler(p, j)'
      <3>1. j # i
        BY <2>1, <2>5, OnTheWay DEF On, WithHandler, StateOK, InWallet
      <3> QED  BY <2>1, <2>3, <2>5, <3>1 DEF WithHandler
    <2> QED  BY <2>1, <2>2, <2>4, <2>5, RowsChange
  <1>2. ASSUME NEW i \in PayoutIds, TransferExecutes(i)
        PROVE  PayoutIInv'
    <2>1. /\ UNCHANGED <<call, deaths, earnings, rows, earningsRaced, payout, deduction, due, charged,
                         payoutRaced>>
          /\ transfer' = [transfer EXCEPT ![i] = "executed"]
      BY <1>2 DEF TransferExecutes, requestVars
    <2>2. PayoutsTypeOK'
      BY <2>1 DEF PayoutIInv, WalletOK, PayoutsTypeOK
    <2>3. \A j \in PayoutIds : /\ transfer[j] = "executed" => transfer'[j] = "executed"
                              /\ transfer[j] = "none" <=> transfer'[j] = "none"
      BY <1>2 DEF TransferExecutes, PayoutIInv, WalletOK, PayoutsTypeOK
    <2>4. \A j \in Charges : Rest(j) => Rest(j)'
      BY <2>1, <2>3, PayoutConstantsOK DEF Rest, Charges
    <2>5. \A p \in Procs, j \in Charges : On(p, j) /\ WithHandler(p, j) => WithHandler(p, j)'
      BY <2>1, <2>3 DEF WithHandler
    <2> QED  BY <2>1, <2>2, <2>4, <2>5, RowsChange
  <1>3. ASSUME NEW i \in DeductionIds, CreateDeductionNotice(i)
        PROVE  PayoutIInv'
    <2>1. /\ UNCHANGED <<call, deaths, earnings, rows, earningsRaced, payout, due, transfer, charged,
                         payoutRaced>>
          /\ deduction[i] = "none" /\ deduction' = [deduction EXCEPT ![i] = "pending_response"]
      BY <1>3 DEF CreateDeductionNotice, OneStep, SetDeduction
    <2>2. PayoutsTypeOK'
      BY <2>1 DEF PayoutIInv, WalletOK, PayoutsTypeOK, DeductionStatus
    <2>3. /\ deduction'[i] = "pending_response"
          /\ \A j \in DeductionIds \ {i} : deduction'[j] = deduction[j]
      BY <2>1 DEF PayoutIInv, WalletOK, PayoutsTypeOK
    <2>4. \A j \in Charges : Rest(j) => Rest(j)'
      BY <2>1, <2>3 DEF Rest
    <2>5. \A p \in Procs, j \in Charges : On(p, j) /\ WithHandler(p, j) => WithHandler(p, j)'
      BY <2>1, <2>3 DEF WithHandler
    <2> QED  BY <2>1, <2>2, <2>4, <2>5, RowsChange
  <1>4. ASSUME NEW i \in Charges, Lapse(i)
        PROVE  PayoutIInv'
    <2>1. /\ UNCHANGED <<call, deaths, earnings, rows, earningsRaced, payout, deduction, transfer, charged,
                         payoutRaced>>
          /\ due' = due \cup {i}
      BY <1>4 DEF Lapse, requestVars
    <2>2. PayoutsTypeOK'
      BY <2>1 DEF PayoutIInv, WalletOK, PayoutsTypeOK
    <2>3. \A j \in Charges : Rest(j) => Rest(j)'
      BY <2>1 DEF Rest
    <2>4. \A p \in Procs, j \in Charges : On(p, j) /\ WithHandler(p, j) => WithHandler(p, j)'
      BY <2>1 DEF WithHandler
    <2> QED  BY <2>1, <2>2, <2>3, <2>4, RowsChange
  <1> QED  BY <1>1, <1>2, <1>3, <1>4

LEMMA PayoutDiesIInv ==
  ASSUME PayoutIInv, NEW p \in Procs, PayoutDies(p)
  PROVE  PayoutIInv'
  <1>1. /\ call' = [call EXCEPT ![p] = NoCall] /\ deaths' = deaths + 1 /\ UNCHANGED payoutVars
    BY DEF PayoutDies, Dies
  <1>2. PayoutsTypeOK' /\ earnings'.balance >= 0 /\ deaths' \in Nat /\ deaths' # 0
    BY <1>1 DEF PayoutIInv, WalletOK, PayoutsTypeOK, payoutVars
  <1>3. call'[p] = NoCall /\ WalletOK' /\ \A q \in Procs \ {p} : call'[q] = call[q]
    BY <1>1, <1>2, WalletOKMoves, SlotFreed DEF PayoutIInv, WalletOK
  <1>4. Backed'
    BY <1>1, <1>3, BackedAside
    DEF PayoutIInv, WalletOK, PayoutsTypeOK, Charges, payoutVars, Holds, On
  <1>5. Books'
    BY <1>2 DEF Books
  <1> QED  BY <1>3, <1>4, <1>5 DEF PayoutIInv

LEMMA PayoutRequestIInv ==
  ASSUME PayoutIInv, NEW p \in Procs, PayoutRequest(p)
  PROVE  PayoutIInv'
  <1>1. ASSUME NEW i \in PayoutIds, ApprovePayout(p, i) \/ HoldPayout(p, i) \/ ReleasePayout(p, i)
        PROVE  PayoutIInv'
    BY <1>1, EnterIInv DEF ApprovePayout, HoldPayout, ReleasePayout, Charges
  <1>2. ASSUME NEW i \in DeductionIds, NEW pc \in {"respond", "cancel", "apply"}, OpenDeduction(p, i, pc)
        PROVE  PayoutIInv'
    BY <1>2, EnterIInv DEF OpenDeduction, Charges
  <1> QED  BY <1>1, <1>2, OrderCompletedIInv DEF PayoutRequest, CronTakes

LEMMA PayoutStepIInv ==
  ASSUME PayoutIInv, NEW p \in Procs, PayoutStep(p)
  PROVE  PayoutIInv'
  BY WalletReadIInv, WalletSaveIInv, WalletRowIInv, SaveHoldIInv, SaveProcessingIInv,
     InitiateTransferIInv, SaveOutcomeIInv, SaveDeductionIInv, ApplyDeductionIInv
  DEF PayoutStep

LEMMA PayoutNextIInv == PayoutIInv /\ [PayoutsNext]_<<payoutVars, requestVars>> => PayoutIInv'
  <1> SUFFICES ASSUME PayoutIInv, [PayoutsNext]_<<payoutVars, requestVars>>
               PROVE  PayoutIInv'
    OBVIOUS
  <1>1. CASE PayoutsNext
    BY <1>1, PayoutRequestIInv, PayoutStepIInv, PayoutDiesIInv, RowsIInv DEF PayoutsNext
  <1>2. CASE UNCHANGED <<payoutVars, requestVars>>
    <2>1. UNCHANGED <<earnings, rows, earningsRaced, payout, deduction, due, transfer, charged,
                      payoutRaced, call, deaths>>
      BY <1>2 DEF payoutVars, requestVars
    <2>2. PayoutsTypeOK'
      BY <2>1 DEF PayoutIInv, WalletOK, PayoutsTypeOK
    <2>3. \A j \in Charges : Rest(j) => Rest(j)'
      BY <2>1 DEF Rest
    <2>4. \A p \in Procs, j \in Charges : On(p, j) /\ WithHandler(p, j) => WithHandler(p, j)'
      BY <2>1 DEF WithHandler
    <2> QED  BY <2>1, <2>2, <2>3, <2>4, RowsChange
  <1> QED  BY <1>1, <1>2

LEMMA PayoutInductive == PayoutsSpec => []PayoutIInv
  BY PayoutInitIInv, PayoutNextIInv, PTL DEF PayoutsSpec

(* Only initiateTransfer sends money.                                      *)
LEMMA OnlyTransferSends ==
  ASSUME PayoutIInv, [PayoutsNext]_<<payoutVars, requestVars>>, NEW i \in PayoutIds,
         transfer[i] = "none", transfer'[i] # "none"
  PROVE  charged[i] >= Amount
  <1>1. transfer' # transfer
    OBVIOUS
  <1>2. ASSUME NEW p \in Procs, PayoutStep(p)
        PROVE  InitiateTransfer(p)
    BY <1>1, <1>2
    DEF PayoutStep, WalletRead, WalletSave, WalletRow, SaveHold, SaveProcessing, SaveOutcome,
        SaveDeduction, ApplyDeduction, payoutVars
  <1>3. ASSUME NEW p \in Procs, PayoutRequest(p) \/ PayoutDies(p)
        PROVE  FALSE
    BY <1>1, <1>3
    DEF PayoutRequest, PayoutDies, OrderCompleted, ApprovePayout, HoldPayout, ReleasePayout,
        OpenDeduction, CronTakes, payoutVars
  <1>4. ASSUME NEW j \in PayoutIds, TransferExecutes(j)
        PROVE  FALSE
    <2>1. transfer[j] = "queued" /\ transfer' = [transfer EXCEPT ![j] = "executed"]
      BY <1>4 DEF TransferExecutes
    <2> QED  BY <2>1 DEF PayoutIInv, WalletOK, PayoutsTypeOK
  <1>5. PICK p \in Procs : InitiateTransfer(p)
    BY <1>1, <1>2, <1>3, <1>4
    DEF PayoutsNext, RequestPayout, CreateDeductionNotice, Lapse, payoutVars
  <1>6. call[p].item \in PayoutIds /\ charged[call[p].item] >= Amount
    BY <1>5, TransferBacked
  <1>7. call[p].item = i
    BY <1>1, <1>5, <1>6 DEF InitiateTransfer, PayoutIInv, WalletOK, PayoutsTypeOK
  <1> QED  BY <1>6, <1>7

(* Money is sent to a vendor's bank only after a debit that stands for it, *)
(* however many approvals, releases, failures and deaths overlap.          *)
THEOREM TransfersAreBacked == PayoutsSpec => TransferIsBacked
  <1>1. ASSUME PayoutIInv, [PayoutsNext]_<<payoutVars, requestVars>>
        PROVE  [\A i \in PayoutIds : transfer[i] = "none" /\ transfer'[i] # "none"
                                       => charged[i] >= Amount]_payoutVars
    BY <1>1, OnlyTransferSends
  <1> QED  BY <1>1, PayoutInductive, PTL DEF PayoutsSpec, TransferIsBacked

(* With no death, a payout one handler at a time worked on is charged once *)
(* when it was sent, unless it failed, and not at all when it was not; and *)
(* a deduction is charged when it is applied.                              *)
THEOREM ChargesMatch == PayoutsSpec => []ChargedForWhatHappened
  <1>1. ASSUME PayoutIInv
        PROVE  ChargedForWhatHappened
    <2>1. \A i \in Charges : ~Working(i) => \A p \in Procs : ~On(p, i)
      BY <1>1, PayoutCalls DEF PayoutIInv
    <2> QED  BY <1>1, <2>1 DEF PayoutIInv, Books, Rest, ChargedForWhatHappened, Charges
  <1> QED  BY <1>1, PayoutInductive, PTL

(* The rows on their way: one more, one less, or the same.                 *)
LEMMA CountMoves ==
  ASSUME NEW S, IsFiniteSet(S), NEW p, NEW T
  PROVE  /\ Cardinality(S) \in Nat
         /\ T = S \cup {p} /\ p \notin S => Cardinality(T) = Cardinality(S) + 1
         /\ T = S \ {p} /\ p \in S => Cardinality(T) = Cardinality(S) - 1
  BY FS_CardinalityType, FS_AddElement, FS_RemoveElement

LEMMA RowCounts ==
  /\ IsFiniteSet(EarningRows) /\ IsFiniteSet(DebitRows) /\ IsFiniteSet(CreditRows)
  /\ Cardinality(EarningRows) \in Nat /\ Cardinality(DebitRows) \in Nat
  /\ Cardinality(CreditRows) \in Nat
  <1>1. IsFiniteSet(EarningRows) /\ IsFiniteSet(DebitRows) /\ IsFiniteSet(CreditRows)
    BY PayoutConstantsOK, FS_Subset DEF EarningRows, DebitRows, CreditRows, InFlight
  <1> QED  BY <1>1, FS_CardinalityType

LEMMA RowKind ==
  ASSUME NEW x \in PayoutCall, StateOK(x), x.pc = "walletRow"
  PROVE  /\ x.item = 0 => x.amount = Earning
         /\ x.amount < 0 => x.amount = -Amount
         /\ x.item # 0 /\ ~(x.amount < 0) => x.amount = Amount
         /\ x.amount \in Int /\ ~(x.item = 0 /\ x.amount < 0)
  BY PayoutConstantsOK DEF StateOK, InWallet, Charges, PayoutCall

LEMMA Sums ==
  ASSUME NEW e \in Nat, NEW c \in Nat, NEW d \in Nat
  PROVE  /\ Earning * (e + 1) + Amount * (c - d) = Earning * e + Amount * (c - d) + Earning
         /\ Earning * e + Amount * ((c + 1) - d) = Earning * e + Amount * (c - d) + Amount
         /\ Earning * e + Amount * (c - (d + 1)) = Earning * e + Amount * (c - d) - Amount
         /\ Earning * e + Amount * (c - d) \in Int
  BY PayoutConstantsOK

LEMMA RowComes ==
  ASSUME WalletOK', NEW p \in Procs, \A q \in Procs \ {p} : call'[q] = call[q],
         ~At(p, "walletRow"), At(p, "walletRow")'
  PROVE  Unwritten' = Unwritten + call'[p].amount
  <1>1. /\ InFlight("walletRow")' = InFlight("walletRow") \cup {p} /\ p \notin InFlight("walletRow")
        /\ \A q \in InFlight("walletRow") : call'[q] = call[q]
    BY DEF InFlight, At
  <1>2. /\ call'[p].item = 0 => call'[p].amount = Earning
        /\ call'[p].amount < 0 => call'[p].amount = -Amount
        /\ call'[p].item # 0 /\ ~(call'[p].amount < 0) => call'[p].amount = Amount
        /\ ~(call'[p].item = 0 /\ call'[p].amount < 0)
    BY RowKind DEF WalletOK, At
  <1>3. EarningRows' = EarningRows \cup (IF call'[p].item = 0 THEN {p} ELSE {})
    BY <1>1 DEF EarningRows
  <1>4. DebitRows' = DebitRows \cup (IF call'[p].amount < 0 THEN {p} ELSE {})
    BY <1>1 DEF DebitRows
  <1>5. p \notin EarningRows /\ p \notin DebitRows /\ p \notin CreditRows
    BY <1>1 DEF EarningRows, DebitRows, CreditRows
  <1>6. CreditRows' = CreditRows \cup
                        (IF call'[p].item = 0 \/ call'[p].amount < 0 THEN {} ELSE {p})
    BY <1>1, <1>3, <1>4, <1>5 DEF CreditRows
  <1>7. CASE call'[p].item = 0
    <2>1. /\ EarningRows' = EarningRows \cup {p} /\ DebitRows' = DebitRows /\ CreditRows' = CreditRows
      BY <1>2, <1>3, <1>4, <1>6, <1>7
    <2>2. Cardinality(EarningRows') = Cardinality(EarningRows) + 1
      BY <1>5, <2>1, RowCounts, CountMoves
    <2>3. Unwritten' = Earning * (Cardinality(EarningRows) + 1)
                         + Amount * (Cardinality(CreditRows) - Cardinality(DebitRows))
      BY <2>1, <2>2 DEF Unwritten
    <2> QED  BY <1>2, <1>7, <2>3, RowCounts, Sums DEF Unwritten
  <1>8. CASE call'[p].item # 0 /\ call'[p].amount < 0
    <2>1. /\ EarningRows' = EarningRows /\ DebitRows' = DebitRows \cup {p} /\ CreditRows' = CreditRows
      BY <1>2, <1>3, <1>4, <1>6, <1>8
    <2>2. Cardinality(DebitRows') = Cardinality(DebitRows) + 1
      BY <1>5, <2>1, RowCounts, CountMoves
    <2>3. Unwritten' = Earning * Cardinality(EarningRows)
                         + Amount * (Cardinality(CreditRows) - (Cardinality(DebitRows) + 1))
      BY <2>1, <2>2 DEF Unwritten
    <2> QED  BY <1>2, <1>8, <2>3, RowCounts, Sums, PayoutConstantsOK DEF Unwritten
  <1>9. CASE call'[p].item # 0 /\ ~(call'[p].amount < 0)
    <2>1. /\ EarningRows' = EarningRows /\ DebitRows' = DebitRows /\ CreditRows' = CreditRows \cup {p}
      BY <1>2, <1>3, <1>4, <1>6, <1>9
    <2>2. Cardinality(CreditRows') = Cardinality(CreditRows) + 1
      BY <1>5, <2>1, RowCounts, CountMoves
    <2>3. Unwritten' = Earning * Cardinality(EarningRows)
                         + Amount * ((Cardinality(CreditRows) + 1) - Cardinality(DebitRows))
      BY <2>1, <2>2 DEF Unwritten
    <2> QED  BY <1>2, <1>9, <2>3, RowCounts, Sums DEF Unwritten
  <1> QED  BY <1>7, <1>8, <1>9

LEMMA RowGoes ==
  ASSUME WalletOK, NEW p \in Procs, \A q \in Procs \ {p} : call'[q] = call[q],
         At(p, "walletRow"), ~At(p, "walletRow")'
  PROVE  Unwritten' = Unwritten - call[p].amount
  <1>1. /\ InFlight("walletRow")' = InFlight("walletRow") \ {p} /\ p \in InFlight("walletRow")
        /\ \A q \in InFlight("walletRow") \ {p} : call'[q] = call[q]
    BY DEF InFlight, At
  <1>2. /\ call[p].item = 0 => call[p].amount = Earning
        /\ call[p].amount < 0 => call[p].amount = -Amount
        /\ call[p].item # 0 /\ ~(call[p].amount < 0) => call[p].amount = Amount
        /\ ~(call[p].item = 0 /\ call[p].amount < 0)
    BY RowKind, PayoutCalls DEF At
  <1>3. EarningRows' = EarningRows \ {p} /\ (p \in EarningRows <=> call[p].item = 0)
    BY <1>1 DEF EarningRows
  <1>4. DebitRows' = DebitRows \ {p} /\ (p \in DebitRows <=> call[p].amount < 0)
    BY <1>1 DEF DebitRows
  <1>5. /\ CreditRows' = CreditRows \ {p}
        /\ p \in CreditRows <=> ~(call[p].item = 0 \/ call[p].amount < 0)
    BY <1>1, <1>3, <1>4 DEF CreditRows
  <1> DEFINE e == Cardinality(EarningRows')
             c == Cardinality(CreditRows')
             d == Cardinality(DebitRows')
  <1>6. e \in Nat /\ c \in Nat /\ d \in Nat
    BY RowCounts, <1>3, <1>4, <1>5, FS_RemoveElement, FS_CardinalityType
  <1>7. CASE call[p].item = 0
    <2>1. DebitRows' = DebitRows /\ CreditRows' = CreditRows /\ p \in EarningRows
      BY <1>2, <1>3, <1>4, <1>5, <1>7
    <2>2. Cardinality(EarningRows) = e + 1
      BY <1>3, <1>6, <2>1, RowCounts, CountMoves
    <2> HIDE DEF e
    <2>3. Unwritten = Earning * (e + 1) + Amount * (c - d) /\ Unwritten' = Earning * e + Amount * (c - d)
      BY <2>1, <2>2 DEF Unwritten, e
    <2> HIDE DEF c, d
    <2> QED  BY <1>2, <1>6, <1>7, <2>3, Sums, PayoutConstantsOK
  <1>8. CASE call[p].item # 0 /\ call[p].amount < 0
    <2>1. EarningRows' = EarningRows /\ CreditRows' = CreditRows /\ p \in DebitRows
      BY <1>2, <1>3, <1>4, <1>5, <1>8
    <2>2. Cardinality(DebitRows) = d + 1
      BY <1>4, <1>6, <2>1, RowCounts, CountMoves
    <2> HIDE DEF d
    <2>3. Unwritten = Earning * e + Amount * (c - (d + 1)) /\ Unwritten' = Earning * e + Amount * (c - d)
      BY <2>1, <2>2 DEF Unwritten, d
    <2> HIDE DEF c, e
    <2> QED  BY <1>2, <1>6, <1>8, <2>3, Sums, PayoutConstantsOK
  <1>9. CASE call[p].item # 0 /\ ~(call[p].amount < 0)
    <2>1. EarningRows' = EarningRows /\ DebitRows' = DebitRows /\ p \in CreditRows
      BY <1>2, <1>3, <1>4, <1>5, <1>9
    <2>2. Cardinality(CreditRows) = c + 1
      BY <1>5, <1>6, <2>1, RowCounts, CountMoves
    <2> HIDE DEF c
    <2>3. Unwritten = Earning * e + Amount * ((c + 1) - d) /\ Unwritten' = Earning * e + Amount * (c - d)
      BY <2>1, <2>2 DEF Unwritten, c
    <2> HIDE DEF d, e
    <2> QED  BY <1>2, <1>6, <1>9, <2>3, Sums, PayoutConstantsOK
  <1> QED  BY <1>7, <1>8, <1>9

LEMMA NoRowMoves ==
  ASSUME NEW p \in Procs, \A q \in Procs \ {p} : call'[q] = call[q],
         ~At(p, "walletRow"), ~At(p, "walletRow")'
  PROVE  Unwritten' = Unwritten
  <1>1. /\ InFlight("walletRow")' = InFlight("walletRow")
        /\ \A q \in InFlight("walletRow") : call'[q] = call[q]
    BY DEF InFlight, At
  <1> QED  BY <1>1 DEF Unwritten, EarningRows, DebitRows, CreditRows

(* What a handler does to the wallet and to the rows.                      *)
Agrees == ~earningsRaced /\ deaths = 0 => earnings.balance = rows + Unwritten

LEMMA AgreesWithLedger ==
  ASSUME PayoutIInv, PayoutIInv', Agrees, [PayoutsNext]_<<payoutVars, requestVars>>
  PROVE  Agrees'
  <1> DEFINE Aside == UNCHANGED <<earnings, rows, earningsRaced>> /\ deaths' >= deaths
  <1>0. Unwritten \in Int /\ rows \in Int /\ earnings.balance \in Int /\ deaths \in Nat
    BY RowCounts, Sums DEF PayoutIInv, WalletOK, PayoutsTypeOK, EarningsWallet, Unwritten
  <1>1. ASSUME NEW p \in Procs, NEW x, call' = [call EXCEPT ![p] = x], Aside,
               ~At(p, "walletRow"), x = NoCall \/ x.pc # "walletRow"
        PROVE  Agrees'
    <2>1. call'[p] = x /\ \A q \in Procs \ {p} : call'[q] = call[q]
      BY <1>1 DEF PayoutIInv, WalletOK
    <2>2. Unwritten' = Unwritten
      BY <1>1, <2>1, NoRowMoves DEF At
    <2> QED  BY <1>0, <1>1, <2>2 DEF Agrees
  <1>2. ASSUME NEW p \in Procs, WalletSave(p)
        PROVE  Agrees'
    <2> PICK c : c = call[p]
      OBVIOUS
    <2>1. c # NoCall /\ c.pc = "walletSave" /\ c \in PayoutCall /\ c.amount \in Int
      BY <1>2, OnTheWay DEF WalletSave, At
    <2> DEFINE x == [c EXCEPT !.pc = "walletRow"]
    <2>2. /\ call' = [call EXCEPT ![p] = x] /\ earnings'.balance = c.copy.balance + c.amount
          /\ ~earningsRaced' => ~earningsRaced /\ earnings = c.copy
          /\ UNCHANGED <<rows, deaths>>
      BY <1>2 DEF WalletSave, Goto, GotoState
    <2>3. x.pc = "walletRow" /\ x.amount = c.amount /\ x \in PayoutCall
      BY <2>1, NextState
    <2> HIDE DEF x
    <2>4. call'[p] = x /\ x # NoCall /\ \A q \in Procs \ {p} : call'[q] = call[q]
      BY <2>2, <2>3, PayoutConstantsOK DEF PayoutIInv, WalletOK
    <2>5. Unwritten' = Unwritten + c.amount
      BY <2>1, <2>3, <2>4, RowComes DEF PayoutIInv, At
    <2> QED  BY <1>0, <2>1, <2>2, <2>5 DEF Agrees
  <1>3. ASSUME NEW p \in Procs, WalletRow(p)
        PROVE  Agrees'
    <2> PICK c : c = call[p]
      OBVIOUS
    <2>1. c # NoCall /\ c.pc = "walletRow" /\ c \in PayoutCall /\ c.amount \in Int /\ At(p, "walletRow")
      BY <1>3, OnTheWay DEF WalletRow, At
    <2>2. /\ rows' = rows + c.amount /\ UNCHANGED <<earnings, earningsRaced, deaths>>
          /\ call' = [call EXCEPT ![p] = IF c.then = "end" THEN NoCall ELSE [c EXCEPT !.pc = c.then]]
      BY <1>3 DEF WalletRow, End, Goto, GotoState
    <2>3. ~At(p, "walletRow")' /\ \A q \in Procs \ {p} : call'[q] = call[q]
      <3>1. c.then # "end" => [c EXCEPT !.pc = c.then].pc \in {"transfer", "applied"}
        BY <2>1 DEF PayoutCall
      <3> QED  BY <2>2, <3>1 DEF At, PayoutIInv, WalletOK
    <2>4. Unwritten' = Unwritten - c.amount
      BY <2>1, <2>3, RowGoes DEF PayoutIInv
    <2> QED  BY <1>0, <2>1, <2>2, <2>4 DEF Agrees
  <1>4. ASSUME NEW p \in Procs, PayoutDies(p)
        PROVE  Agrees'
    BY <1>0, <1>4 DEF PayoutDies, Dies, Agrees
  <1>5. ASSUME NEW p \in Procs,
               \/ WalletRead(p) \/ SaveHold(p) \/ SaveProcessing(p) \/ InitiateTransfer(p)
               \/ SaveOutcome(p) \/ SaveDeduction(p) \/ ApplyDeduction(p)
        PROVE  Agrees'
    <2> PICK c : c = call[p]
      OBVIOUS
    <2> DEFINE GoesOn == \E x : call' = [call EXCEPT ![p] = x] /\ (x = NoCall \/ x.pc # "walletRow")
    <2>1. c # NoCall /\ c \in PayoutCall /\ c.pc # "walletRow" /\ Aside
      <3>1. call[p] # NoCall /\ call[p].pc # "walletRow" /\ Aside
        BY <1>0, <1>5
        DEF WalletRead, SaveHold, SaveProcessing, InitiateTransfer, SaveOutcome, SaveDeduction,
            ApplyDeduction, At, payoutVars, End, Goto, GotoState, CallWallet
      <3> QED  BY <3>1, OnTheWay
    <2>2. ASSUME NEW pc \in {"completed", "processing", "failed"}, Goto(p, pc)
          PROVE  GoesOn
      <3>1. [c EXCEPT !.pc = pc].pc # "walletRow"
        BY <2>1, <2>2 DEF PayoutCall
      <3> QED  BY <2>2, <3>1 DEF Goto, GotoState
    <2>3. ASSUME NEW amount, NEW then, CallWallet(p, amount, then)
          PROVE  GoesOn
      <3>1. [c EXCEPT !.pc = "walletRead", !.amount = amount, !.then = then].pc # "walletRow"
        BY <2>1 DEF PayoutCall
      <3> QED  BY <2>3, <3>1 DEF CallWallet, GotoState
    <2>4. ASSUME End(p)
          PROVE  GoesOn
      BY <2>4 DEF End, GotoState
    <2>5. ASSUME WalletRead(p)
          PROVE  GoesOn
      <3>1. [c EXCEPT !.pc = "walletSave", !.copy = earnings].pc # "walletRow"
        BY <2>1 DEF PayoutCall
      <3> QED  BY <2>4, <2>5, <3>1 DEF WalletRead, GotoState
    <2>6. ASSUME InitiateTransfer(p)
          PROVE  \E pc \in {"completed", "processing", "failed"} : Goto(p, pc)
      BY <2>6 DEF InitiateTransfer
    <2>7. GoesOn
      <3> HIDE DEF GoesOn
      <3> QED  BY <1>5, <2>2, <2>3, <2>4, <2>5, <2>6
               DEF SaveHold, SaveProcessing, SaveOutcome, SaveDeduction, ApplyDeduction
    <2> HIDE DEF Aside
    <2> QED  BY <1>1, <2>1, <2>7 DEF At
  <1>6. ASSUME NEW p \in Procs, PayoutRequest(p)
        PROVE  Agrees'
    <2>1. Aside /\ call[p] = NoCall
      BY <1>0, <1>6
      DEF PayoutRequest, OrderCompleted, ApprovePayout, HoldPayout, ReleasePayout, OpenDeduction,
          CronTakes, Enter, Begin, payoutVars
    <2> HIDE DEF Aside
    <2>2. ASSUME NEW i, NEW pc \in {"approve", "hold", "release", "respond", "cancel", "apply"}, Enter(p, i, pc)
          PROVE  \E x : call' = [call EXCEPT ![p] = x] /\ x.pc # "walletRow"
      <3> DEFINE x == [pc |-> pc, item |-> i, copy |-> earnings, amount |-> 0, then |-> "end"]
      <3>1. call' = [call EXCEPT ![p] = x] /\ x.pc # "walletRow"
        BY <2>2 DEF Enter, Begin
      <3> HIDE DEF x
      <3> QED  BY <3>1
    <2>3. ASSUME OrderCompleted(p)
          PROVE  \E x : call' = [call EXCEPT ![p] = x] /\ x.pc # "walletRow"
      <3> DEFINE x == [pc |-> "walletRead", item |-> 0, copy |-> earnings, amount |-> Earning, then |-> "end"]
      <3>1. call' = [call EXCEPT ![p] = x] /\ x.pc # "walletRow"
        BY <2>3 DEF OrderCompleted, Begin
      <3> HIDE DEF x
      <3> QED  BY <3>1
    <2>4. \E x : call' = [call EXCEPT ![p] = x] /\ x.pc # "walletRow"
      BY <1>6, <2>2, <2>3
      DEF PayoutRequest, ApprovePayout, HoldPayout, ReleasePayout, OpenDeduction, CronTakes
    <2> QED  BY <1>1, <2>1, <2>4 DEF At
  <1>7. ASSUME UNCHANGED <<earnings, rows, earningsRaced, call, deaths>>
        PROVE  Agrees'
    BY <1>7 DEF Agrees, Unwritten, EarningRows, DebitRows, CreditRows, InFlight, At
  <1>8. ASSUME \/ \E i \in PayoutIds : RequestPayout(i) \/ TransferExecutes(i)
               \/ \E i \in DeductionIds : CreateDeductionNotice(i)
               \/ \E i \in Charges : Lapse(i)
               \/ UNCHANGED <<payoutVars, requestVars>>
        PROVE  UNCHANGED <<earnings, rows, earningsRaced, call, deaths>>
    BY <1>8 DEF RequestPayout, TransferExecutes, CreateDeductionNotice, Lapse, OneStep,
                payoutVars, requestVars
  <1> QED  BY <1>2, <1>3, <1>4, <1>5, <1>6, <1>7, <1>8 DEF PayoutsNext, PayoutStep

(* "Never negative": the vendor's balance, though credits and debits save  *)
(* outdated copies over each other; and a wallet whose copies were never   *)
(* outdated agrees with its ledger once the rows on their way are written. *)
THEOREM BalanceAndLedger == PayoutsSpec => []WalletBooks
  <1>1. RequestsInit /\ PayoutsInit => Agrees
    <2> SUFFICES ASSUME RequestsInit, PayoutsInit PROVE Agrees
      OBVIOUS
    <2>1. EarningRows = {} /\ DebitRows = {} /\ CreditRows = {}
      BY DEF RequestsInit, EarningRows, DebitRows, CreditRows, InFlight, At
    <2>2. Unwritten = 0
      BY <2>1, FS_EmptySet, PayoutConstantsOK DEF Unwritten
    <2> QED  BY <2>2 DEF PayoutsInit, Agrees
  <1>2. PayoutIInv /\ Agrees => WalletBooks
    BY DEF PayoutIInv, WalletOK, Agrees, WalletBooks
  <1> QED  BY <1>1, <1>2, AgreesWithLedger, PayoutInductive, PTL DEF PayoutsSpec
===============================================================================
