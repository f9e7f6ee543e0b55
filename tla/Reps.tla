-------------------------------- MODULE Reps ---------------------------------
(***************************************************************************)
(* Field reps, their pseudo-wallet and the bonus cycle (reps.service.ts,   *)
(* runBonusCycle of payouts.service.ts).  Every handler loads a row,       *)
(* awaits, and saves its copy; the cycle loads every active rep first and  *)
(* then works on one after the other.                                      *)
(***************************************************************************)
EXTENDS Requests, Sequences

CONSTANTS
  RepIds,
  OrderPay,     \* WashPoints a completed order credits
  BonusPercent  \* the percentages of the bonus tiers

VARIABLES
  rep,         \* reps: status, isAvailable, flaggedForReview
  pseudo,      \* rep_pseudo_wallets: balance, totalEarned
  repRows,     \* credits in the rep ledger
  rated,       \* WashPoints past cycles counted, their bonuses included
  pseudoRaced, \* reps whose wallet an outdated copy was saved over
  repRaced     \* reps of whom two saves overlapped between select and update

repVars == <<rep, pseudo, repRows, rated, pseudoRaced, repRaced>>

Rep == [ status : {"none", "active", "inactive", "suspended"},
         available : BOOLEAN, flagged : BOOLEAN ]
PseudoWallet == [balance : Nat, earned : Nat]

RepCall ==
  [ pc : {"repSave", "repWrite", "credit", "creditRow", "cycleRep", "cycleBonus", "cycleFlag",
          "cycleReset"},
    todo : Seq(RepIds), rep : RepIds, wallet : PseudoWallet, amount : Nat, base : Nat,
    copy : [RepIds -> Rep], row : Rep, seen : Rep ]

ASSUME RepConstantsOK ==
  /\ OrderPay \in Nat \ {0} /\ BonusPercent \subseteq Nat
  /\ IsFiniteSet(RepIds) /\ NoCall \notin RepCall

NoRep   == [status |-> "none", available |-> FALSE, flagged |-> FALSE]
NoPoint == [balance |-> 0, earned |-> 0]

RepsInit ==
  /\ rep = [r \in RepIds |-> NoRep]
  /\ pseudo = [r \in RepIds |-> NoPoint]
  /\ repRows = [r \in RepIds |-> 0] /\ rated = [r \in RepIds |-> 0]
  /\ pseudoRaced = {} /\ repRaced = {}

-----------------------------------------------------------------------------
(* create and ensureProfileForUser: user or role, rep row and wallet in    *)
(* one transaction; an existing profile is left alone.                     *)
CreateRep(r) ==
  /\ OneStep
  /\ rep[r].status = "none"
  /\ rep' = [rep EXCEPT ![r].status = "active"]
  /\ UNCHANGED <<pseudo, repRows, rated, pseudoRaced, repRaced>>

(* A handler that loads the rep, awaits, and saves the row it made of it.  *)
Works(pc, r) ==
  [ pc |-> pc, todo |-> <<>>, rep |-> r, wallet |-> NoPoint, amount |-> 0, base |-> 0,
    copy |-> [s \in RepIds |-> NoRep], row |-> NoRep, seen |-> NoRep ]

Change(p, r, row) ==
  /\ Begin(p, [Works("repSave", r) EXCEPT !.row = row])
  /\ UNCHANGED repVars

(* Mutant of UpdateRep: the availability stays as it was.                  *)
UpdateStatusOnly(p, r, status) ==
  /\ rep[r].status # "none" /\ status \in {"active", "inactive", "suspended"}
  /\ Change(p, r, [rep[r] EXCEPT !.status = status])

(* update: leaving "active" makes the rep unavailable.                     *)
UpdateRep(p, r, status) ==
  /\ rep[r].status # "none" /\ status \in {"active", "inactive", "suspended"}
  /\ Change(p, r, [rep[r] EXCEPT !.status = status,
                                 !.available = @ /\ status = "active"])

SetAvailability(p, r, available) ==
  /\ rep[r].status = "active"
  /\ Change(p, r, [rep[r] EXCEPT !.available = available])

ClearFlag(p, r) ==
  /\ rep[r].status # "none"
  /\ Change(p, r, [rep[r] EXCEPT !.flagged = FALSE])

(* updateRepRating: a low score flags the rep.                             *)
RateRep(p, r) ==
  /\ rep[r].status # "none"
  /\ Change(p, r, [rep[r] EXCEPT !.flagged = TRUE])

(* TypeORM's save: select the row, then update the columns in which the    *)
(* entity differs from what was selected.                                  *)
SaveRep(p) ==
  /\ At(p, "repSave")
  /\ GotoState(p, [call[p] EXCEPT !.pc = "repWrite", !.seen = rep[call[p].rep]])
  /\ UNCHANGED repVars

Merged(row, seen, now) ==
  [ status    |-> IF row.status # seen.status THEN row.status ELSE now.status,
    available |-> IF row.available # seen.available THEN row.available ELSE now.available,
    flagged   |-> IF row.flagged # seen.flagged THEN row.flagged ELSE now.flagged ]

(* A cycle goes on to resetCycleBalance, which reads the wallet.           *)
WriteRep(p) ==
  /\ At(p, "repWrite")
  /\ LET r == call[p].rep
     IN /\ rep' = [rep EXCEPT ![r] = Merged(call[p].row, call[p].seen, rep[r])]
        /\ repRaced' = IF rep[r] # call[p].seen THEN repRaced \cup {r} ELSE repRaced
        /\ IF call[p].todo = <<>> THEN End(p)
           ELSE GotoState(p, [call[p] EXCEPT !.pc = "cycleReset", !.wallet = pseudo[r]])
  /\ UNCHANGED <<pseudo, repRows, rated, pseudoRaced>>

-----------------------------------------------------------------------------
(* creditWallet: read, save the copy, and then write the ledger row.       *)
OrderPaysRep(p, r) ==
  /\ rep[r].status # "none"
  /\ Begin(p, [Works("credit", r) EXCEPT !.wallet = pseudo[r], !.amount = OrderPay])
  /\ UNCHANGED repVars

Credited(wallet, n) == [balance |-> wallet.balance + n, earned |-> wallet.earned + n]

SaveRepCredit(p) ==
  /\ At(p, "credit")
  /\ LET r == call[p].rep
     IN /\ pseudo' = [pseudo EXCEPT ![r] = Credited(call[p].wallet, call[p].amount)]
        /\ pseudoRaced' = IF pseudo[r] # call[p].wallet THEN pseudoRaced \cup {r} ELSE pseudoRaced
  /\ Goto(p, "creditRow")
  /\ UNCHANGED <<rep, repRows, rated, repRaced>>

RowOfRepCredit(p) ==
  /\ At(p, "creditRow")
  /\ repRows' = [repRows EXCEPT ![call[p].rep] = @ + call[p].amount]
  /\ IF call[p].todo = <<>> THEN End(p) ELSE Goto(p, "cycleFlag")
  /\ UNCHANGED <<rep, pseudo, rated, pseudoRaced, repRaced>>

(* runBonusCycle, by cron or by an admin: the active reps of the moment,   *)
(* in some order.                                                          *)
Orders(S) == {s \in [1..Cardinality(S) -> S] : \A i, j \in DOMAIN s : i # j => s[i] # s[j]}

RunBonusCycle(p) ==
  /\ \E s \in Orders({r \in RepIds : rep[r].status = "active"}) :
       /\ s # <<>>
       /\ Begin(p, [Works("cycleRep", s[1]) EXCEPT !.todo = s, !.copy = rep])
  /\ UNCHANGED repVars

NextRep(p) ==
  LET rest == Tail(call[p].todo)
  IN IF rest = <<>> THEN End(p)
     ELSE GotoState(p, [call[p] EXCEPT !.pc = "cycleRep", !.todo = rest, !.rep = rest[1], !.base = 0])

(* One rep: a wallet of 0 is skipped; the bonus is a percentage of the     *)
(* balance read.                                                           *)
CycleRep(p) ==
  /\ At(p, "cycleRep")
  /\ LET r == call[p].rep
     IN IF pseudo[r].balance = 0 THEN NextRep(p) /\ UNCHANGED rated
        ELSE \E percent \in BonusPercent :
               LET bonus == (pseudo[r].balance * percent) \div 100
               IN /\ GotoState(p, [call[p] EXCEPT !.amount = bonus,
                                     !.pc = IF bonus > 0 THEN "cycleBonus" ELSE "cycleFlag",
                                     !.base = pseudo[r].balance + bonus])
                  /\ rated' = [rated EXCEPT ![r] = @ + pseudo[r].balance + bonus]
  /\ UNCHANGED <<rep, pseudo, repRows, pseudoRaced, repRaced>>

(* The bonus is credited on a wallet read again.                           *)
CycleBonus(p) ==
  /\ At(p, "cycleBonus")
  /\ GotoState(p, [call[p] EXCEPT !.pc = "credit", !.wallet = pseudo[call[p].rep]])
  /\ UNCHANGED repVars

(* A tier with flagReview saves the copy loaded at the start of the cycle. *)
CycleFlag(p) ==
  /\ At(p, "cycleFlag")
  /\ LET r == call[p].rep
         copy == call[p].copy[r]
     IN \/ GotoState(p, [call[p] EXCEPT !.pc = "cycleReset", !.wallet = pseudo[r]])
        \/ /\ ~copy.flagged
           /\ GotoState(p, [call[p] EXCEPT !.pc = "repSave", !.row = [copy EXCEPT !.flagged = TRUE]])
  /\ UNCHANGED repVars

(* Mutant of CycleReset: the balance stays for the next cycle.             *)
CycleWithoutReset(p) ==
  /\ At(p, "cycleReset")
  /\ NextRep(p)
  /\ UNCHANGED repVars

(* resetCycleBalance, on a wallet read once more: whatever arrived since   *)
(* the balance was rated goes with it.                                     *)
CycleReset(p) ==
  /\ At(p, "cycleReset")
  /\ LET r == call[p].rep
     IN /\ pseudo' = [pseudo EXCEPT ![r] = [balance |-> 0, earned |-> call[p].wallet.earned]]
        /\ pseudoRaced' = IF pseudo[r] # call[p].wallet \/ pseudo[r].balance # call[p].base
                          THEN pseudoRaced \cup {r} ELSE pseudoRaced
        /\ NextRep(p)
  /\ UNCHANGED <<rep, repRows, rated, repRaced>>

RepStep(p) ==
  \/ SaveRep(p) \/ WriteRep(p) \/ SaveRepCredit(p) \/ RowOfRepCredit(p)
  \/ CycleRep(p) \/ CycleBonus(p) \/ CycleFlag(p) \/ CycleReset(p)

RepRequest ==
  \/ \E r \in RepIds : CreateRep(r)
  \/ \E p \in Procs :
       \/ RunBonusCycle(p)
       \/ \E r \in RepIds :
            \/ OrderPaysRep(p, r) \/ ClearFlag(p, r) \/ RateRep(p, r)
            \/ \E s \in {"active", "inactive", "suspended"} : UpdateRep(p, r, s)
            \/ \E b \in BOOLEAN : SetAvailability(p, r, b)

RepDies(p) == Dies(p) /\ UNCHANGED repVars

RepsNext == RepRequest \/ \E p \in Procs : RepStep(p) \/ RepDies(p)

RepsSpec == RequestsInit /\ RepsInit /\ [][RepsNext]_<<repVars, requestVars>>

-----------------------------------------------------------------------------
RepsTypeOK ==
  /\ rep \in [RepIds -> Rep]
  /\ pseudo \in [RepIds -> PseudoWallet]
  /\ repRows \in [RepIds -> Nat] /\ rated \in [RepIds -> Nat]
  /\ pseudoRaced \subseteq RepIds /\ repRaced \subseteq RepIds

(* creditWallet commits the wallet before the ledger row, and a cycle      *)
(* reads the wallet three times between its commits.  Of a wallet no       *)
(* outdated copy was saved over and nothing reached while a cycle worked   *)
(* on it: the ledger never shows more than was earned, a row is missing    *)
(* only while its credit is under way or after a death, and every point is *)
(* in exactly one cycle or in the current balance.                         *)
Crediting(r) == \E p \in InFlight("creditRow") : call[p].rep = r
InCycle(r) ==
  \E p \in Procs : call[p] \in RepCall /\ call[p].rep = r /\ call[p].base > 0

EveryPointInOneCycle ==
  \A r \in RepIds \ pseudoRaced :
    /\ repRows[r] <= pseudo[r].earned
    /\ ~Crediting(r) /\ deaths = 0 => repRows[r] = pseudo[r].earned
    /\ ~InCycle(r) /\ deaths = 0 => pseudo[r].earned = rated[r] + pseudo[r].balance

(* Only an active rep is available, through stale copies of updates,       *)
(* ratings and cycles; except a rep of whom two saves overlapped, each     *)
(* between its select and its update.                                      *)
AvailableIsActive ==
  \A r \in RepIds \ repRaced : rep[r].available => rep[r].status = "active"
==============================================================================
