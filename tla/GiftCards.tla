------------------------------ MODULE GiftCards ------------------------------
(***************************************************************************)
(* Gift cards and the wallet of a company (gift-cards.service.ts,          *)
(* company-wallet.service.ts).  A card is paid for when it is created,     *)
(* from a vault or from the company's wallet; each redemption is claimed   *)
(* under the card's row lock and credited after the commit; a revocation   *)
(* returns the unused part.  Revoking a card and freezing the wallet work  *)
(* on copies read without a lock: `raced' and `walletRaced' remember       *)
(* whether somebody changed the row such a copy was taken from, or the     *)
(* revocation died between its refund and its save.                        *)
(***************************************************************************)
EXTENDS Vaults, Requests

CONSTANTS
  Cards,       \* gift_cards
  Users,
  Employees,   \* users who work for the company
  Usages,      \* maxUsages a card may be created with
  Value,       \* wpValuePerUse
  TopUp        \* WashPoints an admin credit or debit moves

VARIABLES
  card,         \* gift_cards
  redemptions,  \* redemptions[c][u]: gift_card_redemptions rows
  credited,     \* GIFT_CARD credits made for a card
  refunded,     \* WashPoints revocations of a card have returned
  wallet,       \* company_wallets: balance and frozen
  ledger,       \* credits minus debits of company_ledger_entries
  raced, walletRaced

cardVars   == <<card, redemptions, credited, refunded, raced>>
moneyVars  == <<wallet, ledger, walletRaced>>
vars       == <<cardVars, moneyVars, requestVars, vaultVars>>

Card == [ status : {"absent", "active", "exhausted", "revoked"},
          source : VaultIds \cup {0},           \* 0: COMPANY_WALLET
          max : {0} \cup Usages, used : Nat, staffOnly : BOOLEAN, expired : BOOLEAN ]

CompanyWallet == [balance : Int, frozen : BOOLEAN]

Call == [ pc : {"claim", "credit", "refund", "close"}, card : Cards,
          user : Users, copy : Card ]
FreezeCall == [pc : {"freeze", "unfreeze"}, copy : CompanyWallet]

ASSUME GiftConstantsOK ==
  /\ Employees \subseteq Users /\ Usages \subseteq Nat \ {0}
  /\ Value \in Nat \ {0} /\ TopUp \in Nat \ {0}
  /\ NoCall \notin Call \cup FreezeCall

Init ==
  /\ VaultsInit /\ RequestsInit
  /\ card = [c \in Cards |-> [status |-> "absent", source |-> 0, max |-> 0, used |-> 0,
                              staffOnly |-> FALSE, expired |-> FALSE]]
  /\ redemptions = [c \in Cards |-> [u \in Users |-> 0]]
  /\ credited = [c \in Cards |-> 0] /\ refunded = [c \in Cards |-> 0]
  /\ wallet = [balance |-> 0, frozen |-> FALSE] /\ ledger = 0
  /\ raced = {} /\ walletRaced = FALSE

-----------------------------------------------------------------------------
Start(p, c, u, pc) == Begin(p, [pc |-> pc, card |-> c, user |-> u, copy |-> card[c]])

(* Somebody else is revoking c on a copy.                                  *)
Revoking(c, p) ==
  \E q \in Procs \ {p} : (At(q, "refund") \/ At(q, "close")) /\ call[q].card = c

NoteRace(c, p) == raced' = IF Revoking(c, p) THEN raced \cup {c} ELSE raced

(* Those who hold a copy of the wallet, to freeze or unfreeze it.          *)
Freezing == InFlight("freeze") \cup InFlight("unfreeze")

(* Mutant of Move: without the ledger row.                                 *)
MoveUnbooked(amount) ==
  /\ wallet' = [wallet EXCEPT !.balance = @ + amount]
  /\ walletRaced' = (walletRaced \/ Freezing # {})
  /\ UNCHANGED ledger

(* A locked change of the wallet and its ledger row.                       *)
Move(amount) ==
  /\ wallet' = [wallet EXCEPT !.balance = @ + amount]
  /\ ledger' = ledger + amount
  /\ walletRaced' = (walletRaced \/ Freezing # {})

-----------------------------------------------------------------------------
(* credit and debit (adminCredit, adminDebit, a company top-up).           *)
CreditCompany ==
  /\ OneStep /\ ~wallet.frozen
  /\ Move(TopUp)
  /\ UNCHANGED <<cardVars, vaultVars>>

DebitCompany ==
  /\ OneStep /\ ~wallet.frozen /\ wallet.balance >= TopUp
  /\ Move(-TopUp)
  /\ UNCHANGED <<cardVars, vaultVars>>

(* freezeWallet, unfreezeWallet: read the wallet, save the copy.           *)
ReadWallet(p, pc) ==
  /\ pc = (IF wallet.frozen THEN "unfreeze" ELSE "freeze")
  /\ Begin(p, [pc |-> pc, copy |-> wallet])
  /\ UNCHANGED <<cardVars, moneyVars, vaultVars>>

SaveWallet(p) ==
  /\ At(p, "freeze") \/ At(p, "unfreeze")
  /\ wallet' = [call[p].copy EXCEPT !.frozen = At(p, "freeze")]
  /\ walletRaced' = (walletRaced \/ Freezing \ {p} # {})
  /\ End(p)
  /\ UNCHANGED <<cardVars, ledger, vaultVars>>

-----------------------------------------------------------------------------
NewCard(c, source, max, staffOnly) ==
  /\ card[c].status = "absent"
  /\ card' = [card EXCEPT ![c] = [status |-> "active", source |-> source, max |-> max,
                                  used |-> 0, staffOnly |-> staffOnly, expired |-> FALSE]]
  /\ UNCHANGED <<redemptions, credited, refunded, raced>>

(* createAdminGiftCard: the vault is debited in the card's transaction.    *)
CreateAdminGiftCard(c, v, max) ==
  /\ OneStep
  /\ NewCard(c, v, max, FALSE)
  /\ DebitVault(v, max * Value)
  /\ UNCHANGED moneyVars

(* createCompanyGiftCard: the wallet is locked; that it is frozen is not   *)
(* looked at.                                                              *)
CreateCompanyGiftCard(c, max, staffOnly) ==
  /\ OneStep
  /\ wallet.balance >= max * Value
  /\ NewCard(c, 0, max, staffOnly)
  /\ Move(-(max * Value))
  /\ UNCHANGED vaultVars

CardExpires(c) ==
  /\ card[c].status = "active" /\ ~card[c].expired
  /\ card' = [card EXCEPT ![c].expired = TRUE]
  /\ UNCHANGED <<redemptions, credited, refunded, raced, moneyVars, requestVars, vaultVars>>

-----------------------------------------------------------------------------
(* redeemGiftCard, up to the transaction: every check on what was read.    *)
Redeem(p, c, u) ==
  /\ card[c].status = "active" /\ ~card[c].expired /\ card[c].used < card[c].max
  /\ redemptions[c][u] = 0
  /\ card[c].staffOnly => u \in Employees
  /\ Start(p, c, u, "claim")
  /\ UNCHANGED <<cardVars, moneyVars, vaultVars>>

(* Mutant of Claim: the redemption ends with its row.                      *)
ClaimOnly(p) ==
  /\ At(p, "claim")
  /\ LET c == call[p].card
     IN /\ card[c].status = "active" /\ card[c].used < card[c].max
        /\ card' = [card EXCEPT ![c].used = @ + 1]
        /\ redemptions' = [redemptions EXCEPT ![c][call[p].user] = @ + 1]
        /\ NoteRace(c, p)
  /\ End(p)
  /\ UNCHANGED <<credited, refunded, moneyVars, vaultVars>>

(* The transaction: status and usage again, under the lock.                *)
Claim(p) ==
  /\ At(p, "claim")
  /\ LET c == call[p].card
         used == card[c].used + 1
     IN \/ /\ card[c].status = "active" /\ card[c].used < card[c].max
           /\ card' = [card EXCEPT ![c].used = used,
                         ![c].status = IF used >= card[c].max THEN "exhausted" ELSE @]
           /\ redemptions' = [redemptions EXCEPT ![c][call[p].user] = @ + 1]
           /\ NoteRace(c, p)
           /\ Goto(p, "credit")
        \/ /\ card[c].status # "active" \/ card[c].used >= card[c].max
           /\ End(p)
           /\ UNCHANGED <<card, redemptions, raced>>
  /\ UNCHANGED <<credited, refunded, moneyVars, vaultVars>>

(* walletsService.credit, "outside the gift card lock".                    *)
CreditUser(p) ==
  /\ At(p, "credit")
  /\ credited' = [credited EXCEPT ![call[p].card] = @ + 1]
  /\ End(p)
  /\ UNCHANGED <<card, redemptions, refunded, raced, moneyVars, vaultVars>>

-----------------------------------------------------------------------------
(* revokeGiftCard: the copy the refund is computed from.                   *)
Revoke(p, c) ==
  /\ card[c].status = "active"
  /\ \E u \in Users : Start(p, c, u, "refund")
  /\ UNCHANGED <<cardVars, moneyVars, vaultVars>>

(* Mutant of RefundOf: the used part is returned too.                      *)
RefundOfAll(copy) == copy.max * Value

RefundOf(copy) == (copy.max - copy.used) * Value

(* A vault takes the refund back under its lock, never below zero, and an  *)
(* exhausted one is active again; below zero the count is not kept.        *)
RefundVault(v, amount) ==
  LET used == IF vault[v].used > amount THEN vault[v].used - amount ELSE 0
  IN /\ vault' = [vault EXCEPT ![v].used = used,
                    ![v].status = IF @ = "exhausted" /\ used < vault[v].total THEN "active" ELSE @]
     /\ given' = [given EXCEPT ![v] = @ - amount]
     /\ outdated' = outdated \cup {u \in {v} : vault[v].used < amount}
     /\ UNCHANGED <<job, vaultOps>>

Refund(p) ==
  /\ At(p, "refund")
  /\ LET c == call[p].card
         amount == RefundOf(call[p].copy)
     IN /\ \/ call[p].copy.source = 0 /\ Move(amount) /\ UNCHANGED vaultVars
           \/ call[p].copy.source # 0 /\ RefundVault(call[p].copy.source, amount)
              /\ UNCHANGED moneyVars
        /\ refunded' = [refunded EXCEPT ![c] = @ + amount]
        /\ NoteRace(c, p)
  /\ Goto(p, "close")
  /\ UNCHANGED <<card, redemptions, credited>>

(* giftCardRepo.save(copy): used count and all.                            *)
CloseCard(p) ==
  /\ At(p, "close")
  /\ card' = [card EXCEPT ![call[p].card] = [call[p].copy EXCEPT !.status = "revoked"]]
  /\ NoteRace(call[p].card, p)
  /\ End(p)
  /\ UNCHANGED <<redemptions, credited, refunded, moneyVars, vaultVars>>

(* A call throws, or the process stops, between two steps.                 *)
Die(p) ==
  /\ Dies(p)
  /\ raced' = IF At(p, "close") THEN raced \cup {call[p].card} ELSE raced
  /\ UNCHANGED <<card, redemptions, credited, refunded, moneyVars, vaultVars>>

-----------------------------------------------------------------------------
Step(p) == Claim(p) \/ CreditUser(p) \/ Refund(p) \/ CloseCard(p) \/ SaveWallet(p)

Request(p) ==
  \/ \E c \in Cards, u \in Users : Redeem(p, c, u)
  \/ \E c \in Cards : Revoke(p, c)
  \/ \E pc \in {"freeze", "unfreeze"} : ReadWallet(p, pc)

Create ==
  \E c \in Cards, max \in Usages :
    \/ \E v \in VaultIds : CreateAdminGiftCard(c, v, max)
    \/ \E staffOnly \in BOOLEAN : CreateCompanyGiftCard(c, max, staffOnly)

Next ==
  \/ \E p \in Procs : Request(p) \/ Step(p) \/ Die(p)
  \/ Create \/ CreditCompany \/ DebitCompany
  \/ \E c \in Cards : CardExpires(c)
  \/ \E w \in Workers : VaultStep(w) /\ UNCHANGED <<cardVars, moneyVars, requestVars>>

Spec == Init /\ [][Next]_vars

FairSpec == Spec /\ \A p \in Procs : WF_vars(Step(p))

-----------------------------------------------------------------------------
TypeOK ==
  /\ VaultsTypeOK
  /\ card \in [Cards -> Card]
  /\ redemptions \in [Cards -> [Users -> Nat]]
  /\ credited \in [Cards -> Nat] /\ refunded \in [Cards -> Nat]
  /\ wallet \in CompanyWallet /\ ledger \in Int
  /\ call \in [Procs -> Call \cup FreezeCall \cup {NoCall}]
  /\ raced \subseteq Cards /\ walletRaced \in BOOLEAN

(* The redemption rows behind a count per user.                            *)
RowsOf(counts) == UNION {{<<u, n>> : n \in 1..counts[u]} : u \in Users}

Redeemed(c) == Cardinality(RowsOf(redemptions[c]))

(* However redemptions and revocations overlap, a card is claimed at most  *)
(* maxUsages times and credited at most once per claim.  Unless another    *)
(* request touched the card during a revocation, or that died after its    *)
(* refund, a card pays out, in redemptions and refund, no more than was    *)
(* paid for it, and all of it once revoked.                                *)
PaysOutWhatWasPaid ==
  /\ \A c \in Cards : credited[c] <= Redeemed(c) /\ Redeemed(c) <= card[c].max
  /\ \A c \in Cards \ raced :
       /\ Redeemed(c) * Value + refunded[c] <= card[c].max * Value
       /\ card[c].status = "revoked" => Redeemed(c) * Value + refunded[c] = card[c].max * Value

(* Unless a freeze saved a copy over a movement, the company's balance is  *)
(* the sum of its ledger; it is never negative.                            *)
CompanyBooks == wallet.balance >= 0 /\ (~walletRaced => wallet.balance = ledger)

(* Every claimed redemption is credited, unless its request dies.          *)
ClaimsAreCredited ==
  \A c \in Cards, n \in 1..2 :
    (card[c].max > 0 /\ Redeemed(c) >= n) ~> (credited[c] >= n \/ deaths > 0)
==============================================================================
