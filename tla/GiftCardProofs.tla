---------------------------- MODULE GiftCardProofs ----------------------------
(***************************************************************************)
(* Proofs about GiftCards, for any number of cards, users, vaults and      *)
(* handlers: a company's balance follows its ledger and is never negative, *)
(* and a card pays out what was paid for it.                               *)
(***************************************************************************)
EXTENDS GiftCards, TLAPS, FiniteSetTheorems

-----------------------------------------------------------------------------
(* A wallet is only overwritten by a copy; as long as nobody else moved it *)
(* meanwhile, the copy holds its balance.  A refund is never negative,     *)
(* since no copy of a card is used more often than it may be.              *)

Freezes(c) == c # NoCall /\ c.pc \in {"freeze", "unfreeze"}

Books(w, l, r) == w \in CompanyWallet /\ w.balance >= 0 /\ l \in Int /\ r \in BOOLEAN
                  /\ (~r => w.balance = l)

Held(c, w, r) == Freezes(c) =>
  c.copy \in CompanyWallet /\ c.copy.balance >= 0 /\ (~r => c.copy.balance = w.balance)

CopyOK(c) == c # NoCall /\ c \in Call => c.copy.used <= c.copy.max

IInv ==
  /\ Books(wallet, ledger, walletRaced)
  /\ card \in [Cards -> Card] /\ \A c \in Cards : card[c].used <= card[c].max
  /\ call \in [Procs -> Call \cup FreezeCall \cup {NoCall}]
  /\ \A p \in Procs : CopyOK(call[p]) /\ Held(call[p], wallet, walletRaced)

LEMMA NoCallIsNone == \A x \in Call : x # NoCall
  BY GiftConstantsOK

LEMMA CardFields ==
  ASSUME NEW c \in Card
  PROVE  c.max \in Nat /\ c.used \in Nat
  <1>1. c.max \in {0} \cup Usages /\ c.used \in Nat
    BY DEF Card
  <1>2. {0} \cup Usages \subseteq Nat
    BY GiftConstantsOK
  <1> QED  BY <1>1, <1>2

LEMMA InitIInv == Init => IInv
  <1> SUFFICES ASSUME Init
               PROVE  IInv
    OBVIOUS
  <1>1. Books(wallet, ledger, walletRaced)
    <2>1. wallet = [balance |-> 0, frozen |-> FALSE] /\ ledger = 0
      BY DEF Init
    <2>2. wallet \in CompanyWallet /\ wallet.balance = 0
      BY <2>1 DEF CompanyWallet
    <2>3. walletRaced \in BOOLEAN
      BY Zenon DEF Init
    <2> QED  BY <2>1, <2>2, <2>3 DEF Books
  <1>2. [status |-> "absent", source |-> 0, max |-> 0, used |-> 0,
         staffOnly |-> FALSE, expired |-> FALSE] \in Card
    BY DEF Card
  <1>3. card \in [Cards -> Card] /\ \A c \in Cards : card[c].used <= card[c].max
    BY <1>2 DEF Init
  <1>4. call \in [Procs -> Call \cup FreezeCall \cup {NoCall}] /\ \A p \in Procs : call[p] = NoCall
    BY DEF Init, RequestsInit
  <1> QED  BY <1>1, <1>3, <1>4 DEF IInv, CopyOK, Held, Freezes

-----------------------------------------------------------------------------
(* Frozen or not: who holds a copy of the wallet is known from the slots.  *)
LEMMA WhoFreezes == ASSUME NEW p \in Procs PROVE p \in Freezing <=> Freezes(call[p])
  BY DEF Freezing, InFlight, At, Freezes

(* A locked movement keeps the books, and is noted when a copy is out.     *)
LEMMA MoveKeepsBooks ==
  ASSUME IInv, NEW amount \in Int, wallet.balance + amount >= 0, Move(amount)
  PROVE  /\ Books(wallet', ledger', walletRaced')
         /\ \A p \in Procs : Held(call[p], wallet', walletRaced')
  <1>1. Books(wallet, ledger, walletRaced)
    BY DEF IInv
  <1>2. PICK w \in CompanyWallet : w = [wallet EXCEPT !.balance = @ + amount]
    <2>1. wallet.balance + amount \in Int
      BY <1>1 DEF Books, CompanyWallet
    <2>2. \A b \in Int : [wallet EXCEPT !.balance = b] \in CompanyWallet
      BY <1>1 DEF Books, CompanyWallet
    <2> QED  BY <2>1, <2>2
  <1>3. w.balance = wallet.balance + amount /\ wallet' = w
    BY <1>1, <1>2 DEF Books, CompanyWallet, Move
  <1>4. ledger' = ledger + amount /\ walletRaced' \in BOOLEAN
    BY DEF Move
  <1>5. ~walletRaced' => ~walletRaced /\ Freezing = {}
    BY DEF Move
  <1>6. wallet.balance \in Int /\ ledger \in Int
    BY <1>1 DEF Books, CompanyWallet
  <1>7. ~walletRaced' => w.balance = ledger'
    BY <1>1, <1>3, <1>4, <1>5, <1>6 DEF Books
  <1>8. Books(wallet', ledger', walletRaced')
    BY <1>3, <1>4, <1>6, <1>7 DEF Books
  <1>9. ASSUME NEW p \in Procs
        PROVE  Held(call[p], wallet', walletRaced')
    <2>1. Held(call[p], wallet, walletRaced)
      BY DEF IInv
    <2>2. ~walletRaced' => ~Freezes(call[p])
      BY <1>5, WhoFreezes
    <2> QED  BY <2>1, <2>2 DEF Held
  <1> QED  BY <1>8, <1>9

(* What is left of a card is not negative.                                 *)
LEMMA RefundIsNat == ASSUME NEW c \in Card, c.used <= c.max PROVE RefundOf(c) \in Nat
  <1>1. c.max \in Nat /\ c.used \in Nat /\ Value \in Nat
    BY CardFields, GiftConstantsOK
  <1>2. c.max - c.used \in Nat
    BY <1>1
  <1>3. \A n \in Nat : n * Value \in Nat
    BY <1>1
  <1> QED  BY <1>2, <1>3 DEF RefundOf

-----------------------------------------------------------------------------
(* A handler takes a slot, with a copy of a card or of the wallet.         *)
LEMMA TakesCopy ==
  ASSUME IInv, NEW p \in Procs, NEW x \in Call \cup FreezeCall, CopyOK(x), Held(x, wallet, walletRaced),
         call' = [call EXCEPT ![p] = x],
         card' = card, wallet' = wallet, ledger' = ledger, walletRaced' = walletRaced
  PROVE  IInv'
  BY DEF IInv

(* A handler goes on with its copy of a card, ends or dies.                *)
LEMMA SlotGoesOn ==
  ASSUME IInv, NEW p \in Procs, NEW x \in Call \cup {NoCall}, CopyOK(x), ~Freezes(x),
         call' = [call EXCEPT ![p] = x],
         card' \in [Cards -> Card], \A c \in Cards : card'[c].used <= card'[c].max,
         Books(wallet', ledger', walletRaced'),
         \A q \in Procs : Held(call[q], wallet', walletRaced')
  PROVE  IInv'
  <1>1. Held(x, wallet', walletRaced')
    BY DEF Held
  <1>2. \A q \in Procs : CopyOK(call[q])
    BY DEF IInv
  <1> QED  BY <1>1, <1>2 DEF IInv

(* A handler that is one step leaves the slots.                            *)
LEMMA SlotsStay ==
  ASSUME IInv, call' = call,
         card' \in [Cards -> Card], \A c \in Cards : card'[c].used <= card'[c].max,
         Books(wallet', ledger', walletRaced'),
         \A q \in Procs : Held(call[q], wallet', walletRaced')
  PROVE  IInv'
  <1>1. \A q \in Procs : CopyOK(call[q])
    BY DEF IInv
  <1> QED  BY <1>1 DEF IInv

LEMMA MoneyStays ==
  ASSUME IInv, wallet' = wallet, ledger' = ledger, walletRaced' = walletRaced
  PROVE  /\ Books(wallet', ledger', walletRaced')
         /\ \A q \in Procs : Held(call[q], wallet', walletRaced')
  BY DEF IInv

LEMMA NewCardOK ==
  ASSUME IInv, NEW c \in Cards, NEW source \in VaultIds \cup {0}, NEW max \in Usages,
         NEW staffOnly \in BOOLEAN, NewCard(c, source, max, staffOnly)
  PROVE  card' \in [Cards -> Card] /\ \A b \in Cards : card'[b].used <= card'[b].max
  <1>1. max \in Nat
    BY GiftConstantsOK
  <1>2. PICK x \in Card : x = [status |-> "active", source |-> source, max |-> max,
                               used |-> 0, staffOnly |-> staffOnly, expired |-> FALSE]
    BY DEF Card
  <1>3. x.used <= x.max
    BY <1>1, <1>2
  <1> QED  BY <1>2, <1>3 DEF IInv, NewCard

(* A handler with a copy of a card: the copy it holds.                     *)
LEMMA CardCall ==
  ASSUME IInv, NEW p \in Procs, call[p] # NoCall, call[p].pc \in {"claim", "credit", "refund", "close"}
  PROVE  call[p] \in Call /\ call[p].card \in Cards /\ call[p].copy \in Card
         /\ call[p].copy.used <= call[p].copy.max
  <1>1. call[p] \in Call
    BY DEF IInv, FreezeCall
  <1> QED  BY <1>1 DEF IInv, CopyOK, Call

LEMMA Goes ==
  ASSUME IInv, NEW p \in Procs, call[p] \in Call, NEW pc \in {"credit", "close"}, Goto(p, pc)
  PROVE  \E x \in Call : CopyOK(x) /\ ~Freezes(x) /\ call' = [call EXCEPT ![p] = x]
  <1>1. call[p].copy.used <= call[p].copy.max
    BY GiftConstantsOK DEF IInv, CopyOK
  <1>2. PICK x \in Call : x = [call[p] EXCEPT !.pc = pc]
    BY DEF Call
  <1>3. x.copy = call[p].copy /\ x.pc = pc
    BY <1>2 DEF Call
  <1>4. CopyOK(x) /\ ~Freezes(x)
    BY <1>1, <1>3 DEF CopyOK, Freezes
  <1> QED  BY <1>2, <1>4 DEF Goto, GotoState

-----------------------------------------------------------------------------
LEMMA CreditCompanyIInv == ASSUME IInv, CreditCompany PROVE IInv'
  <1>1. call' = call /\ card' = card /\ Move(TopUp)
    BY DEF CreditCompany, OneStep, cardVars
  <1>2. TopUp \in Int /\ wallet.balance + TopUp >= 0
    BY GiftConstantsOK DEF IInv, Books, CompanyWallet
  <1>3. Books(wallet', ledger', walletRaced') /\ \A p \in Procs : Held(call[p], wallet', walletRaced')
    BY <1>1, <1>2, MoveKeepsBooks
  <1> QED  BY <1>1, <1>3, SlotsStay DEF IInv

LEMMA DebitCompanyIInv == ASSUME IInv, DebitCompany PROVE IInv'
  <1>1. call' = call /\ card' = card /\ Move(-TopUp) /\ wallet.balance >= TopUp
    BY DEF DebitCompany, OneStep, cardVars
  <1>2. -TopUp \in Int /\ wallet.balance + (-TopUp) >= 0
    BY <1>1, GiftConstantsOK DEF IInv, Books, CompanyWallet
  <1>3. Books(wallet', ledger', walletRaced') /\ \A p \in Procs : Held(call[p], wallet', walletRaced')
    BY <1>1, <1>2, MoveKeepsBooks
  <1> QED  BY <1>1, <1>3, SlotsStay DEF IInv

LEMMA CreateIInv == ASSUME IInv, Create PROVE IInv'
  <1>1. ASSUME NEW c \in Cards, NEW max \in Usages, NEW v \in VaultIds, CreateAdminGiftCard(c, v, max)
        PROVE  IInv'
    <2>1. NewCard(c, v, max, FALSE) /\ call' = call
          /\ wallet' = wallet /\ ledger' = ledger /\ walletRaced' = walletRaced
      BY <1>1 DEF CreateAdminGiftCard, OneStep, moneyVars
    <2>2. card' \in [Cards -> Card] /\ \A b \in Cards : card'[b].used <= card'[b].max
      BY <2>1, NewCardOK
    <2> QED  BY <2>1, <2>2, MoneyStays, SlotsStay
  <1>2. ASSUME NEW c \in Cards, NEW max \in Usages, NEW s \in BOOLEAN, CreateCompanyGiftCard(c, max, s)
        PROVE  IInv'
    <2>1. NewCard(c, 0, max, s) /\ call' = call /\ Move(-(max * Value)) /\ wallet.balance >= max * Value
      BY <1>2 DEF CreateCompanyGiftCard, OneStep
    <2>2. card' \in [Cards -> Card] /\ \A b \in Cards : card'[b].used <= card'[b].max
      BY <2>1, NewCardOK
    <2>3. PICK price \in Int : price = max * Value
      BY GiftConstantsOK
    <2>4. -price \in Int /\ wallet.balance + (-price) >= 0
      BY <2>1, <2>3 DEF IInv, Books, CompanyWallet
    <2>5. Books(wallet', ledger', walletRaced') /\ \A p \in Procs : Held(call[p], wallet', walletRaced')
      BY <2>1, <2>3, <2>4, MoveKeepsBooks
    <2> QED  BY <2>1, <2>2, <2>5, SlotsStay
  <1> QED  BY <1>1, <1>2 DEF Create

LEMMA CardExpiresIInv == ASSUME IInv, NEW c \in Cards, CardExpires(c) PROVE IInv'
  <1>1. call' = call /\ card' = [card EXCEPT ![c].expired = TRUE]
        /\ wallet' = wallet /\ ledger' = ledger /\ walletRaced' = walletRaced
    BY DEF CardExpires, requestVars, moneyVars
  <1>2. card \in [Cards -> Card] /\ card[c] \in Card
    BY DEF IInv
  <1>3. PICK x \in Card : x = [card[c] EXCEPT !.expired = TRUE]
    BY <1>2 DEF Card
  <1>4. x.used = card[c].used /\ x.max = card[c].max
    BY <1>2, <1>3 DEF Card
  <1>5. card' = [card EXCEPT ![c] = x]
    BY <1>1, <1>2, <1>3
  <1>6. card' \in [Cards -> Card] /\ \A b \in Cards : card'[b].used <= card'[b].max
    BY <1>2, <1>4, <1>5 DEF IInv
  <1> QED  BY <1>1, <1>6, MoneyStays, SlotsStay

-----------------------------------------------------------------------------
LEMMA RequestIInv == ASSUME IInv, NEW p \in Procs, Request(p) PROVE IInv'
  <1>1. ASSUME NEW c \in Cards, NEW u \in Users, NEW pc \in {"claim", "refund"}, Start(p, c, u, pc),
               UNCHANGED <<cardVars, moneyVars, vaultVars>>
        PROVE  IInv'
    <2>1. card[c] \in Card /\ card[c].used <= card[c].max
      BY DEF IInv
    <2>2. PICK x \in Call : x = [pc |-> pc, card |-> c, user |-> u, copy |-> card[c]]
      BY <2>1 DEF Call
    <2>3. CopyOK(x) /\ ~Freezes(x)
      BY <2>1, <2>2 DEF CopyOK, Freezes
    <2>4. call' = [call EXCEPT ![p] = x] /\ card' = card
          /\ wallet' = wallet /\ ledger' = ledger /\ walletRaced' = walletRaced
      BY <1>1, <2>2 DEF Start, Begin, cardVars, moneyVars
    <2> QED  BY <2>3, <2>4, TakesCopy DEF Held
  <1>2. ASSUME NEW pc \in {"freeze", "unfreeze"}, ReadWallet(p, pc)
        PROVE  IInv'
    <2>1. Books(wallet, ledger, walletRaced)
      BY DEF IInv
    <2>2. PICK x \in FreezeCall : x = [pc |-> pc, copy |-> wallet]
      BY <2>1 DEF FreezeCall, Books
    <2>3. x.copy = wallet /\ x.pc = pc
      BY <2>2
    <2>4. CopyOK(x)
      BY <2>3 DEF CopyOK, Call
    <2>5. Held(x, wallet, walletRaced)
      BY <2>1, <2>3 DEF Held, Books
    <2>6. call' = [call EXCEPT ![p] = x] /\ card' = card
          /\ wallet' = wallet /\ ledger' = ledger /\ walletRaced' = walletRaced
      BY <1>2, <2>2 DEF ReadWallet, Begin, cardVars, moneyVars
    <2> QED  BY <2>4, <2>5, <2>6, TakesCopy
  <1>3. ASSUME NEW c \in Cards, NEW u \in Users, Redeem(p, c, u)
        PROVE  IInv'
    BY <1>1, <1>3 DEF Redeem
  <1>4. ASSUME NEW c \in Cards, Revoke(p, c)
        PROVE  IInv'
    BY <1>1, <1>4 DEF Revoke
  <1> QED  BY <1>2, <1>3, <1>4 DEF Request

LEMMA ClaimIInv == ASSUME IInv, NEW p \in Procs, Claim(p) PROVE IInv'
  <1>1. call[p] # NoCall /\ call[p].pc = "claim"
        /\ wallet' = wallet /\ ledger' = ledger /\ walletRaced' = walletRaced
    BY DEF Claim, At, moneyVars
  <1>2. PICK c \in Cards : c = call[p].card /\ call[p] \in Call
    BY <1>1, CardCall
  <1>3. card \in [Cards -> Card] /\ card[c] \in Card /\ card[c].used \in Nat /\ card[c].max \in Nat
    BY CardFields DEF IInv
  <1>4. CASE card[c].used < card[c].max /\ Goto(p, "credit")
             /\ card' = [card EXCEPT ![c].used = card[c].used + 1,
                           ![c].status = IF card[c].used + 1 >= card[c].max THEN "exhausted" ELSE @]
    <2>1. PICK used \in Nat : used = card[c].used + 1
      BY <1>3
    <2>2. PICK status \in {"absent", "active", "exhausted", "revoked"} :
            status = IF card[c].used + 1 >= card[c].max THEN "exhausted" ELSE card[c].status
      BY <1>3 DEF Card
    <2>3. PICK x \in Card : x = [card[c] EXCEPT !.used = used, !.status = status]
      BY <1>3 DEF Card
    <2>4. x.used = used /\ x.max = card[c].max
      BY <1>3, <2>3 DEF Card
    <2>5. card' = [card EXCEPT ![c] = x]
      BY <1>3, <1>4, <2>1, <2>2, <2>3
    <2>6. card' \in [Cards -> Card] /\ \A b \in Cards : card'[b].used <= card'[b].max
      <3>1. x.used <= x.max
        BY <1>3, <1>4, <2>1, <2>4
      <3> QED  BY <1>3, <2>5, <3>1 DEF IInv
    <2>7. PICK y \in Call : CopyOK(y) /\ ~Freezes(y) /\ call' = [call EXCEPT ![p] = y]
      BY <1>2, <1>4, Goes
    <2> QED  BY <1>1, <2>6, <2>7, MoneyStays, SlotGoesOn
  <1>5. CASE End(p) /\ card' = card
    <2>1. call' = [call EXCEPT ![p] = NoCall] /\ CopyOK(NoCall) /\ ~Freezes(NoCall)
      BY <1>5 DEF End, GotoState, CopyOK, Freezes
    <2>2. card' \in [Cards -> Card] /\ \A b \in Cards : card'[b].used <= card'[b].max
      BY <1>5 DEF IInv
    <2> QED  BY <1>1, <2>1, <2>2, MoneyStays, SlotGoesOn
  <1> QED  BY <1>2, <1>4, <1>5 DEF Claim

LEMMA CreditUserIInv == ASSUME IInv, NEW p \in Procs, CreditUser(p) PROVE IInv'
  <1>1. call' = [call EXCEPT ![p] = NoCall] /\ card' = card
        /\ wallet' = wallet /\ ledger' = ledger /\ walletRaced' = walletRaced
    BY DEF CreditUser, End, GotoState, moneyVars
  <1>2. CopyOK(NoCall) /\ ~Freezes(NoCall)
    BY DEF CopyOK, Freezes
  <1>3. card' \in [Cards -> Card] /\ \A b \in Cards : card'[b].used <= card'[b].max
    BY <1>1 DEF IInv
  <1> QED  BY <1>1, <1>2, <1>3, MoneyStays, SlotGoesOn

LEMMA RefundIInv == ASSUME IInv, NEW p \in Procs, Refund(p) PROVE IInv'
  <1>1. call[p] # NoCall /\ call[p].pc = "refund" /\ card' = card /\ Goto(p, "close")
    BY DEF Refund, At
  <1>2. call[p] \in Call /\ call[p].copy \in Card /\ call[p].copy.used <= call[p].copy.max
    BY <1>1, CardCall
  <1>3. PICK amount \in Nat : amount = RefundOf(call[p].copy)
    BY <1>2, RefundIsNat
  <1>4. Books(wallet', ledger', walletRaced') /\ \A q \in Procs : Held(call[q], wallet', walletRaced')
    <2>1. CASE Move(amount)
      <3>1. wallet.balance + amount >= 0
        BY DEF IInv, Books, CompanyWallet
      <3> QED  BY <2>1, <3>1, MoveKeepsBooks
    <2>2. CASE UNCHANGED moneyVars
      BY <2>2, MoneyStays DEF moneyVars
    <2> QED  BY <1>3, <2>1, <2>2 DEF Refund
  <1>5. PICK y \in Call : CopyOK(y) /\ ~Freezes(y) /\ call' = [call EXCEPT ![p] = y]
    BY <1>1, <1>2, Goes
  <1>6. card' \in [Cards -> Card] /\ \A b \in Cards : card'[b].used <= card'[b].max
    BY <1>1 DEF IInv
  <1> QED  BY <1>4, <1>5, <1>6, SlotGoesOn

LEMMA CloseCardIInv == ASSUME IInv, NEW p \in Procs, CloseCard(p) PROVE IInv'
  <1>1. call[p] # NoCall /\ call[p].pc = "close" /\ call' = [call EXCEPT ![p] = NoCall]
        /\ wallet' = wallet /\ ledger' = ledger /\ walletRaced' = walletRaced
    BY DEF CloseCard, At, End, GotoState, moneyVars
  <1>2. call[p].copy \in Card /\ call[p].copy.used <= call[p].copy.max
    BY <1>1, CardCall
  <1>3. PICK c \in Cards : c = call[p].card
    BY <1>1, CardCall
  <1>4. PICK x \in Card : x = [call[p].copy EXCEPT !.status = "revoked"]
    BY <1>2 DEF Card
  <1>5. x.used = call[p].copy.used /\ x.max = call[p].copy.max
    BY <1>2, <1>4 DEF Card
  <1>6. card' = [card EXCEPT ![c] = x]
    BY <1>3, <1>4 DEF CloseCard
  <1>7. card' \in [Cards -> Card] /\ \A b \in Cards : card'[b].used <= card'[b].max
    BY <1>2, <1>5, <1>6 DEF IInv
  <1>8. CopyOK(NoCall) /\ ~Freezes(NoCall)
    BY DEF CopyOK, Freezes
  <1> QED  BY <1>1, <1>7, <1>8, MoneyStays, SlotGoesOn

(* A freeze saves its copy, and the copies of the others are noted.        *)
LEMMA SaveWalletIInv == ASSUME IInv, NEW p \in Procs, SaveWallet(p) PROVE IInv'
  <1>1. Freezes(call[p]) /\ call' = [call EXCEPT ![p] = NoCall] /\ card' = card /\ ledger' = ledger
    BY DEF SaveWallet, At, Freezes, End, GotoState, cardVars
  <1>2. Held(call[p], wallet, walletRaced) /\ Books(wallet, ledger, walletRaced)
    BY DEF IInv
  <1>3. call[p].copy \in CompanyWallet /\ call[p].copy.balance >= 0
        /\ (~walletRaced => call[p].copy.balance = wallet.balance)
    BY <1>1, <1>2 DEF Held
  <1>4. PICK frozen \in BOOLEAN : frozen = At(p, "freeze")
    BY Zenon DEF At
  <1>5. PICK w \in CompanyWallet : w = [call[p].copy EXCEPT !.frozen = frozen]
    BY <1>3 DEF CompanyWallet
  <1>6. w.balance = call[p].copy.balance /\ wallet' = w
    <2>1. w.balance = call[p].copy.balance
      BY <1>3, <1>5 DEF CompanyWallet
    <2> QED  BY <1>4, <1>5, <2>1 DEF SaveWallet
  <1>7. walletRaced' \in BOOLEAN /\ (~walletRaced' => ~walletRaced /\ Freezing \ {p} = {})
    BY DEF SaveWallet
  <1>8. Books(wallet', ledger', walletRaced')
    BY <1>1, <1>2, <1>3, <1>6, <1>7 DEF Books
  <1>9. ASSUME NEW q \in Procs, q # p
        PROVE  Held(call[q], wallet', walletRaced')
    <2>1. ~walletRaced' => ~Freezes(call[q])
      BY <1>7, <1>9, WhoFreezes
    <2> QED  BY <2>1 DEF IInv, Held
  <1>10. CopyOK(NoCall) /\ Held(NoCall, wallet', walletRaced')
    BY DEF CopyOK, Held, Freezes
  <1> QED  BY <1>1, <1>8, <1>9, <1>10 DEF IInv

LEMMA DieIInv == ASSUME IInv, NEW p \in Procs, Die(p) PROVE IInv'
  <1>1. call' = [call EXCEPT ![p] = NoCall] /\ card' = card
        /\ wallet' = wallet /\ ledger' = ledger /\ walletRaced' = walletRaced
    BY DEF Die, Dies, moneyVars
  <1>2. CopyOK(NoCall) /\ ~Freezes(NoCall)
    BY DEF CopyOK, Freezes
  <1>3. card' \in [Cards -> Card] /\ \A b \in Cards : card'[b].used <= card'[b].max
    BY <1>1 DEF IInv
  <1> QED  BY <1>1, <1>2, <1>3, MoneyStays, SlotGoesOn

-----------------------------------------------------------------------------
LEMMA NextIInv == IInv /\ [Next]_vars => IInv'
  <1> SUFFICES ASSUME IInv, [Next]_vars
               PROVE  IInv'
    OBVIOUS
  <1>1. ASSUME NEW p \in Procs, Request(p) \/ Step(p) \/ Die(p)
        PROVE  IInv'
    BY <1>1, RequestIInv, DieIInv, ClaimIInv, CreditUserIInv, RefundIInv, CloseCardIInv, SaveWalletIInv
       DEF Step
  <1>2. CASE Create \/ CreditCompany \/ DebitCompany
    BY <1>2, CreateIInv, CreditCompanyIInv, DebitCompanyIInv
  <1>3. ASSUME NEW c \in Cards, CardExpires(c)
        PROVE  IInv'
    BY <1>3, CardExpiresIInv
  <1>4. CASE UNCHANGED <<cardVars, moneyVars, requestVars>>
    BY <1>4 DEF IInv, cardVars, moneyVars, requestVars
  <1>5. CASE UNCHANGED vars
    BY <1>4, <1>5 DEF vars
  <1> QED  BY <1>1, <1>2, <1>3, <1>4, <1>5 DEF Next

(* A company is never in debt, and its balance is the sum of its ledger    *)
(* unless a freeze of the wallet saved a copy over a movement; for any     *)
(* number of cards, users, vaults and handlers in flight.                  *)
THEOREM Company == Spec => []CompanyBooks
  <1>1. IInv => CompanyBooks
    BY DEF IInv, Books, CompanyBooks
  <1> QED  BY <1>1, InitIInv, NextIInv, PTL DEF Spec

-----------------------------------------------------------------------------
(* A card.  Its claims are counted under its lock until a revocation puts  *)
(* an old copy back, and then nobody claims it any more; every credit made *)
(* or on its way has a claim of its own.  Unless it has been raced, at     *)
(* most one revocation is between its refund and its save, and all those   *)
(* in flight hold the count of now.                                        *)

On(p, c, pc) == call[p] # NoCall /\ call[p].pc = pc /\ call[p].card = c

Crediting(c) == {p \in Procs : On(p, c, "credit")}

Counted(c) ==
  /\ redemptions[c] \in [Users -> Nat] /\ credited[c] \in Nat /\ refunded[c] \in Nat
  /\ IsFiniteSet(RowsOf(redemptions[c])) /\ IsFiniteSet(Crediting(c))
  /\ credited[c] + Cardinality(Crediting(c)) <= Redeemed(c)
  /\ Redeemed(c) <= card[c].max
  /\ card[c].status # "revoked" => card[c].used = Redeemed(c)
  /\ card[c].status = "absent" => refunded[c] = 0 /\ Redeemed(c) = 0

Copied(c) ==
  \A p \in Procs : On(p, c, "refund") \/ On(p, c, "close") =>
    card[c].status # "absent" /\ call[p].copy.max = card[c].max

Settles(c) ==
  /\ \A p \in Procs : On(p, c, "refund") \/ On(p, c, "close") =>
       card[c].status # "revoked" /\ call[p].copy.used = card[c].used
  /\ \A p, q \in Procs : On(p, c, "close") /\ On(q, c, "close") => p = q
  /\ \A p \in Procs : On(p, c, "close") => refunded[c] = (card[c].max - card[c].used) * Value
  /\ card[c].status # "revoked" => refunded[c] = 0 \/ \E p \in Procs : On(p, c, "close")
  /\ card[c].status = "revoked" => Redeemed(c) * Value + refunded[c] = card[c].max * Value

CardInv(c) == Counted(c) /\ Copied(c) /\ (c \notin raced => Settles(c))

Tables ==
  /\ redemptions \in [Cards -> [Users -> Nat]]
  /\ credited \in [Cards -> Nat] /\ refunded \in [Cards -> Nat]

PaidInv == Tables /\ \A c \in Cards : CardInv(c)

(* What is redeemed and what is left add up to the price.                  *)
LEMMA PriceSplits ==
  ASSUME NEW used \in Nat, NEW max \in Nat, used <= max
  PROVE  /\ used * Value + (max - used) * Value = max * Value
         /\ used * Value <= max * Value /\ used * Value \in Nat /\ max * Value \in Nat
  <1>1. Value \in Nat
    BY GiftConstantsOK
  <1>2. PICK left \in Nat : left = max - used
    OBVIOUS
  <1>3. max = used + left
    BY <1>2
  <1>4. used * Value \in Nat /\ left * Value \in Nat /\ max * Value \in Nat
    BY <1>1
  <1>5. (used + left) * Value = used * Value + left * Value
    BY <1>1
  <1> QED  BY <1>2, <1>3, <1>4, <1>5

(* A redemption adds one row.                                              *)
LEMMA RowAdded ==
  ASSUME NEW r \in [Users -> Nat], NEW u \in Users, IsFiniteSet(RowsOf(r))
  PROVE  LET s == [r EXCEPT ![u] = @ + 1] IN
         s \in [Users -> Nat] /\ IsFiniteSet(RowsOf(s))
         /\ Cardinality(RowsOf(s)) = Cardinality(RowsOf(r)) + 1
  <1> DEFINE s == [r EXCEPT ![u] = @ + 1]
  <1>1. s \in [Users -> Nat] /\ s[u] = r[u] + 1 /\ \A v \in Users \ {u} : s[v] = r[v]
    OBVIOUS
  <1> HIDE DEF s
  <1>2. PICK k \in Nat : k = r[u] + 1
    OBVIOUS
  <1>3. ASSUME NEW v \in Users, NEW n
        PROVE  n \in 1..s[v] <=> n \in 1..r[v] \/ (v = u /\ n = k)
    <2>1. CASE v = u
      BY <1>1, <1>2, <2>1
    <2>2. CASE v # u
      BY <1>1, <2>2
    <2> QED  BY <2>1, <2>2
  <1>4. \A v \in Users : \A n : <<v, n>> \in RowsOf(r) <=> n \in 1..r[v]
    BY DEF RowsOf
  <1>5. RowsOf(s) = RowsOf(r) \cup {<<u, k>>}
    BY <1>3 DEF RowsOf
  <1>6. k \notin 1..r[u]
    BY <1>2
  <1>7. <<u, k>> \notin RowsOf(r)
    BY <1>4, <1>6
  <1>8. Cardinality(RowsOf(s)) = Cardinality(RowsOf(r)) + 1 /\ IsFiniteSet(RowsOf(s))
    BY <1>5, <1>7, FS_AddElement
  <1> QED  BY <1>1, <1>8 DEF s

LEMMA PaidInit == Init => PaidInv
  <1> SUFFICES ASSUME Init
               PROVE  PaidInv
    OBVIOUS
  <1>1. Tables
    BY DEF Init, Tables
  <1>2. ASSUME NEW c \in Cards
        PROVE  CardInv(c)
    <2>1. /\ card[c].status = "absent" /\ card[c].used = 0 /\ card[c].max = 0
          /\ redemptions[c] = [u \in Users |-> 0] /\ credited[c] = 0 /\ refunded[c] = 0
      BY DEF Init
    <2>2. \A p \in Procs : \A pc : ~On(p, c, pc)
      BY DEF Init, RequestsInit, On
    <2>3. Crediting(c) = {} /\ RowsOf(redemptions[c]) = {}
      BY <2>1, <2>2 DEF Crediting, RowsOf
    <2>4. IsFiniteSet({}) /\ Cardinality({}) = 0
      BY FS_EmptySet
    <2>5. Counted(c)
      BY <2>1, <2>3, <2>4 DEF Counted, Redeemed
    <2>6. Copied(c) /\ Settles(c)
      BY <2>1, <2>2 DEF Copied, Settles
    <2> QED  BY <2>5, <2>6 DEF CardInv
  <1> QED  BY <1>1, <1>2 DEF PaidInv

(* Nothing happens to a card.                                              *)
LEMMA CardStays ==
  ASSUME NEW c \in Cards, CardInv(c), call' = call, raced' = raced,
         card'[c] = card[c], redemptions'[c] = redemptions[c],
         credited'[c] = credited[c], refunded'[c] = refunded[c]
  PROVE  CardInv(c)'
  <1>1. Crediting(c)' = Crediting(c) /\ Redeemed(c)' = Redeemed(c)
    BY DEF Crediting, On, Redeemed, RowsOf
  <1>2. RowsOf(redemptions[c])' = RowsOf(redemptions[c])
    BY DEF RowsOf
  <1>3. Counted(c)'
    BY <1>1, <1>2 DEF CardInv, Counted
  <1>4. Copied(c)'
    BY DEF CardInv, Copied, On
  <1>5. c \notin raced' => Settles(c)'
    BY <1>1 DEF CardInv, Settles, On
  <1> QED  BY <1>3, <1>4, <1>5 DEF CardInv

(* A handler moves that neither credits nor closes the card now: it is     *)
(* about another card, begins a revocation, gives up, or dies.             *)
LEMMA CardUntouched ==
  ASSUME NEW c \in Cards, CardInv(c), NEW p \in Procs,
         card'[c] = card[c], redemptions'[c] = redemptions[c],
         credited'[c] = credited[c], refunded'[c] = refunded[c],
         c \in raced => c \in raced',
         \A q \in Procs \ {p} : call'[q] = call[q],
         ~On(p, c, "credit")', ~On(p, c, "close")',
         On(p, c, "refund")' => call'[p].copy = card[c] /\ card[c].status = "active",
         On(p, c, "close") => c \in raced'
  PROVE  CardInv(c)'
  <1>1. \A q \in Procs : \A pc : q # p => (On(q, c, pc)' <=> On(q, c, pc))
    BY DEF On
  <1>2. Redeemed(c)' = Redeemed(c) /\ RowsOf(redemptions[c])' = RowsOf(redemptions[c])
    BY DEF Redeemed, RowsOf
  <1>3. Crediting(c)' \subseteq Crediting(c)
    BY <1>1 DEF Crediting
  <1>4. IsFiniteSet(Crediting(c)) => IsFiniteSet(Crediting(c)') /\ Cardinality(Crediting(c)') \in Nat
                                     /\ Cardinality(Crediting(c)') <= Cardinality(Crediting(c))
                                     /\ Cardinality(Crediting(c)) \in Nat
    BY <1>3, FS_Subset, FS_CardinalityType
  <1>5. IsFiniteSet(RowsOf(redemptions[c])) => Redeemed(c) \in Nat
    BY FS_CardinalityType DEF Redeemed
  <1>6. Counted(c)'
    BY <1>2, <1>4, <1>5 DEF CardInv, Counted
  <1>7. Copied(c)'
    BY <1>1 DEF CardInv, Copied
  <1>8. ASSUME c \notin raced'
        PROVE  Settles(c)'
    <2>1. Settles(c) /\ ~On(p, c, "close")
      BY <1>8 DEF CardInv
    <2>2. \A q \in Procs : On(q, c, "close")' <=> On(q, c, "close")
      BY <1>1, <2>1
    <2>3. \A q \in Procs : On(q, c, "refund")' \/ On(q, c, "close")' =>
            card[c].status # "revoked" /\ call'[q].copy.used = card[c].used
      BY <1>1, <2>1, <2>2 DEF Settles
    <2> QED  BY <1>2, <2>1, <2>2, <2>3 DEF Settles
  <1> QED  BY <1>6, <1>7, <1>8 DEF CardInv

(* A new card.                                                             *)
LEMMA CardCreated ==
  ASSUME IInv, NEW c \in Cards, CardInv(c), NEW source, NEW max \in Usages, NEW staffOnly,
         NewCard(c, source, max, staffOnly), call' = call
  PROVE  CardInv(c)'
  <1>1. /\ card[c].status = "absent" /\ max \in Nat
        /\ card'[c].status = "active" /\ card'[c].used = 0 /\ card'[c].max = max
        /\ redemptions' = redemptions /\ credited' = credited /\ refunded' = refunded /\ raced' = raced
    BY GiftConstantsOK DEF NewCard, IInv
  <1>2. Crediting(c)' = Crediting(c) /\ Redeemed(c)' = Redeemed(c)
    BY <1>1 DEF Crediting, On, Redeemed, RowsOf
  <1>3. RowsOf(redemptions[c])' = RowsOf(redemptions[c])
    BY <1>1 DEF RowsOf
  <1>4. Redeemed(c) = 0 /\ refunded[c] = 0
    BY <1>1 DEF CardInv, Counted
  <1>5. Counted(c)'
    BY <1>1, <1>2, <1>3, <1>4 DEF CardInv, Counted
  <1>6. \A q \in Procs : ~On(q, c, "refund") /\ ~On(q, c, "close")
    BY <1>1 DEF CardInv, Copied
  <1>7. \A q \in Procs : ~On(q, c, "refund")' /\ ~On(q, c, "close")'
    BY <1>6 DEF On
  <1>8. Copied(c)' /\ Settles(c)'
    BY <1>1, <1>4, <1>7 DEF Copied, Settles
  <1> QED  BY <1>5, <1>8 DEF CardInv

-----------------------------------------------------------------------------
(* Every action keeps what is true of each card and of the tables.         *)

(* Nobody else is revoking a card whose change has not been noted.         *)
LEMMA NotedOrAlone ==
  ASSUME NEW p \in Procs, NEW c \in Cards, NoteRace(c, p), c \notin raced'
  PROVE  c \notin raced /\ \A q \in Procs \ {p} : ~On(q, c, "refund") /\ ~On(q, c, "close")
  BY DEF NoteRace, Revoking, At, On

LEMMA NotedElsewhere ==
  ASSUME NEW p \in Procs, NEW c, NEW d \in Cards, NoteRace(c, p), d \in raced
  PROVE  d \in raced'
  BY DEF NoteRace

LEMMA CreatePaid == ASSUME IInv, PaidInv, Create PROVE PaidInv'
  <1>1. PICK c \in Cards, max \in Usages :
          /\ call' = call
          /\ \E source, staffOnly : NewCard(c, source, max, staffOnly)
    BY DEF Create, CreateAdminGiftCard, CreateCompanyGiftCard, OneStep
  <1>2. PICK source, staffOnly : NewCard(c, source, max, staffOnly)
    BY <1>1
  <1>3. /\ redemptions' = redemptions /\ credited' = credited /\ refunded' = refunded /\ raced' = raced
        /\ \A d \in Cards \ {c} : card'[d] = card[d]
    BY <1>2 DEF NewCard, IInv
  <1>4. \A d \in Cards \ {c} : CardInv(d)'
    BY <1>1, <1>3, CardStays DEF PaidInv
  <1>5. CardInv(c)'
    BY <1>1, <1>2, CardCreated DEF PaidInv
  <1> QED  BY <1>3, <1>4, <1>5 DEF PaidInv, Tables

LEMMA CardExpiresPaid == ASSUME IInv, PaidInv, NEW c \in Cards, CardExpires(c) PROVE PaidInv'
  <1>1. /\ card' = [card EXCEPT ![c].expired = TRUE] /\ call' = call
        /\ redemptions' = redemptions /\ credited' = credited /\ refunded' = refunded /\ raced' = raced
    BY DEF CardExpires, requestVars
  <1>2. card[c] \in Card /\ card \in [Cards -> Card]
    BY DEF IInv
  <1>3. /\ card'[c].status = card[c].status /\ card'[c].used = card[c].used /\ card'[c].max = card[c].max
        /\ \A d \in Cards \ {c} : card'[d] = card[d]
    BY <1>1, <1>2 DEF Card
  <1>4. \A d \in Cards \ {c} : CardInv(d)'
    BY <1>1, <1>3, CardStays DEF PaidInv
  <1>5. CardInv(c)'
    <2>1. Crediting(c)' = Crediting(c) /\ Redeemed(c)' = Redeemed(c)
      BY <1>1 DEF Crediting, On, Redeemed, RowsOf
    <2>2. RowsOf(redemptions[c])' = RowsOf(redemptions[c])
      BY <1>1 DEF RowsOf
    <2>3. Counted(c)'
      BY <1>1, <1>3, <2>1, <2>2 DEF PaidInv, CardInv, Counted
    <2>4. Copied(c)'
      BY <1>1, <1>3 DEF PaidInv, CardInv, Copied, On
    <2>5. c \notin raced' => Settles(c)'
      BY <1>1, <1>3, <2>1 DEF PaidInv, CardInv, Settles, On
    <2> QED  BY <2>3, <2>4, <2>5 DEF CardInv
  <1> QED  BY <1>1, <1>4, <1>5 DEF PaidInv, Tables

(* A handler begins, or ends without having changed a card.                *)
LEMMA SlotPaid ==
  ASSUME IInv, PaidInv, NEW p \in Procs,
         UNCHANGED <<card, redemptions, credited, refunded>>,
         \A c \in Cards : c \in raced => c \in raced',
         \A q \in Procs \ {p} : call'[q] = call[q],
         \A c \in Cards : /\ ~On(p, c, "credit")' /\ ~On(p, c, "close")'
                          /\ On(p, c, "close") => c \in raced'
                          /\ On(p, c, "refund")' => call'[p].copy = card[c] /\ card[c].status = "active"
  PROVE  PaidInv'
  BY CardUntouched DEF PaidInv, Tables

LEMMA StartShape ==
  ASSUME IInv, NEW p \in Procs, NEW c \in Cards, NEW u, NEW pc, Start(p, c, u, pc)
  PROVE  /\ call'[p].pc = pc /\ call'[p].card = c /\ call'[p].copy = card[c] /\ call[p] = NoCall
         /\ \A q \in Procs \ {p} : call'[q] = call[q]
  BY DEF IInv, Start, Begin

LEMMA RequestPaid == ASSUME IInv, PaidInv, NEW p \in Procs, Request(p) PROVE PaidInv'
  <1>1. ASSUME NEW c \in Cards, NEW u \in Users, Redeem(p, c, u)
        PROVE  PaidInv'
    <2>1. Start(p, c, u, "claim") /\ UNCHANGED <<card, redemptions, credited, refunded, raced>>
      BY <1>1 DEF Redeem, cardVars
    <2>2. /\ call'[p].pc = "claim" /\ call[p] = NoCall
          /\ \A q \in Procs \ {p} : call'[q] = call[q]
      BY <2>1, StartShape
    <2> QED  BY <2>1, <2>2, SlotPaid DEF On
  <1>2. ASSUME NEW c \in Cards, Revoke(p, c)
        PROVE  PaidInv'
    <2>1. PICK u \in Users : Start(p, c, u, "refund")
      BY <1>2 DEF Revoke
    <2>2. card[c].status = "active" /\ UNCHANGED <<card, redemptions, credited, refunded, raced>>
      BY <1>2 DEF Revoke, cardVars
    <2>3. /\ call'[p].pc = "refund" /\ call'[p].card = c /\ call'[p].copy = card[c] /\ call[p] = NoCall
          /\ \A q \in Procs \ {p} : call'[q] = call[q]
      BY <2>1, StartShape
    <2> QED  BY <2>2, <2>3, SlotPaid DEF On
  <1>3. ASSUME NEW pc \in {"freeze", "unfreeze"}, ReadWallet(p, pc)
        PROVE  PaidInv'
    <2>1. UNCHANGED <<card, redemptions, credited, refunded, raced>>
      BY <1>3 DEF ReadWallet, cardVars
    <2>2. /\ call'[p].pc = pc /\ call[p] = NoCall
          /\ \A q \in Procs \ {p} : call'[q] = call[q]
      BY <1>3 DEF IInv, ReadWallet, Begin
    <2> QED  BY <2>1, <2>2, SlotPaid DEF On
  <1> QED  BY <1>1, <1>2, <1>3 DEF Request

LEMMA EndShape ==
  ASSUME IInv, NEW p \in Procs, call' = [call EXCEPT ![p] = NoCall]
  PROVE  call'[p] = NoCall /\ \A q \in Procs \ {p} : call'[q] = call[q]
  BY DEF IInv

LEMMA DiePaid == ASSUME IInv, PaidInv, NEW p \in Procs, Die(p) PROVE PaidInv'
  <1>1. /\ call' = [call EXCEPT ![p] = NoCall] /\ UNCHANGED <<card, redemptions, credited, refunded>>
        /\ raced' = IF At(p, "close") THEN raced \cup {call[p].card} ELSE raced
    BY DEF Die, Dies
  <1>2. call'[p] = NoCall /\ \A q \in Procs \ {p} : call'[q] = call[q]
    BY <1>1, EndShape
  <1>3. \A c \in Cards : On(p, c, "close") => c \in raced'
    BY <1>1 DEF On, At
  <1> QED  BY <1>1, <1>2, <1>3, SlotPaid DEF On

LEMMA SaveWalletPaid == ASSUME IInv, PaidInv, NEW p \in Procs, SaveWallet(p) PROVE PaidInv'
  <1>1. /\ call' = [call EXCEPT ![p] = NoCall] /\ UNCHANGED <<card, redemptions, credited, refunded, raced>>
        /\ call[p].pc \in {"freeze", "unfreeze"}
    BY DEF SaveWallet, End, GotoState, cardVars, At
  <1>2. call'[p] = NoCall /\ \A q \in Procs \ {p} : call'[q] = call[q]
    BY <1>1, EndShape
  <1> QED  BY <1>1, <1>2, SlotPaid DEF On

LEMMA GotoShape ==
  ASSUME IInv, NEW p \in Procs, call[p] \in Call, NEW pc, Goto(p, pc)
  PROVE  /\ call'[p].pc = pc /\ call'[p].card = call[p].card /\ call'[p].copy = call[p].copy
         /\ call'[p] = [call[p] EXCEPT !.pc = pc]
         /\ \A q \in Procs \ {p} : call'[q] = call[q]
  BY DEF IInv, Goto, GotoState, Call

(* A claim is one more row, and one more use, under the card's lock.       *)
LEMMA ClaimCounted ==
  ASSUME IInv, PaidInv, NEW p \in Procs, NEW c \in Cards, NEW u \in Users,
         call[p] \in Call, On(p, c, "claim"),
         card[c].status = "active", card[c].used < card[c].max,
         card' = [card EXCEPT ![c].used = card[c].used + 1,
                    ![c].status = IF card[c].used + 1 >= card[c].max THEN "exhausted" ELSE @],
         redemptions' = [redemptions EXCEPT ![c][u] = @ + 1],
         NoteRace(c, p), Goto(p, "credit"), UNCHANGED <<credited, refunded>>
  PROVE  PaidInv'
  <1>1. card[c] \in Card /\ card \in [Cards -> Card] /\ card[c].used \in Nat /\ card[c].max \in Nat
    BY CardFields DEF IInv
  <1>2. /\ card'[c].used = card[c].used + 1 /\ card'[c].max = card[c].max
        /\ card'[c].status \in {"active", "exhausted"}
        /\ \A d \in Cards \ {c} : card'[d] = card[d]
    BY <1>1 DEF Card
  <1>3. redemptions \in [Cards -> [Users -> Nat]] /\ CardInv(c)
    BY DEF PaidInv, Tables
  <1>4. redemptions'[c] = [redemptions[c] EXCEPT ![u] = @ + 1]
        /\ (\A d \in Cards \ {c} : redemptions'[d] = redemptions[d])
    BY <1>3
  <1>5. /\ redemptions'[c] \in [Users -> Nat] /\ IsFiniteSet(RowsOf(redemptions[c])')
        /\ Redeemed(c)' = Redeemed(c) + 1
    <2>1. redemptions[c] \in [Users -> Nat] /\ IsFiniteSet(RowsOf(redemptions[c]))
      BY <1>3 DEF CardInv, Counted
    <2>2. PICK s : s = [redemptions[c] EXCEPT ![u] = @ + 1]
      OBVIOUS
    <2>3. s \in [Users -> Nat] /\ IsFiniteSet(RowsOf(s))
          /\ Cardinality(RowsOf(s)) = Cardinality(RowsOf(redemptions[c])) + 1
      BY <2>1, <2>2, RowAdded
    <2>4. RowsOf(redemptions[c])' = RowsOf(s)
      BY <1>4, <2>2 DEF RowsOf
    <2> QED  BY <1>4, <2>2, <2>3, <2>4 DEF Redeemed
  <1>6. /\ call'[p].pc = "credit" /\ call'[p].card = c /\ call'[p] # NoCall
        /\ \A q \in Procs \ {p} : call'[q] = call[q]
    <2>1. /\ call'[p].pc = "credit" /\ call'[p].card = c
          /\ call'[p] = [call[p] EXCEPT !.pc = "credit"]
          /\ \A q \in Procs \ {p} : call'[q] = call[q]
      BY GotoShape DEF On
    <2>2. [call[p] EXCEPT !.pc = "credit"] \in Call
      BY DEF Call
    <2> QED  BY <2>1, <2>2, NoCallIsNone
  <1>7. \A q \in Procs \ {p} : \A d, pc : On(q, d, pc)' <=> On(q, d, pc)
    BY <1>6 DEF On
  <1>8. ASSUME NEW d \in Cards, d # c
        PROVE  CardInv(d)'
    <2>1. ~On(p, d, "credit")' /\ ~On(p, d, "close")' /\ ~On(p, d, "refund")' /\ ~On(p, d, "close")
      BY <1>6, <1>8 DEF On
    <2>2. d \in raced => d \in raced'
      BY NotedElsewhere
    <2> QED  BY <1>2, <1>4, <1>6, <1>8, <2>1, <2>2, CardUntouched DEF PaidInv
  <1>9. Counted(c)'
    <2>1. Crediting(c)' = Crediting(c) \cup {p} /\ p \notin Crediting(c)
      BY <1>6, <1>7 DEF Crediting, On
    <2>2. Counted(c)
      BY <1>3 DEF CardInv
    <2>3. /\ Cardinality(Crediting(c)') = Cardinality(Crediting(c)) + 1 /\ IsFiniteSet(Crediting(c)')
          /\ Cardinality(Crediting(c)) \in Nat
      BY <2>1, <2>2, FS_AddElement, FS_CardinalityType DEF Counted
    <2>4. Redeemed(c) \in Nat /\ card[c].used = Redeemed(c)
      BY <2>2, FS_CardinalityType DEF Counted, Redeemed
    <2> QED  BY <1>1, <1>2, <1>5, <2>2, <2>3, <2>4 DEF Counted
  <1>10. Copied(c)'
    BY <1>2, <1>3, <1>6, <1>7 DEF CardInv, Copied, On
  <1>11. ASSUME c \notin raced'
         PROVE  Settles(c)'
    <2>1. c \notin raced /\ \A q \in Procs \ {p} : ~On(q, c, "refund") /\ ~On(q, c, "close")
      BY <1>11, NotedOrAlone
    <2>2. \A q \in Procs : ~On(q, c, "refund")' /\ ~On(q, c, "close")'
      BY <1>6, <1>7, <2>1 DEF On
    <2>3. refunded[c] = 0
      BY <1>3, <2>1 DEF CardInv, Settles, On
    <2> QED  BY <1>2, <2>2, <2>3 DEF Settles
  <1>12. CardInv(c)'
    BY <1>9, <1>10, <1>11 DEF CardInv
  <1>13. Tables'
    BY <1>3, <1>4, <1>5 DEF PaidInv, Tables
  <1> QED  BY <1>8, <1>12, <1>13 DEF PaidInv

LEMMA ClaimPaid == ASSUME IInv, PaidInv, NEW p \in Procs, Claim(p) PROVE PaidInv'
  <1>1. call[p] # NoCall /\ call[p].pc = "claim" /\ UNCHANGED <<credited, refunded>>
    BY DEF Claim, At
  <1>2. PICK c \in Cards : c = call[p].card /\ call[p] \in Call
    BY <1>1, CardCall
  <1>3. PICK u \in Users : u = call[p].user
    BY <1>2 DEF Call
  <1>4. On(p, c, "claim")
    BY <1>1, <1>2 DEF On
  <1>5. CASE End(p) /\ UNCHANGED <<card, redemptions, raced>>
    <2>1. call'[p] = NoCall /\ \A q \in Procs \ {p} : call'[q] = call[q]
      BY <1>5, EndShape DEF End, GotoState
    <2> QED  BY <1>1, <1>5, <2>1, SlotPaid DEF On
  <1>6. CASE ~(End(p) /\ UNCHANGED <<card, redemptions, raced>>)
    <2>1. /\ card[c].status = "active" /\ card[c].used < card[c].max
          /\ card' = [card EXCEPT ![c].used = card[c].used + 1,
                        ![c].status = IF card[c].used + 1 >= card[c].max THEN "exhausted" ELSE @]
          /\ redemptions' = [redemptions EXCEPT ![c][u] = @ + 1]
          /\ NoteRace(c, p) /\ Goto(p, "credit")
      BY <1>2, <1>3, <1>6 DEF Claim
    <2> QED  BY <1>1, <1>2, <1>4, <2>1, ClaimCounted
  <1> QED  BY <1>5, <1>6

LEMMA CreditUserPaid == ASSUME IInv, PaidInv, NEW p \in Procs, CreditUser(p) PROVE PaidInv'
  <1>1. /\ call[p] # NoCall /\ call[p].pc = "credit" /\ UNCHANGED <<card, redemptions, refunded, raced>>
        /\ credited' = [credited EXCEPT ![call[p].card] = @ + 1]
        /\ call' = [call EXCEPT ![p] = NoCall]
    BY DEF CreditUser, At, End, GotoState
  <1>2. PICK c \in Cards : c = call[p].card
    BY <1>1, CardCall
  <1>3. call'[p] = NoCall /\ \A q \in Procs \ {p} : call'[q] = call[q]
    BY <1>1, EndShape
  <1>4. \A q \in Procs \ {p} : \A d, pc : On(q, d, pc)' <=> On(q, d, pc)
    BY <1>3 DEF On
  <1>5. /\ credited \in [Cards -> Nat] /\ credited'[c] = credited[c] + 1
        /\ \A d \in Cards \ {c} : credited'[d] = credited[d]
    BY <1>1, <1>2 DEF PaidInv, Tables
  <1>6. ASSUME NEW d \in Cards, d # c
        PROVE  CardInv(d)'
    <2>1. \A pc : ~On(p, d, pc)' /\ ~On(p, d, pc)
      BY <1>1, <1>2, <1>3, <1>6 DEF On
    <2> QED  BY <1>1, <1>3, <1>5, <1>6, <2>1, CardUntouched DEF PaidInv
  <1>7. CardInv(c)
    BY DEF PaidInv
  <1>8. Redeemed(c)' = Redeemed(c) /\ RowsOf(redemptions[c])' = RowsOf(redemptions[c])
    BY <1>1 DEF Redeemed, RowsOf
  <1>9. Counted(c)'
    <2>1. Crediting(c)' = Crediting(c) \ {p} /\ p \in Crediting(c)
      BY <1>1, <1>2, <1>3, <1>4 DEF Crediting, On
    <2>2. Counted(c)
      BY <1>7 DEF CardInv
    <2>3. /\ Cardinality(Crediting(c)') = Cardinality(Crediting(c)) - 1 /\ IsFiniteSet(Crediting(c)')
          /\ Cardinality(Crediting(c)) \in Nat
      BY <2>1, <2>2, FS_RemoveElement, FS_CardinalityType DEF Counted
    <2>4. credited[c] \in Nat /\ Redeemed(c) \in Nat
      BY <2>2, FS_CardinalityType DEF Counted, Redeemed
    <2> QED  BY <1>1, <1>5, <1>8, <2>2, <2>3, <2>4 DEF Counted
  <1>10. \A q \in Procs : (On(q, c, "close")' <=> On(q, c, "close"))
                          /\ (On(q, c, "refund")' <=> On(q, c, "refund"))
    BY <1>1, <1>3, <1>4 DEF On
  <1>11. Copied(c)'
    BY <1>1, <1>3, <1>7, <1>10 DEF CardInv, Copied, On
  <1>12. c \notin raced' => Settles(c)'
    BY <1>1, <1>3, <1>7, <1>8, <1>10 DEF CardInv, Settles, On
  <1>13. CardInv(c)'
    BY <1>9, <1>11, <1>12 DEF CardInv
  <1>14. Tables'
    BY <1>1, <1>2 DEF PaidInv, Tables
  <1> QED  BY <1>6, <1>13, <1>14 DEF PaidInv

(* A refund: if the card has not been raced, this is the only revocation   *)
(* at work, and it returns what is left.                                   *)
LEMMA RefundPaid == ASSUME IInv, PaidInv, NEW p \in Procs, Refund(p) PROVE PaidInv'
  <1>1. /\ call[p] # NoCall /\ call[p].pc = "refund" /\ UNCHANGED <<card, redemptions, credited>>
        /\ refunded' = [refunded EXCEPT ![call[p].card] = @ + RefundOf(call[p].copy)]
        /\ NoteRace(call[p].card, p) /\ Goto(p, "close")
    BY DEF Refund, At
  <1>2. PICK c \in Cards : c = call[p].card /\ call[p] \in Call /\ call[p].copy \in Card
                           /\ call[p].copy.used <= call[p].copy.max
    BY <1>1, CardCall
  <1>3. PICK amount \in Nat : amount = RefundOf(call[p].copy)
    BY <1>2, RefundIsNat
  <1>4. /\ call'[p].pc = "close" /\ call'[p].card = c /\ call'[p].copy = call[p].copy
        /\ \A q \in Procs \ {p} : call'[q] = call[q]
    BY <1>1, <1>2, GotoShape
  <1>5. \A q \in Procs \ {p} : \A d, pc : On(q, d, pc)' <=> On(q, d, pc)
    BY <1>4 DEF On
  <1>6. /\ refunded \in [Cards -> Nat] /\ refunded'[c] = refunded[c] + amount
        /\ \A d \in Cards \ {c} : refunded'[d] = refunded[d]
    BY <1>1, <1>2, <1>3 DEF PaidInv, Tables
  <1>7. On(p, c, "refund") /\ CardInv(c)
    BY <1>1, <1>2 DEF On, PaidInv
  <1>8. ASSUME NEW d \in Cards, d # c
        PROVE  CardInv(d)'
    <2>1. ~On(p, d, "credit")' /\ ~On(p, d, "close")' /\ ~On(p, d, "refund")' /\ ~On(p, d, "close")
      BY <1>1, <1>4, <1>8 DEF On
    <2>2. d \in raced => d \in raced'
      BY <1>1, NotedElsewhere
    <2> QED  BY <1>1, <1>4, <1>6, <1>8, <2>1, <2>2, CardUntouched DEF PaidInv
  <1>9. Redeemed(c)' = Redeemed(c) /\ RowsOf(redemptions[c])' = RowsOf(redemptions[c])
    BY <1>1 DEF Redeemed, RowsOf
  <1>10. card[c].status # "absent" /\ call[p].copy.max = card[c].max
    BY <1>7 DEF CardInv, Copied
  <1>11. Counted(c)'
    <2>1. Crediting(c)' = Crediting(c)
      BY <1>1, <1>4, <1>5 DEF Crediting, On
    <2> QED  BY <1>1, <1>6, <1>7, <1>9, <1>10, <2>1 DEF CardInv, Counted
  <1>12. Copied(c)'
    BY <1>1, <1>4, <1>5, <1>7, <1>10 DEF CardInv, Copied
  <1>13. ASSUME c \notin raced'
         PROVE  Settles(c)'
    <2>1. c \notin raced /\ \A q \in Procs \ {p} : ~On(q, c, "refund") /\ ~On(q, c, "close")
      BY <1>1, <1>2, <1>13, NotedOrAlone
    <2>2. Settles(c)
      BY <1>7, <2>1 DEF CardInv
    <2>3. card[c].status # "revoked" /\ call[p].copy.used = card[c].used
      BY <1>7, <2>2 DEF Settles
    <2>4. ~On(p, c, "close")
      BY <1>7 DEF On
    <2>5. refunded[c] = 0
      BY <2>1, <2>2, <2>3, <2>4 DEF Settles
    <2>6. refunded'[c] = (card[c].max - card[c].used) * Value
      BY <1>3, <1>6, <1>10, <2>3, <2>5 DEF RefundOf
    <2>7. \A q \in Procs \ {p} : ~On(q, c, "refund")' /\ ~On(q, c, "close")'
      BY <1>5, <2>1
    <2>8. call[p] \in Call => call'[p].copy.used = card[c].used
      BY <1>4, <2>3
    <2>9. On(p, c, "close")'
      <3>1. [call[p] EXCEPT !.pc = "close"] \in Call
        BY <1>2 DEF Call
      <3>2. call'[p] # NoCall
        BY <1>1, <1>2, <3>1, GotoShape, NoCallIsNone
      <3> QED  BY <1>4, <3>2 DEF On
    <2> QED  BY <1>1, <1>2, <2>3, <2>6, <2>7, <2>8, <2>9 DEF Settles
  <1>14. CardInv(c)'
    BY <1>11, <1>12, <1>13 DEF CardInv
  <1>15. Tables'
    BY <1>1, <1>2, <1>3, <1>6 DEF PaidInv, Tables
  <1> QED  BY <1>8, <1>14, <1>15 DEF PaidInv

(* The copy is saved: nobody claims the card any more, and if it has not   *)
(* been raced what was redeemed and refunded is its price.                 *)
LEMMA CloseCardPaid == ASSUME IInv, PaidInv, NEW p \in Procs, CloseCard(p) PROVE PaidInv'
  <1>1. /\ call[p] # NoCall /\ call[p].pc = "close" /\ UNCHANGED <<redemptions, credited, refunded>>
        /\ card' = [card EXCEPT ![call[p].card] = [call[p].copy EXCEPT !.status = "revoked"]]
        /\ NoteRace(call[p].card, p) /\ call' = [call EXCEPT ![p] = NoCall]
    BY DEF CloseCard, At, End, GotoState
  <1>2. PICK c \in Cards : c = call[p].card /\ call[p].copy \in Card
    BY <1>1, CardCall
  <1>3. call'[p] = NoCall /\ \A q \in Procs \ {p} : call'[q] = call[q]
    BY <1>1, EndShape
  <1>4. \A q \in Procs \ {p} : \A d, pc : On(q, d, pc)' <=> On(q, d, pc)
    BY <1>3 DEF On
  <1>5. On(p, c, "close") /\ CardInv(c)
    BY <1>1, <1>2 DEF On, PaidInv
  <1>6. /\ card'[c].status = "revoked" /\ card'[c].max = card[c].max
        /\ card'[c].used = call[p].copy.used /\ card[c].status # "absent"
        /\ \A d \in Cards \ {c} : card'[d] = card[d]
    <2>1. card[c].status # "absent" /\ call[p].copy.max = card[c].max
      BY <1>5 DEF CardInv, Copied
    <2>2. PICK x \in Card : x = [call[p].copy EXCEPT !.status = "revoked"]
      BY <1>2 DEF Card
    <2>3. x.status = "revoked" /\ x.max = call[p].copy.max /\ x.used = call[p].copy.used
      BY <1>2, <2>2 DEF Card
    <2>4. card \in [Cards -> Card] /\ card' = [card EXCEPT ![c] = x]
      BY <1>1, <1>2, <2>2 DEF IInv
    <2> QED  BY <2>1, <2>3, <2>4
  <1>7. ASSUME NEW d \in Cards, d # c
        PROVE  CardInv(d)'
    <2>1. \A pc : ~On(p, d, pc)' /\ ~On(p, d, pc)
      BY <1>1, <1>2, <1>3, <1>7 DEF On
    <2>2. d \in raced => d \in raced'
      BY <1>1, NotedElsewhere
    <2> QED  BY <1>1, <1>3, <1>6, <1>7, <2>1, <2>2, CardUntouched DEF PaidInv
  <1>8. Redeemed(c)' = Redeemed(c) /\ RowsOf(redemptions[c])' = RowsOf(redemptions[c])
    BY <1>1 DEF Redeemed, RowsOf
  <1>9. Counted(c)'
    <2>1. Crediting(c)' = Crediting(c)
      BY <1>1, <1>3, <1>4 DEF Crediting, On
    <2> QED  BY <1>1, <1>5, <1>6, <1>8, <2>1 DEF CardInv, Counted
  <1>10. Copied(c)'
    BY <1>3, <1>4, <1>5, <1>6 DEF CardInv, Copied, On
  <1>11. ASSUME c \notin raced'
         PROVE  Settles(c)'
    <2>1. c \notin raced /\ \A q \in Procs \ {p} : ~On(q, c, "refund") /\ ~On(q, c, "close")
      BY <1>1, <1>2, <1>11, NotedOrAlone
    <2>2. Settles(c) /\ Counted(c)
      BY <1>5, <2>1 DEF CardInv
    <2>3. card[c].status # "revoked" /\ refunded[c] = (card[c].max - card[c].used) * Value
      BY <1>5, <2>2 DEF Settles
    <2>4. card[c].used = Redeemed(c) /\ card[c].used \in Nat /\ card[c].max \in Nat
          /\ card[c].used <= card[c].max
      BY <2>2, <2>3, CardFields DEF Counted, IInv
    <2>5. Redeemed(c) * Value + refunded[c] = card[c].max * Value
      BY <2>3, <2>4, PriceSplits
    <2>6. \A q \in Procs : \A pc \in {"refund", "close"} : ~On(q, c, pc)'
      BY <1>3, <1>4, <2>1 DEF On
    <2> QED  BY <1>1, <1>6, <1>8, <2>5, <2>6 DEF Settles
  <1>12. CardInv(c)'
    BY <1>9, <1>10, <1>11 DEF CardInv
  <1>13. Tables'
    BY <1>1 DEF PaidInv, Tables
  <1> QED  BY <1>7, <1>12, <1>13 DEF PaidInv

-----------------------------------------------------------------------------
LEMMA CardsIdle ==
  ASSUME IInv, PaidInv, UNCHANGED <<cardVars, call>>
  PROVE  PaidInv'
  BY CardStays DEF PaidInv, Tables, cardVars

LEMMA NextPaid == IInv /\ PaidInv /\ [Next]_vars => PaidInv'
  <1> SUFFICES ASSUME IInv, PaidInv, [Next]_vars
               PROVE  PaidInv'
    OBVIOUS
  <1>1. ASSUME NEW p \in Procs, Request(p) \/ Step(p) \/ Die(p)
        PROVE  PaidInv'
    BY <1>1, RequestPaid, DiePaid, ClaimPaid, CreditUserPaid, RefundPaid, CloseCardPaid, SaveWalletPaid
       DEF Step
  <1>2. CASE CreditCompany \/ DebitCompany
    BY <1>2, CardsIdle DEF CreditCompany, DebitCompany, OneStep
  <1>3. CASE Create
    BY <1>3, CreatePaid
  <1>4. ASSUME NEW c \in Cards, CardExpires(c)
        PROVE  PaidInv'
    BY <1>4, CardExpiresPaid
  <1>5. CASE UNCHANGED <<cardVars, moneyVars, requestVars>>
    BY <1>5, CardsIdle DEF requestVars
  <1>6. CASE UNCHANGED vars
    BY <1>5, <1>6 DEF vars
  <1> QED  BY <1>1, <1>2, <1>3, <1>4, <1>5, <1>6 DEF Next

(* What has been redeemed and refunded of a card.                          *)
LEMMA PaidOut ==
  ASSUME IInv, PaidInv, NEW c \in Cards
  PROVE  /\ credited[c] <= Redeemed(c) /\ Redeemed(c) <= card[c].max
         /\ c \notin raced =>
              /\ Redeemed(c) * Value + refunded[c] <= card[c].max * Value
              /\ card[c].status = "revoked" => Redeemed(c) * Value + refunded[c] = card[c].max * Value
  <1>1. Counted(c) /\ (c \notin raced => Settles(c))
    BY DEF PaidInv, CardInv
  <1>2. /\ Redeemed(c) \in Nat /\ Cardinality(Crediting(c)) \in Nat /\ credited[c] \in Nat
        /\ card[c].max \in Nat /\ card[c].used \in Nat
    BY <1>1, FS_CardinalityType, CardFields DEF Counted, Redeemed, IInv
  <1>3. credited[c] <= Redeemed(c) /\ Redeemed(c) <= card[c].max
    BY <1>1, <1>2 DEF Counted
  <1>4. ASSUME c \notin raced, card[c].status # "revoked"
        PROVE  Redeemed(c) * Value + refunded[c] <= card[c].max * Value
    <2>1. refunded[c] = 0 \/ refunded[c] = (card[c].max - card[c].used) * Value
      BY <1>1, <1>4 DEF Settles
    <2>2. card[c].used = Redeemed(c)
      BY <1>1, <1>4 DEF Counted
    <2>3. PICK r \in Nat, m \in Nat : r = Redeemed(c) /\ m = card[c].max /\ r <= m
      BY <1>2, <1>3
    <2>4. r * Value <= m * Value /\ r * Value \in Nat /\ m * Value \in Nat
          /\ r * Value + (m - r) * Value = m * Value
      BY <2>3, PriceSplits
    <2> QED  BY <2>1, <2>2, <2>3, <2>4
  <1>5. ASSUME c \notin raced, card[c].status = "revoked"
        PROVE  /\ Redeemed(c) * Value + refunded[c] <= card[c].max * Value
               /\ Redeemed(c) * Value + refunded[c] = card[c].max * Value
    <2>1. Redeemed(c) * Value + refunded[c] = card[c].max * Value
      BY <1>1, <1>5 DEF Settles
    <2>2. card[c].max * Value \in Nat
      BY <1>2, PriceSplits
    <2> QED  BY <2>1, <2>2
  <1> QED  BY <1>3, <1>4, <1>5

(* However claims, credits and revocations overlap, a card is claimed no   *)
(* more often than it may be and credited at most once per claim; and one  *)
(* whose revocation nobody disturbed pays out exactly its price; for any   *)
(* number of cards, users, vaults and handlers in flight.                  *)
THEOREM CardPaysOut == Spec => []PaysOutWhatWasPaid
  <1>1. IInv /\ PaidInv => PaysOutWhatWasPaid
    BY PaidOut DEF PaysOutWhatWasPaid
  <1>2. Init => IInv /\ PaidInv
    BY InitIInv, PaidInit
  <1>3. IInv /\ PaidInv /\ [Next]_vars => (IInv /\ PaidInv)'
    BY NextIInv, NextPaid
  <1> QED  BY <1>1, <1>2, <1>3, PTL DEF Spec
===============================================================================
