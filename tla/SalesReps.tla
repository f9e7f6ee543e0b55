------------------------------ MODULE SalesReps ------------------------------
(***************************************************************************)
(* Sales reps (sales-rep.service.ts) and their referrals                   *)
(* (referrals.service.ts): application, onboarding, referral code, the     *)
(* reward of each referred signup and the cash payouts that cover them.    *)
(* Rows are read, changed in memory and saved whole: what another handler  *)
(* saved in between is overwritten.  reviewed remembers the referrals for  *)
(* which that happened, or that two payouts were opened for at a time.     *)
(***************************************************************************)
EXTENDS Requests, Functions

CONSTANTS
  Agents,        \* the people who apply
  Referrals,     \* signups with a code, at most one referral per signup
  CashPayouts,
  RuleValues     \* values a reward rule may take

VARIABLES
  agent,         \* application, profile and referral code of each person
  questions,     \* is an assessment question active?
  rule,          \* value of the reward rule in force
  referral,
  payout,
  disbursed,     \* referral -> payouts approved that covered it
  reviewed

salesVars == <<agent, questions, rule, referral, payout, disbursed, reviewed>>

ASSUME RuleValuesOK == RuleValues \subseteq Nat

Unset == 0 - 1
NoAgent == "noAgent"
Agent == [application : {"none", "new", "accepted", "rejected"},
          profile : {"none", "onboarding", "active", "suspended"},
          passed : BOOLEAN, code : BOOLEAN, archived : BOOLEAN, fieldRep : BOOLEAN]
Referral == [status : {"none", "pending", "available", "paid", "rejected", "clawed_back"},
             referrer : Agents \cup {NoAgent}, value : RuleValues \cup {Unset},
             amount : RuleValues \cup {Unset}, late : BOOLEAN]
CashPayout == [status : {"none", "pending", "completed", "failed"}, agent : Agents \cup {NoAgent},
               covers : SUBSET Referrals, amount : Nat]

(* At the start a person is unknown, or has been through the onboarding.   *)
Stranger == [application |-> "none", profile |-> "none", passed |-> FALSE,
             code |-> FALSE, archived |-> FALSE, fieldRep |-> FALSE]
TrainedRep == [Stranger EXCEPT !.application = "accepted", !.profile = "active",
                               !.passed = TRUE, !.code = TRUE]

SalesInit ==
  /\ agent \in [Agents -> {Stranger, TrainedRep}]
  /\ questions = TRUE /\ rule \in RuleValues
  /\ referral = [r \in Referrals |-> [status |-> "none", referrer |-> NoAgent, value |-> Unset,
                                      amount |-> Unset, late |-> FALSE]]
  /\ payout = [k \in CashPayouts |-> [status |-> "none", agent |-> NoAgent, covers |-> {}, amount |-> 0]]
  /\ disbursed = [r \in Referrals |-> 0] /\ reviewed = {}

HasProfile(a) == agent[a].profile # "none"
Open(a)       == {k \in CashPayouts : payout[k].agent = a /\ payout[k].status = "pending"}
Available(a)  == {r \in Referrals : referral[r].referrer = a /\ referral[r].status = "available"}
Worth(rs)     == SumFunctionOnSet([r \in Referrals |-> referral[r].amount], rs)

-----------------------------------------------------------------------------
(* Applications: accepting one that was accepted changes nothing, and is   *)
(* refused when a new account's phone is taken; rejecting one has no       *)
(* condition, and leaves the profile of an accepted one.                   *)
Apply(a) ==
  /\ OneStep
  /\ agent[a].application = "none"
  /\ agent' = [agent EXCEPT ![a].application = "new"]
  /\ UNCHANGED <<questions, rule, referral, payout, disbursed, reviewed>>

AcceptApplication(a) ==
  /\ OneStep
  /\ agent[a].application \in {"new", "rejected"}
  /\ agent' = [agent EXCEPT ![a].application = "accepted",
                            ![a].profile = IF @ = "none" THEN "onboarding" ELSE @]
  /\ UNCHANGED <<questions, rule, referral, payout, disbursed, reviewed>>

RejectApplication(a) ==
  /\ OneStep
  /\ agent[a].application \in {"new", "accepted"}
  /\ agent' = [agent EXCEPT ![a].application = "rejected"]
  /\ UNCHANGED <<questions, rule, referral, payout, disbursed, reviewed>>

(* The assessment is edited: it has an active question, or none.           *)
EditQuestions(active) ==
  /\ OneStep
  /\ questions' = active
  /\ UNCHANGED <<agent, rule, referral, payout, disbursed, reviewed>>

(* suspendSalesRep, reactivateSalesRep, deleteSalesRep, upgradeToWashRep   *)
(* and submitAssessment: the profile changed in memory ...                 *)
ChangeProfile(p, a, change) ==
  /\ HasProfile(a)
  /\ Begin(p, [pc |-> "profile", agent |-> a, row |-> change])
  /\ UNCHANGED salesVars

Suspend(p, a)    == ChangeProfile(p, a, [agent[a] EXCEPT !.profile = "suspended"])
Reactivate(p, a) == ChangeProfile(p, a, [agent[a] EXCEPT !.profile = "active", !.archived = FALSE])
Delete(p, a)     == ChangeProfile(p, a, [agent[a] EXCEPT !.profile = "suspended", !.archived = TRUE])
Upgrade(p, a)    == ChangeProfile(p, a, [agent[a] EXCEPT !.fieldRep = TRUE])
SubmitAssessment(p, a, pass) ==
  /\ questions
  /\ ChangeProfile(p, a, IF pass /\ ~agent[a].passed
                         THEN [agent[a] EXCEPT !.passed = TRUE, !.profile = "active"] ELSE agent[a])

(* ... and saved; who has passed gets the code next.                       *)
SaveProfile(p) ==
  /\ At(p, "profile")
  /\ LET c == call[p] IN
       /\ agent' = [agent EXCEPT ![c.agent] = [c.row EXCEPT !.application = agent[c.agent].application,
                                                            !.code = agent[c.agent].code]]
       /\ IF c.row.passed THEN Goto(p, "code") ELSE End(p)
  /\ UNCHANGED <<questions, rule, referral, payout, disbursed, reviewed>>

(* issueCode: the only one of the owner.                                   *)
IssueCode(p) ==
  /\ At(p, "code")
  /\ agent' = [agent EXCEPT ![call[p].agent].code = TRUE]
  /\ End(p)
  /\ UNCHANGED <<questions, rule, referral, payout, disbursed, reviewed>>

-----------------------------------------------------------------------------
UpsertRule(v) ==
  /\ OneStep
  /\ rule' = v
  /\ UNCHANGED <<agent, questions, referral, payout, disbursed, reviewed>>

(* attribute: the rule's value is written to the referral.                 *)
Attribute(r, a) ==
  /\ OneStep
  /\ agent[a].code /\ referral[r].status = "none"
  /\ referral' = [referral EXCEPT ![r] = [@ EXCEPT !.status = "pending", !.referrer = a, !.value = rule]]
  /\ UNCHANGED <<agent, questions, rule, payout, disbursed, reviewed>>

(* The correction window closes.                                           *)
WindowCloses(r) ==
  /\ OneStep
  /\ referral[r].status \in {"available", "rejected"} /\ ~referral[r].late
  /\ referral' = [referral EXCEPT ![r].late = TRUE]
  /\ UNCHANGED <<agent, questions, rule, payout, disbursed, reviewed>>

(* A handler that changes referrals: the rows it will save ...             *)
ReadReferrals(p, rows) ==
  /\ Begin(p, [pc |-> "referrals", rows |-> rows, read |-> [r \in DOMAIN rows |-> referral[r]]])
  /\ UNCHANGED salesVars

Qualify(p, r) ==    \* onRefereeQualified: the reward is that of the rule now in force
  /\ referral[r].status = "pending"
  /\ ReadReferrals(p, [x \in {r} |-> [referral[r] EXCEPT !.status = "available", !.amount = rule]])
Reject(p, r, fraud) ==
  /\ referral[r].status \in {"pending", "available", "rejected"} /\ (fraud \/ ~referral[r].late)
  /\ ReadReferrals(p, [x \in {r} |-> [referral[r] EXCEPT !.status = "rejected"]])
Adjust(p, r, v) ==
  /\ referral[r].status \in {"pending", "available", "rejected"} /\ ~referral[r].late
  /\ ReadReferrals(p, [x \in {r} |-> [referral[r] EXCEPT !.amount = v]])
ClawBack(p, r) ==
  /\ referral[r].status = "paid"
  /\ ReadReferrals(p, [x \in {r} |-> [referral[r] EXCEPT !.status = "clawed_back"]])
Reconcile(p, v, w) ==   \* reconcileRewardValue: paid ones too
  LET matches == {r \in Referrals : referral[r].value = v} IN
  /\ matches # {}
  /\ ReadReferrals(p, [r \in matches |->
       [referral[r] EXCEPT !.value = w, !.amount = IF @ = v THEN w ELSE @]])

(* ... are saved.                                                          *)
SaveReferrals(p) ==
  /\ At(p, "referrals")
  /\ LET c == call[p] IN
       /\ referral' = [r \in Referrals |-> IF r \in DOMAIN c.rows THEN c.rows[r] ELSE referral[r]]
       /\ reviewed' = reviewed \cup {r \in DOMAIN c.rows : referral[r] # c.read[r]}
  /\ End(p)
  /\ UNCHANGED <<agent, questions, rule, payout, disbursed>>

-----------------------------------------------------------------------------
(* requestPayout: all that is available, unless a payout is open ...       *)
RequestPayout(p, a) ==
  /\ agent[a].passed /\ agent[a].profile = "active" /\ Open(a) = {}
  /\ Worth(Available(a)) > 0
  /\ Begin(p, [pc |-> "payout", agent |-> a, row |-> agent[a], covers |-> Available(a),
               amount |-> Worth(Available(a))])
  /\ UNCHANGED salesVars

(* ... the profile is saved with the bank account, and the payout.         *)
SavePayout(p, k) ==
  /\ At(p, "payout") /\ payout[k].status = "none"
  /\ LET c == call[p] IN
       /\ agent' = [agent EXCEPT ![c.agent] = [c.row EXCEPT !.application = agent[c.agent].application]]
       /\ payout' = [payout EXCEPT ![k] = [status |-> "pending", agent |-> c.agent,
                                           covers |-> c.covers, amount |-> c.amount]]
       /\ reviewed' = reviewed \cup {r \in c.covers : Open(c.agent) # {} \/ referral[r].status # "available"}
  /\ End(p)
  /\ UNCHANGED <<questions, rule, referral, disbursed>>

(* approvePayout: the money was transferred; in one transaction the        *)
(* covered referrals that are still available become paid.                 *)
ReadPayout(p, k, decision) ==
  /\ payout[k].status \in (IF decision = "approve" THEN {"pending"} ELSE {"pending", "failed"})
  /\ Begin(p, [pc |-> decision, payout |-> k])
  /\ UNCHANGED salesVars

(* Mutant of ApprovePayout: the covered referrals stay available.          *)
ApproveOnly(p) ==
  /\ At(p, "approve")
  /\ LET k == call[p].payout IN
       /\ payout' = [payout EXCEPT ![k].status = "completed"]
       /\ disbursed' = [r \in Referrals |-> disbursed[r] + IF r \in payout[k].covers THEN 1 ELSE 0]
  /\ End(p)
  /\ UNCHANGED <<agent, questions, rule, referral, reviewed>>

ApprovePayout(p) ==
  /\ At(p, "approve")
  /\ LET k == call[p].payout
         rs == payout[k].covers
     IN /\ referral' = [r \in Referrals |-> IF r \in rs /\ referral[r].status = "available"
                                           THEN [referral[r] EXCEPT !.status = "paid"] ELSE referral[r]]
        /\ payout' = [payout EXCEPT ![k].status = "completed"]
        /\ disbursed' = [r \in Referrals |-> disbursed[r] + IF r \in rs THEN 1 ELSE 0]
        /\ reviewed' = IF payout[k].status = "pending" THEN reviewed ELSE reviewed \cup rs
  /\ End(p)
  /\ UNCHANGED <<agent, questions, rule>>

FailPayout(p) ==
  /\ At(p, "fail")
  /\ LET k == call[p].payout IN
       /\ payout' = [payout EXCEPT ![k].status = "failed"]
       /\ reviewed' = IF payout[k].status = "completed" THEN reviewed \cup payout[k].covers ELSE reviewed
  /\ End(p)
  /\ UNCHANGED <<agent, questions, rule, referral, disbursed>>

SalesNext ==
  \/ \E a \in Agents : Apply(a) \/ AcceptApplication(a) \/ RejectApplication(a)
  \/ \E b \in BOOLEAN : EditQuestions(b)
  \/ \E v \in RuleValues : UpsertRule(v)
  \/ \E r \in Referrals : WindowCloses(r) \/ \E a \in Agents : Attribute(r, a)
  \/ \E p \in Procs :
       \/ \E a \in Agents :
            \/ Suspend(p, a) \/ Reactivate(p, a) \/ Delete(p, a) \/ Upgrade(p, a) \/ RequestPayout(p, a)
            \/ \E b \in BOOLEAN : SubmitAssessment(p, a, b)
       \/ \E r \in Referrals :
            \/ Qualify(p, r) \/ ClawBack(p, r)
            \/ \E b \in BOOLEAN : Reject(p, r, b)
            \/ \E v \in RuleValues : Adjust(p, r, v)
       \/ \E v, w \in RuleValues : v # w /\ Reconcile(p, v, w)
       \/ \E k \in CashPayouts : SavePayout(p, k) \/ \E d \in {"approve", "fail"} : ReadPayout(p, k, d)
       \/ SaveProfile(p) \/ IssueCode(p) \/ SaveReferrals(p) \/ ApprovePayout(p) \/ FailPayout(p)
       \/ Dies(p) /\ UNCHANGED salesVars

SalesSpec == RequestsInit /\ SalesInit /\ [][SalesNext]_<<salesVars, requestVars>>

-----------------------------------------------------------------------------
SalesTypeOK ==
  /\ agent \in [Agents -> Agent] /\ questions \in BOOLEAN /\ rule \in RuleValues
  /\ referral \in [Referrals -> Referral] /\ payout \in [CashPayouts -> CashPayout]
  /\ disbursed \in [Referrals -> Nat] /\ reviewed \subseteq Referrals

(* "A rep may have at most one non-terminal payout" (sales-rep-payout.entity*)
(* .ts) is what keeps a referral from being paid for twice: no two approved *)
(* payouts cover it, and one that was rejected or clawed back does not     *)
(* become payable or paid again, unless two handlers overlapped on it.     *)
(* The money of one rejected while a payout that covers it is open still   *)
(* goes out with that payout, once: approvePayout sends the whole amount.  *)
RewardPaidOnce ==
  [][\A r \in Referrals \ reviewed' :
       /\ disbursed'[r] <= 1
       /\ referral[r].status \in {"rejected", "clawed_back"}
            => referral'[r].status = referral[r].status]_salesVars

==============================================================================
