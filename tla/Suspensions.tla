----------------------------- MODULE Suspensions -----------------------------
(***************************************************************************)
(* Suspension notices of vendors and reps (suspensions.service.ts).  A     *)
(* handler reads the notice, has another service save the subject's status *)
(* when it is to change, and saves the notice as it was read but for what  *)
(* it decided.  unsettled remembers the subjects for which the two writes  *)
(* are not one decision: the status was last set without a notice, or the  *)
(* last decision overlapped another, stopped in the middle, found its      *)
(* notice changed or left another one enforced.                            *)
(***************************************************************************)
EXTENDS Requests

CONSTANTS Subjects, NoticeIds

VARIABLES
  standing,   \* vendor's verificationStatus or rep's status
  notice,     \* suspension_notices
  unsettled

suspensionVars == <<standing, notice, unsettled>>

NoSubject == "no subject"
Standings == {"active", "pending", "suspended"}
Notice == [status : {"none", "notice", "withdrawn", "suspended", "under_review", "reinstated"},
           subject : Subjects \cup {NoSubject}, immediate : BOOLEAN, answered : BOOLEAN]

(* A handler is to set the status, has set it, or leaves it.               *)
NoticeCall == [pc : {"standing", "decided", "notice"}, notice : NoticeIds, subject : Subjects,
               row : Notice, read : Notice]

ASSUME SuspensionConstantsOK == NoSubject \notin Subjects /\ NoCall \notin NoticeCall

SuspensionsInit ==
  /\ standing = [s \in Subjects |-> "active"]
  /\ notice = [n \in NoticeIds |-> [status |-> "none", subject |-> NoSubject,
                                    immediate |-> FALSE, answered |-> FALSE]]
  /\ unsettled = {}

Handled(n)   == \E p \in Procs : call[p] # NoCall /\ call[p].notice = n
Deciding(s)  == {p \in InFlight("decided") : call[p].subject = s}
InForce(row) == row.status \in {"suspended", "under_review"}
Enforced(s)  == {n \in NoticeIds : notice[n].subject = s /\ InForce(notice[n])}

(* vendors.controller.ts suspend, verify and revertToPending, the update   *)
(* of a rep, and any stale copy of the subject's row that they or others   *)
(* save: the status changes, and no notice does.                           *)
SetStatusElsewhere(s, status) ==
  /\ OneStep
  /\ standing' = [standing EXCEPT ![s] = status]
  /\ unsettled' = unsettled \cup {s}
  /\ UNCHANGED notice

-----------------------------------------------------------------------------
(* The notice is read.                                                     *)
Handle(p, n, s, pc, row) ==
  /\ Begin(p, [pc |-> pc, notice |-> n, subject |-> s, row |-> row, read |-> notice[n]])
  /\ UNCHANGED suspensionVars

IssueNotice(n, s) ==
  /\ OneStep
  /\ notice[n].status = "none" /\ ~Handled(n)
  /\ notice' = [notice EXCEPT ![n] = [@ EXCEPT !.status = "notice", !.subject = s]]
  /\ UNCHANGED <<standing, unsettled>>

ImmediateSuspend(p, n, s) ==
  /\ notice[n].status = "none" /\ ~Handled(n)
  /\ Handle(p, n, s, "standing",
            [status |-> "suspended", subject |-> s, immediate |-> TRUE, answered |-> FALSE])

Enforce(p, n) ==
  /\ notice[n].status = "notice"
  /\ Handle(p, n, notice[n].subject, "standing", [notice[n] EXCEPT !.status = "suspended"])

(* Mutant of DecideReview: the subject stays suspended.                    *)
DecideOnPaper(p, n, decision) ==
  /\ notice[n].status = "under_review"
  /\ Handle(p, n, notice[n].subject, "notice",
            [notice[n] EXCEPT !.status = IF decision = "overturned" THEN "reinstated" ELSE "suspended"])

(* Upheld changes the notice only.                                         *)
DecideReview(p, n, decision) ==
  /\ notice[n].status = "under_review"
  /\ IF decision = "overturned"
     THEN Handle(p, n, notice[n].subject, "standing", [notice[n] EXCEPT !.status = "reinstated"])
     ELSE Handle(p, n, notice[n].subject, "notice", [notice[n] EXCEPT !.status = "suspended"])

Withdraw(p, n) ==
  /\ notice[n].status = "notice"
  /\ Handle(p, n, notice[n].subject, "notice", [notice[n] EXCEPT !.status = "withdrawn"])

Respond(p, n) ==
  /\ notice[n].status = "notice"
  /\ Handle(p, n, notice[n].subject, "notice", [notice[n] EXCEPT !.answered = TRUE])

RequestReview(p, n) ==
  /\ notice[n].status = "suspended"
  /\ Handle(p, n, notice[n].subject, "notice", [notice[n] EXCEPT !.status = "under_review"])

-----------------------------------------------------------------------------
(* applySuspend, applyReactivate: the subject's status is saved ...        *)
SetStanding(p) ==
  /\ At(p, "standing")
  /\ LET c == call[p] IN
       /\ standing' = [standing EXCEPT ![c.subject] = IF InForce(c.row) THEN "suspended" ELSE "active"]
       /\ unsettled' = IF Deciding(c.subject) = {} THEN unsettled \ {c.subject}
                       ELSE unsettled \cup {c.subject}
  /\ Goto(p, "decided")
  /\ UNCHANGED notice

(* ... then the notice.                                                    *)
SaveNotice(p) ==
  /\ At(p, "decided") \/ At(p, "notice")
  /\ LET c == call[p] IN
       /\ notice' = [notice EXCEPT ![c.notice] = c.row]
       /\ unsettled' = IF notice[c.notice] # c.read \/ (c.row.status = "reinstated"
                                                        /\ Enforced(c.subject) # {c.notice})
                       THEN unsettled \cup {c.subject} ELSE unsettled
  /\ End(p)
  /\ UNCHANGED standing

HandlingDies(p) ==
  /\ Dies(p)
  /\ unsettled' = IF At(p, "decided") THEN unsettled \cup {call[p].subject} ELSE unsettled
  /\ UNCHANGED <<standing, notice>>

SuspensionsNext ==
  \/ \E s \in Subjects : \E status \in Standings : SetStatusElsewhere(s, status)
  \/ \E n \in NoticeIds, s \in Subjects : IssueNotice(n, s)
  \/ \E p \in Procs, n \in NoticeIds :
       \/ \E s \in Subjects : ImmediateSuspend(p, n, s)
       \/ Enforce(p, n) \/ Withdraw(p, n) \/ Respond(p, n) \/ RequestReview(p, n)
       \/ \E decision \in {"upheld", "overturned"} : DecideReview(p, n, decision)
  \/ \E p \in Procs : SetStanding(p) \/ SaveNotice(p) \/ HandlingDies(p)

SuspensionsSpec == RequestsInit /\ SuspensionsInit /\ [][SuspensionsNext]_<<suspensionVars, requestVars>>

SuspensionsTypeOK ==
  /\ standing \in [Subjects -> Standings]
  /\ notice \in [NoticeIds -> Notice] /\ unsettled \subseteq Subjects

(* "An internal review: uphold (stays suspended) or overturn (reinstate)":  *)
(* however many notices a subject has had, and whatever was responded to or *)
(* withdrawn meanwhile, it is suspended exactly while one of them is        *)
(* enforced or under review, unless it is unsettled; the next decision that *)
(* nothing disturbs settles it.                                             *)
NoticeTellsStanding ==
  \A s \in Subjects \ unsettled :
    Deciding(s) = {} => (standing[s] = "suspended" <=> Enforced(s) # {})
==============================================================================
