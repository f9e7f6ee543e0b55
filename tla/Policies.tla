------------------------------- MODULE Policies -------------------------------
(***************************************************************************)
(* Legal policies, their versions (policies.service.ts) and the users'     *)
(* consent (consent.service.ts).  A handler reads a row and saves it whole;*)
(* publishing is three saves.  policyOdd remembers the policies on which a *)
(* handler overwrote what another had saved, two publications overlapped,  *)
(* or a handler died half-way.                                             *)
(***************************************************************************)
EXTENDS Requests

CONSTANTS
  PolicyKeys, Readers,
  Texts,
  MaxVersions   \* bound: versions of a policy

VARIABLES policy, version, accepted, policyOdd

policyVars == <<policy, version, accepted, policyOdd>>

Numbers == 1..MaxVersions
PolicyRow  == [exists : BOOLEAN, active : BOOLEAN, current : 0..MaxVersions]
VersionRow == [status : {"none", "draft", "published", "archived"}, text : Texts, reconsent : BOOLEAN]
Acceptance == [user : Readers, key : PolicyKeys, number : Numbers, text : Texts]
NoVersion  == [status |-> "none", text |-> CHOOSE t \in Texts : TRUE, reconsent |-> FALSE]

PolicyCalls ==
  [pc : {"policy"}, key : PolicyKeys, row : PolicyRow, read : PolicyRow]
  \cup [pc : {"version"}, key : PolicyKeys, number : Numbers, row : VersionRow, read : VersionRow]
  \cup [pc : {"archive", "publish", "serve"}, key : PolicyKeys, number : Numbers,
        policy : PolicyRow, version : VersionRow]
  \cup [pc : {"seed"}, key : PolicyKeys]

ASSUME PolicyConstantsOK == MaxVersions \in Nat /\ Texts # {} /\ NoCall \notin PolicyCalls

PoliciesInit ==
  /\ policy = [k \in PolicyKeys |-> [exists |-> FALSE, active |-> TRUE, current |-> 0]]
  /\ version = [k \in PolicyKeys |-> [n \in Numbers |-> NoVersion]]
  /\ accepted = {} /\ policyOdd = {}

Odd(k, crossed) == policyOdd' = policyOdd \cup {j \in {k} : crossed}
Fresh(k)  == {n \in Numbers : version[k][n].status = "none" /\ \A m \in 1..(n-1) : version[k][m].status # "none"}
Served(k) == policy[k].active /\ policy[k].current # 0        \* getPublic, listPublic

-----------------------------------------------------------------------------
CreatePolicy(k) ==
  /\ OneStep
  /\ ~policy[k].exists
  /\ policy' = [policy EXCEPT ![k].exists = TRUE]
  /\ UNCHANGED <<version, accepted, policyOdd>>

UpdatePolicy(p, k, active) ==
  /\ policy[k].exists
  /\ Begin(p, [pc |-> "policy", key |-> k, row |-> [policy[k] EXCEPT !.active = active], read |-> policy[k]])
  /\ UNCHANGED policyVars

SavePolicy(p) ==
  /\ At(p, "policy")
  /\ LET c == call[p] IN policy' = [policy EXCEPT ![c.key] = c.row] /\ Odd(c.key, policy[c.key] # c.read)
  /\ End(p)
  /\ UNCHANGED <<version, accepted>>

(* persistNewDraft numbers the versions one after the other.               *)
CreateVersion(k, text, reconsent) ==
  /\ OneStep
  /\ policy[k].exists
  /\ \E n \in Fresh(k) :
       version' = [version EXCEPT ![k][n] = [status |-> "draft", text |-> text, reconsent |-> reconsent]]
  /\ UNCHANGED <<policy, accepted, policyOdd>>

(* Mutant of UpdateVersion: of published versions too.                     *)
UpdateAnyVersion(p, k, n, text) ==
  /\ version[k][n].status # "none"
  /\ Begin(p, [pc |-> "version", key |-> k, number |-> n, read |-> version[k][n],
               row |-> [version[k][n] EXCEPT !.text = text]])
  /\ UNCHANGED policyVars

(* adminUpdateVersion, of drafts only.                                     *)
UpdateVersion(p, k, n, text) ==
  /\ version[k][n].status = "draft"
  /\ Begin(p, [pc |-> "version", key |-> k, number |-> n, read |-> version[k][n],
               row |-> [version[k][n] EXCEPT !.text = text]])
  /\ UNCHANGED policyVars

SaveVersion(p) ==
  /\ At(p, "version")
  /\ LET c == call[p] IN
       /\ version' = [version EXCEPT ![c.key][c.number] = c.row]
       /\ Odd(c.key, version[c.key][c.number] # c.read)
  /\ End(p)
  /\ UNCHANGED <<policy, accepted>>

-----------------------------------------------------------------------------
(* adminPublishVersion, of a draft or an archived version ...              *)
ToPublish(k, n) ==
  [pc |-> "archive", key |-> k, number |-> n, policy |-> policy[k], version |-> version[k][n]]

Publishing(k) == {p \in InFlight("archive") \cup InFlight("publish") \cup InFlight("serve") : call[p].key = k}

PublishVersion(p, k, n) ==
  /\ version[k][n].status \in {"draft", "archived"}
  /\ Begin(p, ToPublish(k, n))
  /\ Odd(k, Publishing(k) # {})
  /\ UNCHANGED <<policy, version, accepted>>

(* ... archives what is published, ...                                     *)
ArchivePublished(p) ==
  /\ At(p, "archive")
  /\ version' = [version EXCEPT ![call[p].key] = [n \in Numbers |->
                   IF @[n].status = "published" THEN [@[n] EXCEPT !.status = "archived"] ELSE @[n]]]
  /\ Goto(p, "publish")
  /\ UNCHANGED <<policy, accepted, policyOdd>>

(* ... saves the version, ...                                              *)
SavePublished(p) ==
  /\ At(p, "publish")
  /\ LET c == call[p] IN
       /\ version' = [version EXCEPT ![c.key][c.number] = [c.version EXCEPT !.status = "published"]]
       /\ Odd(c.key, version[c.key][c.number] # c.version)
  /\ Goto(p, "serve")
  /\ UNCHANGED <<policy, accepted>>

(* ... and points the policy at it.                                        *)
ServePublished(p) ==
  /\ At(p, "serve")
  /\ LET c == call[p] IN
       /\ policy' = [policy EXCEPT ![c.key] = [c.policy EXCEPT !.current = c.number]]
       /\ Odd(c.key, policy[c.key] # c.policy)
  /\ End(p)
  /\ UNCHANGED <<version, accepted>>

(* seedInitial creates the policies that are missing, with a version, and  *)
(* publishes it; a policy it left half-way is there, and is skipped.       *)
SeedPolicy(p, k) ==
  /\ ~policy[k].exists
  /\ policy' = [policy EXCEPT ![k].exists = TRUE]
  /\ Begin(p, [pc |-> "seed", key |-> k])
  /\ UNCHANGED <<version, accepted, policyOdd>>

SeedVersion(p, text) ==
  /\ At(p, "seed")
  /\ LET k == call[p].key
         row == [status |-> "draft", text |-> text, reconsent |-> FALSE]
     IN \E n \in Fresh(k) :
          /\ version' = [version EXCEPT ![k][n] = row]
          /\ GotoState(p, [ToPublish(k, n) EXCEPT !.version = row])
          /\ Odd(k, Publishing(k) # {})
  /\ UNCHANGED <<policy, accepted>>

PolicyHandlerDies(p) ==
  /\ Dies(p)
  /\ Odd(call[p].key, TRUE)
  /\ UNCHANGED <<policy, version, accepted>>

-----------------------------------------------------------------------------
HasAccepted(u, k, n) == \E a \in accepted : a.user = u /\ a.key = k /\ a.number = n

(* getPending: never accepted, or not the current version which asks again.*)
Pending(u, k) ==
  /\ Served(k)
  /\ ~HasAccepted(u, k, policy[k].current)
  /\ (\E n \in Numbers : HasAccepted(u, k, n)) => version[k][policy[k].current].reconsent

(* accept: once per version, with the text of the moment.                  *)
Accept(u, k) ==
  /\ OneStep
  /\ policy[k].current # 0 /\ ~HasAccepted(u, k, policy[k].current)
  /\ accepted' = accepted \cup {[user |-> u, key |-> k, number |-> policy[k].current,
                                 text |-> version[k][policy[k].current].text]}
  /\ UNCHANGED <<policy, version, policyOdd>>

PoliciesNext ==
  \/ \E k \in PolicyKeys :
       \/ CreatePolicy(k)
       \/ \E t \in Texts, r \in BOOLEAN : CreateVersion(k, t, r)
       \/ \E u \in Readers : Accept(u, k)
       \/ \E p \in Procs : \/ SeedPolicy(p, k)
                           \/ \E b \in BOOLEAN : UpdatePolicy(p, k, b)
                           \/ \E n \in Numbers : \/ PublishVersion(p, k, n)
                                                 \/ \E t \in Texts : UpdateVersion(p, k, n, t)
  \/ \E p \in Procs :
       \/ SavePolicy(p) \/ SaveVersion(p)
       \/ ArchivePublished(p) \/ SavePublished(p) \/ ServePublished(p)
       \/ \E t \in Texts : SeedVersion(p, t)
       \/ PolicyHandlerDies(p)

PoliciesSpec == RequestsInit /\ PoliciesInit /\ [][PoliciesNext]_<<policyVars, requestVars>>

-----------------------------------------------------------------------------
PoliciesTypeOK ==
  /\ policy \in [PolicyKeys -> PolicyRow] /\ version \in [PolicyKeys -> [Numbers -> VersionRow]]
  /\ accepted \subseteq Acceptance /\ policyOdd \subseteq PolicyKeys

(* "A user's recorded consent always resolves to the exact text they       *)
(* agreed to", and a policy "names the version currently served": but for  *)
(* policies on which handlers crossed, the version a user accepted still   *)
(* has the text of then, and with no publication under way the version a   *)
(* policy points at is published and no other one is.                      *)
ConsentResolves ==
  /\ \A a \in accepted : a.key \notin policyOdd => version[a.key][a.number].text = a.text
  /\ \A k \in PolicyKeys \ policyOdd : Publishing(k) = {} =>
       \A n \in Numbers : version[k][n].status = "published" <=> policy[k].current = n
==============================================================================
