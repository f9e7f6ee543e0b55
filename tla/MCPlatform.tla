----------------------------- MODULE MCPlatform -----------------------------
(* The services around people, companies and content share no state: each  *)
(* behaviour exercises one of them, chosen at the start, with at most      *)
(* Bound calls.                                                            *)
EXTENDS SalesReps, Teams, Companies, Accounts, Addresses, Suspensions, Policies, Notifications,
        Blog, TLC

CONSTANTS p1, p2, u1, u2, c1, c2, t1, t2, b1, x1, f1, y1, y2, a1, a2, n1, n2, k1, w1, w2

VARIABLE service

MCOwnerOf == c1 :> u1 @@ c2 :> u2

Bound == [sales |-> 5, teams |-> 4, companies |-> 4, accounts |-> 3, addresses |-> 6,
          suspensions |-> 6, policies |-> 5, notices |-> 2, blog |-> 6]

vars == <<service, salesVars, teamVars, companyVars, accountVars, addressVars, suspensionVars,
          policyVars, noticeVars, blogVars, requestVars>>

Init ==
  /\ service \in DOMAIN Bound
  /\ call = [p \in Procs |-> NoCall] /\ deaths = 0
  /\ calls = MaxCalls - Bound[service]    \* so that Bound[service] are left
  /\ SalesInit /\ TeamsInit /\ CompaniesInit /\ AccountsInit /\ AddressesInit
  /\ SuspensionsInit /\ PoliciesInit /\ NoticesInit /\ BlogInit
  \* The services that are idle start in one state.
  /\ service # "sales" => rule = 1 /\ \A a \in Agents : agent[a] = Stranger
  /\ service # "companies" => \A c \in CompanyIds : ~Exists(c) /\ account[OwnerOf[c]] = "none"
  /\ Found(u1) /\ (Exists(c2) => Exists(c1))    \* people, and companies, are alike
  /\ service # "notices" => /\ \A t \in Rows : stored[t] = "missing"
                            /\ \A r \in Recipients : contact[r] = {"email"}

Is(name) == service = name /\ UNCHANGED service

Next ==
  \/ Is("sales") /\ SalesNext
       /\ UNCHANGED <<teamVars, companyVars, accountVars, addressVars, suspensionVars, policyVars, noticeVars, blogVars>>
  \/ Is("teams") /\ TeamsNext
       /\ UNCHANGED <<salesVars, companyVars, accountVars, addressVars, suspensionVars, policyVars, noticeVars, blogVars>>
  \/ Is("companies") /\ CompaniesNext
       /\ UNCHANGED <<salesVars, teamVars, accountVars, addressVars, suspensionVars, policyVars, noticeVars, blogVars>>
  \/ Is("accounts") /\ AccountsNext
       /\ UNCHANGED <<salesVars, teamVars, companyVars, addressVars, suspensionVars, policyVars, noticeVars, blogVars>>
  \/ Is("addresses") /\ AddressesNext
       /\ UNCHANGED <<salesVars, teamVars, companyVars, accountVars, suspensionVars, policyVars, noticeVars, blogVars>>
  \/ Is("suspensions") /\ SuspensionsNext
       /\ UNCHANGED <<salesVars, teamVars, companyVars, accountVars, addressVars, policyVars, noticeVars, blogVars>>
  \/ Is("policies") /\ PoliciesNext
       /\ UNCHANGED <<salesVars, teamVars, companyVars, accountVars, addressVars, suspensionVars, noticeVars, blogVars>>
  \/ Is("notices") /\ NoticesNext
       /\ UNCHANGED <<salesVars, teamVars, companyVars, accountVars, addressVars, suspensionVars, policyVars, blogVars>>
  \/ Is("blog") /\ BlogNext
       /\ UNCHANGED <<salesVars, teamVars, companyVars, accountVars, addressVars, suspensionVars, policyVars, noticeVars>>

Spec == Init /\ [][Next]_vars

TypeOK ==
  /\ SalesTypeOK /\ TeamsTypeOK /\ CompaniesTypeOK /\ AccountsTypeOK /\ AddressesTypeOK
  /\ SuspensionsTypeOK /\ PoliciesTypeOK /\ NoticesTypeOK /\ BlogTypeOK

Symmetry == Permutations(Procs)
==============================================================================
